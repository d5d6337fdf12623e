--------------------------- MODULE ServiceProofs ---------------------------
(***************************************************************************)
(* The service across restarts, for any number of calls, tasks, crashes    *)
(* and failed statements: a repeated key is answered by its own answer, a  *)
(* cached allow was granted, a pin comes from a decide call, and the store *)
(* is never ahead of the process.                                          *)
(***************************************************************************)
EXTENDS Service, GateProofs, TtlStoreProofs

\* A call whose process died, and a call answered by a kept answer.
Lost == [phase : {"lost"}, request : Requests, workspace : Workspaces, floor : Floor \cup {Silent}]

Repeated == [phase : {"replayed"}, request : Requests, workspace : {NoWorkspace}, of : Calls, at : Nat]

CallState == {NoCall} \cup Reviewing \cup Answered \cup Lost \cup Repeated

Row == [bare : BOOLEAN, state : SessionState(Workspaces)]

Stages == {"none", "queued", "inserting", "skipped", "rejected", "caching", "stored", "failed", "dead"}

Upsert == [at : {"upserting"}, row : [bare : {FALSE}, state : SessionState(Workspaces)]]

Task == [at : Stages] \cup Upsert

\* How much longer than a TTL a restart may make an entry live.
Slack == (Second - 1) + RestoreTime

\* What the replay store may hold of the calls f: an answer, under its slot,
\* for a TTL and no more than the slack.
Kept(f) ==
  {e \in [key : {Slot(r) : r \in Requests}, value : Calls, expires : Nat] :
     /\ f[e.value].phase = "done"
     /\ e.key = Slot(f[e.value].request)
     /\ f[e.value].at + TTL <= e.expires
     /\ e.expires <= f[e.value].at + (TTL + Slack)}

ServiceTypeOK ==
  /\ session \in [SessionIds -> SessionState(Workspaces)]
  /\ allowCache \subseteq CacheEntry
  /\ call \in [Calls -> CallState]
  /\ clock \in Nat
  /\ replay \in Store(Kept(call))
  /\ work \in [Calls -> Task]
  /\ rows \subseteq Done /\ IsFiniteSet(rows)
  /\ sessionRow \in [SessionIds -> Row]
  /\ cacheRow \subseteq CacheEntry

\* A call at the classifier holds the workspace its session is pinned to.
ReviewsArePinned ==
  \A c \in Calls : call[c].phase = "review" /\ call[c].request.session # NoSession =>
    session[call[c].request.session].workspace = call[c].workspace

\* What is known of session s comes from a decide call of it, or is nothing.
Traced(f, s, state) ==
  IF state.workspace = NoWorkspace
  THEN state.decisionsTotal = 0 /\ state.denyTotal = 0
  ELSE \E c \in Calls : /\ f[c].phase # "new"
                        /\ f[c].workspace # NoWorkspace
                        /\ f[c].request.session = s
                        /\ Detect(f[c].request.cwd) = state.workspace

\* A state counts no more than another.
Within(state, other) ==
  /\ state.decisionsTotal <= other.decisionsTotal
  /\ state.denyTotal <= other.denyTotal

SessionsAreTraced == \A s \in SessionIds : Traced(call, s, session[s])

\* A row is no more than the process knows, and a bare one is nothing.
RowsAreBehind ==
  \A s \in SessionIds :
    /\ Within(sessionRow[s].state, session[s])
    /\ IF sessionRow[s].bare THEN Within(sessionRow[s].state, Unopened)
                             ELSE Traced(call, s, sessionRow[s].state)

UpsertsAreBehind ==
  \A c \in Calls : work[c].at = "upserting" =>
    /\ Within(work[c].row.state, session[call[c].request.session])
    /\ Traced(call, call[c].request.session, work[c].row.state)

\* A call's task begins once it is answered, and does what its answer calls for.
TasksFollowAnswers ==
  \A c \in Calls :
    /\ work[c].at # "none" => call[c].phase = "done"
    /\ work[c].at = "upserting" => HasState(c)
    /\ work[c].at = "caching" => IsCacheable(c)

\* A cache entry repeats an allow the calls f were granted.
Granted(f, e) ==
  /\ f[e.id].phase = "done"
  /\ ~f[e.id].cached
  /\ f[e.id].verdict.decision = "allow"
  /\ f[e.id].request.session = e.session
  /\ CacheKey(f[e.id].request) = e.key

EntriesAreGranted ==
  /\ \A e \in allowCache : Granted(call, e)
  /\ \A e \in cacheRow : Granted(call, e)

\* What ReplaysItsOwnAnswer and CachedAllowWasGranted say of one call x.
OwnAnswer(f, x) ==
  /\ f[x.of].phase = "done"
  /\ Slot(f[x.of].request) = Slot(x.request)
  /\ Identity(f[x.of].request) = Identity(x.request)
  /\ f[x.of].at <= x.at
  /\ x.at < f[x.of].at + (TTL + Slack)

HasGrant(f, x) ==
  \E g \in Calls :
    /\ f[g].phase = "done"
    /\ ~f[g].cached
    /\ f[g].verdict.decision = "allow"
    /\ f[g].request.session = x.request.session
    /\ CacheKey(f[g].request) = CacheKey(x.request)
    /\ f[g].at <= x.at

AnswersAreJust ==
  \A c \in Calls :
    /\ call[c].phase = "done" => call[c].at <= clock
    /\ call[c].phase = "replayed" => OwnAnswer(call, call[c])
    /\ call[c].phase = "done" /\ call[c].cached => HasGrant(call, call[c])

SInv ==
  /\ ServiceTypeOK
  /\ ReviewsArePinned
  /\ SessionsAreTraced
  /\ RowsAreBehind
  /\ UpsertsAreBehind
  /\ TasksFollowAnswers
  /\ EntriesAreGranted
  /\ AnswersAreJust

-----------------------------------------------------------------------------
\* Answers stand: what every step of the service leaves of the calls f in g.
Stands(f, g) ==
  \A c \in Calls :
    /\ f[c].phase = "done" => g[c] = f[c]
    /\ f[c].phase # "new" /\ f[c].workspace # NoWorkspace =>
         g[c].phase # "new" /\ g[c].workspace # NoWorkspace /\ g[c].request = f[c].request

LEMMA StandingStays ==
  ASSUME NEW f, NEW g, Stands(f, g)
  PROVE  /\ Kept(f) \subseteq Kept(g)
         /\ \A s, x : Traced(f, s, x) => Traced(g, s, x)
         /\ \A e : e.id \in Calls /\ Granted(f, e) => Granted(g, e)
         /\ \A x : x.of \in Calls /\ OwnAnswer(f, x) => OwnAnswer(g, x)
         /\ \A x : HasGrant(f, x) => HasGrant(g, x)
<1>1. Kept(f) \subseteq Kept(g)
  BY DEF Stands, Kept
<1>2. ASSUME NEW s, NEW x, Traced(f, s, x) PROVE Traced(g, s, x)
  BY <1>2 DEF Stands, Traced
<1>3. ASSUME NEW e, e.id \in Calls, Granted(f, e) PROVE Granted(g, e)
  BY <1>3 DEF Stands, Granted
<1>4. ASSUME NEW x, x.of \in Calls, OwnAnswer(f, x) PROVE OwnAnswer(g, x)
  BY <1>4 DEF Stands, OwnAnswer
<1>5. ASSUME NEW x, HasGrant(f, x) PROVE HasGrant(g, x)
  BY <1>5 DEF Stands, HasGrant
<1> QED
  BY <1>1, <1>2, <1>3, <1>4, <1>5

LEMMA SlackType == Slack \in Nat /\ TTL \in Nat
  BY ServiceAssumption, GateAssumption DEF Slack

LEMMA CallTypes ==
  ASSUME ServiceTypeOK, NEW c \in Calls
  PROVE  /\ call[c].phase = "new" <=> call[c] = NoCall
         /\ call[c].phase = "review" => call[c] \in Reviewing
         /\ call[c].phase = "done" => call[c] \in Answered
         /\ call[c].phase = "lost" => call[c] \in Lost
         /\ call[c].phase = "replayed" => call[c] \in Repeated
<1>1. call[c] \in CallState
  BY DEF ServiceTypeOK
<1> QED
  BY <1>1 DEF CallState, NoCall, Reviewing, Answered, Lost, Repeated

LEMMA WithinIsAnOrder ==
  /\ \A x \in SessionState(Workspaces) : Within(x, x)
  /\ \A x, y, z \in SessionState(Workspaces) : Within(x, y) /\ Within(y, z) => Within(x, z)
  BY DEF Within, SessionState

-----------------------------------------------------------------------------

\* One step of the gate for call c with request r, which leaves the call at x.

\* The step opens the request's session and counts on it, and touches no other.
SessionGrows(r, x) ==
  /\ session' \in [SessionIds -> SessionState(Workspaces)]
  /\ \A s \in SessionIds :
       \/ session'[s] = session[s]
       \/ /\ s = r.session
          /\ Within(session[s], session'[s])
          /\ session'[s].workspace = x.workspace
          /\ x.workspace # NoWorkspace
          /\ \/ session[s].workspace = x.workspace
             \/ session[s].workspace = NoWorkspace /\ x.workspace = Detect(r.cwd)
  /\ x.phase = "review" /\ r.session # NoSession => session'[r.session].workspace = x.workspace

GateStep(c, r, x) ==
  /\ x \in Reviewing \cup Answered
  /\ x.request = r
  /\ \/ call[c] = NoCall
     \/ call[c].phase = "review" /\ call[c].request = r /\ call[c].workspace = x.workspace
  /\ call' = [call EXCEPT ![c] = x]
  /\ UNCHANGED clock
  /\ SessionGrows(r, x)
  /\ x.phase = "done" => x.at = clock /\ (x.cached => Hits(r) # {})
  /\ \A e \in allowCache' :
       \/ e \in allowCache
       \/ /\ e \in CacheEntry
          /\ e.id = c /\ e.session = r.session /\ e.key = CacheKey(r)
          /\ x.phase = "done" /\ ~x.cached /\ x.verdict.decision = "allow"

LEMMA SessionOpens ==
  ASSUME ServiceTypeOK, SessionsAreTraced, NEW r \in Requests, r.session # NoSession
  PROVE  /\ r.session \in SessionIds
         /\ session[r.session] \in SessionState(Workspaces)
         /\ Opened(r) \in SessionState(Workspaces)
         /\ Opened(r).workspace \in Workspaces
         /\ Opened(r).workspace = WorkspaceFor(r)
         /\ Within(session[r.session], Opened(r))
         /\ \/ session[r.session].workspace = Opened(r).workspace
            \/ session[r.session].workspace = NoWorkspace /\ Opened(r).workspace = Detect(r.cwd)
<1>1. r.session \in SessionIds
  BY DEF SessionIds
<1>2. session[r.session] \in SessionState(Workspaces) /\ Traced(call, r.session, session[r.session])
  BY <1>1 DEF ServiceTypeOK, SessionsAreTraced
<1>3. session[r.session].workspace \in Workspaces \cup {NoWorkspace}
  BY <1>2 DEF SessionState
<1>4. Detect(r.cwd) \in Workspaces
  BY GateAssumption
<1>5. CASE session[r.session].workspace = NoWorkspace
  <2>1. session[r.session].decisionsTotal = 0 /\ session[r.session].denyTotal = 0
    BY <1>2, <1>5 DEF Traced
  <2>2. Opened(r) = NewSession(Detect(r.cwd))
    BY <1>5 DEF Opened
  <2>3. Within(session[r.session], NewSession(Detect(r.cwd)))
    BY <2>1 DEF Within, NewSession
  <2> QED
    BY <1>1, <1>2, <1>4, <1>5, <2>2, <2>3, NewSessionType DEF WorkspaceFor
<1>6. CASE session[r.session].workspace # NoWorkspace
  <2>1. Opened(r) = session[r.session]
    BY <1>6 DEF Opened
  <2> QED
    BY <1>1, <1>2, <1>3, <1>6, <2>1, WithinIsAnOrder DEF WorkspaceFor
<1> QED
  BY <1>5, <1>6

LEMMA WorkspaceIsDetected ==
  ASSUME ServiceTypeOK, SessionsAreTraced, NEW r \in Requests
  PROVE  WorkspaceFor(r) \in Workspaces
<1>1. CASE r.session = NoSession
  BY <1>1, GateAssumption DEF WorkspaceFor
<1>2. CASE r.session # NoSession
  BY <1>2, SessionOpens
<1> QED
  BY <1>1, <1>2

\* A verdict that is settled on a state no younger than the session's.
LEMMA SettleIsAGateStep ==
  ASSUME ServiceTypeOK, NEW c \in Calls, NEW r \in Requests, NEW w \in Workspaces,
         NEW v \in Verdict, NEW state \in SessionState(Workspaces),
         NEW entries \in SUBSET allowCache,
         \/ call[c] = NoCall
         \/ call[c].phase = "review" /\ call[c].request = r /\ call[c].workspace = w,
         r.session # NoSession =>
           /\ state.workspace = w
           /\ Within(session[r.session], state)
           /\ \/ session[r.session].workspace = w
              \/ session[r.session].workspace = NoWorkspace /\ w = Detect(r.cwd),
         Settle(c, r, w, v, state, entries)
  PROVE  \E x : GateStep(c, r, x) /\ x.phase = "done"
<1> DEFINE escalates == r.session # NoSession /\ Escalates(state, v)
           final     == IF escalates THEN Escalated(v) ELSE v
           counted   == IF escalates THEN ResetAfterEscalation(state) ELSE state
           x         == [phase |-> "done", request |-> r, workspace |-> w, verdict |-> final,
                         cached |-> FALSE, at |-> clock]
           entry     == [session |-> r.session, key |-> CacheKey(r), id |-> c,
                         expires |-> clock + TTL]
           after     == Record(counted, final.decision)
<1>1. final \in Verdict /\ final.decision \in Decision
  BY EscalatedType, GateAssumption DEF Verdict
<1>2. /\ counted \in SessionState(Workspaces) /\ counted.workspace = state.workspace
      /\ counted.decisionsTotal = state.decisionsTotal /\ counted.denyTotal = state.denyTotal
  BY ResetType, ResetFields
<1>3. /\ after \in SessionState(Workspaces) /\ after.workspace = state.workspace
      /\ after.decisionsTotal = counted.decisionsTotal + 1
      /\ after.denyTotal = IF final.decision = "deny" THEN counted.denyTotal + 1 ELSE counted.denyTotal
  BY <1>1, <1>2, RecordType, RecordFields
<1>4. /\ call' = [call EXCEPT ![c] = x]
      /\ clock' = clock
      /\ r.session = NoSession => session' = session /\ allowCache' = entries
      /\ r.session # NoSession =>
           /\ session' = [session EXCEPT ![r.session] = after]
           /\ allowCache' = IF final.decision = "allow" THEN CachePut(entries, r, c) ELSE entries
  BY DEF Settle
<1> HIDE DEF final, counted, after
<1>5. x \in Answered /\ clock \in Nat
  BY <1>1 DEF Answered, ServiceTypeOK
<1>6. Within(state, after)
  BY <1>2, <1>3 DEF Within, SessionState
<1>7. session \in [SessionIds -> SessionState(Workspaces)] /\ w # NoWorkspace
  BY GateAssumption DEF ServiceTypeOK
<1>8. r.session # NoSession => r.session \in SessionIds
  BY DEF SessionIds
<1>9. SessionGrows(r, x)
  <2>1. CASE r.session = NoSession
    BY <1>4, <1>7, <2>1 DEF SessionGrows
  <2>2. CASE r.session # NoSession
    <3>1. session' \in [SessionIds -> SessionState(Workspaces)]
          /\ session'[r.session] = after
          /\ \A s \in SessionIds : s # r.session => session'[s] = session[s]
      BY <1>3, <1>4, <1>7, <1>8, <2>2
    <3>2. Within(session[r.session], after)
      BY <1>3, <1>6, <1>7, <1>8, <2>2, WithinIsAnOrder
    <3> QED
      BY <1>3, <1>7, <2>2, <3>1, <3>2 DEF SessionGrows
  <2> QED
    BY <2>1, <2>2
<1>10. ASSUME NEW e \in allowCache', e \notin allowCache
       PROVE  /\ e \in CacheEntry
              /\ e.id = c /\ e.session = r.session /\ e.key = CacheKey(r)
              /\ final.decision = "allow"
  <2>1. e = entry /\ final.decision = "allow" /\ r.session # NoSession
    BY <1>4, <1>10 DEF CachePut
  <2>2. entry \in CacheEntry
    BY <1>5, <1>8, <2>1, GateAssumption DEF CacheEntry, CacheKeys
  <2> QED
    BY <2>1, <2>2
<1>11. /\ x.request = r /\ x.workspace = w /\ x.phase = "done" /\ x.at = clock /\ ~x.cached
       /\ x.verdict = final
  OBVIOUS
<1> HIDE DEF x
<1>12. GateStep(c, r, x)
  BY <1>4, <1>5, <1>9, <1>10, <1>11 DEF GateStep
<1> QED
  BY <1>11, <1>12

LEMMA RefuseIsAGateStep ==
  ASSUME ServiceTypeOK, NEW c \in Calls, NEW r \in Requests, Refuse(c, r)
  PROVE  \E x : GateStep(c, r, x)
<1>1. PICK rule \in {"api.unknown-profile", "api.unknown-model"} :
        call' = [call EXCEPT ![c] = [phase |-> "done", request |-> r, workspace |-> NoWorkspace,
                                     verdict |-> Ask(rule, 0, FALSE), cached |-> FALSE,
                                     at |-> clock]]
  BY DEF Refuse
<1> DEFINE x == [phase |-> "done", request |-> r, workspace |-> NoWorkspace,
                 verdict |-> Ask(rule, 0, FALSE), cached |-> FALSE, at |-> clock]
<1>2. UNCHANGED <<session, allowCache, clock>> /\ call[c] = NoCall
  BY DEF Refuse
<1>3. Ask(rule, 0, FALSE) \in Verdict
  BY GateAssumption DEF Ask, Verdict, Decision
<1>4. x \in Answered
  BY <1>3 DEF Answered, ServiceTypeOK
<1>5. x.request = r /\ x.phase = "done" /\ x.at = clock /\ ~x.cached
  OBVIOUS
<1>6. call' = [call EXCEPT ![c] = x]
  BY <1>1
<1> HIDE DEF x
<1>7. SessionGrows(r, x)
  BY <1>2, <1>5 DEF SessionGrows, ServiceTypeOK
<1>8. GateStep(c, r, x)
  BY <1>2, <1>4, <1>5, <1>6, <1>7 DEF GateStep
<1> QED
  BY <1>8

LEMMA CacheIsAGateStep ==
  ASSUME ServiceTypeOK, SessionsAreTraced, NEW c \in Calls, NEW r \in Requests,
         AnswerFromCache(c, r)
  PROVE  \E x : GateStep(c, r, x)
<1> DEFINE w == WorkspaceFor(r)
           x == [phase |-> "done", request |-> r, workspace |-> w,
                 verdict |-> Allow("cache", 0), cached |-> TRUE, at |-> clock]
<1>1. /\ UNCHANGED <<allowCache, clock>> /\ call[c] = NoCall
      /\ r.session # NoSession /\ Hits(r) # {}
      /\ session' = [session EXCEPT ![r.session] = Opened(r)]
      /\ call' = [call EXCEPT ![c] = x]
  BY DEF AnswerFromCache
<1>2. w \in Workspaces /\ w # NoWorkspace
  BY WorkspaceIsDetected, GateAssumption
<1>3. Allow("cache", 0) \in Verdict
  BY GateAssumption DEF Allow, Verdict, Decision
<1>4. x \in Answered
  BY <1>2, <1>3 DEF Answered, ServiceTypeOK
<1>5. x.request = r /\ x.phase = "done" /\ x.at = clock /\ x.workspace = w
  OBVIOUS
<1> HIDE DEF x, w
<1>6. SessionGrows(r, x)
  <2>1. session \in [SessionIds -> SessionState(Workspaces)]
    BY DEF ServiceTypeOK
  <2>2. /\ r.session \in SessionIds
        /\ Opened(r) \in SessionState(Workspaces)
        /\ Opened(r).workspace = w
        /\ Within(session[r.session], Opened(r))
        /\ \/ session[r.session].workspace = w
           \/ session[r.session].workspace = NoWorkspace /\ w = Detect(r.cwd)
    BY <1>1, SessionOpens DEF w
  <2>3. /\ session' \in [SessionIds -> SessionState(Workspaces)]
        /\ session'[r.session] = Opened(r)
        /\ \A s \in SessionIds : s # r.session => session'[s] = session[s]
    BY <1>1, <2>1, <2>2
  <2> QED
    BY <1>2, <1>5, <2>2, <2>3 DEF SessionGrows
<1>7. GateStep(c, r, x)
  BY <1>1, <1>4, <1>5, <1>6 DEF GateStep
<1> QED
  BY <1>7

LEMMA Stage1IsAGateStep ==
  ASSUME ServiceTypeOK, SessionsAreTraced, NEW c \in Calls, NEW r \in Requests,
         SettleAtStage1(c, r)
  PROVE  \E x : GateStep(c, r, x)
<1> DEFINE w       == WorkspaceFor(r)
           v       == Settled(Stage1(r, w))
           state   == IF r.session = NoSession THEN Unopened ELSE Opened(r)
           entries == allowCache \ Expired(r)
<1>1. call[c] = NoCall /\ v # Silent /\ Settle(c, r, w, v, state, entries)
  BY DEF SettleAtStage1
<1>2. w \in Workspaces
  BY WorkspaceIsDetected
<1>3. v \in Verdict
  BY <1>1, <1>2, Stage1Type, SettledType
<1>4. state \in SessionState(Workspaces)
  BY NewSessionType, SessionOpens DEF Unopened
<1>5. r.session # NoSession =>
        /\ state.workspace = w
        /\ Within(session[r.session], state)
        /\ \/ session[r.session].workspace = w
           \/ session[r.session].workspace = NoWorkspace /\ w = Detect(r.cwd)
  BY SessionOpens
<1>6. entries \in SUBSET allowCache
  OBVIOUS
<1> HIDE DEF w, v, state, entries
<1> QED
  BY <1>1, <1>2, <1>3, <1>4, <1>5, <1>6, SettleIsAGateStep

LEMMA AskIsAGateStep ==
  ASSUME ServiceTypeOK, SessionsAreTraced, NEW c \in Calls, NEW r \in Requests,
         AskClassifier(c, r)
  PROVE  \E x : GateStep(c, r, x)
<1> DEFINE w == WorkspaceFor(r)
           x == [phase |-> "review", request |-> r, workspace |-> w,
                 floor |-> Stage1(r, w).floor]
<1>1. /\ UNCHANGED clock /\ call[c] = NoCall
      /\ allowCache' \subseteq allowCache
      /\ session' = IF r.session = NoSession THEN session
                    ELSE [session EXCEPT ![r.session] = Opened(r)]
      /\ call' = [call EXCEPT ![c] = x]
  BY DEF AskClassifier
<1>2. w \in Workspaces /\ w # NoWorkspace
  BY WorkspaceIsDetected, GateAssumption
<1>3. x \in Reviewing
  BY <1>2, Stage1Type DEF Reviewing
<1>4. x.request = r /\ x.phase = "review" /\ x.workspace = w
  OBVIOUS
<1> HIDE DEF x, w
<1>5. SessionGrows(r, x)
  <2>1. session \in [SessionIds -> SessionState(Workspaces)]
    BY DEF ServiceTypeOK
  <2>2. CASE r.session = NoSession
    BY <1>1, <2>1, <2>2 DEF SessionGrows
  <2>3. CASE r.session # NoSession
    <3>1. /\ r.session \in SessionIds
          /\ Opened(r) \in SessionState(Workspaces)
          /\ Opened(r).workspace = w
          /\ Within(session[r.session], Opened(r))
          /\ \/ session[r.session].workspace = w
             \/ session[r.session].workspace = NoWorkspace /\ w = Detect(r.cwd)
      BY <2>3, SessionOpens DEF w
    <3>2. /\ session' \in [SessionIds -> SessionState(Workspaces)]
          /\ session'[r.session] = Opened(r)
          /\ \A s \in SessionIds : s # r.session => session'[s] = session[s]
      BY <1>1, <2>1, <2>3, <3>1
    <3> QED
      BY <1>2, <1>4, <3>1, <3>2 DEF SessionGrows
  <2> QED
    BY <2>2, <2>3
<1>6. GateStep(c, r, x)
  BY <1>1, <1>3, <1>4, <1>5 DEF GateStep
<1> QED
  BY <1>6

LEMMA ClassifierIsAGateStep ==
  ASSUME ServiceTypeOK, ReviewsArePinned, NEW c \in Calls, ClassifierAnswers(c)
  PROVE  \E x : GateStep(c, call[c].request, x) /\ x.phase = "done"
<1> DEFINE r     == call[c].request
           w     == call[c].workspace
           f     == call[c].floor
           state == IF r.session = NoSession THEN Unopened ELSE session[r.session]
<1>1. /\ call[c].phase = "review"
      /\ r \in Requests /\ w \in Workspaces /\ f \in Floor \cup {Silent}
  BY CallTypes DEF ClassifierAnswers, Reviewing
<1>2. PICK v \in Review : Settle(c, r, w, RaisedTo(v, f), state, allowCache)
  BY DEF ClassifierAnswers
<1>3. RaisedTo(v, f) \in Verdict
  BY <1>1, RaisedToType, GateAssumption
<1>4. r.session # NoSession => session[r.session] \in SessionState(Workspaces)
  BY <1>1 DEF ServiceTypeOK, SessionIds
<1>5. state \in SessionState(Workspaces)
  BY <1>4, NewSessionType DEF Unopened
<1>6. r.session # NoSession =>
        /\ state.workspace = w
        /\ Within(session[r.session], state)
        /\ session[r.session].workspace = w
  BY <1>1, <1>4, WithinIsAnOrder DEF ReviewsArePinned
<1> HIDE DEF state
<1> DEFINE u == RaisedTo(v, f)
           entries == allowCache
<1>7. /\ u \in Verdict /\ entries \in SUBSET allowCache /\ Settle(c, r, w, u, state, entries)
      /\ call[c].phase = "review" /\ call[c].request = r /\ call[c].workspace = w
  BY <1>1, <1>2, <1>3
<1> HIDE DEF r, w, u, entries
<1>8. \E x : GateStep(c, r, x) /\ x.phase = "done"
  BY <1>1, <1>5, <1>6, <1>7, SettleIsAGateStep
<1> QED
  BY <1>8 DEF r

\* What a step of the gate leaves of the calls and the sessions.
LEMMA GateStepFrame ==
  ASSUME ServiceTypeOK, NEW c \in Calls, NEW r \in Requests, NEW x, GateStep(c, r, x)
  PROVE  /\ call' \in [Calls -> CallState]
         /\ call'[c] = x /\ call[c].phase \in {"new", "review"}
         /\ \A d \in Calls : d # c => call'[d] = call[d]
         /\ Stands(call, call')
         /\ \A s \in SessionIds : Within(session[s], session'[s])
<1>1. /\ call \in [Calls -> CallState]
      /\ session \in [SessionIds -> SessionState(Workspaces)]
  BY DEF ServiceTypeOK
<1>2. x \in CallState /\ call' = [call EXCEPT ![c] = x] /\ x.request = r /\ x.phase # "new"
  BY DEF GateStep, CallState, Reviewing, Answered
<1>3. call' \in [Calls -> CallState] /\ call'[c] = x /\ \A d \in Calls : d # c => call'[d] = call[d]
  BY <1>1, <1>2
<1>4. call[c].phase \in {"new", "review"}
  BY DEF GateStep, NoCall
<1>5. call[c].phase = "new" \/ (call[c].request = r /\ call[c].workspace = x.workspace)
  BY DEF GateStep, NoCall
<1>6. Stands(call, call')
  BY <1>2, <1>3, <1>4, <1>5 DEF Stands
<1>7. \A s \in SessionIds : Within(session[s], session'[s])
  BY <1>1, WithinIsAnOrder DEF GateStep, SessionGrows
<1> QED
  BY <1>3, <1>4, <1>6, <1>7

LEMMA GateStepSInv ==
  ASSUME SInv, NEW c \in Calls, NEW r \in Requests, NEW x, GateStep(c, r, x),
         replay' \in Store(Kept(call')), UNCHANGED store,
         work' = IF x.phase = "done" THEN [work EXCEPT ![c] = At("queued")] ELSE work
  PROVE  SInv'
<1>1. /\ call' \in [Calls -> CallState]
      /\ call'[c] = x /\ call[c].phase \in {"new", "review"}
      /\ \A d \in Calls : d # c => call'[d] = call[d]
      /\ Stands(call, call')
      /\ \A s \in SessionIds : Within(session[s], session'[s])
  BY GateStepFrame DEF SInv
<1>2. /\ session \in [SessionIds -> SessionState(Workspaces)]
      /\ session' \in [SessionIds -> SessionState(Workspaces)]
      /\ work \in [Calls -> Task] /\ sessionRow \in [SessionIds -> Row]
      /\ clock' = clock /\ clock \in Nat
      /\ rows' = rows /\ sessionRow' = sessionRow /\ cacheRow' = cacheRow
      /\ x.request = r /\ x.phase \in {"review", "done"}
  BY DEF SInv, ServiceTypeOK, GateStep, SessionGrows, store, Reviewing, Answered
<1>3. /\ work[c].at = "none"
      /\ work'[c].at \in {"none", "queued"}
      /\ x.phase = "review" => work'[c].at = "none"
      /\ \A d \in Calls : d # c => work'[d] = work[d]
  BY <1>1, <1>2 DEF SInv, TasksFollowAnswers, At
<1>4. ServiceTypeOK'
  <2>1. allowCache' \subseteq CacheEntry
    BY DEF SInv, ServiceTypeOK, GateStep
  <2>2. work' \in [Calls -> Task]
    BY <1>2 DEF Task, Stages, At
  <2>3. rows' \subseteq Done' /\ IsFiniteSet(rows')
    BY <1>1, <1>2 DEF SInv, ServiceTypeOK, Done, Stands
  <2>4. sessionRow' \in [SessionIds -> Row] /\ cacheRow' \subseteq CacheEntry
    BY <1>2 DEF SInv, ServiceTypeOK
  <2> QED
    BY <1>1, <1>2, <2>1, <2>2, <2>3, <2>4 DEF ServiceTypeOK
<1>5. ReviewsArePinned'
  <2> SUFFICES ASSUME NEW d \in Calls, call'[d].phase = "review",
                      call'[d].request.session # NoSession
               PROVE  session'[call'[d].request.session].workspace = call'[d].workspace
    BY DEF ReviewsArePinned
  <2>1. CASE d = c
    BY <1>1, <1>2, <2>1 DEF GateStep, SessionGrows
  <2>2. CASE d # c
    <3>1. call'[d] = call[d] /\ call[d] \in Reviewing
      BY <1>1, <2>2, CallTypes DEF SInv
    <3>2. call[d].request.session \in SessionIds /\ call[d].workspace # NoWorkspace
      BY <3>1, GateAssumption DEF Reviewing, SessionIds
    <3>3. session[call[d].request.session].workspace = call[d].workspace
      BY <3>1 DEF SInv, ReviewsArePinned
    <3> QED
      BY <3>1, <3>2, <3>3 DEF GateStep, SessionGrows
  <2> QED
    BY <2>1, <2>2
<1>6. SessionsAreTraced'
  <2> SUFFICES ASSUME NEW s \in SessionIds PROVE Traced(call', s, session'[s])
    BY DEF SessionsAreTraced
  <2>1. Traced(call', s, session[s])
    BY <1>1, StandingStays DEF SInv, SessionsAreTraced
  <2>2. CASE session'[s] = session[s]
    BY <2>1, <2>2
  <2>3. CASE session'[s] # session[s]
    <3>1. /\ s = r.session /\ session'[s].workspace = x.workspace /\ x.workspace # NoWorkspace
          /\ \/ session[s].workspace = x.workspace
             \/ x.workspace = Detect(r.cwd)
      BY <2>3 DEF GateStep, SessionGrows
    <3> QED
      BY <1>1, <1>2, <2>1, <3>1 DEF Traced
  <2> QED
    BY <2>2, <2>3
<1>7. RowsAreBehind'
  <2> SUFFICES ASSUME NEW s \in SessionIds
               PROVE  /\ Within(sessionRow[s].state, session'[s])
                      /\ IF sessionRow[s].bare THEN Within(sessionRow[s].state, Unopened)
                                               ELSE Traced(call', s, sessionRow[s].state)
    BY <1>2 DEF RowsAreBehind
  <2>1. sessionRow[s].state \in SessionState(Workspaces)
    BY <1>2 DEF Row
  <2>2. /\ Within(sessionRow[s].state, session[s])
        /\ IF sessionRow[s].bare THEN Within(sessionRow[s].state, Unopened)
                                 ELSE Traced(call, s, sessionRow[s].state)
    BY DEF SInv, RowsAreBehind
  <2>3. Within(sessionRow[s].state, session'[s])
    BY <1>1, <1>2, <2>1, <2>2, WithinIsAnOrder
  <2> QED
    BY <1>1, <2>2, <2>3, StandingStays
<1>8. UpsertsAreBehind'
  <2> SUFFICES ASSUME NEW d \in Calls, work'[d].at = "upserting"
               PROVE  /\ Within(work'[d].row.state, session'[call'[d].request.session])
                      /\ Traced(call', call'[d].request.session, work'[d].row.state)
    BY DEF UpsertsAreBehind
  <2>1. d # c /\ work'[d] = work[d] /\ call'[d] = call[d]
    BY <1>1, <1>3
  <2>2. call[d].phase = "done" /\ HasState(d)
    BY <2>1 DEF SInv, TasksFollowAnswers
  <2>3. call[d].request.session \in SessionIds
    BY <2>2, CallTypes DEF SInv, HasState, Answered, SessionIds
  <2>4. work[d].row.state \in SessionState(Workspaces)
    BY <1>2, <2>1 DEF Task, Upsert, Stages
  <2>5. /\ Within(work[d].row.state, session[call[d].request.session])
        /\ Traced(call, call[d].request.session, work[d].row.state)
    BY <2>1 DEF SInv, UpsertsAreBehind
  <2>6. Within(work[d].row.state, session'[call[d].request.session])
    BY <1>1, <1>2, <2>3, <2>4, <2>5, WithinIsAnOrder
  <2> QED
    BY <1>1, <2>1, <2>5, <2>6, StandingStays
<1>9. TasksFollowAnswers'
  <2> SUFFICES ASSUME NEW d \in Calls
               PROVE  /\ work'[d].at # "none" => call'[d].phase = "done"
                      /\ work'[d].at = "upserting" => HasState(d)'
                      /\ work'[d].at = "caching" => IsCacheable(d)'
    BY DEF TasksFollowAnswers
  <2>1. CASE d = c
    BY <1>1, <1>2, <1>3, <2>1
  <2>2. CASE d # c
    BY <1>1, <1>3, <2>2 DEF SInv, TasksFollowAnswers, HasState, IsCacheable
  <2> QED
    BY <2>1, <2>2
<1>10. EntriesAreGranted'
  <2>1. \A e \in cacheRow \cup allowCache : e.id \in Calls /\ Granted(call, e)
    BY DEF SInv, EntriesAreGranted, ServiceTypeOK, CacheEntry
  <2>2. \A e \in cacheRow \cup allowCache : Granted(call', e)
    BY <1>1, <2>1, StandingStays
  <2>3. ASSUME NEW e \in allowCache', e \notin allowCache PROVE Granted(call', e)
    BY <1>1, <1>2, <2>3 DEF GateStep, Granted
  <2> QED
    BY <1>2, <2>2, <2>3 DEF EntriesAreGranted
<1>11. AnswersAreJust'
  <2> SUFFICES ASSUME NEW d \in Calls
               PROVE  /\ call'[d].phase = "done" => call'[d].at <= clock
                      /\ call'[d].phase = "replayed" => OwnAnswer(call', call'[d])
                      /\ call'[d].phase = "done" /\ call'[d].cached => HasGrant(call', call'[d])
    BY <1>2 DEF AnswersAreJust
  <2>1. CASE d = c
    <3>1. x.phase = "done" => x.at = clock
      BY DEF GateStep
    <3>2. ASSUME x.phase = "done", x.cached PROVE HasGrant(call', x)
      <4>1. PICK e \in Hits(r) : TRUE
        BY <3>2 DEF GateStep
      <4>2. e \in allowCache /\ e.id \in Calls /\ e.session = r.session /\ e.key = CacheKey(r)
        BY <4>1 DEF Hits, SInv, ServiceTypeOK, CacheEntry
      <4>3. Granted(call, e)
        BY <4>2 DEF SInv, EntriesAreGranted
      <4>4. call[e.id].at <= clock /\ call[e.id].phase = "done"
        BY <4>2, <4>3 DEF SInv, AnswersAreJust, Granted
      <4>5. HasGrant(call, x)
        BY <1>2, <3>1, <3>2, <4>2, <4>3, <4>4 DEF Granted, HasGrant
      <4> QED
        BY <1>1, <4>5, StandingStays
    <3> QED
      BY <1>1, <1>2, <2>1, <3>1, <3>2
  <2>2. CASE d # c
    <3>1. call'[d] = call[d]
      BY <1>1, <2>2
    <3>2. call[d].phase = "replayed" => call[d].of \in Calls
      BY CallTypes DEF SInv, Repeated
    <3>3. /\ call[d].phase = "done" => call[d].at <= clock
          /\ call[d].phase = "replayed" => OwnAnswer(call, call[d])
          /\ call[d].phase = "done" /\ call[d].cached => HasGrant(call, call[d])
      BY DEF SInv, AnswersAreJust
    <3> QED
      BY <1>1, <3>1, <3>2, <3>3, StandingStays
  <2> QED
    BY <2>1, <2>2
<1> QED
  BY <1>4, <1>5, <1>6, <1>7, <1>8, <1>9, <1>10, <1>11 DEF SInv

-----------------------------------------------------------------------------
\* Answering a request.

\* The answer kept for a retry is the call's own.
LEMMA AnswerIsKept ==
  ASSUME ServiceTypeOK, NEW c \in Calls, NEW r \in Requests, NEW x, GateStep(c, r, x),
         x.phase = "done", NEW entries \in Store(Kept(call'))
  PROVE  ReplayPut(entries, r, c) \in Store(Kept(call'))
<1>1. call'[c] = x /\ x.request = r /\ x.at = clock /\ clock \in Nat
  BY GateStepFrame DEF GateStep, ServiceTypeOK
<1> DEFINE entry == [key |-> Slot(r), value |-> c, expires |-> clock + TTL]
           K == Kept(call')
<1>2. entry \in K
  <2>1. /\ clock + TTL \in Nat /\ clock + TTL <= clock + TTL
        /\ clock + TTL <= clock + (TTL + Slack)
    BY <1>1, SlackType
  <2> QED
    BY <1>1, <2>1 DEF Kept
<1> HIDE DEF K
<1>3. ReplayPut(entries, r, c) \in Store(K)
  BY <1>2, AfterPutType DEF ReplayPut, K
<1> QED
  BY <1>3 DEF K

\* Remember, for either way an answer comes about.
LEMMA RememberSInv ==
  ASSUME SInv, NEW c \in Calls, NEW r \in Requests, NEW x, GateStep(c, r, x),
         NEW entries \in Store(Kept(call)), Remember(c, r, entries), UNCHANGED store
  PROVE  SInv'
<1>1. ServiceTypeOK /\ call'[c] = x /\ Stands(call, call')
  BY GateStepFrame DEF SInv
<1>2. entries \in Store(Kept(call'))
  BY <1>1, StandingStays, StoreWidens
<1>3. replay' \in Store(Kept(call'))
  BY <1>1, <1>2, AnswerIsKept DEF Remember
<1>4. work' = IF x.phase = "done" THEN [work EXCEPT ![c] = At("queued")] ELSE work
  BY <1>1 DEF Remember
<1> QED
  BY <1>3, <1>4, GateStepSInv

LEMMA ServeSInv ==
  ASSUME SInv, NEW c \in Calls, NEW r \in Requests, Serve(c, r)
  PROVE  SInv'
<1>1. ServiceTypeOK /\ SessionsAreTraced
  BY DEF SInv
<1>2. PICK x : GateStep(c, r, x)
  BY <1>1, RefuseIsAGateStep, CacheIsAGateStep, Stage1IsAGateStep, AskIsAGateStep DEF Serve, Decide
<1>3. LookedUp(r) \in Store(Kept(call))
  BY <1>1, AfterGetType DEF LookedUp, ServiceTypeOK
<1>4. Remember(c, r, LookedUp(r)) /\ UNCHANGED store
  BY DEF Serve
<1> QED
  BY <1>2, <1>3, <1>4, RememberSInv

LEMMA ResumeSInv ==
  ASSUME SInv, NEW c \in Calls, Resume(c)
  PROVE  SInv'
<1> DEFINE r == call[c].request
<1>1. ServiceTypeOK /\ ReviewsArePinned /\ ClassifierAnswers(c)
  BY DEF SInv, Resume
<1>2. PICK x : GateStep(c, r, x)
  BY <1>1, ClassifierIsAGateStep
<1>3. r \in Requests
  BY <1>1, CallTypes DEF ClassifierAnswers, Reviewing
<1>4. Remember(c, r, replay) /\ UNCHANGED store /\ replay \in Store(Kept(call))
  BY <1>1 DEF Resume, ServiceTypeOK
<1> HIDE DEF r
<1> QED
  BY <1>2, <1>3, <1>4, RememberSInv

\* A retry's answer is one the store kept for the same request.
LEMMA RepeatSInv ==
  ASSUME SInv, NEW c \in Calls, NEW r \in Requests, Repeat(c, r)
  PROVE  SInv'
<1>1. PICK e \in Answers(r) :
        call' = [call EXCEPT ![c] = [phase |-> "replayed", request |-> r,
                                     workspace |-> NoWorkspace, of |-> e.value, at |-> clock]]
  BY DEF Repeat
<1> DEFINE x == [phase |-> "replayed", request |-> r, workspace |-> NoWorkspace,
                 of |-> e.value, at |-> clock]
<1>2. /\ UNCHANGED <<session, allowCache, clock, replay, work, rows, sessionRow, cacheRow>>
      /\ call[c] = NoCall
  BY DEF Repeat, store
<1>3. e \in Kept(call) /\ e.key = Slot(r) /\ clock < e.expires
      /\ Identity(call[e.value].request) = Identity(r)
  BY LiveIsHeld DEF Answers, SInv, ServiceTypeOK
<1>4. /\ e.value \in Calls /\ call[e.value].phase = "done"
      /\ Slot(call[e.value].request) = Slot(r)
      /\ clock < call[e.value].at + (TTL + Slack)
  <2>1. /\ e.value \in Calls /\ call[e.value].phase = "done" /\ e.expires \in Nat
        /\ Slot(call[e.value].request) = Slot(r)
        /\ e.expires <= call[e.value].at + (TTL + Slack)
    BY <1>3 DEF Kept
  <2>2. call[e.value].at \in Nat /\ clock \in Nat
    BY <2>1, CallTypes DEF Answered, SInv, ServiceTypeOK
  <2>3. clock < call[e.value].at + (TTL + Slack)
    BY <1>3, <2>1, <2>2, SlackType
  <2> QED
    BY <2>1, <2>3
<1>5. /\ x \in Repeated /\ x.phase = "replayed" /\ x.of = e.value /\ x.request = r /\ x.at = clock
      /\ call' = [call EXCEPT ![c] = x]
  BY <1>1, <1>4 DEF Repeated, SInv, ServiceTypeOK
<1> HIDE DEF x
<1>6. call[c].phase = "new"
  BY <1>2 DEF NoCall
<1>7. call' \in [Calls -> CallState] /\ call'[c] = x /\ \A d \in Calls : d # c => call'[d] = call[d]
  BY <1>5 DEF SInv, ServiceTypeOK, CallState
<1>8. Stands(call, call')
  BY <1>6, <1>7 DEF Stands
<1>9. ServiceTypeOK'
  <2>1. replay' \in Store(Kept(call'))
    BY <1>2, <1>8, StandingStays, StoreWidens DEF SInv, ServiceTypeOK
  <2>2. rows' \subseteq Done' /\ IsFiniteSet(rows')
    BY <1>2, <1>8 DEF SInv, ServiceTypeOK, Done, Stands
  <2> QED
    BY <1>2, <1>7, <2>1, <2>2 DEF SInv, ServiceTypeOK
<1>10. ReviewsArePinned'
  BY <1>2, <1>5, <1>7 DEF SInv, ReviewsArePinned
<1>11. SessionsAreTraced' /\ RowsAreBehind'
  BY <1>2, <1>8, StandingStays DEF SInv, SessionsAreTraced, RowsAreBehind
<1>12. \A d \in Calls : work[d].at # "none" => call[d].phase = "done" /\ call'[d] = call[d] /\ d # c
  BY <1>6, <1>7 DEF SInv, TasksFollowAnswers
<1>13. TasksFollowAnswers'
  BY <1>2, <1>12 DEF SInv, TasksFollowAnswers, HasState, IsCacheable
<1>14. UpsertsAreBehind'
  <2> SUFFICES ASSUME NEW d \in Calls, work[d].at = "upserting"
               PROVE  /\ Within(work[d].row.state, session[call'[d].request.session])
                      /\ Traced(call', call'[d].request.session, work[d].row.state)
    BY <1>2 DEF UpsertsAreBehind
  <2>1. call'[d] = call[d]
    BY <1>12
  <2>2. /\ Within(work[d].row.state, session[call[d].request.session])
        /\ Traced(call, call[d].request.session, work[d].row.state)
    BY DEF SInv, UpsertsAreBehind
  <2> QED
    BY <1>8, <2>1, <2>2, StandingStays
<1>15. EntriesAreGranted'
  <2>1. \A f \in cacheRow \cup allowCache : f.id \in Calls /\ Granted(call, f)
    BY DEF SInv, EntriesAreGranted, ServiceTypeOK, CacheEntry
  <2>2. \A f \in cacheRow \cup allowCache : Granted(call', f)
    BY <1>8, <2>1, StandingStays
  <2> QED
    BY <1>2, <2>2 DEF EntriesAreGranted
<1>16. AnswersAreJust'
  <2> SUFFICES ASSUME NEW d \in Calls
               PROVE  /\ call'[d].phase = "done" => call'[d].at <= clock
                      /\ call'[d].phase = "replayed" => OwnAnswer(call', call'[d])
                      /\ call'[d].phase = "done" /\ call'[d].cached => HasGrant(call', call'[d])
    BY <1>2 DEF AnswersAreJust
  <2>1. CASE d = c
    <3>1. call[e.value].at <= clock
      BY <1>4 DEF SInv, AnswersAreJust
    <3>2. OwnAnswer(call, x)
      BY <1>3, <1>4, <1>5, <3>1 DEF OwnAnswer
    <3>3. OwnAnswer(call', x)
      BY <1>4, <1>5, <1>8, <3>2, StandingStays
    <3> QED
      BY <1>5, <1>7, <2>1, <3>3
  <2>2. CASE d # c
    <3>1. call'[d] = call[d]
      BY <1>7, <2>2
    <3>2. call[d].phase = "replayed" => call[d].of \in Calls
      BY CallTypes DEF SInv, Repeated
    <3>3. /\ call[d].phase = "done" => call[d].at <= clock
          /\ call[d].phase = "replayed" => OwnAnswer(call, call[d])
          /\ call[d].phase = "done" /\ call[d].cached => HasGrant(call, call[d])
      BY DEF SInv, AnswersAreJust
    <3> QED
      BY <1>8, <3>1, <3>2, <3>3, StandingStays
  <2> QED
    BY <2>1, <2>2
<1> QED
  BY <1>9, <1>10, <1>11, <1>13, <1>14, <1>15, <1>16 DEF SInv

-----------------------------------------------------------------------------
\* The background tasks and the inspections, which touch the store alone.
LEMMA StoreStepSInv ==
  ASSUME SInv, UNCHANGED <<session, allowCache, call, clock, replay>>,
         work' \in [Calls -> Task],
         rows' \subseteq Done, IsFiniteSet(rows'),
         sessionRow' \in [SessionIds -> Row],
         cacheRow' \subseteq CacheEntry, \A e \in cacheRow' : Granted(call, e),
         RowsAreBehind', UpsertsAreBehind', TasksFollowAnswers'
  PROVE  SInv'
<1>1. Done' = Done
  BY DEF Done
<1>2. ServiceTypeOK'
  BY <1>1 DEF SInv, ServiceTypeOK
<1>3. ReviewsArePinned' /\ SessionsAreTraced' /\ EntriesAreGranted' /\ AnswersAreJust'
  BY DEF SInv, ReviewsArePinned, SessionsAreTraced, EntriesAreGranted, AnswersAreJust
<1> QED
  BY <1>2, <1>3 DEF SInv

\* The session of a task that has one.
LEMMA TaskSession ==
  ASSUME SInv, NEW c \in Calls, call[c].phase = "done", HasState(c)
  PROVE  /\ call[c].request \in Requests
         /\ call[c].request.session \in SessionIds
         /\ session[call[c].request.session] \in SessionState(Workspaces)
<1>1. call[c].request \in Requests /\ call[c].request.session # NoSession
  BY CallTypes DEF SInv, HasState, Answered
<1> QED
  BY <1>1 DEF SInv, ServiceTypeOK, SessionIds

\* A step of c's task that leaves it at a stage without a row of its own, and
\* the session rows as they are.
LEMMA StageSInv ==
  ASSUME SInv, NEW c \in Calls, NEW stage \in Stages,
         UNCHANGED <<session, allowCache, call, clock, replay, sessionRow>>,
         work' = [work EXCEPT ![c] = At(stage)],
         call[c].phase = "done", stage = "caching" => IsCacheable(c),
         rows' \subseteq Done, IsFiniteSet(rows'),
         cacheRow' \subseteq CacheEntry, \A e \in cacheRow' : Granted(call, e)
  PROVE  SInv'
<1>1. work \in [Calls -> Task] /\ At(stage) \in Task /\ At(stage).at = stage /\ stage # "upserting"
  BY DEF SInv, ServiceTypeOK, Task, At, Stages
<1>2. /\ work' \in [Calls -> Task]
      /\ work'[c].at = stage
      /\ \A d \in Calls : d # c => work'[d] = work[d]
  BY <1>1
<1>3. RowsAreBehind'
  BY DEF SInv, RowsAreBehind
<1>4. UpsertsAreBehind'
  BY <1>1, <1>2 DEF SInv, UpsertsAreBehind
<1>5. TasksFollowAnswers'
  <2> SUFFICES ASSUME NEW d \in Calls
               PROVE  /\ work'[d].at # "none" => call[d].phase = "done"
                      /\ work'[d].at = "upserting" => HasState(d)
                      /\ work'[d].at = "caching" => IsCacheable(d)
    BY DEF TasksFollowAnswers, HasState, IsCacheable
  <2>1. CASE d = c
    BY <1>1, <1>2, <2>1
  <2>2. CASE d # c
    BY <1>2, <2>2 DEF SInv, TasksFollowAnswers
  <2> QED
    BY <2>1, <2>2
<1>6. sessionRow' \in [SessionIds -> Row]
  BY DEF SInv, ServiceTypeOK
<1> QED
  BY <1>2, <1>3, <1>4, <1>5, <1>6, StoreStepSInv

LEMMA BeginTaskSInv ==
  ASSUME SInv, NEW c \in Calls, BeginTask(c)
  PROVE  SInv'
<1>1. /\ UNCHANGED <<session, allowCache, call, clock, replay, rows, sessionRow, cacheRow>>
      /\ work[c].at = "queued"
  BY DEF BeginTask, vars, store, At
<1>2. call[c].phase = "done"
  BY <1>1 DEF SInv, TasksFollowAnswers
<1>3. /\ rows' \subseteq Done /\ IsFiniteSet(rows') /\ cacheRow' \subseteq CacheEntry
      /\ \A e \in cacheRow' : Granted(call, e)
      /\ sessionRow' \in [SessionIds -> Row]
  BY <1>1 DEF SInv, ServiceTypeOK, EntriesAreGranted
<1>4. CASE ~HasState(c)
  <2>1. work' = [work EXCEPT ![c] = At("inserting")]
    BY <1>4 DEF BeginTask
  <2>2. "inserting" \in Stages /\ "inserting" # "caching"
    BY DEF Stages
  <2> QED
    BY <1>1, <1>2, <1>3, <2>1, <2>2, StageSInv
<1>5. CASE HasState(c)
  <2> DEFINE s   == call[c].request.session
             row == [bare |-> FALSE, state |-> session[s]]
             up  == [at |-> "upserting", row |-> row]
  <2>1. work' = [work EXCEPT ![c] = up]
    BY <1>5 DEF BeginTask
  <2>2. s \in SessionIds /\ session[s] \in SessionState(Workspaces)
    BY <1>2, <1>5, TaskSession
  <2>3. up \in Task /\ up.at = "upserting" /\ up.row.state = session[s]
    BY <2>2 DEF Task, Upsert
  <2> HIDE DEF up
  <2>4. /\ work' \in [Calls -> Task]
        /\ work'[c] = up
        /\ \A d \in Calls : d # c => work'[d] = work[d]
    BY <2>1, <2>3 DEF SInv, ServiceTypeOK
  <2>5. Within(session[s], session[s]) /\ Traced(call, s, session[s])
    BY <2>2, WithinIsAnOrder DEF SInv, SessionsAreTraced
  <2>6. RowsAreBehind'
    BY <1>1 DEF SInv, RowsAreBehind
  <2>7. UpsertsAreBehind'
    <3> SUFFICES ASSUME NEW d \in Calls, work'[d].at = "upserting"
                 PROVE  /\ Within(work'[d].row.state, session[call[d].request.session])
                        /\ Traced(call, call[d].request.session, work'[d].row.state)
      BY <1>1 DEF UpsertsAreBehind
    <3>1. CASE d = c
      BY <2>3, <2>4, <2>5, <3>1
    <3>2. CASE d # c
      BY <2>4, <3>2 DEF SInv, UpsertsAreBehind
    <3> QED
      BY <3>1, <3>2
  <2>8. TasksFollowAnswers'
    <3> SUFFICES ASSUME NEW d \in Calls
                 PROVE  /\ work'[d].at # "none" => call[d].phase = "done"
                        /\ work'[d].at = "upserting" => HasState(d)
                        /\ work'[d].at = "caching" => IsCacheable(d)
      BY <1>1 DEF TasksFollowAnswers, HasState, IsCacheable
    <3>1. CASE d = c
      BY <1>2, <1>5, <2>3, <2>4, <3>1
    <3>2. CASE d # c
      BY <2>4, <3>2 DEF SInv, TasksFollowAnswers
    <3> QED
      BY <3>1, <3>2
  <2> QED
    BY <1>1, <1>3, <2>4, <2>6, <2>7, <2>8, StoreStepSInv
<1> QED
  BY <1>4, <1>5

\* A committed row was taken from the session, and is not ahead of it now.
LEMMA CommitSessionSInv ==
  ASSUME SInv, NEW c \in Calls, CommitSession(c)
  PROVE  SInv'
<1> DEFINE s == call[c].request.session
<1>1. /\ UNCHANGED <<session, allowCache, call, clock, replay, rows, cacheRow>>
      /\ work[c].at = "upserting"
      /\ sessionRow' = [sessionRow EXCEPT ![s] = work[c].row]
      /\ work' = [work EXCEPT ![c] = At("inserting")]
  BY DEF CommitSession, vars
<1>2. call[c].phase = "done" /\ HasState(c)
  BY <1>1 DEF SInv, TasksFollowAnswers
<1>3. s \in SessionIds
  BY <1>2, TaskSession
<1>4. work[c] \in Task
  BY DEF SInv, ServiceTypeOK
<1>5. work[c].row \in Row /\ ~work[c].row.bare
  BY <1>1, <1>4 DEF Task, Upsert, Row, Stages
<1>6. /\ Within(work[c].row.state, session[s])
      /\ Traced(call, s, work[c].row.state)
  BY <1>1 DEF SInv, UpsertsAreBehind
<1>7. /\ sessionRow' \in [SessionIds -> Row]
      /\ sessionRow'[s] = work[c].row
      /\ \A u \in SessionIds : u # s => sessionRow'[u] = sessionRow[u]
  BY <1>1, <1>3, <1>5 DEF SInv, ServiceTypeOK
<1>8. RowsAreBehind'
  <2> SUFFICES ASSUME NEW u \in SessionIds
               PROVE  /\ Within(sessionRow'[u].state, session[u])
                      /\ IF sessionRow'[u].bare THEN Within(sessionRow'[u].state, Unopened)
                                                ELSE Traced(call, u, sessionRow'[u].state)
    BY <1>1 DEF RowsAreBehind
  <2>1. CASE u = s
    BY <1>5, <1>6, <1>7, <2>1
  <2>2. CASE u # s
    BY <1>7, <2>2 DEF SInv, RowsAreBehind
  <2> QED
    BY <2>1, <2>2
<1>9. /\ At("inserting") \in Task /\ At("inserting").at = "inserting"
  BY DEF Task, At, Stages
<1>10. /\ work' \in [Calls -> Task]
       /\ work'[c].at = "inserting"
       /\ \A d \in Calls : d # c => work'[d] = work[d]
  BY <1>1, <1>9 DEF SInv, ServiceTypeOK
<1>11. UpsertsAreBehind'
  BY <1>1, <1>10 DEF SInv, UpsertsAreBehind
<1>12. TasksFollowAnswers'
  <2> SUFFICES ASSUME NEW d \in Calls
               PROVE  /\ work'[d].at # "none" => call[d].phase = "done"
                      /\ work'[d].at = "upserting" => HasState(d)
                      /\ work'[d].at = "caching" => IsCacheable(d)
    BY <1>1 DEF TasksFollowAnswers, HasState, IsCacheable
  <2>1. CASE d = c
    BY <1>2, <1>10, <2>1
  <2>2. CASE d # c
    BY <1>10, <2>2 DEF SInv, TasksFollowAnswers
  <2> QED
    BY <2>1, <2>2
<1>13. /\ rows' \subseteq Done /\ IsFiniteSet(rows') /\ cacheRow' \subseteq CacheEntry
       /\ \A e \in cacheRow' : Granted(call, e)
  BY <1>1 DEF SInv, ServiceTypeOK, EntriesAreGranted
<1> QED
  BY <1>1, <1>7, <1>8, <1>10, <1>11, <1>12, <1>13, StoreStepSInv

LEMMA InsertDecisionSInv ==
  ASSUME SInv, NEW c \in Calls, InsertDecision(c)
  PROVE  SInv'
<1>1. /\ UNCHANGED <<session, allowCache, call, clock, replay, sessionRow, cacheRow>>
      /\ work[c].at = "inserting"
      /\ rows' \in {rows, rows \cup {c}}
  BY DEF InsertDecision, vars, At
<1>2. PICK stage \in {"skipped", "rejected", "caching", "stored"} :
        work' = [work EXCEPT ![c] = At(stage)] /\ (stage = "caching" => IsCacheable(c))
  BY DEF InsertDecision
<1>3. stage \in Stages
  BY DEF Stages
<1>4. call[c].phase = "done"
  BY <1>1 DEF SInv, TasksFollowAnswers
<1>5. rows' \subseteq Done /\ IsFiniteSet(rows')
  <2>1. rows \subseteq Done /\ IsFiniteSet(rows) /\ c \in Done
    BY <1>4 DEF SInv, ServiceTypeOK, Done
  <2>2. IsFiniteSet(rows \cup {c})
    BY <2>1, FS_AddElement
  <2> QED
    BY <1>1, <2>1, <2>2
<1>6. cacheRow' \subseteq CacheEntry /\ \A e \in cacheRow' : Granted(call, e)
  BY <1>1 DEF SInv, ServiceTypeOK, EntriesAreGranted
<1> QED
  BY <1>1, <1>2, <1>3, <1>4, <1>5, <1>6, StageSInv

LEMMA StoreCacheEntrySInv ==
  ASSUME SInv, NEW c \in Calls, StoreCacheEntry(c)
  PROVE  SInv'
<1> DEFINE r     == call[c].request
           entry == [session |-> r.session, key |-> CacheKey(r), id |-> c, expires |-> clock + TTL]
<1>1. /\ UNCHANGED <<session, allowCache, call, clock, replay, rows, sessionRow>>
      /\ work[c].at = "caching"
      /\ cacheRow' = CachePut(cacheRow, r, c)
      /\ work' = [work EXCEPT ![c] = At("stored")]
  BY DEF StoreCacheEntry, vars, At
<1>2. call[c].phase = "done" /\ IsCacheable(c)
  BY <1>1 DEF SInv, TasksFollowAnswers
<1>3. r \in Requests /\ r.session \in SessionIds
  BY <1>2, TaskSession DEF IsCacheable
<1>4. entry \in CacheEntry
  BY <1>3, GateAssumption DEF CacheEntry, CacheKeys, SInv, ServiceTypeOK
<1>5. Granted(call, entry)
  BY <1>2 DEF Granted, IsCacheable
<1>6. \A e \in cacheRow' : e = entry \/ e \in cacheRow
  BY <1>1 DEF CachePut
<1> HIDE DEF entry
<1>7. cacheRow' \subseteq CacheEntry /\ \A e \in cacheRow' : Granted(call, e)
  BY <1>4, <1>5, <1>6 DEF SInv, ServiceTypeOK, EntriesAreGranted
<1>8. rows' \subseteq Done /\ IsFiniteSet(rows')
  BY <1>1 DEF SInv, ServiceTypeOK
<1>9. "stored" \in Stages /\ "stored" # "caching"
  BY DEF Stages
<1> QED
  BY <1>1, <1>2, <1>7, <1>8, <1>9, StageSInv

LEMMA FailTaskSInv ==
  ASSUME SInv, NEW c \in Calls, FailTask(c)
  PROVE  SInv'
<1>1. /\ UNCHANGED <<session, allowCache, call, clock, replay, rows, sessionRow, cacheRow>>
      /\ work[c].at # "none"
      /\ work' = [work EXCEPT ![c] = At("failed")]
  BY DEF FailTask, vars, store
<1>2. call[c].phase = "done"
  BY <1>1 DEF SInv, TasksFollowAnswers
<1>3. /\ rows' \subseteq Done /\ IsFiniteSet(rows') /\ cacheRow' \subseteq CacheEntry
      /\ \A e \in cacheRow' : Granted(call, e)
  BY <1>1 DEF SInv, ServiceTypeOK, EntriesAreGranted
<1>4. "failed" \in Stages /\ "failed" # "caching"
  BY DEF Stages
<1> QED
  BY <1>1, <1>2, <1>3, <1>4, StageSInv

\* An inspection's row has counted nothing.
LEMMA EnsureSessionSInv ==
  ASSUME SInv, NEW s \in SessionIds, NEW w \in Workspaces, EnsureSession(s, w)
  PROVE  SInv'
<1> DEFINE row == [bare |-> TRUE, state |-> NewSession(w)]
<1>1. /\ UNCHANGED <<session, allowCache, call, clock, replay, work, rows, cacheRow>>
      /\ sessionRow' = [sessionRow EXCEPT ![s] = row]
  BY DEF EnsureSession, vars
<1>2. row \in Row /\ row.bare /\ row.state = NewSession(w)
  BY NewSessionType DEF Row
<1> HIDE DEF row
<1>3. /\ sessionRow' \in [SessionIds -> Row]
      /\ sessionRow'[s] = row
      /\ \A u \in SessionIds : u # s => sessionRow'[u] = sessionRow[u]
  BY <1>1, <1>2 DEF SInv, ServiceTypeOK
<1>4. Within(NewSession(w), Unopened)
  BY DEF Within, Unopened, NewSession
<1>5. \A x \in SessionState(Workspaces) : Within(NewSession(w), x)
  BY DEF Within, NewSession, SessionState
<1>6. \A u \in SessionIds : session[u] \in SessionState(Workspaces)
  BY DEF SInv, ServiceTypeOK
<1>7. RowsAreBehind'
  <2> SUFFICES ASSUME NEW u \in SessionIds
               PROVE  /\ Within(sessionRow'[u].state, session[u])
                      /\ IF sessionRow'[u].bare THEN Within(sessionRow'[u].state, Unopened)
                                                ELSE Traced(call, u, sessionRow'[u].state)
    BY <1>1 DEF RowsAreBehind
  <2>1. CASE u = s
    BY <1>2, <1>3, <1>4, <1>5, <1>6, <2>1
  <2>2. CASE u # s
    BY <1>3, <2>2 DEF SInv, RowsAreBehind
  <2> QED
    BY <2>1, <2>2
<1>8. UpsertsAreBehind' /\ TasksFollowAnswers'
  BY <1>1 DEF SInv, UpsertsAreBehind, TasksFollowAnswers, HasState, IsCacheable
<1>9. /\ work' \in [Calls -> Task] /\ rows' \subseteq Done /\ IsFiniteSet(rows')
      /\ cacheRow' \subseteq CacheEntry /\ \A e \in cacheRow' : Granted(call, e)
  BY <1>1 DEF SInv, ServiceTypeOK, EntriesAreGranted
<1> QED
  BY <1>1, <1>3, <1>7, <1>8, <1>9, StoreStepSInv

-----------------------------------------------------------------------------
LEMMA TickSInv ==
  ASSUME SInv, Tick, UNCHANGED <<replay, work, store, life>>
  PROVE  SInv'
<1>1. /\ UNCHANGED <<session, allowCache, call, replay, work, rows, sessionRow, cacheRow>>
      /\ clock' = clock + 1 /\ clock \in Nat
  BY DEF Tick, store, SInv, ServiceTypeOK
<1>2. ServiceTypeOK'
  BY <1>1 DEF SInv, ServiceTypeOK, Done
<1>3. /\ ReviewsArePinned' /\ SessionsAreTraced' /\ RowsAreBehind' /\ UpsertsAreBehind'
      /\ TasksFollowAnswers' /\ EntriesAreGranted'
  BY <1>1 DEF SInv, ReviewsArePinned, SessionsAreTraced, RowsAreBehind, UpsertsAreBehind,
              TasksFollowAnswers, HasState, IsCacheable, EntriesAreGranted
<1>4. AnswersAreJust'
  <2>1. \A c \in Calls : call[c].phase = "done" => call[c].at \in Nat
    BY CallTypes DEF SInv, Answered
  <2>2. \A c \in Calls : call[c].phase = "done" => call[c].at <= clock + 1
    BY <1>1, <2>1 DEF SInv, AnswersAreJust
  <2> QED
    BY <1>1, <2>2 DEF SInv, AnswersAreJust
<1> QED
  BY <1>2, <1>3, <1>4 DEF SInv

-----------------------------------------------------------------------------
\* A restart.

LEMMA RestoreOrderType ==
  ASSUME ServiceTypeOK, NEW order \in RestoreOrders
  PROVE  order \in Seq(Restorable)
<1> DEFINE n == Min({RestoreLimit, Cardinality(Restorable)})
<1>1. IsFiniteSet(Restorable)
  <2>1. Restorable \subseteq rows /\ IsFiniteSet(rows)
    BY DEF Restorable, ServiceTypeOK
  <2> QED
    BY <2>1, FS_Subset
<1>2. Cardinality(Restorable) \in Nat /\ RestoreLimit \in Nat
  BY <1>1, FS_CardinalityType, ServiceAssumption
<1>3. n \in Nat
  <2> DEFINE m == Cardinality(Restorable)
  <2>1. m \in Nat /\ RestoreLimit \in Nat
    BY <1>2
  <2> HIDE DEF m
  <2>2. \E x \in {RestoreLimit, m} : \A y \in {RestoreLimit, m} : x <= y
    BY <2>1
  <2>3. Min({RestoreLimit, m}) \in {RestoreLimit, m}
    BY <2>2 DEF Min
  <2> QED
    BY <2>1, <2>3 DEF m
<1>4. order \in [1..n -> Restorable]
  BY DEF RestoreOrders
<1> HIDE DEF n
<1> QED
  BY <1>3, <1>4

\* The store after each row that is put back.
Restoring(order, now) ==
  {g \in [0..Len(order) -> Store(Kept(call))] :
     /\ g[0] = EmptyStore
     /\ \A n \in 1..Len(order) :
          g[n] = AfterPut(g[n - 1], Slot(call[order[n]].request), order[n],
                          TTL - WholeSeconds(clock - call[order[n]].at), now)
     /\ RestoredReplay(order, now) = g[Len(order)]}

LEMMA WholeSecondsRoundDown ==
  ASSUME NEW t \in Nat
  PROVE  /\ WholeSeconds(t) \in Nat
         /\ WholeSeconds(t) <= t
         /\ t <= WholeSeconds(t) + (Second - 1)
<1>1. t % Second \in 0..Second - 1 /\ t % Second <= t /\ Second \in Nat
  BY ServiceAssumption
<1> QED
  BY <1>1 DEF WholeSeconds

\* A restored entry keeps its answer's time, but for the slack.
LEMMA RestoredExpiry ==
  ASSUME SInv, NEW d \in Restorable, NEW now \in clock..(clock + RestoreTime)
  PROVE  LET expires == now + (TTL - WholeSeconds(clock - call[d].at))
         IN /\ expires \in Nat
            /\ call[d].at + TTL <= expires
            /\ expires <= call[d].at + (TTL + Slack)
<1>1. d \in Calls /\ call[d].phase = "done" /\ clock < call[d].at + TTL
  BY DEF Restorable, SInv, ServiceTypeOK, Done
<1>2. call[d].at \in Nat /\ clock \in Nat /\ call[d].at <= clock
  BY <1>1, CallTypes DEF Answered, SInv, ServiceTypeOK, AnswersAreJust
<1> DEFINE age == clock - call[d].at
           whole == WholeSeconds(age)
<1>3. age \in Nat /\ call[d].at + age = clock
  BY <1>2
<1> HIDE DEF age
<1>4. whole \in Nat /\ whole <= age /\ age <= whole + (Second - 1)
  BY <1>3, WholeSecondsRoundDown
<1> HIDE DEF whole
<1>5. /\ Second \in Nat /\ RestoreTime \in Nat /\ TTL \in Nat /\ now \in Int
      /\ clock <= now /\ now <= clock + RestoreTime
  BY <1>2, SlackType, ServiceAssumption
<1>6. /\ now + (TTL - whole) \in Nat
      /\ call[d].at + TTL <= now + (TTL - whole)
      /\ now + (TTL - whole) <= call[d].at + (TTL + ((Second - 1) + RestoreTime))
  BY <1>1, <1>2, <1>3, <1>4, <1>5
<1> QED
  BY <1>6 DEF age, whole, Slack

LEMMA RestoredInSteps ==
  ASSUME SInv, NEW order \in Seq(Restorable), NEW now \in clock..(clock + RestoreTime)
  PROVE  Restoring(order, now) # {}
<1> DEFINE N == Len(order)
           K == Kept(call)
           S == Store(K)
           Put(q, d) == AfterPut(q, Slot(call[d].request), d, TTL - WholeSeconds(clock - call[d].at), now)
           Body(f) == [n \in 0..N |-> IF n = 0 THEN EmptyStore ELSE Put(f[n - 1], order[n])]
           step == [p \in S \X (1..N) |-> Put(p[1], order[p[2]])]
<1>1. N \in Nat /\ EmptyStore \in S /\ \A n \in 1..N : order[n] \in Restorable
  BY EmptyStoreType
<1>2. ASSUME NEW q \in S, NEW d \in Restorable PROVE Put(q, d) \in S
  <2>1. d \in Calls /\ call[d].phase = "done"
    BY DEF Restorable, SInv, ServiceTypeOK, Done
  <2>2. call[d].request \in Requests
    BY <2>1, CallTypes DEF Answered, SInv
  <2> DEFINE ttl == TTL - WholeSeconds(clock - call[d].at)
             key == Slot(call[d].request)
  <2>3. now + ttl \in Nat /\ call[d].at + TTL <= now + ttl /\ now + ttl <= call[d].at + (TTL + Slack)
    BY RestoredExpiry
  <2> HIDE DEF ttl
  <2>4. [key |-> key, value |-> d, expires |-> now + ttl] \in K
    BY <2>1, <2>2, <2>3 DEF Kept
  <2> HIDE DEF K, key
  <2>5. AfterPut(q, key, d, ttl, now) \in Store(K)
    BY <2>4, AfterPutType
  <2> QED
    BY <2>5 DEF key, ttl
<1>3. RestoredReplay(order, now) = (CHOOSE f : f = Body(f))[N]
  BY DEF RestoredReplay
<1> HIDE DEF N, S, Put
<1>4. \A q \in S, n \in 1..N : step[<<q, n>>] = Put(q, order[n])
  OBVIOUS
<1>5. Stays(N, S, step)
  BY <1>1, <1>2, <1>4 DEF Stays
<1> HIDE DEF step
<1>6. Recursion(N, S, EmptyStore, step) # {}
  BY <1>1, <1>5, BoundedRecursion
<1>7. PICK f \in [0..N -> S] : f[0] = EmptyStore /\ \A n \in 1..N : f[n] = step[<<f[n - 1], n>>]
  BY <1>6 DEF Recursion
<1>8. f = Body(f)
  <2>1. \A n \in 0..N : n # 0 => n \in 1..N /\ f[n - 1] \in S
    BY <1>1, <1>7
  <2>2. \A n \in 0..N : f[n] = Body(f)[n]
    BY <1>4, <1>7, <2>1
  <2> QED
    BY <1>7, <2>2
<1> DEFINE g == CHOOSE h : h = Body(h)
<1>9. g = Body(g)
  BY <1>8
<1> HIDE DEF g
<1> DEFINE P == {n \in 0..N : g[n] \in S}
<1>10. 0 \in P
  <2>1. g[0] = EmptyStore /\ 0 \in 0..N
    BY <1>1, <1>9
  <2> QED
    BY <1>1, <2>1
<1>11. ASSUME NEW n \in P, n < N PROVE n + 1 \in P
  <2>1. n + 1 \in 1..N /\ (n + 1) - 1 = n /\ n + 1 # 0 /\ n + 1 \in 0..N /\ g[n] \in S
    BY <1>1, <1>11
  <2>2. g[n + 1] = Put(g[n], order[n + 1])
    BY <1>9, <2>1
  <2> QED
    BY <1>1, <1>2, <2>1, <2>2
<1>12. P \in SUBSET (0..N)
  OBVIOUS
<1> HIDE DEF P
<1>13. P = 0..N
  BY <1>1, <1>10, <1>11, <1>12, BoundedInduction
<1>14. \A n \in 0..N : g[n] \in S
  BY <1>13 DEF P
<1>15. g = [n \in 0..N |-> g[n]] /\ \A n \in 1..N : n # 0 /\ n \in 0..N
  BY <1>1, <1>9
<1>16. g \in [0..N -> S]
  BY <1>14, <1>15
<1>17. g[0] = EmptyStore /\ \A n \in 1..N : g[n] = Put(g[n - 1], order[n])
  <2>1. 0 \in 0..N
    BY <1>1
  <2> QED
    BY <1>9, <1>15, <2>1
<1>18. RestoredReplay(order, now) = g[N]
  BY <1>3 DEF g
<1>19. g \in Restoring(order, now)
  BY <1>16, <1>17, <1>18 DEF Restoring, N, S, Put
<1> QED
  BY <1>19

LEMMA RestoredReplayType ==
  ASSUME SInv, NEW order \in Seq(Restorable), NEW now \in clock..(clock + RestoreTime)
  PROVE  RestoredReplay(order, now) \in Store(Kept(call))
<1>1. PICK g : g \in Restoring(order, now)
  BY RestoredInSteps
<1>2. Len(order) \in 0..Len(order)
  OBVIOUS
<1> QED
  BY <1>1, <1>2 DEF Restoring

LEMMA RestartSInv ==
  ASSUME SInv, Restart
  PROVE  SInv'
<1>1. /\ session' = [s \in SessionIds |-> Restored(sessionRow[s])]
      /\ allowCache' = RestoredCache(clock')
      /\ clock' \in clock..(clock + RestoreTime)
      /\ UNCHANGED <<rows, sessionRow, cacheRow>>
      /\ call' = [c \in Calls |-> IF call[c].phase = "review"
                                  THEN [call[c] EXCEPT !.phase = "lost"] ELSE call[c]]
      /\ work' = [c \in Calls |-> IF work[c].at \in {"queued", "upserting", "inserting", "caching"}
                                  THEN At("dead") ELSE work[c]]
  BY DEF Restart, store
<1>2. \A c \in Calls :
        /\ call[c].phase = "review" => /\ call'[c] \in Lost
                                       /\ call'[c].request = call[c].request
                                       /\ call'[c].workspace = call[c].workspace
        /\ call[c].phase # "review" => call'[c] = call[c]
  <2> SUFFICES ASSUME NEW c \in Calls
               PROVE  /\ call[c].phase = "review" => /\ call'[c] \in Lost
                                                     /\ call'[c].request = call[c].request
                                                     /\ call'[c].workspace = call[c].workspace
                      /\ call[c].phase # "review" => call'[c] = call[c]
    OBVIOUS
  <2>1. call[c].phase = "review" => call[c] \in Reviewing
    BY CallTypes DEF SInv
  <2> QED
    BY <1>1, <2>1 DEF Reviewing, Lost
<1>3. call' \in [Calls -> CallState]
  BY <1>1, <1>2 DEF SInv, ServiceTypeOK, CallState
<1>4. Stands(call, call')
  BY <1>2 DEF Stands, Lost
<1>5. \A c \in Calls : call'[c].phase \notin {"review", "lost"} => call'[c] = call[c]
  BY <1>2 DEF Lost
<1>6. /\ work' \in [Calls -> Task]
      /\ \A c \in Calls : /\ work'[c].at \notin {"upserting", "caching"}
                          /\ work'[c].at # "none" => work[c].at # "none"
  <2>1. At("dead") \in Task /\ At("dead").at = "dead"
    BY DEF At, Task, Stages
  <2> QED
    BY <1>1, <2>1 DEF SInv, ServiceTypeOK
<1>7. \A s \in SessionIds :
        /\ session'[s] = Restored(sessionRow[s])
        /\ Restored(sessionRow[s]) \in SessionState(Workspaces)
        /\ Within(sessionRow[s].state, session'[s])
        /\ Traced(call, s, session'[s])
  <2> SUFFICES ASSUME NEW s \in SessionIds
               PROVE  /\ Restored(sessionRow[s]) \in SessionState(Workspaces)
                      /\ Within(sessionRow[s].state, Restored(sessionRow[s]))
                      /\ Traced(call, s, Restored(sessionRow[s]))
    BY <1>1
  <2>1. sessionRow[s] \in Row
    BY DEF SInv, ServiceTypeOK
  <2>2. sessionRow[s].state \in SessionState(Workspaces)
    BY <2>1 DEF Row
  <2>3. IF sessionRow[s].bare THEN Within(sessionRow[s].state, Unopened)
                              ELSE Traced(call, s, sessionRow[s].state)
    BY DEF SInv, RowsAreBehind
  <2>4. CASE sessionRow[s].bare
    <3>1. Restored(sessionRow[s]) = Unopened
      BY <2>4 DEF Restored
    <3>2. Unopened \in SessionState(Workspaces)
      BY NewSessionType DEF Unopened
    <3>3. Traced(call, s, Unopened)
      BY DEF Traced, Unopened, NewSession
    <3> QED
      BY <2>3, <2>4, <3>1, <3>2, <3>3
  <2>5. CASE ~sessionRow[s].bare
    <3>1. Restored(sessionRow[s]) = sessionRow[s].state
      BY <2>5 DEF Restored
    <3> QED
      BY <2>2, <2>3, <2>5, <3>1, WithinIsAnOrder
  <2> QED
    BY <2>4, <2>5
<1>8. session' \in [SessionIds -> SessionState(Workspaces)]
  BY <1>1, <1>7
<1>9. replay' \in Store(Kept(call'))
  <2>1. ServiceTypeOK
    BY DEF SInv
  <2>2. replay' = EmptyStore \/ \E order \in RestoreOrders : replay' = RestoredReplay(order, clock')
    BY DEF Restart
  <2>3. replay' \in Store(Kept(call))
    BY <1>1, <2>1, <2>2, EmptyStoreType, RestoreOrderType, RestoredReplayType
  <2> QED
    BY <1>4, <2>3, StandingStays, StoreWidens
<1> DEFINE now == clock'
<1>9a. now \in Nat /\ clock \in Nat /\ clock <= now
  BY <1>1, ServiceAssumption DEF SInv, ServiceTypeOK
<1> HIDE DEF now
\* A cache entry that is put back is its row's, but for its time.
<1>9b. ASSUME NEW e \in allowCache'
       PROVE  /\ e \in CacheEntry
              /\ \E f \in cacheRow : e.id = f.id /\ e.session = f.session /\ e.key = f.key
  <2>1. PICK f \in cacheRow : /\ clock + Second <= f.expires
                              /\ e = [f EXCEPT !.expires = now + WholeSeconds(f.expires - clock)]
    BY <1>1 DEF RestoredCache, now
  <2>2. f \in CacheEntry /\ f.expires \in Nat
    BY DEF SInv, ServiceTypeOK, CacheEntry
  <2> DEFINE left == WholeSeconds(f.expires - clock)
  <2>3. left \in Nat
    <3>1. f.expires - clock \in Nat
      BY <1>9a, <2>1, <2>2, ServiceAssumption
    <3> QED
      BY <3>1, WholeSecondsRoundDown
  <2> HIDE DEF left
  <2>4. e = [f EXCEPT !.expires = now + left] /\ now + left \in Nat
    BY <1>9a, <2>1, <2>3 DEF left
  <2> QED
    BY <2>2, <2>4 DEF CacheEntry
<1>10. ServiceTypeOK'
  <2>1. rows' \subseteq Done' /\ IsFiniteSet(rows')
    BY <1>1, <1>4 DEF SInv, ServiceTypeOK, Done, Stands
  <2>2. allowCache' \subseteq CacheEntry /\ cacheRow' \subseteq CacheEntry
    BY <1>1, <1>9b DEF SInv, ServiceTypeOK
  <2>3. clock' \in Nat /\ sessionRow' \in [SessionIds -> Row]
    BY <1>1, <1>9a DEF SInv, ServiceTypeOK, now
  <2> QED
    BY <1>3, <1>6, <1>8, <1>9, <2>1, <2>2, <2>3 DEF ServiceTypeOK
<1>11. ReviewsArePinned'
  BY <1>2, <1>5 DEF ReviewsArePinned, Lost
<1>12. SessionsAreTraced'
  BY <1>4, <1>7, StandingStays DEF SessionsAreTraced
<1>13. RowsAreBehind'
  <2> SUFFICES ASSUME NEW s \in SessionIds
               PROVE  /\ Within(sessionRow[s].state, session'[s])
                      /\ IF sessionRow[s].bare THEN Within(sessionRow[s].state, Unopened)
                                               ELSE Traced(call', s, sessionRow[s].state)
    BY <1>1 DEF RowsAreBehind
  <2>1. IF sessionRow[s].bare THEN Within(sessionRow[s].state, Unopened)
                              ELSE Traced(call, s, sessionRow[s].state)
    BY DEF SInv, RowsAreBehind
  <2> QED
    BY <1>4, <1>7, <2>1, StandingStays
<1>14. UpsertsAreBehind'
  BY <1>6 DEF UpsertsAreBehind
<1>15. TasksFollowAnswers'
  <2>1. \A c \in Calls : work[c].at # "none" => call'[c].phase = "done"
    BY <1>4 DEF SInv, TasksFollowAnswers, Stands
  <2> QED
    BY <1>6, <2>1 DEF TasksFollowAnswers
<1>16. EntriesAreGranted'
  <2>1. \A e \in cacheRow : e.id \in Calls /\ Granted(call, e)
    BY DEF SInv, EntriesAreGranted, ServiceTypeOK, CacheEntry
  <2>2. \A e \in cacheRow : Granted(call', e)
    BY <1>4, <2>1, StandingStays
  <2>3. \A e \in allowCache' : Granted(call', e)
    BY <1>9b, <2>2 DEF Granted
  <2> QED
    BY <1>1, <2>2, <2>3 DEF EntriesAreGranted
<1>17. AnswersAreJust'
  <2> SUFFICES ASSUME NEW d \in Calls, call'[d].phase \in {"done", "replayed"}
               PROVE  /\ call'[d].phase = "done" => call'[d].at <= now
                      /\ call'[d].phase = "replayed" => OwnAnswer(call', call'[d])
                      /\ call'[d].phase = "done" /\ call'[d].cached => HasGrant(call', call'[d])
    BY <1>1 DEF AnswersAreJust, now
  <2>1. call'[d] = call[d]
    BY <1>5
  <2>2. call[d].phase = "replayed" => call[d].of \in Calls
    BY CallTypes DEF SInv, Repeated
  <2>3. /\ call[d].phase = "done" => call[d].at <= clock
        /\ call[d].phase = "replayed" => OwnAnswer(call, call[d])
        /\ call[d].phase = "done" /\ call[d].cached => HasGrant(call, call[d])
    BY DEF SInv, AnswersAreJust
  <2>4. call[d].phase = "done" => call[d].at \in Nat
    BY CallTypes DEF SInv, Answered
  <2>5. call[d].phase = "done" => call[d].at <= now
    BY <1>9a, <2>3, <2>4
  <2> QED
    BY <1>4, <2>1, <2>2, <2>3, <2>5, StandingStays
<1> QED
  BY <1>10, <1>11, <1>12, <1>13, <1>14, <1>15, <1>16, <1>17 DEF SInv

-----------------------------------------------------------------------------
LEMMA InitSInv == ServiceInit => SInv
<1> SUFFICES ASSUME ServiceInit PROVE SInv
  OBVIOUS
<1>1. /\ session = [s \in SessionIds |-> Unopened]
      /\ allowCache = {} /\ cacheRow = {} /\ rows = {} /\ clock = 0
      /\ call = [c \in Calls |-> NoCall]
      /\ replay = EmptyStore
      /\ work = [c \in Calls |-> At("none")]
      /\ sessionRow = [s \in SessionIds |-> NoRow]
  BY DEF ServiceInit, Init
<1>2. \A c \in Calls : call[c].phase = "new" /\ work[c].at = "none"
  BY <1>1 DEF NoCall, At
<1>3. Unopened \in SessionState(Workspaces)
  BY NewSessionType DEF Unopened
<1>4. \A s \in SessionIds : session[s] = Unopened /\ sessionRow[s].bare /\ sessionRow[s].state = Unopened
  BY <1>1 DEF NoRow
<1>5. ServiceTypeOK
  <2>1. NoCall \in CallState /\ At("none") \in Task /\ NoRow \in Row
    BY <1>3 DEF CallState, Task, At, Stages, NoRow, Row
  <2>2. replay \in Store(Kept(call))
    BY <1>1, EmptyStoreType
  <2>3. IsFiniteSet({})
    BY FS_EmptySet
  <2> QED
    BY <1>1, <1>3, <2>1, <2>2, <2>3 DEF ServiceTypeOK
<1>6. ReviewsArePinned /\ TasksFollowAnswers /\ UpsertsAreBehind /\ AnswersAreJust /\ EntriesAreGranted
  BY <1>1, <1>2 DEF ReviewsArePinned, TasksFollowAnswers, UpsertsAreBehind, AnswersAreJust,
                    EntriesAreGranted
<1>7. SessionsAreTraced
  BY <1>4 DEF SessionsAreTraced, Traced, Unopened, NewSession
<1>8. RowsAreBehind
  BY <1>3, <1>4, WithinIsAnOrder DEF RowsAreBehind
<1> QED
  BY <1>5, <1>6, <1>7, <1>8 DEF SInv

LEMMA ServiceNextSInv == SInv /\ [ServiceNext]_serviceVars => SInv'
<1> SUFFICES ASSUME SInv, [ServiceNext]_serviceVars PROVE SInv'
  OBVIOUS
<1>1. ASSUME NEW c \in Calls, NEW r \in Requests, Repeat(c, r) \/ Serve(c, r) PROVE SInv'
  BY <1>1, RepeatSInv, ServeSInv
<1>2. ASSUME NEW c \in Calls, Resume(c) PROVE SInv'
  BY <1>2, ResumeSInv
<1>3. ASSUME NEW c \in Calls, Write(c) PROVE SInv'
  BY <1>3, BeginTaskSInv, CommitSessionSInv, InsertDecisionSInv, StoreCacheEntrySInv,
     FailTaskSInv DEF Write
<1>4. ASSUME NEW s \in SessionIds, NEW w \in Workspaces, EnsureSession(s, w) PROVE SInv'
  BY <1>4, EnsureSessionSInv
<1>5. CASE Tick /\ UNCHANGED <<replay, work, store, life>>
  BY <1>5, TickSInv
<1>6. CASE Restart
  BY <1>6, RestartSInv
<1>7. CASE UNCHANGED serviceVars
  BY <1>7 DEF serviceVars, vars, store, SInv, ServiceTypeOK, Done, ReviewsArePinned,
              SessionsAreTraced, RowsAreBehind, UpsertsAreBehind, TasksFollowAnswers, HasState,
              IsCacheable, EntriesAreGranted, AnswersAreJust
<1> QED
  BY <1>1, <1>2, <1>3, <1>4, <1>5, <1>6, <1>7 DEF ServiceNext

LEMMA SpecSInv == ServiceSpec => []SInv
  BY InitSInv, ServiceNextSInv, PTL DEF ServiceSpec

-----------------------------------------------------------------------------
\* Every variable of the service keeps its type: in particular the replay store
\* holds nothing but answers, each under its own slot for its own TTL, and the
\* stored decisions are answers that were given (domain/replay.py,
\* session/replay.py, store/repo.py).
THEOREM ServiceTypeCorrect == ServiceSpec => []ServiceTypeOK
<1>1. SInv => ServiceTypeOK
  BY DEF SInv
<1> QED
  BY <1>1, SpecSInv, PTL

\* A pin always comes from a decide call of its session, though inspections and
\* restarts store and read the session's row too (session/persistent.py).
THEOREM PinsComeFromDecisions == ServiceSpec => []PinComesFromADecision
<1>1. SInv => PinComesFromADecision
  BY DEF SInv, SessionsAreTraced, Traced, PinComesFromADecision, Bound
<1> QED
  BY <1>1, SpecSInv, PTL

\* An allow out of the cache was granted by the cascade, though the entry may
\* have been stored by one process and read by another (store/writer.py).
THEOREM StoredAllowsWereGranted == ServiceSpec => []CachedAllowWasGranted
<1>1. SInv => CachedAllowWasGranted
  BY DEF SInv, AnswersAreJust, HasGrant, CachedAllowWasGranted, Done
<1> QED
  BY <1>1, SpecSInv, PTL

\* No restart makes a session younger than its row, whatever statement failed
\* and whichever task committed last (session/persistent.py, store/writer.py).
THEOREM StoreStaysBehind == ServiceSpec => []StoreIsNeverAhead
<1>1. SInv => StoreIsNeverAhead
  BY DEF SInv, RowsAreBehind, Within, StoreIsNeverAhead
<1> QED
  BY <1>1, SpecSInv, PTL

-----------------------------------------------------------------------------
(***************************************************************************)
(* What the replay store remembers.                                        *)
(***************************************************************************)

\* The calls of f with an answer under a key, and the entries they leave.
KeyedOf(f) == {c \in Calls : f[c].phase = "done" /\ f[c].request.key # NoKey}

\* Before the first restart, an entry lives for exactly a TTL.
KeyedEntries(f, n) ==
  {e \in Kept(f) : e.value \in KeyedOf(f) /\ (n = 0 => e.expires = f[e.value].at + TTL)}

\* Crowded, of the calls f after n restarts.
RivalSlots(f, n, c) ==
  {Slot(f[d].request) : d \in {d \in KeyedOf(f) : n = 0 => f[d].at >= f[c].at}} \ {Slot(f[c].request)}

CrowdedOut(f, n, c) == Cardinality(RivalSlots(f, n, c)) >= MaxEntries

\* An entry of call c's slot that is no older than its answer.
HeldIn(items, f, c) ==
  \E i \in DOMAIN items : items[i].key = Slot(f[c].request) /\ f[c].at <= f[items[i].value].at

Orderly(s, f, n) ==
  /\ s \in Store(KeyedEntries(f, n))
  /\ Len(s.items) <= MaxEntries
  /\ OneEntryPerKey(s.items)
  /\ n = 0 => OldestFirst(s.items)

AnswersHaveTimes(f) == \A c \in KeyedOf(f) : f[c].at \in Nat

\* The answers that have not been lost to a crash, and still may be stored.
Owed(c) ==
  \/ restarts = 0
  \/ ~forgot /\ (c \in rows \/ work[c].at \in {"queued", "upserting", "inserting"})

\* No two rows are of one slot.
RowsDiffer ==
  \A c, d \in rows : c # d /\ call[c].request.key # NoKey =>
    Slot(call[c].request) # Slot(call[d].request)

RInv ==
  /\ restarts \in Nat
  /\ IsFiniteSet(KeyedOf(call))
  /\ RowsDiffer
  /\ Orderly(replay, call, restarts)
  /\ \A c \in KeyedOf(call) : clock < call[c].at + TTL /\ Owed(c) =>
       HeldIn(replay.items, call, c) \/ CrowdedOut(call, restarts, c)

LEMMA SlotHasKey ==
  ASSUME NEW q, NEW r, Slot(q) = Slot(r)
  PROVE  q.key = r.key
  BY DEF Slot

LEMMA KeyedTimes == SInv => AnswersHaveTimes(call)
  BY CallTypes DEF AnswersHaveTimes, KeyedOf, Answered, SInv

LEMMA RivalSlotsFinite ==
  ASSUME NEW f, IsFiniteSet(KeyedOf(f)), NEW n, NEW c
  PROVE  IsFiniteSet(RivalSlots(f, n, c)) /\ Cardinality(RivalSlots(f, n, c)) \in Nat
<1> DEFINE rivals == {d \in KeyedOf(f) : n = 0 => f[d].at >= f[c].at}
           slots == {Slot(f[d].request) : d \in rivals}
           h == [d \in rivals |-> Slot(f[d].request)]
<1>1. IsFiniteSet(rivals)
  BY FS_Subset
<1>2. h \in Surjection(rivals, slots)
  BY DEF Surjection
<1> HIDE DEF h, rivals
<1>3. IsFiniteSet(slots)
  BY <1>1, <1>2, FS_Surjection
<1>4. RivalSlots(f, n, c) \subseteq slots
  BY DEF RivalSlots, rivals
<1> HIDE DEF slots
<1>5. IsFiniteSet(RivalSlots(f, n, c))
  BY <1>3, <1>4, FS_Subset
<1> QED
  BY <1>5, FS_CardinalityType

\* Once crowded out, an answer stays so: answers stand, and a restart makes more
\* of them count.
LEMMA CrowdedStays ==
  ASSUME NEW f, NEW g, \A c \in KeyedOf(f) : c \in KeyedOf(g) /\ g[c] = f[c],
         IsFiniteSet(KeyedOf(g)), NEW n \in Nat, NEW m \in Nat, m = 0 => n = 0,
         NEW c \in KeyedOf(f), CrowdedOut(f, n, c)
  PROVE  CrowdedOut(g, m, c)
<1>1. RivalSlots(f, n, c) \subseteq RivalSlots(g, m, c)
  BY DEF RivalSlots
<1> DEFINE A == RivalSlots(f, n, c)
           B == RivalSlots(g, m, c)
<1>2. IsFiniteSet(B) /\ Cardinality(B) \in Nat
  BY RivalSlotsFinite
<1>3. A \subseteq B
  BY <1>1
<1> HIDE DEF A, B
<1>4. Cardinality(A) <= Cardinality(B) /\ Cardinality(A) \in Nat
  BY <1>2, <1>3, FS_Subset, FS_CardinalityType
<1>5. Cardinality(A) >= MaxEntries /\ MaxEntries \in Nat
  BY TtlStoreAssumption DEF CrowdedOut, A
<1> QED
  BY <1>2, <1>4, <1>5 DEF CrowdedOut, B

\* As many answers of other slots as the store may hold crowd one out.
LEMMA Crowds ==
  ASSUME NEW f, IsFiniteSet(KeyedOf(f)), NEW n, NEW c,
         NEW N \in Nat, MaxEntries <= N, NEW q \in [1..N -> KeyedOf(f)],
         \A i \in 1..N : /\ n = 0 => f[q[i]].at >= f[c].at
                         /\ Slot(f[q[i]].request) # Slot(f[c].request),
         \A i, j \in 1..N : i < j => Slot(f[q[i]].request) # Slot(f[q[j]].request)
  PROVE  CrowdedOut(f, n, c)
<1> DEFINE h == [i \in 1..N |-> Slot(f[q[i]].request)]
           S == RivalSlots(f, n, c)
<1>1. \A i \in 1..N : h[i] \in S
  BY DEF RivalSlots
<1>2. \A i, j \in 1..N : i # j => h[i] # h[j]
  <2> SUFFICES ASSUME NEW i \in 1..N, NEW j \in 1..N, i # j
               PROVE  Slot(f[q[i]].request) # Slot(f[q[j]].request)
    OBVIOUS
  <2>1. i < j \/ j < i
    OBVIOUS
  <2> QED
    BY <2>1
<1>3. IsFiniteSet(S) /\ Cardinality(S) \in Nat
  BY RivalSlotsFinite
<1>4. h = [i \in 1..N |-> h[i]]
  OBVIOUS
<1> HIDE DEF h, S
<1>5. h \in Injection(1..N, S)
  BY <1>1, <1>2, <1>4 DEF Injection, IsInjective
<1>6. Cardinality(1..N) <= Cardinality(S)
  BY <1>3, <1>5, FS_Injection
<1>7. Cardinality(1..N) = N
  <2>1. 1 \in Int /\ N \in Int /\ N - 1 + 1 = N /\ (1 > N => N = 0)
    OBVIOUS
  <2> QED
    BY <2>1, FS_Interval
<1>8. N <= Cardinality(S) /\ MaxEntries \in Nat
  BY <1>6, <1>7, TtlStoreAssumption
<1> QED
  BY <1>3, <1>8 DEF CrowdedOut, S

\* What an orderly store's entries are.
LEMMA EntriesAreAnswers ==
  ASSUME NEW f, NEW n, NEW s, Orderly(s, f, n), NEW i \in DOMAIN s.items
  PROVE  LET e == s.items[i]
         IN /\ e \in KeyedEntries(f, n) /\ e.value \in KeyedOf(f)
            /\ e.key = Slot(f[e.value].request)
            /\ e.expires \in Nat /\ f[e.value].at + TTL <= e.expires
            /\ n = 0 => e.expires = f[e.value].at + TTL
<1>1. s.items[i] \in KeyedEntries(f, n)
  BY DEF Orderly, Store
<1> QED
  BY <1>1 DEF KeyedEntries, Kept

\* A put keeps the store orderly, and a live answer in it or crowds it out.
LEMMA PutHolds ==
  ASSUME NEW f, NEW n, IsFiniteSet(KeyedOf(f)), AnswersHaveTimes(f),
         NEW s, Orderly(s, f, n),
         NEW key, NEW value, NEW ttl, NEW now \in Nat,
         NEW entry \in KeyedEntries(f, n), entry = [key |-> key, value |-> value, expires |-> now + ttl],
         n = 0 => \A a \in DOMAIN s.items : s.items[a].expires <= entry.expires,
         NEW after, after = AfterPut(s, key, value, ttl, now)
  PROVE  /\ Orderly(after, f, n)
         /\ HeldIn(after.items, f, value)
         /\ \A c \in KeyedOf(f) :
              /\ HeldIn(s.items, f, c)
              /\ now < f[c].at + TTL
              /\ Slot(f[c].request) = key => f[c].at <= f[value].at
              => HeldIn(after.items, f, c) \/ CrowdedOut(f, n, c)
<1> DEFINE K == KeyedEntries(f, n)
<1>1. /\ s \in Store(K) /\ entry \in K /\ Len(s.items) <= MaxEntries /\ OneEntryPerKey(s.items)
      /\ n = 0 => OldestFirst(s.items)
  BY DEF Orderly
<1>2. /\ entry.value \in KeyedOf(f) /\ entry.key = Slot(f[entry.value].request)
      /\ n = 0 => entry.expires = f[entry.value].at + TTL
      /\ entry.value = value /\ entry.key = key /\ entry.expires \in Nat /\ f[value].at \in Nat
  BY DEF KeyedEntries, Kept, AnswersHaveTimes
<1> HIDE DEF K
<1>3. /\ after \in Store(K) /\ Len(after.items) <= MaxEntries /\ OneEntryPerKey(after.items)
      /\ n = 0 => OldestFirst(after.items)
  BY <1>1, AfterPutType, AfterPutWithinCap, AfterPutOrders
<1>4. Orderly(after, f, n)
  BY <1>3 DEF Orderly, K
<1>5. Len(after.items) \in DOMAIN after.items /\ after.items[Len(after.items)] = entry
  BY <1>1, AfterPutEnds
<1>6. HeldIn(after.items, f, value)
  <2>1. \A m \in Nat : m <= m
    OBVIOUS
  <2>2. entry.value = value /\ f[value].at \in Nat /\ entry.key = Slot(f[value].request)
    BY <1>2
  <2> QED
    BY <1>5, <2>1, <2>2 DEF HeldIn
<1>7. ASSUME NEW c \in KeyedOf(f), HeldIn(s.items, f, c), now < f[c].at + TTL,
             Slot(f[c].request) = key => f[c].at <= f[value].at
      PROVE  HeldIn(after.items, f, c) \/ CrowdedOut(f, n, c)
  <2>1. PICK i \in DOMAIN s.items :
          s.items[i].key = Slot(f[c].request) /\ f[c].at <= f[s.items[i].value].at
    BY <1>7 DEF HeldIn
  <2>2. /\ f[c].at \in Nat /\ TTL \in Nat /\ s.items[i].expires \in Nat
        /\ f[s.items[i].value].at \in Nat
        /\ f[s.items[i].value].at + TTL <= s.items[i].expires
        /\ n = 0 => s.items[i].expires = f[s.items[i].value].at + TTL
    BY EntriesAreAnswers, GateAssumption DEF AnswersHaveTimes
  <2>3. now < s.items[i].expires
    BY <1>7, <2>1, <2>2
  <2>4. CASE key = Slot(f[c].request)
    BY <1>2, <1>5, <1>7, <2>4 DEF HeldIn
  <2>5. CASE \E j \in DOMAIN after.items : after.items[j] = s.items[i]
    BY <2>1, <2>5 DEF HeldIn
  <2>6. CASE /\ key # Slot(f[c].request)
             /\ ~ \E j \in DOMAIN after.items : after.items[j] = s.items[i]
    <3>1. /\ Len(after.items) = MaxEntries
          /\ \A j \in DOMAIN after.items : after.items[j].key # s.items[i].key
          /\ OldestFirst(s.items) =>
               \A j \in DOMAIN after.items : after.items[j] = entry \/ s.items[i].expires <= after.items[j].expires
      <4>1. s \in Store(K) /\ entry \in K /\ entry = [key |-> key, value |-> value, expires |-> now + ttl]
        BY <1>1
      <4>2. Len(s.items) <= MaxEntries /\ OneEntryPerKey(s.items)
        BY <1>1
      <4>3. i \in DOMAIN s.items /\ now < s.items[i].expires /\ s.items[i].key # key
        BY <2>1, <2>3, <2>6
      <4>4. ~ \E j \in DOMAIN AfterPut(s, key, value, ttl, now).items :
                 AfterPut(s, key, value, ttl, now).items[j] = s.items[i]
        BY <2>6
      <4>5. Displaced(s, i, entry, AfterPut(s, key, value, ttl, now).items)
        BY <4>1, <4>2, <4>3, <4>4, AfterPutDisplaces
      <4> QED
        BY <4>5 DEF Displaced
    <3> DEFINE q == [j \in 1..MaxEntries |-> after.items[j].value]
    <3>2. MaxEntries \in Nat /\ DOMAIN after.items = 1..MaxEntries
      <4>1. MaxEntries \in Nat /\ after.items \in Seq(K)
        BY <1>3, TtlStoreAssumption DEF Store
      <4> QED
        BY <3>1, <4>1
    <3>3. ASSUME NEW j \in 1..MaxEntries
          PROVE  /\ q[j] \in KeyedOf(f) /\ Slot(f[q[j]].request) = after.items[j].key
                 /\ n = 0 => after.items[j].expires = f[q[j]].at + TTL
                 /\ f[q[j]].at \in Nat
                 /\ after.items[j].expires \in Nat
      BY <1>4, <3>2, EntriesAreAnswers DEF AnswersHaveTimes
    <3>4. q \in [1..MaxEntries -> KeyedOf(f)]
      BY <3>3
    <3> HIDE DEF q
    <3>5. ASSUME NEW j \in 1..MaxEntries
          PROVE  /\ n = 0 => f[q[j]].at >= f[c].at
                 /\ Slot(f[q[j]].request) # Slot(f[c].request)
      <4>1. ASSUME n = 0 PROVE f[q[j]].at >= f[c].at
        <5>1. s.items[i].expires <= after.items[j].expires
          BY <1>1, <3>1, <3>2, <4>1
        <5> QED
          BY <2>1, <2>2, <3>3, <4>1, <5>1
      <4> QED
        BY <2>1, <3>1, <3>2, <3>3, <4>1
    <3>6. \A j, k \in 1..MaxEntries : j < k => Slot(f[q[j]].request) # Slot(f[q[k]].request)
      <4> SUFFICES ASSUME NEW j \in 1..MaxEntries, NEW k \in 1..MaxEntries, j < k
                   PROVE  Slot(f[q[j]].request) # Slot(f[q[k]].request)
        OBVIOUS
      <4>1. after.items[j].key # after.items[k].key
        BY <1>3, <3>2 DEF OneEntryPerKey
      <4> QED
        BY <3>3, <4>1
    <3>7. MaxEntries <= MaxEntries
      BY <3>2
    <3> QED
      BY <3>2, <3>4, <3>5, <3>6, <3>7, Crowds
  <2> QED
    BY <2>4, <2>5, <2>6
<1> QED
  BY <1>4, <1>6, <1>7

\* A look-up keeps the store orderly, and every live answer in it.
LEMMA GetHolds ==
  ASSUME NEW f, NEW n, AnswersHaveTimes(f), NEW s, Orderly(s, f, n), NEW key, NEW now \in Nat,
         NEW after, after = AfterGet(s, key, now)
  PROVE  /\ Orderly(after, f, n)
         /\ \A c \in KeyedOf(f) : HeldIn(s.items, f, c) /\ now < f[c].at + TTL => HeldIn(after.items, f, c)
<1> DEFINE K == KeyedEntries(f, n)
<1>1. /\ s \in Store(K) /\ Len(s.items) <= MaxEntries /\ OneEntryPerKey(s.items)
      /\ n = 0 => OldestFirst(s.items)
  BY DEF Orderly
<1> HIDE DEF K
<1>2. /\ after \in Store(K) /\ Len(after.items) <= MaxEntries /\ OneEntryPerKey(after.items)
      /\ n = 0 => OldestFirst(after.items)
  BY <1>1, AfterGetType, AfterGetWithinCap, AfterGetOrders
<1>3. Orderly(after, f, n)
  BY <1>2 DEF Orderly, K
<1>4. ASSUME NEW c \in KeyedOf(f), HeldIn(s.items, f, c), now < f[c].at + TTL
      PROVE  HeldIn(after.items, f, c)
  <2>1. PICK i \in DOMAIN s.items :
          s.items[i].key = Slot(f[c].request) /\ f[c].at <= f[s.items[i].value].at
    BY <1>4 DEF HeldIn
  <2>2. /\ f[c].at \in Nat /\ TTL \in Nat /\ s.items[i].expires \in Nat
        /\ f[s.items[i].value].at \in Nat
        /\ f[s.items[i].value].at + TTL <= s.items[i].expires
        /\ n = 0 => s.items[i].expires = f[s.items[i].value].at + TTL
    BY EntriesAreAnswers, GateAssumption DEF AnswersHaveTimes
  <2>3. now < s.items[i].expires
    BY <1>4, <2>1, <2>2
  <2>4. \E j \in DOMAIN after.items : after.items[j] = s.items[i]
    BY <1>1, <2>3, AfterGetKeeps
  <2> QED
    BY <2>1, <2>4 DEF HeldIn
<1> QED
  BY <1>3, <1>4

LEMMA OrderlyStays ==
  ASSUME NEW f, NEW g, \A c \in KeyedOf(f) : c \in KeyedOf(g) /\ g[c] = f[c],
         NEW n, NEW s, Orderly(s, f, n)
  PROVE  /\ Orderly(s, g, n)
         /\ \A c \in KeyedOf(f) : HeldIn(s.items, f, c) => HeldIn(s.items, g, c)
<1>1. KeyedEntries(f, n) \subseteq KeyedEntries(g, n)
  BY DEF KeyedEntries, Kept, KeyedOf
<1> DEFINE A == KeyedEntries(f, n)
           B == KeyedEntries(g, n)
<1>2. A \subseteq B /\ s \in Store(A)
  BY <1>1 DEF Orderly
<1> HIDE DEF A, B
<1>3. s \in Store(B)
  BY <1>2, StoreWidens
<1>4. Orderly(s, g, n)
  BY <1>3 DEF Orderly, B
<1>5. \A i \in DOMAIN s.items : s.items[i].value \in KeyedOf(f)
  BY EntriesAreAnswers
<1> QED
  BY <1>4, <1>5 DEF HeldIn

\* A step that gives no answer under a key, and loses none from the store.
LEMMA QuietRInv ==
  ASSUME RInv, AnswersHaveTimes(call),
         KeyedOf(call') = KeyedOf(call), \A c \in KeyedOf(call) : call'[c] = call[c],
         Orderly(replay', call, restarts),
         \A c \in KeyedOf(call) :
           HeldIn(replay.items, call, c) /\ clock < call[c].at + TTL => HeldIn(replay'.items, call, c),
         restarts' = restarts, clock \in Nat, clock' \in Nat, clock <= clock',
         \A c \in KeyedOf(call) : Owed(c)' => Owed(c), RowsDiffer'
  PROVE  RInv'
<1>1. /\ restarts \in Nat /\ IsFiniteSet(KeyedOf(call))
      /\ \A c \in KeyedOf(call) : clock < call[c].at + TTL /\ Owed(c) =>
           HeldIn(replay.items, call, c) \/ CrowdedOut(call, restarts, c)
  BY DEF RInv
<1>2. /\ Orderly(replay', call', restarts')
      /\ \A c \in KeyedOf(call) : HeldIn(replay'.items, call, c) => HeldIn(replay'.items, call', c)
  BY OrderlyStays
<1>3. ASSUME NEW c \in KeyedOf(call), clock' < call[c].at + TTL, Owed(c)'
      PROVE  HeldIn(replay'.items, call', c) \/ CrowdedOut(call', restarts', c)
  <2>1. call[c].at \in Nat /\ TTL \in Nat
    BY GateAssumption DEF AnswersHaveTimes
  <2>2. clock < call[c].at + TTL
    BY <1>3, <2>1
  <2>3. HeldIn(replay.items, call, c) \/ CrowdedOut(call, restarts, c)
    BY <1>1, <1>3, <2>2
  <2>4. CASE HeldIn(replay.items, call, c)
    BY <1>2, <2>2, <2>4
  <2>5. CASE CrowdedOut(call, restarts, c)
    BY <1>1, <2>5, CrowdedStays
  <2> QED
    BY <2>3, <2>4, <2>5
<1> QED
  BY <1>1, <1>2, <1>3 DEF RInv

\* An answer under a key is put into the store, whichever way it came about.
LEMMA AnswerRInv ==
  ASSUME SInv, RInv, NEW c \in Calls, NEW r \in Requests, NEW x, GateStep(c, r, x),
         x.phase = "done", r.key # NoKey,
         NEW entries, Orderly(entries, call, restarts),
         \A d \in KeyedOf(call) :
           HeldIn(replay.items, call, d) /\ clock < call[d].at + TTL => HeldIn(entries.items, call, d),
         replay' = ReplayPut(entries, r, c), UNCHANGED <<store, life>>,
         work' = [work EXCEPT ![c] = At("queued")]
  PROVE  RInv'
<1>1. /\ call'[c] = x /\ \A d \in Calls : d # c => call'[d] = call[d]
      /\ Stands(call, call') /\ call[c].phase \in {"new", "review"}
  BY GateStepFrame DEF SInv
<1>2. x.request = r /\ x.at = clock /\ clock' = clock /\ clock \in Nat /\ TTL \in Nat
  BY GateAssumption DEF GateStep, SInv, ServiceTypeOK
<1>3. /\ restarts \in Nat /\ restarts' = restarts /\ forgot' = forgot /\ rows' = rows
      /\ IsFiniteSet(KeyedOf(call)) /\ AnswersHaveTimes(call)
  BY KeyedTimes DEF RInv, life, store
<1>4. KeyedOf(call') = KeyedOf(call) \cup {c} /\ c \notin KeyedOf(call)
  BY <1>1, <1>2 DEF KeyedOf
<1>5. \A d \in KeyedOf(call) : d \in KeyedOf(call') /\ call'[d] = call[d] /\ d # c /\ d \in Calls
  BY <1>1, <1>4 DEF KeyedOf
<1>6. IsFiniteSet(KeyedOf(call')) /\ AnswersHaveTimes(call')
  <2>1. IsFiniteSet(KeyedOf(call) \cup {c})
    BY <1>3, FS_AddElement
  <2> QED
    BY <1>1, <1>2, <1>3, <1>4, <1>5, <2>1 DEF AnswersHaveTimes
<1>7. RowsDiffer'
  <2>1. \A d \in rows : call'[d] = call[d]
    BY <1>1 DEF SInv, ServiceTypeOK, Stands, Done
  <2> QED
    BY <1>3, <2>1 DEF RInv, RowsDiffer
<1>8. /\ Orderly(entries, call', restarts)
      /\ \A d \in KeyedOf(call) : HeldIn(entries.items, call, d) => HeldIn(entries.items, call', d)
  BY <1>5, OrderlyStays
<1> DEFINE entry == [key |-> Slot(r), value |-> c, expires |-> clock + TTL]
<1>9. /\ entry \in KeyedEntries(call', restarts) /\ entry.expires = clock + TTL
      /\ entry = [key |-> Slot(r), value |-> c, expires |-> clock + TTL]
  <2>1. /\ clock + TTL \in Nat /\ clock + TTL <= clock + TTL
        /\ clock + TTL <= clock + (TTL + Slack)
    BY <1>2, SlackType
  <2>2. entry \in Kept(call') /\ entry.value \in KeyedOf(call')
    BY <1>1, <1>2, <1>4, <2>1 DEF Kept
  <2> QED
    BY <1>1, <1>2, <2>2 DEF KeyedEntries
<1>10. ASSUME restarts = 0, NEW a \in DOMAIN entries.items
       PROVE  entries.items[a].expires <= entry.expires
  <2> DEFINE e == entries.items[a]
  <2>1. e.value \in KeyedOf(call) /\ e.expires = call[e.value].at + TTL
    BY <1>10, EntriesAreAnswers
  <2>2. call[e.value].at \in Nat /\ call[e.value].at <= clock
    BY <1>3, <2>1 DEF AnswersHaveTimes, KeyedOf, SInv, AnswersAreJust
  <2> HIDE DEF e
  <2>3. e.expires <= clock + TTL
    BY <1>2, <2>1, <2>2
  <2> QED
    BY <2>3 DEF e
<1>11. replay' = AfterPut(entries, Slot(r), c, TTL, clock)
  BY DEF ReplayPut
<1> HIDE DEF entry
<1> DEFINE f == call'
           after == replay'
<1>12. /\ IsFiniteSet(KeyedOf(f)) /\ AnswersHaveTimes(f) /\ Orderly(entries, f, restarts)
       /\ clock \in Nat /\ entry \in KeyedEntries(f, restarts)
       /\ entry = [key |-> Slot(r), value |-> c, expires |-> clock + TTL]
       /\ after = AfterPut(entries, Slot(r), c, TTL, clock)
       /\ restarts = 0 => \A a \in DOMAIN entries.items : entries.items[a].expires <= entry.expires
  BY <1>2, <1>6, <1>8, <1>9, <1>10, <1>11
<1> HIDE DEF f, after
<1>13. /\ Orderly(after, f, restarts)
       /\ HeldIn(after.items, f, c)
       /\ \A d \in KeyedOf(f) :
            /\ HeldIn(entries.items, f, d)
            /\ clock < f[d].at + TTL
            /\ Slot(f[d].request) = Slot(r) => f[d].at <= f[c].at
            => HeldIn(after.items, f, d) \/ CrowdedOut(f, restarts, d)
  BY <1>12, PutHolds
<1>14. /\ Orderly(replay', call', restarts)
       /\ HeldIn(replay'.items, call', c)
       /\ \A d \in KeyedOf(call') :
            /\ HeldIn(entries.items, call', d)
            /\ clock < call'[d].at + TTL
            /\ Slot(call'[d].request) = Slot(r) => call'[d].at <= call'[c].at
            => HeldIn(replay'.items, call', d) \/ CrowdedOut(call', restarts, d)
  BY <1>13 DEF f, after
<1>15. ASSUME NEW d \in KeyedOf(call'), clock' < call'[d].at + TTL, Owed(d)'
       PROVE  HeldIn(replay'.items, call', d) \/ CrowdedOut(call', restarts', d)
  <2>1. CASE d = c
    BY <1>14, <2>1
  <2>2. CASE d # c
    <3>1. d \in KeyedOf(call) /\ call'[d] = call[d] /\ clock < call[d].at + TTL /\ d \in Calls
      BY <1>2, <1>4, <1>5, <1>15, <2>2
    <3>2. work'[d] = work[d]
      BY <2>2, <3>1 DEF SInv, ServiceTypeOK
    <3>3. Owed(d)
      BY <1>3, <1>15, <3>2 DEF Owed
    <3>4. HeldIn(replay.items, call, d) \/ CrowdedOut(call, restarts, d)
      BY <3>1, <3>3 DEF RInv
    <3>5. CASE HeldIn(replay.items, call, d)
      <4>1. HeldIn(entries.items, call', d)
        BY <1>8, <3>1, <3>5
      <4>2. call[d].at <= call'[c].at
        BY <1>1, <1>2, <1>3, <3>1 DEF AnswersHaveTimes, KeyedOf, SInv, AnswersAreJust
      <4> QED
        BY <1>3, <1>14, <3>1, <4>1, <4>2
    <3>6. CASE CrowdedOut(call, restarts, d)
      BY <1>3, <1>5, <1>6, <3>1, <3>6, CrowdedStays
    <3> QED
      BY <3>4, <3>5, <3>6
  <2> QED
    BY <2>1, <2>2
<1> QED
  BY <1>3, <1>6, <1>7, <1>14, <1>15 DEF RInv

LEMMA RememberRInv ==
  ASSUME SInv, RInv, NEW c \in Calls, NEW r \in Requests, NEW x, GateStep(c, r, x),
         NEW entries, Orderly(entries, call, restarts),
         \A d \in KeyedOf(call) :
           HeldIn(replay.items, call, d) /\ clock < call[d].at + TTL => HeldIn(entries.items, call, d),
         Remember(c, r, entries), UNCHANGED <<store, life>>
  PROVE  RInv'
<1>1. /\ call'[c] = x /\ \A d \in Calls : d # c => call'[d] = call[d]
      /\ Stands(call, call') /\ call[c].phase \in {"new", "review"}
  BY GateStepFrame DEF SInv
<1>2. /\ x.request = r /\ clock' = clock /\ clock \in Nat /\ x.phase \in {"review", "done"}
      /\ work[c].at = "none"
  BY <1>1 DEF GateStep, SInv, ServiceTypeOK, Reviewing, Answered, TasksFollowAnswers
<1>3. CASE x.phase = "done" /\ r.key # NoKey
  <2>1. replay' = ReplayPut(entries, r, c) /\ work' = [work EXCEPT ![c] = At("queued")]
    BY <1>1, <1>3 DEF Remember
  <2> QED
    BY <1>3, <2>1, AnswerRInv
<1>4. CASE ~(x.phase = "done" /\ r.key # NoKey)
  <2>1. replay' = entries
    BY <1>1, <1>4 DEF Remember
  <2>2. KeyedOf(call') = KeyedOf(call) /\ \A d \in KeyedOf(call) : call'[d] = call[d] /\ d # c
    BY <1>1, <1>2, <1>4 DEF KeyedOf
  <2>3. restarts' = restarts /\ forgot' = forgot /\ rows' = rows
    BY DEF life, store
  <2>4. \A d \in Calls : d # c => work'[d] = work[d]
    BY DEF Remember, SInv, ServiceTypeOK
  <2>5. \A d \in KeyedOf(call) : Owed(d)' => Owed(d)
    BY <2>2, <2>3, <2>4 DEF Owed, KeyedOf
  <2>6. RowsDiffer'
    <3>1. \A d \in rows : call'[d] = call[d]
      BY <1>1 DEF SInv, ServiceTypeOK, Stands, Done
    <3> QED
      BY <2>3, <3>1 DEF RInv, RowsDiffer
  <2>7. clock <= clock' /\ clock' \in Nat /\ AnswersHaveTimes(call)
    BY <1>2, KeyedTimes
  <2> QED
    BY <1>2, <2>1, <2>2, <2>3, <2>5, <2>6, <2>7, QuietRInv
<1> QED
  BY <1>3, <1>4

LEMMA ServeRInv ==
  ASSUME SInv, RInv, NEW c \in Calls, NEW r \in Requests, Serve(c, r)
  PROVE  RInv'
<1>1. ServiceTypeOK /\ SessionsAreTraced /\ clock \in Nat /\ AnswersHaveTimes(call)
  BY KeyedTimes DEF SInv, ServiceTypeOK
<1>2. PICK x : GateStep(c, r, x)
  BY <1>1, RefuseIsAGateStep, CacheIsAGateStep, Stage1IsAGateStep, AskIsAGateStep DEF Serve, Decide
<1> DEFINE entries == LookedUp(r)
<1>3. /\ Orderly(entries, call, restarts)
      /\ \A d \in KeyedOf(call) :
           HeldIn(replay.items, call, d) /\ clock < call[d].at + TTL => HeldIn(entries.items, call, d)
  BY <1>1, GetHolds DEF RInv, LookedUp
<1>4. Remember(c, r, entries) /\ UNCHANGED <<store, life>>
  BY DEF Serve
<1> HIDE DEF entries
<1> QED
  BY <1>2, <1>3, <1>4, RememberRInv

LEMMA ResumeRInv ==
  ASSUME SInv, RInv, NEW c \in Calls, Resume(c)
  PROVE  RInv'
<1> DEFINE r == call[c].request
<1>1. ServiceTypeOK /\ ReviewsArePinned /\ ClassifierAnswers(c)
  BY DEF SInv, Resume
<1>2. PICK x : GateStep(c, r, x)
  BY <1>1, ClassifierIsAGateStep
<1>3. r \in Requests
  BY <1>1, CallTypes DEF ClassifierAnswers, Reviewing
<1>4. Remember(c, r, replay) /\ UNCHANGED <<store, life>> /\ Orderly(replay, call, restarts)
  BY DEF Resume, RInv
<1> HIDE DEF r
<1> QED
  BY <1>2, <1>3, <1>4, RememberRInv

\* A step that leaves the answers and the replay store alone.
LEMMA StillRInv ==
  ASSUME SInv, RInv, UNCHANGED <<replay, restarts>>,
         KeyedOf(call') = KeyedOf(call), \A c \in KeyedOf(call) : call'[c] = call[c],
         clock' \in Nat, clock <= clock',
         \A c \in KeyedOf(call) : Owed(c)' => Owed(c), RowsDiffer'
  PROVE  RInv'
<1>1. /\ AnswersHaveTimes(call) /\ clock \in Nat /\ restarts' = restarts
      /\ Orderly(replay', call, restarts)
      /\ \A c \in KeyedOf(call) :
           HeldIn(replay.items, call, c) /\ clock < call[c].at + TTL => HeldIn(replay'.items, call, c)
  BY KeyedTimes DEF SInv, ServiceTypeOK, RInv
<1> QED
  BY <1>1, QuietRInv

LEMMA RepeatRInv ==
  ASSUME SInv, RInv, NEW c \in Calls, NEW r \in Requests, Repeat(c, r)
  PROVE  RInv'
<1>1. PICK e \in Answers(r) :
        call' = [call EXCEPT ![c] = [phase |-> "replayed", request |-> r,
                                     workspace |-> NoWorkspace, of |-> e.value, at |-> clock]]
  BY DEF Repeat
<1>2. UNCHANGED <<clock, replay, work, rows, restarts, forgot>> /\ call[c].phase = "new"
  BY DEF Repeat, store, life, NoCall
<1>3. call'[c].phase = "replayed" /\ \A d \in Calls : d # c => call'[d] = call[d]
  BY <1>1 DEF SInv, ServiceTypeOK
<1>4. KeyedOf(call') = KeyedOf(call) /\ \A d \in KeyedOf(call) : call'[d] = call[d]
  BY <1>2, <1>3 DEF KeyedOf
<1>5. \A d \in rows : call'[d] = call[d]
  BY <1>2, <1>3 DEF SInv, ServiceTypeOK, Done
<1>6. RowsDiffer' /\ \A d \in KeyedOf(call) : Owed(d)' => Owed(d)
  BY <1>2, <1>5 DEF RInv, RowsDiffer, Owed
<1>7. clock' \in Nat /\ clock <= clock'
  BY <1>2 DEF SInv, ServiceTypeOK
<1> QED
  BY <1>2, <1>4, <1>6, <1>7, StillRInv

\* A task's statements: an answer stays owed until its row is stored or skipped.
LEMMA TaskRInv ==
  ASSUME SInv, RInv, NEW c \in Calls, Write(c)
  PROVE  RInv'
<1>1. UNCHANGED <<call, clock, replay, restarts, forgot>>
  BY DEF Write, BeginTask, CommitSession, InsertDecision, StoreCacheEntry, FailTask, vars, store, life
<1>2. work \in [Calls -> Task]
  BY DEF SInv, ServiceTypeOK
<1>3. \A d \in Calls : d # c => work'[d] = work[d]
  BY <1>2 DEF Write, BeginTask, CommitSession, InsertDecision, StoreCacheEntry, FailTask
<1>4. CASE InsertDecision(c)
  <2>1. work[c].at = "inserting"
    BY <1>4 DEF InsertDecision, At
  <2>2. /\ rows' = IF Conflicts(c) \/ LacksSession(c) THEN rows ELSE rows \cup {c}
        /\ work'[c].at \in {"skipped", "rejected", "caching", "stored"}
    BY <1>2, <1>4 DEF InsertDecision, At
  <2>3. \A d \in KeyedOf(call) : Owed(d)' => Owed(d)
    BY <1>1, <1>3, <2>1, <2>2 DEF Owed, KeyedOf
  <2>4. RowsDiffer'
    <3>1. CASE rows' = rows
      BY <1>1, <3>1 DEF RInv, RowsDiffer
    <3>2. CASE rows' = rows \cup {c} /\ ~Conflicts(c)
      <4> SUFFICES ASSUME NEW d \in rows \cup {c}, NEW e \in rows \cup {c}, d # e,
                          call[d].request.key # NoKey, Slot(call[d].request) = Slot(call[e].request)
                   PROVE  FALSE
        BY <1>1, <3>2 DEF RowsDiffer
      <4>1. call[e].request.key # NoKey
        BY SlotHasKey
      <4>2. ~(d \in rows /\ e \in rows)
        BY DEF RInv, RowsDiffer
      <4>3. call[c].request.key # NoKey /\ \E f \in rows : Slot(call[f].request) = Slot(call[c].request)
        BY <4>1, <4>2
      <4> QED
        BY <3>2, <4>3 DEF Conflicts
    <3> QED
      BY <2>2, <3>1, <3>2
  <2>5. clock' \in Nat /\ clock <= clock'
    BY <1>1 DEF SInv, ServiceTypeOK
  <2> QED
    BY <1>1, <2>3, <2>4, <2>5, StillRInv
<1>5. CASE ~InsertDecision(c)
  <2>1. rows' = rows
    BY <1>5 DEF Write, BeginTask, CommitSession, StoreCacheEntry, FailTask, vars, store
  <2>2. work'[c].at \in {"queued", "upserting", "inserting"} => work[c].at \in {"queued", "upserting", "inserting"}
    <3>1. CASE BeginTask(c)
      BY <1>2, <3>1 DEF BeginTask, At
    <3>2. CASE CommitSession(c)
      BY <1>2, <3>2 DEF CommitSession, At
    <3>3. CASE StoreCacheEntry(c)
      BY <1>2, <3>3 DEF StoreCacheEntry, At
    <3>4. CASE FailTask(c)
      BY <1>2, <3>4 DEF FailTask, At
    <3> QED
      BY <1>5, <3>1, <3>2, <3>3, <3>4 DEF Write
  <2>3. \A d \in KeyedOf(call) : Owed(d)' => Owed(d)
    BY <1>1, <1>3, <2>1, <2>2 DEF Owed, KeyedOf
  <2>4. RowsDiffer'
    BY <1>1, <2>1 DEF RInv, RowsDiffer
  <2>5. clock' \in Nat /\ clock <= clock'
    BY <1>1 DEF SInv, ServiceTypeOK
  <2> QED
    BY <1>1, <2>3, <2>4, <2>5, StillRInv
<1> QED
  BY <1>4, <1>5

\* Time, an inspection's session row, and no step at all.
LEMMA IdleRInv ==
  ASSUME SInv, RInv,
         \/ Tick /\ UNCHANGED <<replay, work, store, life>>
         \/ \E s \in SessionIds, w \in Workspaces : EnsureSession(s, w)
         \/ UNCHANGED serviceVars
  PROVE  RInv'
<1>1. UNCHANGED <<call, replay, work, rows, restarts, forgot>> /\ clock' \in {clock, clock + 1}
  BY DEF Tick, EnsureSession, serviceVars, vars, store, life
<1>2. clock \in Nat
  BY DEF SInv, ServiceTypeOK
<1>3. clock' \in Nat /\ clock <= clock'
  BY <1>1, <1>2
<1>4. RowsDiffer' /\ \A d \in KeyedOf(call) : Owed(d)' => Owed(d)
  BY <1>1 DEF RInv, RowsDiffer, Owed
<1> QED
  BY <1>1, <1>3, <1>4, StillRInv

\* A restart reads different rows, all there are or as many as it may.
LEMMA RestoreOrderRows ==
  ASSUME ServiceTypeOK, NEW order \in RestoreOrders
  PROVE  /\ order \in Seq(Restorable)
         /\ \A i, j \in 1..Len(order) : i < j => order[i] # order[j]
         /\ \A c \in Restorable : (\E i \in 1..Len(order) : order[i] = c) \/ Len(order) = RestoreLimit
<1> DEFINE m == Cardinality(Restorable)
           n == Min({RestoreLimit, m})
<1>1. order \in Seq(Restorable)
  BY RestoreOrderType
<1>2. IsFiniteSet(Restorable)
  <2>1. Restorable \subseteq rows /\ IsFiniteSet(rows)
    BY DEF Restorable, ServiceTypeOK
  <2> QED
    BY <2>1, FS_Subset
<1>3. m \in Nat /\ RestoreLimit \in Nat
  BY <1>2, FS_CardinalityType, ServiceAssumption
<1>4. order \in [1..n -> Restorable] /\ \A i, j \in 1..n : i < j => order[i] # order[j]
  BY DEF RestoreOrders
<1> HIDE DEF m
<1>5. n \in {RestoreLimit, m}
  <2>1. \E x \in {RestoreLimit, m} : \A y \in {RestoreLimit, m} : x <= y
    BY <1>3
  <2> QED
    BY <2>1 DEF Min
<1> HIDE DEF n
<1>6. n \in Nat
  BY <1>3, <1>5
<1>7. Len(order) = n
  <2> DEFINE l == Len(order)
  <2>1. l \in Nat /\ 1..l = 1..n
    BY <1>1, <1>4
  <2> HIDE DEF l
  <2>2. ~(l < n)
    <3>1. ASSUME l < n PROVE n \in 1..n /\ n \notin 1..l
      BY <1>6, <2>1, <3>1
    <3> QED
      BY <2>1, <3>1
  <2>3. ~(n < l)
    <3>1. ASSUME n < l PROVE l \in 1..l /\ l \notin 1..n
      BY <1>6, <2>1, <3>1
    <3> QED
      BY <2>1, <3>1
  <2> QED
    BY <1>6, <2>1, <2>2, <2>3 DEF l
<1>8. ASSUME n = m, NEW c \in Restorable PROVE \E i \in 1..n : order[i] = c
  <2>1. \A i, j \in 1..n : order[i] = order[j] => i = j
    <3> SUFFICES ASSUME NEW i \in 1..n, NEW j \in 1..n, i # j PROVE order[i] # order[j]
      OBVIOUS
    <3>1. i < j \/ j < i
      OBVIOUS
    <3> QED
      BY <1>4, <3>1
  <2>2. order \in Injection(1..n, Restorable)
    BY <1>4, <2>1 DEF Injection, IsInjective
  <2>3. Cardinality(1..n) = n
    <3>1. 1 \in Int /\ n \in Int /\ n - 1 + 1 = n /\ (1 > n => n = 0)
      BY <1>6
    <3> QED
      BY <3>1, FS_Interval
  <2>4. Cardinality(1..n) = Cardinality(Restorable)
    BY <1>8, <2>3 DEF m
  <2>5. order \in Surjection(1..n, Restorable)
    BY <1>2, <2>2, <2>4, FS_Injection
  <2> QED
    BY <2>5 DEF Surjection
<1> QED
  BY <1>1, <1>4, <1>5, <1>7, <1>8

\* Every row that is put back is in the restored store, or crowded out by others.
LEMMA RestoredIsHeld ==
  ASSUME SInv, RInv, NEW order \in RestoreOrders, NEW n \in Nat, n # 0,
         NEW now \in clock..(clock + RestoreTime)
  PROVE  /\ Orderly(RestoredReplay(order, now), call, n)
         /\ \A k \in 1..Len(order) :
              now < call[order[k]].at + TTL =>
                \/ HeldIn(RestoredReplay(order, now).items, call, order[k])
                \/ CrowdedOut(call, n, order[k])
<1> DEFINE N == Len(order)
<1>1. /\ order \in Seq(Restorable) /\ \A i, j \in 1..N : i < j => order[i] # order[j]
      /\ N \in Nat /\ \A k \in 1..N : order[k] \in Restorable
  <2>1. order \in Seq(Restorable) /\ \A i, j \in 1..N : i < j => order[i] # order[j]
    BY RestoreOrderRows DEF SInv
  <2> QED
    BY <2>1
<1>2. /\ IsFiniteSet(KeyedOf(call)) /\ AnswersHaveTimes(call) /\ clock \in Nat /\ TTL \in Nat /\ now \in Nat
  BY KeyedTimes, GateAssumption, ServiceAssumption DEF SInv, ServiceTypeOK, RInv
<1>3. ASSUME NEW d \in Restorable
      PROVE  /\ d \in KeyedOf(call) /\ d \in rows /\ clock < call[d].at + TTL /\ call[d].at \in Nat
             /\ call[d].request \in Requests
  <2>1. d \in rows /\ d \in Calls /\ call[d].phase = "done" /\ call[d].request.key # NoKey
        /\ clock < call[d].at + TTL
    BY DEF Restorable, SInv, ServiceTypeOK, Done
  <2>2. call[d].request \in Requests
    BY <2>1, CallTypes DEF SInv, Answered
  <2> QED
    BY <1>2, <2>1, <2>2 DEF KeyedOf, AnswersHaveTimes
<1>4. PICK g : g \in Restoring(order, now)
  BY <1>1, RestoredInSteps DEF SInv
<1>5. /\ g[0] = EmptyStore /\ RestoredReplay(order, now) = g[N]
      /\ \A k \in 1..N : g[k] = AfterPut(g[k - 1], Slot(call[order[k]].request), order[k],
                                         TTL - WholeSeconds(clock - call[order[k]].at), now)
  BY <1>4 DEF Restoring
<1> HIDE DEF N
<1> DEFINE Back(m) == \A k \in 1..m : now < call[order[k]].at + TTL =>
                        HeldIn(g[m].items, call, order[k]) \/ CrowdedOut(call, n, order[k])
           P == {m \in 0..N : Orderly(g[m], call, n) /\ Back(m)}
<1>6. 0 \in P
  <2>1. Orderly(EmptyStore, call, n)
    <3>1. EmptyStore \in Store(KeyedEntries(call, n))
      BY EmptyStoreType
    <3>2. EmptyStore.items = <<>> /\ Len(<<>>) = 0 /\ DOMAIN <<>> = {} /\ 0 <= MaxEntries
      BY TtlStoreAssumption DEF EmptyStore
    <3> QED
      BY <3>1, <3>2 DEF Orderly, OneEntryPerKey, OldestFirst
  <2>2. 1..0 = {} /\ 0 \in 0..N
    BY <1>1
  <2> QED
    BY <1>5, <2>1, <2>2
<1>7. ASSUME NEW m \in P, m < N PROVE m + 1 \in P
  <2> DEFINE d == order[m + 1]
             key == Slot(call[d].request)
             ttl == TTL - WholeSeconds(clock - call[d].at)
             entry == [key |-> key, value |-> d, expires |-> now + ttl]
             s == g[m]
             after == g[m + 1]
  <2>1. m \in Nat /\ m + 1 \in 1..N /\ (m + 1) - 1 = m /\ m + 1 \in 0..N
    BY <1>1, <1>7
  <2>2. Orderly(s, call, n) /\ Back(m)
    OBVIOUS
  <2>3. d \in Restorable
    BY <1>1, <2>1
  <2>4. after = AfterPut(s, key, d, ttl, now)
    BY <1>5, <2>1
  <2>5. now + ttl \in Nat /\ call[d].at + TTL <= now + ttl /\ now + ttl <= call[d].at + (TTL + Slack)
    BY <2>3, RestoredExpiry
  <2> HIDE DEF d, s, after
  <2>6. entry \in KeyedEntries(call, n)
    <3> HIDE DEF ttl
    <3>1. entry \in Kept(call)
      BY <1>3, <2>3, <2>5 DEF Kept, KeyedOf
    <3> QED
      BY <1>3, <2>3, <3>1 DEF KeyedEntries
  <2>7. entry = [key |-> key, value |-> d, expires |-> now + ttl]
    OBVIOUS
  <2>8. \A k \in 1..m : /\ order[k] \in KeyedOf(call)
                        /\ Slot(call[order[k]].request) # key
    <3> SUFFICES ASSUME NEW k \in 1..m
                 PROVE  /\ order[k] \in KeyedOf(call)
                        /\ Slot(call[order[k]].request) # key
      OBVIOUS
    <3>1. k \in 1..N /\ k < m + 1
      BY <1>1, <2>1
    <3>2. order[k] \in Restorable /\ order[k] # d
      BY <1>1, <2>1, <3>1 DEF d
    <3>3. call[order[k]].request.key # NoKey
      BY <1>3, <3>2 DEF KeyedOf
    <3> QED
      BY <1>3, <2>3, <3>2, <3>3 DEF RInv, RowsDiffer
  <2> HIDE DEF ttl, key, entry, P
  <2>9. n = 0 => \A a \in DOMAIN s.items : s.items[a].expires <= entry.expires
    OBVIOUS
  <2>10. /\ Orderly(after, call, n)
         /\ HeldIn(after.items, call, d)
         /\ \A c \in KeyedOf(call) :
              /\ HeldIn(s.items, call, c)
              /\ now < call[c].at + TTL
              /\ Slot(call[c].request) = key => call[c].at <= call[d].at
              => HeldIn(after.items, call, c) \/ CrowdedOut(call, n, c)
    BY <1>2, <2>2, <2>4, <2>6, <2>7, <2>9, PutHolds
  <2>11. Back(m + 1)
    <3> SUFFICES ASSUME NEW k \in 1..m + 1, now < call[order[k]].at + TTL
                 PROVE  HeldIn(after.items, call, order[k]) \/ CrowdedOut(call, n, order[k])
      BY DEF after
    <3>1. k \in 1..m \/ k = m + 1
      BY <2>1
    <3>2. CASE k \in 1..m
      BY <2>2, <2>8, <2>10, <3>2 DEF s
    <3>3. CASE k = m + 1
      BY <2>10, <3>3 DEF d
    <3> QED
      BY <3>1, <3>2, <3>3
  <2> QED
    BY <2>1, <2>10, <2>11 DEF P, after
<1>8. P \in SUBSET (0..N)
  OBVIOUS
<1> HIDE DEF P
<1>9. P = 0..N
  BY <1>1, <1>6, <1>7, <1>8, BoundedInduction
<1>10. N \in P
  BY <1>1, <1>9
<1> QED
  BY <1>5, <1>10 DEF P, N

LEMMA RestartRInv ==
  ASSUME SInv, RInv, Restart
  PROVE  RInv'
<1> DEFINE n == restarts + 1
<1>1. /\ clock' \in clock..(clock + RestoreTime) /\ rows' = rows /\ restarts' = n
      /\ call' = [c \in Calls |-> IF call[c].phase = "review"
                                  THEN [call[c] EXCEPT !.phase = "lost"] ELSE call[c]]
      /\ work' = [c \in Calls |-> IF work[c].at \in {"queued", "upserting", "inserting", "caching"}
                                  THEN At("dead") ELSE work[c]]
  BY DEF Restart, store
<1>2. restarts \in Nat /\ n \in Nat /\ n # 0
  BY DEF RInv
<1> HIDE DEF n
<1>3. \A c \in Calls : /\ call[c].phase = "review" => call'[c].phase # "done"
                       /\ call[c].phase # "review" => call'[c] = call[c]
  <2> SUFFICES ASSUME NEW c \in Calls
               PROVE  /\ call[c].phase = "review" => call'[c].phase # "done"
                      /\ call[c].phase # "review" => call'[c] = call[c]
    OBVIOUS
  <2>1. call[c].phase = "review" => call[c] \in Reviewing
    BY CallTypes DEF SInv
  <2> QED
    BY <1>1, <2>1 DEF Reviewing
<1>4. KeyedOf(call') = KeyedOf(call) /\ \A c \in KeyedOf(call) : call'[c] = call[c]
  BY <1>3 DEF KeyedOf
<1>5. IsFiniteSet(KeyedOf(call')) /\ IsFiniteSet(KeyedOf(call))
  BY <1>4 DEF RInv
<1>6. RowsDiffer'
  <2>1. \A c \in rows : call'[c] = call[c]
    BY <1>3 DEF SInv, ServiceTypeOK, Done
  <2>2. rows' = rows
    BY <1>1
  <2> QED
    BY <2>1, <2>2 DEF RInv, RowsDiffer
<1>7. \A c \in Calls : work'[c].at \notin {"queued", "upserting", "inserting"}
  BY <1>1 DEF At
<1>8. \A c \in KeyedOf(call) : Owed(c)' => c \in rows /\ ~forgot'
  BY <1>1, <1>2, <1>7 DEF Owed, KeyedOf
<1>9. CASE replay' = EmptyStore /\ forgot'
  <2>1. Orderly(EmptyStore, call', n)
    <3>1. EmptyStore \in Store(KeyedEntries(call', n))
      BY EmptyStoreType
    <3>2. EmptyStore.items = <<>> /\ Len(<<>>) = 0 /\ DOMAIN <<>> = {} /\ 0 <= MaxEntries
      BY TtlStoreAssumption DEF EmptyStore
    <3> QED
      BY <3>1, <3>2 DEF Orderly, OneEntryPerKey, OldestFirst
  <2> QED
    BY <1>1, <1>2, <1>4, <1>5, <1>6, <1>8, <1>9, <2>1 DEF RInv
<1>10. CASE \E order \in RestoreOrders : replay' = RestoredReplay(order, clock')
  <2>1. PICK order \in RestoreOrders : replay' = RestoredReplay(order, clock')
    BY <1>10
  <2>2. /\ Orderly(replay', call, n)
        /\ \A k \in 1..Len(order) : clock' < call[order[k]].at + TTL =>
             HeldIn(replay'.items, call, order[k]) \/ CrowdedOut(call, n, order[k])
    BY <1>1, <1>2, <2>1, RestoredIsHeld
  <2>3. /\ order \in Seq(Restorable)
        /\ \A i, j \in 1..Len(order) : i < j => order[i] # order[j]
        /\ \A c \in Restorable : (\E i \in 1..Len(order) : order[i] = c) \/ Len(order) = RestoreLimit
    BY RestoreOrderRows DEF SInv
  <2>4. /\ Orderly(replay', call', n)
        /\ \A c \in KeyedOf(call) : HeldIn(replay'.items, call, c) => HeldIn(replay'.items, call', c)
    BY <1>4, <2>2, OrderlyStays
  <2>5. ASSUME NEW c \in KeyedOf(call), clock < call[c].at + TTL, clock' < call[c].at + TTL, c \in rows
        PROVE  HeldIn(replay'.items, call, c) \/ CrowdedOut(call, n, c)
    <3>1. c \in Restorable
      BY <2>5 DEF Restorable, KeyedOf
    <3>2. CASE \E i \in 1..Len(order) : order[i] = c
      BY <2>2, <2>5, <3>2
    <3>3. CASE ~(\E i \in 1..Len(order) : order[i] = c)
      <4>1. Len(order) = RestoreLimit
        BY <2>3, <3>1, <3>3
      <4>2. Len(order) \in Nat /\ MaxEntries <= Len(order)
        BY <4>1, ServiceAssumption
      <4>3. order \in [1..Len(order) -> Restorable] /\ Restorable \subseteq KeyedOf(call) /\ Restorable \subseteq rows
        BY <2>3 DEF Restorable, KeyedOf, SInv, ServiceTypeOK, Done
      <4>4. order \in [1..Len(order) -> KeyedOf(call)]
        BY <4>3
      <4>5. \A d, e \in Restorable : d # e => Slot(call[d].request) # Slot(call[e].request)
        BY <4>3 DEF RInv, RowsDiffer, KeyedOf
      <4>6. \A i \in 1..Len(order) : /\ n = 0 => call[order[i]].at >= call[c].at
                                     /\ Slot(call[order[i]].request) # Slot(call[c].request)
        BY <1>2, <3>1, <3>3, <4>3, <4>5
      <4>7. \A i, j \in 1..Len(order) : i < j => Slot(call[order[i]].request) # Slot(call[order[j]].request)
        BY <2>3, <4>3, <4>5
      <4> QED
        BY <1>5, <4>2, <4>4, <4>6, <4>7, Crowds
    <3> QED
      BY <3>2, <3>3
  <2>6. ASSUME NEW c \in KeyedOf(call'), clock' < call'[c].at + TTL, Owed(c)'
        PROVE  HeldIn(replay'.items, call', c) \/ CrowdedOut(call', restarts', c)
    <3>1. c \in KeyedOf(call) /\ clock' < call[c].at + TTL /\ c \in rows
      BY <1>1, <1>4, <1>8, <2>6
    <3>1a. clock < call[c].at + TTL
      <4>1. call[c].at \in Nat /\ clock \in Nat /\ clock' \in Int /\ clock <= clock' /\ TTL \in Nat
        BY <1>1, <3>1, KeyedTimes, SlackType, ServiceAssumption DEF AnswersHaveTimes, SInv, ServiceTypeOK
      <4> QED
        BY <3>1, <4>1
    <3>2. CASE HeldIn(replay'.items, call, c)
      BY <2>4, <3>1, <3>2
    <3>3. CASE CrowdedOut(call, n, c)
      BY <1>1, <1>2, <1>4, <1>5, <3>1, <3>3, CrowdedStays
    <3> QED
      BY <2>5, <3>1, <3>1a, <3>2, <3>3
  <2> QED
    BY <1>1, <1>2, <1>5, <1>6, <2>4, <2>6 DEF RInv
<1> QED
  BY <1>9, <1>10 DEF Restart

LEMMA InitRInv == ServiceInit => RInv
<1> SUFFICES ASSUME ServiceInit PROVE RInv
  OBVIOUS
<1>1. replay = EmptyStore /\ rows = {} /\ restarts = 0 /\ call = [c \in Calls |-> NoCall]
  BY DEF ServiceInit, Init
<1>2. KeyedOf(call) = {}
  BY <1>1 DEF KeyedOf, NoCall
<1>3. Orderly(EmptyStore, call, 0)
  <2>1. EmptyStore \in Store(KeyedEntries(call, 0))
    BY EmptyStoreType
  <2>2. EmptyStore.items = <<>> /\ Len(<<>>) = 0 /\ DOMAIN <<>> = {} /\ 0 <= MaxEntries
    BY TtlStoreAssumption DEF EmptyStore
  <2> QED
    BY <2>1, <2>2 DEF Orderly, OneEntryPerKey, OldestFirst
<1>4. IsFiniteSet({})
  BY FS_EmptySet
<1> QED
  BY <1>1, <1>2, <1>3, <1>4 DEF RInv, RowsDiffer

LEMMA ServiceNextRInv == SInv /\ RInv /\ [ServiceNext]_serviceVars => RInv'
<1> SUFFICES ASSUME SInv, RInv, [ServiceNext]_serviceVars PROVE RInv'
  OBVIOUS
<1>1. ASSUME NEW c \in Calls, NEW r \in Requests, Repeat(c, r) \/ Serve(c, r) PROVE RInv'
  BY <1>1, RepeatRInv, ServeRInv
<1>2. ASSUME NEW c \in Calls, Resume(c) PROVE RInv'
  BY <1>2, ResumeRInv
<1>3. ASSUME NEW c \in Calls, Write(c) PROVE RInv'
  BY <1>3, TaskRInv
<1>4. CASE Restart
  BY <1>4, RestartRInv
<1>5. CASE \/ Tick /\ UNCHANGED <<replay, work, store, life>>
           \/ \E s \in SessionIds, w \in Workspaces : EnsureSession(s, w)
           \/ UNCHANGED serviceVars
  BY <1>5, IdleRInv
<1> QED
  BY <1>1, <1>2, <1>3, <1>4, <1>5 DEF ServiceNext

LEMMA SpecRInv == ServiceSpec => []RInv
  BY InitSInv, ServiceNextSInv, InitRInv, ServiceNextRInv, PTL DEF ServiceSpec

\* No answer under a key is forgotten within its TTL but for as many of other
\* slots as the store holds, through any number of restarts once its row has been
\* stored (app.py, _remember; session/replay.py, restore).
THEOREM AnswersAreKept == ServiceSpec => []AnswersAreRemembered
<1>1. SInv /\ RInv => AnswersAreRemembered
  <2> SUFFICES ASSUME SInv, RInv, NEW c \in Keyed, clock < call[c].at + TTL,
                      restarts = 0 \/ (c \in rows /\ ~forgot),
                      ~Crowded(c)
               PROVE  \E e \in Live(replay, Slot(call[c].request), clock) : call[e.value].at >= call[c].at
    BY DEF AnswersAreRemembered
  <2>1. KeyedOf(call) = Keyed /\ c \in KeyedOf(call) /\ c \in Calls
    BY DEF KeyedOf, Keyed, Done
  <2>2. RivalSlots(call, restarts, c)
          = {Slot(call[d].request) : d \in {d \in Keyed : restarts = 0 => call[d].at >= call[c].at}}
              \ {Slot(call[c].request)}
    BY <2>1 DEF RivalSlots
  <2>3. ~CrowdedOut(call, restarts, c)
    BY <2>2 DEF CrowdedOut, Crowded
  <2>4. HeldIn(replay.items, call, c)
    BY <2>1, <2>3 DEF RInv, Owed
  <2>5. PICK i \in DOMAIN replay.items :
          replay.items[i].key = Slot(call[c].request) /\ call[c].at <= call[replay.items[i].value].at
    BY <2>4 DEF HeldIn
  <2> DEFINE e == replay.items[i]
  <2>6. e.value \in KeyedOf(call) /\ e.expires \in Nat /\ call[e.value].at + TTL <= e.expires
    BY EntriesAreAnswers DEF RInv
  <2>7. call[c].at \in Nat /\ call[e.value].at \in Nat /\ TTL \in Nat /\ clock \in Nat
    BY <2>1, <2>6, KeyedTimes, GateAssumption DEF AnswersHaveTimes, SInv, ServiceTypeOK
  <2>8. e.key = Slot(call[c].request) /\ call[c].at <= call[e.value].at
    BY <2>5
  <2>9. e \in {replay.items[j] : j \in DOMAIN replay.items}
    OBVIOUS
  <2> HIDE DEF e
  <2>10. clock < e.expires /\ call[e.value].at >= call[c].at
    BY <2>6, <2>7, <2>8
  <2>11. e \in Live(replay, Slot(call[c].request), clock)
    BY <2>8, <2>9, <2>10 DEF Live
  <2> QED
    BY <2>10, <2>11
<1> QED
  BY <1>1, SpecSInv, SpecRInv, PTL

-----------------------------------------------------------------------------
(***************************************************************************)
(* How old a replayed answer may be.                                       *)
(***************************************************************************)

\* Before the first restart nothing is replayed past its TTL.
ReplaysAreFresh ==
  restarts = 0 => \A c \in Calls : call[c].phase = "replayed" =>
                    call[c].at < call[call[c].of].at + TTL

LEMMA RepeatIsFresh ==
  ASSUME SInv, RInv, ReplaysAreFresh, NEW d \in Calls, NEW r \in Requests, Repeat(d, r)
  PROVE  ReplaysAreFresh'
<1>1. PICK e \in Answers(r) :
        call' = [call EXCEPT ![d] = [phase |-> "replayed", request |-> r,
                                     workspace |-> NoWorkspace, of |-> e.value, at |-> clock]]
  BY DEF Repeat
<1>2. restarts' = restarts /\ call[d].phase = "new"
  BY DEF Repeat, life, NoCall
<1>3. /\ call'[d].of = e.value /\ call'[d].at = clock
      /\ \A c \in Calls : c # d => call'[c] = call[c]
  BY <1>1 DEF SInv, ServiceTypeOK
<1> SUFFICES ASSUME restarts = 0, NEW c \in Calls, call'[c].phase = "replayed"
             PROVE  call'[c].at < call'[call'[c].of].at + TTL
  BY <1>2 DEF ReplaysAreFresh
<1>4. CASE c = d
  <2>1. replay \in Store(KeyedEntries(call, restarts))
    BY DEF RInv, Orderly
  <2>2. e \in KeyedEntries(call, restarts) /\ clock < e.expires
    <3> DEFINE K == KeyedEntries(call, restarts)
    <3>1. replay \in Store(K) /\ e \in Live(replay, Slot(r), clock)
      BY <2>1 DEF Answers
    <3> HIDE DEF K
    <3>2. e \in K /\ clock < e.expires
      BY <3>1, LiveIsHeld
    <3> QED
      BY <3>2 DEF K
  <2>3. /\ e.value \in Calls /\ call[e.value].phase = "done" /\ e.expires = call[e.value].at + TTL
    BY <2>2 DEF KeyedEntries, KeyedOf
  <2>4. call'[e.value] = call[e.value]
    BY <1>2, <1>3, <2>3
  <2> QED
    BY <1>3, <1>4, <2>2, <2>3, <2>4
<1>5. CASE c # d
  <2>1. call'[c] = call[c] /\ call[c].phase = "replayed"
    BY <1>3, <1>5
  <2>2. call[c].of \in Calls /\ call[call[c].of].phase = "done"
    BY <2>1, CallTypes DEF SInv, Repeated, AnswersAreJust, OwnAnswer
  <2>3. call'[call[c].of] = call[call[c].of]
    BY <1>2, <1>3, <2>2
  <2> QED
    BY <2>1, <2>3 DEF ReplaysAreFresh
<1> QED
  BY <1>4, <1>5

\* A step that replays nothing leaves the replays, and what they repeat, alone.
LEMMA ReplaysStay ==
  ASSUME SInv, ReplaysAreFresh, restarts' = 0 => restarts = 0,
         \A c \in Calls : /\ call'[c].phase = "replayed" => call'[c] = call[c]
                          /\ call[c].phase = "done" => call'[c] = call[c]
  PROVE  ReplaysAreFresh'
<1> SUFFICES ASSUME restarts = 0, NEW c \in Calls, call'[c].phase = "replayed"
             PROVE  call'[c].at < call'[call'[c].of].at + TTL
  BY DEF ReplaysAreFresh
<1>1. call'[c] = call[c] /\ call[c].phase = "replayed"
  OBVIOUS
<1>2. call[c].of \in Calls /\ call[call[c].of].phase = "done"
  BY <1>1, CallTypes DEF SInv, Repeated, AnswersAreJust, OwnAnswer
<1>3. call'[call[c].of] = call[call[c].of]
  BY <1>2
<1> QED
  BY <1>1, <1>3 DEF ReplaysAreFresh

LEMMA GateStepReplays ==
  ASSUME SInv, NEW c \in Calls, NEW r \in Requests, NEW x, GateStep(c, r, x)
  PROVE  \A d \in Calls : /\ call'[d].phase = "replayed" => call'[d] = call[d]
                          /\ call[d].phase = "done" => call'[d] = call[d]
<1>1. /\ call'[c] = x /\ \A d \in Calls : d # c => call'[d] = call[d]
      /\ call[c].phase \in {"new", "review"}
  BY GateStepFrame DEF SInv
<1>2. x.phase \in {"review", "done"}
  BY DEF GateStep, Reviewing, Answered
<1> QED
  BY <1>1, <1>2

LEMMA ServiceNextFresh ==
  SInv /\ RInv /\ ReplaysAreFresh /\ [ServiceNext]_serviceVars => ReplaysAreFresh'
<1> SUFFICES ASSUME SInv, RInv, ReplaysAreFresh, [ServiceNext]_serviceVars PROVE ReplaysAreFresh'
  OBVIOUS
<1>1. ServiceTypeOK /\ SessionsAreTraced /\ ReviewsArePinned
  BY DEF SInv
<1>2. ASSUME NEW c \in Calls, NEW r \in Requests, Repeat(c, r) PROVE ReplaysAreFresh'
  BY <1>2, RepeatIsFresh
<1>3. ASSUME NEW c \in Calls, NEW r \in Requests, Serve(c, r) PROVE ReplaysAreFresh'
  <2>1. PICK x : GateStep(c, r, x)
    BY <1>1, <1>3, RefuseIsAGateStep, CacheIsAGateStep, Stage1IsAGateStep, AskIsAGateStep DEF Serve, Decide
  <2>2. restarts' = restarts
    BY <1>3 DEF Serve, life
  <2> QED
    BY <2>1, <2>2, GateStepReplays, ReplaysStay
<1>4. ASSUME NEW c \in Calls, Resume(c) PROVE ReplaysAreFresh'
  <2> DEFINE r == call[c].request
  <2>1. ClassifierAnswers(c) /\ restarts' = restarts
    BY <1>4 DEF Resume, life
  <2>2. PICK x : GateStep(c, r, x)
    BY <1>1, <2>1, ClassifierIsAGateStep
  <2>3. r \in Requests
    BY <1>1, <2>1, CallTypes DEF ClassifierAnswers, Reviewing
  <2> HIDE DEF r
  <2> QED
    BY <2>1, <2>2, <2>3, GateStepReplays, ReplaysStay
<1>5. CASE \/ \E c \in Calls : Write(c)
           \/ Tick /\ UNCHANGED <<replay, work, store, life>>
           \/ \E s \in SessionIds, w \in Workspaces : EnsureSession(s, w)
           \/ UNCHANGED serviceVars
  <2>1. call' = call /\ restarts' = restarts
    BY <1>5 DEF Write, BeginTask, CommitSession, InsertDecision, StoreCacheEntry, FailTask, Tick,
                EnsureSession, serviceVars, vars, life
  <2> QED
    BY <2>1, ReplaysStay
<1>6. CASE Restart
  <2>1. restarts' # 0
    <3>1. restarts \in Nat /\ restarts' = restarts + 1
      BY <1>6 DEF Restart, RInv
    <3> QED
      BY <3>1
  <2> QED
    BY <2>1 DEF ReplaysAreFresh
<1> QED
  BY <1>2, <1>3, <1>4, <1>5, <1>6 DEF ServiceNext

LEMMA SpecFresh == ServiceSpec => []ReplaysAreFresh
<1>1. ServiceInit => ReplaysAreFresh
  BY DEF ServiceInit, Init, ReplaysAreFresh, NoCall
<1> QED
  BY <1>1, SpecSInv, SpecRInv, ServiceNextFresh, PTL DEF ServiceSpec

\* A replayed answer is an earlier answer to the same request under the same
\* key, principal and session.  It is less than a TTL old; after any number of
\* restarts, less than a TTL, a second and the time a restart takes
\* (domain/replay.py; session/replay.py, restore).
THEOREM RepliesAreOwnAnswers == ServiceSpec => []ReplaysItsOwnAnswer
<1>1. SInv /\ ReplaysAreFresh => ReplaysItsOwnAnswer
  <2> SUFFICES ASSUME SInv, ReplaysAreFresh, NEW c \in Calls, call[c].phase = "replayed"
               PROVE  LET d == call[c].of
                      IN /\ d \in Done
                         /\ Slot(call[d].request) = Slot(call[c].request)
                         /\ Identity(call[d].request) = Identity(call[c].request)
                         /\ call[d].at <= call[c].at
                         /\ call[c].at < call[d].at + Lifetime
    BY DEF ReplaysItsOwnAnswer
  <2>1. call[c].of \in Calls
    BY CallTypes DEF SInv, Repeated
  <2>2. OwnAnswer(call, call[c])
    BY DEF SInv, AnswersAreJust
  <2>3. call[c].at < call[call[c].of].at + Lifetime
    <3>1. CASE restarts = 0
      BY <3>1 DEF ReplaysAreFresh, Lifetime
    <3>2. CASE restarts # 0
      <4>1. TTL + ((Second - 1) + RestoreTime) = TTL + (Second - 1) + RestoreTime
        BY SlackType, ServiceAssumption
      <4> QED
        BY <2>2, <3>2, <4>1 DEF OwnAnswer, Lifetime, Slack
    <3> QED
      BY <3>1, <3>2
  <2> QED
    BY <2>1, <2>2, <2>3 DEF OwnAnswer, Done
<1> QED
  BY <1>1, SpecSInv, SpecFresh, PTL
=============================================================================
