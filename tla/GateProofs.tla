----------------------------- MODULE GateProofs -----------------------------
(***************************************************************************)
(* The gate, for any number of concurrent calls, any requests, any rules   *)
(* and any thresholds: no allow past stage 1 or a floor, one workspace per *)
(* session, every cached allow granted within its TTL, the denials nobody  *)
(* may soften delivered as taken, and counters that count every answer.    *)
(***************************************************************************)
EXTENDS Gate, FiniteSetTheorems, TLAPS

-----------------------------------------------------------------------------
(* What the verdict algebra preserves, for every set of rule ids: a floor, *)
(* once there, makes allow unreachable, and a failed classifier never      *)
(* turns into an allow.                                                    *)

LEMMA SilentIsNotAVerdict == Silent \notin Verdict
  BY DEF Silent, Verdict, Decision

LEMMA FloorIsAVerdict ==
  ASSUME NEW f \in Floor
  PROVE  f \in Verdict /\ f.decision = "ask" /\ ~f.hard /\ ~f.error /\ f # Silent
  BY SilentIsNotAVerdict DEF Floor

LEMMA ClassifiedFields ==
  ASSUME NEW reply \in Reply(DOMAIN DECISIONS)
  PROVE  /\ Classified(reply).decision \in Decision
         /\ Classified(reply).stage = 2
         /\ Classified(reply).rule = "none"
         /\ ~Classified(reply).hard
         /\ Classified(reply).error = (Failure(reply) # "none")
         /\ Failure(reply) # "none" => Classified(reply).decision = "ask"
<1>1. reply.data \in {"A", "D", "U"}
  BY DEF Reply, DECISIONS
<1>2. DECISIONS[reply.data] \in Decision
  BY <1>1 DEF DECISIONS, Decision
<1> QED
  BY <1>2 DEF Classified, Decision

\* An allow of stage 2 is the model's own: the request was answered with status
\* 200, and the answer has the schema's shape and says A (classify/llm.py: only
\* the happy path can produce anything but an ask).
THEOREM AllowIsTheModels ==
  ASSUME NEW reply \in Reply(DOMAIN DECISIONS), Classified(reply).decision = "allow"
  PROVE  /\ reply.sent = "answered" /\ reply.ok
         /\ reply.content = "text" /\ reply.form = "valid"
         /\ reply.data = "A"
<1>1. Failure(reply) = "none"
  BY ClassifiedFields DEF Decision
<1>2. reply.sent = "answered" /\ reply.ok
  BY <1>1 DEF Failure, Reply
<1>3. reply.content = "text" /\ reply.form = "valid"
  BY <1>1 DEF Failure, Reply
<1>4. DECISIONS[reply.data] = "allow"
  BY <1>1 DEF Classified
<1>5. reply.data \in {"A", "D", "U"}
  BY DEF Reply, DECISIONS
<1> QED
  BY <1>2, <1>3, <1>4, <1>5 DEF DECISIONS

LEMMA ReviewIsAVerdict ==
  ASSUME NEW v \in Review, "none" \in RuleId
  PROVE  v \in Verdict /\ ~v.hard /\ (v.error => v.decision = "ask")
<1>1. PICK reply \in Reply(DOMAIN DECISIONS) : v = Classified(reply)
  BY DEF Review
<1>2. /\ v.decision \in Decision /\ v.rule = "none" /\ ~v.hard
      /\ v.error = (Failure(reply) # "none")
      /\ Failure(reply) # "none" => v.decision = "ask"
  BY <1>1, ClassifiedFields
<1>3. v \in Verdict
  BY <1>1, <1>2 DEF Classified, Verdict
<1> QED
  BY <1>2, <1>3

\* raised_to keeps the type, and under a floor the answer is not allow.
LEMMA RaisedToType ==
  ASSUME NEW v \in Review, NEW f \in Floor \cup {Silent}, "none" \in RuleId
  PROVE  /\ RaisedTo(v, f) \in Verdict
         /\ ~RaisedTo(v, f).hard
         /\ RaisedTo(v, f).error = v.error
<1>1. v \in Verdict /\ ~v.hard
  BY ReviewIsAVerdict
<1>2. CASE RaisedTo(v, f) = v
  BY <1>1, <1>2
<1>3. CASE RaisedTo(v, f) # v
  <2>1. f \in Floor /\ RaisedTo(v, f) = [v EXCEPT !.decision = f.decision, !.rule = f.rule]
    BY <1>3 DEF RaisedTo
  <2>2. f \in Verdict
    BY <2>1, FloorIsAVerdict
  <2>3. f.decision \in Decision /\ f.rule \in RuleId
    BY <2>2 DEF Verdict
  <2> QED
    BY <1>1, <2>1, <2>3 DEF Verdict
<1> QED
  BY <1>2, <1>3

\* What stage 2 allows was allowed by the classifier, without a failure and
\* without a floor (domain/verdict.py, raised_to).
LEMMA RaisedToAllows ==
  ASSUME NEW v \in Review, NEW f \in Floor \cup {Silent}, "none" \in RuleId, RaisedTo(v, f).decision = "allow"
  PROVE  f = Silent /\ v.decision = "allow" /\ ~v.error
<1>1. v \in Verdict /\ v.decision \in Decision /\ (v.error => v.decision = "ask")
  BY ReviewIsAVerdict DEF Verdict
<1>2. CASE f = Silent
  BY <1>1, <1>2 DEF RaisedTo
<1>3. CASE f \in Floor
  <2>1. f.decision = "ask" /\ f # Silent
    BY <1>3, FloorIsAVerdict
  <2>2. CASE RaisedTo(v, f) = v
    <3>1. v.decision = "allow" /\ ~v.error
      BY <1>1, <2>2
    <3>2. Strictness["allow"] = 0 /\ Strictness["ask"] = 1
      BY DEF Strictness, Decision
    <3>3. ~(Strictness[v.decision] > Strictness[f.decision])
      BY <2>1, <3>1, <3>2
    <3>4. RaisedTo(v, f) = [v EXCEPT !.decision = f.decision, !.rule = f.rule]
      BY <2>1, <3>1, <3>3 DEF RaisedTo
    <3>5. RaisedTo(v, f).decision = "ask"
      BY <1>1, <2>1, <3>4 DEF Verdict
    <3> QED
      BY <3>5
  <2>3. CASE RaisedTo(v, f) # v
    <3>1. RaisedTo(v, f) = [v EXCEPT !.decision = f.decision, !.rule = f.rule]
      BY <2>3 DEF RaisedTo
    <3> QED
      BY <1>1, <2>1, <3>1 DEF Verdict
  <2> QED
    BY <2>2, <2>3
<1> QED
  BY <1>2, <1>3

\* settled keeps the type, and answers exactly when the chain decided.
LEMMA SettledType ==
  ASSUME NEW o \in ChainOutcome
  PROVE  /\ Settled(o) \in Verdict \cup {Silent}
         /\ Settled(o) = Silent <=> o.verdict = Silent
<1>1. o.verdict \in Verdict \cup {Silent} /\ o.floor \in Floor \cup {Silent}
  BY DEF ChainOutcome
<1>2. CASE Settled(o) = o.verdict
  BY <1>1, <1>2
<1>3. CASE Settled(o) # o.verdict
  <2>1. /\ o.floor \in Floor /\ o.verdict # Silent
        /\ Settled(o) = [o.floor EXCEPT !.floor = FALSE]
    BY <1>1, <1>3 DEF Settled
  <2>2. [o.floor EXCEPT !.floor = FALSE] \in Verdict
    BY <2>1, FloorIsAVerdict DEF Verdict
  <2> QED
    BY <2>1, <2>2, SilentIsNotAVerdict
<1> QED
  BY <1>2, <1>3

\* What stage 1 allows stands under no floor (rules/base.py, settled).
LEMMA SettledAllows ==
  ASSUME NEW o \in ChainOutcome, Settled(o).decision = "allow"
  PROVE  o.floor = Silent /\ o.verdict.decision = "allow" /\ Settled(o) = o.verdict
<1>1. o.verdict \in Verdict \cup {Silent} /\ o.floor \in Floor \cup {Silent}
  BY DEF ChainOutcome
<1>2. o.verdict # Silent
  BY SettledType DEF Silent
<1>3. CASE o.floor = Silent
  BY <1>3 DEF Settled
<1>4. CASE o.floor \in Floor
  <2>1. o.floor \in Verdict /\ o.floor.decision = "ask" /\ o.floor # Silent
    BY <1>4, FloorIsAVerdict
  <2>2. CASE AtLeastAsStrict(o.verdict, o.floor)
    <3>1. o.verdict.decision = "allow"
      BY <2>2 DEF Settled
    <3> QED
      BY <2>1, <2>2, <3>1 DEF AtLeastAsStrict, Strictness, Decision
  <2>3. CASE ~AtLeastAsStrict(o.verdict, o.floor)
    <3>1. Settled(o) = [o.floor EXCEPT !.floor = FALSE]
      BY <1>2, <2>1, <2>3 DEF Settled
    <3>2. [o.floor EXCEPT !.floor = FALSE].decision = "ask"
      BY <2>1 DEF Verdict
    <3> QED
      BY <3>1, <3>2
  <2> QED
    BY <2>2, <2>3
<1> QED
  BY <1>1, <1>3, <1>4

LEMMA EscalatedType ==
  ASSUME NEW v \in Verdict, "escalation" \in RuleId
  PROVE  Escalated(v) \in Verdict /\ Escalated(v).decision = "ask"
  BY DEF Escalated, Verdict, Decision

-----------------------------------------------------------------------------

\* A call that waits holds the floor stage 1 left, and stage 1 did not decide.
ReviewsAreOpen ==
  \A c \in Calls : call[c].phase = "review" =>
    /\ Stage1(call[c].request, call[c].workspace).verdict = Silent
    /\ call[c].floor = Stage1(call[c].request, call[c].workspace).floor

\* Every entry of the allow cache names the call that granted it.
GrantOf(e, c) ==
  /\ call[c].phase = "done"
  /\ ~call[c].cached
  /\ call[c].verdict.decision = "allow"
  /\ call[c].request.session = e.session
  /\ CacheKey(call[c].request) = e.key
  /\ e.expires = call[c].at + TTL

CacheIsGranted == \A e \in allowCache : GrantOf(e, e.id)

NoFutureAnswer == \A c \in Done : call[c].at <= clock

IInv ==
  /\ TypeOK
  /\ ReviewsAreOpen
  /\ CacheIsGranted
  /\ NoFutureAnswer
  /\ AllowIsLawful
  /\ OneWorkspacePerSession
  /\ CachedAllowHasGrant
  /\ FinalVerdictsStand

-----------------------------------------------------------------------------
\* Sessions keep their type and their workspace.

LEMMA AppendRecentType ==
  ASSUME NEW s \in Window, NEW d \in RecentDecision
  PROVE  AppendRecent(s, d) \in Window
<1> DEFINE t == Append(s, d)
<1>1. t \in Seq(RecentDecision) /\ Len(t) \in Nat
  BY DEF Window
<1>2. CASE Len(t) <= RecentMax
  BY <1>1, <1>2 DEF AppendRecent, LastOf, Window
<1>3. CASE ~(Len(t) <= RecentMax)
  <2>1. RecentMax \in Nat
    BY EscalationAssumption
  <2>2. Len(t) - RecentMax + 1 \in 1..Len(t) + 1
    BY <1>1, <1>3, <2>1
  <2> DEFINE u == SubSeq(t, Len(t) - RecentMax + 1, Len(t))
  <2>3. u \in Seq(RecentDecision) /\ Len(u) = RecentMax
    BY <1>1, <1>3, <2>1, <2>2
  <2>4. AppendRecent(s, d) = u
    BY <1>3 DEF AppendRecent, LastOf
  <2> HIDE DEF u
  <2> QED
    BY <2>1, <2>3, <2>4 DEF Window
<1> QED
  BY <1>2, <1>3

LEMMA NoWindow == <<>> \in Window
  BY EscalationAssumption DEF Window

LEMMA RecordType ==
  ASSUME NEW s \in SessionState(Workspaces), NEW d \in Decision
  PROVE  Record(s, d) \in SessionState(Workspaces) /\ Record(s, d).workspace = s.workspace
<1>1. AppendRecent(s.recent, d) \in Window
  BY AppendRecentType DEF SessionState, Decision, RecentDecision
<1>2. Streak(s.denyConsecutive, d) \in Nat
  BY DEF SessionState, Streak
<1> DEFINE n == s.decisionsTotal + 1
           m == IF d = "deny" THEN s.denyTotal + 1 ELSE s.denyTotal
           k == Streak(s.denyConsecutive, d)
           q == AppendRecent(s.recent, d)
<1>3. n \in Nat /\ m \in Nat /\ k \in Nat /\ q \in Window
  BY <1>1, <1>2 DEF SessionState
<1>4. Record(s, d) = [s EXCEPT !.decisionsTotal = n, !.denyTotal = m,
                               !.denyConsecutive = k, !.recent = q]
  BY DEF Record
<1> HIDE DEF n, m, k, q
<1>5. LET u == [s EXCEPT !.decisionsTotal = n, !.denyTotal = m,
                         !.denyConsecutive = k, !.recent = q]
      IN u \in SessionState(Workspaces) /\ u.workspace = s.workspace
  BY <1>3 DEF SessionState
<1> QED
  BY <1>4, <1>5

LEMMA ResetType ==
  ASSUME NEW s \in SessionState(Workspaces)
  PROVE  /\ ResetAfterEscalation(s) \in SessionState(Workspaces)
         /\ ResetAfterEscalation(s).workspace = s.workspace
<1>1. \A q \in Window :
        LET u == [s EXCEPT !.denyConsecutive = 0, !.recent = q]
        IN u \in SessionState(Workspaces) /\ u.workspace = s.workspace
  BY DEF SessionState
<1> QED
  BY <1>1, NoWindow DEF ResetAfterEscalation

LEMMA NewSessionType ==
  ASSUME NEW w \in Workspaces \cup {NoWorkspace}
  PROVE  NewSession(w) \in SessionState(Workspaces) /\ NewSession(w).workspace = w
  BY NoWindow DEF NewSession, SessionState

LEMMA OpenedType ==
  ASSUME TypeOK, NEW r \in Requests, r.session # NoSession
  PROVE  /\ r.session \in SessionIds
         /\ Opened(r) \in SessionState(Workspaces)
         /\ Opened(r).workspace \in Workspaces
         /\ Opened(r).workspace = WorkspaceFor(r)
         /\ session[r.session].workspace # NoWorkspace =>
              Opened(r).workspace = session[r.session].workspace
<1>1. r.session \in SessionIds
  BY DEF SessionIds
<1>2. session[r.session] \in SessionState(Workspaces)
  BY <1>1 DEF TypeOK
<1>3. session[r.session].workspace \in Workspaces \cup {NoWorkspace}
  BY <1>2 DEF SessionState
<1>4. Detect(r.cwd) \in Workspaces
  BY GateAssumption
<1> QED
  BY <1>1, <1>2, <1>3, <1>4, NewSessionType, GateAssumption DEF Opened, WorkspaceFor

LEMMA WorkspaceForType ==
  ASSUME TypeOK, NEW r \in Requests
  PROVE  WorkspaceFor(r) \in Workspaces
<1>1. CASE r.session = NoSession
  BY <1>1, GateAssumption DEF WorkspaceFor
<1>2. CASE r.session # NoSession
  BY <1>2, OpenedType
<1> QED
  BY <1>1, <1>2

LEMMA Stage1Type ==
  ASSUME NEW r \in Requests, NEW w \in Workspaces
  PROVE  /\ Stage1(r, w) \in ChainOutcome
         /\ Stage1(r, w).verdict \in Verdict \cup {Silent}
         /\ Stage1(r, w).floor \in Floor \cup {Silent}
         /\ ~Stage1(r, w).verdict.error
  BY GateAssumption DEF ChainOutcome

-----------------------------------------------------------------------------
LEMMA InitIInv == Init => IInv
<1> SUFFICES ASSUME Init PROVE IInv
  OBVIOUS
<1>1. \A c \in Calls : call[c].phase = "new"
  BY DEF Init, NoCall
<1>2. TypeOK
  BY NewSessionType DEF Init, TypeOK, Unopened
<1> QED
  BY <1>1, <1>2 DEF Init, IInv, ReviewsAreOpen, CacheIsGranted, NoFutureAnswer, AllowIsLawful,
                    OneWorkspacePerSession, CachedAllowHasGrant, FinalVerdictsStand, Done, Bound

\* A call that is settled, at stage 1 or by the classifier, keeps the invariant
\* when the verdict is lawful and stage 1's own wherever stage 1 answered.
LEMMA SettleIInv ==
  ASSUME IInv,
         NEW c \in Calls, NEW r \in Requests, NEW w \in Workspaces, NEW v \in Verdict,
         NEW state \in SessionState(Workspaces), NEW entries \in SUBSET allowCache,
         call[c].phase # "done",
         r.session # NoSession =>
           state.workspace = w /\ session[r.session].workspace \in {NoWorkspace, w},
         v.decision = "allow" =>
           /\ ~v.error
           /\ Stage1(r, w).floor = Silent
           /\ Stage1(r, w).verdict = Silent \/ Stage1(r, w).verdict.decision = "allow",
         Settled(Stage1(r, w)) # Silent => v = Settled(Stage1(r, w)),
         Settle(c, r, w, v, state, entries)
  PROVE  IInv'
<1> DEFINE escalates == r.session # NoSession /\ Escalates(state, v)
           final     == IF escalates THEN Escalated(v) ELSE v
           counted   == IF escalates THEN ResetAfterEscalation(state) ELSE state
           new       == [phase |-> "done", request |-> r, workspace |-> w, verdict |-> final,
                         cached |-> FALSE, at |-> clock]
           entry     == [session |-> r.session, key |-> CacheKey(r), id |-> c,
                         expires |-> clock + TTL]
<1>1. final \in Verdict /\ (final.decision = "allow" => final = v)
  BY EscalatedType, GateAssumption
<1>2. final.decision \in Decision
  BY <1>1 DEF Verdict
<1>3. counted \in SessionState(Workspaces) /\ counted.workspace = state.workspace
  BY ResetType
<1>4. /\ Record(counted, final.decision) \in SessionState(Workspaces)
      /\ Record(counted, final.decision).workspace = state.workspace
  BY <1>2, <1>3, RecordType
<1>5. /\ Settled(Stage1(r, w)) # Silent
      /\ \/ Settled(Stage1(r, w)).hard
         \/ Settled(Stage1(r, w)).rule = "client.deny"
      => final = Settled(Stage1(r, w))
  BY DEF Escalates, Escalatable
<1>6. /\ call' = [call EXCEPT ![c] = new]
      /\ clock' = clock
      /\ r.session = NoSession => session' = session /\ allowCache' = entries
      /\ r.session # NoSession =>
           /\ session' = [session EXCEPT ![r.session] = Record(counted, final.decision)]
           /\ allowCache' = IF final.decision = "allow" THEN CachePut(entries, r, c) ELSE entries
  BY DEF Settle
<1> HIDE DEF escalates, final, counted
<1>7. new \in Answered
  BY <1>1 DEF Answered, IInv, TypeOK
<1>8. /\ call \in [Calls -> {NoCall} \cup Reviewing \cup Answered]
      /\ session \in [SessionIds -> SessionState(Workspaces)]
      /\ allowCache \subseteq CacheEntry /\ clock \in Nat
  BY DEF IInv, TypeOK
<1>9. call'[c] = new /\ \A d \in Calls : d # c => call'[d] = call[d]
  BY <1>6, <1>8
<1>10. r.session # NoSession => r.session \in SessionIds
  BY DEF SessionIds
<1>11. \A e \in allowCache' : e \in allowCache \/ (e = entry /\ final.decision = "allow"
                                                 /\ r.session # NoSession)
  BY <1>6 DEF CachePut
<1>12. TypeOK'
  <2>1. call' \in [Calls -> {NoCall} \cup Reviewing \cup Answered]
    BY <1>6, <1>7, <1>8
  <2>2. session' \in [SessionIds -> SessionState(Workspaces)]
    BY <1>4, <1>6, <1>8, <1>10
  <2>3. r.session # NoSession => entry \in CacheEntry
    BY <1>8, <1>10, GateAssumption DEF CacheEntry, CacheKeys
  <2>4. allowCache' \subseteq CacheEntry
    BY <1>8, <1>11, <2>3
  <2> QED
    BY <1>6, <1>8, <2>1, <2>2, <2>4 DEF TypeOK
<1>13. ReviewsAreOpen'
  BY <1>9 DEF IInv, ReviewsAreOpen
<1>14. CacheIsGranted'
  <2> SUFFICES ASSUME NEW e \in allowCache' PROVE GrantOf(e, e.id)'
    BY DEF CacheIsGranted
  <2>1. CASE e \in allowCache
    <3>1. GrantOf(e, e.id) /\ e.id \in Calls
      BY <1>8, <2>1 DEF IInv, CacheIsGranted, CacheEntry
    <3>2. e.id # c
      BY <3>1 DEF GrantOf
    <3> QED
      BY <1>9, <3>1, <3>2 DEF GrantOf
  <2>2. CASE e = entry /\ final.decision = "allow"
    BY <1>9, <2>2 DEF GrantOf
  <2> QED
    BY <1>11, <2>1, <2>2
<1>15. NoFutureAnswer'
  BY <1>6, <1>8, <1>9 DEF IInv, NoFutureAnswer, Done
<1>16. AllowIsLawful'
  <2> SUFFICES ASSUME NEW d \in Done', call'[d].verdict.decision = "allow"
               PROVE  /\ d \in Bound'
                      /\ ~call'[d].verdict.error
                      /\ Stage1(call'[d].request, call'[d].workspace).floor = Silent
                      /\ \/ Stage1(call'[d].request, call'[d].workspace).verdict = Silent
                         \/ Stage1(call'[d].request, call'[d].workspace).verdict.decision = "allow"
    BY DEF AllowIsLawful
  <2>1. CASE d = c
    BY <1>1, <1>9, <2>1, GateAssumption DEF Bound
  <2>2. CASE d # c
    BY <1>9, <2>2 DEF IInv, AllowIsLawful, Done, Bound
  <2> QED
    BY <2>1, <2>2
<1>17. OneWorkspacePerSession'
  <2> SUFFICES ASSUME NEW d \in Bound', call'[d].request.session # NoSession
               PROVE  call'[d].workspace = session'[call'[d].request.session].workspace
    BY DEF OneWorkspacePerSession
  <2>1. CASE d = c
    <3>1. call'[d].request = r /\ call'[d].workspace = w
      BY <1>9, <2>1
    <3>2. session'[r.session].workspace = w
      BY <1>4, <1>6, <1>8, <1>10, <2>1, <3>1
    <3> QED
      BY <3>1, <3>2
  <2>2. CASE d # c
    <3>1. d \in Bound /\ call'[d] = call[d]
      BY <1>9, <2>2 DEF Bound
    <3>2. call[d].workspace = session[call[d].request.session].workspace
      BY <3>1 DEF IInv, OneWorkspacePerSession
    <3>3. CASE call[d].request.session = r.session
      <4>1. call[d].workspace = w
        BY <3>1, <3>2, <3>3 DEF Bound
      <4>2. session'[r.session].workspace = w
        BY <1>4, <1>6, <1>8, <1>10, <3>1, <3>3
      <4> QED
        BY <3>1, <3>3, <4>1, <4>2
    <3>4. CASE call[d].request.session # r.session
      <4>1. call[d].request \in Requests
        BY <1>8, <3>1 DEF Bound, NoCall, Reviewing, Answered
      <4>2. call[d].request.session \in SessionIds
        BY <3>1, <4>1 DEF SessionIds
      <4>3. session'[call[d].request.session] = session[call[d].request.session]
        BY <1>6, <1>8, <3>4, <4>2
      <4> QED
        BY <3>1, <3>2, <4>3
    <3> QED
      BY <3>3, <3>4
  <2> QED
    BY <2>1, <2>2
<1>18. CachedAllowHasGrant'
  <2> SUFFICES ASSUME NEW d \in Done', call'[d].cached
               PROVE  \E g \in Done' :
                        /\ ~call'[g].cached
                        /\ call'[g].verdict.decision = "allow"
                        /\ call'[g].request.session = call'[d].request.session
                        /\ CacheKey(call'[g].request) = CacheKey(call'[d].request)
                        /\ call'[g].at <= call'[d].at
                        /\ call'[d].at < call'[g].at + TTL
    BY DEF CachedAllowHasGrant
  <2>1. d # c /\ call'[d] = call[d] /\ d \in Done
    BY <1>9 DEF Done
  <2>2. PICK g \in Done : /\ ~call[g].cached
                          /\ call[g].verdict.decision = "allow"
                          /\ call[g].request.session = call[d].request.session
                          /\ CacheKey(call[g].request) = CacheKey(call[d].request)
                          /\ call[g].at <= call[d].at
                          /\ call[d].at < call[g].at + TTL
    BY <2>1 DEF IInv, CachedAllowHasGrant
  <2>3. g # c /\ call'[g] = call[g] /\ g \in Done'
    BY <1>9, <2>2 DEF Done
  <2> QED
    BY <2>1, <2>2, <2>3
<1>19. FinalVerdictsStand'
  <2> SUFFICES ASSUME NEW d \in Done', d \in Bound', ~call'[d].cached,
                      Settled(Stage1(call'[d].request, call'[d].workspace)) # Silent,
                      \/ Settled(Stage1(call'[d].request, call'[d].workspace)).hard
                      \/ Settled(Stage1(call'[d].request, call'[d].workspace)).rule = "client.deny"
               PROVE  call'[d].verdict = Settled(Stage1(call'[d].request, call'[d].workspace))
    BY DEF FinalVerdictsStand
  <2>1. CASE d = c
    BY <1>5, <1>9, <2>1
  <2>2. CASE d # c
    BY <1>9, <2>2 DEF IInv, FinalVerdictsStand, Done, Bound
  <2> QED
    BY <2>1, <2>2
<1> QED
  BY <1>12, <1>13, <1>14, <1>15, <1>16, <1>17, <1>18, <1>19 DEF IInv

LEMMA RefuseIInv ==
  ASSUME IInv, NEW c \in Calls, NEW r \in Requests, Refuse(c, r)
  PROVE  IInv'
<1> PICK rule \in {"api.unknown-profile", "api.unknown-model"} :
       call' = [call EXCEPT ![c] = [phase |-> "done", request |-> r, workspace |-> NoWorkspace,
                                    verdict |-> Ask(rule, 0, FALSE), cached |-> FALSE,
                                    at |-> clock]]
  BY DEF Refuse
<1> DEFINE new == [phase |-> "done", request |-> r, workspace |-> NoWorkspace,
                   verdict |-> Ask(rule, 0, FALSE), cached |-> FALSE, at |-> clock]
<1>1. UNCHANGED <<session, allowCache, clock>> /\ call[c].phase # "done"
  BY DEF Refuse, NoCall
<1>2. Ask(rule, 0, FALSE) \in Verdict /\ Ask(rule, 0, FALSE).decision = "ask"
  BY GateAssumption DEF Ask, Verdict, Decision
<1>3. new \in Answered
  BY <1>2 DEF Answered, IInv, TypeOK
<1>4. call'[c] = new /\ \A d \in Calls : d # c => call'[d] = call[d]
  BY DEF IInv, TypeOK
<1>5. TypeOK'
  BY <1>1, <1>3 DEF IInv, TypeOK
<1>6. ReviewsAreOpen'
  BY <1>4 DEF IInv, ReviewsAreOpen
<1>7. CacheIsGranted'
  <2> SUFFICES ASSUME NEW e \in allowCache PROVE GrantOf(e, e.id)'
    BY <1>1 DEF CacheIsGranted
  <2>1. GrantOf(e, e.id) /\ e.id \in Calls /\ e.id # c
    BY <1>1 DEF IInv, TypeOK, CacheIsGranted, CacheEntry, GrantOf
  <2> QED
    BY <1>4, <2>1 DEF GrantOf
<1>8. NoFutureAnswer'
  BY <1>1, <1>4 DEF IInv, TypeOK, NoFutureAnswer, Done
<1>9. AllowIsLawful'
  <2> SUFFICES ASSUME NEW d \in Done', call'[d].verdict.decision = "allow"
               PROVE  /\ d \in Bound'
                      /\ ~call'[d].verdict.error
                      /\ Stage1(call'[d].request, call'[d].workspace).floor = Silent
                      /\ \/ Stage1(call'[d].request, call'[d].workspace).verdict = Silent
                         \/ Stage1(call'[d].request, call'[d].workspace).verdict.decision = "allow"
    BY DEF AllowIsLawful
  <2>1. d # c
    <3>1. new.verdict.decision = "ask"
      BY <1>2
    <3>2. "ask" # "allow"
      OBVIOUS
    <3> HIDE DEF new
    <3> QED
      BY <1>4, <3>1, <3>2
  <2> QED
    BY <1>4, <2>1 DEF IInv, AllowIsLawful, Done, Bound
<1>10. OneWorkspacePerSession'
  BY <1>1, <1>4 DEF IInv, OneWorkspacePerSession, Bound
<1>11. CachedAllowHasGrant'
  <2> SUFFICES ASSUME NEW d \in Done', call'[d].cached
               PROVE  \E g \in Done' :
                        /\ ~call'[g].cached
                        /\ call'[g].verdict.decision = "allow"
                        /\ call'[g].request.session = call'[d].request.session
                        /\ CacheKey(call'[g].request) = CacheKey(call'[d].request)
                        /\ call'[g].at <= call'[d].at
                        /\ call'[d].at < call'[g].at + TTL
    BY DEF CachedAllowHasGrant
  <2>1. d # c /\ call'[d] = call[d] /\ d \in Done
    BY <1>4 DEF Done
  <2>2. PICK g \in Done : /\ ~call[g].cached
                          /\ call[g].verdict.decision = "allow"
                          /\ call[g].request.session = call[d].request.session
                          /\ CacheKey(call[g].request) = CacheKey(call[d].request)
                          /\ call[g].at <= call[d].at
                          /\ call[d].at < call[g].at + TTL
    BY <2>1 DEF IInv, CachedAllowHasGrant
  <2>3. g # c /\ call'[g] = call[g] /\ g \in Done'
    BY <1>1, <1>4, <2>2 DEF Done
  <2> QED
    BY <2>1, <2>2, <2>3
<1>12. FinalVerdictsStand'
  <2> SUFFICES ASSUME NEW d \in Done', d \in Bound', ~call'[d].cached,
                      Settled(Stage1(call'[d].request, call'[d].workspace)) # Silent,
                      \/ Settled(Stage1(call'[d].request, call'[d].workspace)).hard
                      \/ Settled(Stage1(call'[d].request, call'[d].workspace)).rule = "client.deny"
               PROVE  call'[d].verdict = Settled(Stage1(call'[d].request, call'[d].workspace))
    BY DEF FinalVerdictsStand
  <2>1. d # c
    BY <1>4 DEF Bound
  <2> QED
    BY <1>4, <2>1 DEF IInv, FinalVerdictsStand, Done, Bound
<1> QED
  BY <1>5, <1>6, <1>7, <1>8, <1>9, <1>10, <1>11, <1>12 DEF IInv

\* A call that opens its session changes no other session, and not the
\* workspace of a session that is open.
LEMMA OpensSession ==
  ASSUME TypeOK, NEW r \in Requests, r.session # NoSession,
         session' = [session EXCEPT ![r.session] = Opened(r)]
  PROVE  /\ session' \in [SessionIds -> SessionState(Workspaces)]
         /\ session'[r.session].workspace = WorkspaceFor(r)
         /\ \A s \in SessionIds : session[s].workspace # NoWorkspace =>
              session'[s].workspace = session[s].workspace
  BY OpenedType DEF TypeOK

LEMMA CacheIInv ==
  ASSUME IInv, NEW c \in Calls, NEW r \in Requests, AnswerFromCache(c, r)
  PROVE  IInv'
<1> DEFINE w == WorkspaceFor(r)
           new == [phase |-> "done", request |-> r, workspace |-> w,
                   verdict |-> Allow("cache", 0), cached |-> TRUE, at |-> clock]
<1>1. /\ UNCHANGED <<allowCache, clock>> /\ call[c].phase # "done"
      /\ r.session # NoSession
      /\ session' = [session EXCEPT ![r.session] = Opened(r)]
      /\ call' = [call EXCEPT ![c] = new]
  BY DEF AnswerFromCache, NoCall
<1>2. TypeOK
  BY DEF IInv
<1>3. w \in Workspaces /\ r.session \in SessionIds
  BY <1>1, <1>2, WorkspaceForType, OpenedType
<1>4. /\ session' \in [SessionIds -> SessionState(Workspaces)]
      /\ session'[r.session].workspace = w
      /\ \A s \in SessionIds : session[s].workspace # NoWorkspace =>
           session'[s].workspace = session[s].workspace
  BY <1>1, <1>2, OpensSession
<1>5. PICK e \in allowCache : e.session = r.session /\ e.key = CacheKey(r) /\ clock < e.expires
  BY DEF AnswerFromCache, Hits
<1>6. e.id \in Calls /\ GrantOf(e, e.id) /\ e.id \in Done /\ e.id # c
  BY <1>1, <1>2, <1>5 DEF IInv, TypeOK, CacheEntry, CacheIsGranted, GrantOf, Done
<1> DEFINE grant == call[e.id]
<1>7. /\ e.id \in Bound
      /\ LET outcome == Stage1(grant.request, grant.workspace)
         IN outcome.floor = Silent /\ (outcome.verdict = Silent \/ outcome.verdict.decision = "allow")
  BY <1>6 DEF IInv, AllowIsLawful, GrantOf
<1>8. grant.request \in Requests /\ grant.workspace \in Workspaces \cup {NoWorkspace}
      /\ grant.workspace # NoWorkspace /\ grant.at \in Nat
  BY <1>2, <1>6, <1>7 DEF TypeOK, Done, Bound, NoCall, Reviewing, Answered
<1>9. grant.workspace = w
  <2>1. grant.request.session = r.session
    BY <1>5, <1>6 DEF GrantOf
  <2>2. grant.workspace = session[r.session].workspace
    BY <1>1, <1>7, <2>1 DEF IInv, OneWorkspacePerSession
  <2> QED
    BY <1>1, <1>2, <1>8, <2>2, OpenedType
<1>10. Stage1(r, w) = Stage1(grant.request, w)
  BY <1>3, <1>5, <1>6, <1>8, KeyAssumption DEF GrantOf
<1>11. Allow("cache", 0) \in Verdict /\ Allow("cache", 0).decision = "allow"
       /\ ~Allow("cache", 0).error
  BY GateAssumption DEF Allow, Verdict, Decision
<1>12. new \in Answered
  BY <1>2, <1>3, <1>11 DEF Answered, TypeOK
<1>13. call'[c] = new /\ \A d \in Calls : d # c => call'[d] = call[d]
  BY <1>1, <1>2 DEF TypeOK
<1> HIDE DEF new, w
<1>14. TypeOK'
  BY <1>1, <1>2, <1>4, <1>12 DEF TypeOK
<1>15. ReviewsAreOpen'
  BY <1>13 DEF IInv, ReviewsAreOpen, new
<1>16. CacheIsGranted'
  <2> SUFFICES ASSUME NEW f \in allowCache PROVE GrantOf(f, f.id)'
    BY <1>1 DEF CacheIsGranted
  <2>1. GrantOf(f, f.id) /\ f.id \in Calls /\ f.id # c
    BY <1>1, <1>2 DEF IInv, TypeOK, CacheIsGranted, CacheEntry, GrantOf
  <2> QED
    BY <1>13, <2>1 DEF GrantOf
<1>17. NoFutureAnswer'
  BY <1>1, <1>2, <1>13 DEF IInv, TypeOK, NoFutureAnswer, Done, new
<1>18. AllowIsLawful'
  <2> SUFFICES ASSUME NEW d \in Done', call'[d].verdict.decision = "allow"
               PROVE  /\ d \in Bound'
                      /\ ~call'[d].verdict.error
                      /\ Stage1(call'[d].request, call'[d].workspace).floor = Silent
                      /\ \/ Stage1(call'[d].request, call'[d].workspace).verdict = Silent
                         \/ Stage1(call'[d].request, call'[d].workspace).verdict.decision = "allow"
    BY DEF AllowIsLawful
  <2>1. CASE d = c
    <3>1. d \in Bound' /\ ~call'[d].verdict.error
      BY <1>3, <1>11, <1>13, <2>1, GateAssumption DEF Bound, new
    <3>2. Stage1(call'[d].request, call'[d].workspace) = Stage1(grant.request, grant.workspace)
      BY <1>9, <1>10, <1>13, <2>1 DEF new
    <3> QED
      BY <1>7, <3>1, <3>2
  <2>2. CASE d # c
    BY <1>13, <2>2 DEF IInv, AllowIsLawful, Done, Bound
  <2> QED
    BY <2>1, <2>2
<1>19. OneWorkspacePerSession'
  <2> SUFFICES ASSUME NEW d \in Bound', call'[d].request.session # NoSession
               PROVE  call'[d].workspace = session'[call'[d].request.session].workspace
    BY DEF OneWorkspacePerSession
  <2>1. CASE d = c
    BY <1>4, <1>13, <2>1 DEF new
  <2>2. CASE d # c
    <3>1. d \in Bound /\ call'[d] = call[d]
      BY <1>13, <2>2 DEF Bound
    <3>2. call[d].request.session \in SessionIds
      BY <1>2, <3>1 DEF TypeOK, Bound, NoCall, Reviewing, Answered, SessionIds
    <3>3. call[d].workspace = session[call[d].request.session].workspace
          /\ call[d].workspace # NoWorkspace
      BY <3>1 DEF IInv, OneWorkspacePerSession, Bound
    <3> QED
      BY <1>4, <3>1, <3>2, <3>3
  <2> QED
    BY <2>1, <2>2
<1>20. CachedAllowHasGrant'
  <2> SUFFICES ASSUME NEW d \in Done', call'[d].cached
               PROVE  \E g \in Done' :
                        /\ ~call'[g].cached
                        /\ call'[g].verdict.decision = "allow"
                        /\ call'[g].request.session = call'[d].request.session
                        /\ CacheKey(call'[g].request) = CacheKey(call'[d].request)
                        /\ call'[g].at <= call'[d].at
                        /\ call'[d].at < call'[g].at + TTL
    BY DEF CachedAllowHasGrant
  <2>1. CASE d = c
    <3>1. e.id \in Done' /\ call'[e.id] = grant
      BY <1>6, <1>13 DEF Done
    <3>2. grant.at <= clock /\ clock < grant.at + TTL
      BY <1>5, <1>6 DEF IInv, NoFutureAnswer, GrantOf
    <3>3. call'[d].request = r /\ call'[d].at = clock
      BY <1>13, <2>1 DEF new
    <3> QED
      BY <1>5, <1>6, <3>1, <3>2, <3>3 DEF GrantOf
  <2>2. CASE d # c
    <3>1. d \in Done /\ call'[d] = call[d]
      BY <1>13, <2>2 DEF Done
    <3>2. PICK g \in Done : /\ ~call[g].cached
                            /\ call[g].verdict.decision = "allow"
                            /\ call[g].request.session = call[d].request.session
                            /\ CacheKey(call[g].request) = CacheKey(call[d].request)
                            /\ call[g].at <= call[d].at
                            /\ call[d].at < call[g].at + TTL
      BY <3>1 DEF IInv, CachedAllowHasGrant
    <3>3. g # c /\ call'[g] = call[g] /\ g \in Done'
      BY <1>1, <1>13, <3>2 DEF Done
    <3> QED
      BY <3>1, <3>2, <3>3
  <2> QED
    BY <2>1, <2>2
<1>21. FinalVerdictsStand'
  BY <1>13 DEF IInv, FinalVerdictsStand, Done, Bound, new
<1> QED
  BY <1>14, <1>15, <1>16, <1>17, <1>18, <1>19, <1>20, <1>21 DEF IInv

LEMMA Stage1IInv ==
  ASSUME IInv, NEW c \in Calls, NEW r \in Requests, SettleAtStage1(c, r)
  PROVE  IInv'
<1> DEFINE w       == WorkspaceFor(r)
           v       == Settled(Stage1(r, w))
           state   == IF r.session = NoSession THEN Unopened ELSE Opened(r)
           entries == allowCache \ Expired(r)
<1>1. TypeOK
  BY DEF IInv
<1>2. /\ call[c].phase # "done" /\ v # Silent
      /\ Settle(c, r, w, v, state, entries)
  BY DEF SettleAtStage1, NoCall
<1>3. w \in Workspaces
  BY <1>1, WorkspaceForType
<1>4. v \in Verdict
  BY <1>2, <1>3, Stage1Type, SettledType
<1>5. state \in SessionState(Workspaces)
  BY <1>1, OpenedType, NewSessionType DEF Unopened
<1>6. r.session # NoSession =>
        state.workspace = w /\ session[r.session].workspace \in {NoWorkspace, w}
  BY <1>1, OpenedType
<1>7. v.decision = "allow" =>
        /\ ~v.error
        /\ Stage1(r, w).floor = Silent
        /\ Stage1(r, w).verdict = Silent \/ Stage1(r, w).verdict.decision = "allow"
  BY <1>3, Stage1Type, SettledAllows
<1>8. entries \in SUBSET allowCache
  OBVIOUS
<1>9. Settled(Stage1(r, w)) # Silent => v = Settled(Stage1(r, w))
  OBVIOUS
<1> HIDE DEF w, v, state, entries
<1> QED
  BY <1>2, <1>3, <1>4, <1>5, <1>6, <1>7, <1>8, <1>9, SettleIInv

LEMMA ClassifierIInv ==
  ASSUME IInv, NEW c \in Calls, ClassifierAnswers(c)
  PROVE  IInv'
<1> DEFINE r     == call[c].request
           w     == call[c].workspace
           f     == call[c].floor
           state == IF r.session = NoSession THEN Unopened ELSE session[r.session]
<1>1. TypeOK
  BY DEF IInv
<1> PICK u \in Review : Settle(c, r, w, RaisedTo(u, f), state, allowCache)
  BY DEF ClassifierAnswers
<1> DEFINE v == RaisedTo(u, f)
<1>2. call[c].phase = "review"
  BY DEF ClassifierAnswers
<1>3. r \in Requests /\ w \in Workspaces /\ f \in Floor \cup {Silent}
  BY <1>1, <1>2 DEF TypeOK, NoCall, Reviewing, Answered
<1>4. Stage1(r, w).verdict = Silent /\ f = Stage1(r, w).floor
  BY <1>2 DEF IInv, ReviewsAreOpen
<1>5. v \in Verdict
  BY <1>3, RaisedToType, GateAssumption
<1>6. v.decision = "allow" => f = Silent /\ ~v.error
  BY <1>3, RaisedToAllows, RaisedToType, GateAssumption
<1>7. Settled(Stage1(r, w)) = Silent
  BY <1>3, <1>4, Stage1Type, SettledType
<1>8. r.session # NoSession =>
        /\ state \in SessionState(Workspaces)
        /\ state.workspace = w /\ session[r.session].workspace \in {NoWorkspace, w}
  <2> SUFFICES ASSUME r.session # NoSession
               PROVE  /\ state \in SessionState(Workspaces)
                      /\ state.workspace = w
                      /\ session[r.session].workspace \in {NoWorkspace, w}
    OBVIOUS
  <2>1. c \in Bound
    BY <1>2, <1>3, GateAssumption DEF Bound
  <2>2. w = session[r.session].workspace
    BY <2>1 DEF IInv, OneWorkspacePerSession
  <2>3. session[r.session] \in SessionState(Workspaces)
    BY <1>1, <1>3, OpenedType DEF TypeOK
  <2> QED
    BY <2>2, <2>3
<1>9. state \in SessionState(Workspaces)
  BY <1>8, NewSessionType DEF Unopened
<1>10. allowCache \in SUBSET allowCache /\ call[c].phase # "done"
  BY <1>2
<1> HIDE DEF r, w, f, state, v
<1>11. Settle(c, r, w, v, state, allowCache)
  BY DEF v
<1> QED
  BY <1>3, <1>4, <1>5, <1>6, <1>7, <1>8, <1>9, <1>10, <1>11, SettleIInv

LEMMA ReviewIInv ==
  ASSUME IInv, NEW c \in Calls, NEW r \in Requests, AskClassifier(c, r)
  PROVE  IInv'
<1> DEFINE w   == WorkspaceFor(r)
           new == [phase |-> "review", request |-> r, workspace |-> w,
                   floor |-> Stage1(r, w).floor]
<1>1. /\ call[c].phase # "done" /\ Settled(Stage1(r, w)) = Silent
      /\ call' = [call EXCEPT ![c] = new]
      /\ session' = IF r.session = NoSession THEN session
                    ELSE [session EXCEPT ![r.session] = Opened(r)]
      /\ allowCache' \subseteq allowCache
      /\ clock' = clock
  BY DEF AskClassifier, NoCall
<1>2. TypeOK
  BY DEF IInv
<1>3. w \in Workspaces
  BY <1>2, WorkspaceForType
<1>4. /\ session' \in [SessionIds -> SessionState(Workspaces)]
      /\ r.session # NoSession => session'[r.session].workspace = w
      /\ \A s \in SessionIds : session[s].workspace # NoWorkspace =>
           session'[s].workspace = session[s].workspace
  <2>1. CASE r.session = NoSession
    BY <1>1, <1>2, <2>1 DEF TypeOK
  <2>2. CASE r.session # NoSession
    BY <1>1, <1>2, <2>2, OpensSession
  <2> QED
    BY <2>1, <2>2
<1>5. new \in Reviewing /\ Stage1(r, w).verdict = Silent
  BY <1>1, <1>3, Stage1Type, SettledType DEF Reviewing
<1>6. call'[c] = new /\ \A d \in Calls : d # c => call'[d] = call[d]
  BY <1>1, <1>2 DEF TypeOK
<1> HIDE DEF new, w
<1>7. TypeOK'
  BY <1>1, <1>2, <1>4, <1>5 DEF TypeOK
<1>8. ReviewsAreOpen'
  BY <1>5, <1>6 DEF IInv, ReviewsAreOpen, new
<1>9. \A d \in Done' : d # c /\ d \in Done /\ call'[d] = call[d]
  BY <1>6 DEF Done, new
<1>10. \A d \in Done : d \in Done' /\ d # c
  BY <1>1, <1>6 DEF Done
<1>11. CacheIsGranted'
  <2> SUFFICES ASSUME NEW e \in allowCache PROVE GrantOf(e, e.id)'
    BY <1>1 DEF CacheIsGranted
  <2>1. GrantOf(e, e.id) /\ e.id \in Calls /\ e.id # c
    BY <1>1, <1>2 DEF IInv, TypeOK, CacheIsGranted, CacheEntry, GrantOf
  <2> QED
    BY <1>6, <2>1 DEF GrantOf
<1>12. NoFutureAnswer'
  BY <1>1, <1>9 DEF IInv, NoFutureAnswer
<1>13. AllowIsLawful'
  BY <1>9 DEF IInv, AllowIsLawful, Bound, Done
<1>14. OneWorkspacePerSession'
  <2> SUFFICES ASSUME NEW d \in Bound', call'[d].request.session # NoSession
               PROVE  call'[d].workspace = session'[call'[d].request.session].workspace
    BY DEF OneWorkspacePerSession
  <2>1. CASE d = c
    BY <1>4, <1>6, <2>1 DEF new
  <2>2. CASE d # c
    <3>1. d \in Bound /\ call'[d] = call[d]
      BY <1>6, <2>2 DEF Bound
    <3>2. call[d].request.session \in SessionIds
      BY <1>2, <3>1 DEF TypeOK, Bound, NoCall, Reviewing, Answered, SessionIds
    <3>3. call[d].workspace = session[call[d].request.session].workspace
          /\ call[d].workspace # NoWorkspace
      BY <3>1 DEF IInv, OneWorkspacePerSession, Bound
    <3> QED
      BY <1>4, <3>1, <3>2, <3>3
  <2> QED
    BY <2>1, <2>2
<1>15. CachedAllowHasGrant'
  BY <1>9, <1>10 DEF IInv, CachedAllowHasGrant
<1>16. FinalVerdictsStand'
  BY <1>9 DEF IInv, FinalVerdictsStand, Bound
<1> QED
  BY <1>7, <1>8, <1>11, <1>12, <1>13, <1>14, <1>15, <1>16 DEF IInv

LEMMA TickIInv == IInv /\ Tick => IInv'
<1> SUFFICES ASSUME IInv, Tick PROVE IInv'
  OBVIOUS
<1>1. /\ UNCHANGED <<session, allowCache, call>> /\ clock' = clock + 1 /\ clock \in Nat
  BY DEF Tick, IInv, TypeOK
<1>2. TypeOK' /\ NoFutureAnswer'
  <2>1. \A c \in Done : call[c].at \in Nat
    BY DEF IInv, TypeOK, Done, NoCall, Reviewing, Answered
  <2> QED
    BY <1>1, <2>1 DEF IInv, TypeOK, NoFutureAnswer, Done
<1> QED
  BY <1>1, <1>2 DEF IInv, ReviewsAreOpen, CacheIsGranted, GrantOf, AllowIsLawful,
    OneWorkspacePerSession, CachedAllowHasGrant, FinalVerdictsStand, Done, Bound

LEMMA NextIInv == IInv /\ [Next]_vars => IInv'
<1> SUFFICES ASSUME IInv, [Next]_vars PROVE IInv'
  OBVIOUS
<1>1. ASSUME NEW c \in Calls, NEW r \in Requests, Decide(c, r) PROVE IInv'
  BY <1>1, RefuseIInv, CacheIInv, Stage1IInv, ReviewIInv DEF Decide
<1>2. ASSUME NEW c \in Calls, ClassifierAnswers(c) PROVE IInv'
  BY <1>2, ClassifierIInv
<1>3. CASE Tick
  BY <1>3, TickIInv
<1>4. CASE UNCHANGED vars
  BY <1>4 DEF vars, IInv, TypeOK, ReviewsAreOpen, CacheIsGranted, GrantOf, NoFutureAnswer,
    AllowIsLawful, OneWorkspacePerSession, CachedAllowHasGrant, FinalVerdictsStand, Done, Bound
<1> QED
  BY <1>1, <1>2, <1>3, <1>4 DEF Next

LEMMA SpecIInv == Spec => []IInv
  BY InitIInv, NextIInv, PTL DEF Spec

-----------------------------------------------------------------------------
\* Every reachable state has its type: no window outgrows its bound, and no call
\* is answered without a verdict (engine/gate.py, domain/session.py).
THEOREM TypeCorrect == Spec => []TypeOK
<1>1. IInv => TypeOK
  BY DEF IInv
<1> QED
  BY <1>1, SpecIInv, PTL

\* No interleaving of calls ends in an allow that stage 1 or a floor forbids, for
\* every set of requests and every stage 1 (engine/gate.py).
THEOREM AllowsAreLawful == Spec => []AllowIsLawful
<1>1. IInv => AllowIsLawful
  BY DEF IInv
<1> QED
  BY <1>1, SpecIInv, PTL

\* All calls of a session are judged at the workspace of its first call
\* (engine/gate.py, _resolve).
THEOREM WorkspaceIsPinned == Spec => []OneWorkspacePerSession
<1>1. IInv => OneWorkspacePerSession
  BY DEF IInv
<1> QED
  BY <1>1, SpecIInv, PTL

\* Every cached allow was granted to the same session for the same key less than
\* a TTL before (session/memory.py).
THEOREM CachedAllowsAreGranted == Spec => []CachedAllowHasGrant
<1>1. IInv => CachedAllowHasGrant
  BY DEF IInv
<1> QED
  BY <1>1, SpecIInv, PTL

\* Escalation never replaces a hard denial nor the user's own
\* (domain/verdict.py, escalatable).
THEOREM FinalVerdictsAreKept == Spec => []FinalVerdictsStand
<1>1. IInv => FinalVerdictsStand
  BY DEF IInv
<1> QED
  BY <1>1, SpecIInv, PTL
-----------------------------------------------------------------------------
\* The counters of a session, decision by decision.

\* A session nobody opened has counted nothing.
UnopenedIsNew == \A s \in SessionIds : session[s].workspace = NoWorkspace => session[s] = Unopened

RecordedIsFinite == \A s \in SessionIds : IsFiniteSet(Recorded(s))

\* The streak of one session's state is what its window shows.
Matches(state) ==
  LET open == Cardinality(OpenDenials(state.recent))
  IN /\ state.denyConsecutive >= open
     /\ Len(state.recent) < RecentMax => state.denyConsecutive = open

SameCounters(a, b) ==
  /\ a.denyConsecutive = b.denyConsecutive
  /\ a.denyTotal = b.denyTotal
  /\ a.decisionsTotal = b.decisionsTotal
  /\ a.recent = b.recent

\* A step that answers nothing for session s leaves its counters alone.
Quiet(s) ==
  /\ SameCounters(session'[s], session[s])
  /\ Recorded(s)' = Recorded(s)
  /\ \A d \in Recorded(s) : call'[d] = call[d]

\* A step that answers call c for session s counts the verdict, escalated or not,
\* on the counters of the state it finds.
Counts(s, c, v, base) ==
  /\ SameCounters(base, session[s])
  /\ c \notin Recorded(s)
  /\ Recorded(s)' = Recorded(s) \cup {c}
  /\ \A d \in Recorded(s) : call'[d] = call[d]
  /\ call'[c].verdict = IF Escalates(base, v) THEN Escalated(v) ELSE v
  /\ session'[s] = Record(IF Escalates(base, v) THEN ResetAfterEscalation(base) ELSE base,
                          call'[c].verdict.decision)

LEMMA RecordFields ==
  ASSUME NEW s \in SessionState(Workspaces), NEW d
  PROVE  /\ Record(s, d).decisionsTotal = s.decisionsTotal + 1
         /\ Record(s, d).denyTotal = IF d = "deny" THEN s.denyTotal + 1 ELSE s.denyTotal
         /\ Record(s, d).denyConsecutive = Streak(s.denyConsecutive, d)
         /\ Record(s, d).recent = AppendRecent(s.recent, d)
<1> DEFINE n == s.decisionsTotal + 1
           m == IF d = "deny" THEN s.denyTotal + 1 ELSE s.denyTotal
           k == Streak(s.denyConsecutive, d)
           q == AppendRecent(s.recent, d)
<1>1. Record(s, d) = [s EXCEPT !.decisionsTotal = n, !.denyTotal = m,
                               !.denyConsecutive = k, !.recent = q]
  BY DEF Record
<1> HIDE DEF n, m, k, q
<1>2. LET u == [s EXCEPT !.decisionsTotal = n, !.denyTotal = m,
                         !.denyConsecutive = k, !.recent = q]
      IN u.decisionsTotal = n /\ u.denyTotal = m /\ u.denyConsecutive = k /\ u.recent = q
  BY DEF SessionState
<1> QED
  BY <1>1, <1>2 DEF n, m, k, q

LEMMA ResetFields ==
  ASSUME NEW s \in SessionState(Workspaces)
  PROVE  /\ ResetAfterEscalation(s).decisionsTotal = s.decisionsTotal
         /\ ResetAfterEscalation(s).denyTotal = s.denyTotal
         /\ ResetAfterEscalation(s).denyConsecutive = 0
         /\ ResetAfterEscalation(s).recent = <<>>
  BY DEF ResetAfterEscalation, SessionState

\* Opening a session leaves its counters as they are.
LEMMA OpenedCounters ==
  ASSUME TypeOK, UnopenedIsNew, NEW r \in Requests, r.session # NoSession
  PROVE  SameCounters(Opened(r), session[r.session])
<1>1. r.session \in SessionIds
  BY DEF SessionIds
<1>2. session[r.session].workspace = NoWorkspace => session[r.session] = Unopened
  BY <1>1 DEF UnopenedIsNew
<1> QED
  BY <1>2 DEF Opened, Unopened, NewSession, SameCounters

LEMMA SettleCounts ==
  ASSUME TypeOK, NEW c \in Calls, NEW r \in Requests, NEW w \in Workspaces, NEW v \in Verdict,
         NEW state \in SessionState(Workspaces), NEW entries,
         call[c].phase # "done", Settle(c, r, w, v, state, entries),
         r.session # NoSession => SameCounters(state, session[r.session])
  PROVE  \A s \in SessionIds : IF s = r.session THEN Counts(s, c, v, state) ELSE Quiet(s)
<1> SUFFICES ASSUME NEW s \in SessionIds
             PROVE  IF s = r.session THEN Counts(s, c, v, state) ELSE Quiet(s)
  OBVIOUS
<1> DEFINE escalates == r.session # NoSession /\ Escalates(state, v)
           final     == IF escalates THEN Escalated(v) ELSE v
           counted   == IF escalates THEN ResetAfterEscalation(state) ELSE state
           new       == [phase |-> "done", request |-> r, workspace |-> w, verdict |-> final,
                         cached |-> FALSE, at |-> clock]
<1>1. /\ call' = [call EXCEPT ![c] = new]
      /\ r.session = NoSession => session' = session
      /\ r.session # NoSession =>
           session' = [session EXCEPT ![r.session] = Record(counted, final.decision)]
  BY DEF Settle
<1>2. call'[c] = new /\ \A d \in Calls : d # c => call'[d] = call[d]
  BY <1>1 DEF TypeOK
<1>3. s # NoSession
  BY DEF SessionIds
<1>4. c \notin Recorded(s) /\ \A d \in Recorded(s) : d \in Calls /\ d # c /\ call'[d] = call[d]
  BY <1>2 DEF Recorded, Done
<1>5. CASE s = r.session
  <2>1. Recorded(s)' = Recorded(s) \cup {c}
    BY <1>2, <1>5, GateAssumption DEF Recorded, Done, Bound
  <2>2. session'[s] = Record(counted, final.decision)
    BY <1>1, <1>3, <1>5 DEF TypeOK
  <2>3. call'[c].verdict = final
    BY <1>2
  <2>4. escalates = Escalates(state, v)
    BY <1>3, <1>5 DEF Escalates
  <2> QED
    BY <1>3, <1>4, <1>5, <2>1, <2>2, <2>3, <2>4 DEF Counts
<1>6. CASE s # r.session
  <2>1. Recorded(s)' = Recorded(s)
    BY <1>2, <1>4, <1>6 DEF Recorded, Done, Bound
  <2>2. session'[s] = session[s]
    BY <1>1, <1>6 DEF TypeOK
  <2> QED
    BY <1>4, <1>6, <2>1, <2>2 DEF Quiet, SameCounters
<1> QED
  BY <1>5, <1>6

\* Whatever the gate does, every session's counters count what it answered for it.
LEMMA StepCounts ==
  ASSUME IInv, UnopenedIsNew, [Next]_vars, NEW s \in SessionIds
  PROVE  \/ Quiet(s)
         \/ \E c \in Calls, v \in Verdict, base \in SessionState(Workspaces) : Counts(s, c, v, base)
<1>1. TypeOK
  BY DEF IInv
<1>2. ASSUME NEW c \in Calls, NEW r \in Requests, NEW new,
             call[c].phase # "done", call' = [call EXCEPT ![c] = new],
             new.phase # "done" \/ new.workspace = NoWorkspace \/ new.cached,
             \/ session' = session
             \/ r.session # NoSession /\ session' = [session EXCEPT ![r.session] = Opened(r)]
      PROVE  Quiet(s)
  <2>1. call'[c] = new /\ \A d \in Calls : d # c => call'[d] = call[d]
    BY <1>1, <1>2 DEF TypeOK
  <2>2. \A d \in Recorded(s) : d \in Calls /\ d # c
    BY <1>2 DEF Recorded, Done
  <2>3. Recorded(s)' = Recorded(s)
    BY <1>2, <2>1, <2>2 DEF Recorded, Done, Bound
  <2>4. CASE s = r.session /\ r.session # NoSession /\ session' = [session EXCEPT ![r.session] = Opened(r)]
    <3>1. session'[s] = Opened(r)
      BY <1>1, <2>4 DEF TypeOK
    <3>2. SameCounters(Opened(r), session[s])
      BY <1>1, <2>4, OpenedCounters
    <3> QED
      BY <2>1, <2>2, <2>3, <3>1, <3>2 DEF Quiet
  <2>5. CASE session' = session \/ (s # r.session /\ session' = [session EXCEPT ![r.session] = Opened(r)])
    <3>1. session'[s] = session[s]
      BY <1>1, <2>5 DEF TypeOK
    <3> QED
      BY <2>1, <2>2, <2>3, <3>1 DEF Quiet, SameCounters
  <2> QED
    BY <1>2, <2>4, <2>5
<1>3. ASSUME NEW c \in Calls, NEW r \in Requests, Refuse(c, r)
      PROVE  Quiet(s)
  <2>1. PICK rule : call' = [call EXCEPT ![c] =
               [phase |-> "done", request |-> r, workspace |-> NoWorkspace,
                verdict |-> Ask(rule, 0, FALSE), cached |-> FALSE, at |-> clock]]
    BY <1>3 DEF Refuse
  <2>2. call[c].phase # "done" /\ session' = session
    BY <1>3 DEF Refuse, NoCall
  <2> QED
    BY <1>2, <2>1, <2>2
<1>4. ASSUME NEW c \in Calls, NEW r \in Requests, AnswerFromCache(c, r)
      PROVE  Quiet(s)
  <2>1. /\ call[c].phase # "done" /\ r.session # NoSession
        /\ session' = [session EXCEPT ![r.session] = Opened(r)]
        /\ call' = [call EXCEPT ![c] =
               [phase |-> "done", request |-> r, workspace |-> WorkspaceFor(r),
                verdict |-> Allow("cache", 0), cached |-> TRUE, at |-> clock]]
    BY <1>4 DEF AnswerFromCache, NoCall
  <2> QED
    BY <1>2, <2>1
<1>5. ASSUME NEW c \in Calls, NEW r \in Requests, AskClassifier(c, r)
      PROVE  Quiet(s)
  <2>1. /\ call[c].phase # "done"
        /\ \/ session' = session
           \/ r.session # NoSession /\ session' = [session EXCEPT ![r.session] = Opened(r)]
        /\ call' = [call EXCEPT ![c] = [phase |-> "review", request |-> r,
               workspace |-> WorkspaceFor(r), floor |-> Stage1(r, WorkspaceFor(r)).floor]]
    BY <1>5 DEF AskClassifier, NoCall
  <2> QED
    BY <1>2, <2>1
<1>6. ASSUME NEW c \in Calls, NEW r \in Requests, SettleAtStage1(c, r)
      PROVE  Quiet(s) \/ \E v \in Verdict, base \in SessionState(Workspaces) : Counts(s, c, v, base)
  <2> DEFINE w     == WorkspaceFor(r)
             v     == Settled(Stage1(r, w))
             state == IF r.session = NoSession THEN Unopened ELSE Opened(r)
  <2>1. /\ call[c].phase # "done" /\ v # Silent
        /\ Settle(c, r, w, v, state, allowCache \ Expired(r))
    BY <1>6 DEF SettleAtStage1, NoCall
  <2>2. w \in Workspaces
    BY <1>1, WorkspaceForType
  <2>3. v \in Verdict
    BY <2>1, <2>2, Stage1Type, SettledType
  <2>4. state \in SessionState(Workspaces)
    BY <1>1, OpenedType, NewSessionType DEF Unopened
  <2>5. r.session # NoSession => SameCounters(state, session[r.session])
    BY <1>1, OpenedCounters
  <2> HIDE DEF w, v, state
  <2>6. IF s = r.session THEN Counts(s, c, v, state) ELSE Quiet(s)
    BY <1>1, <2>1, <2>2, <2>3, <2>4, <2>5, SettleCounts
  <2> QED
    BY <2>3, <2>4, <2>6
<1>7. ASSUME NEW c \in Calls, ClassifierAnswers(c)
      PROVE  Quiet(s) \/ \E v \in Verdict, base \in SessionState(Workspaces) : Counts(s, c, v, base)
  <2> DEFINE r     == call[c].request
             w     == call[c].workspace
             state == IF r.session = NoSession THEN Unopened ELSE session[r.session]
  <2>1. PICK u \in Review : Settle(c, r, w, RaisedTo(u, call[c].floor), state, allowCache)
    BY <1>7 DEF ClassifierAnswers
  <2> DEFINE v == RaisedTo(u, call[c].floor)
  <2>2. call[c].phase = "review"
    BY <1>7 DEF ClassifierAnswers
  <2>3. r \in Requests /\ w \in Workspaces /\ call[c].floor \in Floor \cup {Silent}
    BY <1>1, <2>2 DEF TypeOK, NoCall, Reviewing, Answered
  <2>4. v \in Verdict
    BY <2>3, RaisedToType, GateAssumption
  <2>5. state \in SessionState(Workspaces)
    BY <1>1, <2>3, NewSessionType DEF Unopened, TypeOK, SessionIds
  <2>6. r.session # NoSession => SameCounters(state, session[r.session])
    BY DEF SameCounters
  <2>7. call[c].phase # "done" /\ Settle(c, r, w, v, state, allowCache)
    BY <2>1, <2>2
  <2> HIDE DEF r, w, v, state
  <2>8. IF s = r.session THEN Counts(s, c, v, state) ELSE Quiet(s)
    BY <1>1, <2>3, <2>4, <2>5, <2>6, <2>7, SettleCounts
  <2> QED
    BY <2>4, <2>5, <2>8
<1>8. CASE Tick \/ UNCHANGED vars
  BY <1>8 DEF Tick, vars, Quiet, SameCounters, Recorded, Done, Bound
<1> QED
  BY <1>3, <1>4, <1>5, <1>6, <1>7, <1>8 DEF Next, Decide
-----------------------------------------------------------------------------
\* The window and the streak.

\* A decision added at the end of a window: an allow closes every denial, a
\* denial is open itself, an ask changes nothing.
LEMMA AppendOpens ==
  ASSUME NEW t \in Seq(RecentDecision), NEW d \in RecentDecision
  PROVE  /\ d = "deny" => OpenDenials(Append(t, d)) = OpenDenials(t) \cup {Len(t) + 1}
         /\ d = "allow" => OpenDenials(Append(t, d)) = {}
         /\ d = "ask" => OpenDenials(Append(t, d)) = OpenDenials(t)
<1> DEFINE u == Append(t, d)
           n == Len(t)
<1>1. /\ n \in Nat /\ DOMAIN t = 1..n /\ DOMAIN u = 1..n + 1 /\ Len(u) = n + 1
      /\ \A i \in 1..n : u[i] = t[i]
      /\ u[n + 1] = d
  OBVIOUS
<1> HIDE DEF u, n
<1>2. /\ OpenDenials(t) = {i \in 1..n : t[i] = "deny" /\ \A j \in i..n : t[j] # "allow"}
      /\ OpenDenials(u) = {i \in 1..n + 1 : u[i] = "deny" /\ \A j \in i..n + 1 : u[j] # "allow"}
  BY <1>1 DEF OpenDenials, Denials, n
<1>3. CASE d = "allow"
  <2>1. \A i \in 1..n + 1 : n + 1 \in i..n + 1
    BY <1>1
  <2>2. OpenDenials(u) = {}
    BY <1>1, <1>2, <1>3, <2>1
  <2> QED
    BY <1>3, <2>2 DEF u
<1>4. CASE d # "allow"
  <2>1. \A i \in 1..n : (\A j \in i..n + 1 : u[j] # "allow") <=> (\A j \in i..n : t[j] # "allow")
    BY <1>1, <1>4
  <2>2. n + 1 \in OpenDenials(u) <=> d = "deny"
    BY <1>1, <1>2, <1>4
  <2>3. \A i \in 1..n : i \in OpenDenials(u) <=> i \in OpenDenials(t)
    BY <1>1, <1>2, <2>1
  <2>4. OpenDenials(u) \subseteq 1..n + 1 /\ OpenDenials(t) \subseteq 1..n
    BY <1>2
  <2>5. 1..n + 1 = 1..n \cup {n + 1}
    BY <1>1
  <2>6. CASE d = "deny"
    BY <2>2, <2>3, <2>4, <2>5, <2>6 DEF u, n
  <2>7. CASE d = "ask"
    BY <2>2, <2>3, <2>4, <2>5, <2>7 DEF u, n
  <2> QED
    BY <1>4, <2>6, <2>7 DEF RecentDecision
<1> QED
  BY <1>3, <1>4

LEMMA OpenDenialsFinite ==
  ASSUME NEW t \in Seq(RecentDecision)
  PROVE  /\ IsFiniteSet(OpenDenials(t)) /\ Cardinality(OpenDenials(t)) \in Nat
         /\ Len(t) + 1 \notin OpenDenials(t)
<1>1. Len(t) \in Nat /\ OpenDenials(t) \in SUBSET (1..Len(t))
  BY DEF OpenDenials, Denials
<1>2. IsFiniteSet(1..Len(t))
  BY <1>1, FS_Interval
<1>3. IsFiniteSet(OpenDenials(t))
  BY <1>1, <1>2, FS_Subset
<1> QED
  BY <1>1, <1>3, FS_CardinalityType

\* A window that drops its oldest decision has no more open denials than before.
LEMMA DropOpens ==
  ASSUME NEW u \in Seq(RecentDecision), Len(u) > 0
  PROVE  /\ SubSeq(u, 2, Len(u)) \in Seq(RecentDecision)
         /\ Len(SubSeq(u, 2, Len(u))) = Len(u) - 1
         /\ Cardinality(OpenDenials(SubSeq(u, 2, Len(u)))) <= Cardinality(OpenDenials(u))
<1> DEFINE w == SubSeq(u, 2, Len(u))
           n == Len(u) - 1
           f == [i \in OpenDenials(w) |-> i + 1]
<1>1. n \in Nat /\ Len(u) = n + 1
  OBVIOUS
<1>2. /\ w \in Seq(RecentDecision) /\ Len(w) = n
      /\ \A i \in 1..n : w[i] = u[i + 1]
  BY <1>1
<1>3. DOMAIN w = 1..n /\ DOMAIN u = 1..n + 1
  BY <1>1, <1>2
<1> HIDE DEF w, n
<1>4. /\ OpenDenials(w) = {i \in 1..n : w[i] = "deny" /\ \A j \in i..n : w[j] # "allow"}
      /\ OpenDenials(u) = {i \in 1..n + 1 : u[i] = "deny" /\ \A j \in i..n + 1 : u[j] # "allow"}
  BY <1>1, <1>2, <1>3 DEF OpenDenials, Denials
<1>5. \A i \in OpenDenials(w) : i + 1 \in OpenDenials(u)
  <2> SUFFICES ASSUME NEW i \in OpenDenials(w)
               PROVE  i + 1 \in OpenDenials(u)
    OBVIOUS
  <2>1. i \in 1..n /\ i + 1 \in 1..n + 1 /\ u[i + 1] = "deny"
    BY <1>1, <1>2, <1>4
  <2>2. ASSUME NEW j \in i + 1..n + 1 PROVE u[j] # "allow"
    <3>1. j - 1 \in i..n /\ j - 1 \in 1..n /\ (j - 1) + 1 = j
      BY <1>1, <2>1
    <3>2. w[j - 1] # "allow" /\ w[j - 1] = u[(j - 1) + 1]
      BY <1>2, <1>4, <3>1
    <3> QED
      BY <3>1, <3>2
  <2> QED
    BY <1>4, <2>1, <2>2
<1>6. OpenDenials(w) \subseteq Nat
  BY <1>1, <1>4
<1>7. f \in Injection(OpenDenials(w), OpenDenials(u))
  BY <1>5, <1>6 DEF Injection, IsInjective
<1>8. Cardinality(OpenDenials(w)) <= Cardinality(OpenDenials(u))
  BY <1>7, OpenDenialsFinite, FS_Injection
<1> QED
  BY <1>1, <1>2, <1>8 DEF w

\* One decision keeps the streak and the window in step.
LEMMA RecordMatches ==
  ASSUME NEW s \in SessionState(Workspaces), Matches(s), NEW d \in RecentDecision
  PROVE  Matches(Record(s, d))
<1> DEFINE t == s.recent
           u == Append(t, d)
           k == Streak(s.denyConsecutive, d)
<1>1. /\ t \in Seq(RecentDecision) /\ Len(t) \in Nat /\ Len(t) <= RecentMax
      /\ s.denyConsecutive \in Nat /\ RecentMax \in Nat \ {0}
  BY EscalationAssumption DEF SessionState, Window
<1>2. u \in Seq(RecentDecision) /\ Len(u) = Len(t) + 1
  BY <1>1
<1>3. /\ Record(s, d).denyConsecutive = k
      /\ Record(s, d).recent = AppendRecent(t, d)
  BY RecordFields
<1>4. /\ s.denyConsecutive >= Cardinality(OpenDenials(t))
      /\ Len(t) < RecentMax => s.denyConsecutive = Cardinality(OpenDenials(t))
      /\ Cardinality(OpenDenials(t)) \in Nat
  BY <1>1, OpenDenialsFinite DEF Matches
<1>5. /\ k \in Nat /\ Cardinality(OpenDenials(u)) \in Nat
      /\ k >= Cardinality(OpenDenials(u))
      /\ Len(t) < RecentMax => k = Cardinality(OpenDenials(u))
  <2> HIDE DEF t
  <2>1. CASE d = "allow"
    <3>1. OpenDenials(u) = {}
      BY <1>1, <2>1, AppendOpens
    <3>2. Cardinality(OpenDenials(u)) = 0
      BY <3>1, FS_EmptySet
    <3>3. k = 0
      BY <2>1 DEF Streak
    <3> QED
      BY <3>2, <3>3
  <2>2. CASE d = "deny"
    <3>1. OpenDenials(u) = OpenDenials(t) \cup {Len(t) + 1}
      BY <1>1, <2>2, AppendOpens
    <3>2. Cardinality(OpenDenials(u)) = Cardinality(OpenDenials(t)) + 1
      BY <1>1, <3>1, OpenDenialsFinite, FS_AddElement
    <3>3. k = s.denyConsecutive + 1
      BY <2>2 DEF Streak
    <3> QED
      BY <1>1, <1>4, <3>2, <3>3
  <2>3. CASE d = "ask"
    <3>1. OpenDenials(u) = OpenDenials(t)
      BY <1>1, <2>3, AppendOpens
    <3>2. k = s.denyConsecutive
      BY <2>3 DEF Streak
    <3> QED
      BY <1>1, <1>4, <3>1, <3>2
  <2> QED
    BY <2>1, <2>2, <2>3 DEF RecentDecision
<1> HIDE DEF t, k
<1>6. CASE Len(t) < RecentMax
  <2>1. AppendRecent(t, d) = u
    BY <1>1, <1>2, <1>6 DEF AppendRecent, LastOf
  <2> QED
    BY <1>3, <1>5, <1>6, <2>1 DEF Matches
<1>7. CASE Len(t) = RecentMax
  <2>1. Len(u) - RecentMax + 1 = 2 /\ ~(Len(u) <= RecentMax)
    BY <1>1, <1>2, <1>7
  <2>2. AppendRecent(t, d) = SubSeq(u, 2, Len(u))
    BY <2>1 DEF AppendRecent, LastOf
  <2> HIDE DEF u
  <2>3. /\ Len(SubSeq(u, 2, Len(u))) = RecentMax
        /\ SubSeq(u, 2, Len(u)) \in Seq(RecentDecision)
        /\ Cardinality(OpenDenials(SubSeq(u, 2, Len(u)))) <= Cardinality(OpenDenials(u))
    BY <1>1, <1>2, <1>7, DropOpens
  <2>4. Cardinality(OpenDenials(SubSeq(u, 2, Len(u)))) \in Nat
    BY <2>3, OpenDenialsFinite
  <2> QED
    BY <1>1, <1>3, <1>5, <2>2, <2>3, <2>4 DEF Matches
<1> QED
  BY <1>1, <1>6, <1>7
-----------------------------------------------------------------------------
\* The three promises of the counters, as one invariant.
CInv ==
  /\ UnopenedIsNew
  /\ RecordedIsFinite
  /\ StreakMatchesWindow
  /\ StreakIsBounded
  /\ CountersCountAnswers

\* A session that is not open after a step was not open before it, and nobody
\* touched it.
LEMMA NextUnopened ==
  ASSUME IInv, UnopenedIsNew, [Next]_vars
  PROVE  UnopenedIsNew'
<1>1. TypeOK
  BY DEF IInv
<1>2. ASSUME NEW r \in Requests, r.session # NoSession, NEW new, new.workspace \in Workspaces,
             session' = [session EXCEPT ![r.session] = new]
      PROVE  UnopenedIsNew'
  BY <1>1, <1>2, GateAssumption DEF TypeOK, UnopenedIsNew
<1>3. ASSUME session' = session
      PROVE  UnopenedIsNew'
  BY <1>3 DEF UnopenedIsNew
<1>4. ASSUME NEW c \in Calls, NEW r \in Requests, Decide(c, r)
      PROVE  UnopenedIsNew'
  <2>1. CASE session' = session
    BY <1>3, <2>1
  <2>2. CASE session' # session
    <3>1. r.session # NoSession
      BY <1>4, <2>2 DEF Decide, Refuse, AnswerFromCache, SettleAtStage1, AskClassifier, Settle
    <3>2. Opened(r) \in SessionState(Workspaces) /\ Opened(r).workspace \in Workspaces
      BY <1>1, <3>1, OpenedType
    <3>3. CASE session' = [session EXCEPT ![r.session] = Opened(r)]
      BY <1>2, <3>1, <3>2, <3>3
    <3>4. CASE SettleAtStage1(c, r)
      <4> DEFINE v == Settled(Stage1(r, WorkspaceFor(r)))
                 final == IF r.session # NoSession /\ Escalates(Opened(r), v) THEN Escalated(v) ELSE v
                 counted == IF r.session # NoSession /\ Escalates(Opened(r), v)
                            THEN ResetAfterEscalation(Opened(r)) ELSE Opened(r)
      <4>1. v # Silent /\ session' = [session EXCEPT ![r.session] = Record(counted, final.decision)]
        BY <3>1, <3>4 DEF SettleAtStage1, Settle
      <4>2. v \in Verdict
        BY <1>1, <4>1, WorkspaceForType, Stage1Type, SettledType
      <4>3. final.decision \in Decision
        BY <4>2, EscalatedType, GateAssumption DEF Verdict
      <4>4. counted \in SessionState(Workspaces) /\ counted.workspace \in Workspaces
        BY <3>2, ResetType
      <4>5. Record(counted, final.decision).workspace \in Workspaces
        BY <4>3, <4>4, RecordType
      <4> QED
        BY <1>2, <3>1, <4>1, <4>5
    <3> QED
      BY <1>4, <2>2, <3>1, <3>3, <3>4 DEF Decide, Refuse, AnswerFromCache, AskClassifier
  <2> QED
    BY <2>1, <2>2
<1>5. ASSUME NEW c \in Calls, ClassifierAnswers(c)
      PROVE  UnopenedIsNew'
  <2> DEFINE r == call[c].request
  <2>1. CASE session' = session
    BY <1>3, <2>1
  <2>2. CASE session' # session
    <3>1. call[c].phase = "review" /\ r.session # NoSession
      BY <1>5, <2>2 DEF ClassifierAnswers, Settle
    <3>2. /\ r \in Requests /\ call[c].workspace \in Workspaces
          /\ call[c].floor \in Floor \cup {Silent}
      BY <1>1, <3>1 DEF TypeOK, NoCall, Reviewing, Answered
    <3>3. r.session \in SessionIds /\ session[r.session] \in SessionState(Workspaces)
      BY <1>1, <3>1, <3>2 DEF TypeOK, SessionIds
    <3>4. session[r.session].workspace \in Workspaces
      BY <3>1, <3>2, GateAssumption DEF IInv, OneWorkspacePerSession, Bound
    <3>5. PICK u \in Review :
            Settle(c, r, call[c].workspace, RaisedTo(u, call[c].floor), session[r.session], allowCache)
      BY <1>5, <3>1 DEF ClassifierAnswers
    <3> DEFINE v == RaisedTo(u, call[c].floor)
               state == session[r.session]
               final == IF r.session # NoSession /\ Escalates(state, v) THEN Escalated(v) ELSE v
               counted == IF r.session # NoSession /\ Escalates(state, v)
                          THEN ResetAfterEscalation(state) ELSE state
    <3>6. session' = [session EXCEPT ![r.session] = Record(counted, final.decision)]
      BY <3>1, <3>5 DEF Settle
    <3>7. v \in Verdict
      BY <3>2, RaisedToType, GateAssumption
    <3>8. final.decision \in Decision
      BY <3>7, EscalatedType, GateAssumption DEF Verdict
    <3>9. counted \in SessionState(Workspaces) /\ counted.workspace \in Workspaces
      BY <3>3, <3>4, ResetType
    <3>10. Record(counted, final.decision).workspace \in Workspaces
      BY <3>8, <3>9, RecordType
    <3> QED
      BY <1>2, <3>1, <3>2, <3>6, <3>10
  <2> QED
    BY <2>1, <2>2
<1>6. CASE Tick \/ UNCHANGED vars
  BY <1>3, <1>6 DEF Tick, vars
<1> QED
  BY <1>4, <1>5, <1>6 DEF Next

LEMMA InitCInv == Init => CInv
<1> SUFFICES ASSUME Init PROVE CInv
  OBVIOUS
<1>1. ASSUME NEW s \in SessionIds
      PROVE  /\ session[s] = Unopened
             /\ Recorded(s) = {}
  BY DEF Init, Recorded, Done, NoCall
<1>2. OpenDenials(<<>>) = {}
  BY DEF OpenDenials, Denials
<1>3. /\ Unopened.denyConsecutive = 0 /\ Unopened.denyTotal = 0 /\ Unopened.decisionsTotal = 0
      /\ Unopened.recent = <<>>
  BY DEF Unopened, NewSession
<1>4. UnopenedIsNew /\ RecordedIsFinite
  BY <1>1, FS_EmptySet DEF UnopenedIsNew, RecordedIsFinite
<1>5. StreakMatchesWindow
  BY <1>1, <1>2, <1>3, FS_EmptySet DEF StreakMatchesWindow
<1>6. ASSUME NEW s \in SessionIds
      PROVE  /\ {c \in Recorded(s) : ~Escalatable(call[c].verdict)} = {}
             /\ {c \in Recorded(s) : call[c].verdict.decision = "deny"} = {}
  BY <1>1
<1>7. StreakIsBounded
  <2>1. ASSUME NEW s \in SessionIds
        PROVE  /\ session[s].denyConsecutive = 0
               /\ Cardinality({c \in Recorded(s) : ~Escalatable(call[c].verdict)}) = 0
    BY <1>1, <1>3, <1>6, FS_EmptySet
  <2> QED
    BY <2>1, EscalationAssumption DEF StreakIsBounded
<1>8. CountersCountAnswers
  BY <1>1, <1>3, <1>6, FS_EmptySet DEF CountersCountAnswers
<1> QED
  BY <1>4, <1>5, <1>7, <1>8 DEF CInv

\* A step that answers nothing for a session keeps what holds of its counters.
LEMMA QuietCounters ==
  ASSUME CInv, NEW s \in SessionIds, Quiet(s)
  PROVE  /\ IsFiniteSet(Recorded(s))'
         /\ Matches(session'[s])
         /\ session'[s].denyConsecutive
              <= DenyConsecutive + Cardinality({c \in Recorded(s) : ~Escalatable(call[c].verdict)})'
         /\ session'[s].decisionsTotal = Cardinality(Recorded(s))'
         /\ session'[s].denyTotal
              = Cardinality({c \in Recorded(s) : call[c].verdict.decision = "deny"})'
<1>1. /\ SameCounters(session'[s], session[s])
      /\ Recorded(s)' = Recorded(s)
      /\ \A d \in Recorded(s) : call'[d] = call[d]
  BY DEF Quiet
<1>2. /\ {c \in Recorded(s) : ~Escalatable(call[c].verdict)}'
           = {c \in Recorded(s) : ~Escalatable(call[c].verdict)}
      /\ {c \in Recorded(s) : call[c].verdict.decision = "deny"}'
           = {c \in Recorded(s) : call[c].verdict.decision = "deny"}
  BY <1>1
<1>3. IsFiniteSet(Recorded(s))'
  BY <1>1 DEF CInv, RecordedIsFinite
<1>4. Matches(session'[s])
  BY <1>1 DEF CInv, StreakMatchesWindow, Matches, SameCounters
<1> QED
  BY <1>1, <1>2, <1>3, <1>4 DEF CInv, StreakIsBounded, CountersCountAnswers, SameCounters

\* So does one that counts a verdict.
LEMMA CountedCounters ==
  ASSUME IInv, CInv, NEW s \in SessionIds, NEW c \in Calls, NEW v \in Verdict,
         NEW base \in SessionState(Workspaces), Counts(s, c, v, base)
  PROVE  /\ IsFiniteSet(Recorded(s))'
         /\ Matches(session'[s])
         /\ session'[s].denyConsecutive
              <= DenyConsecutive + Cardinality({d \in Recorded(s) : ~Escalatable(call[d].verdict)})'
         /\ session'[s].decisionsTotal = Cardinality(Recorded(s))'
         /\ session'[s].denyTotal
              = Cardinality({d \in Recorded(s) : call[d].verdict.decision = "deny"})'
<1> DEFINE final   == IF Escalates(base, v) THEN Escalated(v) ELSE v
           counted == IF Escalates(base, v) THEN ResetAfterEscalation(base) ELSE base
           old     == Recorded(s)
           kept    == {d \in Recorded(s) : ~Escalatable(call[d].verdict)}
           denied  == {d \in Recorded(s) : call[d].verdict.decision = "deny"}
<1>1. /\ SameCounters(base, session[s])
      /\ c \notin old /\ Recorded(s)' = old \cup {c}
      /\ \A d \in old : call'[d] = call[d]
      /\ call'[c].verdict = final
      /\ session'[s] = Record(counted, final.decision)
  BY DEF Counts
<1>2. final \in Verdict /\ final.decision \in Decision
  BY EscalatedType, GateAssumption DEF Verdict
<1>3. counted \in SessionState(Workspaces)
  BY ResetType
<1>4. /\ IsFiniteSet(old)
      /\ base.denyConsecutive <= DenyConsecutive + Cardinality(kept)
      /\ base.decisionsTotal = Cardinality(old)
      /\ base.denyTotal = Cardinality(denied)
      /\ Matches(base)
  BY <1>1 DEF CInv, RecordedIsFinite, StreakMatchesWindow, StreakIsBounded, CountersCountAnswers,
              SameCounters, Matches
<1>5. /\ IsFiniteSet(kept) /\ IsFiniteSet(denied)
      /\ Cardinality(kept) \in Nat /\ Cardinality(denied) \in Nat /\ Cardinality(old) \in Nat
      /\ c \notin kept /\ c \notin denied
  <2>1. kept \in SUBSET old /\ denied \in SUBSET old
    OBVIOUS
  <2> HIDE DEF kept, denied, old
  <2> QED
    BY <1>1, <1>4, <2>1, FS_Subset, FS_CardinalityType
<1>6. /\ {d \in Recorded(s) : ~Escalatable(call[d].verdict)}'
           = IF Escalatable(final) THEN kept ELSE kept \cup {c}
      /\ {d \in Recorded(s) : call[d].verdict.decision = "deny"}'
           = IF final.decision = "deny" THEN denied \cup {c} ELSE denied
  <2> HIDE DEF final
  <2>1. {d \in Recorded(s) : ~Escalatable(call[d].verdict)}'
           = IF Escalatable(final) THEN kept ELSE kept \cup {c}
    BY <1>1
  <2>2. {d \in Recorded(s) : call[d].verdict.decision = "deny"}'
           = IF final.decision = "deny" THEN denied \cup {c} ELSE denied
    BY <1>1
  <2> QED
    BY <2>1, <2>2
<1>7. /\ IsFiniteSet(old \cup {c}) /\ Cardinality(old \cup {c}) = Cardinality(old) + 1
      /\ Cardinality(kept \cup {c}) = Cardinality(kept) + 1
      /\ Cardinality(denied \cup {c}) = Cardinality(denied) + 1
  <2> HIDE DEF kept, denied, old
  <2> QED
    BY <1>1, <1>4, <1>5, FS_AddElement
<1>8. /\ counted.decisionsTotal = base.decisionsTotal
      /\ counted.denyTotal = base.denyTotal
      /\ Matches(counted)
      /\ counted.denyConsecutive = IF Escalates(base, v) THEN 0 ELSE base.denyConsecutive
  <2>1. CASE Escalates(base, v)
    <3>1. counted = ResetAfterEscalation(base)
      BY <2>1
    <3>2. /\ counted.decisionsTotal = base.decisionsTotal /\ counted.denyTotal = base.denyTotal
          /\ counted.denyConsecutive = 0 /\ counted.recent = <<>>
      BY <3>1, ResetFields
    <3>3. Cardinality(OpenDenials(<<>>)) = 0
      BY FS_EmptySet DEF OpenDenials, Denials
    <3>4. Matches(counted)
      BY <3>2, <3>3 DEF Matches
    <3> QED
      BY <2>1, <3>2, <3>4
  <2>2. CASE ~Escalates(base, v)
    BY <1>4, <2>2
  <2> QED
    BY <2>1, <2>2
<1>9. /\ session'[s].decisionsTotal = counted.decisionsTotal + 1
      /\ session'[s].denyTotal = IF final.decision = "deny" THEN counted.denyTotal + 1
                                 ELSE counted.denyTotal
      /\ session'[s].denyConsecutive = Streak(counted.denyConsecutive, final.decision)
      /\ Matches(session'[s])
  BY <1>1, <1>2, <1>3, <1>8, RecordFields, RecordMatches DEF Decision, RecentDecision
<1>10. session'[s].denyConsecutive
         <= DenyConsecutive + Cardinality(IF Escalatable(final) THEN kept ELSE kept \cup {c})
  <2>1. /\ base.denyConsecutive \in Nat /\ counted.denyConsecutive \in Nat
        /\ DenyConsecutive \in Nat \ {0}
    BY <1>3, EscalationAssumption DEF SessionState
  <2>2. CASE Escalates(base, v)
    <3>1. final.decision = "ask" /\ counted.denyConsecutive = 0
      BY <1>8, <2>2 DEF Escalated, Verdict
    <3>2. session'[s].denyConsecutive = 0
      BY <1>9, <3>1 DEF Streak
    <3> QED
      BY <1>5, <1>7, <2>1, <3>2
  <2>3. CASE ~Escalates(base, v)
    <3>1. final = v /\ counted = base
      BY <2>3
    <3>2. CASE final.decision = "deny" /\ Escalatable(final)
      <4>1. base.denyConsecutive < DenyConsecutive
        BY <2>1, <2>3, <3>1, <3>2 DEF Escalates, ShouldEscalate
      <4>2. session'[s].denyConsecutive = base.denyConsecutive + 1
        BY <1>9, <3>1, <3>2 DEF Streak
      <4> QED
        BY <1>5, <2>1, <3>2, <4>1, <4>2
    <3>3. CASE final.decision = "deny" /\ ~Escalatable(final)
      <4>1. session'[s].denyConsecutive = base.denyConsecutive + 1
        BY <1>9, <3>1, <3>3 DEF Streak
      <4> QED
        BY <1>4, <1>5, <1>7, <2>1, <3>3, <4>1
    <3>4. CASE final.decision # "deny"
      <4>1. session'[s].denyConsecutive \in {0, base.denyConsecutive}
        BY <1>9, <3>1, <3>4 DEF Streak
      <4> QED
        BY <1>4, <1>5, <1>7, <2>1, <4>1
    <3> QED
      BY <3>2, <3>3, <3>4
  <2> QED
    BY <2>2, <2>3
<1> HIDE DEF final, counted, kept, denied, old
<1> QED
  BY <1>1, <1>4, <1>5, <1>6, <1>7, <1>8, <1>9, <1>10
LEMMA NextCInv == IInv /\ IInv' /\ CInv /\ [Next]_vars => CInv'
<1> SUFFICES ASSUME IInv, IInv', CInv, [Next]_vars PROVE CInv'
  OBVIOUS
<1>1. ASSUME NEW s \in SessionIds
      PROVE  /\ IsFiniteSet(Recorded(s))'
             /\ Matches(session'[s])
             /\ session'[s].denyConsecutive
                  <= DenyConsecutive + Cardinality({c \in Recorded(s) : ~Escalatable(call[c].verdict)})'
             /\ session'[s].decisionsTotal = Cardinality(Recorded(s))'
             /\ session'[s].denyTotal
                  = Cardinality({c \in Recorded(s) : call[c].verdict.decision = "deny"})'
  <2>1. CASE Quiet(s)
    BY <2>1, QuietCounters
  <2>2. CASE ~Quiet(s)
    <3>1. PICK c \in Calls, v \in Verdict, base \in SessionState(Workspaces) : Counts(s, c, v, base)
      BY <2>2, StepCounts DEF CInv
    <3> QED
      BY <3>1, CountedCounters
  <2> QED
    BY <2>1, <2>2
<1>2. UnopenedIsNew'
  BY NextUnopened DEF CInv
<1>3. RecordedIsFinite'
  BY <1>1 DEF RecordedIsFinite
<1>4. StreakMatchesWindow'
  BY <1>1 DEF StreakMatchesWindow, Matches
<1>5. StreakIsBounded'
  BY <1>1 DEF StreakIsBounded
<1>6. CountersCountAnswers'
  BY <1>1 DEF CountersCountAnswers
<1> QED
  BY <1>2, <1>3, <1>4, <1>5, <1>6 DEF CInv

LEMMA SpecCInv == Spec => []CInv
  BY InitIInv, NextIInv, InitCInv, NextCInv, PTL DEF Spec

\* The counters of a session count every decision it was given, once, whatever
\* ran between a call and its answer (engine/gate.py, _settle_session).
THEOREM EveryAnswerIsCounted == Spec => []CountersCountAnswers
<1>1. CInv => CountersCountAnswers
  BY DEF CInv
<1> QED
  BY <1>1, SpecCInv, PTL

\* A streak passes the threshold by hard denials and the user's own alone, for
\* any number of calls at the classifier (session/escalation.py).
THEOREM StreaksAreBounded == Spec => []StreakIsBounded
<1>1. CInv => StreakIsBounded
  BY DEF CInv
<1> QED
  BY <1>1, SpecCInv, PTL

\* The streak is what the window shows, and never less, for every length of
\* the window (domain/session.py).
THEOREM StreaksMatchWindows == Spec => []StreakMatchesWindow
<1>1. CInv => StreakMatchesWindow
  BY DEF CInv
<1> QED
  BY <1>1, SpecCInv, PTL

-----------------------------------------------------------------------------
\* The promise of module Decisions.

\* A call waits for the classifier only under a profile that is known, and one
\* without a session at the workspace of its own cwd.
IsBound(r) ==
  /\ Known(r.request.profile, r.request.model)
  /\ r.request.session = NoSession => r.workspace = Detect(r.request.cwd)

ReviewsAreBound == \A c \in Calls : call[c].phase = "review" => IsBound(call[c])

\* At the start nothing waits.
LEMMA InitBound == Init => ReviewsAreBound
  BY DEF Init, NoCall, ReviewsAreBound

\* A wait begins under a known profile; no other step begins one.
LEMMA NextBound == IInv /\ ReviewsAreBound /\ [Next]_vars => ReviewsAreBound'
<1> SUFFICES ASSUME IInv, ReviewsAreBound, [Next]_vars PROVE ReviewsAreBound'
  OBVIOUS
<1>1. call \in [Calls -> {NoCall} \cup Reviewing \cup Answered]
  BY DEF IInv, TypeOK
<1>2. ASSUME NEW c \in Calls, NEW new, call' = [call EXCEPT ![c] = new],
             new.phase = "review" => IsBound(new)
      PROVE  ReviewsAreBound'
  <2>1. call'[c] = new /\ \A d \in Calls : d # c => call'[d] = call[d]
    BY <1>1, <1>2
  <2> QED
    BY <1>2, <2>1 DEF ReviewsAreBound
<1>3. ASSUME NEW c \in Calls, NEW r, NEW w, NEW v, NEW state, NEW entries,
             Settle(c, r, w, v, state, entries)
      PROVE  ReviewsAreBound'
  <2> DEFINE final == IF r.session # NoSession /\ Escalates(state, v) THEN Escalated(v) ELSE v
             new   == [phase |-> "done", request |-> r, workspace |-> w, verdict |-> final,
                       cached |-> FALSE, at |-> clock]
  <2>1. call' = [call EXCEPT ![c] = new]
    BY <1>3 DEF Settle
  <2>2. new.phase = "done"
    OBVIOUS
  <2> HIDE DEF new
  <2> QED
    BY <1>2, <2>1, <2>2
<1>4. ASSUME NEW c \in Calls, NEW r \in Requests, Decide(c, r) PROVE ReviewsAreBound'
  <2>1. CASE Refuse(c, r)
    BY <1>2, <2>1 DEF Refuse
  <2>2. CASE AnswerFromCache(c, r)
    <3> DEFINE new == [phase |-> "done", request |-> r, workspace |-> WorkspaceFor(r),
                       verdict |-> Allow("cache", 0), cached |-> TRUE, at |-> clock]
    <3>1. call' = [call EXCEPT ![c] = new] /\ new.phase = "done"
      BY <2>2 DEF AnswerFromCache
    <3> HIDE DEF new
    <3> QED
      BY <1>2, <3>1
  <2>3. CASE SettleAtStage1(c, r)
    BY <1>3, <2>3 DEF SettleAtStage1
  <2>4. CASE AskClassifier(c, r)
    <3> DEFINE new == [phase |-> "review", request |-> r, workspace |-> WorkspaceFor(r),
                       floor |-> Stage1(r, WorkspaceFor(r)).floor]
    <3>1. call' = [call EXCEPT ![c] = new] /\ Known(r.profile, r.model)
      BY <2>4 DEF AskClassifier
    <3>2. IsBound(new)
      BY <3>1 DEF IsBound, WorkspaceFor
    <3> HIDE DEF new
    <3> QED
      BY <1>2, <3>1, <3>2
  <2> QED
    BY <1>4, <2>1, <2>2, <2>3, <2>4 DEF Decide
<1>5. ASSUME NEW c \in Calls, ClassifierAnswers(c) PROVE ReviewsAreBound'
  BY <1>3, <1>5 DEF ClassifierAnswers
<1>6. CASE Tick
  BY <1>6 DEF Tick, ReviewsAreBound
<1>7. CASE UNCHANGED vars
  BY <1>7 DEF vars, ReviewsAreBound
<1> QED
  BY <1>4, <1>5, <1>6, <1>7 DEF Next

\* The session's pin is what the gate binds a request's policy to.
LEMMA PlaceIsWorkspaceFor ==
  ASSUME TypeOK, NEW r \in Requests
  PROVE  /\ Promise!Place(r) = WorkspaceFor(r)
         /\ r.session # NoSession =>
              r.session \in SessionIds /\ Pinned[r.session] = session[r.session].workspace
<1>1. r.session # NoSession =>
        r.session \in SessionIds /\ Pinned[r.session] = session[r.session].workspace
  BY DEF SessionIds, Pinned
<1>2. CASE r.session = NoSession
  BY <1>2 DEF Promise!Place, WorkspaceFor
<1>3. CASE r.session # NoSession /\ session[r.session].workspace = NoWorkspace
  <2>1. NewSession(Detect(r.cwd)).workspace = Detect(r.cwd)
    BY DEF NewSession
  <2> QED
    BY <1>1, <1>3, <2>1 DEF Promise!Place, WorkspaceFor, Opened
<1>4. CASE r.session # NoSession /\ session[r.session].workspace # NoWorkspace
  BY <1>1, <1>4 DEF Promise!Place, WorkspaceFor, Opened
<1> QED
  BY <1>1, <1>2, <1>3, <1>4

\* A step that answers a call gives the callers that answer and no other.
LEMMA AnswerIsTold ==
  ASSUME TypeOK, NEW c \in Calls, call[c].phase # "done", NEW new, new.phase = "done",
         call' = [call EXCEPT ![c] = new], UNCHANGED clock,
         NEW r, NEW w, NEW cached, new.request = r, new.workspace = w, new.cached = cached,
         new.at = clock
  PROVE  Promise!Answers(c, r, w, cached) /\ Told'[c].verdict = new.verdict
<1>1. call'[c] = new /\ \A d \in Calls : d # c => call'[d] = call[d]
  BY DEF TypeOK
<1>2. Done' = Done \cup {c} /\ c \notin Done
  BY <1>1 DEF Done
<1>3. DOMAIN Told = Done /\ DOMAIN Told' = Done'
  BY DEF Told
<1>4. \A d \in Done : Told[d] = Answer(call[d])
  BY DEF Told
<1>5. \A d \in Done' : Told'[d] = Answer(call'[d])
  BY DEF Told
<1>6. \A d \in Done : Told'[d] = Told[d]
  BY <1>1, <1>2, <1>4, <1>5 DEF Done
<1>7. Told'[c] = Answer(new)
  BY <1>1, <1>2, <1>5
<1>8. /\ Told'[c].request = r /\ Told'[c].workspace = w /\ Told'[c].cached = cached
      /\ Told'[c].at = clock /\ Told'[c].verdict = new.verdict
  BY <1>7 DEF Answer
<1> QED
  BY <1>2, <1>3, <1>6, <1>8 DEF Promise!Answers

\* A step that pins the request's session at most changes its pin alone.
LEMMA OpeningPins ==
  ASSUME TypeOK, NEW r \in Requests,
         IF r.session = NoSession THEN session' = session
         ELSE \E state : /\ session' = [session EXCEPT ![r.session] = state]
                         /\ state.workspace = WorkspaceFor(r)
  PROVE  Promise!Pins(r)
<1>1. Promise!Place(r) = WorkspaceFor(r)
  BY PlaceIsWorkspaceFor
<1>2. CASE r.session = NoSession
  BY <1>2 DEF Promise!Pins, Pinned
<1>3. CASE r.session # NoSession
  <2>1. PICK state : /\ session' = [session EXCEPT ![r.session] = state]
                     /\ state.workspace = WorkspaceFor(r)
    BY <1>3
  <2>2. r.session \in SessionIds /\ session = [s \in SessionIds |-> session[s]]
    BY <1>3 DEF SessionIds, TypeOK
  <2>3. session'[r.session] = state /\ \A s \in SessionIds \ {r.session} : session'[s] = session[s]
    BY <2>1, <2>2
  <2>4. Pinned' = [Pinned EXCEPT ![r.session] = WorkspaceFor(r)]
    BY <2>1, <2>2, <2>3 DEF Pinned
  <2> QED
    BY <1>1, <1>3, <2>4 DEF Promise!Pins
<1> QED
  BY <1>2, <1>3

\* The promise speaks of the same verdicts.
LEMMA SameVerdicts == Promise!Verdict = Verdict /\ Promise!Silent = Silent
  BY DEF Promise!Verdict, Verdict, Promise!Decision, Decision, Promise!Silent, Silent

\* The verdicts of the pipeline are lawful, and escalation keeps them so.
LEMMA SettledIsLawful ==
  ASSUME NEW o \in ChainOutcome, Settled(o) # Silent
  PROVE  Promise!Lawful(o, Settled(o))
<1> DEFINE v == Settled(o)
<1>1. o.verdict \in Verdict \cup {Silent} /\ o.floor \in Floor \cup {Silent}
  BY DEF ChainOutcome
<1>2. v \in Verdict /\ o.verdict # Silent
  BY SettledType
<1>3. v = o.verdict \/ (v.decision = "ask" /\ ~AtLeastAsStrict(o.verdict, o.floor))
  <2>1. CASE o.floor = Silent \/ AtLeastAsStrict(o.verdict, o.floor)
    BY <2>1 DEF Settled
  <2>2. CASE o.floor # Silent /\ ~AtLeastAsStrict(o.verdict, o.floor)
    <3>1. o.floor \in Verdict /\ o.floor.decision = "ask"
      BY <1>1, <2>2, FloorIsAVerdict
    <3>2. v = [o.floor EXCEPT !.floor = FALSE]
      BY <1>2, <2>2 DEF Settled
    <3>3. v.decision = "ask"
      BY <3>1, <3>2 DEF Verdict
    <3> QED
      BY <2>2, <3>3
  <2> QED
    BY <2>1, <2>2
<1>4. v.decision = "allow" => o.floor = Silent
  BY SettledAllows
<1>5. o.verdict.decision = "deny" => v = o.verdict
  <2>1. ASSUME o.verdict.decision = "deny", o.floor # Silent
        PROVE  AtLeastAsStrict(o.verdict, o.floor)
    <3>1. o.floor.decision = "ask"
      BY <1>1, <2>1, FloorIsAVerdict
    <3> QED
      BY <2>1, <3>1 DEF AtLeastAsStrict, Strictness, Decision
  <2>2. CASE o.floor = Silent
    BY <2>2 DEF Settled
  <2> QED
    BY <1>3, <2>1, <2>2
<1> HIDE DEF v
<1>6. Promise!Lawful(o, v)
  BY <1>2, <1>3, <1>4, <1>5, SameVerdicts DEF Promise!Lawful, Promise!Final
<1> QED
  BY <1>6 DEF v

\* A review raised to its floor is lawful where stage 1 decided nothing.
LEMMA RaisedIsLawful ==
  ASSUME NEW o \in ChainOutcome, o.verdict = Silent, NEW u \in Review
  PROVE  Promise!Lawful(o, RaisedTo(u, o.floor))
<1> DEFINE v == RaisedTo(u, o.floor)
           f == o.floor
<1>1. f \in Floor \cup {Silent} /\ "none" \in RuleId
  BY GateAssumption DEF ChainOutcome
<1>2. v \in Verdict /\ v.error = u.error
  BY <1>1, RaisedToType
<1>3. v.decision = "allow" => f = Silent
  BY <1>1, RaisedToAllows
<1>4. u \in Verdict /\ (u.error => u.decision = "ask") /\ u.stage = 2
  <2>1. PICK reply \in Reply(DOMAIN DECISIONS) : u = Classified(reply)
    BY DEF Review
  <2>2. Classified(reply).stage = 2
    BY ClassifiedFields
  <2> QED
    BY <1>1, <2>1, <2>2, ReviewIsAVerdict
<1>5. v = u \/ v = [u EXCEPT !.decision = f.decision, !.rule = f.rule]
  BY DEF RaisedTo
<1>6. v.stage = 2
  BY <1>4, <1>5 DEF Verdict
<1>7. u.error => v.decision = "ask"
  <2>1. u.error => v = u
    BY DEF RaisedTo
  <2> QED
    BY <1>4, <2>1
<1>8. ~Promise!Final(o.verdict)
  BY DEF Promise!Final, Silent
<1> HIDE DEF v, f
<1>9. Promise!Lawful(o, v)
  BY <1>2, <1>3, <1>6, <1>7, <1>8, SameVerdicts DEF Promise!Lawful, f
<1> QED
  BY <1>9 DEF v

\* Escalation makes a question of what was not final, so it stays lawful.
LEMMA EscalatedIsLawful ==
  ASSUME NEW o, NEW v, Promise!Lawful(o, v), Escalatable(v)
  PROVE  Promise!Lawful(o, Escalated(v))
<1>1. v \in Verdict /\ ~Promise!Final(o.verdict)
  BY SameVerdicts DEF Promise!Lawful, Promise!Final, Escalatable
<1>2. Escalated(v) \in Verdict /\ Escalated(v).decision = "ask"
  BY <1>1, EscalatedType, GateAssumption
<1> QED
  BY <1>1, <1>2, SameVerdicts DEF Promise!Lawful

\* To settle a call is to judge it.
LEMMA SettleIsJudged ==
  ASSUME TypeOK, NEW c \in Calls, NEW r \in Requests, NEW v, NEW state, NEW entries,
         call[c].phase # "done", Known(r.profile, r.model),
         r.session # NoSession => state \in SessionState(Workspaces) /\ state.workspace = WorkspaceFor(r),
         Promise!Lawful(Stage1(r, WorkspaceFor(r)), v),
         Settle(c, r, WorkspaceFor(r), v, state, entries)
  PROVE  Promise!Judge(c, r)
<1> DEFINE w         == WorkspaceFor(r)
           escalates == r.session # NoSession /\ Escalates(state, v)
           final     == IF escalates THEN Escalated(v) ELSE v
           counted   == IF escalates THEN ResetAfterEscalation(state) ELSE state
           new       == [phase |-> "done", request |-> r, workspace |-> w, verdict |-> final,
                         cached |-> FALSE, at |-> clock]
<1>1. Promise!Lawful(Stage1(r, w), final)
  <2>1. CASE escalates
    <3>1. Escalatable(v)
      BY <2>1 DEF Escalates
    <3> QED
      BY <2>1, <3>1, EscalatedIsLawful
  <2>2. CASE ~escalates
    BY <2>2
  <2> QED
    BY <2>1, <2>2
<1>2. final.decision \in Decision
  BY <1>1, SameVerdicts DEF Promise!Lawful, Verdict
<1>3. r.session # NoSession => Record(counted, final.decision).workspace = w
  <2> SUFFICES ASSUME r.session # NoSession PROVE Record(counted, final.decision).workspace = w
    OBVIOUS
  <2>1. counted \in SessionState(Workspaces) /\ counted.workspace = w
    BY ResetType
  <2> HIDE DEF counted, final
  <2> QED
    BY <1>2, <2>1, RecordType
<1>4. /\ call' = [call EXCEPT ![c] = new]
      /\ clock' = clock
      /\ r.session = NoSession => session' = session
      /\ r.session # NoSession =>
           session' = [session EXCEPT ![r.session] = Record(counted, final.decision)]
  BY DEF Settle
<1>5. /\ new.phase = "done" /\ new.request = r /\ new.workspace = w /\ new.cached = FALSE
      /\ new.at = clock /\ new.verdict = final
  OBVIOUS
<1> HIDE DEF w, final, counted, new, escalates
<1>6. Promise!Answers(c, r, w, FALSE) /\ Told'[c].verdict = final
  BY <1>4, <1>5, AnswerIsTold
<1>7. Promise!Pins(r)
  BY <1>3, <1>4, OpeningPins DEF w
<1>8. Promise!Place(r) = w
  BY PlaceIsWorkspaceFor DEF w
<1> QED
  BY <1>1, <1>6, <1>7, <1>8 DEF Promise!Judge

-----------------------------------------------------------------------------
\* Step by step.
LEMMA RefuseKeepsThePromise ==
  ASSUME IInv, NEW c \in Calls, NEW r \in Requests, Refuse(c, r)
  PROVE  Promise!Refuse(c, r)
<1>1. PICK rule \in {"api.unknown-profile", "api.unknown-model"} :
        call' = [call EXCEPT ![c] = [phase |-> "done", request |-> r, workspace |-> NoWorkspace,
                                     verdict |-> Ask(rule, 0, FALSE), cached |-> FALSE,
                                     at |-> clock]]
  BY DEF Refuse
<1> DEFINE new == [phase |-> "done", request |-> r, workspace |-> NoWorkspace,
                   verdict |-> Ask(rule, 0, FALSE), cached |-> FALSE, at |-> clock]
<1>2. /\ call[c].phase # "done" /\ ~Known(r.profile, r.model)
      /\ UNCHANGED <<session, clock>>
  BY DEF Refuse, NoCall
<1>3. /\ new.phase = "done" /\ new.request = r /\ new.workspace = NoWorkspace
      /\ new.cached = FALSE /\ new.at = clock /\ new.verdict.decision = "ask"
  BY DEF Ask
<1>4. call' = [call EXCEPT ![c] = new] /\ TypeOK
  BY <1>1 DEF IInv
<1> HIDE DEF new
<1>5. Promise!Answers(c, r, NoWorkspace, FALSE) /\ Told'[c].verdict = new.verdict
  BY <1>2, <1>3, <1>4, AnswerIsTold
<1>6. UNCHANGED Pinned
  BY <1>2 DEF Pinned
<1> QED
  BY <1>2, <1>3, <1>5, <1>6 DEF Promise!Refuse

\* An answer from the cache repeats the allow that made its entry.
LEMMA CacheKeepsThePromise ==
  ASSUME IInv, NEW c \in Calls, NEW r \in Requests, AnswerFromCache(c, r)
  PROVE  Promise!Repeat(c, r)
<1> DEFINE w == WorkspaceFor(r)
           new == [phase |-> "done", request |-> r, workspace |-> w,
                   verdict |-> Allow("cache", 0), cached |-> TRUE, at |-> clock]
<1>1. /\ UNCHANGED clock /\ call[c].phase # "done" /\ Known(r.profile, r.model)
      /\ r.session # NoSession
      /\ session' = [session EXCEPT ![r.session] = Opened(r)]
      /\ call' = [call EXCEPT ![c] = new]
  BY DEF AnswerFromCache, NoCall
<1>2. TypeOK
  BY DEF IInv
<1>3. PICK e \in allowCache : e.session = r.session /\ e.key = CacheKey(r) /\ clock < e.expires
  BY DEF AnswerFromCache, Hits
<1>4. e.id \in Calls /\ GrantOf(e, e.id) /\ e.id \in Done
  BY <1>2, <1>3 DEF IInv, TypeOK, CacheEntry, CacheIsGranted, GrantOf, Done
<1> DEFINE g == e.id
<1>5. g \in Bound
  BY <1>4 DEF IInv, AllowIsLawful, GrantOf
<1>6. /\ call[g].workspace = session[r.session].workspace
      /\ call[g].workspace # NoWorkspace
  BY <1>1, <1>3, <1>4, <1>5 DEF IInv, OneWorkspacePerSession, GrantOf, Bound
<1>7. /\ r.session \in SessionIds /\ Pinned[r.session] = session[r.session].workspace
      /\ Opened(r).workspace = w /\ w = session[r.session].workspace
  BY <1>1, <1>2, <1>6, OpenedType, PlaceIsWorkspaceFor
<1>8. /\ new.phase = "done" /\ new.request = r /\ new.workspace = w
      /\ new.cached = TRUE /\ new.at = clock /\ new.verdict.decision = "allow"
  BY DEF Allow
<1>9. UNCHANGED Pinned
  <2>1. Promise!Pins(r)
    BY <1>1, <1>2, <1>7, OpeningPins
  <2>2. Promise!Place(r) = w /\ Pinned = [s \in SessionIds |-> Pinned[s]]
    BY <1>2, PlaceIsWorkspaceFor DEF Pinned
  <2> HIDE DEF w
  <2>3. Pinned' = [Pinned EXCEPT ![r.session] = w]
    BY <1>1, <2>1, <2>2 DEF Promise!Pins
  <2> QED
    BY <1>7, <2>2, <2>3
<1>10. Told[g] = Answer(call[g]) /\ DOMAIN Told = Done
  BY <1>4 DEF Told
<1>11. Promise!Grants(g, r)
  BY <1>3, <1>4, <1>6, <1>7, <1>10 DEF Promise!Grants, GrantOf, Answer
<1> HIDE DEF new, w, g
<1>12. Promise!Answers(c, r, w, TRUE) /\ Told'[c].verdict = new.verdict
  BY <1>1, <1>2, <1>8, AnswerIsTold
<1>13. g \in DOMAIN Told
  BY <1>4, <1>10 DEF g
<1> QED
  BY <1>1, <1>7, <1>8, <1>9, <1>11, <1>12, <1>13 DEF Promise!Repeat

\* What stage 1 settles is judged.
LEMMA Stage1KeepsThePromise ==
  ASSUME IInv, NEW c \in Calls, NEW r \in Requests, SettleAtStage1(c, r)
  PROVE  Promise!Judge(c, r)
<1> DEFINE w       == WorkspaceFor(r)
           v       == Settled(Stage1(r, w))
           state   == IF r.session = NoSession THEN Unopened ELSE Opened(r)
           entries == allowCache \ Expired(r)
<1>1. TypeOK
  BY DEF IInv
<1>2. /\ call[c].phase # "done" /\ Known(r.profile, r.model) /\ v # Silent
      /\ Settle(c, r, w, v, state, entries)
  BY DEF SettleAtStage1, NoCall
<1>3. w \in Workspaces
  BY <1>1, WorkspaceForType
<1>4. Promise!Lawful(Stage1(r, w), v)
  BY <1>2, <1>3, Stage1Type, SettledIsLawful
<1>5. r.session # NoSession => state \in SessionState(Workspaces) /\ state.workspace = w
  BY <1>1, OpenedType
<1> HIDE DEF v, state, entries
<1> QED
  BY <1>1, <1>2, <1>4, <1>5, SettleIsJudged

\* What the classifier settles is judged at the pin as it is now, not as it
\* was when the wait began: they are the same.
LEMMA ClassifierKeepsThePromise ==
  ASSUME IInv, ReviewsAreBound, NEW c \in Calls, ClassifierAnswers(c)
  PROVE  \E r \in Requests : Promise!Judge(c, r)
<1> DEFINE r     == call[c].request
           w     == call[c].workspace
           f     == call[c].floor
           state == IF r.session = NoSession THEN Unopened ELSE session[r.session]
<1>1. TypeOK
  BY DEF IInv
<1>2. PICK u \in Review : Settle(c, r, w, RaisedTo(u, f), state, allowCache)
  BY DEF ClassifierAnswers
<1>3. call[c].phase = "review" /\ Known(r.profile, r.model)
  BY DEF ClassifierAnswers, ReviewsAreBound, IsBound
<1>4. r \in Requests /\ w \in Workspaces
  BY <1>1, <1>3 DEF TypeOK, NoCall, Reviewing, Answered
<1>5. Stage1(r, w).verdict = Silent /\ f = Stage1(r, w).floor
  BY <1>3 DEF IInv, ReviewsAreOpen
<1>6. Promise!Lawful(Stage1(r, w), RaisedTo(u, f))
  BY <1>4, <1>5, Stage1Type, RaisedIsLawful
<1>7. w = WorkspaceFor(r) /\ (r.session # NoSession => state \in SessionState(Workspaces) /\ state.workspace = w)
  <2>1. CASE r.session = NoSession
    BY <1>3, <2>1 DEF WorkspaceFor, ReviewsAreBound, IsBound
  <2>2. CASE r.session # NoSession
    <3>1. c \in Bound
      BY <1>3, <1>4, GateAssumption DEF Bound
    <3>2. w = session[r.session].workspace /\ w # NoWorkspace
      BY <2>2, <3>1 DEF IInv, OneWorkspacePerSession, Bound
    <3>3. r.session \in SessionIds /\ session[r.session] \in SessionState(Workspaces)
      BY <1>1, <1>4, <2>2 DEF SessionIds, TypeOK
    <3>4. w = WorkspaceFor(r)
      BY <2>2, <3>2 DEF WorkspaceFor, Opened
    <3> QED
      BY <2>2, <3>2, <3>3, <3>4
  <2> QED
    BY <2>1, <2>2
<1> DEFINE v == RaisedTo(u, f)
<1>8. Settle(c, r, w, v, state, allowCache) /\ Promise!Lawful(Stage1(r, w), v)
  BY <1>2, <1>6
<1> HIDE DEF r, w, f, state, v
<1>9. Promise!Judge(c, r)
  BY <1>1, <1>3, <1>4, <1>7, <1>8, SettleIsJudged
<1> QED
  BY <1>4, <1>9

\* To go to the classifier opens the session and answers nobody.
LEMMA ReviewKeepsThePromise ==
  ASSUME IInv, NEW c \in Calls, NEW r \in Requests, AskClassifier(c, r)
  PROVE  Promise!Open(r)
<1> DEFINE new == [phase |-> "review", request |-> r, workspace |-> WorkspaceFor(r),
                   floor |-> Stage1(r, WorkspaceFor(r)).floor]
<1>1. /\ call[c] = NoCall /\ Known(r.profile, r.model) /\ UNCHANGED clock
      /\ session' = IF r.session = NoSession THEN session
                    ELSE [session EXCEPT ![r.session] = Opened(r)]
      /\ call' = [call EXCEPT ![c] = new]
  BY DEF AskClassifier
<1>2. TypeOK
  BY DEF IInv
<1>3. new.phase = "review"
  OBVIOUS
<1> HIDE DEF new
<1>4. UNCHANGED Told
  <2>1. call'[c] = new /\ \A d \in Calls : d # c => call'[d] = call[d]
    BY <1>1, <1>2 DEF TypeOK
  <2>2. Done' = Done /\ \A d \in Done : call'[d] = call[d]
    BY <1>1, <1>3, <2>1 DEF Done, NoCall
  <2> QED
    BY <2>2 DEF Told
<1>5. r.session # NoSession => Opened(r).workspace = WorkspaceFor(r)
  BY <1>2, OpenedType
<1>6. Promise!Pins(r)
  BY <1>1, <1>2, <1>5, OpeningPins
<1> QED
  BY <1>1, <1>4, <1>6 DEF Promise!Open

\* Every step of the gate is one of the promise's steps, or none.
LEMMA NextKeepsThePromise ==
  IInv /\ ReviewsAreBound /\ [Next]_vars => [Promise!Next]_<<Pinned, Told, clock>>
<1> SUFFICES ASSUME IInv, ReviewsAreBound, [Next]_vars
             PROVE  [Promise!Next]_<<Pinned, Told, clock>>
  OBVIOUS
<1>1. ASSUME NEW c \in Calls, NEW r \in Requests, Decide(c, r) PROVE Promise!Next
  <2>1. CASE Refuse(c, r)
    BY <2>1, RefuseKeepsThePromise DEF Promise!Next
  <2>2. CASE AnswerFromCache(c, r)
    BY <2>2, CacheKeepsThePromise DEF Promise!Next
  <2>3. CASE SettleAtStage1(c, r)
    BY <2>3, Stage1KeepsThePromise DEF Promise!Next
  <2>4. CASE AskClassifier(c, r)
    BY <2>4, ReviewKeepsThePromise DEF Promise!Next
  <2> QED
    BY <1>1, <2>1, <2>2, <2>3, <2>4 DEF Decide
<1>2. ASSUME NEW c \in Calls, ClassifierAnswers(c) PROVE Promise!Next
  BY <1>2, ClassifierKeepsThePromise DEF Promise!Next
<1>3. CASE Tick
  BY <1>3 DEF Tick, Pinned, Told, Done, Promise!Next, Promise!Tick
<1>4. CASE UNCHANGED vars
  BY <1>4 DEF vars, Pinned, Told, Done
<1> QED
  BY <1>1, <1>2, <1>3, <1>4 DEF Next

\* The gate starts as the promise does: nothing pinned, nobody answered.
LEMMA InitKeepsThePromise == Init => Promise!Init
<1> SUFFICES ASSUME Init PROVE Promise!Init
  OBVIOUS
<1>1. Done = {}
  BY DEF Init, Done, NoCall
<1>2. Told = <<>>
  BY <1>1 DEF Told
<1>3. Promise!SessionIds = SessionIds
  BY DEF Promise!SessionIds, SessionIds
<1>4. Pinned = [s \in SessionIds |-> NoWorkspace]
  BY DEF Init, Pinned, Unopened, NewSession
<1> QED
  BY <1>2, <1>3, <1>4 DEF Init, Promise!Init

\* However calls interleave, and whatever the counters, the cache and the
\* classifier do, the gate's answers are those of module Decisions: each taken
\* in one piece when it is given, lawful at the pinned workspace, or the
\* repetition of an allow still fresh (engine/gate.py, decide).
THEOREM PromiseIsKept == Spec => KeepsItsPromise
<1>1. Init => IInv /\ ReviewsAreBound /\ Promise!Init
  BY InitIInv, InitBound, InitKeepsThePromise
<1>2. IInv /\ ReviewsAreBound /\ [Next]_vars => IInv' /\ ReviewsAreBound'
  BY NextIInv, NextBound
<1> QED
  BY <1>1, <1>2, NextKeepsThePromise, PTL DEF Spec, KeepsItsPromise, Promise!Spec
=============================================================================
