-------------------------------- MODULE Gate --------------------------------
(***************************************************************************)
(* The decision pipeline (engine/gate.py) over the in-memory session store *)
(* (session/memory.py), for calls that run concurrently.                   *)
(*                                                                         *)
(* The service is one asyncio process, and the in-memory store never       *)
(* suspends: a call runs in one piece from its start to its answer, or to  *)
(* the HTTP request of the stage 2 classifier, and in one piece from the   *)
(* classifier's reply to its answer.  Between the two any number of other  *)
(* calls of the same session may run, and time passes.                     *)
(***************************************************************************)
EXTENDS Verdicts, Sessions

CONSTANTS Calls,          \* invocations of decide; a call's name is its decision id
          Requests,       \* the requests they may carry
          Workspaces,     \* the workspaces that may be detected
          NoSession,      \* the session of a request that names none
          Known(_, _),    \* whether the profile exists and declares the model
          Detect(_),      \* detect_workspace of a cwd
          Stage1(_, _),   \* the chain's outcome for a request at a workspace
          TTL,            \* allow_cache_ttl_seconds
          MaxClock        \* bound on the clock

ASSUME GateAssumption ==
  /\ NoWorkspace \notin Workspaces
  /\ \A r \in Requests : Detect(r.cwd) \in Workspaces
  /\ \A r \in Requests, w \in Workspaces :
       Stage1(r, w) \in ChainOutcome /\ ~Stage1(r, w).verdict.error
  /\ {"api.unknown-profile", "api.unknown-model", "cache", "escalation", "none"} \subseteq RuleId
  /\ TTL \in Nat
  /\ MaxClock \in Nat

SessionIds == {r.session : r \in Requests} \ {NoSession}

\* What makes two requests the same to the allow cache: the profile, the action
\* with its cwd, the user's request and the dialogue (context), and the user's
\* rules.  Neither the model nor the session's workspace is part of it.
CacheKey(r) == [profile |-> r.profile, action |-> r.action, cwd |-> r.cwd,
                context |-> r.context, rules |-> r.rules]

CacheKeys == {CacheKey(r) : r \in Requests}

\* What stage 1 sees of a request is what the key holds.
ASSUME KeyAssumption ==
  \A q, r \in Requests : CacheKey(q) = CacheKey(r) =>
    \A w \in Workspaces : Stage1(q, w) = Stage1(r, w)

CacheEntry == [session : SessionIds, key : CacheKeys, id : Calls, expires : Nat]

VARIABLES session,      \* SessionIds -> the state the store holds
          allowCache,   \* the entries of the allow cache
          call,         \* Calls -> how far each call is, and its answer
          clock         \* the store's monotonic clock

vars == <<session, allowCache, call, clock>>

NoCall == [phase |-> "new"]

\* A call that waits for the classifier holds its request, the workspace its
\* policy was bound to and the floor stage 1 left behind.
Reviewing == [phase : {"review"}, request : Requests, workspace : Workspaces,
              floor : Floor \cup {Silent}]

\* An answered call.  Refused calls were never bound to a workspace.
Answered == [phase : {"done"}, request : Requests,
             workspace : Workspaces \cup {NoWorkspace}, verdict : Verdict,
             cached : BOOLEAN, at : Nat]

Init ==
  /\ session = [s \in SessionIds |-> Unopened]
  /\ allowCache = {}
  /\ call = [c \in Calls |-> NoCall]
  /\ clock = 0

-----------------------------------------------------------------------------
\* get_or_create: the session's first request pins its workspace.
Opened(r) ==
  IF session[r.session].workspace = NoWorkspace
  THEN NewSession(Detect(r.cwd)) ELSE session[r.session]

WorkspaceOfCwd(r) == Detect(r.cwd)

\* The workspace the request's policy is bound to.
WorkspaceFor(r) == IF r.session = NoSession THEN Detect(r.cwd) ELSE Opened(r).workspace

HitsAtExpiry(r) == {e \in allowCache : /\ e.session = r.session
                                       /\ e.key = CacheKey(r)
                                       /\ clock <= e.expires}

\* The live cache entries that answer the request.
Hits(r) == {e \in allowCache : /\ e.session = r.session
                               /\ e.key = CacheKey(r)
                               /\ clock < e.expires}

\* cache_get drops the expired entry it was asked for.
Expired(r) == {e \in allowCache : /\ e.session = r.session
                                  /\ e.key = CacheKey(r)
                                  /\ clock >= e.expires}

\* cache_put over whatever the key held.
CachePut(entries, r, id) ==
  {e \in entries : ~(e.session = r.session /\ e.key = CacheKey(r))}
  \cup {[session |-> r.session, key |-> CacheKey(r), id |-> id, expires |-> clock + TTL]}

\* The session's history, read when the verdict is there, turns it into an ask.
Escalates(state, v) ==
  /\ Escalatable(v)
  /\ v.decision # "ask"
  /\ ShouldEscalate(state)

\* The answer to a call: escalation, the session's counters and the allow cache
\* in one uninterrupted piece.
Settle(c, r, w, v, state, entries) ==
  LET escalates == r.session # NoSession /\ Escalates(state, v)
      final     == IF escalates THEN Escalated(v) ELSE v
      counted   == IF escalates THEN ResetAfterEscalation(state) ELSE state
  IN /\ call' = [call EXCEPT ![c] = [phase |-> "done", request |-> r, workspace |-> w,
                                     verdict |-> final, cached |-> FALSE, at |-> clock]]
     /\ IF r.session = NoSession
        THEN session' = session /\ allowCache' = entries
        ELSE /\ session' = [session EXCEPT ![r.session] = Record(counted, final.decision)]
             /\ allowCache' = IF final.decision = "allow"
                              THEN CachePut(entries, r, c) ELSE entries
     /\ UNCHANGED clock

-----------------------------------------------------------------------------
\* The profile or the model is unknown: the answer is ask, and no session state
\* is touched or even created.
Refuse(c, r) ==
  /\ call[c] = NoCall
  /\ ~Known(r.profile, r.model)
  /\ \E rule \in {"api.unknown-profile", "api.unknown-model"} :
       call' = [call EXCEPT ![c] = [phase |-> "done", request |-> r, workspace |-> NoWorkspace,
                                    verdict |-> Ask(rule, 0, FALSE), cached |-> FALSE,
                                    at |-> clock]]
  /\ UNCHANGED <<session, allowCache, clock>>

AnswerFromCacheAndRecord(c, r) ==
  /\ call[c] = NoCall
  /\ Known(r.profile, r.model)
  /\ r.session # NoSession
  /\ Hits(r) # {}
  /\ session' = [session EXCEPT ![r.session] = Record(Opened(r), "allow")]
  /\ call' = [call EXCEPT ![c] = [phase |-> "done", request |-> r, workspace |-> WorkspaceFor(r),
                                  verdict |-> Allow("cache", 0), cached |-> TRUE, at |-> clock]]
  /\ UNCHANGED <<allowCache, clock>>

\* An identical call of the session was allowed lately: no rule runs, and the
\* session's counters do not move.
AnswerFromCache(c, r) ==
  /\ call[c] = NoCall
  /\ Known(r.profile, r.model)
  /\ r.session # NoSession
  /\ Hits(r) # {}
  /\ session' = [session EXCEPT ![r.session] = Opened(r)]
  /\ call' = [call EXCEPT ![c] = [phase |-> "done", request |-> r, workspace |-> WorkspaceFor(r),
                                  verdict |-> Allow("cache", 0), cached |-> TRUE, at |-> clock]]
  /\ UNCHANGED <<allowCache, clock>>

\* Stage 1 answers.
SettleAtStage1(c, r) ==
  LET w == WorkspaceFor(r)
      v == Settled(Stage1(r, w))
  IN /\ call[c] = NoCall
     /\ Known(r.profile, r.model)
     /\ r.session # NoSession => Hits(r) = {}
     /\ v # Silent
     /\ Settle(c, r, w, v, IF r.session = NoSession THEN Unopened ELSE Opened(r),
               allowCache \ Expired(r))

\* Stage 1 has nothing to say: the call waits for the classifier, holding the
\* floor.  A session it opened stays open meanwhile.
AskClassifier(c, r) ==
  LET w == WorkspaceFor(r)
  IN /\ call[c] = NoCall
     /\ Known(r.profile, r.model)
     /\ r.session # NoSession => Hits(r) = {}
     /\ Settled(Stage1(r, w)) = Silent
     /\ call' = [call EXCEPT ![c] = [phase |-> "review", request |-> r, workspace |-> w,
                                     floor |-> Stage1(r, w).floor]]
     /\ session' = IF r.session = NoSession THEN session
                   ELSE [session EXCEPT ![r.session] = Opened(r)]
     /\ allowCache' = allowCache \ Expired(r)
     /\ UNCHANGED clock

ClassifierAnswersOrRaises(c) ==
  /\ call[c].phase = "review"
  /\ LET r == call[c].request
     IN \E v \in Review :
          IF v.error
          THEN call' = [call EXCEPT ![c].phase = "raised"] /\ UNCHANGED <<session, allowCache, clock>>
          ELSE Settle(c, r, call[c].workspace, RaisedTo(v, call[c].floor),
                      IF r.session = NoSession THEN Unopened ELSE session[r.session], allowCache)

\* The classifier answers, or fails and answers ask.  The counters it settles
\* on are those of now, not those the call saw when it left for the classifier.
ClassifierAnswers(c) ==
  /\ call[c].phase = "review"
  /\ LET r == call[c].request
     IN \E v \in Review :
          Settle(c, r, call[c].workspace, RaisedTo(v, call[c].floor),
                 IF r.session = NoSession THEN Unopened ELSE session[r.session], allowCache)

Tick ==
  /\ clock < MaxClock
  /\ clock' = clock + 1
  /\ UNCHANGED <<session, allowCache, call>>

Decide(c, r) ==
  \/ Refuse(c, r)
  \/ AnswerFromCache(c, r)
  \/ SettleAtStage1(c, r)
  \/ AskClassifier(c, r)

Next ==
  \/ \E c \in Calls : \E r \in Requests : Decide(c, r)
  \/ \E c \in Calls : ClassifierAnswers(c)
  \/ Tick

Spec == Init /\ [][Next]_vars

\* The classifier's request carries a timeout, and every failure of it comes
\* back as an answer: a call in review is eventually answered.
FairSpec == Spec /\ \A c \in Calls : WF_vars(ClassifierAnswers(c))

-----------------------------------------------------------------------------
\* Every variable keeps its type: the windows stay within their length, and a
\* call under way or answered holds what its answer needs (engine/gate.py).
TypeOK ==
  /\ session \in [SessionIds -> SessionState(Workspaces)]
  /\ allowCache \subseteq CacheEntry
  /\ call \in [Calls -> {NoCall} \cup Reviewing \cup Answered]
  /\ clock \in Nat

Done == {c \in Calls : call[c].phase = "done"}

\* The calls a policy was bound for: under way or answered, but not refused.
Bound == {c \in Calls : call[c].phase # "new" /\ call[c].workspace # NoWorkspace}

\* The answered calls that moved the counters of session s.
Recorded(s) == {c \in Done : /\ c \in Bound
                              /\ call[c].request.session = s
                              /\ ~call[c].cached}

\* No error path, floor, cached answer or late reply of the classifier ends in
\* an allow that stage 1 forbids at the workspace the call was judged at, nor
\* in one the user or the operator wanted to confirm (engine/gate.py: nothing
\* here produces allow on an error path, and the outcome of a floor may not end
\* up softer than ask).
AllowIsLawful ==
  \A c \in Done : call[c].verdict.decision = "allow" =>
    /\ c \in Bound
    /\ ~call[c].verdict.error
    /\ LET outcome == Stage1(call[c].request, call[c].workspace)
       IN /\ outcome.floor = Silent
          /\ outcome.verdict = Silent \/ outcome.verdict.decision = "allow"

\* Every call of a session, concurrent ones included, is judged at the workspace
\* the session's first call established: a later cwd does not widen the allowed
\* paths (engine/gate.py, _resolve).
OneWorkspacePerSession ==
  \A c \in Bound : call[c].request.session # NoSession =>
    call[c].workspace = session[call[c].request.session].workspace

\* A cached allow repeats an allow that was granted, not itself from the cache,
\* to the same session for the same key less than a TTL earlier
\* (session/cache_key.py, session/memory.py).
CachedAllowHasGrant ==
  \A c \in Done : call[c].cached =>
    \E g \in Done :
      /\ ~call[g].cached
      /\ call[g].verdict.decision = "allow"
      /\ call[g].request.session = call[c].request.session
      /\ CacheKey(call[g].request) = CacheKey(call[c].request)
      /\ call[g].at <= call[c].at
      /\ call[c].at < call[g].at + TTL

\* A hard denial and the user's own denial reach the caller as they were taken,
\* whatever the session's history (domain/verdict.py, escalatable).
FinalVerdictsStand ==
  \A c \in Done : c \in Bound /\ ~call[c].cached =>
    LET v == Settled(Stage1(call[c].request, call[c].workspace))
    IN v # Silent /\ (v.hard \/ v.rule = "client.deny") => call[c].verdict = v

\* The denials of the window after its last allow.
OpenDenials(recent) ==
  {i \in Denials(recent) : \A j \in i..Len(recent) : recent[j] # "allow"}

\* The two records a session keeps of its denials agree: the streak is what the
\* window shows, and never less once the window has dropped decisions
\* (domain/session.py, record and reset_after_escalation).
StreakMatchesWindow ==
  \A s \in SessionIds :
    LET state == session[s]
        open  == Cardinality(OpenDenials(state.recent))
    IN /\ state.denyConsecutive >= open
       /\ Len(state.recent) < RecentMax => state.denyConsecutive = open

\* A streak grows past the threshold only by denials escalation may not touch:
\* calls that were at the classifier together cannot slip more denials of their
\* own past a human than the threshold (session/escalation.py).
StreakIsBounded ==
  \A s \in SessionIds :
    session[s].denyConsecutive
      <= DenyConsecutive + Cardinality({c \in Recorded(s) : ~Escalatable(call[c].verdict)})

\* The counters count every decision of the session once: an answer from the
\* cache or a refusal moves none (engine/gate.py, _settle_session).
CountersCountAnswers ==
  \A s \in SessionIds :
    /\ session[s].decisionsTotal = Cardinality(Recorded(s))
    /\ session[s].denyTotal
         = Cardinality({c \in Recorded(s) : call[c].verdict.decision = "deny"})

\* A call that waits for the classifier is answered (classify/base.py: classify
\* never raises, and every failure comes back as an ask).
ReviewIsAnswered ==
  \A c \in Calls : call[c].phase = "review" ~> call[c].phase = "done"

-----------------------------------------------------------------------------
\* What its callers see of the gate: where each session is pinned, and what
\* each answered call was told, and when.
Pinned == [s \in SessionIds |-> session[s].workspace]

Answer(r) == [request |-> r.request, workspace |-> r.workspace, verdict |-> r.verdict,
              cached |-> r.cached, at |-> r.at]

Told == [c \in Done |-> Answer(call[c])]

Promise == INSTANCE Decisions WITH Key <- CacheKey, pin <- Pinned, answer <- Told, now <- clock

\* The gate keeps the promise of module Decisions: to its callers the counters,
\* the cache and the time at the classifier cannot be told from answers taken
\* in one piece, each from the session's workspace at that moment
\* (engine/gate.py, decide).
KeepsItsPromise == Promise!Spec
=============================================================================
