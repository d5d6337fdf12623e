----------------------------- MODULE Decisions -----------------------------
(***************************************************************************)
(* What the gate promises to those who call it, with nothing of how it     *)
(* keeps the promise: no counters, no cache, no floors and no waiting.     *)
(*                                                                         *)
(* Each call is answered at one moment, and for good.  The answer is one   *)
(* the rules allow at the workspace the session is pinned to at that very  *)
(* moment, or the repetition of an allow that is still fresh.  What the    *)
(* classifier says and what the session's history makes of it are left     *)
(* open, within what Lawful says.                                          *)
(***************************************************************************)
EXTENDS Verdicts

CONSTANTS Calls, Requests, NoWorkspace, NoSession,
          Known(_, _),    \* whether the profile exists and declares the model
          Detect(_),      \* the workspace of a cwd
          Stage1(_, _),   \* the chain's outcome for a request at a workspace
          Key(_),         \* what makes two requests of a session the same
          TTL             \* how long an allow may be repeated

VARIABLES pin,      \* session |-> the workspace it is pinned to, or none
          answer,   \* the calls that are answered |-> their answers
          now

SessionIds == {r.session : r \in Requests} \ {NoSession}

Init ==
  /\ pin = [s \in SessionIds |-> NoWorkspace]
  /\ answer = <<>>
  /\ now = 0

\* Where a request is judged: its session's first request decides for all.
Place(r) ==
  IF r.session = NoSession \/ pin[r.session] = NoWorkspace THEN Detect(r.cwd) ELSE pin[r.session]

Pins(r) == pin' = IF r.session = NoSession THEN pin ELSE [pin EXCEPT ![r.session] = Place(r)]

\* A denial no history of the session may turn into a question.
Final(v) == v.decision = "deny" /\ (v.hard \/ v.rule = "client.deny")

\* The verdicts stage 1's outcome o leaves open.  Only a question may differ
\* from what stage 1 decided, and not for a final denial; where it decided
\* nothing only the classifier does, without a failure; a floor rules out allow.
Lawful(o, v) ==
  /\ v \in Verdict
  /\ v.decision # "ask" => IF o.verdict = Silent THEN v.stage = 2 /\ ~v.error ELSE v = o.verdict
  /\ o.floor # Silent => v.decision # "allow"
  /\ Final(o.verdict) => v = o.verdict

\* Call c gets its answer, and no other call.
Answers(c, r, w, cached) ==
  /\ DOMAIN answer' = DOMAIN answer \cup {c}
  /\ c \notin DOMAIN answer
  /\ \A d \in DOMAIN answer : answer'[d] = answer[d]
  /\ answer'[c].request = r
  /\ answer'[c].workspace = w
  /\ answer'[c].cached = cached
  /\ answer'[c].at = now
  /\ UNCHANGED now

\* A request under an unknown profile or model is a question, and touches no
\* session.
Refuse(c, r) ==
  /\ ~Known(r.profile, r.model)
  /\ Answers(c, r, NoWorkspace, FALSE)
  /\ answer'[c].verdict.decision = "ask"
  /\ UNCHANGED pin

\* A request opens its session before it is answered.
Open(r) ==
  /\ Known(r.profile, r.model)
  /\ Pins(r)
  /\ UNCHANGED <<answer, now>>

Judge(c, r) ==
  /\ Known(r.profile, r.model)
  /\ Answers(c, r, Place(r), FALSE)
  /\ Lawful(Stage1(r, Place(r)), answer'[c].verdict)
  /\ Pins(r)

\* What was allowed at the session's workspace, by the rules and not by a
\* repetition, is allowed again.
Grants(g, r) ==
  /\ ~answer[g].cached
  /\ answer[g].verdict.decision = "allow"
  /\ answer[g].request.session = r.session
  /\ Key(answer[g].request) = Key(r)
  /\ answer[g].workspace = pin[r.session]
  /\ now < answer[g].at + TTL

Repeat(c, r) ==
  /\ Known(r.profile, r.model)
  /\ r.session # NoSession
  /\ \E g \in DOMAIN answer : Grants(g, r)
  /\ Answers(c, r, pin[r.session], TRUE)
  /\ answer'[c].verdict.decision = "allow"
  /\ UNCHANGED pin

Tick ==
  /\ now' = now + 1
  /\ UNCHANGED <<pin, answer>>

Next ==
  \/ \E c \in Calls, r \in Requests : Refuse(c, r) \/ Judge(c, r) \/ Repeat(c, r)
  \/ \E r \in Requests : Open(r)
  \/ Tick

Spec == Init /\ [][Next]_<<pin, answer, now>>
=============================================================================
