----------------------------- MODULE RuleChain -----------------------------
(***************************************************************************)
(* The loop that runs stage 1 (rules/base.py, RuleChain.run), one step per *)
(* rule, over any chain and any answers.                                   *)
(*                                                                         *)
(* A rule answers Silent, a verdict that settles the action, or a floor.   *)
(* The loop keeps the first floor and stops at the first verdict.          *)
(***************************************************************************)
EXTENDS Chains

VARIABLES action, policy,   \* the call's input
          next,             \* position of the rule to run next
          floor,            \* the first floor met, or Silent
          verdict,          \* the verdict the loop stopped at, or Silent
          done              \* whether the loop has returned

vars == <<action, policy, next, floor, verdict, done>>

Answer(i) == Evaluate(Chain[i], action, policy)

Init ==
  /\ action \in Actions
  /\ policy \in Policies
  /\ next = 1
  /\ floor = Silent
  /\ verdict = Silent
  /\ done = FALSE

\* The rule knows nothing that applies.
RuleSilent ==
  /\ ~done
  /\ next <= Len(Chain)
  /\ Answer(next) = Silent
  /\ next' = next + 1
  /\ UNCHANGED <<action, policy, floor, verdict, done>>

KeepsLastFloor(kept, given) == given

\* The floor the loop carries on with: the first one it was given.
KeptFloor(kept, given) == IF kept # Silent THEN kept ELSE given

RuleFloor ==
  /\ ~done
  /\ next <= Len(Chain)
  /\ Answer(next) # Silent
  /\ Answer(next).floor
  /\ floor' = KeptFloor(floor, Answer(next))
  /\ next' = next + 1
  /\ UNCHANGED <<action, policy, verdict, done>>

\* The rule settles the action: no rule below it runs.
RuleSettles ==
  /\ ~done
  /\ next <= Len(Chain)
  /\ Answer(next) # Silent
  /\ ~Answer(next).floor
  /\ verdict' = Answer(next)
  /\ done' = TRUE
  /\ UNCHANGED <<action, policy, next, floor>>

\* Nobody settled it: stage 2 decides, under the floor if there is one.
ChainEnds ==
  /\ ~done
  /\ next > Len(Chain)
  /\ done' = TRUE
  /\ UNCHANGED <<action, policy, next, floor, verdict>>

Next == RuleSilent \/ RuleFloor \/ RuleSettles \/ ChainEnds

Spec == Init /\ [][Next]_vars

Outcome == [verdict |-> verdict, floor |-> floor]

-----------------------------------------------------------------------------
TypeOK ==
  /\ action \in Actions
  /\ policy \in Policies
  /\ next \in 1..(Len(Chain) + 1)
  /\ floor \in Floor \cup {Silent}
  /\ verdict \in Verdict \cup {Silent}
  /\ done \in BOOLEAN

\* The loop returns the first rule that settles and the first floor above it,
\* whatever the rules answer (rules/base.py, RuleChain.run).
LoopReturnsRunOutcome == done => Outcome = RunOutcome(action, policy)

\* Stage 1 answers allow only for an action no rule of the whole chain objects
\* to: no refusal and no floor at any position, also among the rules the early
\* return never ran (rules/chain.py: a user can forbid more but cannot permit
\* what hard-deny or the profile forbids).
AllowIsUnopposed ==
  done /\ Settled(Outcome).decision = "allow" =>
    \A i \in DOMAIN Chain : Answer(i) = Silent \/ Answer(i).decision = "allow"

\* A hard denial is final wherever it stands: an action one of the rules denies
\* for good is answered with such a denial, whatever the wrapper rule, the user
\* or the operator say of its other parts (rules/hard_deny/__init__.py,
\* rules/chain.py).
HardDenyWins ==
  done /\ (\E i \in DOMAIN Chain : Answer(i).hard) =>
    verdict.decision = "deny" /\ verdict.hard
=============================================================================
