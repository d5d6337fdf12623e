------------------------------ MODULE Verdicts ------------------------------
(***************************************************************************)
(* The verdict algebra of the cascade: domain/verdict.py and the           *)
(* ChainOutcome of rules/base.py.                                          *)
(*                                                                         *)
(* A verdict keeps the fields control depends on: the decision, the stage  *)
(* that took it, the rule it names, whether it is hard (final), whether it *)
(* is a floor (a lower bound on strictness and not a decision), and        *)
(* whether it stands for a failed classifier.  Reasons, suggestions, the   *)
(* model's name and its cost are left out.                                 *)
(***************************************************************************)
EXTENDS Naturals, LLMClient

CONSTANT RuleId   \* the rule ids a verdict may name

Decision == {"allow", "ask", "deny"}

\* The total order allow < ask < deny.
Strictness == [d \in Decision |->
                 IF d = "allow" THEN 0 ELSE IF d = "ask" THEN 1 ELSE 2]

Verdict == [decision : Decision, stage : 0..2, rule : RuleId,
            hard : BOOLEAN, floor : BOOLEAN, error : BOOLEAN]

\* A rule that has nothing to say, a chain that decided nothing, no floor.
Silent == [decision |-> "none", stage |-> 0, rule |-> "none",
           hard |-> FALSE, floor |-> FALSE, error |-> FALSE]

Allow(rule, stage) ==
  [decision |-> "allow", stage |-> stage, rule |-> rule,
   hard |-> FALSE, floor |-> FALSE, error |-> FALSE]

Ask(rule, stage, floor) ==
  [decision |-> "ask", stage |-> stage, rule |-> rule,
   hard |-> FALSE, floor |-> floor, error |-> FALSE]

Deny(rule, stage, hard) ==
  [decision |-> "deny", stage |-> stage, rule |-> rule,
   hard |-> hard, floor |-> FALSE, error |-> FALSE]

\* Only ask is ever produced as a floor, and a floor is neither hard nor the
\* mark of a failure.
Floor == {v \in Verdict : /\ v.floor
                          /\ v.decision = "ask"
                          /\ ~v.hard
                          /\ ~v.error}

DECISIONS == [A |-> "allow", D |-> "deny", U |-> "ask"]

\* What stage 2 makes of a reply: the model's letter, and an ask marked as a
\* failure for everything else.  It names no rule, and is neither hard nor a floor.
Classified(reply) ==
  LET failed == Failure(reply) # "none"
  IN [decision |-> IF failed THEN "ask" ELSE DECISIONS[reply.data], stage |-> 2, rule |-> "none",
      hard |-> FALSE, floor |-> FALSE, error |-> failed]

Review == {Classified(reply) : reply \in Reply(DOMAIN DECISIONS)}

AtLeastAsStrict(v, w) == Strictness[v.decision] >= Strictness[w.decision]

OnlyHardIsFinal(v) == ~v.hard

\* Escalation may not touch a hard verdict nor the user's own denial.
Escalatable(v) == ~v.hard /\ v.rule # "client.deny"

LoweredTo(v, floor) ==
  IF \/ floor = Silent
     \/ v.error
     \/ Strictness[v.decision] < Strictness[floor.decision]
  THEN v
  ELSE [v EXCEPT !.decision = floor.decision, !.rule = floor.rule]

\* The floor applied to a verdict that already exists: a tie is relabelled
\* to the floor's rule, a stricter verdict and a failed one are left alone.
RaisedTo(v, floor) ==
  IF \/ floor = Silent
     \/ v.error
     \/ Strictness[v.decision] > Strictness[floor.decision]
  THEN v
  ELSE [v EXCEPT !.decision = floor.decision, !.rule = floor.rule]

Escalated(v) == [v EXCEPT !.decision = "ask", !.rule = "escalation"]

\* One pass of the chain: at most one decision and at most one floor.
ChainOutcome == [verdict : Verdict \cup {Silent}, floor : Floor \cup {Silent}]

SettledIgnoringFloor(outcome) == outcome.verdict

\* What stage 1 answers once its own floor is taken into account, or Silent.
\* A tie keeps the rule that answered; an allow under a floor becomes the
\* floor itself.
Settled(outcome) ==
  IF \/ outcome.verdict = Silent
     \/ outcome.floor = Silent
     \/ AtLeastAsStrict(outcome.verdict, outcome.floor)
  THEN outcome.verdict
  ELSE [outcome.floor EXCEPT !.floor = FALSE]
=============================================================================
