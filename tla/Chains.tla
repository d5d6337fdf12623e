------------------------------- MODULE Chains -------------------------------
(***************************************************************************)
(* A chain of stage 1 rules: what it may be given, the order it must have, *)
(* and what a run of it returns, stated without the loop.                  *)
(* RuleChain.tla is the loop, Stage1.tla the service's own chain.          *)
(***************************************************************************)
EXTENDS Verdicts, Sequences

CONSTANTS Chain,              \* the rules, in the order they run
          Actions,            \* the normalized actions they may be given
          Policies,           \* the policies bound for them
          Evaluate(_, _, _)   \* what a rule answers about an action

\* A rule answers nothing, a verdict, or a floor that is an ask.
ASSUME ChainAssumption ==
  /\ Chain \in Seq(RuleId)
  /\ \A i \in DOMAIN Chain, a \in Actions, p \in Policies :
       LET v == Evaluate(Chain[i], a, p)
       IN v = Silent \/ (v \in Verdict /\ (v.floor => v \in Floor))

Kind(v) ==
  IF v = Silent THEN "silent"
  ELSE IF v.floor THEN "floor"
  ELSE IF v.decision = "allow" THEN "allow"
  ELSE "refusal"

\* The kinds of answer a rule may give.
MayAnswer(rule) == {Kind(Evaluate(rule, a, p)) : a \in Actions, p \in Policies}

\* The order of the chain is its whole priority policy: no refusal stands below
\* a floor or an allow, and no floor below an allow.
ASSUME OrderAssumption ==
  LET answers == [i \in DOMAIN Chain |-> MayAnswer(Chain[i])]
  IN \A i, j \in DOMAIN Chain : i < j =>
       /\ "floor" \in answers[i] => "refusal" \notin answers[j]
       /\ "allow" \in answers[i] => answers[j] \cap {"floor", "refusal"} = {}

-----------------------------------------------------------------------------
(***************************************************************************)
(* What a run of the chain returns, without the loop: the first rule that  *)
(* settles, and the first floor above it.                                  *)
(***************************************************************************)

First(S) == CHOOSE i \in S : \A j \in S : i <= j

Settling(a, p) == {i \in DOMAIN Chain : /\ Evaluate(Chain[i], a, p) # Silent
                                        /\ ~Evaluate(Chain[i], a, p).floor}

Floors(a, p) == {i \in DOMAIN Chain : /\ Evaluate(Chain[i], a, p) # Silent
                                      /\ Evaluate(Chain[i], a, p).floor}

FirstAnswer(S, a, p) == IF S = {} THEN Silent ELSE Evaluate(Chain[First(S)], a, p)

RunOutcome(a, p) ==
  [verdict |-> FirstAnswer(Settling(a, p), a, p),
   floor   |-> FirstAnswer({i \in Floors(a, p) : \A j \in Settling(a, p) : i < j}, a, p)]
=============================================================================
