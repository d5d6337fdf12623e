-------------------------- MODULE RuleChainProofs --------------------------
(***************************************************************************)
(* The loop of RuleChain.tla, for every chain, every rule and every input: *)
(* it returns RunOutcome, and in a chain ordered as OrderAssumption says   *)
(* an allow is opposed by nobody and a floor never meets a denial.  And    *)
(* what its rules look past (Wrappers.tla): for every argv, only what      *)
(* wrappers take for themselves, and never an escalator.                   *)
(***************************************************************************)
EXTENDS RuleChain, Stage1, Wrappers, TLAPS

\* The lemmas on numbers of that module need none of its constants.
LOCAL Numbers == INSTANCE TtlStoreProofs WITH SweepEvery <- 1, MaxEntries <- 1

\* The floors below a position, among the rules already run.
FloorsBelow(n) == {i \in Floors(action, policy) : i < n}

\* The floor the loop carries is the first one it was given, if any.
FirstFloorKept ==
  \/ floor = Silent /\ FloorsBelow(next) = {}
  \/ \E i \in FloorsBelow(next) : /\ \A j \in FloorsBelow(next) : i <= j
                                 /\ floor = Answer(i)

\* What the loop knows between two rules: nobody above settled the action, and
\* the floor is the first one given; once it returned, the rule it stopped at
\* settled, or the chain was exhausted.
LoopInv ==
  /\ TypeOK
  /\ \A i \in Settling(action, policy) : i >= next
  /\ FirstFloorKept
  /\ ~done => verdict = Silent
  /\ done => \/ next = Len(Chain) + 1 /\ verdict = Silent
             \/ next \in Settling(action, policy) /\ verdict = Answer(next)

-----------------------------------------------------------------------------
\* A nonempty set of positions has a least element, and First is it.
LEMMA FirstIs ==
  ASSUME NEW S \in SUBSET Nat, NEW i \in S, \A j \in S : i <= j
  PROVE  First(S) = i
<1>1. \A k \in S : (\A j \in S : k <= j) => k = i
  OBVIOUS
<1> QED
  BY <1>1 DEF First

LEMMA AnswerType ==
  ASSUME NEW i \in DOMAIN Chain, NEW a \in Actions, NEW p \in Policies
  PROVE  LET v == Evaluate(Chain[i], a, p)
         IN v = Silent \/ (v \in Verdict /\ (v.floor => v \in Floor))
  BY ChainAssumption

LEMMA SilentIsNoVerdict == Silent \notin Verdict
  BY DEF Silent, Verdict, Decision

\* Two positions of the chain against the order it must have.
LEMMA ChainOrder ==
  ASSUME NEW i \in DOMAIN Chain, NEW j \in DOMAIN Chain, i < j,
         NEW a \in Actions, NEW p \in Policies
  PROVE  LET u == Kind(Evaluate(Chain[i], a, p))
             v == Kind(Evaluate(Chain[j], a, p))
         IN /\ u = "floor" => v # "refusal"
            /\ u = "allow" => v \notin {"floor", "refusal"}
<1> DEFINE answers == [k \in DOMAIN Chain |-> MayAnswer(Chain[k])]
<1>1. /\ Kind(Evaluate(Chain[i], a, p)) \in answers[i]
      /\ Kind(Evaluate(Chain[j], a, p)) \in answers[j]
  BY DEF MayAnswer
<1>2. /\ "floor" \in answers[i] => "refusal" \notin answers[j]
      /\ "allow" \in answers[i] => answers[j] \cap {"floor", "refusal"} = {}
  BY OrderAssumption
<1> HIDE DEF answers
<1> QED
  BY <1>1, <1>2

-----------------------------------------------------------------------------
LEMMA InitLoopInv == Init => LoopInv
<1> SUFFICES ASSUME Init PROVE LoopInv
  OBVIOUS
<1>1. Len(Chain) \in Nat /\ DOMAIN Chain = 1..Len(Chain)
  BY ChainAssumption
<1>2. FloorsBelow(next) = {}
  BY <1>1 DEF Init, FloorsBelow, Floors
<1>3. TypeOK
  <2>1. next \in 1..(Len(Chain) + 1)
    BY <1>1 DEF Init
  <2> QED
    BY <2>1 DEF Init, TypeOK
<1>4. \A i \in Settling(action, policy) : i >= next
  BY <1>1 DEF Init, Settling
<1>5. FirstFloorKept
  BY <1>2 DEF Init, FirstFloorKept
<1> QED
  BY <1>3, <1>4, <1>5 DEF Init, LoopInv

LEMMA NextLoopInv == LoopInv /\ [Next]_vars => LoopInv'
<1> SUFFICES ASSUME LoopInv, [Next]_vars PROVE LoopInv'
  OBVIOUS
<1>1. Len(Chain) \in Nat /\ DOMAIN Chain = 1..Len(Chain)
  BY ChainAssumption
<1>2. next \in Nat
  BY <1>1 DEF LoopInv, TypeOK
<1>3. CASE RuleSilent
  <2>1. next \in DOMAIN Chain /\ next \notin Settling(action, policy)
        /\ next \notin Floors(action, policy)
    BY <1>1, <1>2, <1>3 DEF RuleSilent, Settling, Floors, Answer, LoopInv, TypeOK
  <2>2. TypeOK'
    BY <1>1, <1>3 DEF RuleSilent, LoopInv, TypeOK
  <2>3. (\A i \in Settling(action, policy) : i >= next)'
    BY <1>1, <1>2, <1>3, <2>1 DEF RuleSilent, LoopInv, Settling
  <2>4. (FloorsBelow(next) = FloorsBelow(next)')
    BY <1>1, <1>2, <1>3, <2>1 DEF RuleSilent, FloorsBelow, Floors
  <2>5. (FirstFloorKept)'
    BY <1>3, <2>4 DEF RuleSilent, LoopInv, FirstFloorKept, Answer
  <2> QED
    BY <1>3, <2>2, <2>3, <2>5 DEF RuleSilent, LoopInv
<1>4. CASE RuleFloor
  <2>1. next \in DOMAIN Chain /\ next \in Floors(action, policy)
        /\ next \notin Settling(action, policy)
    BY <1>1, <1>2, <1>4 DEF RuleFloor, Floors, Settling, Answer, LoopInv, TypeOK
  <2>2. Answer(next) \in Floor
    BY <1>4, <2>1, AnswerType DEF RuleFloor, Answer, LoopInv, TypeOK
  <2>3. TypeOK'
    BY <1>1, <1>4, <2>2 DEF RuleFloor, KeptFloor, LoopInv, TypeOK
  <2>4. (\A i \in Settling(action, policy) : i >= next)'
    BY <1>1, <1>2, <1>4, <2>1 DEF RuleFloor, LoopInv, Settling
  <2>5. FloorsBelow(next)' = FloorsBelow(next) \cup {next}
    BY <1>1, <1>2, <1>4, <2>1 DEF RuleFloor, FloorsBelow, Floors
  <2>6. FirstFloorKept'
    <3>1. CASE floor = Silent /\ FloorsBelow(next) = {}
      BY <1>2, <1>4, <2>5, <3>1 DEF RuleFloor, KeptFloor, FirstFloorKept, Answer
    <3>2. CASE FloorsBelow(next) # {}
      <4>1. PICK i \in FloorsBelow(next) : /\ \A j \in FloorsBelow(next) : i <= j
                                           /\ floor = Answer(i)
        BY <3>2 DEF LoopInv, FirstFloorKept
      <4>2. i \in Nat /\ i < next /\ floor # Silent
        BY <1>1, <4>1 DEF FloorsBelow, Floors, Answer
      <4>3. floor' = Answer(i)'
        BY <1>4, <4>1, <4>2 DEF RuleFloor, KeptFloor, Answer
      <4>4. i \in FloorsBelow(next)'
        BY <2>5
      <4>5. \A j \in FloorsBelow(next) \cup {next} : i <= j
        BY <1>2, <4>1, <4>2
      <4> QED
        BY <2>5, <4>3, <4>4, <4>5 DEF FirstFloorKept
    <3> QED
      BY <3>1, <3>2 DEF LoopInv, FirstFloorKept
  <2> QED
    BY <1>4, <2>3, <2>4, <2>6 DEF RuleFloor, LoopInv
<1>5. CASE RuleSettles
  <2>1. next \in DOMAIN Chain /\ next \in Settling(action, policy)
    BY <1>1, <1>2, <1>5 DEF RuleSettles, Settling, Answer, LoopInv, TypeOK
  <2>2. Answer(next) \in Verdict
    BY <1>5, <2>1, AnswerType DEF RuleSettles, Answer, LoopInv, TypeOK
  <2>3. TypeOK'
    BY <1>5, <2>2 DEF RuleSettles, LoopInv, TypeOK
  <2>4. FirstFloorKept'
    BY <1>5 DEF RuleSettles, LoopInv, FirstFloorKept, FloorsBelow, Answer
  <2> QED
    BY <1>5, <2>1, <2>3, <2>4 DEF RuleSettles, LoopInv, Answer
<1>6. CASE ChainEnds
  <2>1. next = Len(Chain) + 1
    BY <1>1, <1>6 DEF ChainEnds, LoopInv, TypeOK
  <2>2. FirstFloorKept'
    BY <1>6 DEF ChainEnds, LoopInv, FirstFloorKept, FloorsBelow, Answer
  <2> QED
    BY <1>6, <2>1, <2>2 DEF ChainEnds, LoopInv, TypeOK
<1>7. CASE UNCHANGED vars
  BY <1>7 DEF vars, LoopInv, TypeOK, FirstFloorKept, FloorsBelow, Answer
<1> QED
  BY <1>3, <1>4, <1>5, <1>6, <1>7 DEF Next

LEMMA SpecLoopInv == Spec => []LoopInv
  BY InitLoopInv, NextLoopInv, PTL DEF Spec

\* The types of the loop's state (rules/base.py, RuleChain.run).
THEOREM TypeCorrect == Spec => []TypeOK
<1>1. LoopInv => TypeOK
  BY DEF LoopInv
<1> QED
  BY <1>1, SpecLoopInv, PTL

-----------------------------------------------------------------------------
LEMMA FloorIsFirstAnswer ==
  ASSUME LoopInv
  PROVE  floor = FirstAnswer(FloorsBelow(next), action, policy)
<1>1. Len(Chain) \in Nat /\ DOMAIN Chain = 1..Len(Chain)
  BY ChainAssumption
<1>2. FloorsBelow(next) \in SUBSET Nat
  BY <1>1 DEF FloorsBelow, Floors
<1>3. CASE floor = Silent /\ FloorsBelow(next) = {}
  BY <1>3 DEF FirstAnswer
<1>4. ASSUME NEW i \in FloorsBelow(next), \A j \in FloorsBelow(next) : i <= j,
             floor = Answer(i)
      PROVE  floor = FirstAnswer(FloorsBelow(next), action, policy)
  <2>1. First(FloorsBelow(next)) = i
    BY <1>2, <1>4, FirstIs
  <2> QED
    BY <1>4, <2>1 DEF FirstAnswer, Answer
<1> QED
  BY <1>3, <1>4 DEF LoopInv, FirstFloorKept

\* What the loop returns, for a rule that settled and for an exhausted chain.
LEMMA ReturnedVerdict ==
  ASSUME LoopInv, done
  PROVE  /\ verdict = FirstAnswer(Settling(action, policy), action, policy)
         /\ floor = FirstAnswer({i \in Floors(action, policy) :
                                   \A j \in Settling(action, policy) : i < j},
                                action, policy)
<1>1. Len(Chain) \in Nat /\ DOMAIN Chain = 1..Len(Chain)
  BY ChainAssumption
<1>2. CASE next = Len(Chain) + 1 /\ verdict = Silent
  <2>1. Settling(action, policy) = {}
    BY <1>1, <1>2 DEF LoopInv, Settling
  <2>2. FloorsBelow(next) = {i \in Floors(action, policy) :
                               \A j \in Settling(action, policy) : i < j}
    BY <1>1, <1>2, <2>1 DEF FloorsBelow, Floors
  <2> QED
    BY <1>2, <2>1, <2>2, FloorIsFirstAnswer DEF FirstAnswer
<1>3. CASE next \in Settling(action, policy) /\ verdict = Answer(next)
  <2>1. Settling(action, policy) \in SUBSET Nat
    BY <1>1 DEF Settling
  <2>2. \A j \in Settling(action, policy) : next <= j
    BY <1>1, <2>1 DEF LoopInv, TypeOK
  <2>3. First(Settling(action, policy)) = next
    BY <1>3, <2>1, <2>2, FirstIs
  <2>4. FloorsBelow(next) = {i \in Floors(action, policy) :
                               \A j \in Settling(action, policy) : i < j}
    BY <1>1, <1>3, <2>1, <2>2 DEF FloorsBelow, Floors
  <2> QED
    BY <1>3, <2>3, <2>4, FloorIsFirstAnswer DEF FirstAnswer, Answer
<1> QED
  BY <1>2, <1>3 DEF LoopInv

\* The loop returns the first settling rule and the first floor above it, for
\* any chain of rules (rules/base.py, RuleChain.run).
THEOREM LoopIsRunOutcome == Spec => []LoopReturnsRunOutcome
<1>1. LoopInv => LoopReturnsRunOutcome
  BY ReturnedVerdict DEF LoopReturnsRunOutcome, Outcome, RunOutcome
<1> QED
  BY <1>1, SpecLoopInv, PTL

\* In a chain that keeps refusals above floors and floors above allows, stage 1
\* answers allow only for an action nobody objects to (rules/chain.py).
THEOREM AllowsAreUnopposed == Spec => []AllowIsUnopposed
<1>1. LoopInv => AllowIsUnopposed
  <2> SUFFICES ASSUME LoopInv, done, Settled(Outcome).decision = "allow",
                      NEW i \in DOMAIN Chain
               PROVE  Answer(i) = Silent \/ Answer(i).decision = "allow"
    BY DEF AllowIsUnopposed
  <2>1. Len(Chain) \in Nat /\ DOMAIN Chain = 1..Len(Chain)
    BY ChainAssumption
  <2>2. floor \in Floor \cup {Silent} /\ action \in Actions /\ policy \in Policies
    BY DEF LoopInv, TypeOK
  <2>3. verdict # Silent
    BY DEF Settled, Outcome, Silent
  <2>4. next \in Settling(action, policy) /\ verdict = Answer(next) /\ next \in DOMAIN Chain
    BY <2>3 DEF LoopInv, Settling
  <2>5. verdict \in Verdict
    BY <2>3 DEF LoopInv, TypeOK
  <2>6. verdict.decision = "allow" /\ floor = Silent
    <3>1. CASE floor = Silent
      BY <3>1 DEF Settled, Outcome
    <3>2. CASE floor \in Floor
      <4>1. floor.decision = "ask" /\ floor # Silent
        BY <3>2, SilentIsNoVerdict DEF Floor
      <4>2. verdict.decision \in Decision
        BY <2>5 DEF Verdict
      <4>3. CASE AtLeastAsStrict(verdict, floor)
        <5>1. Settled(Outcome) = verdict
          BY <4>3 DEF Settled, Outcome
        <5>2. verdict.decision = "allow"
          BY <5>1
        <5> QED
          BY <4>1, <4>3, <5>2 DEF AtLeastAsStrict, Strictness, Decision
      <4>4. CASE ~AtLeastAsStrict(verdict, floor)
        <5>1. Settled(Outcome) = [floor EXCEPT !.floor = FALSE]
          BY <2>3, <4>1, <4>4 DEF Settled, Outcome
        <5>2. [floor EXCEPT !.floor = FALSE].decision = "ask"
          BY <3>2, <4>1 DEF Floor, Verdict
        <5> QED
          BY <5>1, <5>2
      <4> QED
        BY <4>3, <4>4
    <3> QED
      BY <2>2, <3>1, <3>2
  <2>7. i \in Nat /\ next \in Nat
    BY <2>1, <2>4
  <2>8. Kind(Answer(next)) = "allow"
    BY <2>3, <2>4, <2>6 DEF Kind, Settling, Answer
  <2>9. CASE i = next
    BY <2>4, <2>6, <2>9
  <2>10. CASE i > next
    <3>1. Kind(Answer(i)) \notin {"floor", "refusal"}
      BY <2>2, <2>4, <2>7, <2>8, <2>10, ChainOrder DEF Answer
    <3> QED
      BY <3>1 DEF Kind
  <2>11. CASE i < next
    <3>1. i \notin Settling(action, policy)
      BY <2>7, <2>11 DEF LoopInv
    <3>2. i \notin Floors(action, policy)
      <4> SUFFICES ASSUME i \in Floors(action, policy) PROVE FALSE
        OBVIOUS
      <4>1. Kind(Answer(i)) = "floor"
        BY DEF Floors, Kind, Answer
      <4>2. i \in FloorsBelow(next)
        BY <2>11 DEF FloorsBelow
      <4>3. PICK k \in FloorsBelow(next) : floor = Answer(k)
        BY <4>2 DEF LoopInv, FirstFloorKept
      <4> QED
        BY <2>6, <4>3 DEF FloorsBelow, Floors, Answer
    <3> QED
      BY <3>1, <3>2 DEF Settling, Floors, Answer
  <2> QED
    BY <2>7, <2>9, <2>10, <2>11
<1> QED
  BY <1>1, SpecLoopInv, PTL

-----------------------------------------------------------------------------
(***************************************************************************)
(* The service's own chain.                                                *)
(***************************************************************************)

\* Nobody who answers above a rule that denies for good answers less than that.
LEMMA HardestFirst ==
  ASSUME LoopInv,
         \A i, j \in DOMAIN Chain : \A a \in Actions, p \in Policies :
           j <= i /\ Evaluate(Chain[i], a, p).hard =>
             LET v == Evaluate(Chain[j], a, p)
             IN v = Silent \/ (v.decision = "deny" /\ v.hard)
  PROVE  HardDenyWins
<1> SUFFICES ASSUME done, NEW i \in DOMAIN Chain, Answer(i).hard
             PROVE  verdict.decision = "deny" /\ verdict.hard
  BY DEF HardDenyWins
<1>1. Len(Chain) \in Nat /\ DOMAIN Chain = 1..Len(Chain)
  BY ChainAssumption
<1>2. action \in Actions /\ policy \in Policies
  BY DEF LoopInv, TypeOK
<1>3. Answer(i) # Silent /\ Answer(i) \in Verdict /\ (Answer(i).floor => Answer(i) \in Floor)
  BY <1>2, AnswerType DEF Answer, Silent
<1>4. ~Answer(i).floor
  BY <1>3 DEF Floor
<1>5. i \in Settling(action, policy)
  BY <1>3, <1>4 DEF Settling, Answer
<1>6. next \in Settling(action, policy) /\ verdict = Answer(next) /\ next <= i
  BY <1>1, <1>5 DEF LoopInv, TypeOK
<1>7. next \in DOMAIN Chain /\ Answer(next) # Silent
  BY <1>6 DEF Settling, Answer
<1> QED
  BY <1>2, <1>6, <1>7 DEF Answer

HardRules == {"hard-deny.exfil", "hard-deny.pipe-exec", "hard-deny.destructive",
              "hard-deny.protected-write", "hard-deny.privilege"}

OtherRules == {"ambiguous.wrapper", "client.deny", "profile.path", "profile.domain",
               "profile.mcp-refuse", "client.ask", "client.allow", "profile.mcp-allow",
               "allowlist", "allowlist.mcp-readonly", "profile.domain-trusted", "packages"}

LEMMA Concatenated ==
  ASSUME NEW T, NEW s \in Seq(T), NEW t \in Seq(T), NEW m \in Nat, NEW total \in Nat,
         m = Len(s), total = m + Len(t), NEW q, q = s \o t
  PROVE  /\ q \in Seq(T) /\ Len(q) = total /\ DOMAIN q = 1..total
         /\ \A k \in 1..total : q[k] = IF k <= m THEN s[k] ELSE t[k - m]
  OBVIOUS

\* The rules in the order they run (rules/chain.py).
LEMMA ServiceOrder ==
  ASSUME NEW i \in DOMAIN STAGE1
  PROVE  \/ i = 1 /\ STAGE1[i] = "unparseable"
         \/ i \in 2..6 /\ STAGE1[i] \in HardRules
         \/ i = 7 /\ STAGE1[i] = "hard-deny.git-force"
         \/ i \in 8..19 /\ STAGE1[i] \in OtherRules
<1> DEFINE top == <<"unparseable">>
           low == <<"ambiguous.wrapper", "client.deny", "profile.path", "profile.domain",
                    "profile.mcp-refuse", "client.ask", "client.allow", "profile.mcp-allow",
                    "allowlist", "allowlist.mcp-readonly", "profile.domain-trusted", "packages">>
           T == HardRules \cup OtherRules \cup {"unparseable", "hard-deny.git-force"}
<1>1. HARD_DENY_RULES \in Seq(T) /\ Len(HARD_DENY_RULES) = 6
  BY DEF HARD_DENY_RULES, HardRules
<1>2. /\ \A k \in 1..5 : HARD_DENY_RULES[k] \in HardRules
      /\ HARD_DENY_RULES[6] = "hard-deny.git-force"
  BY DEF HARD_DENY_RULES, HardRules
<1>3. low \in Seq(T) /\ Len(low) = 12 
  BY DEF OtherRules
<1>4. \A k \in 1..12 : low[k] \in OtherRules
  BY DEF OtherRules
<1>5. top \in Seq(T) /\ Len(top) = 1 /\ top[1] = "unparseable"
  OBVIOUS
<1>6. STAGE1 = top \o HARD_DENY_RULES \o low
  BY DEF STAGE1
<1> HIDE DEF top, low, T
<1> DEFINE upper == top \o HARD_DENY_RULES
<1> HIDE DEF upper
<1>7. /\ upper \in Seq(T) /\ Len(upper) = 7
      /\ \A k \in 1..7 : upper[k] = IF k <= 1 THEN top[k] ELSE HARD_DENY_RULES[k - 1]
  <2> DEFINE m == 1
             total == 7
  <2>1. m \in Nat /\ total \in Nat /\ m = Len(top) /\ total = m + Len(HARD_DENY_RULES)
    BY <1>1, <1>5
  <2>2. upper = top \o HARD_DENY_RULES /\ top \in Seq(T) /\ HARD_DENY_RULES \in Seq(T)
    BY <1>1, <1>5 DEF upper
  <2> HIDE DEF m, total
  <2>3. /\ upper \in Seq(T) /\ Len(upper) = total /\ DOMAIN upper = 1..total
        /\ \A k \in 1..total : upper[k] = IF k <= m THEN top[k] ELSE HARD_DENY_RULES[k - m]
    BY <2>1, <2>2, Concatenated
  <2> QED
    BY <2>3 DEF m, total
<1>8. /\ DOMAIN STAGE1 = 1..19
      /\ \A k \in 1..19 : STAGE1[k] = IF k <= 7 THEN upper[k] ELSE low[k - 7]
  <2> DEFINE m == 7
             total == 19
  <2>1. m \in Nat /\ total \in Nat /\ m = Len(upper) /\ total = m + Len(low)
    BY <1>3, <1>6, <1>7
  <2>2. STAGE1 = upper \o low /\ upper \in Seq(T) /\ low \in Seq(T)
    BY <1>3, <1>6, <1>7 DEF upper
  <2> HIDE DEF m, total
  <2>3. /\ STAGE1 \in Seq(T) /\ Len(STAGE1) = total /\ DOMAIN STAGE1 = 1..total
        /\ \A k \in 1..total : STAGE1[k] = IF k <= m THEN upper[k] ELSE low[k - m]
    BY <2>1, <2>2, Concatenated
  <2> QED
    BY <2>3 DEF m, total
<1>9. CASE i = 1
  BY <1>5, <1>7, <1>8, <1>9
<1>10. CASE i \in 2..6
  <2>1. i - 1 \in 1..5 /\ i \in 1..7 /\ i \in 1..19 /\ ~(i <= 1) /\ i <= 7
    BY <1>10
  <2>2. STAGE1[i] = HARD_DENY_RULES[i - 1]
    BY <1>7, <1>8, <2>1
  <2> QED
    BY <1>2, <1>10, <2>1, <2>2
<1>11. CASE i = 7
  <2>1. STAGE1[7] = upper[7] /\ upper[7] = HARD_DENY_RULES[6]
    BY <1>7, <1>8
  <2> QED
    BY <1>2, <1>11, <2>1
<1>12. CASE i \in 8..19
  <2>1. i - 7 \in 1..12 /\ i \in 1..19 /\ ~(i <= 7)
    BY <1>12
  <2>2. STAGE1[i] = low[i - 7]
    BY <1>8, <2>1
  <2> QED
    BY <1>4, <1>12, <2>1, <2>2
<1>13. i \in 1..19
  BY <1>8
<1> QED
  BY <1>9, <1>10, <1>11, <1>12, <1>13

\* What is denied for good, and what the rules of a shape answer.
LEMMA HardRulesDeny ==
  ASSUME NEW rule \in HardRules, NEW a, NEW p
  PROVE  LET v == EvaluateRule(rule, a, p)
         IN /\ v = Silent \/ (v.decision = "deny" /\ v.hard)
            /\ v.hard => a.parts # <<>>
<1>1. \A name, shape : LET v == DeniesShape(a, name, shape)
                       IN /\ v = Silent \/ (v.decision = "deny" /\ v.hard)
                          /\ v.hard => a.parts # <<>>
  BY DEF DeniesShape, Some, Parts, Range, Deny, Silent
<1>2. CASE rule = "hard-deny.exfil"
  BY <1>1, <1>2 DEF EvaluateRule, ExfilRule
<1>3. CASE rule = "hard-deny.pipe-exec"
  BY <1>1, <1>3 DEF EvaluateRule, PipeExecRule
<1>4. CASE rule = "hard-deny.destructive"
  BY <1>1, <1>4 DEF EvaluateRule, DestructiveRule
<1>5. CASE rule = "hard-deny.protected-write"
  BY <1>1, <1>5 DEF EvaluateRule, ProtectedWriteRule
<1>6. CASE rule = "hard-deny.privilege"
  BY <1>1, <1>6 DEF EvaluateRule, PrivilegeRule
<1> QED
  BY <1>2, <1>3, <1>4, <1>5, <1>6 DEF HardRules

LEMMA GitForceDenies ==
  ASSUME NEW a, NEW p, NEW v, v = EvaluateRule("hard-deny.git-force", a, p), v.hard
  PROVE  v.decision = "deny" /\ a.parts # <<>>
<1>1. v = GitForceRule(a)
  BY DEF EvaluateRule
<1> QED
  BY <1>1 DEF GitForceRule, Some, Parts, Range, Deny, Ask, Silent

LEMMA OtherRulesDoNot ==
  ASSUME NEW rule \in OtherRules \cup {"unparseable"}, NEW a, NEW p
  PROVE  /\ ~EvaluateRule(rule, a, p).hard
         /\ rule = "unparseable" /\ a.parsed => EvaluateRule(rule, a, p) = Silent
<1> USE DEF EvaluateRule, Allow, Ask, Deny, Silent
<1>1. CASE rule = "unparseable"
  BY <1>1 DEF UnparseableRule
<1>2. CASE rule = "ambiguous.wrapper"
  BY <1>2 DEF WrapperUnresolvedRule
<1>3. CASE rule = "client.deny"
  BY <1>3 DEF ClientDenyRule
<1>4. CASE rule = "profile.path"
  BY <1>4 DEF ProfilePathRule
<1>5. CASE rule = "profile.domain"
  BY <1>5 DEF ProfileDomainRule
<1>6. CASE rule = "profile.mcp-refuse"
  BY <1>6 DEF ProfileMcpRefuseRule
<1>7. CASE rule = "client.ask"
  BY <1>7 DEF ClientAskRule
<1>8. CASE rule = "client.allow"
  BY <1>8 DEF ClientAllowRule
<1>9. CASE rule = "profile.mcp-allow"
  BY <1>9 DEF ProfileMcpAllowRule
<1>10. CASE rule = "allowlist"
  BY <1>10 DEF AllowlistRule
<1>11. CASE rule = "allowlist.mcp-readonly"
  BY <1>11 DEF McpReadonlyRule
<1>12. CASE rule = "profile.domain-trusted"
  BY <1>12 DEF ProfileDomainTrustedRule
<1>13. CASE rule = "packages"
  BY <1>13
<1> QED
  BY <1>1, <1>2, <1>3, <1>4, <1>5, <1>6, <1>7, <1>8, <1>9, <1>10, <1>11, <1>12, <1>13 DEF OtherRules

\* The service's chain denies for good whatever one of the hard-deny rules
\* denies: of the rules above it one only answers about a line that could not be
\* parsed, which has no parts, and the others deny as hard (rules/chain.py,
\* rules/hard_deny/__init__.py).
THEOREM HardDenialsWin ==
  ASSUME Chain = STAGE1,
         \A i \in DOMAIN Chain, a \in Actions, p \in Policies :
           Evaluate(Chain[i], a, p) = EvaluateRule(Chain[i], a, p),
         \A a \in Actions : ~a.parsed => a.parts = <<>>
  PROVE  Spec => []HardDenyWins
<1>1. ASSUME NEW i \in DOMAIN Chain, NEW j \in DOMAIN Chain, NEW a \in Actions, NEW p \in Policies,
             j <= i, Evaluate(Chain[i], a, p).hard
      PROVE  LET v == Evaluate(Chain[j], a, p)
             IN v = Silent \/ (v.decision = "deny" /\ v.hard)
  <2>1. EvaluateRule(STAGE1[i], a, p).hard /\ i \in DOMAIN STAGE1 /\ j \in DOMAIN STAGE1
    BY <1>1
  <2>2. STAGE1[i] \notin OtherRules \cup {"unparseable"}
    BY <2>1, OtherRulesDoNot
  <2>3. i \in 2..7 /\ STAGE1[i] \in HardRules \cup {"hard-deny.git-force"}
    BY <2>1, <2>2, ServiceOrder
  <2>4. a.parts # <<>>
    BY <2>1, <2>3, HardRulesDeny, GitForceDenies
  <2>5. a.parsed
    BY <2>4
  <2>6. j \in 1..7 /\ (j = 7 => i = 7)
    BY <1>1, <2>1, <2>3, ServiceOrder
  <2>7. CASE j = 1
    <3>1. STAGE1[j] = "unparseable"
      BY <2>1, <2>7, ServiceOrder
    <3>2. EvaluateRule(STAGE1[j], a, p) = Silent
      BY <2>5, <3>1, OtherRulesDoNot
    <3> QED
      BY <3>2
  <2>8. CASE j \in 2..6
    <3>1. STAGE1[j] \in HardRules
      BY <2>1, <2>8, ServiceOrder
    <3>2. LET v == EvaluateRule(STAGE1[j], a, p) IN v = Silent \/ (v.decision = "deny" /\ v.hard)
      BY <3>1, HardRulesDeny
    <3> QED
      BY <3>2
  <2>9. CASE j = 7
    <3>1. i = 7 /\ STAGE1[i] = "hard-deny.git-force"
      BY <2>1, <2>6, <2>9, ServiceOrder
    <3>2. EvaluateRule(STAGE1[j], a, p).decision = "deny"
      BY <2>1, <2>9, <3>1, GitForceDenies
    <3> QED
      BY <2>1, <2>9, <3>1, <3>2
  <2> QED
    BY <2>6, <2>7, <2>8, <2>9
<1>2. LoopInv => HardDenyWins
  BY <1>1, HardestFirst
<1> QED
  BY <1>2, SpecLoopInv, PTL
-----------------------------------------------------------------------------
(***************************************************************************)
(* What stage 1 looks past: the wrappers in front of a command, for any    *)
(* argv, any set of wrappers and any bound on the chain.                   *)
(***************************************************************************)

\* A nonempty set of naturals has a least one.
LEMMA LeastNatural ==
  ASSUME NEW S \in SUBSET Nat, S # {}
  PROVE  \E m \in S : \A k \in S : m <= k
<1>1. 1 \in Nat \ {0}
  OBVIOUS
<1> QED
  BY <1>1, Numbers!LeastNatural

\* Induction up to a bound: a set that contains 0 and every successor.
LEMMA BoundedInduction ==
  ASSUME NEW N \in Nat, NEW P \in SUBSET (0..N), 0 \in P, \A n \in P : n < N => n + 1 \in P
  PROVE  P = 0..N
<1>1. 1 \in Nat \ {0}
  OBVIOUS
<1> QED
  BY <1>1, Numbers!BoundedInduction

\* Recursion up to a bound: there is a function with these values.
LEMMA BoundedRecursion ==
  ASSUME NEW N \in Nat, NEW S, NEW base \in S, NEW step, Numbers!Stays(N, S, step)
  PROVE  Numbers!Recursion(N, S, base, step) # {}
<1>1. 1 \in Nat \ {0}
  OBVIOUS
<1> QED
  BY <1>1, Numbers!BoundedRecursion

\* Token i of an argv is one the wrapper at w takes for itself: its name, an
\* option, the separate value of one, a duration of timeout, an assignment of env.
Takes(argv, w, i) ==
  LET name == BaseName(argv[w])
  IN \/ i = w
     \/ argv[i] \in Options
     \/ w + 1 < i /\ argv[i - 1] \in Options \cap SpecFor(name).valueFlags
     \/ name = "timeout" /\ argv[i] \in Durations
     \/ name = "env" /\ argv[i] \in Assignments

\* Nothing of an argv's first tokens, up to the k-th, but what wrappers take.
OnlyWrappersBefore(argv, wrappers, k) ==
  \A i \in 1..k - 1 : \E w \in 1..i : BaseName(argv[w]) \in wrappers /\ Takes(argv, w, i)

\* Of the tokens from i up to k each is an option or the value of the one before.
OptionsOnly(argv, flags, i, k) ==
  /\ k \in i..Len(argv) + 1
  /\ \A j \in i..k - 1 : argv[j] \in Options \/ (i < j /\ argv[j - 1] \in Options \cap flags)

\* One option, or one with its value, before others.
LEMMA OptionsBefore ==
  ASSUME NEW T, NEW argv \in Seq(T), NEW flags, NEW i \in 2..Len(argv), argv[i] \in Options, NEW k
  PROVE  /\ OptionsOnly(argv, flags, i + 1, k) => OptionsOnly(argv, flags, i, k)
         /\ OptionsOnly(argv, flags, i + 2, k) /\ argv[i] \in flags => OptionsOnly(argv, flags, i, k)
<1>1. Len(argv) \in Nat /\ i \in Nat
  OBVIOUS
<1>2. ASSUME OptionsOnly(argv, flags, i + 1, k) PROVE OptionsOnly(argv, flags, i, k)
  <2>1. k \in i + 1..Len(argv) + 1 /\ k \in i..Len(argv) + 1 /\ k \in Nat
    BY <1>1, <1>2 DEF OptionsOnly
  <2>2. ASSUME NEW j \in i..k - 1
        PROVE  argv[j] \in Options \/ (i < j /\ argv[j - 1] \in Options \cap flags)
    <3>1. j = i \/ (j \in i + 1..k - 1 /\ i < j)
      BY <1>1, <2>1
    <3>2. ASSUME j \in i + 1..k - 1, i < j
          PROVE  argv[j] \in Options \/ (i < j /\ argv[j - 1] \in Options \cap flags)
      BY <1>2, <3>2 DEF OptionsOnly
    <3> QED
      BY <3>1, <3>2
  <2> QED
    BY <2>1, <2>2 DEF OptionsOnly
<1>3. ASSUME OptionsOnly(argv, flags, i + 2, k), argv[i] \in flags PROVE OptionsOnly(argv, flags, i, k)
  <2>1. k \in i + 2..Len(argv) + 1 /\ k \in i..Len(argv) + 1 /\ k \in Nat
    BY <1>1, <1>3 DEF OptionsOnly
  <2>2. ASSUME NEW j \in i..k - 1
        PROVE  argv[j] \in Options \/ (i < j /\ argv[j - 1] \in Options \cap flags)
    <3>1. j = i \/ (i < j /\ j - 1 = i) \/ (j \in i + 2..k - 1 /\ i < j)
      BY <1>1, <2>1
    <3>2. ASSUME j \in i + 2..k - 1, i < j
          PROVE  argv[j] \in Options \/ (i < j /\ argv[j - 1] \in Options \cap flags)
      BY <1>3, <3>2 DEF OptionsOnly
    <3>3. ASSUME i < j, j - 1 = i PROVE argv[j - 1] \in Options \cap flags
      BY <1>3, <3>3
    <3> QED
      BY <3>1, <3>2, <3>3
  <2> QED
    BY <2>1, <2>2 DEF OptionsOnly
<1> QED
  BY <1>2, <1>3

\* The skip over a wrapper's options, from the end of the argv backwards.
LEMMA OptionsSkipped ==
  ASSUME NEW T, NEW argv \in Seq(T), argv # <<>>, NEW name
  PROVE  OptionsOnly(argv, SpecFor(name).valueFlags, 2, AfterOptions(argv, name))
<1> DEFINE L == Len(argv)
           N == L - 1
           flags == SpecFor(name).valueFlags
           Body(f) == [i \in 2..(L + 1) |->
                         IF i > L \/ argv[i] \notin Options THEN i
                         ELSE IF argv[i] \in flags /\ i < L THEN f[i + 2] ELSE f[i + 1]]
           g == CHOOSE f : f = Body(f)
           At(n) == L + 1 - n
           S == Nat \X Nat
           base == <<L + 1, L + 1>>
           Skip(q, i) == IF argv[i] \notin Options THEN i
                         ELSE IF argv[i] \in flags /\ i < L THEN q[2] ELSE q[1]
           step == [p \in S \X (1..N) |-> <<Skip(p[1], At(p[2])), p[1][1]>>]
<1>1. L \in Nat /\ L # 0 /\ N \in Nat /\ base \in S
  OBVIOUS
<1>2. AfterOptions(argv, name) = g[2]
  BY DEF AfterOptions
<1> HIDE DEF L, flags
<1>3. \A n \in 0..N : At(n) \in 2..L + 1 /\ L + 1 - At(n) = n /\ (n # 0 => At(n) \in 2..L)
  BY <1>1
<1>4. \A q \in S, n \in 1..N : step[<<q, n>>] = <<Skip(q, At(n)), q[1]>> /\ step[<<q, n>>] \in S
  <2>1. \A q \in S, i \in 2..L : Skip(q, i) \in Nat
    BY <1>1
  <2> HIDE DEF Skip, At
  <2>2. \A q \in S, n \in 1..N : step[<<q, n>>] = <<Skip(q, At(n)), q[1]>>
    OBVIOUS
  <2>3. \A n \in 1..N : At(n) \in 2..L
    BY <1>1, <1>3
  <2> QED
    BY <2>1, <2>2, <2>3
<1>5. Numbers!Stays(N, S, step)
  BY <1>4 DEF Numbers!Stays
<1> HIDE DEF step, S, base, N
<1>6. Numbers!Recursion(N, S, base, step) # {}
  BY <1>1, <1>5, BoundedRecursion
<1>7. PICK h \in [0..N -> S] : h[0] = base /\ \A n \in 1..N : h[n] = step[<<h[n - 1], n>>]
  BY <1>6 DEF Numbers!Recursion
<1>8. \A n \in 1..N : n - 1 \in 0..N /\ h[n - 1] \in S /\ h[n] = <<Skip(h[n - 1], At(n)), h[n - 1][1]>>
  <2>1. \A n \in 1..N : n - 1 \in 0..N
    BY <1>1
  <2> HIDE DEF Skip, At
  <2> QED
    BY <1>4, <1>7, <2>1
<1> DEFINE f == [i \in 2..(L + 1) |-> h[L + 1 - i][1]]
<1>9. f = Body(f)
  <2> SUFFICES ASSUME NEW i \in 2..L + 1 PROVE f[i] = Body(f)[i]
    OBVIOUS
  <2> DEFINE n == L + 1 - i
  <2>1. n \in 0..N /\ At(n) = i /\ f[i] = h[n][1] /\ L + 1 \in 2..L + 1
    BY <1>1 DEF N
  <2>2. CASE i = L + 1
    <3>1. n = 0 /\ h[0][1] = L + 1 /\ i > L
      BY <1>1, <1>7, <2>2 DEF base
    <3> QED
      BY <2>1, <2>2, <3>1
  <2>3. CASE i # L + 1
    <3>1. n \in 1..N /\ ~(i > L) /\ i \in 2..L /\ i + 1 \in 2..L + 1 /\ L + 1 - (i + 1) = n - 1
      BY <1>1, <2>1, <2>3 DEF N
    <3>2. f[i] = Skip(h[n - 1], i)
      <4>1. h[n] = <<Skip(h[n - 1], At(n)), h[n - 1][1]>>
        BY <1>8, <3>1
      <4> HIDE DEF n, f, Skip, At
      <4> QED
        BY <2>1, <4>1
    <3>3. f[i + 1] = h[n - 1][1]
      BY <3>1
    <3>4. ASSUME i < L PROVE f[i + 2] = h[n - 1][2]
      <4>1. i + 2 \in 2..L + 1 /\ L + 1 - (i + 2) = (n - 1) - 1 /\ n - 1 \in 1..N
        BY <1>1, <3>1, <3>4 DEF N
      <4>2. f[i + 2] = h[(n - 1) - 1][1]
        BY <4>1
      <4>3. h[n - 1] = <<Skip(h[(n - 1) - 1], At(n - 1)), h[(n - 1) - 1][1]>>
        BY <1>8, <4>1
      <4> HIDE DEF n, f, Skip, At
      <4> QED
        BY <4>2, <4>3
    <3>5. Body(f)[i] = IF argv[i] \notin Options THEN i
                       ELSE IF argv[i] \in flags /\ i < L THEN f[i + 2] ELSE f[i + 1]
      BY <3>1
    <3> HIDE DEF f, n
    <3> QED
      BY <3>2, <3>3, <3>4, <3>5
  <2> QED
    BY <2>2, <2>3
<1>10. g = Body(g)
  <2> HIDE DEF f
  <2> QED
    BY <1>9
<1> HIDE DEF g
<1> DEFINE Knows(i) == OptionsOnly(argv, flags, i, g[i])
           P == {n \in 0..N : Knows(At(n)) /\ (n # 0 => Knows(At(n - 1)))}
<1>11. 0 \in P
  <2>1. L + 1 \in 2..L + 1 /\ L + 1 > L
    BY <1>1
  <2>2. g[L + 1] = L + 1
    BY <1>10, <2>1
  <2>3. Knows(L + 1)
    BY <1>1, <2>2 DEF OptionsOnly, L
  <2>4. At(0) = L + 1 /\ 0 \in 0..N
    BY <1>1
  <2> HIDE DEF Knows, At
  <2> QED
    BY <2>3, <2>4
<1>12. ASSUME NEW n \in P, n < N PROVE n + 1 \in P
  <2> DEFINE i == At(n + 1)
  <2>1. /\ n \in Nat /\ n \in 0..N /\ n + 1 \in 0..N /\ n + 1 # 0 /\ (n + 1) - 1 = n
        /\ i \in 2..L /\ i \in 2..L + 1 /\ ~(i > L) /\ i + 1 = At(n) /\ (i < L => n # 0 /\ i + 2 = At(n - 1))
    BY <1>1, <1>12 DEF N
  <2>2. g[i] = IF argv[i] \notin Options THEN i
               ELSE IF argv[i] \in flags /\ i < L THEN g[i + 2] ELSE g[i + 1]
    BY <1>10, <2>1
  <2>3. Knows(i + 1) /\ (i < L => Knows(i + 2))
    <3> HIDE DEF Knows, At
    <3> QED
      BY <2>1
  <2> HIDE DEF i
  <2>4. Knows(i)
    <3>1. CASE argv[i] \notin Options
      <4>1. g[i] = i /\ i \in Nat
        BY <2>1, <2>2, <3>1
      <4> QED
        BY <1>1, <2>1, <4>1 DEF OptionsOnly, L
    <3>2. CASE argv[i] \in Options /\ argv[i] \in flags /\ i < L
      <4>1. g[i] = g[i + 2] /\ i \in 2..Len(argv)
        BY <2>1, <2>2, <3>2 DEF L
      <4> QED
        BY <2>3, <3>2, <4>1, OptionsBefore
    <3>3. CASE argv[i] \in Options /\ ~(argv[i] \in flags /\ i < L)
      <4>1. g[i] = g[i + 1] /\ i \in 2..Len(argv)
        BY <2>1, <2>2, <3>3 DEF L
      <4> QED
        BY <2>3, <3>3, <4>1, OptionsBefore
    <3> QED
      BY <3>1, <3>2, <3>3
  <2> HIDE DEF Knows
  <2>5. Knows(At(n))
    OBVIOUS
  <2> QED
    BY <2>1, <2>4, <2>5 DEF i
<1>13. P \in SUBSET (0..N) /\ N \in 0..N /\ At(N) = 2
  BY <1>1 DEF N
<1> HIDE DEF P
<1>14. P = 0..N
  BY <1>1, <1>11, <1>12, <1>13, BoundedInduction
<1> HIDE DEF Knows
<1>15. Knows(2)
  BY <1>13, <1>14 DEF P
<1> QED
  BY <1>2, <1>15 DEF Knows, flags

\* Where env's assignments end.
LEMMA AssignmentsSkipped ==
  ASSUME NEW argv, Len(argv) \in Nat, NEW name, NEW i \in 1..Len(argv) + 1
  PROVE  LET k == AfterAssignments(argv, name, i)
         IN /\ k \in i..Len(argv) + 1
            /\ \A j \in i..k - 1 : name = "env" /\ argv[j] \in Assignments
<1> DEFINE L == Len(argv)
           Ends(k) == /\ \A j \in i..k - 1 : argv[j] \in Assignments
                      /\ k <= L => argv[k] \notin Assignments
           X == {k \in i..L + 1 : k <= L => argv[k] \notin Assignments}
<1>1. L \in Nat /\ i \in Nat /\ i <= L + 1
  OBVIOUS
<1> HIDE DEF L
<1>2. CASE name # "env"
  <2>1. AfterAssignments(argv, name, i) = i
    BY <1>2 DEF AfterAssignments
  <2> QED
    BY <1>1, <2>1 DEF L
<1>3. CASE name = "env"
  <2>1. X \in SUBSET Nat /\ L + 1 \in X
    BY <1>1
  <2>2. PICK m \in X : \A k \in X : m <= k
    BY <2>1, LeastNatural
  <2>3. m \in i..L + 1 /\ Ends(m)
    <3>1. m \in i..L + 1 /\ (m <= L => argv[m] \notin Assignments)
      BY <2>2
    <3>2. ASSUME NEW j \in i..m - 1, argv[j] \notin Assignments PROVE FALSE
      <4>1. j \in i..L + 1 /\ ~(m <= j)
        BY <1>1, <3>1
      <4>2. j \in X
        BY <3>2, <4>1
      <4> QED
        BY <2>2, <4>1, <4>2
    <3> QED
      BY <3>1, <3>2
  <2>4. AfterAssignments(argv, name, i) = CHOOSE k \in i..L + 1 : Ends(k)
    BY <1>3 DEF AfterAssignments, L
  <2> HIDE DEF Ends
  <2>5. AfterAssignments(argv, name, i) \in i..L + 1 /\ Ends(AfterAssignments(argv, name, i))
    BY <2>3, <2>4
  <2> QED
    BY <1>3, <2>5 DEF Ends, L
<1> QED
  BY <1>2, <1>3

\* One level off: what goes is the wrapper's name and what it takes.
LEMMA PeelTakes ==
  ASSUME NEW T, NEW argv \in Seq(T), argv # <<>>
  PROVE  \E k \in 2..Len(argv) + 1 : /\ Peel(argv) = SubSeq(argv, k, Len(argv))
                                     /\ \A i \in 1..k - 1 : Takes(argv, 1, i)
<1> DEFINE L == Len(argv)
           name == BaseName(argv[1])
           flags == SpecFor(name).valueFlags
           a == AfterOptions(argv, name)
           b == AfterDuration(argv, name, a)
           k == AfterAssignments(argv, name, b)
<1>1. L \in Nat
  OBVIOUS
<1>2. OptionsOnly(argv, flags, 2, a)
  BY OptionsSkipped
<1>3. Peel(argv) = SubSeq(argv, k, L)
  BY DEF Peel
<1> HIDE DEF L, name, flags, a
<1>4. a \in 2..L + 1 /\ a \in Nat
  BY <1>1, <1>2 DEF OptionsOnly, L
<1>5. b \in a..L + 1 /\ \A i \in a..b - 1 : name = "timeout" /\ argv[i] \in Durations
  BY <1>1, <1>4 DEF AfterDuration, L
<1> HIDE DEF b
<1>6. b \in 1..Len(argv) + 1 /\ Len(argv) \in Nat
  BY <1>1, <1>4, <1>5 DEF L
<1>7. k \in b..L + 1 /\ \A i \in b..k - 1 : name = "env" /\ argv[i] \in Assignments
  BY <1>6, AssignmentsSkipped DEF L
<1> HIDE DEF k
<1>8. ASSUME NEW i \in 1..k - 1 PROVE Takes(argv, 1, i)
  <2>1. i \in Nat /\ (i = 1 \/ i \in 2..a - 1 \/ i \in a..b - 1 \/ i \in b..k - 1)
    BY <1>1, <1>4, <1>5, <1>7
  <2>2. CASE i = 1
    BY <2>2 DEF Takes
  <2>3. CASE i \in 2..a - 1
    <3>1. argv[i] \in Options \/ (2 < i /\ argv[i - 1] \in Options \cap flags)
      BY <1>2, <2>3 DEF OptionsOnly
    <3>2. 2 < i => 1 + 1 < i
      BY <2>1
    <3> QED
      BY <3>1, <3>2 DEF Takes, flags, name
  <2>4. CASE i \in a..b - 1
    BY <1>5, <2>4 DEF Takes, name
  <2>5. CASE i \in b..k - 1
    BY <1>7, <2>5 DEF Takes, name
  <2> QED
    BY <2>1, <2>2, <2>3, <2>4, <2>5
<1>9. k \in 2..L + 1
  BY <1>1, <1>4, <1>5, <1>7
<1> QED
  BY <1>3, <1>8, <1>9 DEF L

\* The end of an argv.
LEMMA EndOf ==
  ASSUME NEW T, NEW argv \in Seq(T), NEW k \in 1..Len(argv) + 1
  PROVE  LET t == SubSeq(argv, k, Len(argv))
         IN /\ t \in Seq(T) /\ Len(t) = Len(argv) - k + 1
            /\ \A i \in 1..Len(t) : t[i] = argv[k + i - 1]
            /\ \A m \in 1..Len(t) + 1 : SubSeq(t, m, Len(t)) = SubSeq(argv, k + m - 1, Len(argv))
<1> DEFINE L == Len(argv)
           t == SubSeq(argv, k, L)
<1>1. L \in Nat /\ k \in Nat /\ k >= 1 /\ k <= L + 1 /\ \A i \in 1..L : argv[i] \in T
  OBVIOUS
<1>2. t = [i \in 1..L - k + 1 |-> argv[k + i - 1]]
  BY <1>1
<1> HIDE DEF L
<1>3. \A i \in 1..L - k + 1 : k + i - 1 \in 1..L
  BY <1>1
<1>4. t \in Seq(T) /\ Len(t) = L - k + 1 /\ \A i \in 1..Len(t) : t[i] = argv[k + i - 1]
  <2>1. L - k + 1 \in Nat
    BY <1>1
  <2> HIDE DEF t
  <2> QED
    BY <1>1, <1>2, <1>3, <2>1
<1> HIDE DEF t
<1>5. ASSUME NEW m \in 1..Len(t) + 1 PROVE SubSeq(t, m, Len(t)) = SubSeq(argv, k + m - 1, L)
  <2> DEFINE n == Len(t) - m + 1
             s == k + m - 1
  <2>1. /\ n \in Nat /\ m \in Nat /\ s \in Nat /\ n = L - s + 1 /\ m >= 1 /\ s >= 1
        /\ Len(t) \in Nat
        /\ \A i \in 1..n : m + i - 1 \in 1..Len(t) /\ k + (m + i - 1) - 1 = s + i - 1
    BY <1>1, <1>4
  <2>2. SubSeq(t, m, Len(t)) = [i \in 1..n |-> t[m + i - 1]]
    BY <1>4, <2>1
  <2>3. SubSeq(argv, s, L) = [i \in 1..n |-> argv[s + i - 1]]
    BY <1>1, <2>1 DEF L
  <2> HIDE DEF n, s
  <2>4. \A i \in 1..n : t[m + i - 1] = argv[s + i - 1]
    BY <1>4, <2>1
  <2> QED
    BY <2>2, <2>3, <2>4 DEF s
<1> QED
  BY <1>4, <1>5 DEF t, L

\* What is left of an argv after some levels: its end from the k-th token, all
\* before it taken by wrappers, and one token at least for each level if there
\* still is a wrapper.
Unwrapped(argv, wrappers, levels, tokens, k) ==
  /\ k \in 1..Len(argv) + 1
  /\ tokens = SubSeq(argv, k, Len(argv))
  /\ OnlyWrappersBefore(argv, wrappers, k)
  /\ IsWrapped(tokens, wrappers) => levels < k

\* One level more.
LEMMA PeelUnwraps ==
  ASSUME NEW T, NEW argv \in Seq(T), NEW wrappers, NEW levels \in Nat, NEW tokens, NEW k,
         Unwrapped(argv, wrappers, levels, tokens, k), IsWrapped(tokens, wrappers)
  PROVE  \E j : Unwrapped(argv, wrappers, levels + 1, Peel(tokens), j)
<1> DEFINE L == Len(argv)
<1>1. /\ L \in Nat /\ k \in 1..L + 1 /\ k \in Nat /\ levels < k
      /\ tokens = SubSeq(argv, k, L) /\ OnlyWrappersBefore(argv, wrappers, k)
  BY DEF Unwrapped
<1>2. /\ tokens \in Seq(T) /\ Len(tokens) = L - k + 1 /\ Len(tokens) \in Nat
      /\ \A i \in 1..Len(tokens) : tokens[i] = argv[k + i - 1]
      /\ \A m \in 1..Len(tokens) + 1 : SubSeq(tokens, m, Len(tokens)) = SubSeq(argv, k + m - 1, L)
  BY <1>1, EndOf
<1>3. tokens # <<>> /\ BaseName(tokens[1]) \in wrappers
  BY DEF IsWrapped
<1>4. PICK m \in 2..Len(tokens) + 1 : /\ Peel(tokens) = SubSeq(tokens, m, Len(tokens))
                                      /\ \A i \in 1..m - 1 : Takes(tokens, 1, i)
  BY <1>2, <1>3, PeelTakes
<1> DEFINE j == k + m - 1
<1> HIDE DEF L
<1>5. j \in 1..L + 1 /\ levels + 1 < j /\ 1 \in 1..Len(tokens) /\ m \in 1..Len(tokens) + 1
  BY <1>1, <1>2, <1>4
<1>6. Peel(tokens) = SubSeq(argv, j, L)
  BY <1>2, <1>4, <1>5
<1>7. ASSUME NEW i \in 1..j - 1
      PROVE  \E w \in 1..i : BaseName(argv[w]) \in wrappers /\ Takes(argv, w, i)
  <2>1. i \in 1..k - 1 \/ (i >= k /\ i - k + 1 \in 1..m - 1)
    BY <1>1, <1>5
  <2>2. CASE i \in 1..k - 1
    BY <1>1, <2>2 DEF OnlyWrappersBefore
  <2>3. CASE i >= k /\ i - k + 1 \in 1..m - 1
    <3> DEFINE n == i - k + 1
    <3>1. /\ n \in 1..Len(tokens) /\ k + n - 1 = i /\ k + 1 - 1 = k /\ (n = 1 => i = k)
          /\ (1 + 1 < n => k + 1 < i /\ n - 1 \in 1..Len(tokens) /\ k + (n - 1) - 1 = i - 1)
          /\ k \in 1..i
      BY <1>1, <1>2, <1>4, <1>5, <2>3
    <3>2. Takes(tokens, 1, n)
      BY <1>4, <2>3
    <3> HIDE DEF n
    <3>3. tokens[1] = argv[k] /\ tokens[n] = argv[i] /\ (1 + 1 < n => tokens[n - 1] = argv[i - 1])
      BY <1>2, <1>5, <3>1
    <3>4. Takes(argv, k, i)
      BY <3>1, <3>2, <3>3 DEF Takes
    <3>5. BaseName(argv[k]) \in wrappers
      BY <1>3, <3>3
    <3> QED
      BY <3>1, <3>4, <3>5
  <2> QED
    BY <2>1, <2>2, <2>3
<1> HIDE DEF j
<1>8. Unwrapped(argv, wrappers, levels + 1, Peel(tokens), j)
  BY <1>5, <1>6, <1>7 DEF Unwrapped, OnlyWrappersBefore, L
<1> QED
  BY <1>8

\* All levels.
LEMMA ResolveUnwraps ==
  ASSUME NEW T, NEW argv \in Seq(T), NEW wrappers
  PROVE  \E k : Unwrapped(argv, wrappers, MaxWrapperChain, ResolveEffectiveArgv(argv, wrappers), k)
<1> DEFINE N == MaxWrapperChain
           S == Seq(T)
           Next1(t) == IF IsWrapped(t, wrappers) THEN Peel(t) ELSE t
           Body(f) == [level \in 0..N |->
                         IF level = 0 THEN argv
                         ELSE IF IsWrapped(f[level - 1], wrappers) THEN Peel(f[level - 1])
                         ELSE f[level - 1]]
           g == CHOOSE f : f = Body(f)
           step == [p \in S \X (1..N) |-> Next1(p[1])]
           Knows(n, t) == \E k : Unwrapped(argv, wrappers, n, t, k)
<1>1. N \in Nat /\ argv \in S
  BY WrapperAssumption
<1>2. ResolveEffectiveArgv(argv, wrappers) = g[N]
  BY DEF ResolveEffectiveArgv
<1>3. \A t \in S : Next1(t) \in S
  <2> SUFFICES ASSUME NEW t \in S, IsWrapped(t, wrappers) PROVE Peel(t) \in S
    OBVIOUS
  <2>1. t # <<>>
    BY DEF IsWrapped
  <2>2. PICK k \in 2..Len(t) + 1 : Peel(t) = SubSeq(t, k, Len(t))
    BY <2>1, PeelTakes
  <2>3. k \in 1..Len(t) + 1
    OBVIOUS
  <2> QED
    BY <2>2, <2>3, EndOf
<1> HIDE DEF Next1
<1>4. \A t \in S, n \in 1..N : step[<<t, n>>] = Next1(t)
  OBVIOUS
<1>5. Numbers!Stays(N, S, step)
  BY <1>3, <1>4 DEF Numbers!Stays
<1> HIDE DEF N, S, step, g
<1>6. Numbers!Recursion(N, S, argv, step) # {}
  BY <1>1, <1>5, BoundedRecursion
<1>7. PICK f \in [0..N -> S] : f[0] = argv /\ \A n \in 1..N : f[n] = step[<<f[n - 1], n>>]
  BY <1>6 DEF Numbers!Recursion
<1>8. f = Body(f)
  <2>1. N \in Nat
    BY <1>1
  <2>2. \A n \in 0..N : n # 0 => n \in 1..N /\ f[n - 1] \in S
    BY <1>7, <2>1
  <2>3. \A n \in 0..N : f[n] = Body(f)[n]
    BY <1>4, <1>7, <2>2 DEF Next1
  <2> QED
    BY <1>7, <2>3
<1>9. g = Body(g)
  BY <1>8 DEF g
<1>10. Knows(0, argv)
  <2>1. Len(argv) \in Nat /\ 1 \in 1..Len(argv) + 1 /\ argv = SubSeq(argv, 1, Len(argv))
    OBVIOUS
  <2>2. OnlyWrappersBefore(argv, wrappers, 1)
    BY DEF OnlyWrappersBefore
  <2>3. Unwrapped(argv, wrappers, 0, argv, 1)
    BY <2>1, <2>2 DEF Unwrapped
  <2> QED
    BY <2>3
<1>11. ASSUME NEW n \in Nat, NEW t, Knows(n, t) PROVE Knows(n + 1, Next1(t))
  <2>1. PICK k : Unwrapped(argv, wrappers, n, t, k)
    BY <1>11
  <2>2. CASE IsWrapped(t, wrappers)
    BY <2>1, <2>2, PeelUnwraps DEF Next1
  <2>3. CASE ~IsWrapped(t, wrappers)
    <3>1. Unwrapped(argv, wrappers, n + 1, t, k)
      BY <2>1, <2>3 DEF Unwrapped
    <3> QED
      BY <2>3, <3>1 DEF Next1
  <2> QED
    BY <2>2, <2>3
<1> HIDE DEF Knows
<1> DEFINE P == {n \in 0..N : g[n] \in S /\ Knows(n, g[n])}
<1>12. 0 \in P
  <2>1. g[0] = argv /\ 0 \in 0..N
    BY <1>1, <1>9
  <2> QED
    BY <1>1, <1>10, <2>1
<1>13. ASSUME NEW n \in P, n < N PROVE n + 1 \in P
  <2>1. /\ n \in Nat /\ n + 1 \in 1..N /\ (n + 1) - 1 = n /\ n + 1 # 0 /\ n + 1 \in 0..N
        /\ g[n] \in S /\ Knows(n, g[n])
    BY <1>1, <1>13
  <2>2. g[n + 1] = Next1(g[n])
    BY <1>9, <2>1 DEF Next1
  <2> QED
    BY <1>3, <1>11, <2>1, <2>2
<1>14. P \in SUBSET (0..N) /\ N \in 0..N
  BY <1>1
<1> HIDE DEF P
<1>15. P = 0..N
  BY <1>1, <1>12, <1>13, <1>14, BoundedInduction
<1> QED
  BY <1>2, <1>14, <1>15 DEF P, Knows, N

\* Looking past the wrappers steps over their names, their options with the
\* values of these, a duration of timeout and assignments of env, and over
\* nothing else; and the chain counts as too deep only if the argv has more
\* tokens than levels are peeled (shell/wrappers.py, resolve_effective_argv and chain_unresolved).
THEOREM UnwrappingStepsOverWrappersOnly ==
  ASSUME NEW T, NEW argv \in Seq(T), NEW wrappers
  PROVE  /\ \E k \in 1..Len(argv) + 1 :
              /\ ResolveEffectiveArgv(argv, wrappers) = SubSeq(argv, k, Len(argv))
              /\ OnlyWrappersBefore(argv, wrappers, k)
         /\ ChainUnresolved(argv, wrappers) = "depth" => Len(argv) > MaxWrapperChain
<1> DEFINE effective == ResolveEffectiveArgv(argv, wrappers)
<1>1. PICK k : Unwrapped(argv, wrappers, MaxWrapperChain, effective, k)
  BY ResolveUnwraps
<1> HIDE DEF effective
<1>2. /\ k \in 1..Len(argv) + 1 /\ effective = SubSeq(argv, k, Len(argv))
      /\ OnlyWrappersBefore(argv, wrappers, k)
      /\ IsWrapped(effective, wrappers) => MaxWrapperChain < k
  BY <1>1 DEF Unwrapped
<1>3. ASSUME IsWrapped(effective, wrappers) PROVE Len(argv) > MaxWrapperChain
  <2>1. effective # <<>> /\ Len(effective) = Len(argv) - k + 1 /\ Len(argv) \in Nat /\ effective \in Seq(T)
    BY <1>2, <1>3, EndOf DEF IsWrapped
  <2>2. k <= Len(argv)
    BY <1>2, <2>1
  <2> QED
    BY <1>2, <1>3, <2>1, <2>2, WrapperAssumption
<1>4. ChainUnresolved(argv, wrappers) = "depth" => IsWrapped(effective, wrappers)
  BY DEF ChainUnresolved, effective
<1> QED
  BY <1>2, <1>3, <1>4 DEF effective

\* Of the commands that raise privileges only sudo and doas are wrappers.
LEMMA EscalatorRows ==
  ASSUME NEW row \in COMMANDS, {"escalator", "wrapper"} \subseteq row.roles
  PROVE  row.names \subseteq {"sudo", "doas"}
BY DEF COMMANDS, Row

\* xargs, which stage 1 adds to the wrappers, does not raise privileges.
LEMMA XargsIsNoEscalator == "xargs" \notin CommandsWithRole("escalator")
BY DEF CommandsWithRole, COMMANDS, Row

\* Stage 1 never looks past an escalator: what it steps over as a wrapper is
\* none (rules/hard_deny/shared.py, EFFECTIVE_WRAPPERS; rules/hard_deny/privilege.py).
THEOREM EscalatorsAreNotSteppedOver ==
  ASSUME NEW T, NEW argv \in Seq(T)
  PROVE  \E k \in 1..Len(argv) + 1 :
           /\ EffectiveArgv(argv) = SubSeq(argv, k, Len(argv))
           /\ \A i \in 1..k - 1 : \E w \in 1..i : /\ BaseName(argv[w]) \notin CommandsWithRole("escalator")
                                                  /\ BaseName(argv[w]) \in EFFECTIVE_WRAPPERS
                                                  /\ Takes(argv, w, i)
<1>1. ASSUME NEW name \in EFFECTIVE_WRAPPERS, name \in CommandsWithRole("escalator") PROVE FALSE
  <2>1. PICK r \in COMMANDS : name \in r.names /\ "escalator" \in r.roles
    BY <1>1 DEF CommandsWithRole
  <2>2. name \in WRAPPER_COMMANDS /\ name \notin {"sudo", "doas"}
    BY <1>1, XargsIsNoEscalator DEF EFFECTIVE_WRAPPERS
  <2>3. PICK s \in COMMANDS : name \in s.names /\ "wrapper" \in s.roles
    BY <2>2 DEF WRAPPER_COMMANDS, CommandsWithRole
  <2>4. r = s
    BY <2>1, <2>3, TableAssumption
  <2> QED
    BY <2>1, <2>2, <2>3, <2>4, EscalatorRows
<1>2. PICK k \in 1..Len(argv) + 1 : /\ EffectiveArgv(argv) = SubSeq(argv, k, Len(argv))
                                    /\ OnlyWrappersBefore(argv, EFFECTIVE_WRAPPERS, k)
  BY UnwrappingStepsOverWrappersOnly DEF EffectiveArgv
<1> QED
  BY <1>1, <1>2 DEF OnlyWrappersBefore
=============================================================================
