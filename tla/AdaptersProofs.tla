--------------------------- MODULE AdaptersProofs ---------------------------
(***************************************************************************)
(* What the adapters of module Adapters may let run and what they may show *)
(* the model, proved for any calls, texts, limits and number of mode       *)
(* changes.                                                                *)
(***************************************************************************)
EXTENDS Adapters, TLAPS

LOCAL Numbers == INSTANCE TtlStoreProofs WITH SweepEvery <- 1, MaxEntries <- 1

(* The entries of the cache: a text of T and the guard's answer to it.     *)
Entries(T) == [text : T, answer : InspectAnswers]

(* Making room leaves a cache of entries that were there before.           *)
LEMMA EvictedEntries ==
    ASSUME NEW T, NEW cache \in Seq(Entries(T))
    PROVE  /\ Evicted(cache) \in Seq(Entries(T))
           /\ \A i \in DOMAIN Evicted(cache) : \E j \in DOMAIN cache : Evicted(cache)[i] = cache[j]
<1>1. CASE Len(cache) >= CacheLimit
  <2>1. Evicted(cache) = Tail(cache)
    BY <1>1 DEF Evicted
  <2>2. CASE cache = <<>>
    BY <1>1, <2>2, AdapterLimits
  <2>3. CASE cache # <<>>
    <3>1. Tail(cache) \in Seq(Entries(T)) /\ Len(Tail(cache)) = Len(cache) - 1
      BY <2>3
    <3>2. \A i \in DOMAIN Tail(cache) : i + 1 \in DOMAIN cache /\ Tail(cache)[i] = cache[i + 1]
      BY <2>3
    <3>. QED BY <2>1, <3>1, <3>2
  <2>. QED BY <2>2, <2>3
<1>2. CASE ~(Len(cache) >= CacheLimit)
  BY <1>2 DEF Evicted
<1>. QED BY <1>1, <1>2

(* cache.ts: what is kept under a text is the answer just given for it, or *)
(* what was kept before.                                                   *)
LEMMA KeepEntries ==
    ASSUME NEW T, NEW cache \in Seq(Entries(T)), NEW text \in T, NEW answer \in InspectAnswers
    PROVE  /\ Keep(cache, text, answer) \in Seq(Entries(T))
           /\ \A i \in DOMAIN Keep(cache, text, answer) :
                 \/ Keep(cache, text, answer)[i] = [text |-> text, answer |-> answer]
                 \/ \E j \in DOMAIN cache : Keep(cache, text, answer)[i] = cache[j]
<1>. DEFINE rest == Evicted(cache)
            entry == [text |-> text, answer |-> answer]
            at == {i \in DOMAIN rest : rest[i].text = text}
<1>1. rest \in Seq(Entries(T)) /\ \A i \in DOMAIN rest : \E j \in DOMAIN cache : rest[i] = cache[j]
  BY EvictedEntries
<1>2. entry \in Entries(T)
  BY DEF Entries
<1>3. Keep(cache, text, answer) =
        IF at = {} THEN Append(rest, entry)
        ELSE [i \in DOMAIN rest |-> IF i \in at THEN entry ELSE rest[i]]
  BY DEF Keep
<1>. HIDE DEF rest, entry
<1>4. CASE at = {}
  <2>1. Keep(cache, text, answer) = Append(rest, entry)
    BY <1>3, <1>4
  <2>2. Append(rest, entry) \in Seq(Entries(T))
    BY <1>1, <1>2
  <2>3. \A i \in DOMAIN Append(rest, entry) :
           Append(rest, entry)[i] = entry \/ (i \in DOMAIN rest /\ Append(rest, entry)[i] = rest[i])
    BY <1>1, <1>2
  <2>. QED BY <2>1, <2>2, <2>3, <1>1 DEF entry
<1>5. CASE at # {}
  <2>7. DOMAIN rest = 1 .. Len(rest)
    BY <1>1
  <2>1. Keep(cache, text, answer) = [i \in 1 .. Len(rest) |-> IF i \in at THEN entry ELSE rest[i]]
    <3>. HIDE DEF at
    <3>1. Keep(cache, text, answer) = [i \in DOMAIN rest |-> IF i \in at THEN entry ELSE rest[i]]
      BY <1>3, <1>5
    <3>. QED BY <3>1, <2>7
  <2>2. \A i \in 1 .. Len(rest) : rest[i] \in Entries(T)
    BY <1>1
  <2>3. Len(rest) \in Nat
    BY <1>1
  <2>4. Keep(cache, text, answer) \in [1 .. Len(rest) -> Entries(T)]
    BY <2>1, <2>2, <1>2
  <2>5. Keep(cache, text, answer) \in Seq(Entries(T))
    BY <2>3, <2>4
  <2>6. \A i \in DOMAIN Keep(cache, text, answer) :
           Keep(cache, text, answer)[i] = entry \/ (i \in DOMAIN rest /\ Keep(cache, text, answer)[i] = rest[i])
    BY <1>1, <2>1
  <2>. QED BY <2>5, <2>6, <1>1 DEF entry
<1>. QED BY <1>4, <1>5

(* The fields of a call.                                                   *)
HasCallFields(r) ==
    DOMAIN r = {"stage", "mode", "request", "modes", "heard", "threw", "by", "text", "told", "met"}

TypeOK ==
    /\ adapter \in AllAdapters /\ onUnavailable \in OnUnavailables /\ mode \in Modes
    /\ call = [c \in Calls |-> call[c]]
    /\ \A c \in Calls : HasCallFields(call[c]) /\ call[c].text \in Texts \cup {NoOutput}
    /\ inspectCache \in Seq(Entries(Texts \cup {NoOutput}))

(* Why a call is at the harness's own rules.                               *)
MayBeHandedBack(r) == r.modes \cap {"allow", "off"} # {} \/ LeftToTheHarness(r)

(* What is known of a call before it has passed: a call at the guard has   *)
(* heard nothing yet, in the one mode its hook read, and only Codex hands  *)
(* a call over to a second hook.                                           *)
Earned(r) ==
    /\ r.stage = "new" => r = NewCall
    /\ r.stage = "deciding" => r.mode \in AsksIn /\ r.modes = {r.mode} /\ r.heard = {}
    /\ r.stage = "permitting" => adapter = "codex" /\ r.mode = "auto"
    /\ r.stage = "handed" => MayBeHandedBack(r)
    /\ r.stage = "passed" /\ r.by = "gate" => "allow" \in r.heard \cup r.modes
    /\ r.stage = "passed" /\ r.by = "harness" => MayBeHandedBack(r)

(* Why the model has been shown what the tool gave.                        *)
RawIsLawful(r) ==
    r.stage = "told" /\ r.told = "raw" /\ r.text # NoOutput =>
        \/ r.text \in cleared
        \/ r.met \in {"off", "not_implemented"}
        \/ r.met = "unreachable" /\ onUnavailable # "deny"
        \/ r.met = "exception" /\ adapter = "dsh"

(* The cache shows a text only if the guard has let it pass.               *)
CacheIsCleared ==
    \A i \in DOMAIN inspectCache :
        inspectCache[i].answer \in {"pass", "mask_without_text"} => inspectCache[i].text \in cleared

IInv ==
    /\ TypeOK
    /\ CacheIsCleared
    /\ \A c \in Calls : Earned(call[c]) /\ RawIsLawful(call[c])

----------------------------------------------------------------------------
(* Operators.                                                              *)

(* policy.ts, resolveOut in mode "auto": to allow is the guard's answer, or*)
(* what the rule says if the guard is gone and the policy is to fail open. *)
LEMMA ResolvedOut ==
    ASSUME onUnavailable \in OnUnavailables, NEW result \in DecideResults, NEW rule \in {"allow", "ask"}
    PROVE  LET decided == ResolveOut("auto", result, rule) IN
           /\ decided.status \in OutStatus
           /\ result \in OutStatus => decided.status = result /\ decided.source = "guard"
           /\ result \notin OutStatus => decided.source = "unavailable"
           /\ result \notin OutStatus /\ decided.status = "allow" =>
                 result = "unreachable" /\ onUnavailable = "allow" /\ rule = "allow"
<1>. DEFINE decided == ResolveOut("auto", result, rule)
<1>1. decided = [status |-> ResolveAnswer(result, onUnavailable, rule),
                 source |-> IF result \in OutStatus THEN "guard" ELSE "unavailable"]
  BY DEF ResolveOut
<1>2. decided.status = ResolveAnswer(result, onUnavailable, rule)
  BY <1>1
<1>3. decided.source = IF result \in OutStatus THEN "guard" ELSE "unavailable"
  BY <1>1
<1>. HIDE DEF decided
<1>4. CASE result \in OutStatus
  <2>1. decided.status = result /\ decided.source = "guard"
    BY <1>2, <1>3, <1>4 DEF ResolveAnswer
  <2>. QED BY <2>1, <1>4 DEF decided
<1>5. CASE result \notin OutStatus
  <2>1. decided.status = UnavailableOut(result, onUnavailable, rule) /\ decided.source = "unavailable"
    BY <1>2, <1>3, <1>5 DEF ResolveAnswer
  <2>2. CASE result # "unreachable"
    <3>1. decided.status = "ask"
      BY <2>1, <2>2 DEF UnavailableOut
    <3>. QED BY <3>1, <2>1, <1>5 DEF OutStatus, decided
  <2>3. CASE result = "unreachable" /\ onUnavailable = "allow"
    <3>1. decided.status = rule
      BY <2>1, <2>3 DEF UnavailableOut
    <3>. QED BY <3>1, <2>1, <2>3, <1>5 DEF OutStatus, decided
  <2>4. CASE result = "unreachable" /\ onUnavailable # "allow"
    <3>1. decided.status = onUnavailable
      BY <2>1, <2>4 DEF UnavailableOut
    <3>. QED BY <3>1, <2>1, <2>4, <1>5 DEF OutStatus, OnUnavailables, decided
  <2>. QED BY <2>2, <2>3, <2>4
<1>. QED BY <1>4, <1>5

(* policy.ts, resolveOut in the other modes: the mode is the answer.       *)
LEMMA ResolvedByMode ==
    ASSUME NEW m, m # "auto", NEW result, NEW rule
    PROVE  ResolveOut(m, result, rule) = [status |-> m, source |-> "mode"]
  BY DEF ResolveOut, ResolveLocally

(* The outcomes of a hook, field by field.                                 *)
LEMMA Outcomes ==
    ASSUME NEW r, HasCallFields(r), NEW who
    PROVE  /\ HasCallFields(NewCall) /\ NewCall.stage = "new" /\ NewCall.text = NoOutput
           /\ HasCallFields(Blocked(r)) /\ Blocked(r).stage = "blocked" /\ Blocked(r).text = NoOutput
           /\ HasCallFields(Prompted(r)) /\ Prompted(r).stage = "prompted" /\ Prompted(r).text = r.text
           /\ HasCallFields(HandedBack(r)) /\ HandedBack(r).stage = "handed"
           /\ HandedBack(r).text = r.text /\ HandedBack(r).modes = r.modes
           /\ HandedBack(r).heard = r.heard /\ (HandedBack(r).threw <=> r.threw)
           /\ HasCallFields(PassedBy(r, who)) /\ PassedBy(r, who).stage = "passed"
           /\ PassedBy(r, who).text = r.text /\ PassedBy(r, who).modes = r.modes
           /\ PassedBy(r, who).heard = r.heard /\ (PassedBy(r, who).threw <=> r.threw)
           /\ PassedBy(r, who).by = who
<1>1. /\ HasCallFields(NewCall) /\ NewCall.stage = "new" /\ NewCall.text = NoOutput
      /\ HasCallFields(Blocked(r)) /\ Blocked(r).stage = "blocked" /\ Blocked(r).text = NoOutput
  BY DEF HasCallFields, NewCall, Blocked
<1>2. HasCallFields(Prompted(r)) /\ Prompted(r).stage = "prompted" /\ Prompted(r).text = r.text
  BY DEF HasCallFields, Prompted
<1>3. /\ HasCallFields(HandedBack(r)) /\ HandedBack(r).stage = "handed"
      /\ HandedBack(r).text = r.text /\ HandedBack(r).modes = r.modes
      /\ HandedBack(r).heard = r.heard /\ (HandedBack(r).threw <=> r.threw)
  BY DEF HasCallFields, HandedBack
<1>4. /\ HasCallFields(PassedBy(r, who)) /\ PassedBy(r, who).stage = "passed"
      /\ PassedBy(r, who).text = r.text /\ PassedBy(r, who).modes = r.modes
      /\ PassedBy(r, who).heard = r.heard /\ (PassedBy(r, who).threw <=> r.threw)
      /\ PassedBy(r, who).by = who
  BY DEF HasCallFields, PassedBy
<1>. QED BY <1>1, <1>2, <1>3, <1>4

(* What an outgoing hook may make of a call.                               *)
Sound(r) ==
    HasCallFields(r) /\ r.text \in Texts \cup {NoOutput} /\ r.stage # "told" /\ Earned(r)

(* The reasons to hand a call back are the history's alone.                *)
LEMMA SameReasons ==
    ASSUME NEW r, NEW q, q.modes = r.modes, q.heard = r.heard, q.threw <=> r.threw, MayBeHandedBack(r)
    PROVE  MayBeHandedBack(q)
  BY DEF MayBeHandedBack, LeftToTheHarness

(* Every outcome of a hook is sound if there was a reason for it.          *)
LEMMA OutcomesAreSound ==
    ASSUME NEW r, HasCallFields(r), r.text \in Texts \cup {NoOutput}
    PROVE  /\ Sound(Blocked(r)) /\ Sound(Prompted(r)) /\ Sound(PassedBy(r, "human"))
           /\ "allow" \in r.heard \cup r.modes => Sound(PassedBy(r, "gate"))
           /\ MayBeHandedBack(r) => Sound(HandedBack(r)) /\ Sound(PassedBy(r, "harness"))
<1>1. Sound(Blocked(r)) /\ Sound(Prompted(r))
  BY Outcomes DEF Sound, Earned
<1>2. Sound(PassedBy(r, "human"))
  BY Outcomes DEF Sound, Earned
<1>3. ASSUME "allow" \in r.heard \cup r.modes PROVE Sound(PassedBy(r, "gate"))
  BY <1>3, Outcomes DEF Sound, Earned
<1>4. ASSUME MayBeHandedBack(r) PROVE Sound(HandedBack(r))
  <2>1. MayBeHandedBack(HandedBack(r))
    <3>1. HandedBack(r).modes = r.modes /\ HandedBack(r).heard = r.heard /\ (HandedBack(r).threw <=> r.threw)
      BY Outcomes
    <3>. QED BY <3>1, <1>4, SameReasons
  <2>. QED BY <2>1, Outcomes DEF Sound, Earned
<1>5. ASSUME MayBeHandedBack(r) PROVE Sound(PassedBy(r, "harness"))
  <2>1. MayBeHandedBack(PassedBy(r, "harness"))
    <3>1. /\ PassedBy(r, "harness").modes = r.modes /\ PassedBy(r, "harness").heard = r.heard
          /\ (PassedBy(r, "harness").threw <=> r.threw)
      BY Outcomes
    <3>. QED BY <3>1, <1>5, SameReasons
  <2>. QED BY <2>1, Outcomes DEF Sound, Earned
<1>. QED BY <1>1, <1>2, <1>3, <1>4, <1>5

(* What the outgoing hook of each adapter makes of a decision is sound if  *)
(* an allowance was earned, by the harness's own rules where it is theirs. *)
LEMMA EndsIsSound ==
    ASSUME adapter \in AllAdapters,
           NEW r, HasCallFields(r), r.text \in Texts \cup {NoOutput},
           NEW decided, decided.status \in OutStatus,
           adapter \in {"opencode2", "pi"} /\ decided.status = "allow" => "allow" \in r.heard \cup r.modes,
           adapter = "dsh" /\ decided.status = "allow" =>
               IF decided.source = "unavailable" THEN MayBeHandedBack(r) ELSE "allow" \in r.heard \cup r.modes,
           adapter = "codex" /\ (decided.status = "allow" \/
                                    (decided.status = "ask" /\ decided.source # "unavailable")) =>
               MayBeHandedBack(r)
    PROVE  Sound(Ends(r, decided))
<1>1. CASE adapter = "opencode2"
  <2>1. Ends(r, decided) = EndsOnOpencode2(r, decided)
    BY <1>1 DEF Ends
  <2>. QED BY <2>1, <1>1, OutcomesAreSound DEF EndsOnOpencode2
<1>2. CASE adapter = "pi"
  <2>1. Ends(r, decided) = EndsOnPi(r, decided)
    BY <1>2 DEF Ends
  <2>. QED BY <2>1, <1>2, OutcomesAreSound DEF EndsOnPi, OutStatus
<1>3. CASE adapter = "dsh"
  <2>1. Ends(r, decided) = EndsOnDsh(r, decided)
    BY <1>3 DEF Ends
  <2>. QED BY <2>1, <1>3, OutcomesAreSound DEF EndsOnDsh, OutStatus
<1>4. CASE adapter = "codex"
  <2>1. Ends(r, decided) = EndsOnCodex(r, decided)
    BY <1>4 DEF Ends
  <2>. QED BY <2>1, <1>4, OutcomesAreSound DEF EndsOnCodex, OutStatus
<1>. QED BY <1>1, <1>2, <1>3, <1>4 DEF AllAdapters

----------------------------------------------------------------------------
(* Steps.                                                                  *)

(* A step of one call keeps the invariant if it leaves the call and the    *)
(* cache as they must be.                                                  *)
LEMMA CallStep ==
    ASSUME IInv, NEW c \in Calls, Becomes(c, call'[c]), UNCHANGED config, mode' \in Modes,
           inspectCache' \in Seq(Entries(Texts \cup {NoOutput})), CacheIsCleared',
           cleared \subseteq cleared',
           HasCallFields(call'[c]), call'[c].text \in Texts \cup {NoOutput},
           Earned(call'[c]), RawIsLawful(call[c])'
    PROVE  IInv'
<1>1. call' = [d \in Calls |-> IF d = c THEN call'[c] ELSE call[d]]
  BY DEF IInv, TypeOK, Becomes
<1>2. \A d \in Calls \ {c} : call'[d] = call[d]
  BY <1>1
<1>3. call' = [d \in Calls |-> call'[d]]
  BY <1>1
<1>4. adapter' = adapter /\ onUnavailable' = onUnavailable
  BY DEF config
<1>5. TypeOK'
  BY <1>2, <1>3, <1>4 DEF IInv, TypeOK, HasCallFields
<1>6. ASSUME NEW d \in Calls PROVE Earned(call[d])'
  <2>1. Earned(call'[d])
    BY <1>2 DEF IInv
  <2>. QED BY <2>1, <1>4 DEF Earned, AsksIn, MayBeHandedBack, LeftToTheHarness
<1>7. ASSUME NEW d \in Calls PROVE RawIsLawful(call[d])'
  <2>1. CASE d = c
    BY <2>1
  <2>2. CASE d # c
    <3>1. RawIsLawful(call[d]) /\ call'[d] = call[d]
      BY <2>2, <1>2 DEF IInv
    <3>. QED BY <3>1, <1>4 DEF RawIsLawful
  <2>. QED BY <2>1, <2>2
<1>. QED BY <1>5, <1>6, <1>7 DEF IInv

(* A step of one call before its result is with the model.                 *)
LEMMA QuietStep ==
    ASSUME IInv, NEW c \in Calls, Becomes(c, call'[c]), UNCHANGED config, UNCHANGED modeVars,
           UNCHANGED inspectCache, UNCHANGED cleared, Sound(call'[c])
    PROVE  IInv'
<1>1. mode' \in Modes /\ inspectCache' \in Seq(Entries(Texts \cup {NoOutput})) /\ cleared \subseteq cleared'
  BY DEF IInv, TypeOK, modeVars
<1>2. CacheIsCleared'
  BY DEF IInv, CacheIsCleared
<1>3. RawIsLawful(call[c])'
  BY DEF Sound, RawIsLawful
<1>. QED BY <1>1, <1>2, <1>3, CallStep DEF Sound

(* What a hook that has just read the mode knows of the call.              *)
LEMMA NewCalls ==
    ASSUME IInv, NEW c \in Calls, call[c].stage = "new"
    PROVE  call[c] = NewCall
  BY DEF IInv, Earned

(* The hooks before the tool, the harness's rules and the human.           *)
LEMMA OutgoingKeepsIInv ==
    ASSUME IInv, NEW c \in Calls, Outgoing(c)
    PROVE  IInv'
<1>. USE DEF config, modeVars, dialogue
<1>1. /\ adapter \in AllAdapters /\ onUnavailable \in OnUnavailables /\ mode \in Modes
      /\ HasCallFields(call[c]) /\ call[c].text \in Texts \cup {NoOutput} /\ Earned(call[c])
  BY DEF IInv, TypeOK
<1>2. ASSUME NEW r, Becomes(c, r)
      PROVE  Becomes(c, call'[c]) /\ call'[c] = r
  BY <1>2 DEF Becomes, IInv, TypeOK
<1>3. Baseline \in {"allow", "ask"} /\ (adapter # "dsh" => Baseline = "ask")
  BY DEF Baseline
<1>4. CASE Pre(c)
  <2>. PICK sends : sends = Sends(c)
    OBVIOUS
  <2>. DEFINE r == [call[c] EXCEPT !.mode = mode, !.modes = {mode}]
              asking == [r EXCEPT !.stage = "deciding", !.request = sends]
  <2>1. call[c] = NewCall
    BY <1>4, NewCalls DEF Pre
  <2>2. /\ HasCallFields(r) /\ r.text \in Texts \cup {NoOutput} /\ r.mode = mode /\ r.modes = {mode}
        /\ r.heard = {}
    BY <2>1, <1>1 DEF HasCallFields, NewCall
  <2>3. UNCHANGED <<config, modeVars, inspectCache, cleared>>
    BY <1>4 DEF Pre
  <2>. HIDE DEF r
  <2>4. CASE mode \in AsksIn
    <3>1. Becomes(c, asking)
      BY <1>4, <2>4 DEF Pre, r, AsksIn
    <3>2. Sound(asking)
      <4>1. /\ HasCallFields(asking) /\ asking.text = r.text /\ asking.stage = "deciding"
            /\ asking.mode = mode /\ asking.modes = {mode} /\ asking.heard = {}
        BY <2>2 DEF HasCallFields
      <4>. QED BY <4>1, <2>2, <2>4 DEF Sound, Earned
    <3>. HIDE DEF asking
    <3>. QED BY <3>1, <3>2, <2>3, <1>2, QuietStep
  <2>5. CASE mode = "off"
    <3>1. Becomes(c, HandedBack(r))
      BY <1>4, <2>5 DEF Pre, r, AsksIn
    <3>2. Sound(HandedBack(r))
      BY <2>2, <2>5, OutcomesAreSound DEF MayBeHandedBack
    <3>. QED BY <3>1, <3>2, <2>3, <1>2, QuietStep
  <2>6. CASE mode = "allow" /\ adapter = "codex"
    <3>1. Becomes(c, HandedBack(r))
      BY <1>4, <2>6 DEF Pre, r, AsksIn
    <3>2. Sound(HandedBack(r))
      BY <2>2, <2>6, OutcomesAreSound DEF MayBeHandedBack
    <3>. QED BY <3>1, <3>2, <2>3, <1>2, QuietStep
  <2>7. CASE mode \notin AsksIn /\ mode # "off" /\ ~(mode = "allow" /\ adapter = "codex")
    <3>. DEFINE decided == ResolveOut(mode, "unreachable", Baseline)
    <3>1. Becomes(c, Ends(r, decided))
      BY <1>4, <2>7 DEF Pre, r
    <3>2. mode \in {"allow", "ask"} /\ adapter # "codex" /\ (adapter = "dsh" => mode = "allow")
      BY <2>7, <1>1 DEF AsksIn, Modes
    <3>3. decided = [status |-> mode, source |-> "mode"]
      BY <3>2, ResolvedByMode
    <3>4. decided.status = mode /\ decided.source = "mode"
      BY <3>3
    <3>. HIDE DEF decided
    <3>5. Sound(Ends(r, decided))
      BY <3>2, <3>4, <2>2, <1>1, EndsIsSound DEF OutStatus
    <3>. QED BY <3>1, <3>5, <2>3, <1>2, QuietStep
  <2>. QED BY <2>4, <2>5, <2>6, <2>7
<1>5. ASSUME NEW result \in DecideResults, GuardDecides(c, result) PROVE IInv'
  <2>. DEFINE r == Heard(call[c], result)
              decided == ResolveOut(call[c].mode, result, Baseline)
  <2>1. /\ call[c].stage = "deciding" /\ Becomes(c, Ends(r, decided))
        /\ UNCHANGED <<config, modeVars, inspectCache, cleared>>
    BY <1>5 DEF GuardDecides
  <2>2. call[c].mode \in AsksIn /\ call[c].modes = {call[c].mode} /\ call[c].heard = {}
    BY <2>1, <1>1 DEF Earned
  <2>3. /\ HasCallFields(r) /\ r.text \in Texts \cup {NoOutput} /\ r.modes = {call[c].mode}
        /\ r.heard = IF call[c].mode = "auto" THEN {result} ELSE {}
    BY <2>2, <1>1 DEF Heard, HasCallFields
  <2>. HIDE DEF r
  <2>4. CASE call[c].mode = "auto"
    <3>1. /\ decided.status \in OutStatus
          /\ result \in OutStatus => decided.status = result /\ decided.source = "guard"
          /\ result \notin OutStatus => decided.source = "unavailable"
          /\ result \notin OutStatus /\ decided.status = "allow" =>
                result = "unreachable" /\ onUnavailable = "allow" /\ Baseline = "allow"
      BY <2>4, <1>1, <1>3, ResolvedOut
    <3>2. r.heard = {result}
      BY <2>3, <2>4
    <3>. HIDE DEF decided
    <3>3. result = "allow" => "allow" \in r.heard
      BY <3>2
    <3>4. CASE result \in OutStatus
      <4>1. decided.status = result /\ decided.source = "guard"
        BY <3>1, <3>4
      <4>2. adapter = "codex" /\ result \in {"allow", "ask"} => MayBeHandedBack(r)
        BY <3>2 DEF MayBeHandedBack, LeftToTheHarness
      <4>3. Sound(Ends(r, decided))
        BY <4>1, <4>2, <3>3, <3>4, <2>3, <1>1, EndsIsSound
      <4>. QED BY <4>3, <2>1, <1>2, QuietStep
    <3>5. CASE result \notin OutStatus
      <4>1. decided.source = "unavailable"
        BY <3>1, <3>5
      <4>2. decided.status = "allow" => adapter = "dsh" /\ MayBeHandedBack(r)
        BY <3>1, <3>2, <3>5, <1>3 DEF MayBeHandedBack, LeftToTheHarness
      <4>3. Sound(Ends(r, decided))
        BY <4>1, <4>2, <3>1, <2>3, <1>1, EndsIsSound
      <4>. QED BY <4>3, <2>1, <1>2, QuietStep
    <3>. QED BY <3>4, <3>5
  <2>5. CASE call[c].mode # "auto"
    <3>1. call[c].mode = "ask" /\ adapter \in {"dsh", "codex"}
      BY <2>2, <2>5 DEF AsksIn
    <3>2. decided = [status |-> "ask", source |-> "mode"]
      BY <3>1, ResolvedByMode
    <3>3. decided.status = "ask" /\ decided.source = "mode"
      BY <3>2
    <3>. HIDE DEF decided
    <3>4. adapter = "codex" => MayBeHandedBack(r)
      BY <3>1, <2>3 DEF MayBeHandedBack, LeftToTheHarness
    <3>5. Sound(Ends(r, decided))
      BY <3>1, <3>3, <3>4, <2>3, <1>1, EndsIsSound DEF OutStatus
    <3>. QED BY <3>5, <2>1, <1>2, QuietStep
  <2>. QED BY <2>4, <2>5
<1>6. CASE PreThrows(c)
  <2>. DEFINE r == [call[c] EXCEPT !.threw = TRUE, !.modes = {mode}]
  <2>1. /\ adapter = "dsh" /\ Becomes(c, HandedBack(r))
        /\ UNCHANGED <<config, modeVars, inspectCache, cleared>>
    BY <1>6 DEF PreThrows
  <2>2. HasCallFields(r) /\ r.text \in Texts \cup {NoOutput} /\ r.threw
    BY <1>1 DEF HasCallFields
  <2>. HIDE DEF r
  <2>3. MayBeHandedBack(r)
    BY <2>1, <2>2 DEF MayBeHandedBack, LeftToTheHarness
  <2>4. Sound(HandedBack(r))
    BY <2>2, <2>3, OutcomesAreSound
  <2>. QED BY <2>1, <2>4, <1>2, QuietStep
<1>7. CASE HarnessAllows(c)
  <2>1. /\ call[c].stage = "handed" /\ Becomes(c, PassedBy(call[c], "harness"))
        /\ UNCHANGED <<config, modeVars, inspectCache, cleared>>
    BY <1>7 DEF HarnessAllows
  <2>2. Sound(PassedBy(call[c], "harness"))
    BY <2>1, <1>1, OutcomesAreSound DEF Earned
  <2>. QED BY <2>1, <2>2, <1>2, QuietStep
<1>8. CASE DshPrompts(c)
  <2>1. Becomes(c, Prompted(call[c])) /\ UNCHANGED <<config, modeVars, inspectCache, cleared>>
    BY <1>8 DEF DshPrompts
  <2>2. Sound(Prompted(call[c]))
    BY <1>1, OutcomesAreSound
  <2>. QED BY <2>1, <2>2, <1>2, QuietStep
<1>9. CASE Perm(c)
  <2>. PICK sends : sends = Sends(c)
    OBVIOUS
  <2>. DEFINE r == [call[c] EXCEPT !.mode = mode, !.modes = @ \cup {mode}]
              asking == [r EXCEPT !.stage = "permitting", !.request = sends]
  <2>1. adapter = "codex" /\ UNCHANGED <<config, modeVars, inspectCache, cleared>>
    BY <1>9 DEF Perm
  <2>2. HasCallFields(r) /\ r.text \in Texts \cup {NoOutput} /\ r.mode = mode /\ mode \in r.modes
    BY <1>1 DEF HasCallFields
  <2>. HIDE DEF r
  <2>3. CASE mode = "auto"
    <3>1. Becomes(c, asking)
      BY <1>9, <2>3 DEF Perm, r
    <3>2. Sound(asking)
      <4>1. HasCallFields(asking) /\ asking.text = r.text /\ asking.stage = "permitting" /\ asking.mode = mode
        BY <2>2 DEF HasCallFields
      <4>. QED BY <4>1, <2>1, <2>2, <2>3 DEF Sound, Earned
    <3>. HIDE DEF asking
    <3>. QED BY <3>1, <3>2, <2>1, <1>2, QuietStep
  <2>4. CASE mode = "allow"
    <3>1. Becomes(c, PassedBy(r, "gate"))
      BY <1>9, <2>4 DEF Perm, r
    <3>2. Sound(PassedBy(r, "gate"))
      BY <2>2, <2>4, OutcomesAreSound
    <3>. QED BY <3>1, <3>2, <2>1, <1>2, QuietStep
  <2>5. CASE mode \notin {"auto", "allow"}
    <3>1. Becomes(c, Prompted(r))
      BY <1>9, <2>5 DEF Perm, r
    <3>2. Sound(Prompted(r))
      BY <2>2, OutcomesAreSound
    <3>. QED BY <3>1, <3>2, <2>1, <1>2, QuietStep
  <2>. QED BY <2>3, <2>4, <2>5
<1>10. ASSUME NEW result \in DecideResults, GuardPermits(c, result) PROVE IInv'
  <2>. DEFINE r == Heard(call[c], result)
              decided == ResolveOut("auto", result, Baseline)
  <2>1. call[c].stage = "permitting" /\ UNCHANGED <<config, modeVars, inspectCache, cleared>>
    BY <1>10 DEF GuardPermits
  <2>2. call[c].mode = "auto" /\ adapter = "codex"
    BY <2>1, <1>1 DEF Earned
  <2>3. HasCallFields(r) /\ r.text \in Texts \cup {NoOutput} /\ result \in r.heard
    BY <2>2, <1>1 DEF Heard, HasCallFields
  <2>4. Becomes(c, IF decided.status = "allow" THEN PassedBy(r, "gate")
                   ELSE IF decided.status = "deny" THEN Blocked(r) ELSE Prompted(r))
    BY <1>10 DEF GuardPermits
  <2>5. decided.status = "allow" => result = "allow"
    BY <2>2, <1>1, <1>3, ResolvedOut
  <2>. HIDE DEF r, decided
  <2>6. CASE decided.status = "allow"
    <3>1. Becomes(c, PassedBy(r, "gate")) /\ Sound(PassedBy(r, "gate"))
      BY <2>3, <2>4, <2>5, <2>6, OutcomesAreSound
    <3>. QED BY <3>1, <2>1, <1>2, QuietStep
  <2>7. CASE decided.status = "deny"
    <3>1. Becomes(c, Blocked(r)) /\ Sound(Blocked(r))
      BY <2>3, <2>4, <2>7, OutcomesAreSound
    <3>. QED BY <3>1, <2>1, <1>2, QuietStep
  <2>8. CASE decided.status \notin {"allow", "deny"}
    <3>1. Becomes(c, Prompted(r)) /\ Sound(Prompted(r))
      BY <2>3, <2>4, <2>8, OutcomesAreSound
    <3>. QED BY <3>1, <2>1, <1>2, QuietStep
  <2>. QED BY <2>6, <2>7, <2>8
<1>11. CASE HumanAnswers(c)
  <2>1. /\ Becomes(c, PassedBy(call[c], "human")) \/ Becomes(c, Blocked(call[c]))
        /\ UNCHANGED <<config, modeVars, inspectCache, cleared>>
    BY <1>11 DEF HumanAnswers
  <2>2. Sound(PassedBy(call[c], "human")) /\ Sound(Blocked(call[c]))
    BY <1>1, OutcomesAreSound
  <2>. QED BY <2>1, <2>2, <1>2, QuietStep
<1>. QED BY <1>4, <1>5, <1>6, <1>7, <1>8, <1>9, <1>10, <1>11 DEF Outgoing

(* What a call is when the result is with the model.                       *)
LEMMA ToldCalls ==
    ASSUME NEW r, HasCallFields(r), r.text \in Texts \cup {NoOutput}, NEW as
    PROVE  /\ HasCallFields(Told(r, as)) /\ Told(r, as).text \in Texts \cup {NoOutput}
           /\ Told(r, as).stage = "told" /\ Told(r, as).told = as /\ Earned(Told(r, as))
           /\ as = "raw" => Told(r, as).text = r.text /\ Told(r, as).met = r.met
<1>1. CASE as = "raw"
  <2>1. Told(r, as) = [r EXCEPT !.stage = "told", !.told = as, !.request = NoRequest]
    BY <1>1 DEF Told
  <2>2. /\ HasCallFields(Told(r, as)) /\ Told(r, as).text = r.text /\ Told(r, as).met = r.met
        /\ Told(r, as).stage = "told" /\ Told(r, as).told = as
    BY <2>1 DEF HasCallFields
  <2>. QED BY <2>2 DEF Earned
<1>2. CASE as # "raw"
  <2>1. Told(r, as) = [NewCall EXCEPT !.stage = "told", !.told = as, !.request = NoRequest]
    BY <1>2 DEF Told
  <2>2. /\ HasCallFields(Told(r, as)) /\ Told(r, as).text = NoOutput
        /\ Told(r, as).stage = "told" /\ Told(r, as).told = as
    BY <2>1 DEF HasCallFields, NewCall
  <2>. QED BY <2>2, <1>2 DEF Earned
<1>. QED BY <1>1, <1>2

(* policy.ts, resolveIn: when the model is shown what the tool gave.       *)
LEMMA ShownRaw ==
    ASSUME NEW result \in InspectResults, onUnavailable \in OnUnavailables,
           ResolveIn(result, onUnavailable) = "raw"
    PROVE  \/ result \in {"pass", "mask_without_text"}
           \/ result = "not_implemented"
           \/ result = "unreachable" /\ onUnavailable # "deny"
  BY DEF ResolveIn, InspectResults, InspectAnswers, Failures

(* A step that tells the model something and changes neither the cache nor *)
(* what has been cleared.                                                  *)
LEMMA TellingStep ==
    ASSUME IInv, NEW c \in Calls, Becomes(c, call'[c]), UNCHANGED config, UNCHANGED modeVars,
           UNCHANGED inspectCache, UNCHANGED cleared,
           HasCallFields(call'[c]), call'[c].text \in Texts \cup {NoOutput}, Earned(call'[c]),
           RawIsLawful(call'[c])
    PROVE  IInv'
<1>1. mode' \in Modes /\ inspectCache' \in Seq(Entries(Texts \cup {NoOutput})) /\ cleared \subseteq cleared'
  BY DEF IInv, TypeOK, modeVars
<1>2. CacheIsCleared'
  BY DEF IInv, CacheIsCleared
<1>3. RawIsLawful(call[c])'
  BY DEF RawIsLawful, config
<1>. QED BY <1>1, <1>2, <1>3, CallStep

(* The tool and the hook after it.                                         *)
LEMMA IncomingKeepsIInv ==
    ASSUME IInv, NEW c \in Calls, Incoming(c)
    PROVE  IInv'
<1>. USE DEF config, modeVars, dialogue
<1>1. /\ adapter \in AllAdapters /\ onUnavailable \in OnUnavailables /\ mode \in Modes
      /\ HasCallFields(call[c]) /\ call[c].text \in Texts \cup {NoOutput} /\ Earned(call[c])
      /\ inspectCache \in Seq(Entries(Texts \cup {NoOutput})) /\ CacheIsCleared
  BY DEF IInv, TypeOK
<1>2. ASSUME NEW r, Becomes(c, r)
      PROVE  Becomes(c, call'[c]) /\ call'[c] = r
  BY <1>2 DEF Becomes, IInv, TypeOK
<1>3. ASSUME NEW text \in Texts \cup {NoOutput}, ToolRuns(c, text) PROVE IInv'
  <2>. DEFINE r == [NewCall EXCEPT !.stage = "ran", !.text = text]
  <2>1. Becomes(c, r) /\ UNCHANGED <<config, modeVars, inspectCache, cleared>>
    BY <1>3 DEF ToolRuns
  <2>2. HasCallFields(r) /\ r.stage = "ran" /\ r.text \in Texts \cup {NoOutput}
    BY DEF HasCallFields, NewCall
  <2>. HIDE DEF r
  <2>3. Sound(r)
    BY <2>2 DEF Sound, Earned
  <2>. QED BY <2>1, <2>3, <1>2, QuietStep
<1>4. CASE Inspect(c)
  <2>. PICK sends : sends = Sends(c)
    OBVIOUS
  <2>. DEFINE r == call[c]
              raw == [Told(r, "raw") EXCEPT !.met = IF mode = "off" THEN "off" ELSE @]
              asking == [r EXCEPT !.stage = "inspecting", !.request = sends]
  <2>1. UNCHANGED <<config, modeVars, inspectCache, cleared>>
    BY <1>4 DEF Inspect
  <2>2. CASE mode = "off" \/ r.text = NoOutput
    <3>1. Becomes(c, raw)
      BY <1>4, <2>2 DEF Inspect
    <3>2. /\ HasCallFields(raw) /\ raw.text = r.text /\ raw.stage = "told"
          /\ mode = "off" => raw.met = "off"
      <4>. DEFINE told == Told(r, "raw")
      <4>1. HasCallFields(told) /\ told.text = r.text /\ told.stage = "told"
        BY <1>1, ToldCalls
      <4>. HIDE DEF told
      <4>2. raw = [told EXCEPT !.met = IF mode = "off" THEN "off" ELSE told.met]
        BY DEF told
      <4>. QED BY <4>1, <4>2 DEF HasCallFields
    <3>. HIDE DEF raw
    <3>3. Earned(raw) /\ RawIsLawful(raw)
      BY <3>2, <2>2 DEF Earned, RawIsLawful
    <3>. QED BY <3>1, <3>2, <3>3, <2>1, <1>1, <1>2, TellingStep
  <2>3. ASSUME NEW answer \in Cached(inspectCache, r.text),
               Becomes(c, Told(r, ResolveIn(answer, onUnavailable)))
        PROVE  IInv'
    <3>. DEFINE as == ResolveIn(answer, onUnavailable)
    <3>1. PICK i \in DOMAIN inspectCache : inspectCache[i].text = r.text /\ inspectCache[i].answer = answer
      BY <2>3 DEF Cached
    <3>2. answer \in InspectAnswers
      <4>1. inspectCache[i] \in Entries(Texts \cup {NoOutput})
        BY <1>1
      <4>. QED BY <4>1, <3>1 DEF Entries
    <3>3. as = "raw" => r.text \in cleared
      <4>1. as = "raw" => answer \in {"pass", "mask_without_text"}
        BY <3>2 DEF ResolveIn, InspectAnswers
      <4>. QED BY <4>1, <3>1, <1>1 DEF CacheIsCleared
    <3>. HIDE DEF as
    <3>4. /\ HasCallFields(Told(r, as)) /\ Told(r, as).text \in Texts \cup {NoOutput}
          /\ Told(r, as).stage = "told" /\ Told(r, as).told = as /\ Earned(Told(r, as))
          /\ as = "raw" => Told(r, as).text = r.text /\ Told(r, as).met = r.met
      <4>. HIDE DEF r
      <4>1. HasCallFields(r) /\ r.text \in Texts \cup {NoOutput}
        BY <1>1 DEF r
      <4>. QED BY <4>1, ToldCalls
    <3>5. RawIsLawful(Told(r, as))
      BY <3>3, <3>4 DEF RawIsLawful
    <3>6. Becomes(c, Told(r, as))
      BY <2>3 DEF as
    <3>. QED BY <3>4, <3>5, <3>6, <2>1, <1>2, TellingStep
  <2>4. CASE Becomes(c, asking)
    <3>1. HasCallFields(asking) /\ asking.stage = "inspecting" /\ asking.text = r.text
      BY <1>1 DEF HasCallFields
    <3>. HIDE DEF asking
    <3>2. Sound(asking)
      BY <3>1, <1>1 DEF Sound, Earned
    <3>. QED BY <2>4, <3>2, <2>1, <1>2, QuietStep
  <2>. QED BY <1>4, <2>2, <2>3, <2>4 DEF Inspect
<1>5. CASE InspectThrows(c)
  <2>. DEFINE raw == [Told(call[c], "raw") EXCEPT !.met = "exception"]
  <2>1. adapter = "dsh" /\ Becomes(c, raw) /\ UNCHANGED <<config, modeVars, inspectCache, cleared>>
    BY <1>5 DEF InspectThrows
  <2>2. HasCallFields(raw) /\ raw.text = call[c].text /\ raw.stage = "told" /\ raw.met = "exception"
    <3>. DEFINE told == Told(call[c], "raw")
    <3>1. HasCallFields(told) /\ told.text = call[c].text /\ told.stage = "told"
      BY <1>1, ToldCalls
    <3>. HIDE DEF told
    <3>2. raw = [told EXCEPT !.met = "exception"]
      BY DEF told
    <3>. QED BY <3>1, <3>2 DEF HasCallFields
  <2>. HIDE DEF raw
  <2>3. Earned(raw) /\ RawIsLawful(raw)
    BY <2>1, <2>2 DEF Earned, RawIsLawful
  <2>. QED BY <2>1, <2>2, <2>3, <1>1, <1>2, TellingStep
<1>6. ASSUME NEW result \in InspectResults, GuardInspects(c, result) PROVE IInv'
  <2>. DEFINE r == [call[c] EXCEPT !.met = IF result \in Failures THEN result ELSE @]
              as == ResolveIn(result, onUnavailable)
  <2>1. /\ Becomes(c, Told(r, as)) /\ UNCHANGED <<config, modeVars>>
        /\ inspectCache' = Remembered(inspectCache, r.text, result)
        /\ cleared' = IF result \in {"pass", "mask_without_text"} THEN cleared \cup {r.text} ELSE cleared
    BY <1>6 DEF GuardInspects
  <2>2. /\ HasCallFields(r) /\ r.text = call[c].text
        /\ result \in Failures => r.met = result
    BY <1>1 DEF HasCallFields
  <2>. HIDE DEF r
  <2>3. /\ inspectCache' \in Seq(Entries(Texts \cup {NoOutput}))
        /\ \A i \in DOMAIN inspectCache' :
              \/ inspectCache'[i] = [text |-> r.text, answer |-> result]
              \/ \E j \in DOMAIN inspectCache : inspectCache'[i] = inspectCache[j]
    <3>1. CASE adapter \in {"opencode2", "pi"} /\ result \in InspectAnswers
      <4>1. inspectCache' = Keep(inspectCache, r.text, result)
        BY <2>1, <3>1 DEF Remembered
      <4>2. r.text \in Texts \cup {NoOutput}
        BY <2>2, <1>1
      <4>. DEFINE kept == Keep(inspectCache, r.text, result)
      <4>3. /\ kept \in Seq(Entries(Texts \cup {NoOutput}))
            /\ \A i \in DOMAIN kept : \/ kept[i] = [text |-> r.text, answer |-> result]
                                     \/ \E j \in DOMAIN inspectCache : kept[i] = inspectCache[j]
        <5>. DEFINE T == Texts \cup {NoOutput}
                    text == r.text
        <5>1. inspectCache \in Seq(Entries(T)) /\ text \in T /\ result \in InspectAnswers
          BY <4>2, <3>1, <1>1
        <5>. HIDE DEF T, text
        <5>2. /\ Keep(inspectCache, text, result) \in Seq(Entries(T))
              /\ \A i \in DOMAIN Keep(inspectCache, text, result) :
                    \/ Keep(inspectCache, text, result)[i] = [text |-> text, answer |-> result]
                    \/ \E j \in DOMAIN inspectCache : Keep(inspectCache, text, result)[i] = inspectCache[j]
          BY <5>1, KeepEntries
        <5>. QED BY <5>2 DEF T, text
      <4>. HIDE DEF kept
      <4>4. inspectCache' = kept
        BY <4>1 DEF kept
      <4>. QED BY <4>3, <4>4
    <3>2. CASE ~(adapter \in {"opencode2", "pi"} /\ result \in InspectAnswers)
      <4>1. inspectCache' = inspectCache
        BY <2>1, <3>2 DEF Remembered
      <4>. QED BY <4>1, <1>1
    <3>. QED BY <3>1, <3>2
  <2>4. cleared \subseteq cleared'
    BY <2>1
  <2>5. CacheIsCleared'
    <3>. SUFFICES ASSUME NEW i \in DOMAIN inspectCache',
                         inspectCache'[i].answer \in {"pass", "mask_without_text"}
                  PROVE  inspectCache'[i].text \in cleared'
      BY DEF CacheIsCleared
    <3>1. CASE inspectCache'[i] = [text |-> r.text, answer |-> result]
      BY <2>1, <3>1
    <3>2. CASE \E j \in DOMAIN inspectCache : inspectCache'[i] = inspectCache[j]
      BY <3>2, <2>4, <1>1 DEF CacheIsCleared
    <3>. QED BY <2>3, <3>1, <3>2
  <2>6. as = "raw" => \/ r.text \in cleared'
                      \/ r.met = "not_implemented"
                      \/ r.met = "unreachable" /\ onUnavailable # "deny"
    BY <2>1, <2>2, <1>1, ShownRaw DEF Failures
  <2>. HIDE DEF as
  <2>7. /\ HasCallFields(Told(r, as)) /\ Told(r, as).text \in Texts \cup {NoOutput}
        /\ Told(r, as).stage = "told" /\ Told(r, as).told = as /\ Earned(Told(r, as))
        /\ as = "raw" => Told(r, as).text = r.text /\ Told(r, as).met = r.met
    BY <2>2, <1>1, ToldCalls
  <2>8. Becomes(c, call'[c]) /\ call'[c] = Told(r, as)
    BY <2>1, <1>2
  <2>9. RawIsLawful(call[c])'
    BY <2>1, <2>6, <2>7, <2>8 DEF RawIsLawful
  <2>. QED BY <2>1, <2>3, <2>4, <2>5, <2>7, <2>8, <2>9, <1>1, CallStep
<1>. QED BY <1>3, <1>4, <1>5, <1>6 DEF Incoming

----------------------------------------------------------------------------

(* A fresh process satisfies the invariant.                                *)
LEMMA InitIInv == Init => IInv
<1>. SUFFICES ASSUME Init PROVE IInv
  OBVIOUS
<1>1. \A c \in Calls : call[c] = NewCall
  BY DEF Init
<1>2. HasCallFields(NewCall) /\ NewCall.stage = "new" /\ NewCall.text = NoOutput
  BY DEF HasCallFields, NewCall
<1>3. TypeOK
  BY <1>1, <1>2 DEF Init, TypeOK
<1>4. CacheIsCleared
  BY DEF Init, CacheIsCleared
<1>5. \A c \in Calls : Earned(call[c]) /\ RawIsLawful(call[c])
  BY <1>1, <1>2 DEF Earned, RawIsLawful
<1>. QED BY <1>3, <1>4, <1>5 DEF IInv

(* A step that leaves the calls, the configuration and the cache alone.    *)
LEMMA OtherStep ==
    ASSUME IInv, mode' \in Modes, UNCHANGED <<config, inspectCache, call, cleared>>
    PROVE  IInv'
<1>1. TypeOK'
  BY DEF IInv, TypeOK, config, HasCallFields
<1>2. CacheIsCleared'
  BY DEF IInv, CacheIsCleared
<1>3. \A c \in Calls : Earned(call[c])' /\ RawIsLawful(call[c])'
  BY DEF IInv, config, Earned, AsksIn, MayBeHandedBack, LeftToTheHarness, RawIsLawful
<1>. QED BY <1>1, <1>2, <1>3 DEF IInv

(* Every step preserves it.                                                *)
LEMMA NextKeepsIInv == IInv /\ [Next]_vars => IInv'
<1>. SUFFICES ASSUME IInv, [Next]_vars PROVE IInv'
  OBVIOUS
<1>0. mode \in Modes
  BY DEF IInv, TypeOK
<1>1. ASSUME NEW c \in Calls, Outgoing(c) PROVE IInv'
  BY <1>1, OutgoingKeepsIInv
<1>2. ASSUME NEW c \in Calls, Incoming(c) PROVE IInv'
  BY <1>2, IncomingKeepsIInv
<1>3. ASSUME NEW m \in Messages, NEW s \in Sessions, HumanSays(m, s) PROVE IInv'
  BY <1>0, <1>3, OtherStep DEF HumanSays, modeVars
<1>4. ASSUME NEW m \in Modes, ModeIsWritten(m) PROVE IInv'
  BY <1>4, OtherStep DEF ModeIsWritten
<1>5. CASE UNCHANGED vars
  BY <1>0, <1>5, OtherStep DEF vars, config
<1>. QED BY <1>1, <1>2, <1>3, <1>4, <1>5 DEF Next

(* It is an invariant.                                                     *)
LEMMA IInvHolds == Spec => []IInv
  BY InitIInv, NextKeepsIInv, PTL DEF Spec

(* No call runs without a human but for a mode that says so, the guard's   *)
(* allowance, or the harness's own rules where the gate left it to them.   *)
THEOREM SilentRunsAreEarned == Spec => []SilentRunIsEarned
<1>1. IInv => SilentRunIsEarned
  BY DEF IInv, Earned, MayBeHandedBack, SilentRunIsEarned
<1>. QED BY <1>1, IInvHolds, PTL

(* No result reaches the model as the tool gave it unless the guard let it *)
(* pass, the gate is off, or the failure policy says so: no answer of the  *)
(* cache, for any of its limits, and no error passes for a clearance.      *)
THEOREM RawTextsWereCleared == Spec => []RawTextWasCleared
<1>1. IInv => RawTextWasCleared
  BY DEF IInv, RawIsLawful, RawTextWasCleared
<1>. QED BY <1>1, IInvHolds, PTL

----------------------------------------------------------------------------
(* Sums, and the least and the greatest.                                   *)

(* Induction and recursion below a bound, from module TtlStoreProofs.      *)
LEMMA BoundedInduction ==
    ASSUME NEW N \in Nat, NEW P \in SUBSET (0 .. N), 0 \in P, \A n \in P : n < N => n + 1 \in P
    PROVE  P = 0 .. N
  BY Numbers!BoundedInduction

(* A step that stays in a set can be repeated from any base of it.         *)
LEMMA BoundedRecursion ==
    ASSUME NEW N \in Nat, NEW S, NEW base \in S, NEW step, Numbers!Stays(N, S, step)
    PROVE  Numbers!Recursion(N, S, base, step) # {}
  BY Numbers!BoundedRecursion

(* Sums of sequences, from the same module.                                *)
LEMMA SameTotal ==
    ASSUME NEW numbers
    PROVE  Numbers!Total(numbers) = Total(numbers)
  BY DEF Numbers!Total, Total

LEMMA TotalRecursion ==
    ASSUME NEW numbers \in Seq(Nat)
    PROVE  Numbers!Totals(numbers) # {}
  BY Numbers!TotalRecursion

(* Its value is a number, and nothing for no numbers.                      *)
LEMMA TotalType ==
    ASSUME NEW numbers \in Seq(Nat)
    PROVE  /\ Total(numbers) \in Nat
           /\ numbers = <<>> => Total(numbers) = 0
<1>1. PICK t : t \in Numbers!Totals(numbers)
  BY TotalRecursion
<1>2. Len(numbers) \in 0 .. Len(numbers) /\ numbers = <<>> => Len(numbers) = 0
  OBVIOUS
<1>. QED BY <1>1, <1>2, SameTotal DEF Numbers!Totals

(* Greater numbers have a greater sum.                                     *)
LEMMA TotalIsMonotone ==
    ASSUME NEW a \in Seq(Nat), NEW b \in Seq(Nat), Len(a) = Len(b), \A i \in DOMAIN a : a[i] <= b[i]
    PROVE  Total(a) <= Total(b)
<1>1. PICK s : s \in Numbers!Totals(a)
  BY TotalRecursion
<1>2. PICK t : t \in Numbers!Totals(b)
  BY TotalRecursion
<1>. DEFINE N == Len(a)
            P == {n \in 0 .. N : s[n] <= t[n]}
<1>3. /\ s \in [0 .. N -> Nat] /\ s[0] = 0 /\ \A n \in 1 .. N : s[n] = s[n - 1] + a[n]
      /\ Total(a) = s[N]
  BY <1>1, SameTotal DEF Numbers!Totals
<1>9. /\ t \in [0 .. N -> Nat] /\ t[0] = 0 /\ \A n \in 1 .. N : t[n] = t[n - 1] + b[n]
      /\ Total(b) = t[N]
  BY <1>2, SameTotal DEF Numbers!Totals
<1>10. N \in Nat /\ \A n \in 1 .. N : a[n] \in Nat /\ b[n] \in Nat /\ a[n] <= b[n]
  OBVIOUS
<1>. HIDE DEF N
<1>4. 0 \in P
  BY <1>3, <1>9, <1>10
<1>5. \A n \in P : n < N => n + 1 \in P
  <2>. SUFFICES ASSUME NEW n \in P, n < N PROVE n + 1 \in P
    OBVIOUS
  <2>1. n \in 0 .. N /\ n + 1 \in 1 .. N /\ n + 1 \in 0 .. N /\ (n + 1) - 1 = n /\ s[n] <= t[n]
    BY <1>3, <1>9, <1>10
  <2>2. s[n + 1] = s[n] + a[n + 1] /\ t[n + 1] = t[n] + b[n + 1]
    BY <1>3, <1>9, <1>10, <2>1
  <2>3. s[n] \in Nat /\ t[n] \in Nat /\ a[n + 1] \in Nat /\ b[n + 1] \in Nat /\ a[n + 1] <= b[n + 1]
    BY <1>3, <1>9, <1>10, <2>1
  <2>4. s[n + 1] <= t[n + 1]
    BY <2>1, <2>2, <2>3
  <2>. QED BY <2>1, <2>4
<1>6. P \in SUBSET (0 .. N)
  OBVIOUS
<1>. HIDE DEF P
<1>7. P = 0 .. N
  BY <1>3, <1>9, <1>10, <1>4, <1>5, <1>6, BoundedInduction
<1>8. N \in P
  BY <1>3, <1>9, <1>10, <1>7
<1>. QED BY <1>3, <1>9, <1>10, <1>8 DEF P

(* A bounded set of naturals has a greatest element, and Max is it.        *)
LEMMA Greatest ==
    ASSUME NEW N \in Nat, NEW X \in SUBSET (0 .. N), X # {}
    PROVE  Max(X) \in X /\ \A x \in X : x <= Max(X)
<1>0. 1 \in Nat \ {0}
  OBVIOUS
<1>1. \E m \in X : \A k \in X : k <= m
  BY <1>0, Numbers!GreatestNatural, Zenon
<1>2. PICK m \in X : \A x \in X : m >= x
  BY <1>1
<1>3. Max(X) \in X /\ \A x \in X : Max(X) >= x
  BY <1>2 DEF Max
<1>. QED BY <1>3

(* Of two numbers Min takes the smaller one.                               *)
LEMMA Smaller ==
    ASSUME NEW a \in Nat, NEW b \in Nat
    PROVE  Min({a, b}) = IF a <= b THEN a ELSE b
  BY DEF Min
----------------------------------------------------------------------------
(* The limits of a dialogue.                                               *)

(* What a turn is to the limits: it has content and sizes.                 *)
IsTurn(turn) == "content" \in DOMAIN turn /\ turn.size \in Nat /\ turn.name \in Nat

AreTurns(turns) ==
    /\ turns \in Seq({turns[i] : i \in DOMAIN turns})
    /\ \A i \in DOMAIN turns : IsTurn(turns[i])

(* The newest of a sequence.                                               *)
LEMMA NewestItems ==
    ASSUME NEW T, NEW turns \in Seq(T), NEW n \in 0 .. Len(turns)
    PROVE  /\ Newest(turns, n) \in Seq(T)
           /\ Len(Newest(turns, n)) = n /\ DOMAIN Newest(turns, n) = 1 .. n
           /\ \A i \in 1 .. n : /\ Len(turns) - n + i \in DOMAIN turns
                              /\ Newest(turns, n)[i] = turns[Len(turns) - n + i]
           /\ n = Len(turns) => Newest(turns, n) = turns
<1>. DEFINE from == Len(turns) - n + 1
<1>1. from \in 1 .. Len(turns) + 1 /\ Newest(turns, n) = SubSeq(turns, from, Len(turns))
  BY DEF Newest
<1>2. Newest(turns, n) \in Seq(T) /\ Len(Newest(turns, n)) = n /\ DOMAIN Newest(turns, n) = 1 .. n
  BY <1>1
<1>3. \A i \in 1 .. n : Newest(turns, n)[i] = turns[from + i - 1]
  BY <1>1
<1>4. \A i \in 1 .. n : from + i - 1 = Len(turns) - n + i /\ Len(turns) - n + i \in 1 .. Len(turns)
  OBVIOUS
<1>5. ASSUME n = Len(turns) PROVE Newest(turns, n) = turns
  BY <1>1, <1>5
<1>. QED BY <1>2, <1>3, <1>4, <1>5

(* Of the newest, the newest.                                              *)
LEMMA NewestOfNewest ==
    ASSUME NEW T, NEW turns \in Seq(T), NEW k \in 0 .. Len(turns), NEW n \in 0 .. k
    PROVE  Newest(Newest(turns, k), n) = Newest(turns, n)
<1>. DEFINE inner == Newest(turns, k)
            a == Newest(inner, n)
            b == Newest(turns, n)
<1>1. inner \in Seq(T) /\ Len(inner) = k /\ \A i \in 1 .. k : inner[i] = turns[Len(turns) - k + i]
  BY NewestItems
<1>2. n \in 0 .. Len(turns)
  OBVIOUS
<1>. HIDE DEF inner
<1>3. n \in 0 .. Len(inner)
  BY <1>1
<1>4. a \in Seq(T) /\ Len(a) = n /\ \A i \in 1 .. n : a[i] = inner[k - n + i]
  BY <1>1, <1>3, NewestItems
<1>5. b \in Seq(T) /\ Len(b) = n /\ \A i \in 1 .. n : b[i] = turns[Len(turns) - n + i]
  BY <1>2, NewestItems
<1>. HIDE DEF a, b
<1>6. ASSUME NEW i \in 1 .. n PROVE a[i] = b[i]
  <2>1. k - n + i \in 1 .. k /\ Len(turns) - k + (k - n + i) = Len(turns) - n + i
    OBVIOUS
  <2>2. inner[k - n + i] = turns[Len(turns) - n + i]
    BY <1>1, <2>1
  <2>. QED BY <1>4, <1>5, <2>2
<1>7. a = b
  BY <1>4, <1>5, <1>6
<1>. QED BY <1>7 DEF a, b, inner

(* The newest turns are turns.                                             *)
LEMMA NewestAreTurns ==
    ASSUME NEW turns, AreTurns(turns), NEW n \in 0 .. Len(turns)
    PROVE  AreTurns(Newest(turns, n))
<1>. DEFINE T == {turns[i] : i \in DOMAIN turns}
            q == Newest(turns, n)
<1>1. turns \in Seq(T)
  BY DEF AreTurns
<1>2. \A x \in T : IsTurn(x)
  BY DEF AreTurns
<1>. HIDE DEF T
<1>3. q \in Seq(T)
  BY <1>1, NewestItems
<1>. HIDE DEF q
<1>4. q \in Seq({q[i] : i \in DOMAIN q}) /\ \A i \in DOMAIN q : q[i] \in T
  BY <1>3
<1>. QED BY <1>2, <1>4 DEF AreTurns, q

(* As JSON turns measure no less than to the schema, and both are numbers. *)
LEMMA MeasuredTurns ==
    ASSUME NEW turns, AreTurns(turns)
    PROVE  /\ Total(Json(turns)) \in Nat /\ Total(Named(turns)) \in Nat
           /\ Total(Named(turns)) <= Total(Json(turns))
<1>. DEFINE N == Len(turns)
            a == Named(turns)
            b == Json(turns)
<1>1. N \in Nat /\ DOMAIN turns = 1 .. N /\ Markup \in Nat
  BY TurnLimits DEF AreTurns
<1>. HIDE DEF N
<1>2. \A i \in 1 .. N : turns[i].size \in Nat /\ turns[i].name \in Nat
  BY <1>1 DEF AreTurns, IsTurn
<1>3. /\ a = [i \in 1 .. N |-> turns[i].size + turns[i].name]
      /\ b = [i \in 1 .. N |-> turns[i].size + turns[i].name + Markup]
  BY <1>1 DEF Named, Json
<1>. HIDE DEF a, b
<1>4. a \in [1 .. N -> Nat] /\ b \in [1 .. N -> Nat] /\ \A i \in 1 .. N : a[i] <= b[i]
  BY <1>1, <1>2, <1>3
<1>5. a \in Seq(Nat) /\ b \in Seq(Nat) /\ Len(a) = Len(b) /\ \A i \in DOMAIN a : a[i] <= b[i]
  BY <1>1, <1>4
<1>. QED BY <1>5, TotalType, TotalIsMonotone DEF a, b

(* history.ts, clampHistory: what is sent are the newest turns, within the *)
(* limits, and none of several only if one is too many.                    *)
LEMMA ClampedTurns ==
    ASSUME NEW turns, AreTurns(turns)
    PROVE  \E n \in 0 .. Len(turns) :
              /\ n <= HistoryTurns /\ Clamped(turns) = Newest(turns, n)
              /\ Total(Json(Newest(turns, n))) <= HistoryBytes
              /\ turns # <<>> /\ Total(Json(Newest(turns, 1))) <= HistoryBytes => n >= 1
<1>. DEFINE top == Min({Len(turns), HistoryTurns})
            X == {n \in 0 .. top : Total(Json(Newest(turns, n))) <= HistoryBytes}
<1>1. Len(turns) \in Nat /\ HistoryTurns \in Nat \ {0} /\ HistoryBytes \in Nat
  BY TurnLimits DEF AreTurns
<1>2. top = IF Len(turns) <= HistoryTurns THEN Len(turns) ELSE HistoryTurns
  BY <1>1, Smaller
<1>3. top \in 0 .. Len(turns) /\ top <= HistoryTurns /\ (turns # <<>> => top >= 1)
  <2>1. turns # <<>> => Len(turns) # 0
    BY DEF AreTurns
  <2>. QED BY <1>1, <1>2, <2>1
<1>. HIDE DEF top
<1>4. 0 \in X
  <2>1. AreTurns(Newest(turns, 0)) /\ Newest(turns, 0) = <<>>
    <3>. DEFINE T == {turns[i] : i \in DOMAIN turns}
    <3>1. turns \in Seq(T) /\ 0 \in 0 .. Len(turns)
      BY <1>1 DEF AreTurns
    <3>. HIDE DEF T
    <3>2. Newest(turns, 0) \in Seq(T) /\ Len(Newest(turns, 0)) = 0
      BY <3>1, NewestItems
    <3>. QED BY <3>1, <3>2, NewestAreTurns
  <2>2. Json(<<>>) = <<>>
    BY DEF Json
  <2>3. Total(<<>>) = 0
    <3>1. <<>> \in Seq(Nat)
      OBVIOUS
    <3>. QED BY <3>1, TotalType
  <2>. QED BY <1>1, <1>3, <2>1, <2>2, <2>3
<1>5. X \in SUBSET (0 .. top) /\ X # {} /\ top \in Nat
  BY <1>1, <1>3, <1>4
<1>6. Clamped(turns) = Newest(turns, Max(X))
  BY DEF Clamped, top
<1>. DEFINE m == Max(X)
<1>7. m \in X /\ \A x \in X : x <= m
  <2>. HIDE DEF X
  <2>. QED BY <1>5, Greatest
<1>8. ASSUME turns # <<>>, Total(Json(Newest(turns, 1))) <= HistoryBytes
      PROVE  m >= 1
  <2>1. 1 \in X
    BY <1>3, <1>8
  <2>. QED BY <1>7, <2>1
<1>9. m \in 0 .. Len(turns) /\ m <= HistoryTurns /\ Total(Json(Newest(turns, m))) <= HistoryBytes
  BY <1>1, <1>3, <1>7
<1>. HIDE DEF m, X
<1>. QED BY <1>6, <1>8, <1>9 DEF m

(* api/schemas.py accepts what history.ts has clamped.                     *)
LEMMA ClampedIsAccepted ==
    ASSUME NEW turns, AreTurns(turns)
    PROVE  "history" \notin HistoryErrors(Clamped(turns))
<1>1. PICK n \in 0 .. Len(turns) :
        n <= HistoryTurns /\ Clamped(turns) = Newest(turns, n) /\ Total(Json(Newest(turns, n))) <= HistoryBytes
  BY ClampedTurns
<1>. DEFINE q == Newest(turns, n)
<1>2. AreTurns(q)
  BY NewestAreTurns
<1>3. Len(q) = n /\ n \in Nat
  <2>. DEFINE T == {turns[i] : i \in DOMAIN turns}
  <2>1. turns \in Seq(T)
    BY DEF AreTurns
  <2>. HIDE DEF T, q
  <2>2. Len(q) = n
    BY <2>1, NewestItems DEF q
  <2>. QED BY <2>1, <2>2
<1>. HIDE DEF q
<1>4. Total(Json(q)) \in Nat /\ Total(Named(q)) \in Nat /\ Total(Named(q)) <= Total(Json(q))
  BY <1>2, MeasuredTurns
<1>5. ~(Len(q) > HistoryTurns) /\ ~(Total(Named(q)) > HistoryBytes)
  BY <1>1, <1>3, <1>4, TurnLimits DEF q
<1>6. "history" \notin HistoryErrors(q)
  BY <1>5 DEF HistoryErrors
<1>. QED BY <1>1, <1>6 DEF q

(* domain/dialogue.py, fit: the newest turns are shown, one at least.      *)
LEMMA FitTurns ==
    ASSUME NEW turns, AreTurns(turns)
    PROVE  \E n \in 0 .. Len(turns) :
              /\ Len(Fit(turns)) = n
              /\ Contents(Fit(turns)) = Contents(Newest(turns, n))
              /\ Fit(turns) = <<>> => turns = <<>>
<1>. DEFINE N == Len(turns)
            kept == [i \in DOMAIN turns |-> Capped(turns[i])]
            X == {n \in 0 .. Len(kept) : n <= 1 \/ Total(Content(Newest(kept, n))) <= BudgetChars}
            m == Max(X)
            T == {turns[i] : i \in DOMAIN turns}
            K == {kept[i] : i \in DOMAIN turns}
<1>1. turns \in Seq(T) /\ N \in Nat /\ DOMAIN turns = 1 .. N
  BY DEF AreTurns
<1>2. \A i \in 1 .. N : kept[i].content = turns[i].content
  BY <1>1 DEF Capped, AreTurns, IsTurn
<1>3. kept \in Seq(K) /\ Len(kept) = N /\ DOMAIN kept = 1 .. N
  BY <1>1
<1>4. Fit(turns) = Newest(kept, m)
  BY DEF Fit
<1>. HIDE DEF kept, K, T, N
<1>5. 0 \in X /\ X \in SUBSET (0 .. N) /\ (N > 0 => 1 \in X)
  BY <1>1, <1>3
<1>. HIDE DEF X
<1>6. m \in X /\ \A x \in X : x <= m
  BY <1>1, <1>5, Greatest
<1>7. m \in 0 .. N /\ (N > 0 => m >= 1)
  BY <1>1, <1>5, <1>6
<1>. HIDE DEF m
<1>8. /\ Len(Fit(turns)) = m /\ DOMAIN Fit(turns) = 1 .. m
      /\ \A i \in 1 .. m : N - m + i \in 1 .. N /\ Fit(turns)[i] = kept[N - m + i]
  BY <1>3, <1>4, <1>7, NewestItems
<1>9. /\ DOMAIN Newest(turns, m) = 1 .. m
      /\ \A i \in 1 .. m : Newest(turns, m)[i] = turns[N - m + i]
  BY <1>1, <1>7, NewestItems DEF N
<1>10. \A i \in 1 .. m : Fit(turns)[i].content = Newest(turns, m)[i].content
  BY <1>2, <1>8, <1>9
<1>11. Contents(Fit(turns)) = Contents(Newest(turns, m))
  BY <1>8, <1>9, <1>10 DEF Contents
<1>12. Fit(turns) = <<>> => turns = <<>>
  <2>1. ASSUME Fit(turns) = <<>> PROVE N = 0
    BY <1>1, <1>7, <1>8, <2>1
  <2>. QED BY <1>1, <2>1 DEF N
<1>. QED BY <1>7, <1>8, <1>11, <1>12 DEF N

----------------------------------------------------------------------------
(* The dialogue in the state.                                              *)

(* What an adapter has kept of a session are its newest turns.             *)
KeepsThePast(kept, all) ==
    /\ AreTurns(all)
    /\ \E n \in 0 .. Len(all) : kept = Newest(all, n) /\ (n = 0 => all = <<>>)

(* Turns that are the newest there were, one at least if it fits.          *)
Recent(turns, ended) ==
    /\ AreTurns(turns)
    /\ \E n \in 0 .. Len(ended) :
          /\ turns = Newest(ended, n)
          /\ n = 0 => ended = <<>> \/ Total(Json(Newest(ended, 1))) > HistoryBytes

Asking == {"deciding", "permitting", "inspecting"}

RequestIsRecent(r, all) ==
    /\ "history" \notin HistoryErrors(r.request.turns)
    /\ r.stage \in Asking =>
          /\ r.request.upto \in 0 .. Len(all)
          /\ Recent(r.request.turns, SubSeq(all, 1, r.request.upto))

DInv ==
    /\ pendingSession \in Sessions \cup {NoSession}
    /\ history = [s \in Sessions |-> history[s]] /\ past = [s \in Sessions |-> past[s]]
    /\ \A s \in Sessions : KeepsThePast(history[s], past[s])
    /\ \A c \in Calls : RequestIsRecent(call[c], past[SessionOf(c)])

(* Items past the end do not change a beginning.                           *)
LEMMA AppendedTurns ==
    ASSUME NEW turns, AreTurns(turns), NEW turn, IsTurn(turn)
    PROVE  LET longer == Append(turns, turn) IN
           /\ AreTurns(longer) /\ Len(longer) = Len(turns) + 1
           /\ DOMAIN longer = 1 .. Len(turns) + 1 /\ longer[Len(turns) + 1] = turn
           /\ \A i \in 1 .. Len(turns) : longer[i] = turns[i]
<1>. DEFINE T == {turns[i] : i \in DOMAIN turns}
            U == T \cup {turn}
            longer == Append(turns, turn)
<1>1. turns \in Seq(U) /\ turn \in U
  <2>1. turns \in Seq(T)
    BY DEF AreTurns
  <2>. HIDE DEF T
  <2>. QED BY <2>1
<1>2. \A x \in U : IsTurn(x)
  BY DEF AreTurns
<1>. HIDE DEF U
<1>3. /\ longer \in Seq(U) /\ Len(longer) = Len(turns) + 1
      /\ DOMAIN longer = 1 .. Len(turns) + 1 /\ longer[Len(turns) + 1] = turn
      /\ \A i \in 1 .. Len(turns) : longer[i] = turns[i]
  BY <1>1
<1>. HIDE DEF longer
<1>4. longer \in Seq({longer[i] : i \in DOMAIN longer}) /\ \A i \in DOMAIN longer : longer[i] \in U
  BY <1>3
<1>. QED BY <1>2, <1>3, <1>4 DEF AreTurns, longer

(* Turns as a sequence over some set.                                      *)
LEMMA TurnsAreSequences ==
    ASSUME NEW turns, AreTurns(turns)
    PROVE  \E T : turns \in Seq(T)
  BY DEF AreTurns

(* history.ts, record: the newest turns remain the newest turns.           *)
LEMMA KeptIsKept ==
    ASSUME NEW kept, NEW all, KeepsThePast(kept, all), NEW turn, IsTurn(turn)
    PROVE  KeepsThePast(Kept(kept, turn), IF turn.size = 0 THEN all ELSE Append(all, turn))
<1>. DEFINE longer == Append(all, turn)
<1>1. PICK n \in 0 .. Len(all) : kept = Newest(all, n) /\ (n = 0 => all = <<>>)
  BY DEF KeepsThePast
<1>2. AreTurns(all) /\ AreTurns(kept)
  BY <1>1, NewestAreTurns DEF KeepsThePast
<1>3. CASE turn.size = 0
  <2>1. Kept(kept, turn) = kept
    BY <1>3 DEF Kept, Recorded
  <2>. QED BY <2>1, <1>3
<1>4. CASE turn.size # 0
  <2>1. /\ AreTurns(longer) /\ Len(longer) = Len(all) + 1 /\ DOMAIN longer = 1 .. Len(all) + 1
        /\ longer[Len(all) + 1] = turn /\ \A i \in 1 .. Len(all) : longer[i] = all[i]
    BY <1>2, AppendedTurns
  <2>2. PICK T : all \in Seq(T)
    BY <1>2, TurnsAreSequences
  <2>3. Len(all) \in Nat /\ n \in Nat /\ n + 1 \in 0 .. Len(longer)
    BY <1>1, <2>1, <2>2
  <2>4. PICK L : longer \in Seq(L)
    BY <2>1, TurnsAreSequences
  <2>. HIDE DEF longer
  <2>5. Append(kept, turn) = Newest(longer, n + 1)
    <3>. DEFINE a == Append(kept, turn)
                b == Newest(longer, n + 1)
    <3>1. Len(kept) = n /\ \A i \in 1 .. n : kept[i] = all[Len(all) - n + i]
      BY <1>1, <2>2, NewestItems
    <3>2. /\ AreTurns(a) /\ Len(a) = n + 1 /\ DOMAIN a = 1 .. n + 1 /\ a[n + 1] = turn
          /\ \A i \in 1 .. n : a[i] = kept[i]
      BY <1>2, <3>1, AppendedTurns
    <3>3. b \in Seq(L) /\ DOMAIN b = 1 .. n + 1 /\ \A i \in 1 .. n + 1 : b[i] = longer[Len(longer) - (n + 1) + i]
      BY <2>3, <2>4, NewestItems
    <3>4. PICK A : a \in Seq(A)
      BY <3>2, TurnsAreSequences
    <3>. HIDE DEF a, b
    <3>5. ASSUME NEW i \in 1 .. n + 1 PROVE a[i] = b[i]
      <4>1. b[i] = longer[Len(all) - n + i]
        <5>1. Len(longer) - (n + 1) + i = Len(all) - n + i
          BY <2>1, <2>3
        <5>. QED BY <3>3, <5>1
      <4>2. CASE i = n + 1
        <5>1. Len(all) - n + i = Len(all) + 1
          BY <2>3, <4>2
        <5>. QED BY <2>1, <3>2, <4>1, <4>2, <5>1
      <4>3. CASE i # n + 1
        <5>1. i \in 1 .. n /\ Len(all) - n + i \in 1 .. Len(all)
          BY <1>1, <2>3, <4>3
        <5>. QED BY <2>1, <3>1, <3>2, <4>1, <5>1
      <4>. QED BY <4>2, <4>3
    <3>6. a = b
      BY <3>2, <3>3, <3>4, <3>5
    <3>. QED BY <3>6 DEF a, b
  <2>6. \E k \in 0 .. Len(longer) : Kept(kept, turn) = Newest(longer, k) /\ k # 0
    <3>1. CASE adapter = "codex"
      <4>1. Kept(kept, turn) = Append(kept, turn)
        BY <1>4, <3>1 DEF Kept
      <4>. QED BY <2>3, <2>5, <4>1
    <3>2. CASE adapter # "codex"
      <4>. DEFINE q == Append(kept, turn)
                  top == Min({Len(q), HistoryTurns})
      <4>1. Kept(kept, turn) = Newest(q, top)
        BY <1>4, <3>2 DEF Kept, Recorded
      <4>2. Len(q) = n + 1
        BY <2>3, <2>4, <2>5, NewestItems
      <4>3. HistoryTurns \in Nat \ {0}
        BY TurnLimits
      <4>. HIDE DEF q
      <4>4. top = IF Len(q) <= HistoryTurns THEN Len(q) ELSE HistoryTurns
        BY <2>3, <4>2, <4>3, Smaller
      <4>5. top \in 0 .. n + 1 /\ top # 0
        BY <2>3, <4>2, <4>3, <4>4
      <4>. HIDE DEF top
      <4>6. Newest(Newest(longer, n + 1), top) = Newest(longer, top)
        BY <2>3, <2>4, <4>5, NewestOfNewest
      <4>7. top \in 0 .. Len(longer)
        BY <2>3, <2>1, <4>5
      <4>. QED BY <2>5, <4>1, <4>5, <4>6, <4>7 DEF q
    <3>. QED BY <3>1, <3>2
  <2>. QED BY <1>4, <2>1, <2>6 DEF KeepsThePast, longer
<1>. QED BY <1>3, <1>4

(* What is sent is recent and accepted.                                    *)
LEMMA SentIsRecent ==
    ASSUME NEW kept, NEW all, KeepsThePast(kept, all)
    PROVE  Recent(Clamped(kept), all) /\ "history" \notin HistoryErrors(Clamped(kept))
<1>1. PICK n \in 0 .. Len(all) : kept = Newest(all, n) /\ (n = 0 => all = <<>>)
  BY DEF KeepsThePast
<1>2. AreTurns(all) /\ AreTurns(kept)
  BY <1>1, NewestAreTurns DEF KeepsThePast
<1>3. PICK T : all \in Seq(T)
  BY <1>2, TurnsAreSequences
<1>4. Len(kept) = n /\ n \in Nat
  BY <1>1, <1>3, NewestItems
<1>5. PICK k \in 0 .. n :
        /\ Clamped(kept) = Newest(kept, k)
        /\ kept # <<>> /\ Total(Json(Newest(kept, 1))) <= HistoryBytes => k >= 1
  BY <1>2, <1>4, ClampedTurns
<1>6. Newest(kept, k) = Newest(all, k) /\ k \in 0 .. Len(all)
  <2>1. k \in 0 .. n /\ k \in 0 .. Len(all)
    BY <1>1, <1>3, <1>4, <1>5
  <2>. QED BY <1>1, <1>3, <2>1, NewestOfNewest
<1>7. ASSUME k = 0 PROVE all = <<>> \/ Total(Json(Newest(all, 1))) > HistoryBytes
  <2>1. CASE n = 0
    BY <1>1, <2>1
  <2>2. CASE n # 0
    <3>1. kept # <<>> /\ 1 \in 0 .. n
      BY <1>4, <2>2
    <3>2. Newest(kept, 1) = Newest(all, 1)
      BY <1>1, <1>3, <3>1, NewestOfNewest
    <3>3. AreTurns(Newest(kept, 1))
      BY <1>2, <1>4, <3>1, NewestAreTurns
    <3>4. Total(Json(Newest(kept, 1))) \in Nat /\ HistoryBytes \in Nat
      BY <3>3, MeasuredTurns, TurnLimits
    <3>5. ~(Total(Json(Newest(kept, 1))) <= HistoryBytes)
      BY <1>5, <1>7, <3>1
    <3>6. Total(Json(Newest(kept, 1))) > HistoryBytes
      BY <3>4, <3>5
    <3>. QED BY <3>2, <3>6
  <2>. QED BY <2>1, <2>2
<1>8. AreTurns(Clamped(kept))
  <2>1. k \in 0 .. Len(kept)
    BY <1>4, <1>5
  <2>. QED BY <1>2, <1>5, <2>1, NewestAreTurns
<1>9. Recent(Clamped(kept), all)
  BY <1>5, <1>6, <1>7, <1>8 DEF Recent
<1>. QED BY <1>2, <1>9, ClampedIsAccepted

(* What a step may do to the turns of a session: put new ones behind them. *)
PastGrows ==
    /\ history' = [s \in Sessions |-> history'[s]] /\ past' = [s \in Sessions |-> past'[s]]
    /\ \A s \in Sessions :
          /\ KeepsThePast(history'[s], past'[s])
          /\ Len(past[s]) <= Len(past'[s])
          /\ \A u \in 0 .. Len(past[s]) : SubSeq(past'[s], 1, u) = SubSeq(past[s], 1, u)

(* What an adapter has kept of a session, and how much there was.          *)
LEMMA PastHasLength ==
    ASSUME DInv, NEW s \in Sessions
    PROVE  /\ KeepsThePast(history[s], past[s]) /\ AreTurns(past[s])
           /\ Len(past[s]) \in Nat /\ Len(past[s]) <= Len(past[s])
<1>1. KeepsThePast(history[s], past[s])
  BY DEF DInv
<1>2. AreTurns(past[s])
  BY <1>1 DEF KeepsThePast
<1>3. PICK T : past[s] \in Seq(T)
  BY <1>2, TurnsAreSequences
<1>4. Len(past[s]) \in Nat /\ Len(past[s]) <= Len(past[s])
  BY <1>3
<1>. QED BY <1>1, <1>2, <1>4

(* Nothing is recorded, or a turn of one session.                          *)
LEMMA PastStays ==
    ASSUME DInv, UNCHANGED <<history, past>>
    PROVE  PastGrows
<1>1. \A s \in Sessions : KeepsThePast(history[s], past[s]) /\ Len(past[s]) <= Len(past[s])
  BY PastHasLength
<1>. QED BY <1>1 DEF DInv, PastGrows

(* history.ts, record: the new turn goes behind those there were.          *)
LEMMA RecordsGrow ==
    ASSUME DInv, NEW s \in Sessions \cup {NoSession}, NEW turn, IsTurn(turn), Records(s, turn)
    PROVE  PastGrows
<1>1. CASE s = NoSession
  <2>1. UNCHANGED <<history, past>>
    BY <1>1 DEF Records
  <2>. QED BY <2>1, PastStays
<1>2. CASE s # NoSession
  <2>. DEFINE kept == Kept(history[s], turn)
              all == IF turn.size = 0 THEN past[s] ELSE Append(past[s], turn)
  <2>1. s \in Sessions
    BY <1>2
  <2>2. history' = [history EXCEPT ![s] = kept] /\ past' = [past EXCEPT ![s] = all]
    BY <1>2 DEF Records
  <2>3. KeepsThePast(history[s], past[s])
    BY <2>1 DEF DInv
  <2>4. KeepsThePast(kept, all)
    BY <2>3, KeptIsKept
  <2>5. AreTurns(past[s])
    BY <2>3 DEF KeepsThePast
  <2>6. PICK T : past[s] \in Seq(T)
    BY <2>5, TurnsAreSequences
  <2>. DEFINE before == past[s]
              longer == Append(before, turn)
  <2>7. before \in Seq(T) /\ AreTurns(before)
    BY <2>5, <2>6
  <2>. HIDE DEF before
  <2>8. /\ AreTurns(longer) /\ Len(longer) = Len(before) + 1 /\ DOMAIN longer = 1 .. Len(before) + 1
        /\ \A i \in 1 .. Len(before) : longer[i] = before[i]
    BY <2>7, AppendedTurns
  <2>9. PICK L : longer \in Seq(L)
    BY <2>8, TurnsAreSequences
  <2>10. Len(before) <= Len(longer)
    BY <2>7, <2>8
  <2>. HIDE DEF longer
  <2>11. ASSUME NEW u \in 0 .. Len(before) PROVE SubSeq(longer, 1, u) = SubSeq(before, 1, u)
    <3>. DEFINE a == SubSeq(longer, 1, u)
                b == SubSeq(before, 1, u)
    <3>1. u \in Nat /\ u \in 0 .. Len(longer) /\ \A i \in 1 .. u : i \in 1 .. Len(before)
      BY <2>7, <2>8
    <3>2. a \in Seq(L) /\ Len(a) = u /\ \A i \in 1 .. u : a[i] = longer[i]
      BY <2>9, <3>1
    <3>3. b \in Seq(T) /\ Len(b) = u /\ \A i \in 1 .. u : b[i] = before[i]
      BY <2>7, <3>1
    <3>4. \A i \in 1 .. u : a[i] = b[i]
      BY <2>8, <3>1, <3>2, <3>3
    <3>. HIDE DEF a, b
    <3>5. a = b
      BY <3>2, <3>3, <3>4
    <3>. QED BY <3>5 DEF a, b
  <2>12. /\ Len(before) <= Len(all)
         /\ \A u \in 0 .. Len(before) : SubSeq(all, 1, u) = SubSeq(before, 1, u)
    <3>1. CASE turn.size = 0
      <4>1. all = before
        BY <3>1 DEF before
      <4>2. Len(before) <= Len(before)
        BY <2>7
      <4>. HIDE DEF all
      <4>. QED BY <4>1, <4>2
    <3>2. CASE turn.size # 0
      <4>1. all = longer
        BY <3>2 DEF before, longer
      <4>. HIDE DEF all
      <4>. QED BY <4>1, <2>10, <2>11
    <3>. QED BY <3>1, <3>2
  <2>. HIDE DEF kept, all
  <2>13. /\ history'[s] = kept /\ past'[s] = all
         /\ \A t \in Sessions \ {s} : history'[t] = history[t] /\ past'[t] = past[t]
         /\ history' = [t \in Sessions |-> history'[t]] /\ past' = [t \in Sessions |-> past'[t]]
    BY <2>1, <2>2 DEF DInv
  <2>14. ASSUME NEW t \in Sessions
         PROVE  /\ KeepsThePast(history'[t], past'[t])
                /\ Len(past[t]) <= Len(past'[t])
                /\ \A u \in 0 .. Len(past[t]) : SubSeq(past'[t], 1, u) = SubSeq(past[t], 1, u)
    <3>1. CASE t = s
      BY <2>4, <2>12, <2>13, <3>1 DEF before
    <3>2. CASE t # s
      <4>1. KeepsThePast(history[t], past[t]) /\ Len(past[t]) <= Len(past[t])
        BY PastHasLength
      <4>. QED BY <2>13, <3>2, <4>1
    <3>. QED BY <3>1, <3>2
  <2>. QED BY <2>13, <2>14 DEF PastGrows
<1>. QED BY <1>1, <1>2

(* What was recent at a request stays so.                                  *)
LEMMA StillRecent ==
    ASSUME DInv, PastGrows, NEW s \in Sessions, NEW r, RequestIsRecent(r, past[s])
    PROVE  RequestIsRecent(r, past'[s])
<1>. DEFINE all == past[s]
            now == past'[s]
<1>1. /\ KeepsThePast(history[s], all) /\ Len(all) <= Len(now)
      /\ \A u \in 0 .. Len(all) : SubSeq(now, 1, u) = SubSeq(all, 1, u)
      /\ AreTurns(now)
  BY DEF DInv, PastGrows, KeepsThePast
<1>2. PICK A : all \in Seq(A)
  <2>1. AreTurns(all)
    BY <1>1 DEF KeepsThePast
  <2>. QED BY <2>1, TurnsAreSequences
<1>3. PICK N : now \in Seq(N)
  BY <1>1, TurnsAreSequences
<1>4. RequestIsRecent(r, all)
  OBVIOUS
<1>. HIDE DEF all, now
<1>5. \A u \in 0 .. Len(all) : u \in 0 .. Len(now)
  BY <1>1, <1>2, <1>3
<1>6. ASSUME r.stage \in Asking
      PROVE  r.request.upto \in 0 .. Len(now) /\ Recent(r.request.turns, SubSeq(now, 1, r.request.upto))
  <2>. DEFINE u == r.request.upto
  <2>1. u \in 0 .. Len(all) /\ Recent(r.request.turns, SubSeq(all, 1, u))
    BY <1>4, <1>6 DEF RequestIsRecent
  <2>. HIDE DEF u
  <2>2. u \in 0 .. Len(now) /\ SubSeq(now, 1, u) = SubSeq(all, 1, u)
    BY <1>1, <1>5, <2>1
  <2>. QED BY <2>1, <2>2 DEF u
<1>7. RequestIsRecent(r, now)
  BY <1>4, <1>6 DEF RequestIsRecent
<1>. QED BY <1>7 DEF now

(* No turns are within the limits.                                         *)
LEMMA NoRequestIsAccepted == "history" \notin HistoryErrors(NoRequest.turns)
<1>1. NoRequest.turns = <<>> /\ Len(<<>>) = 0 /\ Named(<<>>) = <<>>
  BY DEF NoRequest, Named
<1>2. Total(<<>>) = 0
  <2>1. <<>> \in Seq(Nat)
    OBVIOUS
  <2>. QED BY <2>1, TotalType
<1>3. ~(Len(<<>>) > HistoryTurns) /\ ~(Total(Named(<<>>)) > HistoryBytes)
  BY <1>1, <1>2, TurnLimits
<1>. QED BY <1>1, <1>3 DEF HistoryErrors

(* A call that asks the guard nothing new.                                 *)
AsksNothing(r, q) == q.request \in {r.request, NoRequest} /\ q.stage \notin Asking

(* A step of a call that records turns, or asks with those there are then. *)
LEMMA DialogueStep ==
    ASSUME IInv, DInv, PastGrows, pendingSession' \in Sessions \cup {NoSession},
           NEW c \in Calls, NEW q, Becomes(c, q),
           AsksNothing(call[c], q) \/ q.request = Sends(c)
    PROVE  DInv'
<1>1. call'[c] = q /\ \A d \in Calls \ {c} : call'[d] = call[d]
  BY DEF IInv, TypeOK, Becomes
<1>2. ASSUME NEW d \in Calls \ {c} PROVE RequestIsRecent(call'[d], past'[SessionOf(d)])
  <2>1. SessionOf(d) \in Sessions
    BY AdaptersBounds
  <2>2. RequestIsRecent(call[d], past[SessionOf(d)])
    BY DEF DInv
  <2>. QED BY <1>1, <2>1, <2>2, StillRecent
<1>3. RequestIsRecent(q, past'[SessionOf(c)])
  <2>1. CASE AsksNothing(call[c], q)
    <3>1. "history" \notin HistoryErrors(call[c].request.turns)
      BY DEF DInv, RequestIsRecent
    <3>2. "history" \notin HistoryErrors(NoRequest.turns)
      BY NoRequestIsAccepted
    <3>. QED BY <2>1, <3>1, <3>2 DEF AsksNothing, RequestIsRecent
  <2>2. CASE q.request = Sends(c)
    <3>. DEFINE s == SessionOf(c)
                kept == history'[s]
                all == past'[s]
    <3>1. q.request.turns = Clamped(kept) /\ q.request.upto = Len(all)
      BY <2>2 DEF Sends, RequestIn
    <3>2. s \in Sessions
      BY AdaptersBounds
    <3>3. KeepsThePast(kept, all)
      BY <3>2 DEF PastGrows
    <3>. HIDE DEF s, kept, all
    <3>4. Recent(Clamped(kept), all) /\ "history" \notin HistoryErrors(Clamped(kept))
      BY <3>3, SentIsRecent
    <3>5. Len(all) \in 0 .. Len(all) /\ SubSeq(all, 1, Len(all)) = all
      <4>1. AreTurns(all)
        BY <3>3 DEF KeepsThePast
      <4>2. PICK T : all \in Seq(T)
        BY <4>1, TurnsAreSequences
      <4>. QED BY <4>2
    <3>. QED BY <3>1, <3>4, <3>5 DEF RequestIsRecent, all, s
  <2>. QED BY <2>1, <2>2
<1>4. \A d \in Calls : RequestIsRecent(call'[d], past'[SessionOf(d)])
  BY <1>1, <1>2, <1>3
<1>5. \A s \in Sessions : KeepsThePast(history'[s], past'[s])
  BY DEF PastGrows
<1>. QED BY <1>4, <1>5 DEF DInv, PastGrows, KeepsThePast, RequestIsRecent

----------------------------------------------------------------------------
(* A call that is asking now, or asks nothing new.                         *)
Asks(c, q) == AsksNothing(call[c], q) \/ q.request = Sends(c)

(* The outcomes of a hook ask nothing.                                     *)
LEMMA OutcomesAskNothing ==
    ASSUME NEW r, HasCallFields(r), NEW who, NEW as
    PROVE  /\ AsksNothing(r, Blocked(r)) /\ AsksNothing(r, Prompted(r))
           /\ AsksNothing(r, HandedBack(r)) /\ AsksNothing(r, PassedBy(r, who))
           /\ AsksNothing(r, Told(r, as))
<1>1. Blocked(r).request = NoRequest /\ Blocked(r).stage = "blocked"
  BY DEF Blocked, NewCall
<1>2. Prompted(r).request = r.request /\ Prompted(r).stage = "prompted"
  BY DEF HasCallFields, Prompted
<1>3. HandedBack(r).request = r.request /\ HandedBack(r).stage = "handed"
  BY DEF HasCallFields, HandedBack
<1>4. PassedBy(r, who).request = r.request /\ PassedBy(r, who).stage = "passed"
  BY DEF HasCallFields, PassedBy
<1>5. Told(r, as).request = NoRequest /\ Told(r, as).stage = "told"
  BY DEF HasCallFields, Told, NewCall
<1>. QED BY <1>1, <1>2, <1>3, <1>4, <1>5 DEF AsksNothing, Asking

(* Nor does what a hook makes of a decision.                               *)
LEMMA EndsAskNothing ==
    ASSUME adapter \in AllAdapters, NEW r, HasCallFields(r), NEW decided, decided.status \in OutStatus
    PROVE  AsksNothing(r, Ends(r, decided))
<1>1. CASE adapter = "opencode2"
  <2>1. Ends(r, decided) = EndsOnOpencode2(r, decided)
    BY <1>1 DEF Ends
  <2>. QED BY <2>1, OutcomesAskNothing DEF EndsOnOpencode2
<1>2. CASE adapter = "pi"
  <2>1. Ends(r, decided) = EndsOnPi(r, decided)
    BY <1>2 DEF Ends
  <2>. QED BY <2>1, OutcomesAskNothing DEF EndsOnPi, OutStatus
<1>3. CASE adapter = "dsh"
  <2>1. Ends(r, decided) = EndsOnDsh(r, decided)
    BY <1>3 DEF Ends
  <2>. QED BY <2>1, OutcomesAskNothing DEF EndsOnDsh, OutStatus
<1>4. CASE adapter = "codex"
  <2>1. Ends(r, decided) = EndsOnCodex(r, decided)
    BY <1>4 DEF Ends
  <2>. QED BY <2>1, OutcomesAskNothing DEF EndsOnCodex, OutStatus
<1>. QED BY <1>1, <1>2, <1>3, <1>4 DEF AllAdapters

(* It is the call's request that matters.                                  *)
LEMMA SameRequest ==
    ASSUME NEW p, NEW r, r.request \in {p.request, NoRequest}, NEW q, AsksNothing(r, q)
    PROVE  AsksNothing(p, q)
  BY DEF AsksNothing

(* What a hook records is a turn.                                          *)
LEMMA RecordedAreTurns ==
    ASSUME NEW c \in Calls
    PROVE  /\ IsTurn(CallTurn(c))
           /\ \A text \in Texts : IsTurn(ResultTurn(c, text))
           /\ \A m \in Messages : IsTurn(HumanTurn(m))
<1>1. NameOf(c) \in Nat /\ NameChars \in Nat
  BY AdaptersBounds, TurnLimits
<1>2. NameInTurn(c) \in Nat
  <2>1. CASE adapter = "codex"
    <3>1. NameInTurn(c) = Min({NameOf(c), NameChars})
      BY <2>1 DEF NameInTurn
    <3>2. Min({NameOf(c), NameChars}) = IF NameOf(c) <= NameChars THEN NameOf(c) ELSE NameChars
      BY <1>1, Smaller
    <3>. QED BY <3>1, <3>2, <1>1
  <2>2. CASE adapter # "codex"
    BY <2>2, <1>1 DEF NameInTurn
  <2>. QED BY <2>1, <2>2
<1>3. Size(c) \in Nat /\ (\A text \in Texts : Size(text) \in Nat) /\ \A m \in Messages : Size(m) \in Nat
  BY AdaptersBounds
<1>4. IsTurn(CallTurn(c))
  BY <1>2, <1>3 DEF IsTurn, CallTurn, Turn
<1>5. \A text \in Texts : IsTurn(ResultTurn(c, text))
  BY <1>2, <1>3 DEF IsTurn, ResultTurn, Turn
<1>6. \A m \in Messages : IsTurn(HumanTurn(m))
  BY <1>3 DEF IsTurn, HumanTurn, Turn
<1>. QED BY <1>4, <1>5, <1>6

(* A step of the call that records nothing or a turn of its own.           *)
LEMMA AskingStep ==
    ASSUME IInv, DInv, NEW c \in Calls, NEW q, Becomes(c, q), Asks(c, q),
           pendingSession' \in Sessions \cup {NoSession},
           \/ UNCHANGED <<history, past>>
           \/ \E turn : IsTurn(turn) /\ Records(SessionOf(c), turn)
    PROVE  DInv'
<1>1. SessionOf(c) \in Sessions
  BY AdaptersBounds
<1>2. PastGrows
  <2>1. CASE UNCHANGED <<history, past>>
    BY <2>1, PastStays
  <2>2. ASSUME NEW turn, IsTurn(turn), Records(SessionOf(c), turn) PROVE PastGrows
    BY <2>2, <1>1, RecordsGrow
  <2>. QED BY <2>1, <2>2
<1>. QED BY <1>2, DialogueStep DEF Asks

(* A decided call asks nothing.                                            *)
LEMMA DecidedAskNothing ==
    ASSUME IInv, NEW r, HasCallFields(r), NEW m \in {"auto", "ask", "allow"}, NEW result \in DecideResults
    PROVE  AsksNothing(r, Ends(r, ResolveOut(m, result, Baseline)))
<1>. DEFINE decided == ResolveOut(m, result, Baseline)
<1>1. adapter \in AllAdapters /\ onUnavailable \in OnUnavailables /\ Baseline \in {"allow", "ask"}
  BY DEF IInv, TypeOK, Baseline
<1>2. decided.status \in OutStatus
  <2>1. CASE m = "auto"
    BY <2>1, <1>1, ResolvedOut
  <2>2. CASE m # "auto"
    <3>1. decided = [status |-> m, source |-> "mode"]
      BY <2>2, ResolvedByMode
    <3>2. decided.status = m
      BY <3>1
    <3>. HIDE DEF decided
    <3>3. m \in {"ask", "allow"}
      BY <2>2
    <3>. QED BY <3>2, <3>3 DEF OutStatus
  <2>. QED BY <2>1, <2>2
<1>. HIDE DEF decided
<1>3. AsksNothing(r, Ends(r, decided))
  BY <1>1, <1>2, EndsAskNothing
<1>. QED BY <1>3 DEF decided

(* The hooks before the tool.                                              *)
LEMMA OutgoingKeepsDInv ==
    ASSUME IInv, DInv, NEW c \in Calls, Outgoing(c)
    PROVE  DInv'
<1>. USE DEF dialogue
<1>1. /\ mode \in Modes /\ HasCallFields(call[c]) /\ Earned(call[c])
      /\ pendingSession \in Sessions \cup {NoSession} /\ SessionOf(c) \in Sessions
  BY AdaptersBounds DEF IInv, TypeOK, DInv
<1>2. IsTurn(CallTurn(c))
  BY RecordedAreTurns
<1>3. CASE Pre(c)
  <2>. PICK sends : sends = Sends(c)
    OBVIOUS
  <2>. DEFINE r == [call[c] EXCEPT !.mode = mode, !.modes = {mode}]
              asking == [r EXCEPT !.stage = "deciding", !.request = sends]
              ended == Ends(r, ResolveOut(mode, "unreachable", Baseline))
  <2>1. HasCallFields(r) /\ r.request = call[c].request
    BY <1>1 DEF HasCallFields
  <2>2. asking.request = sends
    BY <2>1 DEF HasCallFields
  <2>3. UNCHANGED <<history, past>> \/ Records(SessionOf(c), CallTurn(c))
    BY <1>3 DEF Pre
  <2>4. pendingSession' \in Sessions \cup {NoSession}
    BY <1>1, <1>3 DEF Pre
  <2>5. /\ mode \in AsksIn => Becomes(c, asking)
        /\ mode \notin AsksIn => Becomes(c, HandedBack(r)) \/ (mode # "off" /\ Becomes(c, ended))
    <3>. HIDE DEF ended
    <3>1. CASE mode \in AsksIn
      BY <1>3, <3>1 DEF Pre, AsksIn
    <3>2. CASE mode = "off"
      BY <1>3, <3>2 DEF Pre, AsksIn
    <3>3. CASE mode = "allow" /\ adapter = "codex"
      BY <1>3, <3>3 DEF Pre, AsksIn
    <3>4. CASE mode \notin AsksIn /\ mode # "off" /\ ~(mode = "allow" /\ adapter = "codex")
      BY <1>3, <3>4 DEF Pre, ended
    <3>. QED BY <3>1, <3>2, <3>3, <3>4
  <2>6. AsksNothing(r, HandedBack(r))
    BY <2>1, OutcomesAskNothing
  <2>7. mode # "off" => AsksNothing(r, ended)
    BY <1>1, <2>1, DecidedAskNothing DEF Modes, DecideResults, Failures
  <2>. HIDE DEF r, asking, ended
  <2>8. PICK q : Becomes(c, q) /\ (q.request = sends \/ AsksNothing(r, q))
    BY <2>2, <2>5, <2>6, <2>7
  <2>9. Asks(c, q)
    BY <2>1, <2>8, SameRequest DEF Asks
  <2>. QED BY <1>2, <2>3, <2>4, <2>8, <2>9, AskingStep
<1>4. ASSUME NEW result \in DecideResults, GuardDecides(c, result) PROVE DInv'
  <2>. DEFINE r == Heard(call[c], result)
              q == Ends(r, ResolveOut(call[c].mode, result, Baseline))
  <2>1. call[c].stage = "deciding" /\ Becomes(c, q) /\ UNCHANGED <<history, past, pendingSession>>
    BY <1>4 DEF GuardDecides
  <2>2. call[c].mode \in {"auto", "ask", "allow"}
    BY <1>1, <2>1 DEF Earned, AsksIn
  <2>3. HasCallFields(r) /\ r.request = NoRequest
    BY <1>1 DEF Heard, HasCallFields
  <2>4. AsksNothing(r, q)
    BY <2>2, <2>3, DecidedAskNothing
  <2>. HIDE DEF r, q
  <2>5. Asks(c, q)
    BY <2>3, <2>4, SameRequest DEF Asks
  <2>. QED BY <1>1, <2>1, <2>5, AskingStep
<1>5. CASE PreThrows(c)
  <2>. DEFINE r == [call[c] EXCEPT !.threw = TRUE, !.modes = {mode}]
  <2>1. /\ Becomes(c, HandedBack(r)) /\ UNCHANGED pendingSession
        /\ Records(SessionOf(c), CallTurn(c)) \/ UNCHANGED <<history, past>>
    BY <1>5 DEF PreThrows
  <2>2. HasCallFields(r) /\ r.request = call[c].request
    BY <1>1 DEF HasCallFields
  <2>. HIDE DEF r
  <2>3. Asks(c, HandedBack(r))
    BY <2>2, OutcomesAskNothing, SameRequest DEF Asks
  <2>. QED BY <1>1, <1>2, <2>1, <2>3, AskingStep
<1>6. CASE HarnessAllows(c)
  <2>1. Becomes(c, PassedBy(call[c], "harness")) /\ UNCHANGED <<history, past, pendingSession>>
    BY <1>6 DEF HarnessAllows
  <2>2. Asks(c, PassedBy(call[c], "harness"))
    BY <1>1, OutcomesAskNothing DEF Asks
  <2>. QED BY <1>1, <2>1, <2>2, AskingStep
<1>7. CASE DshPrompts(c)
  <2>1. Becomes(c, Prompted(call[c])) /\ UNCHANGED <<history, past, pendingSession>>
    BY <1>7 DEF DshPrompts
  <2>2. Asks(c, Prompted(call[c]))
    BY <1>1, OutcomesAskNothing DEF Asks
  <2>. QED BY <1>1, <2>1, <2>2, AskingStep
<1>8. CASE Perm(c)
  <2>. PICK sends : sends = Sends(c)
    OBVIOUS
  <2>. DEFINE r == [call[c] EXCEPT !.mode = mode, !.modes = @ \cup {mode}]
              asking == [r EXCEPT !.stage = "permitting", !.request = sends]
  <2>1. UNCHANGED <<history, past, pendingSession>>
    BY <1>8 DEF Perm
  <2>2. HasCallFields(r) /\ r.request = call[c].request
    BY <1>1 DEF HasCallFields
  <2>3. asking.request = sends
    BY <2>2 DEF HasCallFields
  <2>4. Becomes(c, asking) \/ Becomes(c, PassedBy(r, "gate")) \/ Becomes(c, Prompted(r))
    <3>1. CASE mode = "auto"
      BY <1>8, <3>1 DEF Perm
    <3>2. CASE mode = "allow"
      BY <1>8, <3>2 DEF Perm
    <3>3. CASE mode \notin {"auto", "allow"}
      BY <1>8, <3>3 DEF Perm
    <3>. QED BY <3>1, <3>2, <3>3
  <2>. HIDE DEF r, asking
  <2>5. PICK q : Becomes(c, q) /\ (q.request = sends \/ AsksNothing(r, q))
    BY <2>2, <2>3, <2>4, OutcomesAskNothing
  <2>6. Asks(c, q)
    BY <2>2, <2>5, SameRequest DEF Asks
  <2>. QED BY <1>1, <2>1, <2>5, <2>6, AskingStep
<1>9. ASSUME NEW result \in DecideResults, GuardPermits(c, result) PROVE DInv'
  <2>. DEFINE r == Heard(call[c], result)
              decided == ResolveOut("auto", result, Baseline)
  <2>1. UNCHANGED <<history, past, pendingSession>>
    BY <1>9 DEF GuardPermits
  <2>2. Becomes(c, IF decided.status = "allow" THEN PassedBy(r, "gate")
                   ELSE IF decided.status = "deny" THEN Blocked(r) ELSE Prompted(r))
    BY <1>9 DEF GuardPermits
  <2>3. HasCallFields(r) /\ r.request = NoRequest
    BY <1>1 DEF Heard, HasCallFields
  <2>. HIDE DEF r, decided
  <2>4. PICK q : Becomes(c, q) /\ AsksNothing(r, q)
    BY <2>2, <2>3, OutcomesAskNothing
  <2>5. Asks(c, q)
    BY <2>3, <2>4, SameRequest DEF Asks
  <2>. QED BY <1>1, <2>1, <2>4, <2>5, AskingStep
<1>10. CASE HumanAnswers(c)
  <2>1. /\ Becomes(c, PassedBy(call[c], "human")) \/ Becomes(c, Blocked(call[c]))
        /\ UNCHANGED <<history, past, pendingSession>>
    BY <1>10 DEF HumanAnswers
  <2>2. Asks(c, PassedBy(call[c], "human")) /\ Asks(c, Blocked(call[c]))
    BY <1>1, OutcomesAskNothing DEF Asks
  <2>. QED BY <1>1, <2>1, <2>2, AskingStep
<1>. QED BY <1>3, <1>4, <1>5, <1>6, <1>7, <1>8, <1>9, <1>10 DEF Outgoing

(* The tool and the hook after it.                                         *)
LEMMA IncomingKeepsDInv ==
    ASSUME IInv, DInv, NEW c \in Calls, Incoming(c)
    PROVE  DInv'
<1>. USE DEF dialogue
<1>1. /\ HasCallFields(call[c]) /\ call[c].text \in Texts \cup {NoOutput}
      /\ pendingSession \in Sessions \cup {NoSession}
  BY DEF IInv, TypeOK, DInv
<1>2. \A text \in Texts : IsTurn(ResultTurn(c, text))
  BY RecordedAreTurns
<1>3. call[c].text # NoOutput => IsTurn(ResultTurn(c, call[c].text))
  BY <1>1, <1>2
<1>4. ASSUME NEW text \in Texts \cup {NoOutput}, ToolRuns(c, text) PROVE DInv'
  <2>. DEFINE q == [NewCall EXCEPT !.stage = "ran", !.text = text]
  <2>1. /\ Becomes(c, q) /\ UNCHANGED pendingSession
        /\ \/ UNCHANGED <<history, past>>
           \/ text # NoOutput /\ Records(SessionOf(c), ResultTurn(c, text))
    BY <1>4 DEF ToolRuns
  <2>2. q.request = NoRequest /\ q.stage = "ran"
    BY DEF NewCall
  <2>. HIDE DEF q
  <2>3. Asks(c, q)
    BY <2>2 DEF Asks, AsksNothing, Asking
  <2>4. text # NoOutput => IsTurn(ResultTurn(c, text))
    BY <1>2
  <2>. QED BY <1>1, <2>1, <2>3, <2>4, AskingStep
<1>5. CASE Inspect(c)
  <2>. PICK sends : sends = Sends(c)
    OBVIOUS
  <2>. DEFINE r == call[c]
              inert == mode = "off" \/ r.text = NoOutput
              raw == Told(r, "raw")
              off == [raw EXCEPT !.met = IF mode = "off" THEN "off" ELSE @]
              asking == [r EXCEPT !.stage = "inspecting", !.request = sends]
  <2>1. /\ UNCHANGED pendingSession
        /\ UNCHANGED <<history, past>> \/ (~inert /\ Records(SessionOf(c), ResultTurn(c, r.text)))
    BY <1>5 DEF Inspect
  <2>2. \/ Becomes(c, off)
        \/ \E as : Becomes(c, Told(r, as))
        \/ Becomes(c, asking)
    BY <1>5 DEF Inspect
  <2>3. asking.request = sends
    BY <1>1 DEF HasCallFields
  <2>4. \A as : AsksNothing(r, Told(r, as))
    BY <1>1, OutcomesAskNothing
  <2>5. AsksNothing(r, off)
    <3>1. HasCallFields(raw) /\ AsksNothing(r, raw)
      BY <1>1, <2>4, ToldCalls
    <3>. HIDE DEF raw, r
    <3>2. off.request = raw.request /\ off.stage = raw.stage
      BY <3>1 DEF HasCallFields
    <3>. HIDE DEF off
    <3>. QED BY <3>1, <3>2 DEF AsksNothing
  <2>. HIDE DEF off, asking
  <2>6. PICK q : Becomes(c, q) /\ (q.request = sends \/ AsksNothing(r, q))
    BY <2>2, <2>3, <2>4, <2>5
  <2>7. Asks(c, q)
    BY <2>6 DEF Asks
  <2>. QED BY <1>1, <1>3, <2>1, <2>6, <2>7, AskingStep
<1>6. CASE InspectThrows(c)
  <2>. DEFINE raw == Told(call[c], "raw")
              q == [raw EXCEPT !.met = "exception"]
  <2>1. /\ call[c].text # NoOutput /\ Becomes(c, q) /\ UNCHANGED pendingSession
        /\ Records(SessionOf(c), ResultTurn(c, call[c].text)) \/ UNCHANGED <<history, past>>
    BY <1>6 DEF InspectThrows
  <2>2. HasCallFields(raw) /\ AsksNothing(call[c], raw)
    BY <1>1, OutcomesAskNothing, ToldCalls
  <2>. HIDE DEF raw
  <2>3. q.request = raw.request /\ q.stage = raw.stage
    BY <2>2 DEF HasCallFields
  <2>. HIDE DEF q
  <2>4. Asks(c, q)
    BY <2>2, <2>3 DEF Asks, AsksNothing
  <2>. QED BY <1>1, <1>3, <2>1, <2>4, AskingStep
<1>7. ASSUME NEW result \in InspectResults, GuardInspects(c, result) PROVE DInv'
  <2>. DEFINE r == [call[c] EXCEPT !.met = IF result \in Failures THEN result ELSE @]
              q == Told(r, ResolveIn(result, onUnavailable))
  <2>1. Becomes(c, q) /\ UNCHANGED <<history, past, pendingSession>>
    BY <1>7 DEF GuardInspects
  <2>2. HasCallFields(r) /\ r.request = call[c].request
    BY <1>1 DEF HasCallFields
  <2>. HIDE DEF r
  <2>3. AsksNothing(r, q)
    BY <2>2, OutcomesAskNothing
  <2>. HIDE DEF q
  <2>4. Asks(c, q)
    BY <2>2, <2>3, SameRequest DEF Asks
  <2>. QED BY <1>1, <2>1, <2>4, AskingStep
<1>. QED BY <1>4, <1>5, <1>6, <1>7 DEF Incoming

(* A step that leaves the calls alone.                                     *)
LEMMA OtherDialogueStep ==
    ASSUME DInv, PastGrows, UNCHANGED <<pendingSession, call>>
    PROVE  DInv'
<1>1. ASSUME NEW c \in Calls PROVE RequestIsRecent(call[c], past'[SessionOf(c)])
  <2>1. SessionOf(c) \in Sessions
    BY AdaptersBounds
  <2>2. RequestIsRecent(call[c], past[SessionOf(c)])
    BY DEF DInv
  <2>. QED BY <2>1, <2>2, StillRecent
<1>2. \A c \in Calls : RequestIsRecent(call'[c], past'[SessionOf(c)])
  BY <1>1
<1>. QED BY <1>2 DEF DInv, PastGrows, KeepsThePast, RequestIsRecent

(* Nothing has been said in a fresh process.                               *)
LEMMA InitDInv == Init => DInv
<1>. SUFFICES ASSUME Init PROVE DInv
  OBVIOUS
<1>1. AreTurns(<<>>) /\ Newest(<<>>, 0) = <<>> /\ Len(<<>>) = 0
  BY DEF AreTurns, Newest
<1>2. \A s \in Sessions : history[s] = <<>> /\ past[s] = <<>>
  BY DEF Init
<1>3. KeepsThePast(<<>>, <<>>)
  BY <1>1 DEF KeepsThePast
<1>4. \A s \in Sessions : KeepsThePast(history[s], past[s])
  BY <1>2, <1>3
<1>5. \A c \in Calls : call[c].request = NoRequest /\ call[c].stage = "new"
  BY DEF Init, NewCall
<1>6. \A c \in Calls : RequestIsRecent(call[c], past[SessionOf(c)])
  BY <1>5, NoRequestIsAccepted DEF RequestIsRecent, Asking
<1>. QED BY <1>4, <1>6 DEF Init, DInv

(* Every step keeps the dialogue recent.                                   *)
LEMMA NextKeepsDInv == IInv /\ DInv /\ [Next]_vars => DInv'
<1>. SUFFICES ASSUME IInv, DInv, [Next]_vars PROVE DInv'
  OBVIOUS
<1>1. ASSUME NEW c \in Calls, Outgoing(c) PROVE DInv'
  BY <1>1, OutgoingKeepsDInv
<1>2. ASSUME NEW c \in Calls, Incoming(c) PROVE DInv'
  BY <1>2, IncomingKeepsDInv
<1>3. ASSUME NEW m \in Messages, NEW s \in Sessions, HumanSays(m, s) PROVE DInv'
  <2>. DEFINE at == IF adapter = "pi" THEN pendingSession ELSE s
  <2>1. Records(at, HumanTurn(m)) /\ UNCHANGED <<pendingSession, call>>
    BY <1>3 DEF HumanSays
  <2>2. at \in Sessions \cup {NoSession}
    BY DEF DInv
  <2>3. IsTurn(HumanTurn(m))
    BY AdaptersBounds DEF IsTurn, HumanTurn, Turn
  <2>. HIDE DEF at
  <2>4. PastGrows
    BY <2>1, <2>2, <2>3, RecordsGrow
  <2>. QED BY <2>1, <2>4, OtherDialogueStep
<1>4. ASSUME NEW m \in Modes, ModeIsWritten(m) PROVE DInv'
  BY <1>4, PastStays, OtherDialogueStep DEF ModeIsWritten, dialogue
<1>5. CASE UNCHANGED vars
  BY <1>5, PastStays, OtherDialogueStep DEF vars
<1>. QED BY <1>1, <1>2, <1>3, <1>4, <1>5 DEF Next

(* It is an invariant.                                                     *)
LEMMA DInvHolds == Spec => []DInv
  BY InitIInv, NextKeepsIInv, InitDInv, NextKeepsDInv, PTL DEF Spec

(* The adapters clamp the dialogue to what the service's schema accepts,   *)
(* for any limits and any sizes of the turns, though they count the JSON   *)
(* of whole turns and the schema counts content and names.                 *)
THEOREM DialoguesAreAccepted == Spec => []DialogueIsNeverRefused
<1>1. DInv => DialogueIsNeverRefused
  BY DEF DInv, RequestIsRecent, DialogueIsNeverRefused
<1>. QED BY <1>1, DInvHolds, PTL

(* Through the cut by turns when they are recorded, the clamp by bytes when*)
(* they are sent, and the budget of the prompt, what the classifier is     *)
(* shown is the unbroken end of the dialogue as it stood at the request.   *)
THEOREM PromptsAreRecent == Spec => []PromptIsTheRecentPast
<1>1. ASSUME DInv, NEW c \in Calls, call[c].stage \in Asking
      PROVE  LET q == call[c].request
                 ended == SubSeq(past[SessionOf(c)], 1, q.upto) IN
             /\ Contents(Shown(c)) = Contents(Newest(ended, Len(Shown(c))))
             /\ Shown(c) = <<>> => ended = <<>> \/ Total(Json(Newest(ended, 1))) > HistoryBytes
  <2>. DEFINE turns == call[c].request.turns
              all == past[SessionOf(c)]
              upto == call[c].request.upto
              ended == SubSeq(all, 1, upto)
  <2>1. upto \in 0 .. Len(all) /\ Recent(turns, ended)
    BY <1>1 DEF DInv, RequestIsRecent
  <2>2. PICK T : all \in Seq(T)
    <3>1. SessionOf(c) \in Sessions
      BY AdaptersBounds
    <3>2. AreTurns(all)
      BY <1>1, <3>1 DEF DInv, KeepsThePast
    <3>. QED BY <3>2, TurnsAreSequences
  <2>3. Shown(c) = Fit(turns)
    BY DEF Shown
  <2>. HIDE DEF turns, all, upto
  <2>4. ended \in Seq(T)
    <3>1. \A i \in 1 .. upto : i \in 1 .. Len(all)
      BY <2>1, <2>2
    <3>. QED BY <2>1, <2>2, <3>1
  <2>. HIDE DEF ended
  <2>5. PICK k \in 0 .. Len(ended) :
           /\ turns = Newest(ended, k)
           /\ k = 0 => ended = <<>> \/ Total(Json(Newest(ended, 1))) > HistoryBytes
    BY <2>1 DEF Recent
  <2>6. PICK n \in 0 .. Len(turns) :
           /\ Len(Fit(turns)) = n /\ Contents(Fit(turns)) = Contents(Newest(turns, n))
           /\ Fit(turns) = <<>> => turns = <<>>
    BY <2>1, FitTurns DEF Recent
  <2>7. Len(turns) = k
    BY <2>4, <2>5, NewestItems
  <2>8. Newest(turns, n) = Newest(ended, n)
    BY <2>4, <2>5, <2>6, <2>7, NewestOfNewest
  <2>9. turns = <<>> => k = 0
    BY <2>7
  <2>. QED BY <2>3, <2>5, <2>6, <2>8, <2>9 DEF ended, upto, all
<1>2. DInv => PromptIsTheRecentPast
  BY <1>1 DEF PromptIsTheRecentPast, Asking
<1>. QED BY <1>2, DInvHolds, PTL
=============================================================================
