--------------------------- MODULE PluginV1Proofs ---------------------------
(* The plugin for opencode 1.x and Kilo, for any calls, texts, checks and   *)
(* limits: what passes in silence has a reason, the guard is not asked      *)
(* twice, no text reaches the model uncleared, and no mode is stale.        *)
EXTENDS PluginV1, TLAPS

(* The entries of the cache: a text of T and the guard's answer to it.     *)
Entries(T) == [text : T, answer : InspectAnswers]

(* Making room leaves a cache of entries that were there before.           *)
LEMMA EvictedEntries ==
    ASSUME NEW T, NEW cache \in Seq(Entries(T))
    PROVE  /\ Evicted(cache) \in Seq(Entries(T))
           /\ \A i \in DOMAIN Evicted(cache) : \E j \in DOMAIN cache : Evicted(cache)[i] = cache[j]
<1>1. CASE Len(cache) >= CacheLimit
  <2>1. Evicted(cache) = Tail(cache)
    BY <1>1 DEF Evicted
  <2>2. CASE cache = <<>>
    BY <1>1, <2>2, AdapterLimits
  <2>3. CASE cache # <<>>
    <3>1. Tail(cache) \in Seq(Entries(T)) /\ Len(Tail(cache)) = Len(cache) - 1
      BY <2>3
    <3>2. \A i \in DOMAIN Tail(cache) : i + 1 \in DOMAIN cache /\ Tail(cache)[i] = cache[i + 1]
      BY <2>3
    <3>. QED BY <2>1, <3>1, <3>2
  <2>. QED BY <2>2, <2>3
<1>2. CASE ~(Len(cache) >= CacheLimit)
  BY <1>2 DEF Evicted
<1>. QED BY <1>1, <1>2

(* cache.ts: what is kept under a text is the answer just given for it, or *)
(* what was kept before.                                                   *)
LEMMA KeepEntries ==
    ASSUME NEW T, NEW cache \in Seq(Entries(T)), NEW text \in T, NEW answer \in InspectAnswers
    PROVE  /\ Keep(cache, text, answer) \in Seq(Entries(T))
           /\ \A i \in DOMAIN Keep(cache, text, answer) :
                 \/ Keep(cache, text, answer)[i] = [text |-> text, answer |-> answer]
                 \/ \E j \in DOMAIN cache : Keep(cache, text, answer)[i] = cache[j]
<1>. DEFINE rest == Evicted(cache)
            entry == [text |-> text, answer |-> answer]
            at == {i \in DOMAIN rest : rest[i].text = text}
<1>1. rest \in Seq(Entries(T)) /\ \A i \in DOMAIN rest : \E j \in DOMAIN cache : rest[i] = cache[j]
  BY EvictedEntries
<1>2. entry \in Entries(T)
  BY DEF Entries
<1>3. Keep(cache, text, answer) =
        IF at = {} THEN Append(rest, entry)
        ELSE [i \in DOMAIN rest |-> IF i \in at THEN entry ELSE rest[i]]
  BY DEF Keep
<1>. HIDE DEF rest, entry
<1>4. CASE at = {}
  <2>1. Keep(cache, text, answer) = Append(rest, entry)
    BY <1>3, <1>4
  <2>2. Append(rest, entry) \in Seq(Entries(T))
    BY <1>1, <1>2
  <2>3. \A i \in DOMAIN Append(rest, entry) :
           Append(rest, entry)[i] = entry \/ (i \in DOMAIN rest /\ Append(rest, entry)[i] = rest[i])
    BY <1>1, <1>2
  <2>. QED BY <2>1, <2>2, <2>3, <1>1 DEF entry
<1>5. CASE at # {}
  <2>7. DOMAIN rest = 1 .. Len(rest)
    BY <1>1
  <2>1. Keep(cache, text, answer) = [i \in 1 .. Len(rest) |-> IF i \in at THEN entry ELSE rest[i]]
    <3>. HIDE DEF at
    <3>1. Keep(cache, text, answer) = [i \in DOMAIN rest |-> IF i \in at THEN entry ELSE rest[i]]
      BY <1>3, <1>5
    <3>. QED BY <3>1, <2>7
  <2>2. \A i \in 1 .. Len(rest) : rest[i] \in Entries(T)
    BY <1>1
  <2>3. Len(rest) \in Nat
    BY <1>1
  <2>4. Keep(cache, text, answer) \in [1 .. Len(rest) -> Entries(T)]
    BY <2>1, <2>2, <1>2
  <2>5. Keep(cache, text, answer) \in Seq(Entries(T))
    BY <2>3, <2>4
  <2>6. \A i \in DOMAIN Keep(cache, text, answer) :
           Keep(cache, text, answer)[i] = entry \/ (i \in DOMAIN rest /\ Keep(cache, text, answer)[i] = rest[i])
    BY <1>1, <2>1
  <2>. QED BY <2>5, <2>6, <1>1 DEF entry
<1>. QED BY <1>4, <1>5

Deciding == {"idle", "looking", "asking", "prompted"}

Check == [rule : {"allow", "ask"}, asked : {"nobody", "human"}]

CallRecord ==
    [stage : Deciding \cup {"ran", "fetching", "inspecting", "told", "blocked"},
     hook : {"none", "before", "permission"}, rule : {"allow", "ask"}, begun : BOOLEAN,
     asks : Nat, heard : SUBSET (OutStatus \cup {"unreachable"}), since : SUBSET Nat,
     checks : Seq(Check), text : Texts \cup {NoOutput}, threw : BOOLEAN,
     told : {"nothing", "raw", "masked", "removed", "withheld"},
     met : {"nothing", "off"} \cup Failures]

Verdict == [status : OutStatus, at : Nat]

PluginTypeOK ==
    /\ onUnavailable \in OnUnavailables
    /\ file \in [exists : BOOLEAN, mode : Modes, mtime : Nat]
    /\ modeCache \in [known : BOOLEAN, mode : Modes, mtime : Nat]
    /\ patched \in BOOLEAN
    /\ DOMAIN verdicts \subseteq Calls /\ \A c \in DOMAIN verdicts : verdicts[c] \in Verdict
    /\ inspectCache \in Seq(Entries(Texts \cup {NoOutput}))
    /\ call \in [Calls -> CallRecord]
    /\ clock \in Nat

(* The cached mode is one of the last tick's, or its time stamp shows that *)
(* it is older.                                                            *)
ModesAreFresh ==
    /\ file.exists => file.mtime <= clock /\ file.mode \in lastTick
    /\ ~file.exists => file.mode = "auto" /\ ~modeCache.known
    /\ modeCache.known => /\ modeCache.mtime <= file.mtime
                          /\ modeCache.mtime = file.mtime => modeCache.mode \in lastTick

(* An answer that lets a text through is kept only for a cleared text.     *)
KeptAnswersAreCleared ==
    \A i \in DOMAIN inspectCache :
        inspectCache[i].answer \in {"pass", "mask_without_text"} => inspectCache[i].text \in cleared

(* Why a call may pass an asking rule in silence.                          *)
Reason(x, unavailable) ==
    \/ "allow" \in x.heard
    \/ /\ unavailable = "allow" /\ "unreachable" \in x.heard
       /\ \E j \in DOMAIN x.checks : x.checks[j].rule = "allow"

ChecksHaveReasons(x, unavailable) ==
    \A i \in DOMAIN x.checks :
        x.checks[i].rule = "ask" /\ x.checks[i].asked = "nobody" =>
            \/ "allow" \in x.heard
            \/ /\ unavailable = "allow" /\ "unreachable" \in x.heard
               /\ \E j \in 1 .. i - 1 : x.checks[j].rule = "allow"

(* An allow in the book has a reason while the call is being decided.      *)
BookHasReasons(c, x, book, unavailable) ==
    x.stage \in Deciding /\ c \in DOMAIN book =>
        (book[c].status = "allow" => Reason(x, unavailable))

Old(x, now) == \E t \in x.since : t + VerdictTtl < now

(* A first verdict is old, or the book still has one that is no older.     *)
Recalled(c, x, book, now) ==
    Old(x, now) \/ (c \in DOMAIN book /\ \E t \in x.since : t <= book[c].at)

(* When a call asks the guard again.                                       *)
AsksInTime(c, x, book, now, seen) ==
    /\ x.since \subseteq 0 .. now
    /\ x.asks > 1 => Old(x, now)
    /\ x.stage \in Deciding =>
        /\ x.stage \in {"idle", "prompted"} /\ x.asks > 0 => x.since # {}
        /\ x.stage = "looking" /\ x.asks > 0 => Old(x, now)
        /\ x.stage \in {"looking", "asking"} => x.begun \/ seen
        /\ x.since # {} => (x.begun \/ seen) /\ Recalled(c, x, book, now)

RawIsCleared(x, texts, unavailable) ==
    x.told = "raw" =>
        /\ x.stage = "told"
        /\ x.text # NoOutput =>
            \/ IsOwnMessage(x)
            \/ x.text \in texts
            \/ x.met \in {"off", "not_implemented"}
            \/ x.met = "unreachable" /\ unavailable # "deny"

HookIsKnown(x) == x.stage \in {"looking", "asking"} => x.hook # "none"

Sound(c, x, book, now, seen, texts, unavailable) ==
    /\ HookIsKnown(x)
    /\ ChecksHaveReasons(x, unavailable)
    /\ BookHasReasons(c, x, book, unavailable)
    /\ AsksInTime(c, x, book, now, seen)
    /\ RawIsCleared(x, texts, unavailable)

IInv ==
    /\ PluginTypeOK
    /\ ModesAreFresh
    /\ KeptAnswersAreCleared
    /\ \A c \in Calls : Sound(c, call[c], verdicts, clock, patched, cleared, onUnavailable)

----------------------------------------------------------------------------
(* How a call's record moves on.                                           *)

(* The fields only a verdict, a run or a block changes.                    *)
Same(x, y) ==
    /\ y.begun = x.begun /\ y.asks = x.asks /\ y.heard = x.heard /\ y.since = x.since
    /\ y.text = x.text /\ y.told = x.told /\ y.met = x.met

LEMMA NewCallIs ==
    /\ NewCall \in CallRecord
    /\ NewCall.stage = "idle" /\ NewCall.hook = "none" /\ ~NewCall.begun /\ NewCall.asks = 0
    /\ NewCall.heard = {} /\ NewCall.since = {} /\ NewCall.checks = <<>> /\ NewCall.text = NoOutput
    /\ NewCall.told = "nothing" /\ NewCall.met = "nothing"
BY DEF NewCall, CallRecord, Deciding

LEMMA PassedIs ==
    ASSUME NEW r \in CallRecord, NEW asked \in {"nobody", "human"}
    PROVE  /\ Passed(r, asked) \in CallRecord /\ Same(r, Passed(r, asked))
           /\ Passed(r, asked).stage = "idle"
           /\ Passed(r, asked).checks = Append(r.checks, [rule |-> r.rule, asked |-> asked])
<1>. DEFINE check == [rule |-> r.rule, asked |-> asked]
            checks == Append(r.checks, check)
<1>1. check \in Check /\ r.checks \in Seq(Check)
  BY DEF Check, CallRecord
<1>2. checks \in Seq(Check)
  BY <1>1
<1>3. Passed(r, asked) = [r EXCEPT !.stage = "idle", !.hook = "none", !.rule = "ask", !.checks = checks]
  BY DEF Passed
<1>. HIDE DEF checks
<1>4. LET y == [r EXCEPT !.stage = "idle", !.hook = "none", !.rule = "ask", !.checks = checks]
      IN  y \in CallRecord /\ Same(r, y) /\ y.stage = "idle" /\ y.checks = checks
  BY <1>2 DEF CallRecord, Deciding, Same
<1>. QED BY <1>3, <1>4 DEF checks

LEMMA PromptedIs ==
    ASSUME NEW r \in CallRecord
    PROVE  /\ Prompted(r) \in CallRecord /\ Same(r, Prompted(r))
           /\ Prompted(r).stage = "prompted" /\ Prompted(r).checks = r.checks
BY DEF Prompted, CallRecord, Deciding, Same

LEMMA BlockedIs ==
    ASSUME NEW r \in CallRecord
    PROVE  /\ Blocked(r) \in CallRecord
           /\ Blocked(r).stage = "blocked" /\ Blocked(r).checks = <<>>
           /\ Blocked(r).asks = 0 /\ Blocked(r).since = {} /\ Blocked(r).told = "nothing"
BY NewCallIs DEF Blocked, NewCall, CallRecord, Deciding

(* An answered `before` hook.                                              *)
LEMMA ReturnedIs ==
    ASSUME NEW r \in CallRecord
    PROVE  LET y == [r EXCEPT !.stage = "idle", !.hook = "none"]
           IN  y \in CallRecord /\ Same(r, y) /\ y.stage = "idle" /\ y.checks = r.checks
BY DEF CallRecord, Deciding, Same

LEMMA HeardIs ==
    ASSUME NEW r \in CallRecord, NEW what \in DecideResults, clock \in Nat
    PROVE  LET y == Heard(r, what)
           IN  /\ y \in CallRecord
               /\ y.stage = r.stage /\ y.hook = r.hook /\ y.rule = r.rule /\ y.begun = r.begun
               /\ y.asks = r.asks /\ y.checks = r.checks /\ y.text = r.text /\ y.told = r.told
               /\ r.heard \subseteq y.heard
               /\ what = "allow" => "allow" \in y.heard
               /\ what = "unreachable" => "unreachable" \in y.heard
               /\ y.since = IF r.since = {} THEN {clock} ELSE r.since
<1>. DEFINE heard == r.heard \cup {IF what \in {"refused", "not_implemented"} THEN "ask" ELSE what}
            since == IF r.since = {} THEN {clock} ELSE r.since
<1>1. heard \in SUBSET (OutStatus \cup {"unreachable"}) /\ since \in SUBSET Nat
  BY DEF CallRecord, DecideResults, Failures, OutStatus
<1>2. Heard(r, what) = [r EXCEPT !.heard = heard, !.since = since]
  BY DEF Heard
<1>3. /\ r.heard \subseteq heard
      /\ what = "allow" => "allow" \in heard
      /\ what = "unreachable" => "unreachable" \in heard
  OBVIOUS
<1>. HIDE DEF heard, since
<1>4. LET y == [r EXCEPT !.heard = heard, !.since = since]
      IN  /\ y \in CallRecord
          /\ y.stage = r.stage /\ y.hook = r.hook /\ y.rule = r.rule /\ y.begun = r.begun
          /\ y.asks = r.asks /\ y.checks = r.checks /\ y.text = r.text /\ y.told = r.told
          /\ y.heard = heard /\ y.since = since
  BY <1>1 DEF CallRecord
<1>. QED BY <1>2, <1>3, <1>4 DEF since

(* A check that passes keeps the reasons of those before it.               *)
LEMMA PassedReasons ==
    ASSUME NEW r \in CallRecord, NEW asked \in {"nobody", "human"}, NEW unavailable,
           ChecksHaveReasons(r, unavailable),
           r.rule = "ask" /\ asked = "nobody" => Reason(r, unavailable)
    PROVE  LET y == Passed(r, asked)
           IN  /\ ChecksHaveReasons(y, unavailable)
               /\ Reason(r, unavailable) => Reason(y, unavailable)
               /\ r.rule = "allow" /\ unavailable = "allow" /\ "unreachable" \in r.heard =>
                    Reason(y, unavailable)
<1>. DEFINE check == [rule |-> r.rule, asked |-> asked]
            y == Passed(r, asked)
            n == Len(r.checks)
<1>1. y.heard = r.heard /\ y.checks = Append(r.checks, check)
  BY PassedIs DEF Same
<1>2. check \in Check /\ r.checks \in Seq(Check) /\ n \in Nat
  BY DEF Check, CallRecord
<1>3. /\ DOMAIN y.checks = 1 .. n + 1 /\ y.checks[n + 1] = check
      /\ DOMAIN r.checks = 1 .. n /\ \A i \in 1 .. n : y.checks[i] = r.checks[i]
  BY <1>1, <1>2
<1>4. check.rule = r.rule /\ check.asked = asked
  OBVIOUS
<1>. HIDE DEF check, y, n
<1>5. ASSUME NEW i \in DOMAIN y.checks, y.checks[i].rule = "ask", y.checks[i].asked = "nobody"
      PROVE  \/ "allow" \in y.heard
             \/ /\ unavailable = "allow" /\ "unreachable" \in y.heard
                /\ \E j \in 1 .. i - 1 : y.checks[j].rule = "allow"
  <2>1. CASE i = n + 1
    <3>1. Reason(r, unavailable)
      BY <1>3, <1>4, <1>5, <2>1
    <3>2. i - 1 = n
      BY <1>2, <2>1
    <3>. QED BY <1>1, <1>3, <3>1, <3>2 DEF Reason
  <2>2. CASE i # n + 1
    <3>1. i \in 1 .. n /\ \A j \in 1 .. i - 1 : j \in 1 .. n
      BY <1>2, <1>3, <1>5, <2>2
    <3>. QED BY <1>1, <1>3, <1>5, <3>1 DEF ChecksHaveReasons
  <2>. QED BY <2>1, <2>2
<1>6. ChecksHaveReasons(y, unavailable)
  BY <1>5 DEF ChecksHaveReasons
<1>7. Reason(r, unavailable) => Reason(y, unavailable)
  <2>1. \A j \in 1 .. n : j \in 1 .. n + 1
    BY <1>2
  <2>. QED BY <1>1, <1>3, <2>1 DEF Reason
<1>8. r.rule = "allow" /\ unavailable = "allow" /\ "unreachable" \in r.heard => Reason(y, unavailable)
  <2>1. n + 1 \in 1 .. n + 1
    BY <1>2
  <2>. QED BY <1>1, <1>3, <1>4, <2>1 DEF Reason
<1>. QED BY <1>6, <1>7, <1>8 DEF y

(* What holds of a call between two hooks, and of one that has its verdict. *)
Answered(c, x, book, now, seen) ==
    /\ x.since \subseteq 0 .. now
    /\ x.asks > 1 => Old(x, now)
    /\ x.asks > 0 => x.since # {}
    /\ x.since # {} => (x.begun \/ seen) /\ Recalled(c, x, book, now)

LEMMA RestingIsSound ==
    ASSUME NEW c, NEW r \in CallRecord, NEW y \in CallRecord, Same(r, y),
           y.stage \in {"idle", "prompted"},
           NEW book, NEW now, NEW seen, NEW texts, NEW unavailable,
           Answered(c, r, book, now, seen), r.told # "raw",
           ChecksHaveReasons(y, unavailable),
           c \in DOMAIN book => (book[c].status = "allow" => Reason(y, unavailable))
    PROVE  Sound(c, y, book, now, seen, texts, unavailable)
<1>1. AsksInTime(c, y, book, now, seen)
  BY DEF Answered, Same, AsksInTime, Old, Recalled
<1>2. RawIsCleared(y, texts, unavailable)
  BY DEF Same, RawIsCleared
<1>3. BookHasReasons(c, y, book, unavailable)
  BY DEF BookHasReasons
<1>4. HookIsKnown(y)
  BY DEF HookIsKnown
<1>. QED BY <1>1, <1>2, <1>3, <1>4 DEF Sound

LEMMA BlockedIsSound ==
    ASSUME NEW c, NEW r \in CallRecord, NEW book, NEW now, NEW seen, NEW texts, NEW unavailable
    PROVE  Sound(c, Blocked(r), book, now, seen, texts, unavailable)
BY BlockedIs DEF Sound, HookIsKnown, ChecksHaveReasons, BookHasReasons, AsksInTime, RawIsCleared, Deciding

(* A call that passes a check, with a reason where it passes in silence.   *)
LEMMA PassedIsSound ==
    ASSUME NEW c, NEW r \in CallRecord, NEW asked \in {"nobody", "human"},
           NEW book, NEW now, NEW seen, NEW texts, NEW unavailable,
           Answered(c, r, book, now, seen), r.told # "raw", ChecksHaveReasons(r, unavailable),
           r.rule = "ask" /\ asked = "nobody" => Reason(r, unavailable),
           c \in DOMAIN book => (book[c].status = "allow" =>
               \/ Reason(r, unavailable)
               \/ r.rule = "allow" /\ unavailable = "allow" /\ "unreachable" \in r.heard)
    PROVE  /\ Passed(r, asked) \in CallRecord
           /\ Sound(c, Passed(r, asked), book, now, seen, texts, unavailable)
<1>. DEFINE y == Passed(r, asked)
<1>1. y \in CallRecord /\ Same(r, y) /\ y.stage \in {"idle", "prompted"}
  BY PassedIs
<1>2. /\ ChecksHaveReasons(y, unavailable)
      /\ Reason(r, unavailable) => Reason(y, unavailable)
      /\ r.rule = "allow" /\ unavailable = "allow" /\ "unreachable" \in r.heard =>
            Reason(y, unavailable)
  BY PassedReasons
<1>. HIDE DEF y
<1>3. c \in DOMAIN book => (book[c].status = "allow" => Reason(y, unavailable))
  BY <1>2
<1>4. Sound(c, y, book, now, seen, texts, unavailable)
  BY <1>1, <1>2, <1>3, RestingIsSound
<1>. QED BY <1>1, <1>4 DEF y

LEMMA SameReasons ==
    ASSUME NEW r, NEW y, Same(r, y), y.checks = r.checks, NEW unavailable
    PROVE  /\ ChecksHaveReasons(r, unavailable) => ChecksHaveReasons(y, unavailable)
           /\ Reason(r, unavailable) => Reason(y, unavailable)
BY DEF Same, ChecksHaveReasons, Reason

(* A call that waits for the human, or whose `before` hook returns.        *)
LEMMA UnpassedIsSound ==
    ASSUME NEW c, NEW r \in CallRecord, NEW y \in CallRecord, Same(r, y), y.checks = r.checks,
           y.stage \in {"idle", "prompted"},
           NEW book, NEW now, NEW seen, NEW texts, NEW unavailable,
           Answered(c, r, book, now, seen), r.told # "raw", ChecksHaveReasons(r, unavailable),
           c \in DOMAIN book => (book[c].status = "allow" => Reason(r, unavailable))
    PROVE  Sound(c, y, book, now, seen, texts, unavailable)
<1>1. /\ ChecksHaveReasons(y, unavailable)
      /\ Reason(r, unavailable) => Reason(y, unavailable)
  BY SameReasons
<1>2. c \in DOMAIN book => (book[c].status = "allow" => Reason(y, unavailable))
  BY <1>1
<1>. QED BY <1>1, <1>2, RestingIsSound

(* A hook that has its status ends soundly: an allow needs its reason,     *)
(* unless it only says what the rules said to this very check.             *)
LEMMA EndedIsSound ==
    ASSUME NEW c, NEW r \in CallRecord, NEW status \in OutStatus,
           NEW book, NEW now, NEW seen, NEW texts, NEW unavailable,
           Answered(c, r, book, now, seen), r.told # "raw", ChecksHaveReasons(r, unavailable),
           status = "allow" =>
               \/ Reason(r, unavailable)
               \/ r.hook = "permission" /\ r.rule = "allow",
           c \in DOMAIN book => (book[c].status = "allow" =>
               \/ Reason(r, unavailable)
               \/ /\ status = "allow" /\ r.hook = "permission" /\ r.rule = "allow"
                  /\ unavailable = "allow" /\ "unreachable" \in r.heard)
    PROVE  /\ Ended(r, status) \in CallRecord
           /\ Sound(c, Ended(r, status), book, now, seen, texts, unavailable)
<1>1. CASE status = "deny"
  <2>1. Ended(r, status) = Blocked(r)
    BY <1>1 DEF Ended
  <2>. QED BY <2>1, BlockedIs, BlockedIsSound
<1>2. CASE status # "deny" /\ r.hook = "before"
  <2>. DEFINE y == [r EXCEPT !.stage = "idle", !.hook = "none"]
  <2>1. Ended(r, status) = y
    BY <1>2 DEF Ended
  <2>2. y \in CallRecord /\ Same(r, y) /\ y.stage \in {"idle", "prompted"} /\ y.checks = r.checks
    BY ReturnedIs
  <2>. HIDE DEF y
  <2>3. c \in DOMAIN book => (book[c].status = "allow" => Reason(r, unavailable))
    BY <1>2
  <2>4. Sound(c, y, book, now, seen, texts, unavailable)
    BY <2>2, <2>3, UnpassedIsSound
  <2>. QED BY <2>1, <2>2, <2>4
<1>3. CASE status = "allow" /\ r.hook = "permission"
  <2>1. Ended(r, status) = Passed(r, "nobody")
    BY <1>3 DEF Ended
  <2>2. r.rule = "ask" /\ "nobody" = "nobody" => Reason(r, unavailable)
    BY <1>3
  <2>3. c \in DOMAIN book => (book[c].status = "allow" =>
               \/ Reason(r, unavailable)
               \/ r.rule = "allow" /\ unavailable = "allow" /\ "unreachable" \in r.heard)
    OBVIOUS
  <2>4. /\ Passed(r, "nobody") \in CallRecord
        /\ Sound(c, Passed(r, "nobody"), book, now, seen, texts, unavailable)
    <3>1. "nobody" \in {"nobody", "human"}
      OBVIOUS
    <3>. QED BY <2>2, <2>3, <3>1, PassedIsSound, ZenonT(60)
  <2>. QED BY <2>1, <2>4
<1>4. CASE status # "deny" /\ r.hook # "before" /\ ~(status = "allow" /\ r.hook = "permission")
  <2>1. Ended(r, status) = Prompted(r)
    BY <1>4 DEF Ended
  <2>. DEFINE y == Prompted(r)
  <2>2. y \in CallRecord /\ Same(r, y) /\ y.stage \in {"idle", "prompted"} /\ y.checks = r.checks
    BY PromptedIs
  <2>. HIDE DEF y
  <2>3. c \in DOMAIN book => (book[c].status = "allow" => Reason(r, unavailable))
    BY <1>4
  <2>4. Sound(c, y, book, now, seen, texts, unavailable)
    BY <2>2, <2>3, UnpassedIsSound
  <2>. QED BY <2>1, <2>2, <2>4 DEF y
<1>5. \/ status = "deny"
      \/ status # "deny" /\ r.hook = "before"
      \/ status = "allow" /\ r.hook = "permission"
      \/ status # "deny" /\ r.hook # "before" /\ ~(status = "allow" /\ r.hook = "permission")
  OBVIOUS
<1>. QED BY <1>1, <1>2, <1>3, <1>4, <1>5

----------------------------------------------------------------------------
(* How the other calls, and time, disturb a call.                          *)

(* What a sweep, or another call's verdict, may do to a call's verdict.    *)
Follows(c, book, book2, now) ==
    /\ c \in DOMAIN book2 => c \in DOMAIN book /\ book2[c] = book[c]
    /\ c \in DOMAIN book /\ c \notin DOMAIN book2 => book[c].at + VerdictTtl < now

BookType(book) == DOMAIN book \subseteq Calls /\ \A c \in DOMAIN book : book[c] \in Verdict

LEMMA WeatherIsSound ==
    ASSUME NEW c, NEW x \in CallRecord, NEW book, NEW book2, NEW now \in Nat, NEW now2 \in Nat,
           NEW seen \in BOOLEAN, NEW seen2 \in BOOLEAN, NEW texts, NEW texts2, NEW unavailable,
           Sound(c, x, book, now, seen, texts, unavailable), BookType(book),
           now <= now2, seen => seen2, texts \subseteq texts2, Follows(c, book, book2, now2)
    PROVE  Sound(c, x, book2, now2, seen2, texts2, unavailable)
<1>1. ChecksHaveReasons(x, unavailable) /\ HookIsKnown(x)
  BY DEF Sound
<1>2. BookHasReasons(c, x, book2, unavailable)
  BY DEF Sound, BookHasReasons, Follows
<1>3. RawIsCleared(x, texts2, unavailable)
  BY DEF Sound, RawIsCleared
<1>4. AsksInTime(c, x, book2, now2, seen2)
  <2>1. AsksInTime(c, x, book, now, seen)
    BY DEF Sound
  <2>2. x.since \subseteq 0 .. now2
    BY <2>1 DEF AsksInTime
  <2>3. Old(x, now) => Old(x, now2)
    <3>1. ASSUME NEW t \in x.since, t + VerdictTtl < now
          PROVE  t + VerdictTtl < now2
      BY <2>2, <3>1, AdapterLimits
    <3>. QED BY <3>1 DEF Old
  <2>4. Recalled(c, x, book, now) => Recalled(c, x, book2, now2)
    <3>1. ASSUME c \in DOMAIN book, NEW t \in x.since, t <= book[c].at, c \notin DOMAIN book2
          PROVE  Old(x, now2)
      <4>1. book[c].at + VerdictTtl < now2 /\ book[c].at \in Nat
        BY <3>1 DEF Follows, BookType, Verdict
      <4>2. t \in Nat
        BY <2>2
      <4>3. t + VerdictTtl < now2
        BY <3>1, <4>1, <4>2, AdapterLimits
      <4>. QED BY <4>3 DEF Old
    <3>. QED BY <2>3, <3>1 DEF Recalled, Follows
  <2>. QED BY <2>1, <2>2, <2>3, <2>4 DEF AsksInTime
<1>. QED BY <1>1, <1>2, <1>3, <1>4 DEF Sound

LEMMA EnterIs ==
    ASSUME NEW c \in Calls, NEW status \in OutStatus, NEW now \in Nat, NEW book, BookType(book)
    PROVE  LET entered == Enter(book, c, status, now)
           IN  /\ BookType(entered)
               /\ c \in DOMAIN entered /\ entered[c] = [status |-> status, at |-> now]
               /\ \A d \in Calls \ {c} : Follows(d, book, entered, now)
<1>. DEFINE kept == Sweep(book, now)
            entered == Enter(book, c, status, now)
            entry == [status |-> status, at |-> now]
<1>1. /\ DOMAIN kept = {d \in DOMAIN book : book[d].at + VerdictTtl >= now}
      /\ \A d \in DOMAIN kept : kept[d] = book[d]
  BY DEF Sweep, Restrict
<1>2. entered = [d \in DOMAIN kept \cup {c} |-> IF d = c THEN entry ELSE kept[d]]
  BY DEF Enter
<1>3. entry \in Verdict
  BY DEF Verdict
<1>. HIDE DEF kept, entered, entry
<1>4. BookType(entered)
  BY <1>1, <1>2, <1>3 DEF BookType
<1>5. c \in DOMAIN entered /\ entered[c] = entry
  BY <1>2
<1>6. ASSUME NEW d \in Calls \ {c}
      PROVE  Follows(d, book, entered, now)
  <2>1. d \in DOMAIN entered => d \in DOMAIN book /\ entered[d] = book[d]
    BY <1>1, <1>2
  <2>2. ASSUME d \in DOMAIN book, d \notin DOMAIN entered
        PROVE  book[d].at + VerdictTtl < now
    <3>1. ~(book[d].at + VerdictTtl >= now)
      BY <1>1, <1>2, <2>2
    <3>2. book[d].at \in Nat
      BY <2>2 DEF BookType, Verdict
    <3>. QED BY <3>1, <3>2, AdapterLimits
  <2>. QED BY <2>1, <2>2 DEF Follows
<1>. QED BY <1>4, <1>5, <1>6 DEF entry, entered

(* Reading the mode.                                                       *)
LEMMA ReadingIsFresh ==
    ASSUME PluginTypeOK, ModesAreFresh
    PROVE  /\ Mode \in Modes
           /\ IF file.exists THEN Mode \in lastTick ELSE Mode = "auto"
           /\ LET read == AfterRead(file, modeCache)
              IN  /\ read \in [known : BOOLEAN, mode : Modes, mtime : Nat]
                  /\ read.known /\ file.exists => read.mtime <= file.mtime
                                /\ (read.mtime = file.mtime => read.mode \in lastTick)
                  /\ ~file.exists => ~read.known
<1>1. /\ file \in [exists : BOOLEAN, mode : Modes, mtime : Nat]
      /\ modeCache \in [known : BOOLEAN, mode : Modes, mtime : Nat]
  BY DEF PluginTypeOK
<1>2. CASE file.exists /\ Hit(file, modeCache)
  BY <1>1, <1>2 DEF Mode, ReadMode, AfterRead, Hit, ModesAreFresh
<1>3. CASE file.exists /\ ~Hit(file, modeCache)
  BY <1>1, <1>3 DEF Mode, ReadMode, AfterRead, ModesAreFresh
<1>4. CASE ~file.exists
  BY <1>1, <1>4 DEF Mode, ReadMode, AfterRead, ModesAreFresh
<1>. QED BY <1>1, <1>2, <1>3, <1>4

(* A step of call c that keeps the clock.                                  *)
LEMMA CallStep ==
    ASSUME IInv, NEW c \in Calls, NEW y \in CallRecord, Becomes(c, y),
           UNCHANGED <<config, modeVars, clock>>, modeCache' = modeCache \/ ReadsMode,
           patched' \in BOOLEAN, patched => patched', cleared \subseteq cleared',
           BookType(verdicts'), \A d \in Calls \ {c} : Follows(d, verdicts, verdicts', clock),
           inspectCache' \in Seq(Entries(Texts \cup {NoOutput})), KeptAnswersAreCleared',
           Sound(c, y, verdicts', clock, patched', cleared', onUnavailable)
    PROVE  IInv'
<1>1. call' = [call EXCEPT ![c] = y] /\ call \in [Calls -> CallRecord]
  BY DEF Becomes, IInv, PluginTypeOK
<1>2. call' \in [Calls -> CallRecord]
  BY <1>1
<1>3. onUnavailable' = onUnavailable /\ clock' = clock /\ file' = file /\ lastTick' = lastTick
  BY DEF config, modeVars
<1>4. PluginTypeOK /\ ModesAreFresh
  BY DEF IInv
<1>5. modeCache' \in [known : BOOLEAN, mode : Modes, mtime : Nat] /\ ModesAreFresh'
  <2>1. CASE modeCache' = modeCache
    BY <1>3, <1>4, <2>1 DEF ModesAreFresh, PluginTypeOK
  <2>2. CASE ReadsMode
    <3>1. modeCache' = AfterRead(file, modeCache)
      BY <2>2 DEF ReadsMode
    <3>. QED BY <1>3, <1>4, <3>1, ReadingIsFresh DEF ModesAreFresh
  <2>. QED BY <2>1, <2>2
<1>6. PluginTypeOK'
  BY <1>2, <1>3, <1>4, <1>5 DEF PluginTypeOK, BookType
<1>7. ASSUME NEW d \in Calls
      PROVE  Sound(d, call'[d], verdicts', clock', patched', cleared', onUnavailable')
  <2>1. CASE d = c
    BY <1>1, <1>3, <2>1
  <2>2. CASE d # c
    <3>1. call'[d] = call[d] /\ call[d] \in CallRecord
      BY <1>1, <2>2
    <3>2. Sound(d, call[d], verdicts, clock, patched, cleared, onUnavailable)
      BY DEF IInv
    <3>3. BookType(verdicts) /\ clock \in Nat /\ patched \in BOOLEAN
      BY <1>4 DEF PluginTypeOK, BookType
    <3>4. Follows(d, verdicts, verdicts', clock) /\ clock <= clock
      BY <2>2, <3>3
    <3>5. Sound(d, call[d], verdicts', clock, patched', cleared', onUnavailable)
      BY <3>1, <3>2, <3>3, <3>4, WeatherIsSound
    <3>. QED BY <1>3, <3>1, <3>5
  <2>. QED BY <2>1, <2>2
<1>. QED BY <1>5, <1>6, <1>7 DEF IInv

(* One that keeps the book and the inspection cache as well.               *)
LEMMA QuietStep ==
    ASSUME IInv, NEW c \in Calls, NEW y \in CallRecord, Becomes(c, y),
           UNCHANGED <<config, modeVars, clock, verdicts, inspectCache, cleared>>,
           modeCache' = modeCache \/ ReadsMode, patched' \in BOOLEAN, patched => patched',
           Sound(c, y, verdicts, clock, patched', cleared, onUnavailable)
    PROVE  IInv'
<1>1. /\ BookType(verdicts') /\ inspectCache' \in Seq(Entries(Texts \cup {NoOutput}))
      /\ KeptAnswersAreCleared' /\ cleared \subseteq cleared'
  BY DEF IInv, PluginTypeOK, BookType, KeptAnswersAreCleared
<1>2. \A d \in Calls \ {c} : Follows(d, verdicts, verdicts', clock)
  BY DEF Follows
<1>3. Sound(c, y, verdicts', clock, patched', cleared', onUnavailable)
  OBVIOUS
<1>4. UNCHANGED <<config, modeVars, clock>>
  OBVIOUS
<1>. QED BY <1>1, <1>2, <1>3, <1>4, CallStep

----------------------------------------------------------------------------
(* The hooks of outgoing calls.                                            *)

(* A call that has not run yet, seen from a hook that may set its flags.   *)
Resting(c, r, book, now, seen, unavailable) ==
    /\ Answered(c, r, book, now, seen) /\ r.told # "raw"
    /\ ChecksHaveReasons(r, unavailable)
    /\ c \in DOMAIN book => (book[c].status = "allow" => Reason(r, unavailable))

LEMMA RestingCall ==
    ASSUME IInv, NEW c \in Calls, call[c].stage \in {"idle", "prompted"}
    PROVE  /\ call[c] \in CallRecord
           /\ Resting(c, call[c], verdicts, clock, patched, onUnavailable)
<1>1. call[c] \in CallRecord /\ Sound(c, call[c], verdicts, clock, patched, cleared, onUnavailable)
  BY DEF IInv, PluginTypeOK
<1>2. call[c].stage \in Deciding /\ call[c].stage # "told"
  BY DEF Deciding
<1>. QED BY <1>1, <1>2 DEF Sound, Resting, Answered, AsksInTime, RawIsCleared, BookHasReasons

(* A hook sets what says which check it is, and that the call has begun.   *)
Hooks(x, r) ==
    /\ r.stage = x.stage /\ r.asks = x.asks /\ r.heard = x.heard /\ r.since = x.since
    /\ r.checks = x.checks /\ r.told = x.told
    /\ x.begun => r.begun

LEMMA HookedCall ==
    ASSUME NEW c, NEW x, NEW r, Hooks(x, r),
           NEW book, NEW now, NEW seen, NEW seen2, seen => seen2, NEW unavailable,
           Resting(c, x, book, now, seen, unavailable)
    PROVE  Resting(c, r, book, now, seen2, unavailable)
<1>1. /\ ChecksHaveReasons(x, unavailable) => ChecksHaveReasons(r, unavailable)
      /\ Reason(x, unavailable) => Reason(r, unavailable)
  BY DEF Hooks, ChecksHaveReasons, Reason
<1>2. Answered(c, x, book, now, seen) => Answered(c, r, book, now, seen2)
  BY DEF Hooks, Answered, Old, Recalled
<1>. QED BY <1>1, <1>2 DEF Hooks, Resting

(* What a decided hook leaves of a call and the book.                      *)
LEMMA VerdictIsSound ==
    ASSUME NEW c \in Calls, NEW r \in CallRecord, NEW what \in DecideResults, NEW status \in OutStatus,
           clock \in Nat, NEW book, BookType(book), NEW seen, NEW texts, NEW unavailable,
           r.since \subseteq 0 .. clock, r.asks > 1 => Old(r, clock), r.begun \/ seen,
           r.told # "raw", ChecksHaveReasons(r, unavailable),
           status = "allow" =>
               \/ what = "allow"
               \/ /\ what = "unreachable" /\ unavailable = "allow"
                  /\ r.hook = "permission" /\ r.rule = "allow"
    PROVE  LET y == Ended(Heard(r, what), status)
               entered == Enter(book, c, status, clock)
           IN  y \in CallRecord /\ Sound(c, y, entered, clock, seen, texts, unavailable)
<1>. DEFINE h == Heard(r, what)
            entered == Enter(book, c, status, clock)
<1>1. /\ h \in CallRecord
      /\ h.stage = r.stage /\ h.hook = r.hook /\ h.rule = r.rule /\ h.begun = r.begun
      /\ h.asks = r.asks /\ h.checks = r.checks /\ h.text = r.text /\ h.told = r.told
      /\ r.heard \subseteq h.heard
      /\ what = "allow" => "allow" \in h.heard
      /\ what = "unreachable" => "unreachable" \in h.heard
      /\ h.since = IF r.since = {} THEN {clock} ELSE r.since
  BY HeardIs
<1>2. c \in DOMAIN entered /\ entered[c] = [status |-> status, at |-> clock]
  BY EnterIs
<1>3. entered[c].status = status /\ entered[c].at = clock
  BY <1>2
<1>. HIDE DEF h, entered
<1>4. h.since \subseteq 0 .. clock /\ h.since # {}
  BY <1>1
<1>5. Recalled(c, h, entered, clock)
  <2>1. PICK t \in h.since : TRUE
    BY <1>4
  <2>2. t <= clock
    BY <1>4
  <2>. QED BY <1>2, <1>3, <2>1, <2>2 DEF Recalled
<1>6. Old(r, clock) => Old(h, clock)
  BY <1>1 DEF Old
<1>7. Answered(c, h, entered, clock, seen)
  BY <1>1, <1>4, <1>5, <1>6 DEF Answered
<1>8. ChecksHaveReasons(h, unavailable)
  BY <1>1 DEF ChecksHaveReasons
<1>9. what = "allow" => Reason(h, unavailable)
  BY <1>1 DEF Reason
<1>10. status = "allow" =>
               \/ Reason(h, unavailable)
               \/ h.hook = "permission" /\ h.rule = "allow"
  BY <1>1, <1>9
<1>11. c \in DOMAIN entered => (entered[c].status = "allow" =>
               \/ Reason(h, unavailable)
               \/ /\ status = "allow" /\ h.hook = "permission" /\ h.rule = "allow"
                  /\ unavailable = "allow" /\ "unreachable" \in h.heard)
  BY <1>1, <1>3, <1>9
<1>12. h.told # "raw"
  BY <1>1
<1>13. /\ Ended(h, status) \in CallRecord
       /\ Sound(c, Ended(h, status), entered, clock, seen, texts, unavailable)
  BY <1>1, <1>7, <1>8, <1>10, <1>11, <1>12, EndedIsSound
<1>. QED BY <1>13 DEF h, entered

(* What decideOutgoing does for a call that has rested.                    *)
LEMMA DecideStep ==
    ASSUME IInv, NEW c \in Calls, NEW r \in CallRecord, r.stage = "idle", r.hook # "none",
           Resting(c, r, verdicts, clock, patched', onUnavailable),
           r.begun \/ patched', r.asks > 0 => Old(r, clock),
           NEW mode \in Modes \ {"off"}, Decide(c, r, mode), ReadsMode,
           UNCHANGED <<config, modeVars, clock, inspectCache, cleared>>,
           patched' \in BOOLEAN, patched => patched'
    PROVE  IInv'
<1>1. BookType(verdicts) /\ clock \in Nat
  BY DEF IInv, PluginTypeOK, BookType
<1>2. CASE mode = "auto"
  <2>. DEFINE y == [r EXCEPT !.stage = "looking"]
  <2>1. Becomes(c, y) /\ UNCHANGED verdicts
    BY <1>2 DEF Decide
  <2>2. y \in CallRecord /\ Same(r, y) /\ y.stage = "looking" /\ y.checks = r.checks /\ y.hook = r.hook
    BY DEF CallRecord, Deciding, Same
  <2>. HIDE DEF y
  <2>3. ChecksHaveReasons(y, onUnavailable) /\ (Reason(r, onUnavailable) => Reason(y, onUnavailable))
    BY <2>2, SameReasons DEF Resting
  <2>4. BookHasReasons(c, y, verdicts, onUnavailable)
    BY <2>3 DEF Resting, BookHasReasons
  <2>5. AsksInTime(c, y, verdicts, clock, patched')
    BY <2>2 DEF Resting, Answered, AsksInTime, Same, Old, Recalled
  <2>6. RawIsCleared(y, cleared, onUnavailable) /\ HookIsKnown(y)
    BY <2>2 DEF RawIsCleared, HookIsKnown, Resting, Same
  <2>7. Sound(c, y, verdicts, clock, patched', cleared, onUnavailable)
    BY <2>3, <2>4, <2>5, <2>6 DEF Sound
  <2>8. UNCHANGED <<config, modeVars, clock, verdicts, inspectCache, cleared>>
    BY <2>1
  <2>. QED BY <2>1, <2>2, <2>7, <2>8, QuietStep
<1>3. CASE mode # "auto"
  <2>. DEFINE y == Ended(Heard(r, mode), mode)
              entered == Enter(verdicts, c, mode, clock)
  <2>1. Becomes(c, y) /\ verdicts' = entered
    BY <1>3 DEF Decide, ResolveLocally
  <2>2. mode \in DecideResults /\ mode \in OutStatus
    BY <1>3 DEF Modes, DecideResults, OutStatus
  <2>3. /\ r.since \subseteq 0 .. clock /\ (r.asks > 1 => Old(r, clock)) /\ r.told # "raw"
        /\ ChecksHaveReasons(r, onUnavailable)
    BY DEF Resting, Answered
  <2>4. y \in CallRecord /\ Sound(c, y, entered, clock, patched', cleared, onUnavailable)
    BY <1>1, <2>2, <2>3, VerdictIsSound
  <2>5. BookType(entered) /\ \A d \in Calls \ {c} : Follows(d, verdicts, entered, clock)
    BY <1>1, <2>2, EnterIs
  <2>. HIDE DEF y, entered
  <2>6. inspectCache' \in Seq(Entries(Texts \cup {NoOutput})) /\ KeptAnswersAreCleared'
    BY DEF IInv, PluginTypeOK, KeptAnswersAreCleared
  <2>7. Sound(c, y, verdicts', clock, patched', cleared', onUnavailable)
    BY <2>1, <2>4
  <2>8. BookType(verdicts') /\ \A d \in Calls \ {c} : Follows(d, verdicts, verdicts', clock)
    BY <2>1, <2>5
  <2>. QED BY <2>1, <2>4, <2>6, <2>7, <2>8, CallStep
<1>. QED BY <1>2, <1>3

(* A call at rest that asked the guard and has no verdict on record has an *)
(* old one.                                                                *)
LEMMA ForgottenIsOld ==
    ASSUME IInv, NEW c \in Calls, call[c].stage = "idle", call[c].asks > 0,
           c \notin DOMAIN verdicts \/ (~call[c].begun /\ ~(patched /\ c \in DOMAIN verdicts))
    PROVE  Old(call[c], clock)
<1>1. call[c].since # {} /\ (call[c].begun \/ patched) /\ Recalled(c, call[c], verdicts, clock)
  BY RestingCall DEF Resting, Answered
<1>. QED BY <1>1 DEF Recalled

(* At rest it stays as it is, prompts, passes or is blocked.               *)
LEMMA RestStep ==
    ASSUME IInv, NEW c \in Calls, NEW r \in CallRecord, NEW y \in CallRecord,
           Resting(c, r, verdicts, clock, patched', onUnavailable),
           Same(r, y), y.checks = r.checks, y.stage \in {"idle", "prompted"}, Becomes(c, y),
           UNCHANGED <<config, modeVars, clock, verdicts, inspectCache, cleared>>,
           modeCache' = modeCache \/ ReadsMode, patched' \in BOOLEAN, patched => patched'
    PROVE  IInv'
<1>1. Sound(c, y, verdicts, clock, patched', cleared, onUnavailable)
  BY UnpassedIsSound DEF Resting
<1>. QED BY <1>1, QuietStep

LEMMA PassStep ==
    ASSUME IInv, NEW c \in Calls, NEW r \in CallRecord, NEW asked \in {"nobody", "human"},
           Resting(c, r, verdicts, clock, patched', onUnavailable),
           r.rule = "ask" /\ asked = "nobody" => Reason(r, onUnavailable),
           Becomes(c, Passed(r, asked)),
           UNCHANGED <<config, modeVars, clock, verdicts, inspectCache, cleared>>,
           modeCache' = modeCache \/ ReadsMode, patched' \in BOOLEAN, patched => patched'
    PROVE  IInv'
<1>1. c \in DOMAIN verdicts => (verdicts[c].status = "allow" =>
               \/ Reason(r, onUnavailable)
               \/ r.rule = "allow" /\ onUnavailable = "allow" /\ "unreachable" \in r.heard)
  BY DEF Resting
<1>2. Answered(c, r, verdicts, clock, patched') /\ r.told # "raw" /\ ChecksHaveReasons(r, onUnavailable)
  BY DEF Resting
<1>. DEFINE y == Passed(r, asked)
<1>3. y \in CallRecord /\ Sound(c, y, verdicts, clock, patched', cleared, onUnavailable)
  BY <1>1, <1>2, PassedIsSound
<1>4. Becomes(c, y)
  OBVIOUS
<1>. HIDE DEF y
<1>. QED BY <1>3, <1>4, QuietStep

LEMMA BlockStep ==
    ASSUME IInv, NEW c \in Calls, NEW r \in CallRecord, Becomes(c, Blocked(r)),
           UNCHANGED <<config, modeVars, clock, verdicts, inspectCache, cleared>>,
           modeCache' = modeCache \/ ReadsMode, patched' \in BOOLEAN, patched => patched'
    PROVE  IInv'
<1>1. Blocked(r) \in CallRecord
  BY BlockedIs
<1>2. Sound(c, Blocked(r), verdicts, clock, patched', cleared, onUnavailable)
  BY BlockedIsSound
<1>. QED BY <1>1, <1>2, QuietStep

(* A check the plugin leaves to the harness's rules.                       *)
LEMMA RulesStep ==
    ASSUME IInv, NEW c \in Calls, NEW r \in CallRecord,
           Resting(c, r, verdicts, clock, patched', onUnavailable), Becomes(c, LeftToRules(r)),
           UNCHANGED <<config, modeVars, clock, verdicts, inspectCache, cleared>>,
           modeCache' = modeCache \/ ReadsMode, patched' \in BOOLEAN, patched => patched'
    PROVE  IInv'
<1>1. CASE r.rule = "allow"
  <2>1. Becomes(c, Passed(r, "nobody"))
    BY <1>1 DEF LeftToRules
  <2>2. r.rule = "ask" /\ "nobody" = "nobody" => Reason(r, onUnavailable)
    BY <1>1
  <2>3. "nobody" \in {"nobody", "human"}
    OBVIOUS
  <2>. QED BY <2>1, <2>2, <2>3, PassStep, ZenonT(60)
<1>2. CASE r.rule # "allow"
  <2>. DEFINE y == Prompted(r)
  <2>1. Becomes(c, y)
    BY <1>2 DEF LeftToRules
  <2>2. y \in CallRecord /\ Same(r, y) /\ y.checks = r.checks /\ y.stage \in {"idle", "prompted"}
    BY PromptedIs
  <2>. HIDE DEF y
  <2>. QED BY <2>1, <2>2, RestStep
<1>. QED BY <1>1, <1>2

LEMMA BeforeStep ==
    ASSUME IInv, NEW c \in Calls, Before(c)
    PROVE  IInv'
<1>. DEFINE x == call[c]
            r == [x EXCEPT !.hook = "before", !.begun = TRUE]
            done == Mode = "off" \/ (patched /\ c \in DOMAIN verdicts)
<1>1. /\ x.stage = "idle" /\ ~x.begun /\ ReadsMode
      /\ IF done THEN Becomes(c, [r EXCEPT !.hook = "none"]) /\ UNCHANGED verdicts
         ELSE Decide(c, r, Mode)
      /\ UNCHANGED <<config, modeVars, patched, inspectCache, clock, cleared>>
  BY DEF Before
<1>2. x \in CallRecord /\ Resting(c, x, verdicts, clock, patched, onUnavailable)
  BY <1>1, RestingCall
<1>3. patched \in BOOLEAN /\ patched' = patched /\ Mode \in Modes
  BY <1>1, ReadingIsFresh DEF IInv, PluginTypeOK
<1>4. r \in CallRecord /\ Hooks(x, r) /\ r.hook = "before" /\ r.begun = TRUE
  BY <1>1, <1>2 DEF CallRecord, Hooks
<1>. HIDE DEF r
<1>5. /\ r \in CallRecord /\ r.stage = x.stage /\ r.hook = "before" /\ r.begun = TRUE
      /\ r.asks = x.asks /\ r.since = x.since
      /\ Resting(c, r, verdicts, clock, patched', onUnavailable)
  BY <1>2, <1>3, <1>4, HookedCall DEF Hooks
<1>6. CASE done
  <2>. DEFINE y == [r EXCEPT !.hook = "none"]
  <2>1. Becomes(c, y) /\ UNCHANGED verdicts
    BY <1>1, <1>6
  <2>2. y \in CallRecord /\ Same(r, y) /\ y.checks = r.checks /\ y.stage \in {"idle", "prompted"}
    BY <1>1, <1>5 DEF CallRecord, Same
  <2>. HIDE DEF y
  <2>3. UNCHANGED <<config, modeVars, clock, verdicts, inspectCache, cleared>>
    BY <1>1, <2>1
  <2>. QED BY <1>1, <1>3, <1>5, <2>1, <2>2, <2>3, RestStep
<1>7. CASE ~done
  <2>1. Decide(c, r, Mode) /\ Mode \in Modes \ {"off"}
    BY <1>1, <1>3, <1>7
  <2>2. r.asks > 0 => Old(r, clock)
    <3>1. x.asks > 0 => Old(x, clock)
      BY <1>1, <1>7, ForgottenIsOld
    <3>. QED BY <1>5, <3>1 DEF Old
  <2>3. r.stage = "idle" /\ r.hook # "none" /\ (r.begun \/ patched')
    BY <1>1, <1>5
  <2>4. UNCHANGED <<config, modeVars, clock, inspectCache, cleared>>
    BY <1>1
  <2>. HIDE DEF done, x
  <2>. QED BY <1>1, <1>3, <1>5, <2>1, <2>2, <2>3, <2>4, DecideStep
<1>. QED BY <1>6, <1>7

LEMMA PermissionAskStep ==
    ASSUME IInv, NEW c \in Calls, NEW rule \in {"allow", "ask"}, PermissionAsk(c, rule)
    PROVE  IInv'
<1>. DEFINE x == call[c]
            r == [x EXCEPT !.hook = "permission", !.rule = rule]
<1>1. /\ x.stage = "idle" /\ ReadsMode /\ patched' = TRUE
      /\ IF Mode = "off"
         THEN Becomes(c, LeftToRules(r)) /\ UNCHANGED verdicts
         ELSE \/ /\ c \in DOMAIN verdicts
                 /\ \E status \in Peek(verdicts, c) : Becomes(c, Ended(r, status))
                 /\ UNCHANGED verdicts
              \/ c \notin DOMAIN verdicts /\ Decide(c, r, Mode)
      /\ UNCHANGED <<config, modeVars, inspectCache, clock, cleared>>
  BY DEF PermissionAsk, MayCheck
<1>2. x \in CallRecord /\ Resting(c, x, verdicts, clock, patched, onUnavailable)
  BY <1>1, RestingCall
<1>3. /\ patched \in BOOLEAN /\ patched' \in BOOLEAN /\ patched' /\ (patched => patched')
      /\ Mode \in Modes
  BY <1>1, ReadingIsFresh DEF IInv, PluginTypeOK
<1>4. r \in CallRecord /\ Hooks(x, r) /\ r.hook = "permission" /\ r.rule = rule
  BY <1>2 DEF CallRecord, Hooks
<1>. HIDE DEF r
<1>5. /\ r \in CallRecord /\ r.stage = x.stage /\ r.hook = "permission" /\ r.rule = rule
      /\ r.asks = x.asks /\ r.since = x.since
      /\ Resting(c, r, verdicts, clock, patched', onUnavailable)
  BY <1>2, <1>3, <1>4, HookedCall DEF Hooks
<1>6. UNCHANGED <<config, modeVars, clock, inspectCache, cleared>>
  BY <1>1
<1>7. CASE Mode = "off"
  BY <1>1, <1>3, <1>5, <1>7, RulesStep
<1>8. CASE Mode # "off" /\ c \in DOMAIN verdicts
  <2>1. PICK status \in Peek(verdicts, c) : Becomes(c, Ended(r, status)) /\ UNCHANGED verdicts
    BY <1>1, <1>8
  <2>2. status = verdicts[c].status /\ status \in OutStatus
    BY <1>8 DEF Peek, IInv, PluginTypeOK, Verdict
  <2>3. status = "allow" => Reason(r, onUnavailable)
    BY <1>5, <1>8, <2>2 DEF Resting
  <2>. DEFINE y == Ended(r, status)
  <2>4. /\ y \in CallRecord
        /\ Sound(c, y, verdicts, clock, patched', cleared, onUnavailable)
    <3>1. /\ Answered(c, r, verdicts, clock, patched') /\ r.told # "raw"
          /\ ChecksHaveReasons(r, onUnavailable)
          /\ c \in DOMAIN verdicts => (verdicts[c].status = "allow" => Reason(r, onUnavailable))
      BY <1>5 DEF Resting
    <3>. QED BY <1>5, <2>2, <2>3, <3>1, EndedIsSound
  <2>5. Becomes(c, y)
    BY <2>1
  <2>. HIDE DEF y
  <2>6. UNCHANGED <<config, modeVars, clock, verdicts, inspectCache, cleared>>
    BY <1>6, <2>1
  <2>. QED BY <1>1, <1>3, <2>4, <2>5, <2>6, QuietStep
<1>9. CASE Mode # "off" /\ c \notin DOMAIN verdicts
  <2>1. Decide(c, r, Mode) /\ Mode \in Modes \ {"off"}
    BY <1>1, <1>3, <1>9
  <2>2. r.asks > 0 => Old(r, clock)
    <3>1. x.asks > 0 => Old(x, clock)
      BY <1>1, <1>9, ForgottenIsOld
    <3>. QED BY <1>5, <3>1 DEF Old
  <2>3. r.stage = "idle" /\ r.hook # "none" /\ (r.begun \/ patched')
    BY <1>1, <1>3, <1>5
  <2>. HIDE DEF x
  <2>. QED BY <1>1, <1>3, <1>5, <1>6, <2>1, <2>2, <2>3, DecideStep
<1>. QED BY <1>7, <1>8, <1>9

LEMMA StockCheckStep ==
    ASSUME IInv, NEW c \in Calls, NEW rule \in {"allow", "ask"}, StockCheck(c, rule)
    PROVE  IInv'
<1>. DEFINE x == call[c]
            r == [x EXCEPT !.rule = rule]
<1>1. /\ x.stage = "idle" /\ Becomes(c, LeftToRules(r))
      /\ UNCHANGED <<config, modeVars, modeCache, patched, verdicts, inspectCache, clock, cleared>>
  BY DEF StockCheck, MayCheck
<1>2. x \in CallRecord /\ Resting(c, x, verdicts, clock, patched, onUnavailable)
  BY <1>1, RestingCall
<1>3. patched \in BOOLEAN
  BY DEF IInv, PluginTypeOK
<1>4. r \in CallRecord /\ Hooks(x, r)
  BY <1>2 DEF CallRecord, Hooks
<1>. HIDE DEF r
<1>5. Resting(c, r, verdicts, clock, patched', onUnavailable)
  BY <1>1, <1>2, <1>4, HookedCall
<1>. QED BY <1>1, <1>3, <1>4, <1>5, RulesStep

LEMMA SendDecideStep ==
    ASSUME IInv, NEW c \in Calls, SendDecide(c)
    PROVE  IInv'
<1>. DEFINE x == call[c]
            y == [x EXCEPT !.stage = "asking", !.asks = @ + 1]
<1>1. /\ x.stage = "looking" /\ ReadsMode /\ Becomes(c, y)
      /\ UNCHANGED <<config, modeVars, patched, verdicts, inspectCache, clock, cleared>>
  BY DEF SendDecide
<1>2. /\ x \in CallRecord /\ Sound(c, x, verdicts, clock, patched, cleared, onUnavailable)
      /\ patched \in BOOLEAN
  BY DEF IInv, PluginTypeOK
<1>3. x.asks + 1 \in Nat /\ (x.asks + 1 > 1 <=> x.asks > 0)
  BY <1>2 DEF CallRecord
<1>4. /\ y \in CallRecord /\ y.stage = "asking" /\ y.asks = x.asks + 1 /\ y.begun = x.begun
      /\ y.hook = x.hook /\ y.heard = x.heard /\ y.since = x.since /\ y.checks = x.checks
      /\ y.told = x.told
  BY <1>2, <1>3 DEF CallRecord, Deciding
<1>. HIDE DEF y
<1>5. ChecksHaveReasons(y, onUnavailable) /\ HookIsKnown(y) /\ RawIsCleared(y, cleared, onUnavailable)
  BY <1>1, <1>2, <1>4 DEF Sound, ChecksHaveReasons, HookIsKnown, RawIsCleared
<1>6. BookHasReasons(c, y, verdicts, onUnavailable)
  BY <1>1, <1>2, <1>4 DEF Sound, BookHasReasons, Reason, Deciding
<1>7. AsksInTime(c, y, verdicts, clock, patched)
  BY <1>1, <1>2, <1>3, <1>4 DEF Sound, AsksInTime, Old, Recalled, Deciding
<1>8. Sound(c, y, verdicts, clock, patched', cleared, onUnavailable)
  BY <1>1, <1>5, <1>6, <1>7 DEF Sound
<1>. QED BY <1>1, <1>2, <1>4, <1>8, QuietStep

LEMMA GuardDecidesStep ==
    ASSUME IInv, NEW c \in Calls, NEW result \in DecideResults, GuardDecides(c, result)
    PROVE  IInv'
<1>. DEFINE x == call[c]
            status == ResolveAnswer(result, onUnavailable, Inherited(x))
            y == Ended(Heard(x, result), status)
            entered == Enter(verdicts, c, status, clock)
<1>1. /\ x.stage = "asking" /\ verdicts' = entered /\ Becomes(c, y)
      /\ UNCHANGED <<config, modeVars, modeCache, patched, inspectCache, clock, cleared>>
  BY DEF GuardDecides
<1>2. /\ x \in CallRecord /\ Sound(c, x, verdicts, clock, patched, cleared, onUnavailable)
      /\ BookType(verdicts) /\ clock \in Nat /\ onUnavailable \in OnUnavailables /\ patched \in BOOLEAN
  BY DEF IInv, PluginTypeOK, BookType
<1>3. x.hook \in {"before", "permission"} /\ x.rule \in {"allow", "ask"}
  BY <1>1, <1>2 DEF Sound, HookIsKnown, CallRecord
<1>4. /\ status \in OutStatus
      /\ status = "allow" =>
           \/ result = "allow"
           \/ /\ result = "unreachable" /\ onUnavailable = "allow"
              /\ x.hook = "permission" /\ x.rule = "allow"
  BY <1>2, <1>3
     DEF ResolveAnswer, UnavailableOut, Inherited, DecideResults, OutStatus, Failures, OnUnavailables
<1>5. /\ x.since \subseteq 0 .. clock /\ (x.asks > 1 => Old(x, clock)) /\ (x.begun \/ patched)
      /\ x.told # "raw" /\ ChecksHaveReasons(x, onUnavailable)
  BY <1>1, <1>2 DEF Sound, AsksInTime, RawIsCleared, Deciding
<1>. HIDE DEF status
<1>6. y \in CallRecord /\ Sound(c, y, entered, clock, patched, cleared, onUnavailable)
  BY <1>2, <1>4, <1>5, VerdictIsSound
<1>7. BookType(entered) /\ \A d \in Calls \ {c} : Follows(d, verdicts, entered, clock)
  BY <1>2, <1>4, EnterIs
<1>. HIDE DEF y, entered
<1>8. inspectCache' \in Seq(Entries(Texts \cup {NoOutput})) /\ KeptAnswersAreCleared'
  BY <1>1 DEF IInv, PluginTypeOK, KeptAnswersAreCleared
<1>9. Sound(c, y, verdicts', clock, patched', cleared', onUnavailable)
  BY <1>1, <1>6
<1>10. BookType(verdicts') /\ \A d \in Calls \ {c} : Follows(d, verdicts, verdicts', clock)
  BY <1>1, <1>7
<1>. QED BY <1>1, <1>2, <1>6, <1>8, <1>9, <1>10, CallStep

LEMMA PromptStep ==
    ASSUME IInv, NEW c \in Calls, AutoApprove(c) \/ HumanAnswers(c)
    PROVE  IInv'
<1>. DEFINE x == call[c]
<1>1. /\ x.stage = "prompted"
      /\ UNCHANGED <<config, modeVars, modeCache, patched, verdicts, inspectCache, clock, cleared>>
  BY DEF AutoApprove, HumanAnswers
<1>2. /\ x \in CallRecord /\ Resting(c, x, verdicts, clock, patched', onUnavailable)
      /\ patched' \in BOOLEAN /\ (patched => patched')
  BY <1>1, RestingCall DEF IInv, PluginTypeOK
<1>3. CASE AutoApprove(c)
  <2>1. Becomes(c, Passed(x, "nobody")) /\ "allow" \in Peek(verdicts, c)
    BY <1>3 DEF AutoApprove
  <2>2. Reason(x, onUnavailable)
    BY <1>2, <2>1 DEF Peek, Resting
  <2>3. "nobody" \in {"nobody", "human"}
    OBVIOUS
  <2>. QED BY <1>1, <1>2, <2>1, <2>2, <2>3, PassStep
<1>4. CASE HumanAnswers(c)
  <2>1. Becomes(c, Passed(x, "human")) \/ Becomes(c, Blocked(x))
    BY <1>4 DEF HumanAnswers
  <2>2. CASE Becomes(c, Passed(x, "human"))
    <3>1. "human" \in {"nobody", "human"} /\ (x.rule = "ask" /\ "human" = "nobody" => Reason(x, onUnavailable))
      OBVIOUS
    <3>. QED BY <1>1, <1>2, <2>2, <3>1, PassStep
  <2>3. CASE Becomes(c, Blocked(x))
    BY <1>1, <1>2, <2>3, BlockStep
  <2>. QED BY <2>1, <2>2, <2>3
<1>. QED BY <1>3, <1>4

----------------------------------------------------------------------------
(* Tool results.                                                           *)

(* A call that has run, and of which the model has been told nothing yet.  *)
Ran(x, now, unavailable) ==
    /\ x.since \subseteq 0 .. now /\ (x.asks > 1 => Old(x, now))
    /\ ChecksHaveReasons(x, unavailable) /\ x.told # "raw"

LEMMA RanCall ==
    ASSUME IInv, NEW c \in Calls, call[c].stage \in {"ran", "fetching", "inspecting"}
    PROVE  call[c] \in CallRecord /\ Ran(call[c], clock, onUnavailable)
<1>1. call[c] \in CallRecord /\ Sound(c, call[c], verdicts, clock, patched, cleared, onUnavailable)
  BY DEF IInv, PluginTypeOK
<1>. QED BY <1>1 DEF Sound, AsksInTime, RawIsCleared, Ran

(* Past its run a call owes nothing to the book.                           *)
LEMMA AfterRunIsSound ==
    ASSUME NEW c, NEW x, NEW y, NEW book, NEW now, NEW seen, NEW texts, NEW unavailable,
           Ran(x, now, unavailable), y.since = x.since, y.asks = x.asks, y.heard = x.heard,
           y.checks = x.checks, y.stage \in {"ran", "fetching", "inspecting", "told"},
           RawIsCleared(y, texts, unavailable)
    PROVE  Sound(c, y, book, now, seen, texts, unavailable)
<1>1. y.stage \notin Deciding /\ y.stage \notin {"looking", "asking"}
  BY DEF Deciding
<1>2. ChecksHaveReasons(y, unavailable)
  BY DEF Ran, ChecksHaveReasons
<1>3. AsksInTime(c, y, book, now, seen)
  BY <1>1 DEF Ran, AsksInTime, Old
<1>. QED BY <1>1, <1>2, <1>3 DEF Sound, BookHasReasons, HookIsKnown

LEMMA NewIsRan ==
    ASSUME NEW now, NEW unavailable
    PROVE  Ran(NewCall, now, unavailable)
BY NewCallIs DEF Ran, ChecksHaveReasons

LEMMA ToldIs ==
    ASSUME NEW x \in CallRecord, NEW as \in {"raw", "masked", "removed", "withheld"}
    PROVE  LET y == Told(x, as)
               z == IF as = "raw" THEN x ELSE NewCall
           IN  /\ y \in CallRecord /\ y.stage = "told" /\ y.told = as
               /\ y.since = z.since /\ y.asks = z.asks /\ y.heard = z.heard /\ y.checks = z.checks
               /\ y.text = z.text /\ y.threw = z.threw /\ y.met = z.met
<1>. DEFINE z == IF as = "raw" THEN x ELSE NewCall
<1>1. z \in CallRecord
  BY NewCallIs
<1>2. Told(x, as) = [z EXCEPT !.begun = TRUE, !.stage = "told", !.told = as]
  BY DEF Told
<1>. HIDE DEF z
<1>3. LET y == [z EXCEPT !.begun = TRUE, !.stage = "told", !.told = as]
      IN  /\ y \in CallRecord /\ y.stage = "told" /\ y.told = as
          /\ y.since = z.since /\ y.asks = z.asks /\ y.heard = z.heard /\ y.checks = z.checks
          /\ y.text = z.text /\ y.threw = z.threw /\ y.met = z.met
  BY <1>1 DEF CallRecord
<1>. QED BY <1>2, <1>3 DEF z

(* A text may be told as it is once it is cleared, or for lack of a guard. *)
LEMMA ToldIsSound ==
    ASSUME NEW c, NEW x \in CallRecord, NEW as \in {"raw", "masked", "removed", "withheld"},
           NEW book, NEW now, NEW seen, NEW texts, NEW unavailable, Ran(x, now, unavailable),
           as = "raw" /\ x.text # NoOutput =>
               \/ x.text \in texts
               \/ x.met \in {"off", "not_implemented"}
               \/ x.met = "unreachable" /\ unavailable # "deny"
    PROVE  Told(x, as) \in CallRecord /\ Sound(c, Told(x, as), book, now, seen, texts, unavailable)
<1>. DEFINE y == Told(x, as)
            z == IF as = "raw" THEN x ELSE NewCall
<1>1. /\ y \in CallRecord /\ y.stage = "told" /\ y.told = as
      /\ y.since = z.since /\ y.asks = z.asks /\ y.heard = z.heard /\ y.checks = z.checks
      /\ y.text = z.text /\ y.met = z.met
  BY ToldIs
<1>2. Ran(z, now, unavailable)
  BY NewIsRan
<1>3. as = "raw" => z = x
  OBVIOUS
<1>. HIDE DEF y, z
<1>4. RawIsCleared(y, texts, unavailable)
  BY <1>1, <1>3 DEF RawIsCleared
<1>5. y.stage \in {"ran", "fetching", "inspecting", "told"}
  BY <1>1
<1>6. Sound(c, y, book, now, seen, texts, unavailable)
  BY <1>1, <1>2, <1>4, <1>5, AfterRunIsSound
<1>. QED BY <1>1, <1>6 DEF y

LEMMA ToolRunsStep ==
    ASSUME IInv, NEW c \in Calls, NEW output \in Outputs[c], ToolRuns(c, output)
    PROVE  IInv'
<1>. DEFINE y == [NewCall EXCEPT !.begun = TRUE, !.stage = "ran",
                                 !.text = output.text, !.threw = output.threw]
<1>0. output.text \in Texts \cup {NoOutput} /\ output.threw \in BOOLEAN
  BY PluginBounds
<1>1. /\ Becomes(c, y)
      /\ UNCHANGED <<config, modeVars, modeCache, patched, verdicts, inspectCache, clock, cleared>>
  BY DEF ToolRuns
<1>2. /\ y \in CallRecord /\ y.stage = "ran" /\ y.since = NewCall.since /\ y.asks = NewCall.asks
      /\ y.heard = NewCall.heard /\ y.checks = NewCall.checks /\ y.told = "nothing"
  BY <1>0, NewCallIs DEF CallRecord
<1>. HIDE DEF y
<1>3. RawIsCleared(y, cleared, onUnavailable)
  BY <1>2 DEF RawIsCleared
<1>4. y.stage \in {"ran", "fetching", "inspecting", "told"}
  BY <1>2
<1>5. Sound(c, y, verdicts, clock, patched', cleared, onUnavailable)
  BY <1>2, <1>3, <1>4, NewIsRan, AfterRunIsSound
<1>6. patched' \in BOOLEAN /\ (patched => patched')
  BY <1>1 DEF IInv, PluginTypeOK
<1>. QED BY <1>1, <1>2, <1>5, <1>6, QuietStep

(* The hook goes on to its next await.                                     *)
LEMMA AwaitStep ==
    ASSUME IInv, NEW c \in Calls, NEW stage \in {"fetching", "inspecting"},
           call[c].stage \in {"ran", "fetching"}, ReadsMode,
           Becomes(c, [call[c] EXCEPT !.stage = stage]),
           UNCHANGED <<config, modeVars, patched, verdicts, inspectCache, clock, cleared>>
    PROVE  IInv'
<1>. DEFINE x == call[c]
            y == [x EXCEPT !.stage = stage]
<1>1. x \in CallRecord /\ Ran(x, clock, onUnavailable)
  BY RanCall
<1>2. /\ y \in CallRecord /\ y.stage = stage /\ y.since = x.since /\ y.asks = x.asks
      /\ y.heard = x.heard /\ y.checks = x.checks /\ y.told = x.told
  BY <1>1 DEF CallRecord
<1>3. Becomes(c, y)
  OBVIOUS
<1>. HIDE DEF y, x
<1>4. RawIsCleared(y, cleared, onUnavailable)
  BY <1>1, <1>2 DEF RawIsCleared, Ran
<1>5. y.stage \in {"ran", "fetching", "inspecting", "told"}
  BY <1>2
<1>6. Sound(c, y, verdicts, clock, patched', cleared, onUnavailable)
  BY <1>1, <1>2, <1>4, <1>5, AfterRunIsSound
<1>7. patched' \in BOOLEAN /\ (patched => patched')
  BY DEF IInv, PluginTypeOK
<1>. QED BY <1>2, <1>3, <1>6, <1>7, QuietStep

LEMMA ResolveInIs ==
    ASSUME NEW result \in InspectResults, NEW unavailable
    PROVE  /\ ResolveIn(result, unavailable) \in {"raw", "masked", "removed", "withheld"}
           /\ ResolveIn(result, unavailable) = "raw" =>
                \/ result \in {"pass", "mask_without_text"}
                \/ result = "not_implemented"
                \/ result = "unreachable" /\ unavailable # "deny"
BY DEF ResolveIn, InspectResults, InspectAnswers, Failures

LEMMA InspectStep ==
    ASSUME IInv, NEW c \in Calls, Inspect(c)
    PROVE  IInv'
<1>. DEFINE x == call[c]
<1>1. /\ x.stage = "ran" /\ ReadsMode
      /\ IF Mode = "off" \/ x.text = NoOutput \/ IsOwnMessage(x)
         THEN Becomes(c, [Told(x, "raw") EXCEPT !.met = IF Mode = "off" THEN "off" ELSE @])
         ELSE \/ \E answer \in Cached(inspectCache, x.text) :
                     Becomes(c, Told(x, ResolveIn(answer, onUnavailable)))
              \/ /\ Cached(inspectCache, x.text) = {}
                 /\ Becomes(c, [x EXCEPT !.stage = "fetching"])
      /\ UNCHANGED <<config, modeVars, patched, verdicts, inspectCache, clock, cleared>>
  BY DEF Inspect
<1>2. x \in CallRecord /\ Ran(x, clock, onUnavailable)
  BY <1>1, RanCall
<1>3. patched' \in BOOLEAN /\ (patched => patched')
  BY <1>1 DEF IInv, PluginTypeOK
<1>4. UNCHANGED <<config, modeVars, clock, verdicts, inspectCache, cleared>>
  BY <1>1
<1>5. CASE Mode = "off" \/ x.text = NoOutput \/ IsOwnMessage(x)
  <2>. DEFINE z == Told(x, "raw")
              y == [z EXCEPT !.met = IF Mode = "off" THEN "off" ELSE @]
  <2>1. Becomes(c, y)
    BY <1>1, <1>5
  <2>2. /\ z \in CallRecord /\ z.stage = "told" /\ z.text = x.text /\ z.threw = x.threw
        /\ z.since = x.since /\ z.asks = x.asks /\ z.heard = x.heard /\ z.checks = x.checks
    <3>1. "raw" \in {"raw", "masked", "removed", "withheld"}
      OBVIOUS
    <3>. QED BY <1>2, <3>1, ToldIs
  <2>. HIDE DEF z
  <2>3. /\ y \in CallRecord /\ y.stage = "told" /\ y.text = x.text /\ y.threw = x.threw
        /\ y.since = x.since /\ y.asks = x.asks /\ y.heard = x.heard /\ y.checks = x.checks
        /\ Mode = "off" => y.met = "off"
    <3>1. CASE Mode = "off"
      BY <2>2, <3>1 DEF CallRecord
    <3>2. CASE Mode # "off"
      BY <2>2, <3>2 DEF CallRecord
    <3>. QED BY <3>1, <3>2
  <2>. HIDE DEF y
  <2>4. RawIsCleared(y, cleared, onUnavailable)
    BY <1>5, <2>3 DEF RawIsCleared, IsOwnMessage
  <2>5. y.stage \in {"ran", "fetching", "inspecting", "told"}
    BY <2>3
  <2>6. Sound(c, y, verdicts, clock, patched', cleared, onUnavailable)
    BY <1>2, <2>3, <2>4, <2>5, AfterRunIsSound
  <2>. QED BY <1>1, <1>3, <1>4, <2>1, <2>3, <2>6, QuietStep
<1>6. CASE ~(Mode = "off" \/ x.text = NoOutput \/ IsOwnMessage(x))
  <2>1. CASE \E answer \in Cached(inspectCache, x.text) :
                Becomes(c, Told(x, ResolveIn(answer, onUnavailable)))
    <3>1. PICK i \in DOMAIN inspectCache :
              /\ inspectCache[i].text = x.text
              /\ Becomes(c, Told(x, ResolveIn(inspectCache[i].answer, onUnavailable)))
      BY <2>1 DEF Cached
    <3>. DEFINE answer == inspectCache[i].answer
                as == ResolveIn(answer, onUnavailable)
    <3>2. answer \in InspectAnswers
      <4>. DEFINE E == Entries(Texts \cup {NoOutput})
      <4>1. inspectCache \in Seq(E)
        BY DEF IInv, PluginTypeOK
      <4>. HIDE DEF E
      <4>2. inspectCache[i] \in E
        BY <4>1
      <4>. QED BY <4>2 DEF E, Entries
    <3>3. answer \in InspectResults
      BY <3>2 DEF InspectResults
    <3>4. as \in {"raw", "masked", "removed", "withheld"}
      BY <3>3, ResolveInIs
    <3>5. as = "raw" => answer \in {"pass", "mask_without_text"}
      BY <3>2, <3>3, ResolveInIs DEF InspectAnswers
    <3>6. answer \in {"pass", "mask_without_text"} => x.text \in cleared
      BY <3>1 DEF IInv, KeptAnswersAreCleared
    <3>. DEFINE y == Told(x, as)
    <3>. HIDE DEF as
    <3>7. as = "raw" /\ x.text # NoOutput =>
               \/ x.text \in cleared
               \/ x.met \in {"off", "not_implemented"}
               \/ x.met = "unreachable" /\ onUnavailable # "deny"
      BY <3>5, <3>6
    <3>8. y \in CallRecord /\ Sound(c, y, verdicts, clock, patched', cleared, onUnavailable)
      BY <1>2, <3>4, <3>7, ToldIsSound
    <3>9. Becomes(c, y)
      BY <3>1 DEF as
    <3>. HIDE DEF y
    <3>. QED BY <1>1, <1>3, <1>4, <3>8, <3>9, QuietStep
  <2>2. CASE Becomes(c, [x EXCEPT !.stage = "fetching"])
    <3>1. x.stage \in {"ran", "fetching"} /\ "fetching" \in {"fetching", "inspecting"}
      BY <1>1
    <3>. QED BY <1>1, <2>2, <3>1, AwaitStep
  <2>. QED BY <1>1, <1>6, <2>1, <2>2
<1>. QED BY <1>5, <1>6

LEMMA SendInspectStep ==
    ASSUME IInv, NEW c \in Calls, SendInspect(c)
    PROVE  IInv'
<1>1. /\ call[c].stage \in {"ran", "fetching"} /\ "inspecting" \in {"fetching", "inspecting"}
      /\ ReadsMode /\ Becomes(c, [call[c] EXCEPT !.stage = "inspecting"])
      /\ UNCHANGED <<config, modeVars, patched, verdicts, inspectCache, clock, cleared>>
  BY DEF SendInspect
<1>. QED BY <1>1, AwaitStep

LEMMA GuardInspectsStep ==
    ASSUME IInv, NEW c \in Calls, NEW result \in InspectResults, GuardInspects(c, result)
    PROVE  IInv'
<1>. DEFINE x == call[c]
            r == [x EXCEPT !.met = IF result \in Failures THEN result ELSE @]
            as == ResolveIn(result, onUnavailable)
            T == Texts \cup {NoOutput}
            y == Told(r, as)
<1>1. /\ x.stage = "inspecting"
      /\ r.stage = "inspecting"
      /\ inspectCache' = Remembered(inspectCache, r.text, result)
      /\ cleared' = IF result \in {"pass", "mask_without_text"} THEN cleared \cup {r.text} ELSE cleared
      /\ Becomes(c, y)
      /\ UNCHANGED <<config, modeVars, modeCache, patched, verdicts, clock>>
  <2>1. x \in CallRecord
    BY DEF IInv, PluginTypeOK
  <2>2. r.stage = x.stage
    BY <2>1 DEF CallRecord
  <2>. QED BY <2>2 DEF GuardInspects
<1>2. x \in CallRecord /\ Ran(x, clock, onUnavailable)
  BY <1>1, RanCall
<1>3. /\ r \in CallRecord /\ r.text = x.text /\ r.since = x.since /\ r.asks = x.asks
      /\ r.heard = x.heard /\ r.checks = x.checks /\ r.told = x.told
      /\ result \in Failures => r.met = result
  <2>1. CASE result \in Failures
    BY <1>2, <2>1 DEF CallRecord
  <2>2. CASE result \notin Failures
    BY <1>2, <2>2 DEF CallRecord
  <2>. QED BY <2>1, <2>2
<1>. HIDE DEF r
<1>4. Ran(r, clock, onUnavailable)
  BY <1>2, <1>3 DEF Ran, Old, ChecksHaveReasons
<1>5. as \in {"raw", "masked", "removed", "withheld"}
  BY ResolveInIs
<1>6. as = "raw" =>
          \/ result \in {"pass", "mask_without_text"}
          \/ result = "not_implemented"
          \/ result = "unreachable" /\ onUnavailable # "deny"
  BY ResolveInIs
<1>. HIDE DEF as
<1>7. as = "raw" /\ r.text # NoOutput =>
          \/ r.text \in cleared'
          \/ r.met \in {"off", "not_implemented"}
          \/ r.met = "unreachable" /\ onUnavailable # "deny"
  BY <1>1, <1>3, <1>6 DEF Failures
<1>8. y \in CallRecord /\ Sound(c, y, verdicts', clock, patched', cleared', onUnavailable)
  BY <1>3, <1>4, <1>5, <1>7, ToldIsSound
<1>. HIDE DEF y
<1>9. cleared \subseteq cleared' /\ (patched => patched') /\ patched' \in BOOLEAN
  BY <1>1 DEF IInv, PluginTypeOK
<1>10. BookType(verdicts') /\ \A d \in Calls \ {c} : Follows(d, verdicts, verdicts', clock)
  BY <1>1 DEF IInv, PluginTypeOK, BookType, Follows
<1>11. inspectCache' \in Seq(Entries(T)) /\ KeptAnswersAreCleared'
  <2>1. inspectCache \in Seq(Entries(T)) /\ KeptAnswersAreCleared
    BY DEF IInv, PluginTypeOK
  <2>2. CASE result \in InspectAnswers
    <3>. DEFINE kept == Keep(inspectCache, r.text, result)
    <3>1. inspectCache' = kept
      BY <1>1, <2>2 DEF Remembered
    <3>2. r.text \in T
      BY <1>3 DEF CallRecord
    <3>. HIDE DEF T
    <3>3. /\ kept \in Seq(Entries(T))
          /\ \A i \in DOMAIN kept :
                \/ kept[i] = [text |-> r.text, answer |-> result]
                \/ \E j \in DOMAIN inspectCache : kept[i] = inspectCache[j]
      BY <2>1, <2>2, <3>2, KeepEntries
    <3>. HIDE DEF kept
    <3>4. ASSUME NEW i \in DOMAIN kept, kept[i].answer \in {"pass", "mask_without_text"}
          PROVE  kept[i].text \in cleared'
      <4>1. CASE kept[i] = [text |-> r.text, answer |-> result]
        BY <1>1, <3>4, <4>1
      <4>2. CASE \E j \in DOMAIN inspectCache : kept[i] = inspectCache[j]
        BY <1>9, <2>1, <3>4, <4>2 DEF KeptAnswersAreCleared
      <4>. QED BY <3>3, <4>1, <4>2
    <3>. QED BY <3>1, <3>3, <3>4 DEF KeptAnswersAreCleared
  <2>3. CASE result \notin InspectAnswers
    <3>1. inspectCache' = inspectCache
      BY <1>1, <2>3 DEF Remembered
    <3>. QED BY <1>9, <2>1, <3>1 DEF KeptAnswersAreCleared
  <2>. QED BY <2>2, <2>3
<1>12. UNCHANGED <<config, modeVars, clock>> /\ modeCache' = modeCache
  BY <1>1
<1>. QED BY <1>1, <1>8, <1>9, <1>10, <1>11, <1>12, CallStep

----------------------------------------------------------------------------
(* The mode, and time.                                                     *)

(* The stamp of a write is the newest there is, and whoever holds a mode   *)
(* with the same stamp read it in the same tick.                           *)
LEMMA WriteStep ==
    ASSUME IInv, NEW mode \in Modes, OtherProcessWrites(mode) \/ SlashCommand(mode)
    PROVE  IInv'
<1>1. /\ file' = StateFile(mode, clock)
      /\ lastTick' = {mode} \cup (IF file.exists /\ file.mtime = clock THEN lastTick ELSE {})
      /\ modeCache' = modeCache \/ modeCache' = Unread
      /\ UNCHANGED <<config, patched, verdicts, inspectCache, call, clock, cleared>>
  BY DEF OtherProcessWrites, SlashCommand, Written
<1>2. PluginTypeOK /\ ModesAreFresh
  BY DEF IInv
<1>3. /\ file'.exists /\ file'.mode = mode /\ file'.mtime = clock
      /\ file' \in [exists : BOOLEAN, mode : Modes, mtime : Nat]
  BY <1>1, <1>2 DEF StateFile, PluginTypeOK
<1>4. modeCache' \in [known : BOOLEAN, mode : Modes, mtime : Nat]
  <2>1. Unread \in [known : BOOLEAN, mode : Modes, mtime : Nat]
    BY DEF Unread, Modes
  <2>. QED BY <1>1, <1>2, <2>1 DEF PluginTypeOK
<1>5. PluginTypeOK'
  BY <1>1, <1>2, <1>3, <1>4 DEF PluginTypeOK, config
<1>6. modeCache'.known => modeCache' = modeCache
  BY <1>1 DEF Unread
<1>7. ASSUME modeCache.known
      PROVE  /\ modeCache.mtime <= clock
             /\ modeCache.mtime = clock => modeCache.mode \in lastTick'
  <2>1. /\ file.exists /\ modeCache.mtime <= file.mtime /\ file.mtime <= clock
        /\ modeCache.mtime = file.mtime => modeCache.mode \in lastTick
    BY <1>2, <1>7 DEF ModesAreFresh
  <2>2. modeCache.mtime \in Nat /\ file.mtime \in Nat /\ clock \in Nat
    BY <1>2 DEF PluginTypeOK
  <2>3. modeCache.mtime <= clock /\ (modeCache.mtime = clock => file.mtime = clock)
    BY <2>1, <2>2
  <2>. QED BY <1>1, <2>1, <2>3
<1>8. ModesAreFresh'
  <2>1. file'.mtime <= clock' /\ file'.mode \in lastTick'
    BY <1>1, <1>2, <1>3 DEF PluginTypeOK
  <2>2. modeCache'.known => /\ modeCache'.mtime <= file'.mtime
                            /\ modeCache'.mtime = file'.mtime => modeCache'.mode \in lastTick'
    BY <1>3, <1>6, <1>7
  <2>. QED BY <1>3, <2>1, <2>2 DEF ModesAreFresh
<1>9. KeptAnswersAreCleared' /\ \A c \in Calls :
          Sound(c, call'[c], verdicts', clock', patched', cleared', onUnavailable')
  BY <1>1 DEF IInv, KeptAnswersAreCleared, config
<1>. QED BY <1>5, <1>8, <1>9 DEF IInv

LEMMA TickStep ==
    ASSUME IInv, Tick
    PROVE  IInv'
<1>1. /\ clock' = clock + 1
      /\ UNCHANGED <<config, modeVars, modeCache, patched, verdicts, inspectCache, call, cleared>>
  BY DEF Tick
<1>2. /\ PluginTypeOK /\ ModesAreFresh /\ clock \in Nat /\ clock' \in Nat /\ clock <= clock'
      /\ file.exists => file.mtime <= clock'
  <2>1. clock \in Nat /\ PluginTypeOK /\ ModesAreFresh
    BY DEF IInv, PluginTypeOK
  <2>2. file.mtime \in Nat /\ (file.exists => file.mtime <= clock)
    BY <2>1 DEF PluginTypeOK, ModesAreFresh
  <2>. QED BY <1>1, <2>1, <2>2
<1>3. PluginTypeOK' /\ ModesAreFresh'
  BY <1>1, <1>2 DEF PluginTypeOK, ModesAreFresh, config, modeVars
<1>4. ASSUME NEW c \in Calls
      PROVE  Sound(c, call[c], verdicts, clock', patched, cleared, onUnavailable)
  <2>1. /\ Sound(c, call[c], verdicts, clock, patched, cleared, onUnavailable)
        /\ call[c] \in CallRecord /\ patched \in BOOLEAN /\ BookType(verdicts)
    BY DEF IInv, PluginTypeOK, BookType
  <2>2. Follows(c, verdicts, verdicts, clock')
    BY DEF Follows
  <2>. QED BY <1>2, <2>1, <2>2, WeatherIsSound
<1>5. KeptAnswersAreCleared' /\ \A c \in Calls :
          Sound(c, call'[c], verdicts', clock', patched', cleared', onUnavailable')
  BY <1>1, <1>4 DEF IInv, KeptAnswersAreCleared, config
<1>. QED BY <1>3, <1>5 DEF IInv

LEMMA InitIsSound == Init => IInv
<1>. SUFFICES ASSUME Init PROVE IInv
  OBVIOUS
<1>1. /\ onUnavailable \in OnUnavailables /\ modeCache = Unread /\ patched = FALSE
      /\ DOMAIN verdicts = {} /\ inspectCache = <<>> /\ clock = 0
      /\ call = [c \in Calls |-> NewCall]
  BY DEF Init
<1>2. \/ file = Missing
      \/ \E m \in Modes : file = StateFile(m, 0) /\ lastTick = {m}
  BY PluginBounds DEF Init
<1>3. file \in [exists : BOOLEAN, mode : Modes, mtime : Nat]
  <2>1. CASE file = Missing
    BY <2>1 DEF Missing, Modes
  <2>2. CASE \E m \in Modes : file = StateFile(m, 0)
    BY <2>2 DEF StateFile
  <2>. QED BY <1>2, <2>1, <2>2
<1>4. PluginTypeOK
  <2>1. modeCache \in [known : BOOLEAN, mode : Modes, mtime : Nat]
    BY <1>1 DEF Unread, Modes
  <2>2. inspectCache \in Seq(Entries(Texts \cup {NoOutput}))
    BY <1>1
  <2>. QED BY <1>1, <1>3, <2>1, <2>2, NewCallIs DEF PluginTypeOK
<1>5. ModesAreFresh
  BY <1>1, <1>2 DEF ModesAreFresh, Missing, StateFile, Unread
<1>6. KeptAnswersAreCleared
  BY <1>1 DEF KeptAnswersAreCleared
<1>7. ASSUME NEW c \in Calls
      PROVE  Sound(c, call[c], verdicts, clock, patched, cleared, onUnavailable)
  <2>1. call[c] = NewCall
    BY <1>1
  <2>. QED BY <1>1, <2>1, NewCallIs
           DEF Sound, HookIsKnown, ChecksHaveReasons, BookHasReasons, AsksInTime, RawIsCleared
<1>. QED BY <1>4, <1>5, <1>6, <1>7 DEF IInv

LEMMA NextKeeps == IInv /\ [Next]_vars => IInv'
<1>. SUFFICES ASSUME IInv, [Next]_vars PROVE IInv'
  OBVIOUS
<1>1. ASSUME NEW c \in Calls, Outgoing(c)
      PROVE  IInv'
  <2>1. CASE Before(c)
    BY <2>1, BeforeStep
  <2>2. CASE \E rule \in {"allow", "ask"} : PermissionAsk(c, rule) \/ StockCheck(c, rule)
    BY <2>2, PermissionAskStep, StockCheckStep
  <2>3. CASE SendDecide(c)
    BY <2>3, SendDecideStep
  <2>4. CASE \E result \in DecideResults : GuardDecides(c, result)
    BY <2>4, GuardDecidesStep
  <2>5. CASE AutoApprove(c) \/ HumanAnswers(c)
    BY <2>5, PromptStep
  <2>. QED BY <1>1, <2>1, <2>2, <2>3, <2>4, <2>5 DEF Outgoing
<1>2. ASSUME NEW c \in Calls, Incoming(c)
      PROVE  IInv'
  <2>1. CASE \E output \in Outputs[c] : ToolRuns(c, output)
    BY <2>1, ToolRunsStep
  <2>2. CASE Inspect(c)
    BY <2>2, InspectStep
  <2>3. CASE SendInspect(c)
    BY <2>3, SendInspectStep
  <2>4. CASE \E result \in InspectResults : GuardInspects(c, result)
    BY <2>4, GuardInspectsStep
  <2>. QED BY <1>2, <2>1, <2>2, <2>3, <2>4 DEF Incoming
<1>3. ASSUME NEW m \in Modes, OtherProcessWrites(m) \/ SlashCommand(m)
      PROVE  IInv'
  BY <1>3, WriteStep
<1>4. CASE Tick
  BY <1>4, TickStep
<1>5. CASE UNCHANGED vars
  BY <1>5 DEF vars, IInv, PluginTypeOK, ModesAreFresh, KeptAnswersAreCleared
<1>. QED BY <1>1, <1>2, <1>3, <1>4, <1>5 DEF Next

LEMMA IInvHolds == Spec => []IInv
BY InitIsSound, NextKeeps, PTL DEF Spec

----------------------------------------------------------------------------

(* The plugin's state keeps its types: every call, verdict and kept answer *)
(* is one the hooks can handle.                                            *)
THEOREM PluginTypeCorrect == Spec => []PluginTypeOK
<1>1. IInv => PluginTypeOK
  BY DEF IInv
<1>. QED BY <1>1, IInvHolds, PTL

(* Where the harness's rules ask for the human and nobody asks him, the    *)
(* guard has allowed this very call, or a hook of this call ran in mode    *)
(* "allow", or the plugin fails open to a rule that allowed an earlier     *)
(* check (index.ts, permission.ask and permission.asked).                  *)
THEOREM SilenceHasAReason == Spec => []SilentPassHasAReason
<1>1. IInv => SilentPassHasAReason
  BY DEF IInv, Sound, ChecksHaveReasons, SilentPassHasAReason
<1>. QED BY <1>1, IInvHolds, PTL

(* The guard is asked twice about a call only when its first verdict has   *)
(* outlived its place in the verdict book (index.ts, decideOutgoing).      *)
THEOREM GuardIsAskedOnce == Spec => []AskedAgainOnlyWhenOld
<1>1. IInv => AskedAgainOnlyWhenOld
  BY DEF IInv, Sound, AsksInTime, Old, AskedAgainOnlyWhenOld
<1>. QED BY <1>1, IInvHolds, PTL

(* No text reaches the model unfiltered that the guard has not let pass,   *)
(* unless the plugin is off or no guard inspects, or a tool threw it and   *)
(* it begins as the plugin's own messages do (index.ts, inspectIncoming    *)
(* and the messages transform).                                            *)
THEOREM RawTextsWereCleared == Spec => []RawTextWasCleared
<1>1. IInv => RawTextWasCleared
  BY DEF IInv, Sound, RawIsCleared, RawTextWasCleared
<1>. QED BY <1>1, IInvHolds, PTL

(* The mode a hook would read now was written in the tick of the last      *)
(* write, whichever process wrote it (core/src/mode.ts, readMode).         *)
THEOREM ModeIsNeverStale == Spec => []ModeIsOfTheLastTick
<1>1. IInv => ModeIsOfTheLastTick
  BY ReadingIsFresh DEF IInv, ModeIsOfTheLastTick
<1>. QED BY <1>1, IInvHolds, PTL
=============================================================================
