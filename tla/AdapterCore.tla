---------------------------- MODULE AdapterCore ----------------------------
(***************************************************************************)
(* The part of adapters/packages/core that decides: mode.ts, policy.ts and *)
(* cache.ts, as operators.  Every harness adapter goes through them, and   *)
(* none of them suspends: each is one step of the hook that calls it.      *)
(*                                                                         *)
(* The clock counts ticks of the file system's time stamps, which are also *)
(* the unit of the verdict book's time to live.                            *)
(***************************************************************************)
EXTENDS Naturals, Sequences, SequencesExt, Functions

CONSTANTS VerdictTtl,     \* cache.ts: VerdictBook.ttlMs, in ticks
          CacheLimit      \* cache.ts: InspectCache.limit

ASSUME AdapterLimits == VerdictTtl \in Nat /\ CacheLimit \in Nat \ {0}

Modes == {"auto", "ask", "allow", "off"}
OutStatus == {"allow", "ask", "deny"}
OnUnavailables == {"allow", "ask", "deny"}

(* GuardFailure.kind; "refused" also stands for "malformed", which nothing *)
(* in policy.ts tells from it.                                             *)
Failures == {"unreachable", "refused", "not_implemented"}
DecideResults == OutStatus \cup Failures

(* InspectResponse.verdict: a mask comes with its text or without.         *)
InspectAnswers == {"pass", "mask", "mask_without_text", "drop"}
InspectResults == InspectAnswers \cup Failures

----------------------------------------------------------------------------
(* mode.ts: the state file, and the cache of its last reading.             *)

Missing == [exists |-> FALSE, mode |-> "auto", mtime |-> 0]
StateFile(mode, now) == [exists |-> TRUE, mode |-> mode, mtime |-> now]
Unread == [known |-> FALSE, mode |-> "auto", mtime |-> 0]

(* Mutant: a reading is kept for ever, as if the file had one writer.      *)
HitsForEver(file, cached) == cached.known

Hit(file, cached) == cached.known /\ cached.mtime = file.mtime

(* A missing file throws inside readMode: protection is on by default.     *)
ReadMode(file, cached) ==
    IF file.exists /\ Hit(file, cached) THEN cached.mode ELSE file.mode

AfterRead(file, cached) ==
    IF file.exists /\ ~Hit(file, cached)
    THEN [known |-> TRUE, mode |-> file.mode, mtime |-> file.mtime]
    ELSE cached

----------------------------------------------------------------------------
(* policy.ts                                                               *)

(* Mutant: failing open lets the call through.                             *)
FailsOpenToAllow(failure, onUnavailable, rule) ==
    IF failure # "unreachable" THEN "ask" ELSE onUnavailable

UnavailableOut(failure, onUnavailable, rule) ==
    IF failure # "unreachable" THEN "ask"
    ELSE IF onUnavailable = "allow" THEN rule ELSE onUnavailable

(* The branch of resolveOut that has the guard's answer.                   *)
ResolveAnswer(result, onUnavailable, rule) ==
    IF result \in OutStatus THEN result
    ELSE UnavailableOut(result, onUnavailable, rule)

(* The branches that decide without the guard: modes "allow" and "ask".    *)
ResolveLocally(mode) == mode

(* resolveIn: what the model is told instead of the tool's own text.       *)
ResolveIn(result, onUnavailable) ==
    CASE result = "drop"                                       -> "removed"
      [] result = "mask"                                       -> "masked"
      [] result = "refused"                                    -> "withheld"
      [] result = "unreachable" /\ onUnavailable = "deny"      -> "withheld"
      [] OTHER                                                 -> "raw"

----------------------------------------------------------------------------
(* cache.ts.  The verdict book: call id |-> [status, at].                  *)

(* Mutant: an entry is swept at the end of its time to live, not after.    *)
SweepsAtTheEnd(book, now) ==
    Restrict(book, {c \in DOMAIN book : book[c].at + VerdictTtl > now})

Sweep(book, now) ==
    Restrict(book, {c \in DOMAIN book : book[c].at + VerdictTtl >= now})

Enter(book, call, status, now) ==
    LET kept == Sweep(book, now)
    IN  [c \in DOMAIN kept \cup {call} |->
            IF c = call THEN [status |-> status, at |-> now] ELSE kept[c]]

Peek(book, call) == IF call \in DOMAIN book THEN {book[call].status} ELSE {}

(* The inspection cache: [text, answer], oldest first, as a Map iterates.  *)
Cached(cache, text) == {cache[i].answer : i \in {j \in DOMAIN cache : cache[j].text = text}}

Evicted(cache) == IF Len(cache) >= CacheLimit THEN Tail(cache) ELSE cache

(* Setting a key a Map has already keeps the key's place.                  *)
Keep(cache, text, answer) ==
    LET rest  == Evicted(cache)
        entry == [text |-> text, answer |-> answer]
        at    == {i \in DOMAIN rest : rest[i].text = text}
    IN  IF at = {} THEN Append(rest, entry)
        ELSE [i \in DOMAIN rest |-> IF i \in at THEN entry ELSE rest[i]]
============================================================================
