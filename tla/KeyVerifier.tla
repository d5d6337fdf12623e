---------------------------- MODULE KeyVerifier ----------------------------
(***************************************************************************)
(* The bearer check in front of every route (api/deps.py) over the table   *)
(* of issued API keys (store/keys.py).                                     *)
(*                                                                         *)
(* A check suspends once, for the query of the keys table: the row it gets *)
(* is the one the query saw, and by the time the check goes on the key may *)
(* be revoked, other checks of the key may have answered, and the clock    *)
(* has moved.                                                              *)
(***************************************************************************)
EXTENDS Naturals

CONSTANTS Checks,        \* the checks of a bearer token
          Tokens,        \* bearer tokens that are not the service's own
          StaticToken,   \* AGENTGATE_TOKEN
          Lifetime(_),   \* how long a token's key is issued for; 0: no expiry
          TTL,           \* cache_ttl_seconds
          MaxClock       \* bound on the clock

ASSUME KeyAssumption ==
  /\ StaticToken \notin Tokens
  /\ \A t \in Tokens : Lifetime(t) \in Nat
  /\ TTL \in Nat
  /\ MaxClock \in Nat

VARIABLES created,   \* Tokens -> when the operator issued its key, or Never
          revoked,   \* Tokens -> when the operator revoked it, or Never
          cache,     \* Tokens -> the outcome the process remembers, or Unknown
          check,     \* Checks -> how far each check is, and its outcome
          clock

vars == <<created, revoked, cache, check, clock>>

\* Later than any time.
Never == MaxClock + 1

Unknown == [known |-> FALSE]
Outcome == [known : {TRUE}, valid : BOOLEAN, at : 0..MaxClock]

NoCheck == [phase |-> "new"]

\* A query under way, and the row it has seen: none, or one with its revocation.
Querying == [phase : {"query"}, token : Tokens, start : 0..MaxClock]
Seen     == [phase : {"seen"}, token : Tokens, start : 0..MaxClock, found : BOOLEAN, revoked : BOOLEAN]

\* An answered check: accepted, or refused because of a failed query or not.
Answered == [phase : {"done"}, token : Tokens \cup {StaticToken}, start : 0..MaxClock,
             accepted : BOOLEAN, failed : BOOLEAN]

Init ==
  /\ created = [t \in Tokens |-> Never]
  /\ revoked = [t \in Tokens |-> Never]
  /\ cache = [t \in Tokens |-> Unknown]
  /\ check = [k \in Checks |-> NoCheck]
  /\ clock = 0

-----------------------------------------------------------------------------
\* is_valid, as of now, of the row the query saw.
Expired(t) == Lifetime(t) # 0 /\ created[t] + Lifetime(t) <= clock

IgnoresExpiry(q) == q.found /\ ~q.revoked

IsValid(q) == q.found /\ ~q.revoked /\ ~Expired(q.token)

\* An outcome is used for less than a TTL.
Fresh(outcome) == outcome.known /\ clock < outcome.at + TTL

Answer(k, t, start, accepted, failed) ==
  check' = [check EXCEPT ![k] = [phase |-> "done", token |-> t, start |-> start,
                                 accepted |-> accepted, failed |-> failed]]

-----------------------------------------------------------------------------
\* The service's own token is compared first and needs no key.
AcceptStatic(k) ==
  /\ check[k] = NoCheck
  /\ Answer(k, StaticToken, clock, TRUE, FALSE)
  /\ UNCHANGED <<created, revoked, cache, clock>>

AnswerFromCache(k, t) ==
  /\ check[k] = NoCheck
  /\ Fresh(cache[t])
  /\ Answer(k, t, clock, cache[t].valid, FALSE)
  /\ UNCHANGED <<created, revoked, cache, clock>>

StartQuery(k, t) ==
  /\ check[k] = NoCheck
  /\ ~Fresh(cache[t])
  /\ check' = [check EXCEPT ![k] = [phase |-> "query", token |-> t, start |-> clock]]
  /\ UNCHANGED <<created, revoked, cache, clock>>

\* The database reads the row.
ReadRow(k) ==
  /\ check[k].phase = "query"
  /\ LET t == check[k].token
     IN check' = [check EXCEPT ![k] = [phase |-> "seen", token |-> t, start |-> check[k].start,
                                       found |-> created[t] # Never,
                                       revoked |-> revoked[t] # Never]]
  /\ UNCHANGED <<created, revoked, cache, clock>>

RemembersFailure(k) ==
  /\ check[k].phase \in {"query", "seen"}
  /\ cache' = [cache EXCEPT ![check[k].token] = [known |-> TRUE, valid |-> FALSE,
                                                 at |-> check[k].start]]
  /\ Answer(k, check[k].token, check[k].start, FALSE, TRUE)
  /\ UNCHANGED <<created, revoked, clock>>

\* A query that fails refuses this check, and is not remembered.
FailQuery(k) ==
  /\ check[k].phase \in {"query", "seen"}
  /\ Answer(k, check[k].token, check[k].start, FALSE, TRUE)
  /\ UNCHANGED <<created, revoked, cache, clock>>

RemembersFromReply(k) ==
  /\ check[k].phase = "seen"
  /\ cache' = [cache EXCEPT ![check[k].token] = [known |-> TRUE, valid |-> IsValid(check[k]),
                                                 at |-> clock]]
  /\ Answer(k, check[k].token, check[k].start, IsValid(check[k]), FALSE)
  /\ UNCHANGED <<created, revoked, clock>>

\* The outcome is remembered as of the time the check began, over whatever other
\* checks have learnt meanwhile.
FinishQuery(k) ==
  /\ check[k].phase = "seen"
  /\ cache' = [cache EXCEPT ![check[k].token] = [known |-> TRUE, valid |-> IsValid(check[k]),
                                                 at |-> check[k].start]]
  /\ Answer(k, check[k].token, check[k].start, IsValid(check[k]), FALSE)
  /\ UNCHANGED <<created, revoked, clock>>

\* The operator issues a key, and revokes it for good.
Create(t) ==
  /\ created[t] = Never
  /\ created' = [created EXCEPT ![t] = clock]
  /\ UNCHANGED <<revoked, cache, check, clock>>

Revoke(t) ==
  /\ created[t] # Never
  /\ revoked[t] = Never
  /\ revoked' = [revoked EXCEPT ![t] = clock]
  /\ UNCHANGED <<created, cache, check, clock>>

Tick ==
  /\ clock < MaxClock
  /\ clock' = clock + 1
  /\ UNCHANGED <<created, revoked, cache, check>>

Verify(k) ==
  \/ AcceptStatic(k)
  \/ \E t \in Tokens : AnswerFromCache(k, t) \/ StartQuery(k, t)
  \/ ReadRow(k)
  \/ FailQuery(k)
  \/ FinishQuery(k)

Next ==
  \/ \E k \in Checks : Verify(k)
  \/ \E t \in Tokens : Create(t) \/ Revoke(t)
  \/ Tick

Spec == Init /\ [][Next]_vars

-----------------------------------------------------------------------------
\* The key table, the outcomes remembered and the checks keep their types.
TypeOK ==
  /\ created \in [Tokens -> 0..Never]
  /\ revoked \in [Tokens -> 0..Never]
  /\ cache \in [Tokens -> {Unknown} \cup Outcome]
  /\ check \in [Checks -> {NoCheck} \cup Querying \cup Seen \cup Answered]
  /\ clock \in 0..MaxClock

Accepted == {k \in Checks : check[k].phase = "done" /\ check[k].accepted}

\* A revoked key stops working within the cache's TTL, however late the queries
\* of other checks return (api/deps.py: revocation is not instant).
RevocationTakesEffect ==
  \A k \in Accepted : check[k].token # StaticToken =>
    check[k].start < revoked[check[k].token] + TTL \/ check[k].start <= revoked[check[k].token]

\* So does an expired one.
ExpiryTakesEffect ==
  \A k \in Accepted : check[k].token # StaticToken /\ Lifetime(check[k].token) # 0 =>
    check[k].start < created[check[k].token] + Lifetime(check[k].token) + TTL

\* A check that was not a failed query refuses only a key that was issued less
\* than a TTL before, revoked, or expired: a transient failure locks nobody out
\* (api/deps.py, _KeyVerifier).
RefusalHasAReason ==
  \A k \in Checks :
    /\ check[k].phase = "done"
    /\ ~check[k].accepted
    /\ ~check[k].failed
    => LET t == check[k].token
       IN \/ check[k].start < created[t] + TTL
          \/ check[k].start <= created[t]
          \/ revoked[t] # Never
          \/ Expired(t)
=============================================================================
