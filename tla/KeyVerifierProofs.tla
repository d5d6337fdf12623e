------------------------- MODULE KeyVerifierProofs -------------------------
(***************************************************************************)
(* The staleness of the bearer check is bounded by the cache's TTL, for    *)
(* any number of keys and of concurrent checks, and any delay of their     *)
(* queries.                                                                *)
(***************************************************************************)
EXTENDS KeyVerifier, TLAPS

\* An acceptance of token t, decided on what was known at some time from start
\* on, is justified.
Justified(t, start) ==
  /\ created[t] # Never
  /\ start <= revoked[t]
  /\ Lifetime(t) # 0 => start < created[t] + Lifetime(t)

\* So is a refusal.
RefusalJustified(t, start) ==
  \/ start <= created[t]
  \/ revoked[t] # Never
  \/ Expired(t)

\* The rows seen by the queries under way, and the outcomes remembered.
RowsAreJust ==
  \A k \in Checks : check[k].phase = "seen" =>
    LET q == check[k]
    IN /\ q.found /\ ~q.revoked => created[q.token] # Never /\ q.start <= revoked[q.token]
       /\ ~q.found => q.start <= created[q.token]
       /\ q.revoked => revoked[q.token] # Never

CacheIsJust ==
  \A t \in Tokens : cache[t].known =>
    /\ cache[t].at <= clock
    /\ cache[t].valid => Justified(t, cache[t].at)
    /\ ~cache[t].valid => RefusalJustified(t, cache[t].at)

NoFutureCheck == \A k \in Checks : check[k].phase # "new" => check[k].start <= clock

AcceptedKeysExist ==
  \A k \in Accepted : check[k].token # StaticToken => created[check[k].token] # Never

\* The service's own token is never refused: a refused token has a key's row.
OwnTokenIsAccepted ==
  \A k \in Checks : check[k].phase = "done" /\ ~check[k].accepted => check[k].token # StaticToken

IInv ==
  /\ TypeOK
  /\ OwnTokenIsAccepted
  /\ RowsAreJust
  /\ CacheIsJust
  /\ NoFutureCheck
  /\ AcceptedKeysExist
  /\ RevocationTakesEffect
  /\ ExpiryTakesEffect
  /\ RefusalHasAReason

-----------------------------------------------------------------------------
\* What the operator and the clock do justifies nothing less.
LEMMA StaysJustified ==
  ASSUME TypeOK, NEW t \in Tokens, NEW start \in Nat, start <= clock,
         clock <= clock', clock' \in 0..MaxClock,
         created'[t] = created[t] \/ (created[t] = Never /\ created'[t] = clock),
         revoked'[t] = revoked[t] \/ (revoked[t] = Never /\ revoked'[t] = clock)
  PROVE  /\ Justified(t, start) => Justified(t, start)'
         /\ RefusalJustified(t, start) => RefusalJustified(t, start)'
<1>1. /\ created[t] \in 0..Never /\ revoked[t] \in 0..Never /\ clock \in 0..MaxClock
      /\ Never \in Nat /\ Lifetime(t) \in Nat /\ MaxClock \in Nat
  BY KeyAssumption DEF TypeOK, Never
<1> QED
  BY <1>1 DEF Justified, RefusalJustified, Expired, Never

LEMMA InitIInv == Init => IInv
<1> SUFFICES ASSUME Init PROVE IInv
  OBVIOUS
<1>1. \A k \in Checks : check[k].phase = "new"
  BY DEF Init, NoCheck
<1>2. TypeOK
  BY KeyAssumption DEF Init, TypeOK, Never
<1> QED
  BY <1>1, <1>2 DEF Init, IInv, RowsAreJust, CacheIsJust, NoFutureCheck, AcceptedKeysExist,
    RevocationTakesEffect, ExpiryTakesEffect, RefusalHasAReason, OwnTokenIsAccepted, Accepted,
    Unknown

\* What the cache holds is unknown, or the outcome of a check.
LEMMA CacheHolds ==
  ASSUME TypeOK, NEW t \in Tokens, cache[t].known
  PROVE  cache[t].valid \in BOOLEAN /\ cache[t].at \in Nat
<1>1. cache[t] \in {Unknown} \cup Outcome
  BY DEF TypeOK
<1>2. Unknown.known = FALSE
  BY DEF Unknown
<1>3. cache[t] \in Outcome
  BY <1>1, <1>2
<1>4. cache[t].at \in 0..MaxClock /\ cache[t].valid \in BOOLEAN
  BY <1>3 DEF Outcome
<1> QED
  BY <1>4

-----------------------------------------------------------------------------
\* A check is answered: its answer is justified, and so is what the cache holds.
LEMMA AnswerIInv ==
  ASSUME IInv, NEW k \in Checks, NEW t \in Tokens \cup {StaticToken}, NEW start \in Nat,
         NEW accepted \in BOOLEAN, NEW failed \in BOOLEAN,
         Answer(k, t, start, accepted, failed), UNCHANGED <<created, revoked, clock>>,
         start <= clock, ~accepted => t # StaticToken,
         cache' \in [Tokens -> {Unknown} \cup Outcome], CacheIsJust',
         accepted /\ t # StaticToken =>
           /\ created[t] # Never
           /\ start < revoked[t] + TTL \/ start <= revoked[t]
           /\ Lifetime(t) # 0 => start < created[t] + Lifetime(t) + TTL,
         ~accepted /\ ~failed =>
           start < created[t] + TTL \/ start <= created[t] \/ revoked[t] # Never \/ Expired(t)
  PROVE  IInv'
<1> DEFINE new == [phase |-> "done", token |-> t, start |-> start,
                   accepted |-> accepted, failed |-> failed]
<1>0. start \in 0..MaxClock
  BY KeyAssumption DEF IInv, TypeOK
<1>1. new \in Answered
  BY <1>0 DEF Answered
<1>2. /\ check' \in [Checks -> {NoCheck} \cup Querying \cup Seen \cup Answered]
      /\ check'[k] = new /\ \A j \in Checks : j # k => check'[j] = check[j]
  BY <1>1 DEF IInv, TypeOK, Answer
<1>3. /\ new.phase = "done" /\ new.token = t /\ new.start = start
      /\ new.accepted = accepted /\ new.failed = failed
  OBVIOUS
<1> HIDE DEF new
<1>4. TypeOK'
  BY <1>2 DEF IInv, TypeOK
<1>5. RowsAreJust'
  BY <1>2, <1>3 DEF IInv, RowsAreJust
<1>6. NoFutureCheck'
  BY <1>2, <1>3 DEF IInv, NoFutureCheck
<1>7. AcceptedKeysExist'
  BY <1>2, <1>3 DEF IInv, AcceptedKeysExist, Accepted
<1>8. RevocationTakesEffect'
  BY <1>2, <1>3 DEF IInv, RevocationTakesEffect, Accepted
<1>9. ExpiryTakesEffect'
  BY <1>2, <1>3 DEF IInv, ExpiryTakesEffect, Accepted
<1>10. RefusalHasAReason'
  <2> SUFFICES ASSUME NEW j \in Checks, check'[j].phase = "done", ~check'[j].accepted,
                      ~check'[j].failed
               PROVE  \/ check'[j].start < created[check'[j].token] + TTL
                      \/ check'[j].start <= created[check'[j].token]
                      \/ revoked[check'[j].token] # Never
                      \/ Expired(check'[j].token)
    BY DEF RefusalHasAReason, Expired
  <2>1. CASE j = k
    BY <1>2, <1>3, <2>1
  <2>2. CASE j # k
    BY <1>2, <2>2 DEF IInv, RefusalHasAReason
  <2> QED
    BY <2>1, <2>2
<1>11. OwnTokenIsAccepted'
  BY <1>2, <1>3 DEF IInv, OwnTokenIsAccepted
<1> QED
  BY <1>4, <1>5, <1>6, <1>7, <1>8, <1>9, <1>10, <1>11 DEF IInv

\* A check goes on to its query, or the query sees the row.
LEMMA QueryIInv ==
  ASSUME IInv, NEW k \in Checks, NEW new \in Querying \cup Seen,
         check' = [check EXCEPT ![k] = new],
         UNCHANGED <<created, revoked, cache, clock>>,
         new.start <= clock,
         new.phase = "seen" =>
           /\ new.found /\ ~new.revoked =>
                created[new.token] # Never /\ new.start <= revoked[new.token]
           /\ ~new.found => new.start <= created[new.token]
           /\ new.revoked => revoked[new.token] # Never
  PROVE  IInv'
<1>1. /\ check' \in [Checks -> {NoCheck} \cup Querying \cup Seen \cup Answered]
      /\ check'[k] = new /\ \A j \in Checks : j # k => check'[j] = check[j]
  BY DEF IInv, TypeOK
<1>2. new.phase # "done"
  BY DEF Querying, Seen
<1>3. TypeOK'
  BY <1>1 DEF IInv, TypeOK
<1>4. RowsAreJust'
  BY <1>1 DEF IInv, RowsAreJust
<1>5. CacheIsJust'
  BY DEF IInv, CacheIsJust, Justified, RefusalJustified, Expired
<1>6. NoFutureCheck'
  BY <1>1 DEF IInv, NoFutureCheck
<1>7. Accepted' = Accepted \ {k}
  BY <1>1, <1>2 DEF Accepted
<1>8. AcceptedKeysExist' /\ RevocationTakesEffect' /\ ExpiryTakesEffect'
  BY <1>1, <1>7 DEF IInv, AcceptedKeysExist, RevocationTakesEffect, ExpiryTakesEffect
<1>9. RefusalHasAReason'
  BY <1>1, <1>2 DEF IInv, RefusalHasAReason, Expired
<1>10. OwnTokenIsAccepted'
  BY <1>1, <1>2 DEF IInv, OwnTokenIsAccepted
<1> QED
  BY <1>3, <1>4, <1>5, <1>6, <1>8, <1>9, <1>10 DEF IInv

LEMMA VerifyIInv ==
  ASSUME IInv, NEW k \in Checks, Verify(k)
  PROVE  IInv'
<1>1. /\ clock \in Nat /\ clock \in 0..MaxClock /\ TTL \in Nat /\ StaticToken \notin Tokens
      /\ Never \in Nat /\ clock < Never
      /\ \A t \in Tokens : /\ created[t] \in Nat /\ revoked[t] \in Nat /\ Lifetime(t) \in Nat
      /\ cache \in [Tokens -> {Unknown} \cup Outcome] /\ CacheIsJust
  BY KeyAssumption DEF IInv, TypeOK, Never
<1>2. cache' = cache /\ UNCHANGED <<created, revoked, clock>> => CacheIsJust'
  BY DEF IInv, CacheIsJust, Justified, RefusalJustified, Expired
<1>3. CASE AcceptStatic(k)
  <2>1. /\ Answer(k, StaticToken, clock, TRUE, FALSE)
        /\ UNCHANGED <<created, revoked, cache, clock>>
    BY <1>3 DEF AcceptStatic
  <2>2. CacheIsJust' /\ cache' \in [Tokens -> {Unknown} \cup Outcome] /\ clock <= clock
    BY <1>1, <1>2, <2>1
  <2> QED
    BY <1>1, <2>1, <2>2, AnswerIInv
<1>4. ASSUME NEW t \in Tokens, AnswerFromCache(k, t) PROVE IInv'
  <2>1. /\ cache[t].known /\ clock < cache[t].at + TTL
        /\ Answer(k, t, clock, cache[t].valid, FALSE)
        /\ UNCHANGED <<created, revoked, cache, clock>>
    BY <1>4 DEF AnswerFromCache, Fresh
  <2>2. cache[t].valid \in BOOLEAN /\ cache[t].at \in Nat
    BY <2>1, CacheHolds DEF IInv
  <2>3. /\ cache[t].valid => Justified(t, cache[t].at)
        /\ ~cache[t].valid => RefusalJustified(t, cache[t].at)
    BY <1>1, <2>1 DEF CacheIsJust
  <2>4. cache[t].valid /\ t # StaticToken =>
          /\ created[t] # Never
          /\ clock < revoked[t] + TTL \/ clock <= revoked[t]
          /\ Lifetime(t) # 0 => clock < created[t] + Lifetime(t) + TTL
    BY <1>1, <2>1, <2>2, <2>3 DEF Justified
  <2>5. ~cache[t].valid /\ ~FALSE =>
          clock < created[t] + TTL \/ clock <= created[t] \/ revoked[t] # Never \/ Expired(t)
    BY <1>1, <2>1, <2>2, <2>3 DEF RefusalJustified
  <2>6. CacheIsJust' /\ cache' \in [Tokens -> {Unknown} \cup Outcome] /\ clock <= clock
    BY <1>1, <1>2, <2>1
  <2>7. t \in Tokens \cup {StaticToken} /\ t # StaticToken
    BY <1>1
  <2> DEFINE v == cache[t].valid
  <2> HIDE DEF v
  <2> QED
    BY <1>1, <2>1, <2>2, <2>4, <2>5, <2>6, <2>7, AnswerIInv DEF v
<1>5. ASSUME NEW t \in Tokens, StartQuery(k, t) PROVE IInv'
  <2> DEFINE new == [phase |-> "query", token |-> t, start |-> clock]
  <2>1. /\ new \in Querying /\ new.start <= clock /\ new.phase # "seen"
        /\ check' = [check EXCEPT ![k] = new]
        /\ UNCHANGED <<created, revoked, cache, clock>>
    BY <1>1, <1>5 DEF StartQuery, Querying
  <2> HIDE DEF new
  <2> QED
    BY <2>1, QueryIInv
<1>6. CASE ReadRow(k)
  <2> DEFINE t   == check[k].token
             new == [phase |-> "seen", token |-> t, start |-> check[k].start,
                     found |-> created[t] # Never, revoked |-> revoked[t] # Never]
  <2>1. check[k].phase = "query" /\ check' = [check EXCEPT ![k] = new]
        /\ UNCHANGED <<created, revoked, cache, clock>>
    BY <1>6 DEF ReadRow
  <2>2. t \in Tokens /\ check[k].start \in 0..MaxClock
    BY <2>1 DEF IInv, TypeOK, NoCheck, Querying, Seen, Answered
  <2>3. check[k].start <= clock
    BY <2>1 DEF IInv, NoFutureCheck
  <2>4. new \in Seen
    BY <2>2 DEF Seen
  <2>5. /\ new.found /\ ~new.revoked =>
             created[new.token] # Never /\ new.start <= revoked[new.token]
        /\ ~new.found => new.start <= created[new.token]
        /\ new.revoked => revoked[new.token] # Never
        /\ new.start <= clock
    <3>1. /\ new.found <=> created[t] # Never
          /\ new.revoked <=> revoked[t] # Never
          /\ new.token = t /\ new.start = check[k].start
      OBVIOUS
    <3> HIDE DEF new, t
    <3> QED
      BY <1>1, <2>2, <2>3, <3>1
  <2> HIDE DEF new, t
  <2> QED
    BY <2>1, <2>4, <2>5, QueryIInv
<1>7. CASE FailQuery(k)
  <2>1. check[k].phase \in {"query", "seen"}
    BY <1>7 DEF FailQuery
  <2>2. check[k].token \in Tokens /\ check[k].start \in 0..MaxClock
    BY <2>1 DEF IInv, TypeOK, NoCheck, Querying, Seen, Answered
  <2>3. check[k].start <= clock /\ check[k].start \in Nat
    BY <2>1, <2>2 DEF IInv, NoFutureCheck
  <2> QED
    BY <1>1, <1>2, <1>7, <2>2, <2>3, AnswerIInv DEF FailQuery
<1>8. CASE FinishQuery(k)
  <2> DEFINE q == check[k]
             t == check[k].token
             o == [known |-> TRUE, valid |-> IsValid(q), at |-> q.start]
  <2>1. /\ q.phase = "seen" /\ cache' = [cache EXCEPT ![t] = o]
        /\ Answer(k, t, q.start, IsValid(q), FALSE)
        /\ UNCHANGED <<created, revoked, clock>>
    BY <1>8 DEF FinishQuery
  <2>2. q \in Seen
    BY <2>1 DEF IInv, TypeOK, NoCheck, Querying, Seen, Answered
  <2>3. t \in Tokens /\ q.start \in Nat /\ IsValid(q) \in BOOLEAN /\ q.start <= clock
    BY <2>1, <2>2 DEF Seen, IsValid, Expired, IInv, NoFutureCheck
  <2>4. /\ q.found /\ ~q.revoked => created[t] # Never /\ q.start <= revoked[t]
        /\ ~q.found => q.start <= created[t]
        /\ q.revoked => revoked[t] # Never
    BY <2>1 DEF IInv, RowsAreJust
  <2>5. IsValid(q) => Justified(t, q.start)
    BY <1>1, <2>3, <2>4 DEF IsValid, Justified, Expired
  <2>6. ~IsValid(q) => RefusalJustified(t, q.start)
    BY <2>4 DEF IsValid, RefusalJustified
  <2>7. o \in Outcome /\ o.at = q.start /\ o.valid = IsValid(q)
    <3>1. q.start \in 0..MaxClock
      BY <2>2 DEF Seen
    <3> QED
      BY <2>3, <3>1 DEF Outcome
  <2> HIDE DEF q, t, o
  <2>8. /\ cache' \in [Tokens -> {Unknown} \cup Outcome]
        /\ cache'[t] = o /\ \A u \in Tokens : u # t => cache'[u] = cache[u]
    BY <1>1, <2>1, <2>3, <2>7
  <2>9. CacheIsJust'
    <3> SUFFICES ASSUME NEW u \in Tokens, cache'[u].known
                 PROVE  /\ cache'[u].at <= clock
                        /\ cache'[u].valid => Justified(u, cache'[u].at)
                        /\ ~cache'[u].valid => RefusalJustified(u, cache'[u].at)
      BY <2>1 DEF CacheIsJust, Justified, RefusalJustified, Expired
    <3>1. CASE u = t
      BY <2>3, <2>5, <2>6, <2>7, <2>8, <3>1
    <3>2. CASE u # t
      BY <1>1, <2>8, <3>2 DEF CacheIsJust
    <3> QED
      BY <3>1, <3>2
  <2>10. IsValid(q) /\ t # StaticToken =>
           /\ created[t] # Never
           /\ q.start < revoked[t] + TTL \/ q.start <= revoked[t]
           /\ Lifetime(t) # 0 => q.start < created[t] + Lifetime(t) + TTL
    BY <1>1, <2>3, <2>5 DEF Justified
  <2>11. ~IsValid(q) /\ ~FALSE =>
           \/ q.start < created[t] + TTL
           \/ q.start <= created[t]
           \/ revoked[t] # Never
           \/ Expired(t)
    BY <2>6 DEF RefusalJustified
  <2> QED
    BY <1>1, <2>1, <2>3, <2>8, <2>9, <2>10, <2>11, AnswerIInv
<1> QED
  BY <1>3, <1>4, <1>5, <1>6, <1>7, <1>8 DEF Verify

-----------------------------------------------------------------------------
\* What the operator and the clock do.
LEMMA OutsideIInv ==
  ASSUME IInv, UNCHANGED <<cache, check>>, clock <= clock', clock' \in 0..MaxClock,
         created' \in [Tokens -> 0..Never], revoked' \in [Tokens -> 0..Never],
         \A t \in Tokens :
           /\ created'[t] = created[t] \/ (created[t] = Never /\ created'[t] = clock)
           /\ revoked'[t] = revoked[t] \/ (revoked[t] = Never /\ revoked'[t] = clock)
  PROVE  IInv'
<1>1. TypeOK'
  BY DEF IInv, TypeOK
<1>2. \A t \in Tokens : /\ created[t] \in Nat /\ revoked[t] \in Nat /\ Lifetime(t) \in Nat
                        /\ created[t] <= Never /\ revoked[t] <= Never
                        /\ clock \in Nat /\ clock' \in Nat /\ clock' < Never /\ Never \in Nat
                        /\ TTL \in Nat
  BY KeyAssumption DEF IInv, TypeOK, Never
<1>3. CacheIsJust'
  <2> SUFFICES ASSUME NEW t \in Tokens, cache[t].known
               PROVE  /\ cache[t].at <= clock'
                      /\ cache[t].valid => Justified(t, cache[t].at)'
                      /\ ~cache[t].valid => RefusalJustified(t, cache[t].at)'
    BY DEF CacheIsJust, Justified, RefusalJustified, Expired
  <2>1. cache[t].at \in Nat
    BY CacheHolds DEF IInv
  <2>2. /\ cache[t].at <= clock
        /\ cache[t].valid => Justified(t, cache[t].at)
        /\ ~cache[t].valid => RefusalJustified(t, cache[t].at)
    BY DEF IInv, CacheIsJust
  <2> QED
    BY <1>2, <2>1, <2>2, StaysJustified DEF IInv
<1>4. \A k \in Checks : check[k].phase # "new" => check[k].start \in Nat /\ check[k].start <= clock
  BY DEF IInv, TypeOK, NoFutureCheck, NoCheck, Querying, Seen, Answered
<1>5. NoFutureCheck'
  BY <1>4 DEF NoFutureCheck, IInv, TypeOK
<1>6. RowsAreJust'
  <2> SUFFICES ASSUME NEW k \in Checks, check[k].phase = "seen"
               PROVE  LET q == check[k]
                      IN /\ q.found /\ ~q.revoked =>
                              created'[q.token] # Never /\ q.start <= revoked'[q.token]
                         /\ ~q.found => q.start <= created'[q.token]
                         /\ q.revoked => revoked'[q.token] # Never
    BY DEF RowsAreJust, Never
  <2>1. check[k].token \in Tokens
    BY DEF IInv, TypeOK, NoCheck, Querying, Seen, Answered
  <2> QED
    BY <1>2, <1>4, <2>1 DEF IInv, RowsAreJust
<1>7. \A k \in Accepted : check[k].token # StaticToken =>
        /\ check[k].token \in Tokens
        /\ check[k].start \in Nat /\ check[k].start <= clock
  BY <1>4 DEF IInv, TypeOK, Accepted, NoCheck, Querying, Seen, Answered
<1>8. AcceptedKeysExist'
  BY <1>2, <1>7 DEF IInv, AcceptedKeysExist, Accepted, Never
<1>9. RevocationTakesEffect'
  BY <1>2, <1>7 DEF IInv, RevocationTakesEffect, Accepted
<1>10. ExpiryTakesEffect'
  BY <1>2, <1>7 DEF IInv, ExpiryTakesEffect, AcceptedKeysExist, Accepted
<1>11. RefusalHasAReason'
  <2> SUFFICES ASSUME NEW k \in Checks, check[k].phase = "done", ~check[k].accepted,
                      ~check[k].failed
               PROVE  \/ check[k].start < created'[check[k].token] + TTL
                      \/ check[k].start <= created'[check[k].token]
                      \/ revoked'[check[k].token] # Never
                      \/ Expired(check[k].token)'
    BY DEF RefusalHasAReason, Never
  <2>1. check[k].token \in Tokens
    <3>1. check[k].token # StaticToken
      BY DEF IInv, OwnTokenIsAccepted
    <3> QED
      BY <3>1 DEF IInv, TypeOK, NoCheck, Querying, Seen, Answered
  <2>2. \/ check[k].start < created[check[k].token] + TTL
        \/ check[k].start <= created[check[k].token]
        \/ revoked[check[k].token] # Never
        \/ Expired(check[k].token)
    BY DEF IInv, RefusalHasAReason
  <2> QED
    BY <1>2, <1>4, <2>1, <2>2 DEF Expired
<1>12. OwnTokenIsAccepted'
  BY DEF IInv, OwnTokenIsAccepted
<1> QED
  BY <1>1, <1>3, <1>5, <1>6, <1>8, <1>9, <1>10, <1>11, <1>12 DEF IInv

LEMMA NextIInv == IInv /\ [Next]_vars => IInv'
<1> SUFFICES ASSUME IInv, [Next]_vars PROVE IInv'
  OBVIOUS
<1>1. /\ clock \in 0..MaxClock /\ MaxClock \in Nat
      /\ created \in [Tokens -> 0..Never] /\ revoked \in [Tokens -> 0..Never]
      /\ clock \in 0..Never
  BY KeyAssumption DEF IInv, TypeOK, Never
<1>2. ASSUME NEW k \in Checks, Verify(k) PROVE IInv'
  BY <1>2, VerifyIInv
<1>3. ASSUME NEW t \in Tokens, Create(t) PROVE IInv'
  BY <1>1, <1>3, OutsideIInv DEF Create
<1>4. ASSUME NEW t \in Tokens, Revoke(t) PROVE IInv'
  BY <1>1, <1>4, OutsideIInv DEF Revoke
<1>5. CASE Tick
  BY <1>1, <1>5, OutsideIInv DEF Tick
<1>6. CASE UNCHANGED vars
  BY <1>1, <1>6, OutsideIInv DEF vars
<1> QED
  BY <1>2, <1>3, <1>4, <1>5, <1>6 DEF Next

LEMMA SpecIInv == Spec => []IInv
  BY InitIInv, NextIInv, PTL DEF Spec

-----------------------------------------------------------------------------
\* The keys, the remembered outcomes and the checks keep their types.
THEOREM TypeCorrect == Spec => []TypeOK
<1>1. IInv => TypeOK
  BY DEF IInv
<1> QED
  BY <1>1, SpecIInv, PTL

\* No check that begins a TTL or more after its key was revoked is accepted, for
\* any number of checks whose queries return in any order (api/deps.py).
THEOREM RevocationIsBounded == Spec => []RevocationTakesEffect
<1>1. IInv => RevocationTakesEffect
  BY DEF IInv
<1> QED
  BY <1>1, SpecIInv, PTL

\* Nor one that begins a TTL or more after its key expired (store/keys.py).
THEOREM ExpiryIsBounded == Spec => []ExpiryTakesEffect
<1>1. IInv => ExpiryTakesEffect
  BY DEF IInv
<1> QED
  BY <1>1, SpecIInv, PTL

\* Every refusal that is not a failed query has its reason in the key, at most a
\* TTL out of date (api/deps.py).
THEOREM RefusalsAreJust == Spec => []RefusalHasAReason
<1>1. IInv => RefusalHasAReason
  BY DEF IInv
<1> QED
  BY <1>1, SpecIInv, PTL
=============================================================================
