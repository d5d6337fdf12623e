--------------------------- MODULE TtlStoreProofs ---------------------------
(***************************************************************************)
(* What the store with expiry keeps: every operation leaves it entries it  *)
(* was given.  Its operators are defined by recursion over a sequence, so  *)
(* the module begins with induction over the natural numbers, stated with  *)
(* sets in place of predicates.                                            *)
(***************************************************************************)
EXTENDS TtlStore, FiniteSetTheorems, TLAPS

\* Every set of naturals has a least element: the intervals from one to its
\* members are finite sets, and strict inclusion of these is well founded.
LEMMA LeastNatural ==
  ASSUME NEW X \in SUBSET Nat, X # {}
  PROVE  \E m \in X : \A k \in X : m <= k
<1> DEFINE T == {1..n : n \in X}
           R == StrictSubsetOrdering(Nat)
<1>1. T \subseteq FiniteSubsetsOf(Nat)
  <2>1. \A n \in X : n \in Int /\ 1 \in Int /\ 1..n \in SUBSET Nat
    OBVIOUS
  <2>2. \A n \in X : IsFiniteSet(1..n)
    BY <2>1, FS_Interval
  <2> QED
    BY <2>1, <2>2 DEF FiniteSubsetsOf
<1>2. T # {}
  OBVIOUS
<1>3. IsWellFoundedOn(R, FiniteSubsetsOf(Nat))
  BY FS_StrictSubsetOrderingWellFounded
<1> HIDE DEF T, R
<1>4. PICK x \in T : \A y \in T : ~(<<y, x>> \in R)
  BY <1>1, <1>2, <1>3, WFMin
<1>5. PICK m \in X : x = 1..m
  BY DEF T
<1>6. ASSUME NEW k \in X, ~(m <= k)
      PROVE  FALSE
  <2>1. 1..k \in T /\ k < m
    BY <1>6 DEF T
  <2>2. m \in 1..m /\ m \notin 1..k /\ 1..k \subseteq 1..m /\ 1..m \in SUBSET Nat
    BY <2>1
  <2>3. <<1..k, 1..m>> \in R
    BY <2>2 DEF R, StrictSubsetOrdering
  <2> QED
    BY <1>4, <1>5, <2>1, <2>3
<1> QED
  BY <1>6

\* A bounded set of naturals has a greatest element.
LEMMA GreatestNatural ==
  ASSUME NEW N \in Nat, NEW X \in SUBSET (0..N), X # {}
  PROVE  \E m \in X : \A k \in X : k <= m
<1> DEFINE Y == {N - x : x \in X}
<1>1. Y \in SUBSET Nat /\ Y # {}
  <2>1. \A x \in X : N - x \in Nat
    OBVIOUS
  <2>2. PICK x : x \in X
    OBVIOUS
  <2> QED
    BY <2>1, <2>2
<1> HIDE DEF Y
<1>2. PICK y \in Y : \A z \in Y : y <= z
  BY <1>1, LeastNatural
<1>3. PICK m \in X : y = N - m
  BY DEF Y
<1>4. ASSUME NEW x \in X PROVE x <= m
  <2>1. N - x \in Y
    BY DEF Y
  <2> QED
    BY <1>2, <1>3, <2>1
<1> QED
  BY <1>4

LEMMA NatSetInduction ==
  ASSUME NEW P \in SUBSET Nat, 0 \in P, \A n \in P : n + 1 \in P
  PROVE  P = Nat
<1> SUFFICES ASSUME P # Nat PROVE FALSE
  OBVIOUS
<1>1. Nat \ P \in SUBSET Nat /\ Nat \ P # {}
  OBVIOUS
<1>2. PICK m \in Nat \ P : \A k \in Nat \ P : m <= k
  BY <1>1, LeastNatural
<1>3. m - 1 \in Nat /\ (m - 1) + 1 = m
  BY <1>2
<1>4. m - 1 \in P
  BY <1>2, <1>3
<1> QED
  BY <1>2, <1>3, <1>4

\* The same up to a bound.
LEMMA BoundedInduction ==
  ASSUME NEW N \in Nat, NEW P \in SUBSET (0..N), 0 \in P, \A n \in P : n < N => n + 1 \in P
  PROVE  P = 0..N
<1> DEFINE Q == {n \in Nat : n <= N => n \in P}
<1>1. 0 \in Q
  OBVIOUS
<1>2. \A n \in Q : n + 1 \in Q
  OBVIOUS
<1>3. Q \in SUBSET Nat
  OBVIOUS
<1> HIDE DEF Q
<1>4. Q = Nat
  BY <1>1, <1>2, <1>3, NatSetInduction
<1>5. \A n \in 0..N : n \in P
  BY <1>4 DEF Q
<1> QED
  BY <1>5

\* A recursion over 0..N whose every step stays in S defines a function.
Stays(N, S, step) == \A q \in S, n \in 1..N : step[<<q, n>>] \in S

Recursion(N, S, base, step) ==
  {f \in [0..N -> S] : f[0] = base /\ \A n \in 1..N : f[n] = step[<<f[n - 1], n>>]}

LEMMA BoundedRecursion ==
  ASSUME NEW N \in Nat, NEW S, NEW base \in S, NEW step, Stays(N, S, step)
  PROVE  Recursion(N, S, base, step) # {}
<1> DEFINE Defines(f, m) == /\ f \in [0..m -> S]
                            /\ f[0] = base
                            /\ \A n \in 1..m : f[n] = step[<<f[n - 1], n>>]
           P == {m \in 0..N : \E f : Defines(f, m)}
<1>1. 0 \in P
  <2> DEFINE g == [n \in 0..0 |-> base]
  <2>1. g \in [0..0 -> S] /\ g[0] = base
    OBVIOUS
  <2> HIDE DEF g
  <2>2. 1..0 = {} /\ 0 \in 0..N
    OBVIOUS
  <2>3. Defines(g, 0)
    BY <2>1, <2>2
  <2> QED
    BY <2>2, <2>3
<1>2. ASSUME NEW m \in P, m < N
      PROVE  m + 1 \in P
  <2>1. PICK f : Defines(f, m)
    OBVIOUS
  <2>2. m \in Nat /\ m + 1 \in 1..N /\ f[m] \in S
    BY <1>2, <2>1
  <2> DEFINE g == [n \in 0..m + 1 |-> IF n = m + 1 THEN step[<<f[m], m + 1>>] ELSE f[n]]
  <2>3. step[<<f[m], m + 1>>] \in S
    BY <2>2 DEF Stays
  <2>4. g \in [0..m + 1 -> S]
    BY <2>1, <2>2, <2>3
  <2>5. g[0] = base
    BY <2>1, <2>2
  <2>6. ASSUME NEW n \in 1..m + 1
        PROVE  g[n] = step[<<g[n - 1], n>>]
    <3>1. CASE n = m + 1
      <4>1. m \in 0..m + 1 /\ m # m + 1 /\ n - 1 = m /\ m + 1 \in 0..m + 1
        BY <2>2, <3>1
      <4>2. g[m] = f[m] /\ g[m + 1] = step[<<f[m], m + 1>>]
        BY <4>1
      <4> HIDE DEF g
      <4> QED
        BY <3>1, <4>1, <4>2
    <3>2. CASE n # m + 1
      <4>1. n \in 1..m /\ n - 1 \in 0..m /\ n - 1 # m + 1 /\ n \in 0..m + 1 /\ n - 1 \in 0..m + 1
        BY <2>2, <2>6, <3>2
      <4>2. g[n] = f[n] /\ g[n - 1] = f[n - 1]
        BY <4>1
      <4> QED
        BY <2>1, <4>1, <4>2
    <3> QED
      BY <3>1, <3>2
  <2>7. Defines(g, m + 1)
    BY <2>4, <2>5, <2>6
  <2>8. m + 1 \in 0..N
    BY <2>2
  <2> QED
    BY <2>7, <2>8
<1>3. P = 0..N
  <2> HIDE DEF P
  <2>1. P \in SUBSET (0..N)
    BY DEF P
  <2> QED
    BY <1>1, <1>2, <2>1, BoundedInduction
<1>4. N \in P
  <2> HIDE DEF P
  <2> QED
    BY <1>3
<1> QED
  BY <1>4 DEF Recursion

-----------------------------------------------------------------------------
(***************************************************************************)
(* What Total returns.                                                     *)
(***************************************************************************)

\* The sums of the first numbers of a sequence.
Totals(numbers) ==
  {t \in [0..Len(numbers) -> Nat] :
     /\ t[0] = 0
     /\ \A n \in 1..Len(numbers) : t[n] = t[n - 1] + numbers[n]
     /\ Total(numbers) = t[Len(numbers)]}

\* The recursion of Total has a solution.
LEMMA TotalRecursion ==
  ASSUME NEW numbers \in Seq(Nat)
  PROVE  Totals(numbers) # {}
<1> DEFINE N == Len(numbers)
           Body(t) == [n \in 0..N |-> IF n = 0 THEN 0 ELSE t[n - 1] + numbers[n]]
           step == [p \in Nat \X (1..N) |-> p[1] + numbers[p[2]]]
<1>1. N \in Nat /\ \A n \in 1..N : numbers[n] \in Nat
  OBVIOUS
<1>2. \A q \in Nat, n \in 1..N : step[<<q, n>>] = q + numbers[n]
  OBVIOUS
<1>3. \A q \in Nat, n \in 1..N : step[<<q, n>>] \in Nat
  <2>1. \A q \in Nat, n \in 1..N : q + numbers[n] \in Nat
    BY <1>1
  <2> QED
    BY <1>2, <2>1
<1>4. Total(numbers) = (CHOOSE t : t = Body(t))[N]
  BY DEF Total
<1> HIDE DEF N, step
<1>5. PICK f \in [0..N -> Nat] : f[0] = 0 /\ \A n \in 1..N : f[n] = step[<<f[n - 1], n>>]
  <2> DEFINE S == Nat
             zero == 0
  <2>1. N \in Nat /\ zero \in S /\ \A q \in S, n \in 1..N : step[<<q, n>>] \in S
    BY <1>1, <1>3
  <2> HIDE DEF S, zero
  <2>2. Stays(N, S, step)
    BY <2>1 DEF Stays
  <2>3. Recursion(N, S, zero, step) # {}
    BY <2>1, <2>2, BoundedRecursion
  <2> QED
    BY <2>3 DEF Recursion, S, zero
<1>6. f = Body(f)
  <2>1. \A n \in 0..N : n # 0 => n \in 1..N /\ f[n - 1] \in Nat
    BY <1>1, <1>5
  <2>2. \A n \in 0..N : f[n] = Body(f)[n]
    BY <1>2, <1>5, <2>1
  <2> QED
    BY <1>5, <2>2
<1> DEFINE g == CHOOSE t : t = Body(t)
<1>7. g = Body(g)
  BY <1>6
<1> HIDE DEF g
<1> DEFINE P == {n \in 0..N : g[n] \in Nat}
<1>8. g[0] = 0 /\ \A n \in 1..N : g[n] = g[n - 1] + numbers[n]
  <2>1. 0 \in 0..N /\ \A n \in 1..N : n \in 0..N /\ n # 0
    BY <1>1
  <2> QED
    BY <1>7, <2>1
<1>9. 0 \in P
  BY <1>1, <1>8
<1>10. \A n \in P : n < N => n + 1 \in P
  <2> SUFFICES ASSUME NEW n \in P, n < N PROVE n + 1 \in P
    OBVIOUS
  <2>1. n + 1 \in 1..N /\ (n + 1) - 1 = n /\ g[n] \in Nat
    BY <1>1
  <2>2. g[n + 1] = g[n] + numbers[n + 1]
    BY <1>8, <2>1
  <2> QED
    BY <1>1, <2>1, <2>2
<1>11. P \in SUBSET (0..N)
  OBVIOUS
<1> HIDE DEF P
<1>12. P = 0..N
  BY <1>1, <1>9, <1>10, <1>11, BoundedInduction
<1>13. g \in [0..N -> Nat]
  BY <1>7, <1>12 DEF P
<1>14. Total(numbers) = g[N]
  BY <1>4 DEF g
<1>15. g \in Totals(numbers)
  BY <1>8, <1>13, <1>14 DEF N, Totals
<1> QED
  BY <1>15

\* A sum of naturals is one, and nothing is the sum of none.
LEMMA TotalType ==
  ASSUME NEW numbers \in Seq(Nat)
  PROVE  /\ Total(numbers) \in Nat
         /\ numbers = <<>> => Total(numbers) = 0
<1>1. PICK t : t \in Totals(numbers)
  BY TotalRecursion
<1>2. Len(numbers) \in 0..Len(numbers) /\ numbers = <<>> => Len(numbers) = 0
  OBVIOUS
<1> QED
  BY <1>1, <1>2 DEF Totals

-----------------------------------------------------------------------------
\* What has been picked up to each position.
Picking(T, items, I) ==
  {g \in [0..Len(items) -> Seq(T)] :
     /\ g[0] = <<>>
     /\ \A n \in 1..Len(items) : g[n] = IF n \in I THEN Append(g[n - 1], items[n]) ELSE g[n - 1]
     /\ Picked(items, I) = g[Len(items)]}

LEMMA PickedRecursion ==
  ASSUME NEW T, NEW items \in Seq(T), NEW I
  PROVE  Picking(T, items, I) # {}
<1> DEFINE N == Len(items)
           S == Seq(T)
           Body(f) == [n \in 0..N |-> IF n = 0 THEN <<>>
                                      ELSE IF n \in I THEN Append(f[n - 1], items[n])
                                      ELSE f[n - 1]]
           step == [p \in S \X (1..N) |-> IF p[2] \in I THEN Append(p[1], items[p[2]]) ELSE p[1]]
<1>1. N \in Nat /\ <<>> \in S /\ \A n \in 1..N : items[n] \in T
  OBVIOUS
<1>2. \A q \in S, n \in 1..N : (IF n \in I THEN Append(q, items[n]) ELSE q) \in S
  BY <1>1
<1>3. \A q \in S, n \in 1..N : step[<<q, n>>] = IF n \in I THEN Append(q, items[n]) ELSE q
  OBVIOUS
<1>4. Stays(N, S, step)
  BY <1>2, <1>3 DEF Stays
<1>5. Picked(items, I) = (CHOOSE f : f = Body(f))[N]
  BY DEF Picked
<1> HIDE DEF N, S, step
<1>6. Recursion(N, S, <<>>, step) # {}
  BY <1>1, <1>4, BoundedRecursion
<1>7. PICK f \in [0..N -> S] : f[0] = <<>> /\ \A n \in 1..N : f[n] = step[<<f[n - 1], n>>]
  BY <1>6 DEF Recursion
<1>8. f = Body(f)
  <2>1. \A n \in 0..N : n # 0 => n \in 1..N /\ f[n - 1] \in S
    BY <1>1, <1>7
  <2>2. \A n \in 0..N : f[n] = Body(f)[n]
    BY <1>3, <1>7, <2>1
  <2> QED
    BY <1>7, <2>2
<1> DEFINE g == CHOOSE h : h = Body(h)
<1>9. g = Body(g)
  BY <1>8
<1> HIDE DEF g
<1> DEFINE P == {n \in 0..N : g[n] \in S}
<1>10. 0 \in P
  <2>1. g[0] = <<>> /\ 0 \in 0..N
    BY <1>1, <1>9
  <2> QED
    BY <1>1, <2>1
<1>11. ASSUME NEW n \in P, n < N PROVE n + 1 \in P
  <2>1. n + 1 \in 1..N /\ (n + 1) - 1 = n /\ n + 1 # 0 /\ n + 1 \in 0..N /\ g[n] \in S
    BY <1>1, <1>11
  <2>2. g[n + 1] = IF n + 1 \in I THEN Append(g[n], items[n + 1]) ELSE g[n]
    BY <1>9, <2>1
  <2> QED
    BY <1>2, <2>1, <2>2
<1>12. P \in SUBSET (0..N)
  OBVIOUS
<1>13. N \in 0..N
  BY <1>1
<1> HIDE DEF P
<1>14. P = 0..N
  BY <1>1, <1>10, <1>11, <1>12, BoundedInduction
<1>15. g \in [0..N -> S]
  BY <1>9, <1>14 DEF P
<1>16. g[0] = <<>> /\ \A n \in 1..N : g[n] = IF n \in I THEN Append(g[n - 1], items[n]) ELSE g[n - 1]
  <2>1. 0 \in 0..N /\ \A n \in 1..N : n \in 0..N /\ n # 0
    BY <1>1
  <2> QED
    BY <1>9, <2>1
<1>17. Picked(items, I) = g[N]
  BY <1>5 DEF g
<1>18. g \in Picking(T, items, I)
  BY <1>15, <1>16, <1>17 DEF N, S, Picking
<1> QED
  BY <1>18

\* Picking items yields a sequence of them.
LEMMA PickedType ==
  ASSUME NEW T, NEW items \in Seq(T), NEW I
  PROVE  Picked(items, I) \in Seq(T)
<1>1. PICK g : g \in Picking(T, items, I)
  BY PickedRecursion
<1>2. Len(items) \in 0..Len(items)
  OBVIOUS
<1> QED
  BY <1>1, <1>2 DEF Picking

\* Every item at a position in I is picked, and nothing else is.
LEMMA PickedItems ==
  ASSUME NEW T, NEW items \in Seq(T), NEW I
  PROVE  /\ \A i \in DOMAIN items : i \in I => \E j \in DOMAIN Picked(items, I) : Picked(items, I)[j] = items[i]
         /\ \A j \in DOMAIN Picked(items, I) : \E i \in DOMAIN items : i \in I /\ Picked(items, I)[j] = items[i]
<1>1. PICK g : g \in Picking(T, items, I)
  BY PickedRecursion
<1> DEFINE N == Len(items)
<1>2. /\ N \in Nat /\ DOMAIN items = 1..N /\ \A n \in 1..N : items[n] \in T
      /\ g \in [0..N -> Seq(T)] /\ g[0] = <<>> /\ Picked(items, I) = g[N]
      /\ \A n \in 1..N : g[n] = IF n \in I THEN Append(g[n - 1], items[n]) ELSE g[n - 1]
  BY <1>1 DEF Picking
<1> HIDE DEF N
<1> DEFINE All(n) == \A i \in 1..n : i \in I => \E j \in DOMAIN g[n] : g[n][j] = items[i]
           Only(n) == \A j \in DOMAIN g[n] : \E i \in 1..n : i \in I /\ g[n][j] = items[i]
           P == {n \in 0..N : All(n) /\ Only(n)}
<1>3. 0 \in P
  <2>1. DOMAIN g[0] = {} /\ 1..0 = {} /\ 0 \in 0..N
    BY <1>2
  <2> QED
    BY <2>1
<1>4. ASSUME NEW n \in P, n < N
      PROVE  n + 1 \in P
  <2>1. /\ n \in Nat /\ n + 1 \in 1..N /\ n + 1 \in 0..N /\ (n + 1) - 1 = n /\ g[n] \in Seq(T)
        /\ 1..n + 1 = (1..n) \cup {n + 1}
    BY <1>2, <1>4
  <2>2. g[n + 1] = IF n + 1 \in I THEN Append(g[n], items[n + 1]) ELSE g[n]
    BY <1>2, <2>1
  <2>3. All(n) /\ Only(n)
    OBVIOUS
  <2> HIDE DEF P
  <2>4. CASE n + 1 \in I
    <3> DEFINE q == g[n + 1]
    <3>1. q = Append(g[n], items[n + 1])
      BY <2>2, <2>4
    <3>2. /\ DOMAIN q = (DOMAIN g[n]) \cup {Len(g[n]) + 1}
          /\ q[Len(g[n]) + 1] = items[n + 1]
          /\ \A j \in DOMAIN g[n] : q[j] = g[n][j]
      BY <2>1, <3>1
    <3> HIDE DEF q
    <3>3. \A i \in 1..n + 1 : i \in I => \E j \in DOMAIN q : q[j] = items[i]
      BY <2>1, <2>3, <3>2
    <3>4. \A j \in DOMAIN q : \E i \in 1..n + 1 : i \in I /\ q[j] = items[i]
      BY <2>1, <2>3, <2>4, <3>2
    <3> QED
      BY <2>1, <3>3, <3>4 DEF P, q
  <2>5. CASE n + 1 \notin I
    <3>1. g[n + 1] = g[n]
      BY <2>2, <2>5
    <3>2. All(n + 1) /\ Only(n + 1)
      BY <2>1, <2>3, <2>5, <3>1
    <3> QED
      BY <2>1, <3>2 DEF P
  <2> QED
    BY <2>4, <2>5
<1>5. P \in SUBSET (0..N)
  OBVIOUS
<1> HIDE DEF P
<1>6. P = 0..N
  BY <1>2, <1>3, <1>4, <1>5, BoundedInduction
<1>7. N \in P
  BY <1>2, <1>6
<1>8. All(N) /\ Only(N)
  BY <1>7 DEF P
<1> QED
  BY <1>2, <1>8

\* Nothing is picked twice: what is as long as the whole is the whole.
LEMMA PickedLength ==
  ASSUME NEW T, NEW items \in Seq(T), NEW I
  PROVE  /\ Len(Picked(items, I)) \in 0..Len(items)
         /\ Len(Picked(items, I)) = Len(items) => Picked(items, I) = items
<1>1. PICK g : g \in Picking(T, items, I)
  BY PickedRecursion
<1> DEFINE N == Len(items)
           Whole(n) == /\ Len(g[n]) \in 0..n
                       /\ Len(g[n]) = n => \A i \in 1..n : g[n][i] = items[i]
           P == {n \in 0..N : Whole(n)}
<1>2. /\ N \in Nat /\ \A n \in 1..N : items[n] \in T
      /\ g \in [0..N -> Seq(T)] /\ g[0] = <<>> /\ Picked(items, I) = g[N]
      /\ \A n \in 1..N : g[n] = IF n \in I THEN Append(g[n - 1], items[n]) ELSE g[n - 1]
  BY <1>1 DEF Picking
<1>3. 0 \in P
  <2>1. Len(g[0]) = 0 /\ 1..0 = {} /\ 0 \in 0..N
    BY <1>2
  <2> QED
    BY <2>1
<1>4. ASSUME NEW n \in P, n < N
      PROVE  n + 1 \in P
  <2>1. n \in Nat /\ n + 1 \in 1..N /\ n + 1 \in 0..N /\ (n + 1) - 1 = n /\ g[n] \in Seq(T)
    BY <1>2, <1>4
  <2>2. g[n + 1] = IF n + 1 \in I THEN Append(g[n], items[n + 1]) ELSE g[n]
    BY <1>2, <2>1
  <2>3. Whole(n)
    OBVIOUS
  <2> HIDE DEF P, N
  <2>4. CASE n + 1 \in I
    <3>1. g[n + 1] = Append(g[n], items[n + 1])
      BY <2>2, <2>4
    <3>2. /\ Len(g[n + 1]) = Len(g[n]) + 1 /\ g[n + 1][Len(g[n]) + 1] = items[n + 1]
          /\ \A j \in 1..Len(g[n]) : g[n + 1][j] = g[n][j]
      BY <2>1, <3>1
    <3>3. Whole(n + 1)
      BY <2>1, <2>3, <3>2
    <3> QED
      BY <2>1, <3>3 DEF P
  <2>5. CASE n + 1 \notin I
    <3>1. g[n + 1] = g[n]
      BY <2>2, <2>5
    <3>2. Whole(n + 1)
      BY <2>1, <2>3, <3>1
    <3> QED
      BY <2>1, <3>2 DEF P
  <2> QED
    BY <2>4, <2>5
<1>5. P \in SUBSET (0..N)
  OBVIOUS
<1> HIDE DEF P
<1>6. P = 0..N
  BY <1>2, <1>3, <1>4, <1>5, BoundedInduction
<1>7. N \in P
  BY <1>2, <1>6
<1>8. Whole(N)
  BY <1>7 DEF P
<1>9. g[N] \in Seq(T)
  BY <1>2
<1> QED
  BY <1>2, <1>8, <1>9

\* Stores over a set of entries.
Store(T) == [puts : Nat, items : Seq(T)]

LEMMA EmptyStoreType == \A T : EmptyStore \in Store(T)
  BY DEF EmptyStore, Store

LEMMA CappedType ==
  ASSUME NEW T, NEW items \in Seq(T)
  PROVE  Capped(items) \in Seq(T)
<1>1. Len(items) \in Nat /\ MaxEntries \in Nat
  BY TtlStoreAssumption
<1>2. CASE Len(items) <= MaxEntries
  BY <1>2 DEF Capped
<1>3. CASE ~(Len(items) <= MaxEntries)
  <2>1. Len(items) - MaxEntries + 1 \in 1..Len(items) + 1
    BY <1>1, <1>3
  <2>2. SubSeq(items, Len(items) - MaxEntries + 1, Len(items)) \in Seq(T)
    BY <1>1, <1>3, <2>1
  <2> QED
    BY <1>3, <2>2 DEF Capped
<1> QED
  BY <1>2, <1>3

\* A live entry is one of the store's.
LEMMA LiveIsHeld ==
  ASSUME NEW T, NEW store \in Store(T), NEW key, NEW now, NEW e \in Live(store, key, now)
  PROVE  e \in T /\ e.key = key /\ now < e.expires
  BY DEF Live, Store

LEMMA AfterGetType ==
  ASSUME NEW T, NEW store \in Store(T), NEW key, NEW now
  PROVE  AfterGet(store, key, now) \in Store(T)
<1>1. Without(store.items, key) \in Seq(T)
  BY PickedType DEF Without, Store
<1> QED
  BY <1>1 DEF AfterGet, Store

\* A put adds the one entry it was given.
LEMMA AfterPutType ==
  ASSUME NEW T, NEW store \in Store(T), NEW key, NEW value, NEW ttl, NEW now,
         [key |-> key, value |-> value, expires |-> now + ttl] \in T
  PROVE  AfterPut(store, key, value, ttl, now) \in Store(T)
<1> DEFINE entry == [key |-> key, value |-> value, expires |-> now + ttl]
           swept == IF Sweeps(store) THEN Unexpired(store.items, now) ELSE store.items
           puts  == IF Sweeps(store) THEN 0 ELSE store.puts + 1
<1>1. store.items \in Seq(T) /\ store.puts \in Nat
  BY DEF Store
<1>2. Unexpired(store.items, now) \in Seq(T)
  BY <1>1, PickedType DEF Unexpired
<1>3. swept \in Seq(T) /\ puts \in Nat /\ entry \in T
  BY <1>1, <1>2
<1>4. AfterPut(store, key, value, ttl, now)
        = [puts |-> puts, items |-> Capped(Append(Without(swept, key), entry))]
  BY DEF AfterPut
<1> HIDE DEF entry, swept, puts
<1>5. Without(swept, key) \in Seq(T)
  BY <1>3, PickedType DEF Without
<1>6. Append(Without(swept, key), entry) \in Seq(T)
  BY <1>3, <1>5
<1>7. Capped(Append(Without(swept, key), entry)) \in Seq(T)
  BY <1>6, CappedType
<1> QED
  BY <1>3, <1>4, <1>7 DEF Store

\* A larger set of entries has the stores of a smaller one.
LEMMA StoreWidens ==
  ASSUME NEW T, NEW U, T \subseteq U, NEW store \in Store(T)
  PROVE  store \in Store(U)
  BY DEF Store


-----------------------------------------------------------------------------
\* The store never holds more than its cap.
LEMMA CappedLength ==
  ASSUME NEW T, NEW items \in Seq(T)
  PROVE  Len(Capped(items)) <= MaxEntries
<1>1. Len(items) \in Nat /\ MaxEntries \in Nat
  BY TtlStoreAssumption
<1>2. CASE Len(items) <= MaxEntries
  BY <1>2 DEF Capped
<1>3. CASE ~(Len(items) <= MaxEntries)
  <2>1. Len(items) - MaxEntries + 1 \in 1..Len(items) + 1
    BY <1>1, <1>3
  <2>2. Len(SubSeq(items, Len(items) - MaxEntries + 1, Len(items))) = MaxEntries
    BY <1>1, <1>3, <2>1
  <2> QED
    BY <1>1, <1>3, <2>2 DEF Capped
<1> QED
  BY <1>2, <1>3

\* Of a sequence that is one too long, only the first item goes.
LEMMA CappedItems ==
  ASSUME NEW T, NEW items \in Seq(T), Len(items) <= MaxEntries + 1, items # <<>>
  PROVE  /\ Capped(items) # <<>> /\ Capped(items)[Len(Capped(items))] = items[Len(items)]
         /\ \A i \in DOMAIN items : \/ \E j \in DOMAIN Capped(items) : Capped(items)[j] = items[i]
                                    \/ i = 1 /\ Len(items) = MaxEntries + 1 /\ Len(Capped(items)) = MaxEntries
<1>1. Len(items) \in Nat \ {0} /\ MaxEntries \in Nat \ {0}
  BY TtlStoreAssumption
<1>2. CASE Len(items) <= MaxEntries
  BY <1>1, <1>2 DEF Capped
<1>3. CASE ~(Len(items) <= MaxEntries)
  <2> DEFINE q == SubSeq(items, 2, Len(items))
  <2>1. Len(items) = MaxEntries + 1 /\ Len(items) - MaxEntries + 1 = 2
    BY <1>1, <1>3
  <2>2. Capped(items) = q
    BY <1>3, <2>1 DEF Capped
  <2>3. q \in Seq(T) /\ Len(q) = MaxEntries /\ \A k \in 1..MaxEntries : q[k] = items[k + 1]
    BY <1>1, <2>1
  <2> HIDE DEF q
  <2>4. q # <<>> /\ q[Len(q)] = items[Len(items)] /\ DOMAIN q = 1..MaxEntries
    BY <1>1, <2>1, <2>3
  <2>5. ASSUME NEW i \in DOMAIN items, i # 1
        PROVE  \E j \in DOMAIN q : q[j] = items[i]
    <3>1. i - 1 \in 1..MaxEntries /\ (i - 1) + 1 = i
      BY <1>1, <2>1, <2>5
    <3> QED
      BY <2>3, <2>4, <3>1
  <2>6. Len(items) = MaxEntries + 1 /\ Len(q) = MaxEntries
    BY <2>1, <2>3
  <2> QED
    BY <2>2, <2>4, <2>5, <2>6
<1> QED
  BY <1>2, <1>3

LEMMA AfterGetWithinCap ==
  ASSUME NEW T, NEW store \in Store(T), NEW key, NEW now, Len(store.items) <= MaxEntries
  PROVE  Len(AfterGet(store, key, now).items) <= MaxEntries
<1>1. Len(store.items) \in Nat /\ MaxEntries \in Nat /\ Len(Without(store.items, key)) \in 0..Len(store.items)
  BY PickedLength, TtlStoreAssumption DEF Without, Store
<1> QED
  BY <1>1 DEF AfterGet, Store

\* A get loses no live entry, and moves nothing if it loses none.
LEMMA AfterGetKeeps ==
  ASSUME NEW T, NEW store \in Store(T), NEW key, NEW now
  PROVE  /\ \A i \in DOMAIN store.items : now < store.items[i].expires =>
              \E j \in DOMAIN AfterGet(store, key, now).items :
                 AfterGet(store, key, now).items[j] = store.items[i]
         /\ \/ AfterGet(store, key, now).items = store.items
            \/ Len(AfterGet(store, key, now).items) < Len(store.items)
<1> DEFINE rest == Without(store.items, key)
<1>1. store.items \in Seq(T) /\ AfterGet(store, key, now).items = IF Live(store, key, now) = {} THEN rest ELSE store.items
  BY DEF AfterGet, Store
<1>2. /\ Len(rest) \in 0..Len(store.items) /\ (Len(rest) = Len(store.items) => rest = store.items)
      /\ \A i \in DOMAIN store.items : store.items[i].key # key =>
           \E j \in DOMAIN rest : rest[j] = store.items[i]
  <2> DEFINE I == {i \in DOMAIN store.items : store.items[i].key # key}
  <2>1. rest = Picked(store.items, I) /\ \A i \in DOMAIN store.items : store.items[i].key # key => i \in I
    BY DEF Without
  <2> HIDE DEF I, rest
  <2> QED
    BY <1>1, <2>1, PickedLength, PickedItems
<1>3. Live(store, key, now) = {} =>
        \A i \in DOMAIN store.items : now < store.items[i].expires => store.items[i].key # key
  BY DEF Live
<1>4. Len(store.items) \in Nat
  BY <1>1
<1> HIDE DEF rest
<1>5. rest = store.items \/ Len(rest) < Len(store.items)
  BY <1>2, <1>4
<1>6. CASE Live(store, key, now) = {}
  BY <1>1, <1>2, <1>3, <1>5, <1>6
<1>7. CASE Live(store, key, now) # {}
  BY <1>1, <1>7
<1> QED
  BY <1>6, <1>7

LEMMA AfterPutWithinCap ==
  ASSUME NEW T, NEW store \in Store(T), NEW key, NEW value, NEW ttl, NEW now,
         [key |-> key, value |-> value, expires |-> now + ttl] \in T
  PROVE  Len(AfterPut(store, key, value, ttl, now).items) <= MaxEntries
<1> DEFINE entry == [key |-> key, value |-> value, expires |-> now + ttl]
           swept == IF Sweeps(store) THEN Unexpired(store.items, now) ELSE store.items
<1>1. store.items \in Seq(T)
  BY DEF Store
<1>2. swept \in Seq(T)
  BY <1>1, PickedType DEF Unexpired
<1>3. Without(swept, key) \in Seq(T)
  BY <1>2, PickedType DEF Without
<1>4. AfterPut(store, key, value, ttl, now).items = Capped(Append(Without(swept, key), entry))
  BY DEF AfterPut
<1> HIDE DEF entry, swept
<1>5. Append(Without(swept, key), entry) \in Seq(T)
  BY <1>3 DEF entry
<1> QED
  BY <1>4, <1>5, CappedLength

\* A put loses a live entry only to the one it puts, or to the cap, and then
\* it is the oldest.
LEMMA AfterPutKeeps ==
  ASSUME NEW T, NEW store \in Store(T), NEW key, NEW value, NEW ttl, NEW now,
         [key |-> key, value |-> value, expires |-> now + ttl] \in T,
         Len(store.items) <= MaxEntries,
         NEW i \in DOMAIN store.items, now < store.items[i].expires
  PROVE  LET after == AfterPut(store, key, value, ttl, now).items
         IN \/ \E j \in DOMAIN after : after[j] = store.items[i]
            \/ after # <<>> /\ after[Len(after)].key = key /\ store.items[i].key = key
            \/ i = 1 /\ Len(store.items) = MaxEntries /\ Len(after) = MaxEntries
<1> DEFINE entry == [key |-> key, value |-> value, expires |-> now + ttl]
           live == {k \in DOMAIN store.items : now < store.items[k].expires}
           swept == IF Sweeps(store) THEN Picked(store.items, live) ELSE store.items
           other == {k \in DOMAIN swept : swept[k].key # key}
           rest == Picked(swept, other)
           long == Append(rest, entry)
           after == AfterPut(store, key, value, ttl, now).items
           e == store.items[i]
<1>1. store.items \in Seq(T) /\ entry \in T /\ i \in live /\ entry.key = key
  BY DEF Store
<1>2. after = Capped(long)
  BY DEF AfterPut, Unexpired, Without
<1>3. /\ swept \in Seq(T) /\ Len(swept) \in 0..Len(store.items)
      /\ Len(swept) = Len(store.items) => swept = store.items
      /\ \E k \in DOMAIN swept : swept[k] = e
  <2>1. CASE Sweeps(store)
    <3>1. swept = Picked(store.items, live)
      BY <2>1
    <3> HIDE DEF live, swept
    <3>2. swept \in Seq(T)
      BY <1>1, <3>1, PickedType
    <3>3. Len(swept) \in 0..Len(store.items) /\ (Len(swept) = Len(store.items) => swept = store.items)
      BY <1>1, <3>1, PickedLength
    <3>4. \E k \in DOMAIN swept : swept[k] = e
      BY <1>1, <3>1, PickedItems
    <3> QED
      BY <3>2, <3>3, <3>4
  <2>2. CASE ~Sweeps(store)
    BY <1>1, <2>2
  <2> QED
    BY <2>1, <2>2
<1> HIDE DEF live, swept
<1>4. /\ rest \in Seq(T) /\ Len(rest) \in 0..Len(swept) /\ (Len(rest) = Len(swept) => rest = swept)
      /\ \A k \in DOMAIN swept : swept[k].key # key => \E j \in DOMAIN rest : rest[j] = swept[k]
  <2>1. \A k \in DOMAIN swept : swept[k].key # key => k \in other
    OBVIOUS
  <2> HIDE DEF other
  <2> QED
    BY <1>3, <2>1, PickedType, PickedLength, PickedItems
<1> HIDE DEF rest, entry, after
<1>5. /\ Len(store.items) \in Nat /\ MaxEntries \in Nat /\ Len(swept) \in Nat /\ Len(rest) \in Nat
      /\ Len(store.items) <= MaxEntries
  BY <1>1, <1>3, <1>4, TtlStoreAssumption
<1>6. /\ long \in Seq(T) /\ Len(long) = Len(rest) + 1 /\ long # <<>> /\ long[Len(long)] = entry
      /\ \A j \in DOMAIN rest : j \in DOMAIN long /\ long[j] = rest[j]
  BY <1>1, <1>4
<1> HIDE DEF long
<1>7. Len(long) <= MaxEntries + 1
  BY <1>3, <1>4, <1>5, <1>6
<1>8. /\ after # <<>> /\ after[Len(after)] = entry
      /\ \A k \in DOMAIN long : \/ \E j \in DOMAIN after : after[j] = long[k]
                                \/ k = 1 /\ Len(long) = MaxEntries + 1 /\ Len(after) = MaxEntries
  BY <1>2, <1>6, <1>7, CappedItems
<1>9. CASE e.key = key
  BY <1>1, <1>8, <1>9 DEF after
<1>10. CASE e.key # key /\ Len(long) = MaxEntries + 1
  <2>1. rest = store.items /\ Len(store.items) = MaxEntries
    BY <1>3, <1>4, <1>5, <1>6, <1>10
  <2>2. i \in DOMAIN long /\ long[i] = e
    BY <1>6, <2>1
  <2> QED
    BY <1>8, <2>1, <2>2 DEF after
<1>11. CASE e.key # key /\ Len(long) # MaxEntries + 1
  <2>1. PICK k \in DOMAIN long : long[k] = e
    BY <1>3, <1>4, <1>6, <1>11
  <2> QED
    BY <1>8, <1>11, <2>1 DEF after
<1> QED
  BY <1>9, <1>10, <1>11

-----------------------------------------------------------------------------
(***************************************************************************)
(* The order of the entries.                                               *)
(***************************************************************************)

\* What comes in an order came in that order before.
Ascends(before, after) ==
  /\ \A j \in DOMAIN after : \E a \in DOMAIN before : after[j] = before[a]
  /\ \A j, k \in DOMAIN after : j < k =>
       \E a, b \in DOMAIN before : a < b /\ after[j] = before[a] /\ after[k] = before[b]

OneEntryPerKey(items) == \A i, j \in DOMAIN items : i < j => items[i].key # items[j].key

OldestFirst(items) == \A i, j \in DOMAIN items : i < j => items[i].expires <= items[j].expires

LEMMA AscendingOrders ==
  ASSUME NEW before, NEW after, Ascends(before, after)
  PROVE  /\ OneEntryPerKey(before) => OneEntryPerKey(after)
         /\ OldestFirst(before) => OldestFirst(after)
  BY DEF Ascends, OneEntryPerKey, OldestFirst

\* The picked items keep their order.
LEMMA PickedAscends ==
  ASSUME NEW T, NEW items \in Seq(T), NEW I
  PROVE  Ascends(items, Picked(items, I))
<1>1. PICK g : g \in Picking(T, items, I)
  BY PickedRecursion
<1> DEFINE N == Len(items)
           One(n) == \A j \in DOMAIN g[n] : \E a \in 1..n : g[n][j] = items[a]
           Two(n) == \A j, k \in DOMAIN g[n] : j < k =>
                       \E a, b \in 1..n : a < b /\ g[n][j] = items[a] /\ g[n][k] = items[b]
           P == {n \in 0..N : One(n) /\ Two(n)}
<1>2. /\ N \in Nat /\ DOMAIN items = 1..N /\ \A n \in 1..N : items[n] \in T
      /\ g \in [0..N -> Seq(T)] /\ g[0] = <<>> /\ Picked(items, I) = g[N]
      /\ \A n \in 1..N : g[n] = IF n \in I THEN Append(g[n - 1], items[n]) ELSE g[n - 1]
  BY <1>1 DEF Picking
<1> HIDE DEF N
<1>3. 0 \in P
  <2>1. DOMAIN g[0] = {} /\ 0 \in 0..N
    BY <1>2
  <2> QED
    BY <2>1
<1>4. ASSUME NEW n \in P, n < N
      PROVE  n + 1 \in P
  <2>1. n \in Nat /\ n + 1 \in 1..N /\ n + 1 \in 0..N /\ (n + 1) - 1 = n /\ g[n] \in Seq(T)
    BY <1>2, <1>4
  <2>2. \A a \in 1..n : a \in 1..n + 1 /\ a < n + 1
    BY <2>1
  <2>3. n + 1 \in 1..n + 1
    BY <2>1
  <2>4. g[n + 1] = IF n + 1 \in I THEN Append(g[n], items[n + 1]) ELSE g[n]
    BY <1>2, <2>1
  <2>5. One(n) /\ Two(n)
    OBVIOUS
  <2> HIDE DEF P
  <2>6. CASE n + 1 \in I
    <3> DEFINE q == g[n + 1]
               l == Len(g[n])
    <3>1. q = Append(g[n], items[n + 1])
      BY <2>4, <2>6
    <3>2. /\ l \in Nat /\ DOMAIN g[n] = 1..l /\ DOMAIN q = 1..l + 1 /\ q[l + 1] = items[n + 1]
          /\ \A j \in 1..l : q[j] = g[n][j]
      BY <2>1, <3>1
    <3> HIDE DEF q, l
    <3>3. ASSUME NEW j \in DOMAIN q PROVE \E a \in 1..n + 1 : q[j] = items[a]
      <4>1. j \in 1..l \/ j = l + 1
        BY <3>2
      <4> QED
        BY <2>2, <2>3, <2>5, <3>2, <4>1
    <3>4. ASSUME NEW j \in DOMAIN q, NEW k \in DOMAIN q, j < k
          PROVE  \E a, b \in 1..n + 1 : a < b /\ q[j] = items[a] /\ q[k] = items[b]
      <4>1. j \in 1..l /\ (k \in 1..l \/ k = l + 1)
        BY <3>2, <3>4
      <4>2. CASE k \in 1..l
        <5>1. PICK a \in 1..n, b \in 1..n : a < b /\ g[n][j] = items[a] /\ g[n][k] = items[b]
          BY <2>5, <3>2, <3>4, <4>1, <4>2
        <5> QED
          BY <2>2, <3>2, <4>1, <4>2, <5>1
      <4>3. CASE k = l + 1
        <5>1. PICK a \in 1..n : g[n][j] = items[a]
          BY <2>5, <3>2, <4>1
        <5>2. a \in 1..n + 1 /\ a < n + 1 /\ q[j] = items[a] /\ q[k] = items[n + 1]
          BY <2>2, <3>2, <4>1, <4>3, <5>1
        <5> QED
          BY <2>3, <5>2
      <4> QED
        BY <4>1, <4>2, <4>3
    <3> QED
      BY <2>1, <3>3, <3>4 DEF P, q
  <2>7. CASE n + 1 \notin I
    <3>1. g[n + 1] = g[n]
      BY <2>4, <2>7
    <3>2. One(n + 1)
      BY <2>2, <2>5, <3>1
    <3>3. Two(n + 1)
      <4> SUFFICES ASSUME NEW j \in DOMAIN g[n], NEW k \in DOMAIN g[n], j < k
                   PROVE  \E a, b \in 1..n + 1 : a < b /\ g[n][j] = items[a] /\ g[n][k] = items[b]
        BY <3>1
      <4> QED
        BY <2>2, <2>5
    <3> QED
      BY <2>1, <3>2, <3>3 DEF P
  <2> QED
    BY <2>6, <2>7
<1>5. P \in SUBSET (0..N)
  OBVIOUS
<1> HIDE DEF P
<1>6. P = 0..N
  BY <1>2, <1>3, <1>4, <1>5, BoundedInduction
<1>7. N \in P
  BY <1>2, <1>6
<1>8. One(N) /\ Two(N)
  BY <1>7 DEF P
<1> DEFINE D == DOMAIN items
<1>9. D = 1..N
  BY <1>2
<1>10. /\ \A j \in DOMAIN g[N] : \E a \in D : g[N][j] = items[a]
       /\ \A j, k \in DOMAIN g[N] : j < k =>
            \E a, b \in D : a < b /\ g[N][j] = items[a] /\ g[N][k] = items[b]
  <2> HIDE DEF D
  <2> QED
    BY <1>8, <1>9
<1>11. Picked(items, I) = g[N]
  BY <1>2
<1> HIDE DEF N, One, Two
<1> QED
  BY <1>10, <1>11 DEF Ascends

LEMMA CappedAscends ==
  ASSUME NEW T, NEW items \in Seq(T)
  PROVE  Ascends(items, Capped(items))
<1>1. Len(items) \in Nat /\ MaxEntries \in Nat
  BY TtlStoreAssumption
<1>2. CASE Len(items) <= MaxEntries
  BY <1>2 DEF Capped, Ascends
<1>3. CASE ~(Len(items) <= MaxEntries)
  <2> DEFINE off == Len(items) - MaxEntries
             q == SubSeq(items, off + 1, Len(items))
  <2>1. off \in Nat /\ Len(items) = off + MaxEntries
    BY <1>1, <1>3
  <2>2. DOMAIN q = 1..MaxEntries /\ \A j \in 1..MaxEntries : q[j] = items[off + j]
    BY <1>1, <2>1
  <2>3. \A j \in 1..MaxEntries : off + j \in DOMAIN items
    BY <1>1, <2>1
  <2>4. \A j, k \in 1..MaxEntries : j < k => off + j < off + k
    BY <1>1, <2>1
  <2>5. Capped(items) = q
    BY <1>3 DEF Capped
  <2> HIDE DEF q, off
  <2> QED
    BY <2>2, <2>3, <2>4, <2>5 DEF Ascends
<1> QED
  BY <1>2, <1>3

\* A get changes no order.
LEMMA AfterGetOrders ==
  ASSUME NEW T, NEW store \in Store(T), NEW key, NEW now
  PROVE  LET after == AfterGet(store, key, now).items
         IN /\ OneEntryPerKey(store.items) => OneEntryPerKey(after)
            /\ OldestFirst(store.items) => OldestFirst(after)
<1>1. store.items \in Seq(T)
  BY DEF Store
<1>2. Ascends(store.items, Without(store.items, key))
  BY <1>1, PickedAscends DEF Without
<1>3. AfterGet(store, key, now).items \in {store.items, Without(store.items, key)}
  BY DEF AfterGet, Store
<1> QED
  BY <1>2, <1>3, AscendingOrders

\* Every entry after a put is the one put, or was there before.  A put keeps one
\* entry per key, and the oldest first unless it puts an older one.
LEMMA AfterPutOrders ==
  ASSUME NEW T, NEW store \in Store(T), NEW key, NEW value, NEW ttl, NEW now,
         NEW entry \in T, entry = [key |-> key, value |-> value, expires |-> now + ttl]
  PROVE  LET after == AfterPut(store, key, value, ttl, now).items
         IN /\ \A j \in DOMAIN after : after[j] = entry \/ \E a \in DOMAIN store.items : after[j] = store.items[a]
            /\ OneEntryPerKey(store.items) => OneEntryPerKey(after)
            /\ OldestFirst(store.items) /\ (\A a \in DOMAIN store.items : store.items[a].expires <= entry.expires)
                 => OldestFirst(after)
<1> DEFINE swept == IF Sweeps(store) THEN Unexpired(store.items, now) ELSE store.items
           rest == Without(swept, key)
           long == Append(rest, entry)
           after == AfterPut(store, key, value, ttl, now).items
<1>1. store.items \in Seq(T) /\ entry.key = key
  BY DEF Store
<1>2. after = Capped(long)
  BY DEF AfterPut
<1>3. swept \in Seq(T) /\ Ascends(store.items, swept)
  <2>1. Unexpired(store.items, now) \in Seq(T) /\ Ascends(store.items, Unexpired(store.items, now))
    BY <1>1, PickedType, PickedAscends DEF Unexpired
  <2>2. Ascends(store.items, store.items)
    BY DEF Ascends
  <2> QED
    BY <1>1, <2>1, <2>2
<1> HIDE DEF swept
<1>4. /\ rest \in Seq(T) /\ Ascends(swept, rest)
      /\ \A j \in DOMAIN rest : rest[j].key # key
  <2> DEFINE I == {i \in DOMAIN swept : swept[i].key # key}
  <2>1. rest = Picked(swept, I) /\ \A i \in I : swept[i].key # key
    BY DEF Without
  <2> HIDE DEF I, rest
  <2> QED
    BY <1>3, <2>1, PickedType, PickedAscends, PickedItems
<1> HIDE DEF rest, after
<1>5. /\ Len(rest) \in Nat /\ DOMAIN rest = 1..Len(rest) /\ DOMAIN long = 1..Len(rest) + 1
      /\ long[Len(rest) + 1] = entry /\ \A j \in 1..Len(rest) : long[j] = rest[j]
      /\ long \in Seq(T)
  BY <1>4
<1> HIDE DEF long
<1>6. Ascends(long, after)
  BY <1>2, <1>5, CappedAscends
<1>7. \A j \in DOMAIN rest : \E a \in DOMAIN store.items : rest[j] = store.items[a]
  BY <1>3, <1>4 DEF Ascends
<1>8. ASSUME NEW j \in DOMAIN after
      PROVE  after[j] = entry \/ \E a \in DOMAIN store.items : after[j] = store.items[a]
  <2>1. PICK k \in DOMAIN long : after[j] = long[k]
    BY <1>6 DEF Ascends
  <2>2. k \in DOMAIN rest \/ k = Len(rest) + 1
    BY <1>5
  <2> QED
    BY <1>5, <1>7, <2>1, <2>2
<1>9. ASSUME OneEntryPerKey(store.items)
      PROVE  OneEntryPerKey(after)
  <2>1. OneEntryPerKey(rest)
    BY <1>3, <1>4, <1>9, AscendingOrders
  <2>2. OneEntryPerKey(long)
    <3> SUFFICES ASSUME NEW i \in DOMAIN long, NEW j \in DOMAIN long, i < j
                 PROVE  long[i].key # long[j].key
      BY DEF OneEntryPerKey
    <3>1. i \in 1..Len(rest) /\ (j \in 1..Len(rest) \/ j = Len(rest) + 1)
      BY <1>5
    <3> QED
      BY <1>1, <1>4, <1>5, <2>1, <3>1 DEF OneEntryPerKey
  <2> QED
    BY <1>6, <2>2, AscendingOrders
<1>10. ASSUME OldestFirst(store.items), \A a \in DOMAIN store.items : store.items[a].expires <= entry.expires
       PROVE  OldestFirst(after)
  <2>1. OldestFirst(rest)
    BY <1>3, <1>4, <1>10, AscendingOrders
  <2>2. \A j \in DOMAIN rest : rest[j].expires <= entry.expires
    BY <1>7, <1>10
  <2>3. OldestFirst(long)
    <3> SUFFICES ASSUME NEW i \in DOMAIN long, NEW j \in DOMAIN long, i < j
                 PROVE  long[i].expires <= long[j].expires
      BY DEF OldestFirst
    <3>1. i \in 1..Len(rest) /\ (j \in 1..Len(rest) \/ j = Len(rest) + 1)
      BY <1>5
    <3> QED
      BY <1>5, <2>1, <2>2, <3>1 DEF OldestFirst
  <2> QED
    BY <1>6, <2>3, AscendingOrders
<1> QED
  BY <1>8, <1>9, <1>10 DEF after

\* A put ends with its entry.
LEMMA AfterPutEnds ==
  ASSUME NEW T, NEW store \in Store(T), NEW key, NEW value, NEW ttl, NEW now,
         NEW entry \in T, entry = [key |-> key, value |-> value, expires |-> now + ttl]
  PROVE  LET after == AfterPut(store, key, value, ttl, now).items
         IN Len(after) \in DOMAIN after /\ after[Len(after)] = entry
<1> DEFINE swept == IF Sweeps(store) THEN Unexpired(store.items, now) ELSE store.items
           rest == Without(swept, key)
           long == Append(rest, entry)
           after == AfterPut(store, key, value, ttl, now).items
<1>1. after = Capped(long)
  BY DEF AfterPut
<1>2. rest \in Seq(T)
  <2>1. swept \in Seq(T)
    BY PickedType DEF Unexpired, Store
  <2> QED
    BY <2>1, PickedType DEF Without
<1> HIDE DEF rest, after
<1>3. long \in Seq(T) /\ Len(long) \in Nat \ {0} /\ long[Len(long)] = entry /\ DOMAIN long = 1..Len(long)
  BY <1>2
<1> HIDE DEF long
<1>4. MaxEntries \in Nat \ {0}
  BY TtlStoreAssumption
<1>5. CASE Len(long) <= MaxEntries
  BY <1>1, <1>3, <1>5 DEF Capped, after
<1>6. CASE ~(Len(long) <= MaxEntries)
  <2> DEFINE off == Len(long) - MaxEntries
             q == SubSeq(long, off + 1, Len(long))
  <2>1. off \in Nat /\ Len(long) = off + MaxEntries
    BY <1>3, <1>4, <1>6
  <2>2. Len(q) = MaxEntries /\ DOMAIN q = 1..MaxEntries /\ \A j \in 1..MaxEntries : q[j] = long[off + j]
    BY <1>3, <1>4, <2>1
  <2>3. MaxEntries \in 1..MaxEntries /\ after = q
    BY <1>1, <1>4, <1>6 DEF Capped
  <2>4. q[MaxEntries] = long[Len(long)]
    BY <2>1, <2>2, <2>3
  <2> HIDE DEF q, off
  <2> QED
    BY <1>3, <2>2, <2>3, <2>4 DEF after
<1> QED
  BY <1>5, <1>6

\* The entry i of a store, displaced by a put, made room in items for as many
\* entries as the store may hold, of other keys, and no older if the oldest went first.
Displaced(store, i, entry, items) ==
  /\ Len(items) = MaxEntries
  /\ \A j \in DOMAIN items : items[j].key # store.items[i].key
  /\ OldestFirst(store.items) =>
       \A j \in DOMAIN items : items[j] = entry \/ store.items[i].expires <= items[j].expires

\* A put keeps a live entry of another key, or displaces it for a full store.
LEMMA AfterPutDisplaces ==
  ASSUME NEW T, NEW store \in Store(T), NEW key, NEW value, NEW ttl, NEW now,
         NEW entry \in T, entry = [key |-> key, value |-> value, expires |-> now + ttl],
         Len(store.items) <= MaxEntries, OneEntryPerKey(store.items),
         NEW i \in DOMAIN store.items, now < store.items[i].expires, store.items[i].key # key,
         NEW after, after = AfterPut(store, key, value, ttl, now).items
  PROVE  (\E j \in DOMAIN after : after[j] = store.items[i]) \/ Displaced(store, i, entry, after)
<1> SUFFICES ASSUME ~ \E j \in DOMAIN after : after[j] = store.items[i]
             PROVE  /\ Len(after) = MaxEntries
                    /\ \A j \in DOMAIN after : after[j].key # store.items[i].key
                    /\ OldestFirst(store.items) =>
                         \A j \in DOMAIN after : after[j] = entry \/ store.items[i].expires <= after[j].expires
  BY DEF Displaced
<1>1. i = 1 /\ Len(after) = MaxEntries
  BY AfterPutKeeps
<1>2. ASSUME NEW j \in DOMAIN after
      PROVE  \/ after[j] = entry
             \/ \E a \in DOMAIN store.items : after[j] = store.items[a] /\ i < a
  <2>1. after[j] = entry \/ \E a \in DOMAIN store.items : after[j] = store.items[a]
    BY AfterPutOrders
  <2>2. CASE after[j] # entry
    <3>1. PICK a \in DOMAIN store.items : after[j] = store.items[a]
      BY <2>1, <2>2
    <3>2. a # i /\ a \in Nat \ {0}
      BY <3>1 DEF Store
    <3> QED
      BY <1>1, <3>1, <3>2
  <2> QED
    BY <2>2
<1> QED
  BY <1>1, <1>2 DEF OneEntryPerKey, OldestFirst
=============================================================================
