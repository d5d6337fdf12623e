------------------------------ MODULE TtlStore ------------------------------
(***************************************************************************)
(* The in-memory store with expiry (session/ttl_store.py) behind the       *)
(* inspect cache and the replay store: an ordered dictionary whose entries *)
(* are swept once in a while and capped in number.                         *)
(***************************************************************************)
EXTENDS Naturals, Sequences, Lists

CONSTANTS SweepEvery,   \* puts between two sweeps
          MaxEntries    \* entries the store may hold

ASSUME TtlStoreAssumption ==
  /\ SweepEvery \in Nat \ {0}
  /\ MaxEntries \in Nat \ {0}

EmptyStore == [puts |-> 0, items |-> <<>>]

Without(items, key) == Picked(items, {i \in DOMAIN items : items[i].key # key})

UnexpiredAfterNext(items, now) == Picked(items, {i \in DOMAIN items : now + 1 < items[i].expires})

Unexpired(items, now) == Picked(items, {i \in DOMAIN items : now < items[i].expires})

LiveAtItsExpiry(store, key, now) ==
  {e \in {store.items[i] : i \in DOMAIN store.items} : e.key = key /\ now <= e.expires}

\* The live entries under a key: there is at most one.
Live(store, key, now) ==
  {e \in {store.items[i] : i \in DOMAIN store.items} : e.key = key /\ now < e.expires}

\* get drops the entry it was asked for when it has expired.
AfterGet(store, key, now) ==
  IF Live(store, key, now) = {} THEN [store EXCEPT !.items = Without(@, key)] ELSE store

\* The oldest entries go when there are too many.
Capped(items) ==
  IF Len(items) <= MaxEntries THEN items
  ELSE SubSeq(items, Len(items) - MaxEntries + 1, Len(items))

\* Which put sweeps: the counter is kept modulo the period.
Sweeps(store) == store.puts + 1 = SweepEvery

\* A put moves its key to the end.
AfterPut(store, key, value, ttl, now) ==
  LET swept == IF Sweeps(store) THEN Unexpired(store.items, now) ELSE store.items
  IN [puts  |-> IF Sweeps(store) THEN 0 ELSE store.puts + 1,
      items |-> Capped(Append(Without(swept, key),
                              [key |-> key, value |-> value, expires |-> now + ttl]))]
=============================================================================
