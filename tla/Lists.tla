------------------------------- MODULE Lists -------------------------------
(***************************************************************************)
(* Python's list comprehension with a condition, its sum and its sorted, as*)
(* recursive functions over the positions of a sequence.                   *)
(***************************************************************************)
EXTENDS Naturals, Sequences

\* The items at the positions in I, in their order.
Picked(items, I) ==
  LET picked[n \in 0..Len(items)] ==
        IF n = 0 THEN <<>>
        ELSE IF n \in I THEN Append(picked[n - 1], items[n]) ELSE picked[n - 1]
  IN picked[Len(items)]

\* The sum of numbers in a sequence.
Total(numbers) ==
  LET total[n \in 0..Len(numbers)] == IF n = 0 THEN 0 ELSE total[n - 1] + numbers[n]
  IN total[Len(numbers)]

Precedes(a, b) == a[1] < b[1] \/ (a[1] = b[1] /\ a[2] < b[2])

\* The items by their keys, which are pairs.  Each is put behind those that do
\* not come later, so that items with one key keep their order.
Sorted(items, key) ==
  LET order[n \in 0..Len(items)] ==
        IF n = 0 THEN <<>>
        ELSE LET before == order[n - 1]
                 later  == {i \in DOMAIN before : Precedes(key[n], key[before[i]])}
             IN Picked(before, DOMAIN before \ later) \o <<n>> \o Picked(before, later)
      positions == order[Len(items)]
  IN [i \in DOMAIN positions |-> items[positions[i]]]
=============================================================================
