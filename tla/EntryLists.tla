------------------------------ MODULE EntryLists ------------------------------
(* The entries of a scope as Query lists them: commit order, one per id.  An    *)
(* upsert keeps the entry's place.                                              *)
EXTENDS Sequences, Integers

Holds(es, i) == \E p \in DOMAIN es : es[p].id = i

Upsert(es, i, v) ==
  IF Holds(es, i)
  THEN [p \in DOMAIN es |-> IF es[p].id = i THEN [id |-> i, val |-> v] ELSE es[p]]
  ELSE Append(es, [id |-> i, val |-> v])

\* The elements of s at the positions in T, in order.
Selected(s, T) ==
  LET taken[n \in 0..Len(s)] ==
        IF n = 0 THEN <<>> ELSE IF n \in T THEN Append(taken[n - 1], s[n]) ELSE taken[n - 1]
  IN taken[Len(s)]

Without(es, i) == Selected(es, {p \in DOMAIN es : es[p].id # i})
==============================================================================
