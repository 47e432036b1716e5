------------------------------- MODULE Lists --------------------------------
(* The lists and vectors of the library: elements are added at an end and      *)
(* taken out of the middle.  The definitions say element by element what the   *)
(* result is, which is the form that the proofs use.                           *)
EXTENDS Integers, Sequences

Elements(s) == {s[i] : i \in 1 .. Len(s)}

\* The elements behind the one at k move up by one.
Without(s, k) == [i \in 1 .. Len(s) - 1 |-> IF i < k THEN s[i] ELSE s[i + 1]]

\* The first occurrence of e is unlinked.
Unlinked(s, e) ==
  IF e \in Elements(s)
    THEN Without(s, CHOOSE k \in 1 .. Len(s) : s[k] = e /\ \A i \in 1 .. k - 1 : s[i] # e)
    ELSE s
=============================================================================
