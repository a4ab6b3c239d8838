-------------------------------- MODULE Lists --------------------------------
(***************************************************************************)
(* Array.prototype.filter, by the indices of the elements that stay or go  *)
(* (SelectSeq, by a recursive function that proofs can unfold), and        *)
(* Array.prototype.sort, by what comes before what.                        *)
(***************************************************************************)
EXTENDS Naturals, Sequences, FiniteSets

(* The elements of s whose indices are not in dropped, in their order.       *)
Without(s, dropped) ==
  LET kept[n \in 0..Len(s)] ==
        IF n = 0 THEN <<>>
        ELSE IF n \in dropped THEN kept[n - 1]
        ELSE Append(kept[n - 1], s[n])
  IN  kept[Len(s)]

(* The elements of s whose indices are in kept, in their order.              *)
Only(s, kept) == Without(s, DOMAIN s \ kept)

(* The positions 1..n in the order before: the k-th of them has k - 1 others *)
(* before it.                                                                *)
Sorted(n, before) ==
  LET earlier == [i \in 1..n |-> Cardinality({j \in 1..n : <<j, i>> \in before})]
  IN  [k \in 1..n |-> CHOOSE i \in 1..n : earlier[i] = k - 1]
============================================================================
