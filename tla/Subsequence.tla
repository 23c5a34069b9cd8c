----------------------------- MODULE Subsequence -----------------------------
(***************************************************************************)
(* The array method filter(), for a test that is membership in a set.  It   *)
(* is SelectSeq, written as a recursive function so that its properties can  *)
(* be derived from its definition.                                           *)
(***************************************************************************)
EXTENDS Naturals, Sequences

\* The n-th value is what filter() has kept of the first n elements.
KeptUpTo(s, S) ==
    LET kept[n \in 0..Len(s)] ==
          IF n = 0 THEN <<>>
          ELSE IF s[n] \in S THEN Append(kept[n - 1], s[n]) ELSE kept[n - 1]
    IN  kept

\* The elements of s that are in S, in their order.
Kept(s, S) == KeptUpTo(s, S)[Len(s)]

=============================================================================
