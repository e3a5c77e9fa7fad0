------------------------------ MODULE Selection ------------------------------
(***************************************************************************)
(* The comprehension [x for x in s if x in S] and its kind, as a recursive *)
(* function: what SelectSeq computes, with a definition proofs can use.    *)
(***************************************************************************)
EXTENDS Naturals, Sequences

\* The elements of S among the first n of s, for each n.
SelectedOfFirst(s, S) ==
  LET selected[n \in 0..Len(s)] ==
        IF n = 0 THEN <<>>
        ELSE IF s[n] \in S THEN Append(selected[n - 1], s[n]) ELSE selected[n - 1]
  IN  selected

\* The elements of s that are in S, in their order.
Selected(s, S) == SelectedOfFirst(s, S)[Len(s)]
=============================================================================
