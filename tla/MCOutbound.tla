----------------------------- MODULE MCOutbound -----------------------------
(***************************************************************************)
(* A small instance of Outbound for TLC: two articles of high score, one   *)
(* of low score, and searches that find several chunks of one article.     *)
(***************************************************************************)
EXTENDS Outbound, TLC

CONSTANTS a1, a2, a3

MCHits == {<<>>, <<a1, a2>>, <<a2, a2, a3>>}

Symmetry == Permutations(Workers) \cup Permutations(Msgs \ Briefings)
              \cup Permutations(Ids)
=============================================================================
