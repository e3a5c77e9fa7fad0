----------------------------- MODULE MCChunker ------------------------------
(***************************************************************************)
(* All texts of up to MaxLen characters, with every chunk size and overlap *)
(* from 1 and 0 to MaxSize (an overlap may exceed the size).               *)
(***************************************************************************)
EXTENDS Chunker

CONSTANTS MaxLen, MaxSize

MCTexts == UNION {[1..n -> Class] : n \in 0..MaxLen}
MCSizes == 1..MaxSize
MCOverlaps == 0..MaxSize
=============================================================================
