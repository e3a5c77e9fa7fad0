--------------------------- MODULE MCInboundMail ----------------------------
(***************************************************************************)
(* A small instance of InboundMail for TLC: a trade, a question and a      *)
(* message from a stranger.  No symmetry: liveness is checked as well.     *)
(***************************************************************************)
EXTENDS InboundMail
=============================================================================
