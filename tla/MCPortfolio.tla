----------------------------- MODULE MCPortfolio ------------------------------
(***************************************************************************)
(* A small instance of Portfolio for TLC: one mail session and one of the  *)
(* API, buys at two prices and without one, sales that may oversell, a     *)
(* note, a request for the position, a text that is no command at once,    *)
(* and prose.                                                              *)
(***************************************************************************)
EXTENDS Portfolio

TextLine(kind, quantity, price) ==
  [kind |-> kind, quantity |-> quantity, price |-> price,
   instrument |-> IF kind \in {"BUY", "SELL"} THEN "TICK" ELSE ""]

Prose == TextLine("PROSE", 0, NoPrice)

MCTexts ==
  {<<TextLine("BUY", 1, 1)>>,
   <<Prose, TextLine("BUY", 2, 3), TextLine("SELL", 2, 1)>>,
   <<TextLine("BUY", 1, NoPrice)>>,
   <<TextLine("SELL", 2, 1)>>,
   <<TextLine("NOTE", 0, NoPrice)>>,
   <<TextLine("POSITION", 0, NoPrice)>>,
   <<TextLine("HELP", 0, NoPrice)>>,
   <<Prose>>}
=============================================================================
