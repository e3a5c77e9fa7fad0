----------------------------- MODULE MCCollection -----------------------------
(***************************************************************************)
(* A small instance of Collection for TLC: a site with one page its rules  *)
(* keep robots from and one site without rules, a feed that is longer than *)
(* the number of entries looked at and has an entry without a link.        *)
(***************************************************************************)
EXTENDS Collection, TLC

CONSTANTS kept, other, wire, press

MCSiteOf == (kept :> wire) @@ (other :> press)
MCFeeds == {<<NoLink, kept, other, kept>>}

Symmetry == Permutations(Processes)
=============================================================================
