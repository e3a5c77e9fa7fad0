---------------------------- MODULE MCIngestion -----------------------------
(***************************************************************************)
(* Small instances of Ingestion for TLC.                                   *)
(***************************************************************************)
EXTENDS Ingestion, TLC

CONSTANTS u1, u1utm, u2, u3, x1, x2, x3, h1, h2

MCUrls == {u1, u1utm, u2, u3}
MCCanonicalUrl == (u1 :> u1) @@ (u1utm :> u1) @@ (u2 :> u2) @@ (u3 :> u3)

MCTexts == {x1, x2, x3, "blank"}
MCContentHash == (x1 :> x1) @@ (x2 :> x2) @@ (x3 :> x3) @@ ("blank" :> "blank")
MCBlank == {"blank"}

Item(u, x, h) == [url |-> u, text |-> x, html |-> h]

\* One story at two addresses (u1 and u2), an edited copy of it under the
\* first address with a tracking parameter, and an empty extraction.
First == <<Item(u1, x1, h1), Item(u3, "blank", h2)>>
Second == <<Item(u2, x1, h2)>>
Edited == <<Item(u1utm, x2, NoHtml)>>
Third == <<Item(u3, x1, NoHtml)>>

\* Both sources may list the second and the edited one, in either order.
MCListings == <<{First, Second, Edited}, {Second, Edited, Third}>>

\* Two stories, each at one address; the first gets edited.
MCPlainListings ==
  <<{<<Item(u1, x1, h1)>>, Edited}, {<<Item(u2, x3, h2)>>}>>

\* One source, one story at three addresses.
MCSyndicatedListings == <<{<<Item(u1, x1, h1)>>, Second, Third}>>

Symmetry == Permutations(Workers) \cup Permutations(Msgs) \cup Permutations(Ids)
=============================================================================
