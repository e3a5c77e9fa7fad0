---------------------------- MODULE ArticleStore ----------------------------
(***************************************************************************)
(* What the articles and chunks tables promise to the readers of the       *)
(* database (retriever, alert engine, briefing, API), whatever the number  *)
(* of ingestion workers, and whichever of them fail or die:                *)
(*                                                                         *)
(*   - a run's articles appear all at once or not at all;                  *)
(*   - no two articles have the same canonical URL, and the articles of    *)
(*     one batch have pairwise different content;                          *)
(*   - an article gets its chunks in one step, once, and only after it     *)
(*     has appeared itself;                                                *)
(*   - nothing is ever removed.                                            *)
(***************************************************************************)
EXTENDS Naturals

CONSTANT Rows            \* the possible rows of the articles table

VARIABLES
  table,                 \* committed articles
  indexed                \* ids of the articles whose chunks are committed

storeVars == <<table, indexed>>

IdsOf(S) == {a.id : a \in S}

Distinct(S, field) ==
  \A a, b \in S : a[field] = b[field] => a = b

Init == table = {} /\ indexed = {}

AddBatch ==
  LET new == table' \ table
  IN  /\ table \subseteq table'
      /\ new \subseteq Rows
      /\ Distinct(table', "id")
      /\ Distinct(table', "url")
      /\ Distinct(new, "hash")
      /\ UNCHANGED indexed

IndexBatch ==
  /\ indexed \subseteq indexed'
  /\ indexed' \subseteq IdsOf(table)
  /\ UNCHANGED table

Next == AddBatch \/ IndexBatch

Spec == Init /\ [][Next]_storeVars
=============================================================================
