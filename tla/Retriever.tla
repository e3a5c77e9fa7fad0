------------------------------ MODULE Retriever -------------------------------
(***************************************************************************)
(* hybrid_search (packages/rag/retriever.py).  Two SELECTs, each on what   *)
(* is committed when it begins, rank the chunks by the similarity of their *)
(* embeddings and by the words they share with the query; the rows are     *)
(* merged and ranked by a weighted sum.                                    *)
(*                                                                         *)
(* A similarity is a number of Units (Unit is 1), possibly negative, and   *)
(* a full-text rank a natural number, 0 when the words do not match.       *)
(***************************************************************************)
EXTENDS Integers, FiniteSets, FiniteSetsExt

CONSTANT Unit

\* ORDER BY score DESC LIMIT n, ties in any order: the possible sets of rows.
Best(rows, score, n) ==
  {S \in kSubset(Min({n, Cardinality(rows)}), rows) :
     \A x \in S, y \in rows \ S : score[x] >= score[y]}

\* The rows of the two SELECTs: earlier and later are the chunks committed at
\* each, words their ranks by words.  The first is ordered by distance and cut
\* off at 2 * top_k, but an HNSW index answers it, whose search is approximate:
\* it may pass over the nearest chunks and return fewer than the limit, so any
\* rows are taken to come back.  The second ranks every row that matches.
VectorRows(earlier, topK) == {V \in SUBSET earlier : Cardinality(V) <= 2 * topK}
WordRows(later, words, topK) ==
  Best({c \in later : words[c] > 0}, words, 2 * topK)

\* Mutated form: a chunk that both found keeps its entry of the first.
VectorEntriesKept(V, W, vec, words) ==
  [c \in V \cup W |->
     [vec |-> IF c \in V THEN vec[c] ELSE 0, words |-> IF c \in V THEN 0 ELSE words[c]]]

\* The dictionary of scores, by chunk: what one SELECT did not return is 0.
Merged(V, W, vec, words) ==
  [c \in V \cup W |->
     [vec |-> IF c \in V THEN vec[c] ELSE 0, words |-> IF c \in W THEN words[c] ELSE 0]]

\* max(..., default=1.0) or 1.0
MaxWords(scores) ==
  LET top == Max({0} \cup {scores[c].words : c \in DOMAIN scores})
  IN  IF top = 0 THEN 1 ELSE top

\* 0.7 * vec + 0.3 * words / max, times 10 * Unit * max
Combined(scores) ==
  [c \in DOMAIN scores |->
     7 * scores[c].vec * MaxWords(scores) + 3 * scores[c].words * Unit]

\* The chunks returned when the first SELECT returned V, for any order of ties.
HybridSearch(V, later, vec, words, topK) ==
  UNION {Best(V \cup W, Combined(Merged(V, W, vec, words)), topK) :
           W \in WordRows(later, words, topK)}
=============================================================================
