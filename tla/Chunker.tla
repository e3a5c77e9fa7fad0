------------------------------ MODULE Chunker -------------------------------
(***************************************************************************)
(* chunk_text (packages/rag/chunker.py): the loop that cuts the text of an *)
(* article into overlapping chunks, one action per iteration.              *)
(*                                                                         *)
(* A character matters only through its class: the plain space, for which  *)
(* rfind looks; other white space, which isspace and strip also recognise; *)
(* and the rest.  Positions count from 0, as in the source.                *)
(***************************************************************************)
EXTENDS Integers, Sequences, FiniteSets

CONSTANTS
  Texts,        \* texts that may be cut, as sequences of character classes
  Sizes,        \* values of chunk_size
  Overlaps      \* values of overlap

Class == {"space", "other space", "char"}

ASSUME ChunkerAssumption ==
  /\ Texts \subseteq Seq(Class)
  /\ Sizes \subseteq Nat \ {0}
  /\ Overlaps \subseteq Nat

VARIABLES
  text, chunk_size, overlap,     \* the arguments
  start,                         \* where the next chunk starts
  chunks,                        \* the chunks so far
  done                           \* the function has returned

args == <<text, chunk_size, overlap>>
vars == <<args, start, chunks, done>>

-----------------------------------------------------------------------------

At(i) == text[i + 1]

IsSpace(i) == At(i) # "char"

\* text[first:last].strip() is not empty
HasText(first, last) == \E i \in first..last - 1 : ~IsSpace(i)

\* if not text.strip(): return []
Init ==
  /\ text \in Texts /\ chunk_size \in Sizes /\ overlap \in Overlaps
  /\ start = 0
  /\ chunks = <<>>
  /\ done = ~HasText(0, Len(text))

\* min(start + chunk_size, len(text))
FullEnd == IF start + chunk_size < Len(text) THEN start + chunk_size ELSE Len(text)

\* Positions after start at which rfind(" ", start, end) may find a space.
Spaces == {i \in start + 1..FullEnd - 1 : At(i) = "space"}

\* e is where the chunk ends: moved back to the last space, unless there is
\* none or the full chunk ends before white space already.
EndsAt(e) ==
  IF FullEnd < Len(text) /\ ~IsSpace(FullEnd) /\ Spaces # {}
    THEN e \in Spaces /\ \A i \in Spaces : i <= e
    ELSE e = FullEnd

\* Mutated form: without the guard against an infinite loop.
NextStartUnguarded(e) == e - overlap

\* Mutated form: the guard lets the loop stay where it is.
NextStartStays(e) == IF e - overlap < start THEN start + 1 ELSE e - overlap

\* Mutated form: the guard steps over one character too many.
NextStartFar(e) == IF e - overlap <= start THEN start + 2 ELSE e - overlap

\* end - overlap, or start + 1 where that is no progress
NextStart(e) == IF e - overlap <= start THEN start + 1 ELSE e - overlap

Chunk(index, first, last) ==
  [chunk_index |-> index, start_char |-> first, end_char |-> last]

\* Mutated form: the index is the position, blank chunks included.
AddChunkAtPosition(e) ==
  chunks' = IF HasText(start, e)
              THEN Append(chunks, Chunk(start, start, e))
              ELSE chunks

\* A chunk that is empty after strip() is dropped and takes no index.
AddChunk(e) ==
  chunks' = IF HasText(start, e)
              THEN Append(chunks, Chunk(Len(chunks), start, e))
              ELSE chunks

\* One iteration of while start < len(text); the loop is left by its break.
Iterate ==
  /\ ~done /\ start < Len(text)
  /\ \E e \in start..Len(text) :
       /\ EndsAt(e)
       /\ AddChunk(e)
       /\ start' = NextStart(e)
       /\ done' = (e >= Len(text))
  /\ UNCHANGED args

Spec == Init /\ [][Iterate]_vars

\* The function is called and runs to its end.
FairSpec == Spec /\ WF_vars(Iterate)

-----------------------------------------------------------------------------

TextChunk == [chunk_index : Nat, start_char : Nat, end_char : Nat]

TypeOK ==
  /\ text \in Texts /\ chunk_size \in Sizes /\ overlap \in Overlaps
  /\ start \in Nat
  /\ chunks \in Seq(TextChunk)
  /\ done \in BOOLEAN

Covers(c, i) == c.start_char <= i /\ i < c.end_char

\* Where every character before must be in a chunk by now.
Reached == IF done THEN Len(text) ELSE start

\* No character of the article is lost to retrieval: what the loop has gone
\* past and is not white space is in a chunk, whatever the overlap, also
\* where an end is moved back or a start pushed forward.  When the function
\* returns, this is the whole text; so an article with text gets a chunk, and
\* index_unembedded_articles does not select it for ever.
NothingLost ==
  \A i \in 0..Reached - 1 :
    i < Len(text) /\ ~IsSpace(i) => \E k \in DOMAIN chunks : Covers(chunks[k], i)

\* The indexes are 0, 1, 2, ..., which the unique constraint on (article_id,
\* chunk_index) relies on; chunks are at most chunk_size long, lie within the
\* text, have text, and start further and further to the right.
WellFormed ==
  \A k \in DOMAIN chunks :
    LET c == chunks[k]
    IN  /\ c.chunk_index = k - 1
        /\ c.start_char < c.end_char
        /\ c.end_char <= c.start_char + chunk_size
        /\ c.end_char <= Len(text)
        /\ HasText(c.start_char, c.end_char)
        /\ \A j \in 1..k - 1 : chunks[j].start_char < c.start_char

\* The function returns, although the end of a chunk may move back further
\* than the overlap ("prevent infinite loop").
Returns == <>done

\* The variant behind it, and a bound on the rows an article can get: there
\* are no more chunks than characters gone past, and while the loop goes on
\* there is a character to go past (the loop condition never fails).
Progress == Len(chunks) <= Reached /\ (~done => start < Len(text))
=============================================================================
