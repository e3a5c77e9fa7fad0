--------------------------- MODULE ChunkerProofs ----------------------------
(***************************************************************************)
(* Proofs about chunk_text, for every text, chunk_size and overlap.        *)
(*                                                                         *)
(*   TypeCorrect       Spec => []TypeOK                                    *)
(*   LoopProgresses    Spec => []Progress                                  *)
(*   TextIsCovered     Spec => []NothingLost                               *)
(*   ChunksWellFormed  Spec => []WellFormed                                *)
(*                                                                         *)
(* All rest on one fact about an iteration: the next start lies strictly   *)
(* after this one and not after the end of the chunk.                      *)
(***************************************************************************)
EXTENDS Chunker, SequenceTheorems, TLAPS

\* The end of a chunk lies after its start, within the text, and no further
\* than chunk_size; the next start lies between the two.
LEMMA Bounds ==
  ASSUME TypeOK, start < Len(text), NEW e \in start..Len(text), EndsAt(e)
  PROVE  /\ e \in Nat /\ NextStart(e) \in Nat /\ Len(text) \in Nat
         /\ start < e /\ e <= Len(text) /\ e <= start + chunk_size
         /\ start < NextStart(e) /\ NextStart(e) <= e
<1>1. /\ text \in Seq(Class) /\ chunk_size \in Nat \ {0} /\ overlap \in Nat
      /\ start \in Nat /\ Len(text) \in Nat
  BY ChunkerAssumption, LenProperties DEF TypeOK
<1>2. start < FullEnd /\ FullEnd <= Len(text) /\ FullEnd <= start + chunk_size
  BY <1>1 DEF FullEnd
<1>3. start < e /\ e <= FullEnd
  <2>1. FullEnd \in Nat
    BY <1>1 DEF FullEnd
  <2>2. CASE e \in Spaces
    BY <1>1, <2>1, <2>2 DEF Spaces
  <2>3. CASE e = FullEnd
    BY <1>2, <2>3
  <2> QED BY <2>2, <2>3 DEF EndsAt
<1>4. e \in Nat /\ FullEnd \in Nat
  BY <1>1 DEF FullEnd
<1> QED BY <1>1, <1>2, <1>3, <1>4 DEF NextStart

\* What an iteration does to the chunks: it appends one that starts at start
\* and ends at e, or leaves them alone because there is no text in between.
LEMMA Appended ==
  ASSUME TypeOK, NEW e \in Nat, AddChunk(e)
  PROVE  /\ chunks' \in Seq(TextChunk)
         /\ Len(chunks) \in Nat
         /\ \A k \in DOMAIN chunks : k \in DOMAIN chunks' /\ chunks'[k] = chunks[k]
         /\ HasText(start, e) =>
              /\ Len(chunks') = Len(chunks) + 1
              /\ Len(chunks') \in DOMAIN chunks'
              /\ chunks'[Len(chunks')] = Chunk(Len(chunks), start, e)
              /\ \A k \in DOMAIN chunks' : k \in DOMAIN chunks \/ k = Len(chunks')
         /\ ~HasText(start, e) => chunks' = chunks
<1>1. chunks \in Seq(TextChunk) /\ start \in Nat /\ Len(chunks) \in Nat
      /\ DOMAIN chunks = 1..Len(chunks)
  BY LenProperties DEF TypeOK
<1>2. Chunk(Len(chunks), start, e) \in TextChunk
  BY <1>1 DEF Chunk, TextChunk
<1>3. CASE HasText(start, e)
  <2>1. chunks' = Append(chunks, Chunk(Len(chunks), start, e))
    BY <1>3 DEF AddChunk
  <2>2. /\ chunks' \in Seq(TextChunk)
        /\ Len(chunks') = Len(chunks) + 1
        /\ DOMAIN chunks' = 1..Len(chunks) + 1
        /\ \A k \in 1..Len(chunks) : chunks'[k] = chunks[k]
        /\ chunks'[Len(chunks) + 1] = Chunk(Len(chunks), start, e)
    BY <1>1, <1>2, <2>1, AppendProperties
  <2> QED BY <1>1, <1>3, <2>2
<1>4. CASE ~HasText(start, e)
  BY <1>1, <1>4 DEF AddChunk
<1> QED BY <1>3, <1>4

-----------------------------------------------------------------------------
(* The invariant *)

\* The chunks so far start before the next one.
Behind == \A k \in DOMAIN chunks : chunks[k].start_char < start

IInv == TypeOK /\ Progress /\ Behind /\ NothingLost /\ WellFormed

\* The invariant holds when the function is called.
LEMMA Initially == Init => IInv
<1> SUFFICES ASSUME Init PROVE IInv
  OBVIOUS
<1>1. /\ text \in Seq(Class) /\ Len(text) \in Nat
      /\ start = 0 /\ chunks = <<>> /\ done = ~HasText(0, Len(text))
  BY ChunkerAssumption, LenProperties DEF Init
<1>2. chunks \in Seq(TextChunk) /\ DOMAIN chunks = {} /\ Len(chunks) = 0
  BY <1>1, EmptySeq
<1>3. TypeOK
  BY <1>1, <1>2 DEF Init, TypeOK
<1>4. Progress
  <2>1. CASE HasText(0, Len(text))
    <3>1. ~done /\ Reached = 0
      BY <1>1, <2>1 DEF Reached
    <3>2. 0 < Len(text)
      BY <1>1, <2>1 DEF HasText
    <3> QED BY <1>1, <1>2, <3>1, <3>2 DEF Progress
  <2>2. CASE ~HasText(0, Len(text))
    <3>1. done /\ Reached = Len(text)
      BY <1>1, <2>2 DEF Reached
    <3> QED BY <1>1, <1>2, <3>1 DEF Progress
  <2> QED BY <2>1, <2>2
<1>5. Behind /\ WellFormed
  BY <1>2 DEF Behind, WellFormed
<1>6. NothingLost
  <2>1. CASE HasText(0, Len(text))
    <3>1. Reached = 0
      BY <1>1, <2>1 DEF Reached
    <3> QED BY <3>1 DEF NothingLost
  <2>2. CASE ~HasText(0, Len(text))
    <3>1. Reached = Len(text)
      BY <1>1, <2>2 DEF Reached
    <3> QED BY <1>1, <2>2, <3>1 DEF NothingLost, HasText
  <2> QED BY <2>1, <2>2
<1> QED BY <1>3, <1>4, <1>5, <1>6 DEF IInv

\* An iteration preserves it.
LEMMA Preserved == IInv /\ [Iterate]_vars => IInv'
<1> SUFFICES ASSUME IInv, [Iterate]_vars PROVE IInv'
  OBVIOUS
<1>1. CASE UNCHANGED vars
  BY <1>1 DEF vars, args, IInv, TypeOK, Progress, Behind, NothingLost, WellFormed,
              Reached, IsSpace, At, HasText, Covers
<1>2. CASE Iterate
  <2> USE DEF IInv
  <2>1. PICK e \in start..Len(text) :
          /\ ~done /\ start < Len(text)
          /\ EndsAt(e) /\ AddChunk(e)
          /\ start' = NextStart(e)
          /\ done' = (e >= Len(text))
          /\ UNCHANGED args
    BY <1>2 DEF Iterate
  <2>2. /\ e \in Nat /\ start' \in Nat /\ Len(text) \in Nat /\ start \in Nat
        /\ chunk_size \in Nat
        /\ start < e /\ e <= Len(text) /\ e <= start + chunk_size
        /\ start < start' /\ start' <= e
    BY <2>1, Bounds, ChunkerAssumption DEF TypeOK
  <2>3. text' = text /\ chunk_size' = chunk_size /\ overlap' = overlap
    BY <2>1 DEF args
  <2>4. /\ chunks' \in Seq(TextChunk)
        /\ Len(chunks) \in Nat
        /\ \A k \in DOMAIN chunks : k \in DOMAIN chunks' /\ chunks'[k] = chunks[k]
        /\ HasText(start, e) =>
             /\ Len(chunks') = Len(chunks) + 1
             /\ Len(chunks') \in DOMAIN chunks'
             /\ chunks'[Len(chunks')] = Chunk(Len(chunks), start, e)
             /\ \A k \in DOMAIN chunks' : k \in DOMAIN chunks \/ k = Len(chunks')
        /\ ~HasText(start, e) => chunks' = chunks
    BY <2>1, <2>2, Appended
  <2>0. /\ done' => e = Len(text) /\ Reached' = Len(text)
        /\ ~done' => e < Len(text) /\ Reached' = start'
        /\ done' \in BOOLEAN
    <3>1. CASE e >= Len(text)
      <4>1. done' = TRUE
        BY <2>1, <3>1, Zenon
      <4> QED BY <2>2, <2>3, <3>1, <4>1 DEF Reached
    <3>2. CASE ~(e >= Len(text))
      <4>1. (e >= Len(text)) = FALSE
        BY <2>2, <3>2
      <4>2. done' = FALSE
        BY <2>1, <4>1, Zenon
      <4>3. Reached' = start'
        BY <4>2 DEF Reached
      <4>4. e < Len(text)
        BY <2>2, <3>2
      <4> QED BY <4>2, <4>3, <4>4, Zenon
    <3> QED BY <3>1, <3>2
  <2>5. TypeOK'
    BY <2>1, <2>2, <2>3, <2>4 DEF TypeOK
  <2>6. Progress'
    <3>1. Len(chunks) <= start
      BY <2>1 DEF Progress, Reached
    <3>2. Len(chunks') <= Len(chunks) + 1
      BY <2>4
    <3>3. Len(chunks') \in Nat
      BY <2>4, LenProperties
    <3>4. Len(chunks') <= Reached'
      BY <2>2, <2>4, <2>0, <3>1, <3>2, <3>3
    <3>5. ~done' => start' < Len(text')
      BY <2>2, <2>3, <2>0
    <3> QED BY <3>4, <3>5 DEF Progress
  <2>7. Behind'
    <3> SUFFICES ASSUME NEW k \in DOMAIN chunks'
                 PROVE  chunks'[k].start_char < start'
      BY DEF Behind
    <3>1. CASE k \in DOMAIN chunks
      <4>1. chunks[k] \in TextChunk
        BY <3>1, ElementOfSeq DEF TypeOK
      <4>2. chunks[k].start_char < start /\ chunks[k].start_char \in Nat
        BY <3>1, <4>1 DEF Behind, TextChunk
      <4> QED BY <2>2, <2>4, <3>1, <4>2
    <3>2. CASE k = Len(chunks') /\ HasText(start, e)
      BY <2>2, <2>4, <3>2 DEF Chunk
    <3> QED BY <2>4, <3>1, <3>2
  <2>8. NothingLost'
    <3> SUFFICES ASSUME NEW i \in 0..Reached' - 1, i < Len(text), ~IsSpace(i)
                 PROVE  \E k \in DOMAIN chunks' : Covers(chunks'[k], i)
      BY <2>3 DEF NothingLost, IsSpace, At
    <3>1. CASE i < start
      <4>1. i \in 0..Reached - 1
        BY <2>1, <2>2, <2>3, <3>1 DEF Reached
      <4>2. PICK k \in DOMAIN chunks : Covers(chunks[k], i)
        BY <4>1 DEF NothingLost
      <4> QED BY <2>4, <4>2
    <3>2. CASE ~(i < start)
      <4>1. i \in start..e - 1
        BY <2>2, <2>0, <3>2
      <4>2. HasText(start, e)
        BY <4>1 DEF HasText
      <4>3. Covers(chunks'[Len(chunks')], i)
        BY <2>2, <2>4, <4>1, <4>2 DEF Covers, Chunk
      <4> QED BY <2>4, <4>2, <4>3
    <3> QED BY <3>1, <3>2
  <2>9. WellFormed'
    <3> SUFFICES ASSUME NEW k \in DOMAIN chunks'
                 PROVE  LET c == chunks'[k]
                        IN  /\ c.chunk_index = k - 1
                            /\ c.start_char < c.end_char
                            /\ c.end_char <= c.start_char + chunk_size
                            /\ c.end_char <= Len(text)
                            /\ HasText(c.start_char, c.end_char)
                            /\ \A j \in 1..k - 1 : chunks'[j].start_char < c.start_char
      BY <2>3 DEF WellFormed, HasText, IsSpace, At
    <3>0. DOMAIN chunks = 1..Len(chunks)
      BY LenProperties DEF TypeOK
    <3>1. CASE k \in DOMAIN chunks
      <4>1. \A j \in 1..k - 1 : j \in DOMAIN chunks /\ chunks'[j] = chunks[j]
        BY <2>4, <3>0, <3>1
      <4> QED BY <2>4, <3>1, <4>1 DEF WellFormed
    <3>2. CASE k = Len(chunks') /\ HasText(start, e)
      <4>1. chunks'[k] = Chunk(Len(chunks), start, e) /\ k = Len(chunks) + 1
        BY <2>4, <3>2
      <4>2. \A j \in 1..k - 1 : chunks'[j].start_char < start
        BY <2>4, <3>0, <4>1 DEF Behind
      <4> QED BY <2>2, <2>4, <3>2, <4>1, <4>2 DEF Chunk
    <3> QED BY <2>4, <3>1, <3>2
  <2> QED BY <2>5, <2>6, <2>7, <2>8, <2>9
<1> QED BY <1>1, <1>2

\* The invariant holds throughout.
THEOREM Invariant == Spec => []IInv
<1> QED BY Initially, Preserved, PTL DEF Spec

\* The variables of chunk_text stay in their ranges: no start is negative.
THEOREM TypeCorrect == Spec => []TypeOK
<1>1. IInv => TypeOK
  BY DEF IInv
<1> QED BY <1>1, Invariant, PTL

\* The loop always has a character to go past and makes no more chunks than
\* it has gone past characters: with at most Len(text) iterations it ends.
THEOREM LoopProgresses == Spec => []Progress
<1>1. IInv => Progress
  BY DEF IInv
<1> QED BY <1>1, Invariant, PTL

\* Every character that is not white space is in a chunk.
THEOREM TextIsCovered == Spec => []NothingLost
<1>1. IInv => NothingLost
  BY DEF IInv
<1> QED BY <1>1, Invariant, PTL

\* The chunks are numbered without gaps, bounded, nonempty and in order.
THEOREM ChunksWellFormed == Spec => []WellFormed
<1>1. IInv => WellFormed
  BY DEF IInv
<1> QED BY <1>1, Invariant, PTL
=============================================================================
