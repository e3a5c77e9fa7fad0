-------------------------- MODULE IngestionProofs ---------------------------
(***************************************************************************)
(* Proofs about Ingestion, for any number of workers, messages, sources,   *)
(* URLs, texts and articles.                                               *)
(*                                                                         *)
(*   TypeCorrect           Spec => []TypeOK                                *)
(*   SessionCorrect        Spec => []SessionOK, the strengthening          *)
(*   StoriesKept           Spec => []NothingDropped                        *)
(*   CanonicalUrlsUnique   Spec => []UniqueCanonicalUrl                    *)
(*   PagesBackArticles     Spec => []BlobBacked                            *)
(*   ChunksInsertedOnce    Spec => []NoDoubleIndexing                      *)
(*   ContentFresh          Spec => []FreshOK                               *)
(*   ChunksHaveArticles    Spec => []ChunksOfArticles                      *)
(*   Implementation        Spec => Store!Spec: Ingestion implements        *)
(*                         ArticleStore                                    *)
(***************************************************************************)
EXTENDS Ingestion, FiniteSetTheorems, SequenceTheorems, TLAPS

-----------------------------------------------------------------------------
(* The broker *)

\* Each of the broker's operations keeps its types.
LEMMA BrokerOps ==
  ASSUME BrokerTypeOK, NEW w \in Workers, NEW m \in Msgs
  PROVE  /\ Trigger(m) => BrokerTypeOK'
         /\ Take(w, m) => BrokerTypeOK'
         /\ Succeed(w) => BrokerTypeOK'
         /\ Raise(w) => BrokerTypeOK'
         /\ Die(w) => BrokerTypeOK'
<1> USE BrokerAssumption
<1>1. Trigger(m) => BrokerTypeOK'
  BY DEF Trigger, BrokerTypeOK
<1>2. Take(w, m) => BrokerTypeOK'
  BY DEF Take, Idle, BrokerTypeOK
<1>3. ~Idle(w) => job[w] \in Msgs
  BY DEF Idle, BrokerTypeOK
<1>4. ~Idle(w) /\ Release(w) => BrokerTypeOK'
  BY <1>3 DEF Release, BrokerTypeOK
<1>5. ~Idle(w) /\ Retry(w) => BrokerTypeOK'
  BY <1>3 DEF Retry, BrokerTypeOK
<1> QED
  BY <1>1, <1>2, <1>4, <1>5 DEF Succeed, Raise, GiveUp, Die

-----------------------------------------------------------------------------
(* Type correctness *)

\* Leaving a run resets its variables.
LEMMA ForgetType ==
  ASSUME RunTypeOK, CursorOK, NEW w \in Workers, Forget(w)
  PROVE  RunTypeOK' /\ CursorOK'
<1>1. RunTypeOK'
  BY EmptySeq, IngestionAssumption DEF RunTypeOK, Forget, Labels
<1>2. CursorOK'
  <2> SUFFICES ASSUME NEW v \in Workers
               PROVE  /\ pos'[v] \in 1..Len(feed'[v]) + 1
                      /\ pc'[v] \in {"hash", "store"} =>
                           /\ pos'[v] \in DOMAIN feed'[v]
                           /\ feed'[v][pos'[v]].text \notin Blank
    BY DEF CursorOK, Current
  <2>1. CASE v = w
    <3>1. pc'[v] = "idle" /\ pos'[v] = 1 /\ feed'[v] = <<>>
      BY <2>1 DEF Forget, RunTypeOK
    <3> QED BY <3>1
  <2>2. CASE v # w
    <3>1. pc'[v] = pc[v] /\ pos'[v] = pos[v] /\ feed'[v] = feed[v]
      BY <2>2 DEF Forget, RunTypeOK
    <3> QED BY <3>1 DEF CursorOK, Current
  <2> QED BY <2>1, <2>2
<1> QED BY <1>1, <1>2

\* So does failing.
LEMMA FailType ==
  ASSUME TypeOK, NEW w \in Workers, Fail(w)
  PROVE  TypeOK'
<1>1. BrokerTypeOK'
  BY BrokerOps DEF Fail, TypeOK, BrokerTypeOK, Raise, Idle
<1>2. RunTypeOK' /\ CursorOK'
  BY ForgetType DEF Fail, TypeOK
<1>3. TablesTypeOK'
  BY DEF Fail, TypeOK, TablesTypeOK, tables
<1> QED BY <1>1, <1>2, <1>3 DEF TypeOK

\* A result the run is looking at is a Result.
LEMMA CurrentType ==
  ASSUME TypeOK, NEW w \in Workers, pos[w] \in DOMAIN feed[w]
  PROVE  /\ Current(w) \in Result
         /\ UrlOf(Current(w)) \in CanonicalUrls
         /\ HashOf(Current(w)) \in Hashes
<1>1. Current(w) \in Result
  BY ElementOfSeq DEF Current, TypeOK, RunTypeOK
<1> QED
  BY <1>1 DEF Result, UrlOf, HashOf, CanonicalUrls, Hashes

\* The articles that lack chunks can be listed.
LEMMA OrdersType ==
  ASSUME NEW S \in SUBSET Ids, NEW s \in Orders(S)
  PROVE  s \in Seq(Ids)
<1>1. Cardinality(S) \in Nat
  BY FS_Subset, FS_CardinalityType, IngestionAssumption
<1>2. s \in [1..Cardinality(S) -> Ids]
  BY DEF Orders
<1> QED BY <1>1, <1>2, SeqDef

\* The steps of run_ingestion keep the types.
LEMMA IngestStepType ==
  ASSUME TypeOK, NEW w \in Workers, IngestStep(w)
  PROVE  TypeOK'
<1> USE DEF TypeOK
<1>0. pos \in [Workers -> Nat] /\ pc \in [Workers -> Labels]
  BY DEF RunTypeOK
<1>1. CASE FetchSource(w)
  <2> PICK results \in Listings[src'[w]] : feed' = [feed EXCEPT ![w] = @ \o results]
    BY <1>1 DEF FetchSource
  <2>0. src'[w] \in 1..NumSources
    BY <1>1, IngestionAssumption DEF FetchSource, RunTypeOK
  <2>1. results \in Seq(Result)
    BY <2>0, IngestionAssumption
  <2>2. feed[w] \o results \in Seq(Result)
    BY <2>1, ConcatProperties DEF RunTypeOK
  <2>3. Len(feed[w] \o results) = Len(feed[w]) + Len(results) /\ Len(results) \in Nat
    BY <2>1, ConcatProperties, LenProperties DEF RunTypeOK
  <2>4. RunTypeOK'
    BY <1>1, <2>2, IngestionAssumption DEF FetchSource, RunTypeOK, indexing
  <2>5. CursorOK'
    BY <1>1, <2>2, <2>3, LenProperties
    DEF FetchSource, RunTypeOK, CursorOK, Current, AtEnd
  <2> QED BY <1>1, <2>4, <2>5
       DEF FetchSource, BrokerTypeOK, brokerVars, TablesTypeOK, tables
<1>2. CASE SkipBlank(w)
  BY <1>2, LenProperties DEF SkipBlank, Advance, AtEnd, RunTypeOK, CursorOK, Current,
     BrokerTypeOK, brokerVars, TablesTypeOK, tables, fetching, indexing
<1>3. CASE Flush(w)
  <2>1. inserted' \in [Workers -> SUBSET Row]
    BY <1>3 DEF Flush, RunTypeOK, Draft, Row, FreeIds
  <2> QED BY <1>3, <2>1 DEF Flush, RunTypeOK, CursorOK, Current,
     BrokerTypeOK, brokerVars, TablesTypeOK, tables, fetching, indexing
<1>4. CASE FlushConflict(w)
  BY <1>4, FailType DEF FlushConflict
<1>5. CASE CheckUrl(w)
  <2>1. pos[w] \in DOMAIN feed[w] /\ Current(w).text \notin Blank
    BY <1>5, LenProperties DEF CheckUrl, AtStatement, AtEnd, RunTypeOK, CursorOK
  <2>2. \/ pos' = [pos EXCEPT ![w] = @ + 1] /\ UNCHANGED pc
        \/ pc' = [pc EXCEPT ![w] = "hash"] /\ UNCHANGED pos
    BY <1>5 DEF CheckUrl, Advance, Goto
  <2>a. pos' \in [Workers -> Nat]
    <3>1. [pos EXCEPT ![w] = @ + 1] \in [Workers -> Nat]
      BY <1>0
    <3> QED BY <1>0, <2>2, <3>1
  <2>b. pc' \in [Workers -> Labels]
    <3>1. \A l \in Labels : [pc EXCEPT ![w] = l] \in [Workers -> Labels]
      BY <1>0
    <3> QED BY <1>0, <2>2, <3>1 DEF Labels
  <2>3. RunTypeOK'
    BY <1>5, <2>a, <2>b DEF CheckUrl, RunTypeOK, fetching, indexing
  <2>4. CursorOK'
    <3> SUFFICES ASSUME NEW v \in Workers
                 PROVE  /\ pos'[v] \in 1..Len(feed'[v]) + 1
                        /\ pc'[v] \in {"hash", "store"} =>
                             /\ pos'[v] \in DOMAIN feed'[v]
                             /\ feed'[v][pos'[v]].text \notin Blank
      BY DEF CursorOK, Current
    <3>1. feed' = feed /\ pc[w] = "loop"
      BY <1>5 DEF CheckUrl, AtStatement, fetching
    <3>2. CASE v = w
      BY <2>1, <2>2, <3>1, <3>2, LenProperties DEF RunTypeOK, CursorOK, Current
    <3>3. CASE v # w
      BY <2>2, <3>1, <3>3 DEF RunTypeOK, CursorOK, Current
    <3> QED BY <3>2, <3>3
  <2> QED BY <1>5, <2>3, <2>4
     DEF CheckUrl, BrokerTypeOK, brokerVars, TablesTypeOK, tables
<1>6. CASE CheckHash(w)
  <2>1. pos[w] \in DOMAIN feed[w]
    BY <1>6 DEF CheckHash, CursorOK
  <2>2. \/ pos' = [pos EXCEPT ![w] = @ + 1] /\ pc' = [pc EXCEPT ![w] = "loop"]
        \/ pc' = [pc EXCEPT ![w] = "store"] /\ UNCHANGED pos
    BY <1>6 DEF CheckHash, Advance, Goto
  <2>a. pos' \in [Workers -> Nat]
    <3>1. [pos EXCEPT ![w] = @ + 1] \in [Workers -> Nat]
      BY <1>0
    <3> QED BY <1>0, <2>2, <3>1
  <2>b. pc' \in [Workers -> Labels]
    <3>1. \A l \in Labels : [pc EXCEPT ![w] = l] \in [Workers -> Labels]
      BY <1>0
    <3> QED BY <1>0, <2>2, <3>1 DEF Labels
  <2>3. RunTypeOK'
    BY <1>6, <2>a, <2>b DEF CheckHash, RunTypeOK, fetching, indexing
  <2>4. CursorOK'
    <3> SUFFICES ASSUME NEW v \in Workers
                 PROVE  /\ pos'[v] \in 1..Len(feed'[v]) + 1
                        /\ pc'[v] \in {"hash", "store"} =>
                             /\ pos'[v] \in DOMAIN feed'[v]
                             /\ feed'[v][pos'[v]].text \notin Blank
      BY DEF CursorOK, Current
    <3>1. feed' = feed /\ pc[w] = "hash"
      BY <1>6 DEF CheckHash, fetching
    <3>2. CASE v = w
      BY <2>1, <2>2, <3>1, <3>2, LenProperties DEF RunTypeOK, CursorOK, Current
    <3>3. CASE v # w
      BY <2>2, <3>1, <3>3 DEF RunTypeOK, CursorOK, Current
    <3> QED BY <3>2, <3>3
  <2> QED BY <1>6, <2>3, <2>4
     DEF CheckHash, BrokerTypeOK, brokerVars, TablesTypeOK, tables
<1>7. CASE MultipleResultsFound(w)
  BY <1>7, FailType DEF MultipleResultsFound
<1>8. CASE StoreArticle(w)
  <2>1. pos[w] \in DOMAIN feed[w]
    BY <1>8 DEF StoreArticle, CursorOK
  <2>2. Current(w) \in Result /\ UrlOf(Current(w)) \in CanonicalUrls
                             /\ HashOf(Current(w)) \in Hashes
    BY <2>1, CurrentType
  <2>3. pending' \in [Workers -> SUBSET Draft] /\ blobs' \in SUBSET Htmls
    BY <1>8, <2>2 DEF StoreArticle, RunTypeOK, TablesTypeOK, Draft, Result
  <2> QED BY <1>8, <2>1, <2>3, LenProperties
     DEF StoreArticle, Advance, Goto, RunTypeOK, CursorOK, Current, Labels,
     BrokerTypeOK, brokerVars, TablesTypeOK, tables, fetching, indexing
<1>9. CASE Commit(w)
  BY <1>9 DEF Commit, Goto, RunTypeOK, CursorOK, Current, Labels,
     BrokerTypeOK, brokerVars, TablesTypeOK, tables, fetching, indexing
<1> QED
  BY <1>1, <1>2, <1>3, <1>4, <1>5, <1>6, <1>7, <1>8, <1>9 DEF IngestStep

\* So do the steps of index_unembedded_articles.
LEMMA IndexStepType ==
  ASSUME TypeOK, NEW w \in Workers, IndexStep(w)
  PROVE  TypeOK'
<1> USE DEF TypeOK
<1>1. CASE SelectUnindexed(w)
  <2>1. Unindexed \subseteq Ids
    BY DEF Unindexed, TablesTypeOK, Row
  <2>2. todo' \in [Workers -> Seq(Ids)]
    BY <1>1, <2>1, OrdersType DEF SelectUnindexed, RunTypeOK
  <2> QED BY <1>1, <2>2 DEF SelectUnindexed, Goto, RunTypeOK, CursorOK, Current,
     Labels, BrokerTypeOK, brokerVars, TablesTypeOK, tables, fetching
<1>2. CASE NothingToIndex(w)
  <2>1. RunTypeOK' /\ CursorOK'
    BY <1>2, ForgetType DEF NothingToIndex
  <2>2. BrokerTypeOK'
    BY <1>2, BrokerOps DEF NothingToIndex, BrokerTypeOK, Succeed, Idle
  <2> QED BY <1>2, <2>1, <2>2 DEF NothingToIndex, TablesTypeOK, tables
<1>3. CASE InsertChunks(w)
  <2>1. Head(todo[w]) \in Ids /\ Tail(todo[w]) \in Seq(Ids)
    BY <1>3, HeadTailProperties DEF InsertChunks, RunTypeOK
  <2> QED BY <1>3, <2>1 DEF InsertChunks, RunTypeOK, CursorOK, Current,
     BrokerTypeOK, brokerVars, TablesTypeOK, tables, fetching
<1>4. CASE ChunkConflict(w)
  BY <1>4, FailType DEF ChunkConflict
<1>5. CASE CommitIndex(w)
  <2>1. RunTypeOK' /\ CursorOK'
    BY <1>5, ForgetType DEF CommitIndex
  <2>2. BrokerTypeOK'
    BY <1>5, BrokerOps DEF CommitIndex, BrokerTypeOK, Succeed, Idle
  <2> QED BY <1>5, <2>1, <2>2 DEF CommitIndex, RunTypeOK, TablesTypeOK
<1> QED
  BY <1>1, <1>2, <1>3, <1>4, <1>5 DEF IndexStep

\* So do a crash and a commit whose outcome the run does not learn.
LEMMA FaultType ==
  ASSUME TypeOK, NEW w \in Workers, Fault(w)
  PROVE  TypeOK'
<1> USE DEF TypeOK
<1>1. CASE Error(w)
  BY <1>1, FailType DEF Error
<1>2. CASE Crash(w)
  <2>1. RunTypeOK' /\ CursorOK'
    BY <1>2, ForgetType DEF Crash
  <2>2. BrokerTypeOK'
    BY <1>2, BrokerOps DEF Crash, BrokerTypeOK, Die, Idle
  <2> QED BY <1>2, <2>1, <2>2 DEF Crash, TablesTypeOK, tables
<1>3. CASE CommitUnknown(w)
  <2>1. RunTypeOK' /\ CursorOK'
    BY <1>3, ForgetType DEF CommitUnknown
  <2>2. BrokerTypeOK'
    BY <1>3, BrokerOps DEF CommitUnknown, BrokerTypeOK, Raise, Idle
  <2> QED BY <1>3, <2>1, <2>2 DEF CommitUnknown, RunTypeOK, TablesTypeOK
<1>4. CASE CommitIndexUnknown(w)
  <2>1. RunTypeOK' /\ CursorOK'
    BY <1>4, ForgetType DEF CommitIndexUnknown
  <2>2. BrokerTypeOK'
    BY <1>4, BrokerOps DEF CommitIndexUnknown, BrokerTypeOK, Raise, Idle
  <2> QED BY <1>4, <2>1, <2>2 DEF CommitIndexUnknown, RunTypeOK, TablesTypeOK
<1> QED
  BY <1>1, <1>2, <1>3, <1>4 DEF Fault

\* So do the beat and the workers that take a message.
LEMMA ScheduleType ==
  ASSUME TypeOK, Schedule
  PROVE  TypeOK'
<1> USE DEF TypeOK
<1>1. ASSUME NEW m \in Msgs, Enqueue(m)
      PROVE  TypeOK'
  <2>1. BrokerTypeOK'
    BY <1>1 DEF Enqueue, Trigger, BrokerTypeOK
  <2> QED BY <1>1, <2>1 DEF Enqueue, RunTypeOK, CursorOK, Current,
     TablesTypeOK, tables, fetching, indexing
<1>2. ASSUME NEW w \in Workers, NEW m \in Msgs, Start(w, m)
      PROVE  TypeOK'
  <2>1. BrokerTypeOK'
    BY <1>2, BrokerOps DEF Start
  <2> QED BY <1>2, <2>1 DEF Start, Goto, RunTypeOK, CursorOK, Current, Labels,
     TablesTypeOK, tables, fetching, indexing
<1> QED BY <1>1, <1>2 DEF Schedule

LEMMA StutterType ==
  ASSUME TypeOK, UNCHANGED vars
  PROVE  TypeOK'
BY DEF TypeOK, vars, brokerVars, tables, fetching, indexing, BrokerTypeOK,
   TablesTypeOK, RunTypeOK, CursorOK, Current

\* Every variable of Ingestion keeps its type and the cursor of every run
\* stays on the results it fetched, whatever the runs do to each other.
THEOREM TypeCorrect == Spec => []TypeOK
<1>1. Init => TypeOK
  <2> SUFFICES ASSUME Init PROVE TypeOK
    OBVIOUS
  <2> USE IngestionAssumption, BrokerAssumption
  <2>1. <<>> \in Seq(Result) /\ <<>> \in Seq(Ids) /\ Len(<<>>) = 0
    BY EmptySeq
  <2>2. BrokerTypeOK
    BY DEF Init, BrokerInit, BrokerTypeOK
  <2>3. TablesTypeOK /\ RunTypeOK
    BY <2>1 DEF Init, IngestionInit, TablesTypeOK, RunTypeOK, Labels
  <2>4. CursorOK
    <3> SUFFICES ASSUME NEW w \in Workers
                 PROVE  /\ pos[w] \in 1..Len(feed[w]) + 1
                        /\ pc[w] \notin {"hash", "store"}
      BY DEF CursorOK
    <3>1. pos[w] = 1 /\ feed[w] = <<>> /\ pc[w] = "idle"
      BY DEF Init, IngestionInit
    <3> QED BY <2>1, <3>1
  <2> QED BY <2>2, <2>3, <2>4 DEF TypeOK
<1>2. TypeOK /\ [Next]_vars => TypeOK'
  <2> SUFFICES ASSUME TypeOK, [Next]_vars PROVE TypeOK'
    OBVIOUS
  <2>1. CASE Schedule
    BY <2>1, ScheduleType
  <2>2. ASSUME NEW w \in Workers, Step(w)
        PROVE  TypeOK'
    BY <2>2, IngestStepType, IndexStepType, FailType DEF Step, DeadlockAbort
  <2>3. ASSUME NEW w \in Workers, Fault(w)
        PROVE  TypeOK'
    BY <2>3, FaultType
  <2>4. CASE UNCHANGED vars
    BY <2>4, StutterType
  <2> QED BY <2>1, <2>2, <2>3, <2>4 DEF Next
<1> QED BY <1>1, <1>2, PTL DEF Spec

-----------------------------------------------------------------------------
(* What a step of one worker does to the others                            *)

\* The variables of the run of worker v, as the database sees them.
Untouched(v) ==
  /\ pc'[v] = pc[v]
  /\ feed'[v] = feed[v]
  /\ pos'[v] = pos[v]
  /\ pending'[v] = pending[v]
  /\ inserted'[v] = inserted[v]
  /\ todo'[v] = todo[v]
  /\ chunkTxn'[v] = chunkTxn[v]

\* A worker changes only its own run.
LEMMA OthersUntouched ==
  ASSUME RunTypeOK, NEW w \in Workers, NEW v \in Workers, v # w,
         Step(w) \/ Fault(w)
  PROVE  Untouched(v)
<1>1. Forget(w) => Untouched(v)
  BY DEF Forget, Untouched, RunTypeOK
<1>2. CASE IngestStep(w)
  <2>1. CASE FetchSource(w)
    BY <2>1 DEF FetchSource, Untouched, RunTypeOK, indexing
  <2>2. CASE SkipBlank(w) \/ CheckUrl(w) \/ CheckHash(w)
    BY <2>2 DEF SkipBlank, CheckUrl, CheckHash, Advance, Goto, Untouched,
       RunTypeOK, fetching, indexing
  <2>3. CASE Flush(w)
    BY <2>3 DEF Flush, Untouched, RunTypeOK, fetching, indexing
  <2>4. CASE FlushConflict(w) \/ MultipleResultsFound(w)
    BY <1>1, <2>4 DEF FlushConflict, MultipleResultsFound, Fail
  <2>5. CASE StoreArticle(w)
    BY <2>5 DEF StoreArticle, Advance, Goto, Untouched, RunTypeOK, fetching, indexing
  <2>6. CASE Commit(w)
    BY <2>6 DEF Commit, Goto, Untouched, RunTypeOK, fetching, indexing
  <2> QED BY <1>2, <2>1, <2>2, <2>3, <2>4, <2>5, <2>6 DEF IngestStep
<1>3. CASE IndexStep(w)
  <2>1. CASE SelectUnindexed(w)
    BY <2>1 DEF SelectUnindexed, Goto, Untouched, RunTypeOK, fetching
  <2>2. CASE NothingToIndex(w) \/ ChunkConflict(w) \/ CommitIndex(w)
    BY <1>1, <2>2 DEF NothingToIndex, ChunkConflict, CommitIndex, Fail
  <2>3. CASE InsertChunks(w)
    BY <2>3 DEF InsertChunks, Untouched, RunTypeOK, fetching
  <2> QED BY <1>3, <2>1, <2>2, <2>3 DEF IndexStep
<1>4. CASE DeadlockAbort(w) \/ Fault(w)
  BY <1>1, <1>4 DEF DeadlockAbort, Fault, Error, Crash, CommitUnknown,
     CommitIndexUnknown, Fail
<1> QED BY <1>2, <1>3, <1>4 DEF Step

\* Articles are never removed.
LEMMA ArticlesGrow ==
  ASSUME NEW w \in Workers, Step(w) \/ Fault(w)
  PROVE  articles \subseteq articles'
<1>1. CASE IngestStep(w)
  BY <1>1 DEF IngestStep, FetchSource, SkipBlank, Flush, FlushConflict, CheckUrl,
     CheckHash, MultipleResultsFound, StoreArticle, Commit, Fail, tables
<1>2. CASE IndexStep(w)
  BY <1>2 DEF IndexStep, SelectUnindexed, NothingToIndex, InsertChunks,
     ChunkConflict, CommitIndex, Fail, tables
<1>3. CASE DeadlockAbort(w) \/ Fault(w)
  BY <1>3 DEF DeadlockAbort, Fault, Error, Crash, CommitUnknown,
     CommitIndexUnknown, Fail, tables
<1> QED BY <1>1, <1>2, <1>3 DEF Step

\* The steps of the beat, of idle workers and of nobody leave the runs alone,
\* but for the program counter of the worker that starts.
LEMMA ScheduleUntouched ==
  ASSUME RunTypeOK, Schedule \/ UNCHANGED vars, NEW v \in Workers
  PROVE  /\ articles' = articles /\ chunked' = chunked /\ blobs' = blobs
         /\ feed'[v] = feed[v] /\ pos'[v] = pos[v]
         /\ pending'[v] = pending[v] /\ inserted'[v] = inserted[v]
         /\ todo'[v] = todo[v] /\ chunkTxn'[v] = chunkTxn[v]
         /\ pc'[v] = pc[v] \/ pc'[v] = "loop"
BY DEF Schedule, Enqueue, Start, Goto, vars, tables, fetching, indexing, RunTypeOK

-----------------------------------------------------------------------------
(* The session of a run                                                    *)

\* The session holds at most one unflushed article, none while the second
\* check runs, and neither unflushed nor uncommitted articles outside of
\* run_ingestion.
SessionOf(w) ==
  /\ \A d, e \in pending[w] : d = e
  /\ pc[w] \in {"hash", "store"} => pending[w] = {}
  /\ pc[w] \in {"idle", "index", "chunk"} => pending[w] = {} /\ inserted[w] = {}

SessionOK == \A w \in Workers : SessionOf(w)

\* The session is empty when a run begins and ends.
THEOREM SessionCorrect == Spec => []SessionOK
<1>1. Init => SessionOK
  BY DEF Init, IngestionInit, SessionOK, SessionOf
<1>2. TypeOK /\ SessionOK /\ [Next]_vars => SessionOK'
  <2> SUFFICES ASSUME TypeOK, SessionOK, [Next]_vars, NEW v \in Workers
               PROVE  SessionOf(v)'
    BY DEF SessionOK
  <2>0. SessionOf(v) /\ RunTypeOK
    BY DEF SessionOK, TypeOK
  <2>1. CASE Schedule
    BY <2>0, <2>1 DEF SessionOf, Schedule, Enqueue, Start, Goto, RunTypeOK
  <2>2. CASE UNCHANGED vars
    BY <2>0, <2>2 DEF SessionOf, vars
  <2>3. ASSUME NEW w \in Workers, Step(w) \/ Fault(w), v # w
        PROVE  SessionOf(v)'
    BY <2>0, <2>3, OthersUntouched DEF SessionOf, Untouched
  <2>4. ASSUME Forget(v)
        PROVE  SessionOf(v)'
    BY <2>0, <2>4 DEF Forget, SessionOf, RunTypeOK
  <2>5. CASE IngestStep(v)
    <3>1. CASE FetchSource(v) \/ SkipBlank(v)
      BY <2>0, <3>1 DEF FetchSource, SkipBlank, SessionOf
    <3>2. CASE Flush(v)
      BY <2>0, <3>2 DEF Flush, AtStatement, SessionOf, RunTypeOK
    <3>3. CASE FlushConflict(v) \/ MultipleResultsFound(v)
      BY <2>4, <3>3 DEF FlushConflict, MultipleResultsFound, Fail
    <3>4. CASE CheckUrl(v)
      BY <2>0, <3>4 DEF CheckUrl, AtStatement, Goto, SessionOf, RunTypeOK
    <3>5. CASE CheckHash(v)
      BY <2>0, <3>5 DEF CheckHash, Goto, SessionOf, RunTypeOK
    <3>6. CASE StoreArticle(v)
      BY <2>0, <3>6 DEF StoreArticle, Goto, SessionOf, RunTypeOK
    <3>7. CASE Commit(v)
      BY <2>0, <3>7 DEF Commit, ReadyToCommit, Goto, SessionOf, RunTypeOK
    <3> QED BY <2>5, <3>1, <3>2, <3>3, <3>4, <3>5, <3>6, <3>7 DEF IngestStep
  <2>6. CASE IndexStep(v)
    <3>1. CASE SelectUnindexed(v)
      BY <2>0, <3>1 DEF SelectUnindexed, Goto, SessionOf, RunTypeOK
    <3>2. CASE InsertChunks(v)
      BY <2>0, <3>2 DEF InsertChunks, SessionOf
    <3>3. CASE NothingToIndex(v) \/ ChunkConflict(v) \/ CommitIndex(v)
      BY <2>4, <3>3 DEF NothingToIndex, ChunkConflict, CommitIndex, Fail
    <3> QED BY <2>6, <3>1, <3>2, <3>3 DEF IndexStep
  <2>7. CASE DeadlockAbort(v) \/ Fault(v)
    BY <2>4, <2>7 DEF DeadlockAbort, Fault, Error, Crash, CommitUnknown,
       CommitIndexUnknown, Fail
  <2> QED BY <2>1, <2>2, <2>3, <2>5, <2>6, <2>7 DEF Next, Step
<1> QED BY <1>1, <1>2, TypeCorrect, PTL DEF Spec

-----------------------------------------------------------------------------
(* No story is dropped                                                     *)

Kept(w) == articles \cup inserted[w] \cup pending[w]

KeepsStories(w) ==
  \A i \in 1..pos[w] - 1 :
    feed[w][i].text \notin Blank => Covered(feed[w][i], Kept(w))

\* Going past a result that is blank, or that the rows of the run cover.
LEMMA PastResult ==
  ASSUME TypeOK, NEW w \in Workers, KeepsStories(w),
         pos[w] \in DOMAIN feed[w], pos'[w] = pos[w] + 1, feed'[w] = feed[w],
         \A r \in Result : Covered(r, Kept(w)) => Covered(r, Kept(w)'),
         Current(w).text \in Blank \/ Covered(Current(w), Kept(w)')
  PROVE  KeepsStories(w)'
<1> SUFFICES ASSUME NEW i \in 1..pos'[w] - 1, feed[w][i].text \notin Blank
             PROVE  Covered(feed[w][i], Kept(w)')
  BY DEF KeepsStories, Covered
<1>1. pos[w] \in Nat /\ feed[w] \in Seq(Result)
  BY DEF TypeOK, RunTypeOK
<1>2. CASE i = pos[w]
  BY <1>2 DEF Current
<1>3. CASE i # pos[w]
  <2>1. i \in 1..pos[w] - 1 /\ i \in DOMAIN feed[w]
    BY <1>1, <1>3, LenProperties
  <2>2. feed[w][i] \in Result
    BY <1>1, <2>1, ElementOfSeq, LenProperties
  <2> QED BY <2>1, <2>2 DEF KeepsStories
<1> QED BY <1>2, <1>3

\* Staying where one is, with at least the same rows.
LEMMA SameResults ==
  ASSUME TypeOK, NEW w \in Workers, KeepsStories(w), pos'[w] = pos[w],
         \A i \in 1..pos[w] - 1 : feed'[w][i] = feed[w][i],
         \A r \in Result : Covered(r, Kept(w)) => Covered(r, Kept(w)')
  PROVE  KeepsStories(w)'
<1> SUFFICES ASSUME NEW i \in 1..pos[w] - 1, feed[w][i].text \notin Blank
             PROVE  Covered(feed[w][i], Kept(w)')
  BY DEF KeepsStories, Covered
<1>1. pos[w] \in 1..Len(feed[w]) + 1 /\ feed[w] \in Seq(Result)
  BY DEF TypeOK, RunTypeOK, CursorOK
<1>2. feed[w][i] \in Result
  BY <1>1, ElementOfSeq, LenProperties
<1> QED BY <1>2 DEF KeepsStories

\* What the duplicate checks skip stays represented: the result a run goes
\* past is blank, or covered by articles that are committed or its own, and
\* neither the rollbacks nor the crashes of other runs take those away.
THEOREM StoriesKept == Spec => []NothingDropped
<1>1. Init => NothingDropped
  <2> SUFFICES ASSUME Init, NEW w \in Workers
               PROVE  1..pos[w] - 1 = {}
    BY DEF NothingDropped
  <2> QED BY DEF Init, IngestionInit
<1>2. TypeOK /\ SessionOK /\ NothingDropped /\ [Next]_vars => NothingDropped'
  <2> SUFFICES ASSUME TypeOK, SessionOK, NothingDropped, [Next]_vars, NEW v \in Workers
               PROVE  KeepsStories(v)'
    BY DEF NothingDropped, KeepsStories, Kept
  <2>0. KeepsStories(v) /\ RunTypeOK /\ SessionOf(v)
    BY DEF NothingDropped, KeepsStories, Kept, TypeOK, SessionOK
  <2>1. CASE Schedule \/ UNCHANGED vars
    BY <2>0, <2>1, ScheduleUntouched, SameResults DEF Kept
  <2>2. ASSUME NEW w \in Workers, Step(w) \/ Fault(w), v # w
        PROVE  KeepsStories(v)'
    <3>1. Untouched(v) /\ articles \subseteq articles'
      BY <2>0, <2>2, OthersUntouched, ArticlesGrow
    <3>2. \A r \in Result : Covered(r, Kept(v)) => Covered(r, Kept(v)')
      BY <3>1 DEF Untouched, Covered, Kept
    <3> QED BY <2>0, <3>1, <3>2, SameResults DEF Untouched
  <2>3. ASSUME Forget(v)
        PROVE  KeepsStories(v)'
    <3>1. pos'[v] = 1
      BY <2>0, <2>3 DEF Forget, RunTypeOK
    <3> QED BY <3>1 DEF KeepsStories
  <2>4. CASE IngestStep(v)
    <3>1. CASE FetchSource(v)
      <4>1. pos'[v] = pos[v] /\ Kept(v)' = Kept(v)
        BY <3>1 DEF FetchSource, Kept, tables
      <4>2. \A i \in 1..pos[v] - 1 : feed'[v][i] = feed[v][i]
        <5> PICK results \in Listings[src'[v]] :
                   feed' = [feed EXCEPT ![v] = @ \o results]
          BY <3>1 DEF FetchSource
        <5>1. src'[v] \in 1..NumSources
          BY <2>0, <3>1, IngestionAssumption DEF FetchSource, RunTypeOK
        <5>2. results \in Seq(Result) /\ feed[v] \in Seq(Result)
          BY <2>0, <5>1, IngestionAssumption DEF RunTypeOK
        <5>3. pos[v] \in 1..Len(feed[v]) + 1
          BY DEF TypeOK, CursorOK
        <5>4. feed'[v] = feed[v] \o results
          BY <2>0 DEF RunTypeOK
        <5> QED BY <5>2, <5>3, <5>4, ConcatProperties, LenProperties
      <4> QED BY <2>0, <4>1, <4>2, SameResults
    <3>2. CASE SkipBlank(v)
      <4>1. pos[v] \in DOMAIN feed[v]
        BY <2>0, <3>2, LenProperties
        DEF SkipBlank, AtEnd, TypeOK, RunTypeOK, CursorOK
      <4>2. pos'[v] = pos[v] + 1 /\ feed' = feed /\ Kept(v)' = Kept(v)
        BY <2>0, <3>2 DEF SkipBlank, Advance, RunTypeOK, Kept, tables, fetching
      <4> QED BY <2>0, <3>2, <4>1, <4>2, PastResult DEF SkipBlank
    <3>3. CASE Flush(v)
      <4>1. PICK d \in pending[v], id \in FreeIds :
              inserted' = [inserted EXCEPT ![v] = @ \cup
                {[id |-> id, url |-> d.url, hash |-> d.hash, raw |-> d.raw]}]
        BY <3>3 DEF Flush
      <4> DEFINE a == [id |-> id, url |-> d.url, hash |-> d.hash, raw |-> d.raw]
      <4>2. /\ inserted'[v] = inserted[v] \cup {a}
            /\ a.url = d.url /\ a.hash = d.hash
        BY <2>0, <4>1 DEF RunTypeOK
      <4> HIDE DEF a
      <4>3. pending[v] = {d} /\ articles' = articles
        BY <2>0, <3>3 DEF Flush, SessionOf, tables
      <4>4. \A r \in Result : Covered(r, Kept(v)) => Covered(r, Kept(v)')
        BY <4>2, <4>3 DEF Covered, Kept
      <4>5. pos' = pos /\ feed' = feed
        BY <3>3 DEF Flush, fetching
      <4> QED BY <2>0, <4>4, <4>5, SameResults
    <3>4. CASE FlushConflict(v) \/ MultipleResultsFound(v)
      BY <2>3, <3>4 DEF FlushConflict, MultipleResultsFound, Fail
    <3>5. CASE CheckUrl(v)
      <4>1. feed' = feed /\ Kept(v)' = Kept(v)
        BY <3>5 DEF CheckUrl, Kept, tables, fetching
      <4>2. CASE \E a \in Visible(v) : a.url = UrlOf(Current(v))
        <5>1. Covered(Current(v), Kept(v)')
          BY <4>1, <4>2 DEF Covered, Kept, Visible
        <5>2. pos'[v] = pos[v] + 1
          BY <2>0, <3>5, <4>2 DEF CheckUrl, Advance, RunTypeOK
        <5>3. pos[v] \in DOMAIN feed[v]
          BY <2>0, <3>5, LenProperties
          DEF CheckUrl, AtEnd, TypeOK, RunTypeOK, CursorOK
        <5> QED BY <2>0, <4>1, <5>1, <5>2, <5>3, PastResult
      <4>3. CASE ~ \E a \in Visible(v) : a.url = UrlOf(Current(v))
        BY <2>0, <3>5, <4>1, <4>3, SameResults DEF CheckUrl
      <4> QED BY <4>2, <4>3
    <3>6. CASE CheckHash(v)
      <4>1. feed' = feed /\ Kept(v)' = Kept(v)
        BY <3>6 DEF CheckHash, Kept, tables, fetching
      <4>2. CASE SameContent(v) # {}
        <5>1. Covered(Current(v), Kept(v)')
          BY <4>1, <4>2 DEF SameContent, Covered, Kept, Visible
        <5>2. pos'[v] = pos[v] + 1
          BY <2>0, <3>6, <4>2 DEF CheckHash, Advance, RunTypeOK
        <5>3. pos[v] \in DOMAIN feed[v]
          BY <3>6 DEF CheckHash, TypeOK, CursorOK
        <5> QED BY <2>0, <4>1, <5>1, <5>2, <5>3, PastResult
      <4>3. CASE SameContent(v) = {}
        BY <2>0, <3>6, <4>1, <4>3, SameResults DEF CheckHash
      <4> QED BY <4>2, <4>3
    <3>7. CASE StoreArticle(v)
      <4>1. pos[v] \in DOMAIN feed[v] /\ pending[v] = {}
        BY <2>0, <3>7 DEF StoreArticle, TypeOK, CursorOK, SessionOf
      <4>2. pos'[v] = pos[v] + 1 /\ feed' = feed /\ articles' = articles
            /\ inserted' = inserted
        BY <2>0, <3>7 DEF StoreArticle, Advance, RunTypeOK, tables, fetching
      <4>3. pending'[v] = {[url |-> UrlOf(Current(v)), hash |-> HashOf(Current(v)),
                            raw |-> Current(v).html]}
        BY <2>0, <3>7 DEF StoreArticle, RunTypeOK
      <4> DEFINE d == [url |-> UrlOf(Current(v)), hash |-> HashOf(Current(v)),
                       raw |-> Current(v).html]
      <4>a. d \in Kept(v)' /\ d.url = UrlOf(Current(v))
        BY <4>3 DEF Kept
      <4>4. Covered(Current(v), Kept(v)')
        BY <4>a DEF Covered
      <4>5. \A r \in Result : Covered(r, Kept(v)) => Covered(r, Kept(v)')
        BY <4>1, <4>2 DEF Covered, Kept
      <4> QED BY <2>0, <4>1, <4>2, <4>4, <4>5, PastResult
    <3>8. CASE Commit(v)
      <4>1. Kept(v)' = Kept(v)
        BY <2>0, <3>8 DEF Commit, Kept, RunTypeOK
      <4>2. feed' = feed /\ pos' = pos
        BY <3>8 DEF Commit, fetching
      <4> QED BY <2>0, <4>1, <4>2, SameResults
    <3> QED BY <2>4, <3>1, <3>2, <3>3, <3>4, <3>5, <3>6, <3>7, <3>8 DEF IngestStep
  <2>5. CASE IndexStep(v)
    <3>1. CASE SelectUnindexed(v) \/ InsertChunks(v)
      <4>1. feed' = feed /\ pos' = pos /\ Kept(v)' = Kept(v)
        BY <3>1 DEF SelectUnindexed, InsertChunks, Kept, tables, fetching
      <4> QED BY <2>0, <4>1, SameResults
    <3>2. CASE NothingToIndex(v) \/ ChunkConflict(v) \/ CommitIndex(v)
      BY <2>3, <3>2 DEF NothingToIndex, ChunkConflict, CommitIndex, Fail
    <3> QED BY <2>5, <3>1, <3>2 DEF IndexStep
  <2>6. CASE DeadlockAbort(v) \/ Fault(v)
    BY <2>3, <2>6 DEF DeadlockAbort, Fault, Error, Crash, CommitUnknown,
       CommitIndexUnknown, Fail
  <2> QED BY <2>1, <2>2, <2>4, <2>5, <2>6 DEF Next, Step
<1> QED BY <1>1, <1>2, TypeCorrect, SessionCorrect, PTL DEF Spec

-----------------------------------------------------------------------------
(* Rows are distinct                                                       *)

\* Only the flush of a pending article adds to the rows of the transactions.
LEMMA RowsOnlyFlushed ==
  ASSUME TypeOK, NEW w \in Workers, Step(w) \/ Fault(w), ~Flush(w)
  PROVE  AllRows' \subseteq AllRows
<1> USE DEF TypeOK
<1>0. SUFFICES articles' \subseteq AllRows /\ inserted'[w] \subseteq AllRows
  <2>1. \A v \in Workers : v # w => inserted'[v] = inserted[v]
    BY OthersUntouched DEF Untouched
  <2>2. \A v \in Workers : inserted[v] \subseteq AllRows
    BY DEF AllRows
  <2> QED BY <2>1, <2>2 DEF AllRows
<1>1. Forget(w) => inserted'[w] = {}
  BY DEF Forget, RunTypeOK
<1>2. CASE IngestStep(w)
  <2>1. CASE FetchSource(w) \/ SkipBlank(w) \/ CheckUrl(w) \/ CheckHash(w)
             \/ StoreArticle(w)
    BY <2>1 DEF FetchSource, SkipBlank, CheckUrl, CheckHash, StoreArticle, tables, AllRows
  <2>2. CASE FlushConflict(w) \/ MultipleResultsFound(w)
    BY <1>1, <2>2 DEF FlushConflict, MultipleResultsFound, Fail, tables, AllRows
  <2>3. CASE Commit(w)
    BY <2>3 DEF Commit, AllRows, RunTypeOK
  <2> QED BY <1>2, <2>1, <2>2, <2>3 DEF IngestStep
<1>3. CASE IndexStep(w)
  BY <1>1, <1>3 DEF IndexStep, SelectUnindexed, NothingToIndex, InsertChunks,
     ChunkConflict, CommitIndex, Fail, tables, AllRows
<1>4. CASE DeadlockAbort(w) \/ Fault(w)
  BY <1>1, <1>4 DEF DeadlockAbort, Fault, Error, Crash, CommitUnknown,
     CommitIndexUnknown, Fail, tables, AllRows
<1> QED BY <1>2, <1>3, <1>4 DEF Step

LEMMA RowsScheduled ==
  ASSUME TypeOK, Schedule \/ UNCHANGED vars
  PROVE  AllRows' = AllRows
<1>1. articles' = articles
  BY DEF Schedule, Enqueue, Start, vars, tables
<1>2. \A v \in Workers : inserted'[v] = inserted[v]
  BY ScheduleUntouched DEF TypeOK
<1> QED BY <1>1, <1>2 DEF AllRows

\* No two rows of any transaction, committed or open, share a key.
RowsDistinct ==
  \A a, b \in AllRows : a.url = b.url \/ a.id = b.id => a = b

\* Ids and canonical URLs are never shared between rows, whichever runs have
\* inserted them and whether they are committed: only a flush adds a row, and
\* it waits or fails when the key is taken.
THEOREM RowsStayDistinct == Spec => []RowsDistinct
<1>1. Init => RowsDistinct
  BY DEF Init, IngestionInit, RowsDistinct, AllRows
<1>2. TypeOK /\ SessionOK /\ RowsDistinct /\ [Next]_vars => RowsDistinct'
  <2> SUFFICES ASSUME TypeOK, SessionOK, RowsDistinct, [Next]_vars
               PROVE  RowsDistinct'
    OBVIOUS
  <2>1. CASE Schedule \/ UNCHANGED vars
    BY <2>1, RowsScheduled DEF RowsDistinct
  <2>2. ASSUME NEW w \in Workers, Step(w) \/ Fault(w), ~Flush(w)
        PROVE  RowsDistinct'
    BY <2>2, RowsOnlyFlushed DEF RowsDistinct
  <2>3. ASSUME NEW w \in Workers, Flush(w)
        PROVE  RowsDistinct'
    <3>1. PICK d \in pending[w], id \in FreeIds :
            inserted' = [inserted EXCEPT ![w] = @ \cup
              {[id |-> id, url |-> d.url, hash |-> d.hash, raw |-> d.raw]}]
      BY <2>3 DEF Flush
    <3> DEFINE new == [id |-> id, url |-> d.url, hash |-> d.hash, raw |-> d.raw]
    <3>2. new.url = d.url /\ new.id = id
      OBVIOUS
    <3>3. AllRows' = AllRows \cup {new}
      BY <2>3, <3>1 DEF Flush, tables, AllRows, TypeOK, RunTypeOK
    <3>4. \A a \in AllRows : a.id # id
      BY DEF FreeIds
    <3>5. pending[w] = {d}
      BY DEF SessionOK, SessionOf
    <3>6. \A a \in Visible(w) : a.url # d.url
      BY <2>3, <3>5 DEF Flush, UrlTaken
    <3>7. \A v \in Workers \ {w} : \A a \in inserted[v] : a.url # d.url
      BY <2>3, <3>5 DEF Flush, FlushWaitsFor, UrlTaken
    <3>8. \A a \in AllRows : a.url # d.url
      BY <3>6, <3>7 DEF AllRows, Visible
    <3> HIDE DEF new
    <3> QED BY <3>2, <3>3, <3>4, <3>8 DEF RowsDistinct
  <2> QED BY <2>1, <2>2, <2>3 DEF Next, Step, IngestStep
<1> QED BY <1>1, <1>2, TypeCorrect, SessionCorrect, PTL DEF Spec

\* No two articles, committed or in an open transaction, share a canonical
\* URL: Article.canonical_url stays unique under concurrent runs.
THEOREM CanonicalUrlsUnique == Spec => []UniqueCanonicalUrl
<1>1. RowsDistinct => UniqueCanonicalUrl
  BY DEF RowsDistinct, UniqueCanonicalUrl
<1> QED BY <1>1, RowsStayDistinct, PTL

-----------------------------------------------------------------------------
(* Pages and chunks                                                        *)

\* Pages are never taken out of the blob store.
LEMMA BlobsGrow ==
  ASSUME [Next]_vars
  PROVE  blobs \subseteq blobs'
<1>1. CASE Schedule \/ UNCHANGED vars
  BY <1>1 DEF Schedule, Enqueue, Start, vars
<1>2. ASSUME NEW w \in Workers, IngestStep(w)
      PROVE  blobs \subseteq blobs'
  BY <1>2 DEF IngestStep, FetchSource, SkipBlank, Flush, FlushConflict, CheckUrl,
     CheckHash, MultipleResultsFound, StoreArticle, Commit, Fail
<1>3. ASSUME NEW w \in Workers, IndexStep(w)
      PROVE  blobs \subseteq blobs'
  BY <1>3 DEF IndexStep, SelectUnindexed, NothingToIndex, InsertChunks,
     ChunkConflict, CommitIndex, Fail
<1>4. ASSUME NEW w \in Workers, DeadlockAbort(w) \/ Fault(w)
      PROVE  blobs \subseteq blobs'
  BY <1>4 DEF DeadlockAbort, Fault, Error, Crash, CommitUnknown,
     CommitIndexUnknown, Fail
<1> QED BY <1>1, <1>2, <1>3, <1>4 DEF Next, Step

\* Where the page of an article comes from.
HasPage(a) == a.raw # NoHtml => a.raw \in blobs

PagesStored ==
  /\ \A a \in AllRows : HasPage(a)
  /\ \A w \in Workers : \A a \in pending[w] : HasPage(a)

\* Every article, committed, flushed or pending, has its page in the blob
\* store: the page is put before the article is added, and no rollback of any
\* run takes it away.
THEOREM PagesBackArticles == Spec => []BlobBacked
<1>1. Init => PagesStored
  BY DEF Init, IngestionInit, PagesStored, AllRows
<1>2. TypeOK /\ PagesStored /\ [Next]_vars => PagesStored'
  <2> SUFFICES ASSUME TypeOK, PagesStored, [Next]_vars
               PROVE  PagesStored'
    OBVIOUS
  <2>0. \A a : HasPage(a) => HasPage(a)'
    BY BlobsGrow DEF HasPage
  <2>1. CASE Schedule \/ UNCHANGED vars
    <3>1. AllRows' = AllRows
      BY <2>1, RowsScheduled
    <3>2. \A v \in Workers : pending'[v] = pending[v]
      BY <2>1, ScheduleUntouched DEF TypeOK
    <3> QED BY <2>0, <3>1, <3>2 DEF PagesStored
  <2>2. ASSUME NEW w \in Workers, Step(w) \/ Fault(w)
        PROVE  PagesStored'
    <3>1. \A v \in Workers : v # w => pending'[v] = pending[v]
      BY <2>2, OthersUntouched DEF Untouched, TypeOK
    <3>2. \A a \in AllRows' : HasPage(a)'
      <4>1. CASE ~Flush(w)
        BY <2>0, <2>2, <4>1, RowsOnlyFlushed DEF PagesStored
      <4>2. CASE Flush(w)
        <5>1. PICK d \in pending[w], id \in FreeIds :
                inserted' = [inserted EXCEPT ![w] = @ \cup
                  {[id |-> id, url |-> d.url, hash |-> d.hash, raw |-> d.raw]}]
          BY <4>2 DEF Flush
        <5> DEFINE new == [id |-> id, url |-> d.url, hash |-> d.hash, raw |-> d.raw]
        <5>2. AllRows' = AllRows \cup {new}
          BY <4>2, <5>1 DEF Flush, tables, AllRows, TypeOK, RunTypeOK
        <5>3. new.raw = d.raw
          OBVIOUS
        <5> HIDE DEF new
        <5>4. HasPage(d) => HasPage(new)
          BY <5>3 DEF HasPage
        <5> QED BY <2>0, <5>2, <5>4 DEF PagesStored
      <4> QED BY <4>1, <4>2
    <3>3. \A a \in pending'[w] : HasPage(a)'
      <4>1. CASE StoreArticle(w)
        <5> DEFINE d == [url |-> UrlOf(Current(w)), hash |-> HashOf(Current(w)),
                         raw |-> Current(w).html]
        <5>1. pending'[w] = {d} /\ blobs' = blobs \cup ({Current(w).html} \ {NoHtml})
          BY <4>1 DEF StoreArticle, TypeOK, RunTypeOK
        <5>2. d.raw = Current(w).html
          OBVIOUS
        <5> HIDE DEF d
        <5> QED BY <5>1, <5>2 DEF HasPage
      <4>2. CASE ~StoreArticle(w)
        <5>1. Forget(w) => pending'[w] = {}
          BY DEF Forget, TypeOK, RunTypeOK
        <5>2. pending'[w] \subseteq pending[w]
          <6>1. CASE IngestStep(w)
            BY <4>2, <5>1, <6>1 DEF IngestStep, FetchSource, SkipBlank, Flush,
               FlushConflict, CheckUrl, CheckHash, MultipleResultsFound, Commit,
               Fail, TypeOK, RunTypeOK
          <6>2. CASE IndexStep(w)
            BY <5>1, <6>2 DEF IndexStep, SelectUnindexed, NothingToIndex,
               InsertChunks, ChunkConflict, CommitIndex, Fail
          <6>3. CASE DeadlockAbort(w) \/ Fault(w)
            BY <5>1, <6>3 DEF DeadlockAbort, Fault, Error, Crash, CommitUnknown,
               CommitIndexUnknown, Fail
          <6> QED BY <2>2, <6>1, <6>2, <6>3 DEF Step
        <5> QED BY <2>0, <5>2 DEF PagesStored
      <4> QED BY <4>1, <4>2
    <3>4. \A v \in Workers : \A a \in pending'[v] : HasPage(a)'
      <4> SUFFICES ASSUME NEW v \in Workers, NEW a \in pending'[v]
                   PROVE  HasPage(a)'
        OBVIOUS
      <4>1. CASE v = w
        BY <3>3, <4>1
      <4>2. CASE v # w
        BY <2>0, <3>1, <4>2 DEF PagesStored
      <4> QED BY <4>1, <4>2
    <3> QED BY <3>2, <3>4 DEF PagesStored
  <2> QED BY <2>1, <2>2 DEF Next
<1>3. PagesStored => BlobBacked
  BY DEF PagesStored, HasPage, BlobBacked
<1> QED BY <1>1, <1>2, <1>3, TypeCorrect, PTL DEF Spec

\* Runs that select the same articles never insert the same chunks: neither
\* again when they are committed, nor twice in two open transactions.
THEOREM ChunksInsertedOnce == Spec => []NoDoubleIndexing
<1>1. Init => NoDoubleIndexing
  BY DEF Init, IngestionInit, NoDoubleIndexing
<1>2. TypeOK /\ NoDoubleIndexing /\ [Next]_vars => NoDoubleIndexing'
  <2> SUFFICES ASSUME TypeOK, NoDoubleIndexing, [Next]_vars
               PROVE  NoDoubleIndexing'
    OBVIOUS
  <2>1. CASE Schedule \/ UNCHANGED vars
    <3>1. chunked' = chunked
      BY <2>1 DEF Schedule, Enqueue, Start, vars, tables
    <3>2. \A v \in Workers : chunkTxn'[v] = chunkTxn[v]
      BY <2>1, ScheduleUntouched DEF TypeOK
    <3> QED BY <3>1, <3>2 DEF NoDoubleIndexing
  <2>2. ASSUME NEW w \in Workers, Step(w) \/ Fault(w)
        PROVE  NoDoubleIndexing'
    <3>1. \A v \in Workers : v # w => chunkTxn'[v] = chunkTxn[v]
      BY <2>2, OthersUntouched DEF Untouched, TypeOK
    <3>2. CASE InsertChunks(w)
      <4>1. /\ chunkTxn'[w] = chunkTxn[w] \cup {Head(todo[w])}
            /\ chunked' = chunked
            /\ Head(todo[w]) \notin chunked
            /\ \A v \in Workers : v # w => Head(todo[w]) \notin chunkTxn[v]
        BY <3>2 DEF InsertChunks, ChunkWaitsFor, tables, TypeOK, RunTypeOK
      <4> QED BY <3>1, <4>1 DEF NoDoubleIndexing
    <3>3. CASE CommitIndex(w) \/ CommitIndexUnknown(w)
      <4>1. chunkTxn'[w] = {} /\ chunked' = chunked \cup chunkTxn[w]
        BY <3>3 DEF CommitIndex, CommitIndexUnknown, Forget, TypeOK, RunTypeOK
      <4> QED BY <3>1, <4>1 DEF NoDoubleIndexing
    <3>4. CASE ~InsertChunks(w) /\ ~CommitIndex(w) /\ ~CommitIndexUnknown(w)
      <4>1. Forget(w) => chunkTxn'[w] = {}
        BY DEF Forget, TypeOK, RunTypeOK
      <4>2. chunkTxn'[w] \subseteq chunkTxn[w] /\ chunked' = chunked
        <5>1. CASE IngestStep(w)
          BY <4>1, <5>1 DEF IngestStep, FetchSource, SkipBlank, Flush,
             FlushConflict, CheckUrl, CheckHash, MultipleResultsFound,
             StoreArticle, Commit, Fail, tables, indexing
        <5>2. CASE IndexStep(w)
          BY <3>4, <4>1, <5>2 DEF IndexStep, SelectUnindexed, NothingToIndex,
             ChunkConflict, Fail, tables
        <5>3. CASE DeadlockAbort(w) \/ Fault(w)
          BY <3>4, <4>1, <5>3 DEF DeadlockAbort, Fault, Error, Crash,
             CommitUnknown, Fail, tables
        <5> QED BY <2>2, <5>1, <5>2, <5>3 DEF Step
      <4> QED BY <3>1, <4>2 DEF NoDoubleIndexing
    <3> QED BY <3>2, <3>3, <3>4
  <2> QED BY <2>1, <2>2 DEF Next
<1> QED BY <1>1, <1>2, TypeCorrect, PTL DEF Spec

-----------------------------------------------------------------------------
(* Distinct content within a batch                                         *)

\* What a run has flushed differs in content from the rest of it, from the
\* pending article, and from the result it has decided to store.
Fresh(w) ==
  /\ \A a, b \in inserted[w] : a.hash = b.hash => a = b
  /\ \A d \in pending[w], a \in inserted[w] : a.hash # d.hash
  /\ pc[w] = "store" => \A a \in inserted[w] : a.hash # HashOf(Current(w))

FreshOK == \A w \in Workers : Fresh(w)

\* The second duplicate check keeps the articles of one batch distinct in
\* content, because it sees what the run itself has flushed.
THEOREM ContentFresh == Spec => []FreshOK
<1>1. Init => FreshOK
  BY DEF Init, IngestionInit, FreshOK, Fresh
<1>2. TypeOK /\ SessionOK /\ FreshOK /\ [Next]_vars => FreshOK'
  <2> SUFFICES ASSUME TypeOK, SessionOK, FreshOK, [Next]_vars, NEW v \in Workers
               PROVE  Fresh(v)'
    BY DEF FreshOK
  <2>0. Fresh(v) /\ SessionOf(v) /\ RunTypeOK
    BY DEF FreshOK, SessionOK, TypeOK
  <2>1. CASE Schedule \/ UNCHANGED vars
    BY <2>0, <2>1, ScheduleUntouched DEF Fresh, Current
  <2>2. ASSUME NEW w \in Workers, Step(w) \/ Fault(w), v # w
        PROVE  Fresh(v)'
    BY <2>0, <2>2, OthersUntouched DEF Fresh, Untouched, Current
  <2>3. ASSUME Forget(v)
        PROVE  Fresh(v)'
    BY <2>0, <2>3 DEF Forget, Fresh, RunTypeOK
  <2>4. CASE IngestStep(v)
    <3>1. CASE FetchSource(v) \/ SkipBlank(v)
      BY <2>0, <3>1 DEF FetchSource, SkipBlank, Fresh
    <3>2. CASE Flush(v)
      <4>1. PICK d \in pending[v], id \in FreeIds :
              inserted' = [inserted EXCEPT ![v] = @ \cup
                {[id |-> id, url |-> d.url, hash |-> d.hash, raw |-> d.raw]}]
        BY <3>2 DEF Flush
      <4> DEFINE new == [id |-> id, url |-> d.url, hash |-> d.hash, raw |-> d.raw]
      <4>2. /\ inserted'[v] = inserted[v] \cup {new} /\ new.hash = d.hash
            /\ pending'[v] = {} /\ pc'[v] = "loop"
        BY <2>0, <3>2, <4>1 DEF Flush, AtStatement, RunTypeOK
      <4> HIDE DEF new
      <4> QED BY <2>0, <4>2 DEF Fresh
    <3>3. CASE FlushConflict(v) \/ MultipleResultsFound(v)
      BY <2>3, <3>3 DEF FlushConflict, MultipleResultsFound, Fail
    <3>4. CASE CheckUrl(v)
      BY <2>0, <3>4 DEF CheckUrl, AtStatement, Goto, Fresh, RunTypeOK
    <3>5. CASE CheckHash(v)
      <4>1. pending'[v] = pending[v] /\ inserted'[v] = inserted[v] /\ feed' = feed
        BY <3>5 DEF CheckHash, fetching
      <4>2. CASE SameContent(v) = {}
        <5>1. \A a \in inserted[v] : a.hash # HashOf(Current(v))
          BY <4>2 DEF SameContent, Visible
        <5>2. pos' = pos
          BY <3>5, <4>2 DEF CheckHash
        <5> QED BY <2>0, <4>1, <5>1, <5>2 DEF Fresh, Current
      <4>3. CASE SameContent(v) # {}
        <5>1. pc'[v] = "loop"
          BY <2>0, <3>5, <4>3 DEF CheckHash, Goto, RunTypeOK
        <5> QED BY <2>0, <4>1, <5>1 DEF Fresh
      <4> QED BY <4>2, <4>3
    <3>6. CASE StoreArticle(v)
      <4> DEFINE d == [url |-> UrlOf(Current(v)), hash |-> HashOf(Current(v)),
                       raw |-> Current(v).html]
      <4>1. /\ pending'[v] = {d} /\ d.hash = HashOf(Current(v))
            /\ inserted'[v] = inserted[v] /\ pc'[v] = "loop" /\ pc[v] = "store"
        BY <2>0, <3>6 DEF StoreArticle, Goto, RunTypeOK
      <4> HIDE DEF d
      <4> QED BY <2>0, <4>1 DEF Fresh
    <3>7. CASE Commit(v)
      BY <2>0, <3>7 DEF Commit, ReadyToCommit, Goto, Fresh, RunTypeOK
    <3> QED BY <2>4, <3>1, <3>2, <3>3, <3>4, <3>5, <3>6, <3>7 DEF IngestStep
  <2>5. CASE IndexStep(v)
    <3>1. CASE SelectUnindexed(v)
      BY <2>0, <3>1 DEF SelectUnindexed, Goto, Fresh, RunTypeOK
    <3>2. CASE InsertChunks(v)
      BY <2>0, <3>2 DEF InsertChunks, Fresh
    <3>3. CASE NothingToIndex(v) \/ ChunkConflict(v) \/ CommitIndex(v)
      BY <2>3, <3>3 DEF NothingToIndex, ChunkConflict, CommitIndex, Fail
    <3> QED BY <2>5, <3>1, <3>2, <3>3 DEF IndexStep
  <2>6. CASE DeadlockAbort(v) \/ Fault(v)
    BY <2>3, <2>6 DEF DeadlockAbort, Fault, Error, Crash, CommitUnknown,
       CommitIndexUnknown, Fail
  <2> QED BY <2>1, <2>2, <2>4, <2>5, <2>6 DEF Next, Step
<1> QED BY <1>1, <1>2, TypeCorrect, SessionCorrect, PTL DEF Spec

-----------------------------------------------------------------------------
(* Chunks only of committed articles                                       *)

ArticleIds == {a.id : a \in articles}

\* What run w indexes.
IndexesArticles(w) ==
  /\ chunkTxn[w] \subseteq ArticleIds
  /\ \A i \in DOMAIN todo[w] : todo[w][i] \in ArticleIds

ChunksOfArticles ==
  /\ chunked \subseteq ArticleIds
  /\ \A w \in Workers : IndexesArticles(w)

\* Chunks, committed or not, belong to committed articles: a run selects what
\* it indexes after its commit, and nobody deletes articles.
THEOREM ChunksHaveArticles == Spec => []ChunksOfArticles
<1>1. Init => ChunksOfArticles
  BY DEF Init, IngestionInit, ChunksOfArticles, IndexesArticles
<1>2. TypeOK /\ ChunksOfArticles /\ [Next]_vars => ChunksOfArticles'
  <2> SUFFICES ASSUME TypeOK, ChunksOfArticles, [Next]_vars
               PROVE  ChunksOfArticles'
    OBVIOUS
  <2>0. RunTypeOK
    BY DEF TypeOK
  <2>1. CASE Schedule \/ UNCHANGED vars
    <3>1. articles' = articles /\ chunked' = chunked
      BY <2>1 DEF Schedule, Enqueue, Start, vars, tables
    <3>2. \A v \in Workers : chunkTxn'[v] = chunkTxn[v] /\ todo'[v] = todo[v]
      BY <2>0, <2>1, ScheduleUntouched
    <3> QED BY <3>1, <3>2 DEF ChunksOfArticles, IndexesArticles, ArticleIds
  <2>2. ASSUME NEW w \in Workers, Step(w) \/ Fault(w)
        PROVE  ChunksOfArticles'
    <3>1. ArticleIds \subseteq ArticleIds'
      BY <2>2, ArticlesGrow DEF ArticleIds
    <3>2. \A v \in Workers : v # w => chunkTxn'[v] = chunkTxn[v] /\ todo'[v] = todo[v]
      BY <2>0, <2>2, OthersUntouched DEF Untouched
    <3>3. ASSUME Forget(w)
          PROVE  IndexesArticles(w)'
      <4>1. chunkTxn'[w] = {} /\ todo'[w] = <<>>
        BY <2>0, <3>3 DEF Forget, RunTypeOK
      <4> QED BY <4>1 DEF IndexesArticles
    <3>4. ASSUME chunkTxn'[w] = chunkTxn[w], todo'[w] = todo[w]
          PROVE  IndexesArticles(w)'
      BY <3>1, <3>4 DEF IndexesArticles, ChunksOfArticles
    <3>5. IndexesArticles(w)'
      <4>1. CASE IngestStep(w)
        BY <3>3, <3>4, <4>1 DEF IngestStep, FetchSource, SkipBlank, Flush,
           FlushConflict, CheckUrl, CheckHash, MultipleResultsFound,
           StoreArticle, Commit, Fail, indexing
      <4>2. CASE SelectUnindexed(w)
        <5>0. PICK S \in SUBSET Unindexed : \E s \in Orders(S) : todo'[w] = s
          BY <2>0, <4>2 DEF SelectUnindexed, RunTypeOK
        <5>1. PICK s \in Orders(S) : todo'[w] = s
          BY <5>0
        <5>2. \A i \in DOMAIN s : s[i] \in ArticleIds
          BY DEF Orders, Unindexed, ArticleIds
        <5>3. chunkTxn' = chunkTxn
          BY <4>2 DEF SelectUnindexed
        <5> QED BY <3>1, <5>1, <5>2, <5>3 DEF IndexesArticles, ChunksOfArticles
      <4>3. CASE InsertChunks(w)
        <5>1. /\ todo[w] \in Seq(Ids) /\ todo[w] # <<>>
              /\ todo'[w] = Tail(todo[w])
              /\ chunkTxn'[w] = chunkTxn[w] \cup {Head(todo[w])}
          BY <2>0, <4>3 DEF InsertChunks, RunTypeOK
        <5>2. Head(todo[w]) = todo[w][1] /\ 1 \in DOMAIN todo[w]
          BY <5>1, LenProperties, EmptySeq, HeadTailProperties
        <5>3. \A i \in DOMAIN Tail(todo[w]) :
                i + 1 \in DOMAIN todo[w] /\ Tail(todo[w])[i] = todo[w][i + 1]
          BY <5>1, LenProperties, HeadTailProperties
        <5> QED BY <3>1, <5>1, <5>2, <5>3 DEF IndexesArticles, ChunksOfArticles
      <4>4. CASE NothingToIndex(w) \/ ChunkConflict(w) \/ CommitIndex(w)
        BY <3>3, <4>4 DEF NothingToIndex, ChunkConflict, CommitIndex, Fail
      <4>5. CASE DeadlockAbort(w) \/ Fault(w)
        BY <3>3, <4>5 DEF DeadlockAbort, Fault, Error, Crash, CommitUnknown,
           CommitIndexUnknown, Fail
      <4> QED BY <2>2, <4>1, <4>2, <4>3, <4>4, <4>5 DEF Step, IndexStep
    <3>6. chunked' \subseteq chunked \cup chunkTxn[w]
      <4>1. CASE IngestStep(w)
        BY <4>1 DEF IngestStep, FetchSource, SkipBlank, Flush, FlushConflict,
           CheckUrl, CheckHash, MultipleResultsFound, StoreArticle, Commit,
           Fail, tables
      <4>2. CASE IndexStep(w)
        BY <4>2 DEF IndexStep, SelectUnindexed, NothingToIndex, InsertChunks,
           ChunkConflict, CommitIndex, Fail, tables
      <4>3. CASE DeadlockAbort(w) \/ Fault(w)
        BY <4>3 DEF DeadlockAbort, Fault, Error, Crash, CommitUnknown,
           CommitIndexUnknown, Fail, tables
      <4> QED BY <2>2, <4>1, <4>2, <4>3 DEF Step
    <3>7. \A v \in Workers : IndexesArticles(v)'
      <4> SUFFICES ASSUME NEW v \in Workers, v # w
                   PROVE  IndexesArticles(v)'
        BY <3>5
      <4> QED BY <3>1, <3>2 DEF IndexesArticles, ChunksOfArticles
    <3> QED BY <3>1, <3>6, <3>7 DEF ChunksOfArticles, IndexesArticles
  <2> QED BY <2>1, <2>2 DEF Next
<1> QED BY <1>1, <1>2, TypeCorrect, PTL DEF Spec

-----------------------------------------------------------------------------
(* The refinement                                                          *)

\* Articles appear through a commit of a batch; nothing else touches them.
LEMMA ArticlesAppear ==
  ASSUME NEW w \in Workers, Step(w) \/ Fault(w)
  PROVE  \/ articles' = articles \cup inserted[w] /\ chunked' = chunked
         \/ articles' = articles
<1>1. CASE IngestStep(w)
  BY <1>1 DEF IngestStep, FetchSource, SkipBlank, Flush, FlushConflict, CheckUrl,
     CheckHash, MultipleResultsFound, StoreArticle, Commit, Fail, tables
<1>2. CASE IndexStep(w)
  BY <1>2 DEF IndexStep, SelectUnindexed, NothingToIndex, InsertChunks,
     ChunkConflict, CommitIndex, Fail, tables
<1>3. CASE DeadlockAbort(w) \/ Fault(w)
  BY <1>3 DEF DeadlockAbort, Fault, Error, Crash, CommitUnknown,
     CommitIndexUnknown, Fail, tables
<1> QED BY <1>1, <1>2, <1>3 DEF Step

\* Chunks are never removed.
LEMMA ChunksGrow ==
  ASSUME NEW w \in Workers, Step(w) \/ Fault(w)
  PROVE  chunked \subseteq chunked'
<1>1. CASE IngestStep(w)
  BY <1>1 DEF IngestStep, FetchSource, SkipBlank, Flush, FlushConflict, CheckUrl,
     CheckHash, MultipleResultsFound, StoreArticle, Commit, Fail, tables
<1>2. CASE IndexStep(w)
  BY <1>2 DEF IndexStep, SelectUnindexed, NothingToIndex, InsertChunks,
     ChunkConflict, CommitIndex, Fail, tables
<1>3. CASE DeadlockAbort(w) \/ Fault(w)
  BY <1>3 DEF DeadlockAbort, Fault, Error, Crash, CommitUnknown,
     CommitIndexUnknown, Fail, tables
<1> QED BY <1>1, <1>2, <1>3 DEF Step

\* Every step of the runs is a step of the store, or invisible to it.
LEMMA StepSimulation ==
  TypeOK /\ RowsDistinct /\ FreshOK /\ ChunksOfArticles' /\ [Next]_vars
    => [Store!Next]_Store!storeVars
<1> SUFFICES ASSUME TypeOK, RowsDistinct, FreshOK, ChunksOfArticles', [Next]_vars
             PROVE  [Store!Next]_Store!storeVars
  OBVIOUS
<1>1. CASE Schedule \/ UNCHANGED vars
  BY <1>1 DEF Schedule, Enqueue, Start, vars, tables, Store!storeVars
<1>2. ASSUME NEW w \in Workers, Step(w) \/ Fault(w),
             articles' = articles \cup inserted[w], chunked' = chunked
      PROVE  Store!AddBatch
  <2>1. articles' \subseteq AllRows
    BY <1>2 DEF AllRows
  <2>2. Store!Distinct(articles', "id") /\ Store!Distinct(articles', "url")
    BY <2>1 DEF Store!Distinct, RowsDistinct
  <2>3. articles' \ articles \subseteq inserted[w]
    BY <1>2
  <2>4. Store!Distinct(articles' \ articles, "hash")
    BY <2>3 DEF Store!Distinct, FreshOK, Fresh
  <2>5. articles' \ articles \subseteq Row
    BY <2>3 DEF TypeOK, RunTypeOK
  <2> QED BY <1>2, <2>2, <2>4, <2>5 DEF Store!AddBatch
<1>3. ASSUME NEW w \in Workers, Step(w) \/ Fault(w), articles' = articles
      PROVE  Store!IndexBatch
  <2>1. chunked \subseteq chunked'
    BY <1>3, ChunksGrow
  <2>2. chunked' \subseteq ArticleIds
    BY <1>3 DEF ChunksOfArticles, ArticleIds
  <2> QED BY <1>3, <2>1, <2>2 DEF Store!IndexBatch, Store!IdsOf, ArticleIds
<1> QED BY <1>1, <1>2, <1>3, ArticlesAppear DEF Next, Store!Next

\* Readers of the database see an ArticleStore, however many runs there are
\* and however they fail.
THEOREM Implementation == Spec => ImplementsArticleStore
<1>1. Init => Store!Init
  BY DEF Init, IngestionInit, Store!Init
<1> QED
  BY <1>1, StepSimulation, TypeCorrect, RowsStayDistinct, ContentFresh,
     ChunksHaveArticles, PTL DEF Spec, ImplementsArticleStore, Store!Spec
=============================================================================
