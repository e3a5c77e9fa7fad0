----------------------------- MODULE Ingestion ------------------------------
(***************************************************************************)
(* ingest_task: run_ingestion (packages/ingestion/pipeline.py) followed by *)
(* index_unembedded_articles (packages/rag/indexer.py), executed by any    *)
(* number of worker processes over one PostgreSQL database and one blob    *)
(* directory.                                                              *)
(*                                                                         *)
(* A run uses one database session.  Its first transaction spans the whole *)
(* of run_ingestion: every SELECT of the duplicate checks first flushes    *)
(* the pending article (SQLAlchemy's autoflush), reads what is committed   *)
(* plus the run's own flushed rows (READ COMMITTED), and one COMMIT ends   *)
(* it.  The second transaction inserts the chunks of a batch of articles.  *)
(* A unique index makes an INSERT wait for the other transaction that      *)
(* holds the same key, and PostgreSQL aborts one member of a cycle of      *)
(* such waits.  Any exception ends the run with a rollback and a retry.    *)
(***************************************************************************)
EXTENDS Broker, Sequences, FiniteSets

CONSTANTS
  Urls, CanonicalUrl,   \* URLs as fetched; their canonical form (dedup.py)
  Texts, ContentHash,   \* extracted texts; hash of the normalised text
  Blank,                \* texts that are empty after strip()
  Htmls, NoHtml,        \* raw pages, identified with their digest; b""
  NumSources,           \* number of configured sources
  Listings,             \* Listings[i]: what source i may return in one run
  BatchSize,            \* batch_size of index_unembedded_articles
  Ids                   \* article ids (uuid4: fresh while any is free)

Result == [url : Urls, text : Texts, html : Htmls \cup {NoHtml}]

ASSUME IngestionAssumption ==
  /\ DOMAIN CanonicalUrl = Urls
  /\ DOMAIN ContentHash = Texts
  /\ Blank \subseteq Texts
  /\ NumSources \in Nat
  /\ \A i \in 1..NumSources : Listings[i] \subseteq Seq(Result)
  /\ BatchSize \in Nat \ {0}
  /\ IsFiniteSet(Ids)

VARIABLES
  articles,     \* committed rows of the articles table
  chunked,      \* ids of the articles whose chunks are committed
  blobs,        \* digests of the pages in the blob store
  pc,           \* where the run of each worker is
  src,          \* number of sources the run has fetched
  feed,         \* results of the sources fetched so far, in order
  pos,          \* index in feed of the result being looked at
  pending,      \* the article added to the session and not yet flushed
  inserted,     \* articles flushed by the run and not committed
  todo,         \* articles whose chunks are still to be inserted, in order
  chunkTxn      \* articles whose chunks are inserted and not committed

tables == <<articles, chunked>>
fetching == <<src, feed>>
indexing == <<todo, chunkTxn>>
vars == <<brokerVars, tables, blobs, pc, fetching, pos, pending, inserted,
          indexing>>

-----------------------------------------------------------------------------
(* The rows, and what a transaction can see of them.                       *)

CanonicalUrls == {CanonicalUrl[u] : u \in Urls}
Hashes == {ContentHash[t] : t \in Texts}

Draft == [url : CanonicalUrls, hash : Hashes, raw : Htmls \cup {NoHtml}]
Row == [id : Ids, url : CanonicalUrls, hash : Hashes, raw : Htmls \cup {NoHtml}]

UrlOf(r) == CanonicalUrl[r.url]
HashOf(r) == ContentHash[r.text]

AllRows == articles \cup UNION {inserted[w] : w \in Workers}

\* Mutated form: the session reads what others have not committed.
VisibleDirty(w) == AllRows

\* What a SELECT of worker w returns rows from.
Visible(w) == articles \cup inserted[w]

FreeIds == Ids \ {a.id : a \in AllRows}

Labels == {"idle", "loop", "hash", "store", "index", "chunk"}

IngestionInit ==
  /\ articles = {}
  /\ chunked = {}
  /\ blobs = {}
  /\ pc = [w \in Workers |-> "idle"]
  /\ src = [w \in Workers |-> 0]
  /\ feed = [w \in Workers |-> <<>>]
  /\ pos = [w \in Workers |-> 1]
  /\ pending = [w \in Workers |-> {}]
  /\ inserted = [w \in Workers |-> {}]
  /\ todo = [w \in Workers |-> <<>>]
  /\ chunkTxn = [w \in Workers |-> {}]

Init == BrokerInit /\ IngestionInit

-----------------------------------------------------------------------------
(* Leaving a run.  The session's context manager rolls back what is open.  *)

Forget(w) ==
  /\ pc' = [pc EXCEPT ![w] = "idle"]
  /\ src' = [src EXCEPT ![w] = 0]
  /\ feed' = [feed EXCEPT ![w] = <<>>]
  /\ pos' = [pos EXCEPT ![w] = 1]
  /\ pending' = [pending EXCEPT ![w] = {}]
  /\ inserted' = [inserted EXCEPT ![w] = {}]
  /\ todo' = [todo EXCEPT ![w] = <<>>]
  /\ chunkTxn' = [chunkTxn EXCEPT ![w] = {}]

\* Mutated form: the pages put by the failing run are deleted again.
FailDeletingPages(w) ==
  /\ Forget(w) /\ Raise(w) /\ UNCHANGED tables
  /\ blobs' = blobs \ {a.raw : a \in inserted[w] \cup pending[w]}

Fail(w) == Forget(w) /\ Raise(w) /\ UNCHANGED <<tables, blobs>>

Goto(w, l) == pc' = [pc EXCEPT ![w] = l]

\* Mutated form: one result is passed over.
AdvanceTwice(w) == pos' = [pos EXCEPT ![w] = @ + 2]

Advance(w) == pos' = [pos EXCEPT ![w] = @ + 1]

Start(w, m) ==
  /\ Take(w, m)
  /\ Goto(w, "loop")
  /\ UNCHANGED <<tables, blobs, fetching, pos, pending, inserted, indexing>>

-----------------------------------------------------------------------------
(* run_ingestion *)

AtEnd(w) == pos[w] > Len(feed[w])
Current(w) == feed[w][pos[w]]

\* for src in sources: results = await _fetch_source(src)
FetchSource(w) ==
  /\ pc[w] = "loop" /\ AtEnd(w) /\ src[w] < NumSources
  /\ src' = [src EXCEPT ![w] = @ + 1]
  /\ \E results \in Listings[src'[w]] : feed' = [feed EXCEPT ![w] = @ \o results]
  /\ UNCHANGED <<brokerVars, tables, blobs, pc, pos, pending, inserted,
                 indexing>>

\* if not result.text.strip(): continue
SkipBlank(w) ==
  /\ pc[w] = "loop" /\ ~AtEnd(w) /\ Current(w).text \in Blank
  /\ Advance(w)
  /\ UNCHANGED <<brokerVars, tables, blobs, pc, fetching, pending, inserted,
                 indexing>>

\* A statement is about to be executed: the next duplicate check, or COMMIT.
AtStatement(w) ==
  /\ pc[w] = "loop"
  /\ IF AtEnd(w) THEN src[w] = NumSources ELSE Current(w).text \notin Blank

\* Mutated form: canonical_url is not a unique column.
UrlNeverTaken(d, rows) == FALSE

UrlTaken(d, rows) == \E a \in rows : a.url = d.url

\* Another transaction holds the key in the unique index.
FlushWaitsFor(w, v) ==
  /\ v # w
  /\ AtStatement(w)
  /\ \E d \in pending[w] : UrlTaken(d, inserted[v])

\* Autoflush: INSERT the pending article.
Flush(w) ==
  /\ AtStatement(w)
  /\ \A v \in Workers : ~FlushWaitsFor(w, v)
  /\ \E d \in pending[w] :
       /\ ~UrlTaken(d, Visible(w))
       /\ \E id \in FreeIds :
            inserted' = [inserted EXCEPT ![w] = @ \cup
              {[id |-> id, url |-> d.url, hash |-> d.hash, raw |-> d.raw]}]
  /\ pending' = [pending EXCEPT ![w] = {}]
  /\ UNCHANGED <<brokerVars, tables, blobs, pc, fetching, pos, indexing>>

\* The INSERT violates the unique index: IntegrityError ends the run.
FlushConflict(w) ==
  /\ AtStatement(w)
  /\ \A v \in Workers : ~FlushWaitsFor(w, v)
  /\ \E d \in pending[w] : UrlTaken(d, Visible(w))
  /\ Fail(w)

\* Mutated form: the check by canonical URL is left out.
CheckUrlNot(w) ==
  /\ AtStatement(w) /\ ~AtEnd(w) /\ pending[w] = {}
  /\ Goto(w, "hash")
  /\ UNCHANGED <<brokerVars, tables, blobs, fetching, pos, pending, inserted,
                 indexing>>

\* The first duplicate check, by canonical URL.
CheckUrl(w) ==
  /\ AtStatement(w) /\ ~AtEnd(w) /\ pending[w] = {}
  /\ IF \E a \in Visible(w) : a.url = UrlOf(Current(w))
       THEN Advance(w) /\ UNCHANGED pc
       ELSE Goto(w, "hash") /\ UNCHANGED pos
  /\ UNCHANGED <<brokerVars, tables, blobs, fetching, pending, inserted,
                 indexing>>

\* Mutated form: the run does not see the articles it is about to commit.
SameContentCommitted(w) == {a \in articles : a.hash = HashOf(Current(w))}

SameContent(w) == {a \in Visible(w) : a.hash = HashOf(Current(w))}

\* The second check, by content hash: scalar_one_or_none returns a row or
\* none; with several rows it raises MultipleResultsFound.
CheckHash(w) ==
  /\ pc[w] = "hash"
  /\ Cardinality(SameContent(w)) < 2
  /\ IF SameContent(w) = {}
       THEN Goto(w, "store") /\ UNCHANGED pos
       ELSE Goto(w, "loop") /\ Advance(w)
  /\ UNCHANGED <<brokerVars, tables, blobs, fetching, pending, inserted,
                 indexing>>

MultipleResultsFound(w) ==
  /\ pc[w] = "hash"
  /\ Cardinality(SameContent(w)) > 1
  /\ Fail(w)

\* raw_path = blob.put(result.html); db.add(article)
StoreArticle(w) ==
  /\ pc[w] = "store"
  /\ blobs' = blobs \cup ({Current(w).html} \ {NoHtml})
  /\ pending' = [pending EXCEPT ![w] =
       {[url |-> UrlOf(Current(w)), hash |-> HashOf(Current(w)),
         raw |-> Current(w).html]}]
  /\ Goto(w, "loop")
  /\ Advance(w)
  /\ UNCHANGED <<brokerVars, tables, fetching, inserted, indexing>>

ReadyToCommit(w) == AtStatement(w) /\ AtEnd(w) /\ pending[w] = {}

\* Mutated form: the index is brought up to date only by a run that has
\* found something new.
CommitIndexIfNew(w) ==
  /\ ReadyToCommit(w)
  /\ articles' = articles \cup inserted[w]
  /\ IF inserted[w] = {}
       THEN Forget(w) /\ Succeed(w)
       ELSE /\ inserted' = [inserted EXCEPT ![w] = {}]
            /\ Goto(w, "index")
            /\ UNCHANGED <<brokerVars, fetching, pos, pending, indexing>>
  /\ UNCHANGED <<chunked, blobs>>

Commit(w) ==
  /\ ReadyToCommit(w)
  /\ articles' = articles \cup inserted[w]
  /\ inserted' = [inserted EXCEPT ![w] = {}]
  /\ Goto(w, "index")
  /\ UNCHANGED <<brokerVars, chunked, blobs, fetching, pos, pending, indexing>>

\* The server commits but the connection is lost before the answer arrives.
CommitUnknown(w) ==
  /\ ReadyToCommit(w)
  /\ articles' = articles \cup inserted[w]
  /\ Forget(w) /\ Raise(w)
  /\ UNCHANGED <<chunked, blobs>>

-----------------------------------------------------------------------------
(* index_unembedded_articles *)

Unindexed == {a.id : a \in articles} \ chunked

\* The orders in which a SELECT without ORDER BY may return the set S.
Orders(S) ==
  {s \in [1..Cardinality(S) -> S] : \A x \in S : \E i \in DOMAIN s : s[i] = x}

\* SELECT ... WHERE chunks.id IS NULL LIMIT batch_size
SelectUnindexed(w) ==
  /\ pc[w] = "index"
  /\ Unindexed # {}
  /\ \E S \in SUBSET Unindexed :
       /\ Cardinality(S) <= BatchSize
       /\ S = Unindexed \/ Cardinality(S) = BatchSize
       /\ \E s \in Orders(S) : todo' = [todo EXCEPT ![w] = s]
  /\ Goto(w, "chunk")
  /\ UNCHANGED <<brokerVars, tables, blobs, fetching, pos, pending, inserted,
                 chunkTxn>>

NothingToIndex(w) ==
  /\ pc[w] = "index"
  /\ Unindexed = {}
  /\ Forget(w) /\ Succeed(w)
  /\ UNCHANGED <<tables, blobs>>

\* Another transaction holds (article_id, chunk_index) in the unique index.
ChunkWaitsFor(w, v) ==
  /\ v # w
  /\ todo[w] # <<>>
  /\ Head(todo[w]) \in chunkTxn[v]

\* Mutated form: (article_id, chunk_index) is not unique.
InsertChunksAgain(w) ==
  /\ pc[w] = "chunk" /\ todo[w] # <<>>
  /\ chunkTxn' = [chunkTxn EXCEPT ![w] = @ \cup {Head(todo[w])}]
  /\ todo' = [todo EXCEPT ![w] = Tail(@)]
  /\ UNCHANGED <<brokerVars, tables, blobs, pc, fetching, pos, pending,
                 inserted>>

\* The flush that precedes COMMIT inserts the chunks, article by article.
InsertChunks(w) ==
  /\ pc[w] = "chunk" /\ todo[w] # <<>>
  /\ \A v \in Workers : ~ChunkWaitsFor(w, v)
  /\ Head(todo[w]) \notin chunked
  /\ chunkTxn' = [chunkTxn EXCEPT ![w] = @ \cup {Head(todo[w])}]
  /\ todo' = [todo EXCEPT ![w] = Tail(@)]
  /\ UNCHANGED <<brokerVars, tables, blobs, pc, fetching, pos, pending,
                 inserted>>

ChunkConflict(w) ==
  /\ pc[w] = "chunk" /\ todo[w] # <<>>
  /\ \A v \in Workers : ~ChunkWaitsFor(w, v)
  /\ Head(todo[w]) \in chunked
  /\ Fail(w)

CommitIndex(w) ==
  /\ pc[w] = "chunk" /\ todo[w] = <<>>
  /\ chunked' = chunked \cup chunkTxn[w]
  /\ Forget(w) /\ Succeed(w)
  /\ UNCHANGED <<articles, blobs>>

CommitIndexUnknown(w) ==
  /\ pc[w] = "chunk" /\ todo[w] = <<>>
  /\ chunked' = chunked \cup chunkTxn[w]
  /\ Forget(w) /\ Raise(w)
  /\ UNCHANGED <<articles, blobs>>

-----------------------------------------------------------------------------
(* Failures *)

WaitsFor(w, v) == FlushWaitsFor(w, v) \/ ChunkWaitsFor(w, v)

\* Mutated form: transactions wait for each other for ever.
NeverAborted(w) == FALSE

\* PostgreSQL's deadlock detector aborts a transaction of a cycle of waits.
DeadlockAbort(w) ==
  /\ \E S \in SUBSET Workers :
       /\ w \in S
       /\ \A v \in S : \E u \in S : WaitsFor(v, u)
  /\ Fail(w)

\* Any other exception: network, database connection, file system, embedder.
Error(w) ==
  /\ pc[w] # "idle"
  /\ Fail(w)

\* The worker process dies; PostgreSQL rolls its transaction back.
Crash(w) ==
  /\ pc[w] # "idle"
  /\ Forget(w) /\ Die(w)
  /\ UNCHANGED <<tables, blobs>>

-----------------------------------------------------------------------------

Enqueue(m) ==
  /\ Trigger(m)
  /\ UNCHANGED <<tables, blobs, pc, fetching, pos, pending, inserted, indexing>>

IngestStep(w) ==
  \/ FetchSource(w) \/ SkipBlank(w) \/ Flush(w) \/ FlushConflict(w)
  \/ CheckUrl(w) \/ CheckHash(w) \/ MultipleResultsFound(w)
  \/ StoreArticle(w) \/ Commit(w)

IndexStep(w) ==
  \/ SelectUnindexed(w) \/ NothingToIndex(w) \/ InsertChunks(w)
  \/ ChunkConflict(w) \/ CommitIndex(w)

\* What a worker does when nothing outside the database goes wrong.
Step(w) == IngestStep(w) \/ IndexStep(w) \/ DeadlockAbort(w)

Fault(w) ==
  Error(w) \/ Crash(w) \/ CommitUnknown(w) \/ CommitIndexUnknown(w)

Schedule ==
  \/ \E m \in Msgs : Enqueue(m)
  \/ \E w \in Workers, m \in Msgs : Start(w, m)

Next == Schedule \/ \E w \in Workers : Step(w) \/ Fault(w)

Spec == Init /\ [][Next]_vars

-----------------------------------------------------------------------------
(* Safety *)

TablesTypeOK ==
  /\ articles \in SUBSET Row
  /\ chunked \in SUBSET Ids
  /\ blobs \in SUBSET Htmls

RunTypeOK ==
  /\ pc \in [Workers -> Labels]
  /\ src \in [Workers -> 0..NumSources]
  /\ feed \in [Workers -> Seq(Result)]
  /\ pos \in [Workers -> Nat]
  /\ pending \in [Workers -> SUBSET Draft]
  /\ inserted \in [Workers -> SUBSET Row]
  /\ todo \in [Workers -> Seq(Ids)]
  /\ chunkTxn \in [Workers -> SUBSET Ids]

\* The cursor of a run never leaves the results it has fetched by more than
\* one position, and is on a result with text during the second check.
CursorOK ==
  \A w \in Workers :
    /\ pos[w] \in 1..Len(feed[w]) + 1
    /\ pc[w] \in {"hash", "store"} =>
         pos[w] \in DOMAIN feed[w] /\ Current(w).text \notin Blank

\* Every variable stays in its range.
TypeOK == BrokerTypeOK /\ TablesTypeOK /\ RunTypeOK /\ CursorOK

\* rows keep the story r: the same address or the same content.
Covered(r, rows) == \E a \in rows : a.url = UrlOf(r) \/ a.hash = HashOf(r)

\* No story is lost to the duplicate checks.  Whatever the run has gone past
\* and has text is represented: while the run ingests, by a committed
\* article or one of its own; once it has committed, by a committed article.
\* So what the checks relied on to skip a result never disappears, although
\* other runs fail, crash and roll back in between.
NothingDropped ==
  \A w \in Workers : \A i \in 1..pos[w] - 1 :
    feed[w][i].text \notin Blank =>
      Covered(feed[w][i], articles \cup inserted[w] \cup pending[w])

\* No two rows, committed or not, of any transaction, share a canonical URL.
UniqueCanonicalUrl == \A a, b \in AllRows : a.url = b.url => a = b

\* Every article that is stored, or on its way, has its page in the blob
\* store, although the store is shared by runs and takes no part in their
\* rollbacks.
BlobBacked ==
  \A a \in AllRows \cup UNION {pending[w] : w \in Workers} :
    a.raw # NoHtml => a.raw \in blobs

\* Two runs that selected the same unindexed article never both insert its
\* chunks, and none inserts chunks that are committed already.
NoDoubleIndexing ==
  /\ \A w \in Workers : chunkTxn[w] \cap chunked = {}
  /\ \A w, v \in Workers : w # v => chunkTxn[w] \cap chunkTxn[v] = {}

Store == INSTANCE ArticleStore
  WITH Rows <- Row, table <- articles, indexed <- chunked

\* The readers of the database see an ArticleStore: whole batches, distinct
\* canonical URLs, distinct content within a batch, chunks after articles,
\* nothing removed.
ImplementsArticleStore == Store!Spec

-----------------------------------------------------------------------------
(* Liveness.  The beat keeps firing, free workers keep taking messages, and *)
(* a run that can proceed again and again does (a waiting INSERT is woken   *)
(* when the transaction it waits for ends).                                 *)

Fairness ==
  /\ WF_vars(\E m \in Msgs : Enqueue(m))
  /\ \A w \in Workers :
       /\ WF_vars(\E m \in Msgs : Start(w, m))
       /\ SF_vars(Step(w))

FairSpec == Spec /\ Fairness

\* From some point on nothing fails but what the data in the database makes
\* fail.  Deadlocks between runs count as faults here: two runs that meet in
\* opposite orders could abort each other for ever, were it not for the 60 s
\* before a retry.
FaultsStop ==
  <>[][\A w \in Workers :
         Fault(w) \/ DeadlockAbort(w) => IngestStep(w) \/ IndexStep(w)]_vars

\* Every run ends, although transactions wait for each other: no worker is
\* lost to a deadlock in the database.
RunsEnd == \A w \in Workers : pc[w] # "idle" ~> pc[w] = "idle"

\* Runs keep getting through to their first commit: one bad cycle does not
\* stop the ones that follow ("continuously ingests", README.md).
KeepsIngesting == FaultsStop => []<>(\E w \in Workers : pc[w] = "index")

\* An article that is stored is indexed in the end, also when the run that
\* stored it failed or died between its two commits.
ArticlesGetIndexed ==
  FaultsStop => \A i \in Ids : (\E a \in articles : a.id = i) ~> i \in chunked
=============================================================================
