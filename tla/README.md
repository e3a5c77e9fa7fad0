# financial-news: TLA+ models and proofs

This directory specifies and verifies the core of the financial-news system:
what its Celery tasks do to the database, the mailbox, the blob store and the
SMTP server when several of them run at once, fail, are retried, or die, and
what the algorithms they call promise them.

- `PROJECT.json` lists the components, the model-checking runs, one mutant per
  property, the source lines behind every definition, the hazards and the theorems.
- `tlc -workers 2 -config X.cfg M` checks a run, `tlapm M.tla` a proof module.

Paths below are relative to `src/`.

## 1. The system

### Components, their state and operations

| component | source | state | operations |
|---|---|---|---|
| task broker, worker pool | `apps/worker/celery_app.py`, `infra/docker-compose.yml` | messages in Redis, retries of each, what each of the two worker processes executes | beat fires, an endpoint queues, a worker takes and acknowledges, a task returns, `self.retry`, a worker dies |
| ingestion pipeline | `packages/ingestion/pipeline.py` | table `articles`, one open transaction per run | fetch a source, two duplicate checks, put the page, add the article, commit |
| indexing pipeline | `packages/rag/indexer.py` | table `chunks`, a second transaction | select articles without chunks, cut, embed, insert, commit |
| chunker | `packages/rag/chunker.py` | none (a loop) | `chunk_text` |
| normalisation | `packages/ingestion/dedup.py` | none | `canonical_url`, `content_hash`, `excerpt_hash` |
| blob store | `packages/ingestion/blob_store.py` | files under their SHA-256 | `put`, `get`, `exists` |
| fetcher, RSS reader | `packages/ingestion/fetcher.py`, `rss.py` | cache of `robots.txt` | `fetch_url`, `ingest_rss` |
| inbound mail | `packages/emailer/imap.py`, `apps/worker/tasks.py:183-298` | flags in the mailbox, a list of messages in memory | search, fetch, store, parse, record, answer |
| parser, ledger | `packages/portfolio/` | table `trade_actions` | `parse_action`, `record_action`, `get_positions` |
| alert engine | `packages/alerts/engine.py`, `tasks.py:115-180` | tables `alerts`, `alert_sources` | read the window, search, confirm, guard, add and link, commit, mail, note `sent_at` |
| briefing | `tasks.py:55-112` | table `briefings` | search, guard, commit, mail |
| retriever, guard, model client | `packages/rag/` | none | `hybrid_search`, `_validate_citations`, `complete_json` |
| scorer, entities | `packages/alerts/scorer.py`, `entity_extractor.py` | none | `score_article` |
| backtests, evaluation | `packages/backtest/`, `packages/eval/` | tables `backtest_results`, `eval_records` | `run_backtest`, `run_evaluation` |
| HTTP API | `apps/api/main.py` | none | queue a task, read tables, record a trade, run a backtest |

### How they interact

Everything runs as a Celery task. Beat and the API put messages on one queue; a
worker process takes one at a time. `task_acks_late` is left at its default, so
the message is acknowledged before the task body runs and a worker that dies
takes it along; a body that raises is re-published by `self.retry`. Nothing
prevents two runs of the same task from overlapping: the period may be shorter
than the run, `POST /ingest/run` may add one, a retry may meet the next beat.

The runs share PostgreSQL (READ COMMITTED, one session per run), the blob
directory, the mailbox and the SMTP server. Only the first has transactions.
An alert or a briefing reads, through the retriever, what ingestion has
committed; mails and ledger rows are effects outside any transaction that
would also cover what caused them.

### What is hard

*Interleaving and staleness*: a duplicate check is followed by an insert much
later, in a transaction as long as the whole cycle. *Waits and deadlocks*: a
unique index makes an `INSERT` wait for the other transaction. *Partial
failure*: a commit whose answer is lost, a mail accepted by a server that then
fails, a page put for an article that is rolled back, three mails of which two
are sent. *Crashes* between the two commits of an ingestion run, between
`\Seen` and the ledger, between a row and its mail. *Retries* that meet the
effects of the failed run. *Order*: timestamps are those of transactions, not of
commits. *Caches* that outlive what they were filled from. *Boundaries* in the
chunker's loop, in averages, ratios, caps and day searches. `PROJECT.json` lists
them as hazards, each at its line.

### What makes each part correct

- Ingestion: no story is lost to the duplicate checks; canonical URLs are
  unique; articles appear in whole batches; a stored page backs every article;
  cycles keep getting through.
- Indexing: every stored article is indexed in the end, once.
- Chunker: it returns, loses no text, numbers chunks without gaps.
- Inbound mail: what is confirmed is recorded; a trade is not recorded again by
  a retry; a message is answered or a failure accounts for it.
- Alerts and briefings: what is visible is complete and confirmed; a mail tells
  of a committed row, at most once; `sent_at` is true.
- Portfolio: timestamps keep the order of one session; the average cost of a
  position lies between the prices paid, and is money over quantity.
- Fetching and blobs: a disallowed page is not fetched while the rules of its
  site can be read (redirects aside, section 5); every article's page has
  a file under its digest, which is incomplete only while a put of it is under
  way or after one broke off.
- Search: no chunk found is beaten by one that is worse in both respects, and
  `top_k` are returned if as many were found. Guard: what passes mentions chunks
  of the context only. Backtest: the trade goes forward in time.
  Rates: when they can exceed 1. Scores: prose alone does not alert. Addresses:
  tracking parameters do not tell two of them apart.

## 2. Modules

| module | models | composed with |
|---|---|---|
| `Broker` | queue, retries, worker pool | extended by the three task modules, which conjoin its actions with theirs |
| `ArticleStore` | abstract: what `articles` and `chunks` promise their readers | refined by `Ingestion` |
| `Ingestion` | `ingest_task`: `run_ingestion`, then `index_unembedded_articles` | `Broker`; `INSTANCE ArticleStore` |
| `InboundMail` | `imap_poll_task`: `IMAPPoller.poll`, then the loop over messages | `Broker` |
| `Outbound` | `alert_task` with `run_alert_engine`, and `briefing_task` | `Broker` |
| `Chunker` | `chunk_text` | called by indexing (see below) |
| `Portfolio` | `parse_action`, `record_action`, `get_positions`, and the sessions of the mail loop and of the API that call them | |
| `Fetcher` | `_fetch_source`, `ingest_rss`, `fetch_url`, the cache of `robots.txt` | extended by `Collection` |
| `BlobStore` | `put` at the level of the file system | instantiated by `Collection` |
| `Collection` | what `Ingestion` takes as single steps: a listing and a put | `Fetcher`, `BlobStore` |
| `Retriever`, `EvidenceGuard`, `Backtest`, `Evaluation`, `Scorer`, `Dedup` | `hybrid_search`, `_validate_citations`, `run_backtest`, `run_evaluation`, `score_article`, `canonical_url` as operators | extended by `Calls` |
| `Calls` | one call of one of these, with any of its arguments | |
| `Selection` | the elements of a sequence that satisfy a test, in order: the comprehensions of the code | used by `Outbound`, `Portfolio` and `Dedup` |
| `MC*` | small instances for TLC | |
| `SequenceLemmas` | facts about sequences, counts, recursive functions and `Selected` that the theorems share | extended by the proof modules that need them |
| `IngestionProofs`, `ChunkerProofs`, `CollectionProofs`, `InboundMailProofs`, `OutboundProofs`, `PortfolioProofs`, `CallsProofs` | theorems, each about the module it is named after (`IngestionProofs` also that `Ingestion` implements `ArticleStore`) | |

### Ingestion

`articles`, `chunked` and `blobs` are what is committed or on disk. A run of
worker `w` is at `pc[w]`; `feed[w]` and `pos[w]` are the results fetched so far
and the loop's cursor; `pending[w]` is the article added to the session and not
flushed; `inserted[w]` and `chunkTxn[w]` are the rows of its open transaction.

- `FetchSource`, `SkipBlank`, `CheckUrl`, `CheckHash`, `StoreArticle`, `Commit`
  are the loop of `run_ingestion`, in its order. Two details decide much: the
  session's *autoflush* sends the pending article to the database at the next
  `SELECT`, not at `db.add` (`Flush`), and `scalar_one_or_none` *raises* when
  there are two rows (`MultipleResultsFound`).
- `Visible(w)` is what a `SELECT` sees: committed rows and the run's own. An
  `INSERT` of a taken key waits (`FlushWaitsFor`) or fails (`FlushConflict`);
  `DeadlockAbort` fails a member of a cycle of waits.
- `SelectUnindexed`, `InsertChunks`, `CommitIndex` are the second transaction.
  The chunks of one article are inserted as one step: the unique key of the
  first chunk, with index 0, decides whether it waits. That an article with
  text has a chunk 0 is what `Chunker` shows (`NothingLost`, `WellFormed`).
- `Error` fails a run at any point, `Crash` kills its worker at any point,
  `CommitUnknown` and `CommitIndexUnknown` commit and lose the answer.

URLs, texts and pages are model values, `CanonicalUrl` and `ContentHash`
arbitrary functions of them. A listing is any of a set of sequences of results,
chosen anew in every run; feeds that fail to load return nothing, which is one
more listing that changes nothing and is left out of the instances.

### InboundMail

`seen` is the flag in the mailbox: `FETCH (RFC822)` sets it, so it is set
before the program's own `STORE`. `ImapError` is the `except IMAP4.error` of
`poll`, which returns what it has so far; `FetchUnreadable` the `continue` when
the answer does not begin with the message; `Error` any other exception.
`Record` and `Reply` have variants whose effect takes place and whose answer is
lost. `abandoned` is a history variable: messages a run let go of unanswered.

### Outbound

`alerts` holds rows with their links, `fired[w]` the rows flushed and not
committed, `outgoing[w]` the ids still to be mailed, `marked[w]` those whose
`sent_at` is set in the session only. `stored` and `aged` are the lookback
window. `Hits` is what the hybrid search may return. A guard that raises skips
the candidate in the alert engine (`AlertGuardFails`) and fails the run in the
briefing (part of `Error`). `abandoned` is a history variable as above.

### Chunker

One action, `Iterate`, per turn of the loop. The arguments are variables chosen
in `Init` and never changed. Characters are reduced to plain space, other white
space and the rest, the classes `isspace`, `strip` and `rfind(" ")` tell apart.
The loop is left by its `break` only: that its condition never fails is part of
`Progress`.

### Portfolio

A session is the `async with AsyncSessionLocal()` of a poll, for all its mails,
or of a request of the API. `began[s]` is when its open transaction began, 0 if
it has none: `EnsureBegun` is the first statement of a transaction, an `INSERT`
or the `SELECT` of a reply, and only a commit or the end of the session closes
it. `Commit` appends the row with `began[s]` as its timestamp, which is what
`server_default=func.now()` yields. `ByTimestamp` is the `ORDER BY` of
`get_positions`: a row's `Rank` is the number of rows whose timestamp is no
later than its own, itself included, and no two rows have the same timestamp
(`TypeOK`). `Positions` folds the rows in that order;
averages are fractions. `Tickers` are the names a row may carry. A text is a
sequence of lines that are commands or prose, and `ParseAction` takes the first
command. An SMTP error, a failed answer and a crash are all `End`: the
transaction is rolled back; what happens to the mails is the subject of
`InboundMail`.

### Collection, Fetcher and BlobStore

`robots[w][s]` is what process `w` knows of the rules of site `s`: `unknown`,
`rules` or `allow_all`, the latter after one failed download and for as long as
the process lives. A feed's entries are fetched in order, `AtEntry`; each gives
a result with a page, or with the feed's summary when `fetch_url` returned
`None` (`FallBack`). A source of type `http` is one page without a summary
(`LoadPage`, `DropPage`). Within a process nothing is fetched concurrently (one
task, one `await` at a time), so the lock around the cache is never contended.

`put` takes three steps: the file is absent, it is opened and thereby truncated,
it is written; an exception or a crash may come after each (`PutBreaks`), and
another process may put the same page in between. `open` and `torn` are history
variables: the sites whose rules could not be read, and the pages whose file
was left truncated. `ArticlesHaveFiles` therefore says only that there is a
file, and `PartialIsAccounted` when it may be incomplete. One run of
`Collection` reads one source; which results are duplicates is left open,
because `Ingestion` is about that. `Calls` and `Collection` do not share state
with `Ingestion`: the constants `Listings`, `CanonicalUrl`, `HighScore` and
`Hits` there range over more than what these modules produce.

### Calls

The pure algorithms are operators, each in a module of its own, written on the
data the properties tell apart: a chunk is a similarity and a rank, an answer of
the model the ids it names and what surrounds the JSON, a text a set of words, a
URL its stem, slashes, query and fragment. What they read from the database is
an argument, one per `SELECT`: under READ COMMITTED two `SELECT`s of one
function may see different states. `ORDER BY ... LIMIT` yields any of the best
sets of rows (`Best`), so `HybridSearch` collects the chunks returned for any
order of ties. The vector `SELECT` is the exception: its `ORDER BY` is answered
by an HNSW index (`alembic/versions/0001_initial.py:53-57`), whose search is
approximate and may return fewer rows than the limit. `VectorRows` therefore
allows any chunks committed at that `SELECT`, at most `2 * top_k` of them, and
`SearchIsSound` is stated for every such choice. `Calls` makes one call with arbitrary arguments, and its invariants relate
the result to them, not to another definition of the same algorithm.

## 3. Runs

| run | checks | instance |
|---|---|---|
| `ingestion` | `TypeOK`, `NothingDropped`, `UniqueCanonicalUrl`, `BlobBacked`, `NoDoubleIndexing`, refinement of `ArticleStore` | 2 workers, 2 messages, 2 sources with 3 possible listings each, 2 of them shared, 3 articles, no retry (a retry is a trigger that comes later) |
| `ingestion_live` | `RunsEnd`, `KeepsIngesting`, `ArticlesGetIndexed` | 2 workers, 2 stories, one of which is edited |
| `ingestion_poison` | `KeepsIngesting` violated | one story at three addresses |
| `mail` | `TypeOK`, `ConfirmedIsRecorded`, `RecordedOncePerRun`, `SeenIsAccounted`, `MailsGetSettled` | 2 workers, 2 messages, no retry; a trade, a question, a stranger's mail |
| `mail_loss` | `SeenTradesAreRecorded` violated | as `mail` |
| `outbound` | `TypeOK`, `AlertsAreConfirmed`, `MailedOnceFromRow`, `SentAtIsTrue`, `UnmailedIsAccounted` | 2 workers, an alert and a briefing message, 1 retry, 3 articles of which 2 score high, 2 rows |
| `briefing_row` | `BriefingRowMeansSent` violated | as `outbound` |
| `chunker` | `TypeOK`, `NothingLost`, `WellFormed`, `Progress`, `Returns` | all texts of up to 6 characters, `chunk_size` 1..4, `overlap` 0..4 |
| `portfolio` | `TypeOK`, `OwnOrder`, `AverageWithinPaid`, `BuysAverage` | a session of mails and one of the API, 3 rows, 4 transactions; buys at two prices and without one, sales that may oversell, every other command |
| `portfolio_average` | `CoveredAverageWithinPaid` violated | as `portfolio` |
| `collection` | `TypeOK`, `RobotsObeyed`, `PartialIsAccounted`, `ArticlesHaveFiles` | 2 processes, 2 sites, a feed longer than the cap with a linkless entry, a page source, 1 content shared by all pages |
| `calls` | `SearchIsSound`, `GuardDecides`, `ForwardTrade`, `RatesAccounted`, `AlertNeedsWatchlist`, `SameAddressSameForm` | see below |

### Bounds

- Two workers are what `docker-compose.yml` runs, and every hazard listed needs
  two. Two messages keep both busy.
- `Ids` bounds the rows ever inserted: with none free a run can only fail, so
  no behaviour is lost that stays below the bound. Three articles allow a
  committed one, one in each open transaction, and the third address of
  `ingestion_poison`; two rows in `Outbound` allow two alerts of one run, or a
  failed run's row and its retry's.
- `MaxRetries` stands for 3 (ingestion) and 2 (mail, alerts, briefing). A retry
  differs from the next beat only in the count, so 1 (both branches of
  `Raise`, in `outbound`), or 0 where the instance is large, loses nothing but
  length: a failed poll is followed by another either way.
- `NumSources`, `Listings`, `BatchSize`: two sources that overlap; a batch of 2
  with 3 articles makes the limit bite.
- `MinSources` is 2, the default of the configuration. `Hits` holds an empty
  result, one with the candidate in it, and one with two chunks of one article.
- In `MCChunker`, `MaxLen` and `MaxSize` let a text hold several chunks, an
  overlap equal to and larger than a chunk, and ends moved back to any place.

- In `MCPortfolio`, three trades are what an average can go wrong with: one to
  hold, one to sell, one to buy afterwards. `MaxClock` is one more than the
  rows, so that a reply can begin a transaction too.
- In `MCCollection`, one content serves two links, so that two processes put the
  same file; `MaxEntries` (20 in the code) is 3, one less than the feed.
- In `MCCalls`, 3 chunks with similarities from -1/2 to 1/4 (`Unit` is 4) and ranks
  0..2 for `top_k` 1 and 2, so that the cut at `2 * top_k` bites, and any of them
  returned by the vector index; answers with up to 2 citations and 2
  items over 2 chunks and an entry without an id, in every kind of fence; price
  series on all subsets of 4 days, holding periods -1..2; 3 alerts with up to 2
  significant backtests, 2 briefings, rows added before each second `SELECT`; texts
  over 8 words that reach every cap, at credibilities up to 1.5; URLs with up to 2 parameters.

Symmetry is used for workers, processes, interchangeable messages and row ids,
in runs without liveness properties only.

`CHECK_DEADLOCK FALSE` in `MCChunker.cfg` and `MCCalls.cfg`: a function that has
returned stops.

### Fairness

`FairSpec` assumes that the beat keeps firing and that a free worker takes a
queued message (weak fairness). A worker that can make a step again and again
makes one: *strong* fairness in `Ingestion`, because a waiting `INSERT` is
enabled and disabled by other runs, and PostgreSQL wakes it when the lock is
released; weak fairness in `InboundMail` and `Chunker`, where no step waits for
another process. No fairness is assumed of faults, of arrivals, or between the
outcomes of a step.

Properties about the long run are conditional on `FaultsStop`: from some point
on nothing fails but what the data makes fail. Deadlocks of runs with each
other count as faults there, since two runs could otherwise meet again and
again in the model; the program waits 60 seconds before it retries. `RunsEnd`
has no such condition.

### What the violations show

1. `ingestion_poison`. `README.md:4` says the system "continuously ingests".
   `content_hash` has no unique constraint, so overlapping runs store one
   content twice; the next lookup of this content at a third address raises
   `MultipleResultsFound` (`pipeline.py:65`) in every run from then on, and with
   it the whole cycle is rolled back.
2. `mail_loss`. `README.md:207` says a command is recorded and confirmed.
   In the trace one poll finds and fetches a trade mail, and `FETCH (RFC822)`
   sets `\Seen` (`imap.py:79`). The answer does not have the message where it is
   expected, so the poll passes it over (`imap.py:81-82`) and goes on without an
   error: nothing is retried, and later polls search `UNSEEN`. A run that fails
   between `\Seen` and the ledger's commit loses messages in the same way, which
   `SeenIsAccounted` (`abandoned`) states.
3. `briefing_row`. `core/models.py:136` calls a row "a sent daily briefing
   email". The row is committed with `sent_at` before the mail is attempted
   (`tasks.py:94`) and stays when the mail fails.
4. `portfolio_average`. `ledger.py:59` promises a running average. The ledger is
   read in the order of transactions' beginnings. In the trace one session begins
   the transaction of a sale, another begins and commits that of a buy, and then
   the sale commits: it is covered when it is recorded, and read before the buy
   that covers it, which leaves an average above every price paid. The API and
   the mail loop may play either part.

Other behaviour seen while modelling, which the properties state around rather
than forbid:

- A position that is sold and bought again without a price keeps the average of
  the earlier holding (`ledger.py:79`); after overselling the average may be
  anything (`AverageWithinPaid` asks for a position that was never short).
- A page of which `trafilatura` finds no text drops the entry, although the feed
  had a summary: the fallback is taken for `None` only (`rss.py:36`).
- The answer to `/robots.txt` is parsed without a look at its status
  (`fetcher.py:36-37`), and the target of a redirect is not asked for again.
- With no priced day in the period, the exit of a backtest precedes its entry
  (`simulator.py:100-108`; `ForwardTrade` asks for one priced day).
- A chunk that the vector search did not return counts as similarity 0
  (`retriever.py:128`): better than one it returned with a negative similarity,
  worse than one it returned with a positive one, whatever its own is. Since the
  index is approximate, chunks may be found by neither `SELECT`.
- The links of an alert may cover fewer articles than `min_sources` when that is
  above 2 (`engine.py:119`); `POST /email/inbound` accepts a mail and does
  nothing with it (`main.py:176-182`); `audit_logs` (`docs/security.md`) is
  never written.

## 4. Proofs

TLC checks the instances above; TLAPS proves for every value of the constants:

| theorem | statement |
|---|---|
| `IngestionProofs!TypeCorrect` | `Spec => []TypeOK` |
| `IngestionProofs!SessionCorrect` | `Spec => []SessionOK` |
| `IngestionProofs!StoriesKept` | `Spec => []NothingDropped` |
| `IngestionProofs!RowsStayDistinct` | `Spec => []RowsDistinct` |
| `IngestionProofs!CanonicalUrlsUnique` | `Spec => []UniqueCanonicalUrl` |
| `IngestionProofs!PagesBackArticles` | `Spec => []BlobBacked` |
| `IngestionProofs!ChunksInsertedOnce` | `Spec => []NoDoubleIndexing` |
| `IngestionProofs!ContentFresh` | `Spec => []FreshOK` |
| `IngestionProofs!ChunksHaveArticles` | `Spec => []ChunksOfArticles` |
| `IngestionProofs!Implementation` | `Spec => ImplementsArticleStore` |
| `ChunkerProofs!TypeCorrect` | `Spec => []TypeOK` |
| `ChunkerProofs!TextIsCovered` | `Spec => []NothingLost` |
| `ChunkerProofs!ChunksWellFormed` | `Spec => []WellFormed` |
| `ChunkerProofs!LoopProgresses` | `Spec => []Progress` |
| `CollectionProofs!TypeCorrect` | `Spec => []TypeOK` |
| `CollectionProofs!TruncationsAccounted` | `Spec => []PartialIsAccounted` |
| `CollectionProofs!PagesHaveFiles` | `Spec => []ArticlesHaveFiles` |
| `CollectionProofs!RobotsRespected` | `Spec => []RobotsObeyed` |
| `InboundMailProofs!MailTypeCorrect` | `Spec => []TypeOK` |
| `InboundMailProofs!MailRunCorrect` | `Spec => []RunOK` |
| `InboundMailProofs!ConfirmationsBacked` | `Spec => []ConfirmedIsRecorded` |
| `InboundMailProofs!RetriesRecordNothing` | `Spec => []RecordedOncePerRun` |
| `InboundMailProofs!SeenMailsAccounted` | `Spec => []SeenIsAccounted` |
| `OutboundProofs!OutboundTypeCorrect` | `Spec => []TypeOK` |
| `OutboundProofs!AlertsConfirmed` | `Spec => []AlertsAreConfirmed` |
| `OutboundProofs!MailsOnceFromRows` | `Spec => []MailedOnceFromRow` |
| `OutboundProofs!SentAtTruthful` | `Spec => []SentAtIsTrue` |
| `OutboundProofs!UnmailedAccounted` | `Spec => []UnmailedIsAccounted` |
| `PortfolioProofs!PortfolioTypeCorrect` | `Spec => []TypeOK` |
| `PortfolioProofs!OwnTradesInOrder` | `Spec => []OwnOrder` |
| `PortfolioProofs!AveragesWithinPrices` | `Spec => []AverageWithinPaid` |
| `PortfolioProofs!BuysAverageExactly` | `Spec => []BuysAverage` |
| `CallsProofs!SearchesSound` | `Spec => []SearchIsSound` |
| `CallsProofs!GuardsDecide` | `Spec => []GuardDecides` |
| `CallsProofs!TradesForward` | `Spec => []ForwardTrade` |
| `CallsProofs!RatesExplained` | `Spec => []RatesAccounted` |
| `CallsProofs!AlertsNeedWatchlist` | `Spec => []AlertNeedsWatchlist` |
| `CallsProofs!AddressesKeepForm` | `Spec => []SameAddressSameForm` |

So every invariant that a passing run checks, and the refinement, is also a theorem.

*Assumptions* give the constants their types, and TLC evaluates them in the runs:
`BrokerAssumption`, `IngestionAssumption`, `FetcherAssumption`; `ChunkerAssumption`
(`chunk_size` is positive and `overlap` is not negative, as the defaults in
`core/__init__.py:67-68` are); `InboundMailAssumption` (the worker pool is finite:
its runs are counted); `OutboundAssumption` (briefing messages are messages,
high scorers and hits are articles, `MinSources` is a natural number, row ids
are finitely many, because mails per id are counted); `PortfolioAssumption`
(texts are sequences of lines, a missing price is not a number, the bounds are
natural numbers); `CallsAssumption` (scores, days and prices are numbers, tables
and word lists are finite, `None` is no number, URLs have the parts the model
gives them).

*Ingestion*. `TypeOK` includes that the cursor stays within one of the feed's
end and is on a result with text between the two checks; it is inductive.
`NothingDropped` needs in addition what a session has open at each point
(`SessionOK`): a pending article only while the run is in its loop, and no rows
but chunks once it has committed. Given that, `OthersUntouched` (a step
of a worker changes no other worker's run) and the fact that `articles` only
grows reduce it to the worker that moves: a result is passed over because of a
row in `Visible(w)`, all of which the run keeps or commits. `UniqueCanonicalUrl`
is not inductive by itself; `RowsDistinct` adds the ids, and only `Flush` can
break it, where the wait for other transactions and the conflict with one's own
view exclude every row with the key. `NoDoubleIndexing` is inductive in the same
way, from the wait and the conflict of `InsertChunks`; `BlobBacked` because
nobody deletes a page and `StoreArticle` puts it before it adds the article.

*Chunker*. One lemma about an iteration (`Bounds`: the next start lies strictly
after this one and not after the end of the chunk) carries all four theorems;
`IInv` adds that all chunks start before `start`.

*Refinement*. `Implementation` maps `table` to `articles` and `indexed` to
`chunked`. A commit of `run_ingestion`, answered or not, is `AddBatch`; one of
`index_unembedded_articles` is `IndexBatch`; everything else leaves both tables
alone (`StepSimulation`, `ArticlesAppear`). `AddBatch` asks for distinct ids
and addresses, which is `RowsDistinct` before the step, and for distinct
content within the batch: `FreshOK`, inductive because the second check sees
what its own run has flushed and nothing is flushed between that check and
`db.add`. `IndexBatch` asks for chunks of existing articles: `ChunksOfArticles`.

*Collection*. The cap of `TypeOK` needs `IdleForgets`: a process between two runs
has no results left, so that the feed it loads next has all the room.
`PartialIsAccounted` is inductive by itself, and only puts touch files
(`FilesStep`). `ArticlesHaveFiles` is not: an article is added by the step that
writes or finds the file of the put, so that `PutIsCurrent` is needed, which
says that the put of a process is that of its current result; files never go
away (`FilesStay`), however many processes put the same page. `RobotsObeyed` is
strengthened to `RobotsInv`: an `allow_all` in the cache of any process means
that the rules of that site were missed once. A death empties a cache and takes
nothing out of `open`, and `CanFetch` is asked in the step that fetches.

*InboundMail*. `RunOK`, inductive with `TypeOK`, says what a run holds at each of its
steps (`HoldingsOK`: no message twice, and what it will answer is `\Seen`) and that
a worker in a run executes a message of the queue (`BusyOK`). The other
properties are bounds on counts, and not inductive: a step that records a trade
says nothing of the run's right to do so. `RowsBackReplies` adds to the replies
of a trade the runs that have recorded and not yet answered it, and compares
both with its rows. `RunsBoundRows` adds to the rows of a message the runs that
may still record it, to its replies those that hold it, and bounds both by the
number of workers: a run that has recorded or answered a message gives it up,
and no run comes to hold one that was seen (`StepOn`). The counts are
cardinalities of sets of workers, hence the finite pool. `SeenIsAccounted` is
inductive given `RunOK` and the counts: a flag is set by the step that takes the
message in hand, and every step that lets go of a message has answered it or
adds it to `abandoned` (`HandedOn`).

*Outbound*. The inductive invariant `Inv` has three parts besides `TypeOK`. `RunOK`:
at each position of a run, what it holds (`HoldingsOK`), that its rows are
confirmed and its candidate has sources enough at the guard (`EvidenceOK`), and
`BusyOK`. `IdsOK`: the ids of open transactions are distinct and not committed.
`MailsOK`: an id still to be mailed has had no mail and is on no other run's list.
`AlertsAreConfirmed`, `SentAtIsTrue` and `UnmailedIsAccounted` complete it. TLC
checked it on the instance of `MCOutbound` before it was proved. The proofs split
the steps into those after which the run goes on and those that end it; what a
step that ends a run leaves unmailed goes to `abandoned`.

*Portfolio*. `OwnOrder` follows from `TransactionsOK`: an open transaction began
after every row of its session, at a time no other transaction has. The two
properties of averages are about `Positions`, a fold over sorted trades, and hold
of *every* ledger, so the theorems go through lemmas about the fold.
`AverageWithinPaid`: ranks are a bijection, so sorting rearranges the rows and
pays the same prices (`ByTimestampRearranges`); induction over the prefixes of the
sorted trades keeps the average between the least and the greatest price paid,
since a buy moves it between itself and the new price; for a position never
short the last flat index is where the present holding began. `BuysAverage`:
along trades that are all priced buys, average times quantity equals the money
paid; the sum of the money does not depend on the order in which the table or
the sort lists the rows (`OneWorthMore`, `SameTradesSameSum`).

*SequenceLemmas*. The library's induction theorems take a predicate as a
parameter, which no installed prover can instantiate. Induction is done over
sets instead: a set of naturals that contains 0 and is closed under successor up
to `n` contains all of `0..n` (`InductionUpTo`), from the least element of its
complement. That recursive functions exist and have their types is proved the
same way, by the set of indices up to which an approximation exists.

*Calls*. A call is one step, so that nothing but the types of its arguments
(`CallOK`) is inductive, and the theorems are facts about the operators.
`SearchIsSound`: of two chunks that match, the one that matches more words is
among the keyword rows if the other is. So when it was also returned by the vector
index with the larger similarity, or neither was returned, both parts of its sum
are at least as large and one is larger (`BetterCombined`), and it cannot lose in
the final cut. The number of results rests on the keyword rows alone: they are
all the matches or `2 * top_k` of them (`BestWhenFew`, `BestRows`); nothing is
assumed of the vector rows but where they come from and their limit.
`RatesAccounted`: with one significant backtest each, the join is a subset of
alerts times `{1}`. `AlertNeedsWatchlist`: the caps add up to
20 + 25 + 0 + 10 + 5. `SameAddressSameForm`: an unselected element inserted in a
sequence leaves the selection as it is (`SelectedInsert`, by induction over
prefixes).

*Only model-checked*: the liveness properties.
*Out of the prover's reach*: liveness under fairness (`RunsEnd`,
`KeepsIngesting`, `ArticlesGetIndexed`, `MailsGetSettled`, `Returns`) and
`ENABLED`; `RECURSIVE` operators, which the modules avoid; that a string is a
member of `STRING`, which is why tickers are members of a constant `Tickers`.

## 5. Not modelled, and why

- The language model, the embedder, HTTP, SMTP and IMAP dialogues: libraries
  and services; their outcomes are the choices of the actions that call them.
- Templates, logging, configuration: no state, layout only.
- Character level: regular expressions, SHA-256, the text of prompts and
  contexts. Texts, URLs and commands are given by what the code finds in them.
- The lists of tickers an article mentions: they are stored and score nothing.
- Redirects: `fetch_url` follows them without asking for the rules of their target
  (`fetcher.py:80`); in the model a page is fetched at its own address.
- Which rows the HNSW index returns: any, so that nothing is said about how near
  the chunks found are to the query. Its recall is pgvector's.
- Floating point: averages and rates are fractions, the weights 0.7 and 0.3 whole
  numbers; a comparison that rounding could turn is not covered.
- Times: countdowns and periods are "later"; the lookback window is a cursor.
- Read-only endpoints (`/status`, `/dashboard`, `GET /portfolio`), which change
  no state, and `POST /email/inbound`, which does nothing.
- Migrations: run once by an operator, with nothing else running.

## 6. Plan

1. Done: the task modules on `Broker`, `ArticleStore` and its refinement,
   `Chunker`, `Portfolio`, `Collection` with `Fetcher` and `BlobStore`, the
   algorithms in `Calls`; the proofs of section 4, of every invariant that is
   checked and of the refinement.
2. Compose: all task modules over one worker pool and one database, so that
   alerts and briefings read what ingestion has committed and long ingestion
   runs delay the mailbox.
