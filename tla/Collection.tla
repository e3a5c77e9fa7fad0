----------------------------- MODULE Collection -------------------------------
(***************************************************************************)
(* The outside of run_ingestion (packages/ingestion/pipeline.py): what     *)
(* Ingestion takes as one step each, the listing of a source and the put   *)
(* of a page, with the processes, sites and files they consist of.  Which  *)
(* results are duplicates is the subject of Ingestion: here any may be.    *)
(***************************************************************************)
EXTENDS Fetcher

VARIABLES
  files, putting, torn,   \* of BlobStore
  session,      \* session[w]: articles added and not committed
  articles      \* committed: link and raw_html_path

INSTANCE BlobStore

disk == <<files, putting, torn>>
vars == <<fetchVars, disk, session, articles>>

Init ==
  /\ FetcherInit /\ BlobInit
  /\ session = [w \in Processes |-> {}]
  /\ articles = {}

Fetch(w) == FetchStep(w) /\ UNCHANGED <<disk, session, articles>>

\* for result in results
BeginStoring(w) ==
  /\ FeedRead(w)
  /\ StepTo(w, "store")
  /\ UNCHANGED <<robots, open, feed, results, disk, session, articles>>

AtResult(w) == step[w] = "store" /\ results[w] # <<>>
Current(w) == Head(results[w])
NextResult(w) == results' = [results EXCEPT ![w] = Tail(@)]

\* Without text, or a duplicate.
PassOver(w) ==
  /\ AtResult(w) /\ putting[w] = NoPut
  /\ NextResult(w)
  /\ UNCHANGED <<robots, open, step, feed, disk, session, articles>>

\* db.add(article), with the digest blob.put has returned
Add(w) ==
  /\ session' = [session EXCEPT ![w] =
       @ \cup {[link |-> Current(w).link, html |-> Current(w).html]}]
  /\ NextResult(w)
  /\ UNCHANGED <<robots, open, step, feed, articles>>

\* Mutated form: the article of a page is added before the page is put.
AddWithoutPage(w) ==
  /\ AtResult(w) /\ Current(w).text /\ putting[w] = NoPut
  /\ Add(w)
  /\ UNCHANGED disk

Put(w) ==
  /\ AtResult(w) /\ Current(w).text /\ Current(w).html # NoPage
  /\ \/ PutChecks(w, Current(w).html) /\ UNCHANGED <<fetchVars, session, articles>>
     \/ PutOpens(w) /\ UNCHANGED <<fetchVars, session, articles>>
     \/ PutWrites(w) /\ Add(w)
     \/ PutFinds(w, Current(w).html) /\ Add(w)

\* if result.html: a summary has no page to put.
AddSummary(w) ==
  /\ AtResult(w) /\ Current(w).text /\ Current(w).html = NoPage
  /\ Add(w)
  /\ UNCHANGED disk

\* await db.commit(), at the end of the only source of the run: what several
\* sources share is the session, and that is the subject of Ingestion.
Commit(w) ==
  /\ step[w] = "store" /\ results[w] = <<>>
  /\ articles' = articles \cup session[w]
  /\ session' = [session EXCEPT ![w] = {}]
  /\ ForgetFeed(w)
  /\ UNCHANGED <<robots, open, disk>>

\* Any exception: the session is rolled back, the process lives on.
Error(w) ==
  /\ ForgetFeed(w)
  /\ PutBreaks(w)
  /\ session' = [session EXCEPT ![w] = {}]
  /\ UNCHANGED <<robots, open, articles>>

\* The process dies; the one that takes its place knows no site.
Crash(w) ==
  /\ ForgetFeed(w)
  /\ PutBreaks(w)
  /\ session' = [session EXCEPT ![w] = {}]
  /\ robots' = [robots EXCEPT ![w] = Unknown]
  /\ UNCHANGED <<open, articles>>

Next ==
  \E w \in Processes :
    \/ Fetch(w) \/ BeginStoring(w) \/ PassOver(w) \/ Put(w) \/ AddSummary(w)
    \/ Commit(w) \/ Error(w) \/ Crash(w)

Spec == Init /\ [][Next]_vars

-----------------------------------------------------------------------------
(* Properties *)

TypeOK ==
  /\ BlobTypeOK
  /\ robots \in [Processes -> [Sites -> {"unknown", "rules", "allow_all"}]]
  /\ open \in SUBSET Sites
  /\ step \in [Processes -> {"idle", "entry", "page", "store"}]
  /\ feed \in [Processes -> Seq(Links \cup {NoLink})]
  /\ results \in [Processes -> Seq(Result)]
  /\ \A w \in Processes : Len(feed[w]) + Len(results[w]) <= MaxEntries
  /\ session \in [Processes -> SUBSET [link : Links, html : Pages \cup {NoPage}]]
  /\ articles \in SUBSET [link : Links, html : Pages \cup {NoPage}]

\* "respect robots.txt": the page of a link its site disallows is fetched and
\* stored only if a process could not read the rules of that site.
RobotsObeyed ==
  \A a \in articles \cup UNION {session[w] \cup ToSet(results[w]) : w \in Processes} :
    a.link \in Disallowed /\ a.html # NoPage => SiteOf[a.link] \in open

\* The raw_html_path of an article, committed or about to be, names a file:
\* a page is put before its article is added and nothing takes it away.
ArticlesHaveFiles ==
  \A a \in articles \cup UNION {session[w] : w \in Processes} :
    a.html # NoPage => files[a.html] # "absent"
=============================================================================
