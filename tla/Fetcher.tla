------------------------------- MODULE Fetcher --------------------------------
(***************************************************************************)
(* _fetch_source (packages/ingestion/pipeline.py) with ingest_rss (rss.py) *)
(* and fetch_url and _get_robots (fetcher.py): a source is a page or a     *)
(* feed, whose entries are fetched one after the other, each after a look  *)
(* at the robots.txt of its site.  A process keeps what it knows of a site *)
(* for as long as it lives, the failure to read its rules included.        *)
(***************************************************************************)
EXTENDS Naturals, Sequences, SequencesExt, FiniteSetsExt

CONSTANTS
  Processes,    \* worker processes
  Sites,
  Links,        \* addresses of pages
  SiteOf,       \* _base_url
  Disallowed,   \* links that the rules of their site keep robots from
  Pages,        \* contents
  NoPage,       \* a result made of the feed's summary
  NoLink,       \* an entry without a link
  Feeds,        \* what a feed may list: sequences of entries
  PageSources,  \* links of the sources of type http
  MaxEntries    \* entries looked at (20)

ASSUME FetcherAssumption ==
  /\ SiteOf \in [Links -> Sites]
  /\ Disallowed \subseteq Links /\ PageSources \subseteq Links
  /\ NoLink \notin Links /\ NoPage \notin Pages
  /\ MaxEntries \in Nat /\ MaxEntries > 0
  /\ Feeds \subseteq Seq(Links \cup {NoLink})

VARIABLES
  robots,       \* robots[w][s]: _robots_cache of process w
  open,         \* history: sites whose rules some process could not read
  step,         \* step[w]: where process w is
  feed,         \* feed[w]: the entries of the feed still to be read
  results       \* results[w]: results so far

fetchVars == <<robots, open, step, feed, results>>

Result == [link : Links, html : Pages \cup {NoPage}, text : BOOLEAN]

Unknown == [s \in Sites |-> "unknown"]

FetcherInit ==
  /\ robots = [w \in Processes |-> Unknown]
  /\ open = {}
  /\ step = [w \in Processes |-> "idle"]
  /\ feed = [w \in Processes |-> <<>>]
  /\ results = [w \in Processes |-> <<>>]

StepTo(w, l) == step' = [step EXCEPT ![w] = l]

\* The run of process w ends.
ForgetFeed(w) ==
  /\ StepTo(w, "idle")
  /\ feed' = [feed EXCEPT ![w] = <<>>]
  /\ results' = [results EXCEPT ![w] = <<>>]

\* Mutated form: the whole feed is read.
LoadWholeFeed(w) ==
  /\ step[w] = "idle"
  /\ \E f \in Feeds : feed' = [feed EXCEPT ![w] = f]
  /\ StepTo(w, "entry")
  /\ UNCHANGED <<robots, open, results>>

\* feed.entries[:20]; a feed that cannot be loaded has none.
LoadFeed(w) ==
  /\ step[w] = "idle"
  /\ \E f \in Feeds \cup {<<>>} :
       feed' = [feed EXCEPT ![w] = SubSeq(f, 1, Min({Len(f), MaxEntries}))]
  /\ StepTo(w, "entry")
  /\ UNCHANGED <<robots, open, results>>

\* A source of type http: one page, of which no feed has a summary.
LoadPage(w) ==
  /\ step[w] = "idle"
  /\ \E l \in PageSources : feed' = [feed EXCEPT ![w] = <<l>>]
  /\ StepTo(w, "page")
  /\ UNCHANGED <<robots, open, results>>

Reading(w) == step[w] \in {"entry", "page"}

\* The entry being fetched.
AtEntry(w) == Reading(w) /\ feed[w] # <<>> /\ Head(feed[w]) # NoLink
Link(w) == Head(feed[w])
Site(w) == SiteOf[Link(w)]

Learn(w, what) == robots' = [robots EXCEPT ![w][Site(w)] = what]

\* _get_robots: the answer is parsed, once per process and site
ReadRobots(w) ==
  /\ AtEntry(w) /\ robots[w][Site(w)] = "unknown"
  /\ Learn(w, "rules")
  /\ UNCHANGED <<open, step, feed, results>>

\* except Exception: rp.allow_all = True.  The page of an HTTP error, which is
\* parsed without a look at its status, has no rules in it either.
MissRobots(w) ==
  /\ AtEntry(w) /\ robots[w][Site(w)] = "unknown"
  /\ Learn(w, "allow_all")
  /\ open' = open \cup {Site(w)}
  /\ UNCHANGED <<step, feed, results>>

\* Mutated form: the rules are parsed and never asked.
CanFetchOnceRead(w) == robots[w][Site(w)] # "unknown"

CanFetch(w) ==
  \/ robots[w][Site(w)] = "allow_all"
  \/ robots[w][Site(w)] = "rules" /\ Link(w) \notin Disallowed

NextEntry(w) == feed' = [feed EXCEPT ![w] = Tail(@)]

\* if not link: continue
PassOverEntry(w) ==
  /\ Reading(w) /\ feed[w] # <<>> /\ Head(feed[w]) = NoLink
  /\ NextEntry(w)
  /\ UNCHANGED <<robots, open, step, results>>

AddResult(w, html, text) ==
  results' = [results EXCEPT ![w] =
    Append(@, [link |-> Link(w), html |-> html, text |-> text])]

\* fetch_url: the page is there, and trafilatura finds its text or none
FetchPage(w) ==
  /\ AtEntry(w) /\ CanFetch(w)
  /\ \E p \in Pages, text \in BOOLEAN : AddResult(w, p, text)
  /\ NextEntry(w)
  /\ UNCHANGED <<robots, open, step>>

\* fetch_url returns None, because of the rules or of an HTTP error: the
\* feed's summary, which may be empty, takes the place of the page.
FallBack(w) ==
  /\ AtEntry(w) /\ step[w] = "entry" /\ robots[w][Site(w)] # "unknown"
  /\ \E text \in BOOLEAN : AddResult(w, NoPage, text)
  /\ NextEntry(w)
  /\ UNCHANGED <<robots, open, step>>

\* [result] if result else []
DropPage(w) ==
  /\ AtEntry(w) /\ step[w] = "page" /\ robots[w][Site(w)] # "unknown"
  /\ NextEntry(w)
  /\ UNCHANGED <<robots, open, step, results>>

FeedRead(w) == Reading(w) /\ feed[w] = <<>>

FetchStep(w) ==
  \/ LoadFeed(w) \/ LoadPage(w) \/ PassOverEntry(w)
  \/ ReadRobots(w) \/ MissRobots(w) \/ FetchPage(w) \/ FallBack(w) \/ DropPage(w)
=============================================================================
