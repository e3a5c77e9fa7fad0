-------------------------------- MODULE Calls ---------------------------------
(***************************************************************************)
(* The algorithms between the queues and the tables, each called once with *)
(* every argument of a bounded set: what the alert engine, the briefing,   *)
(* the questions, the backtests and the evaluation compute from a database *)
(* that other processes write to at the same time.                         *)
(***************************************************************************)
EXTENDS Retriever, EvidenceGuard, Backtest, Evaluation, Scorer, Dedup

CONSTANTS
  Chunks, Similarities, Ranks, TopKs,   \* arguments of hybrid_search
  Contexts,                             \* of the guard
  Instruments, Histories, BacktestAlerts, Holdings,   \* of run_backtest
  Alerts, MaxSignificant, Briefings,    \* of run_evaluation
  Articles, Tickers, Entities,          \* of score_article
  Urls                                  \* of canonical_url

ASSUME CallsAssumption ==
  /\ Unit \in Nat \ {0}
  /\ IsFiniteSet(Chunks)
  /\ Similarities \subseteq Int /\ Ranks \subseteq Nat /\ TopKs \subseteq Nat
  /\ None \notin Int /\ Holdings \subseteq Int
  /\ \A alert \in BacktestAlerts \ {None} : alert.day \in Int
  /\ \A prices \in Histories : DOMAIN prices \subseteq Int /\ \A day \in DOMAIN prices : prices[day] \in Int
  /\ IsFiniteSet(Alerts) /\ IsFiniteSet(Briefings) /\ MaxSignificant \in Nat
  /\ IsFiniteSet(Magnitude) /\ IsFiniteSet(Tickers) /\ IsFiniteSet(Entities)
  /\ Urls \subseteq Url

VARIABLE call    \* the call made: its function and arguments

Init == call = [fn |-> "none"]

\* The chunks committed at the first SELECT are still there at the second.
Search ==
  /\ call.fn = "none"
  /\ \E later \in SUBSET Chunks, vec \in [Chunks -> Similarities],
        words \in [Chunks -> Ranks], topK \in TopKs :
     \E earlier \in SUBSET later :
       call' = [fn |-> "hybrid_search", earlier |-> earlier, later |-> later,
                vec |-> vec, words |-> words, topK |-> topK]

Ask ==
  /\ call.fn = "none"
  /\ \E raw \in RawAnswers, chunks \in Contexts :
       call' = [fn |-> "guard", raw |-> raw, chunks |-> chunks]

Simulate ==
  /\ call.fn = "none"
  /\ \E alert \in BacktestAlerts, override \in Instruments, prices \in Histories,
        action \in {"BUY", "SELL"}, holding \in Holdings :
       call' = [fn |-> "run_backtest", alert |-> alert, override |-> override,
                action |-> action, holding |-> holding, prices |-> prices]

\* Rows are added between the SELECTs, never removed.
EvaluateWeek ==
  /\ call.fn = "none"
  /\ \E alerts \in SUBSET Alerts, briefings \in SUBSET Briefings,
        significant \in [Alerts -> 0..MaxSignificant] :
     \E counted \in SUBSET alerts, mailed \in SUBSET briefings, cited \in SUBSET briefings :
       call' = [fn |-> "run_evaluation",
                db1 |-> [alerts |-> counted], db3 |-> [briefings |-> mailed],
                db2 |-> [alerts |-> alerts, significant |-> significant],
                db4 |-> [briefings |-> briefings, cited |-> cited]]

ScoreArticle ==
  /\ call.fn = "none"
  /\ \E article \in Articles : call' = [fn |-> "score_article", article |-> article]

Canonicalise ==
  /\ call.fn = "none"
  /\ \E url \in Urls : call' = [fn |-> "canonical_url", url |-> url]

Next == Search \/ Ask \/ Simulate \/ EvaluateWeek \/ ScoreArticle \/ Canonicalise

Spec == Init /\ [][Next]_call

-----------------------------------------------------------------------------
(* Properties *)

\* hybrid_search, whatever the vector index returns: top_k chunks if as many
\* were returned by it or match the words, although the matches are cut off at
\* 2 * top_k; and no chunk returned in the place of another that shares more
\* words with the query and is also the more similar one.  Similarity compares
\* chunks the index returned, and one it returned with one it did not, which
\* counts as 0; of two it did not return the words alone decide.
SearchIsSound ==
  call.fn = "hybrid_search" =>
    \A V \in VectorRows(call.earlier, call.topK) :
      LET candidates == V \cup {c \in call.later : call.words[c] > 0}
          similarity(c) == IF c \in V THEN call.vec[c] ELSE 0
      IN  \A found \in HybridSearch(V, call.later, call.vec, call.words, call.topK) :
            /\ found \subseteq candidates /\ Cardinality(found) <= call.topK
            /\ Cardinality(candidates) >= call.topK => Cardinality(found) = call.topK
            /\ \A x \in candidates \ found, y \in found :
                 call.words[x] > call.words[y] =>
                   IF x \in V THEN similarity(x) <= similarity(y) ELSE y \in V

\* EvidenceGuard: whatever the model answers, what passes mentions chunks of
\* the context only, in citations and in items; and whether an answer passes
\* does not depend on the markdown fence around it.
GuardDecides ==
  call.fn = "guard" =>
    LET outcome == Answer(call.raw, call.chunks)
        bare == [call.raw EXCEPT !.opened = FALSE, !.newline = FALSE, !.closed = FALSE]
    IN  /\ outcome.passed =>
             ToSet(outcome.json.citations) \cup UNION ToSet(outcome.json.items) \subseteq call.chunks
        /\ call.raw.opened /\ call.raw.newline => outcome = Answer(bare, call.chunks)

\* run_backtest: when the period has a day with a price, the trade is entered
\* and left within it, in this order, and wins if the price moved its way.
ForwardTrade ==
  call.fn = "run_backtest" =>
    LET row == RunBacktest(call.alert, call.override, call.action, call.holding, call.prices)
        period == call.alert.day .. call.alert.day + call.holding
    IN  row # None /\ period \cap DOMAIN call.prices # {} =>
          /\ row.entry \in period /\ row.exit \in period /\ row.entry <= row.exit
          /\ row.pnl # None /\ row.pnl.gain > 0 =>
               row.entry < row.exit /\ (call.prices[row.entry] < call.prices[row.exit] <=> call.action = "BUY")

\* run_evaluation: a rate above 1 means that an alert has several significant
\* backtests or that rows were committed between the two counts; and a week
\* without alerts and briefings leads to no advice.
RatesAccounted ==
  call.fn = "run_evaluation" =>
    LET record == Evaluate(call.db1, call.db2, call.db3, call.db4)
    IN  /\ Above(record.precision, 10) =>
             \/ \E alert \in call.db2.alerts : call.db2.significant[alert] > 1
             \/ call.db1.alerts # call.db2.alerts
        /\ Above(record.cited, 10) => call.db3.briefings # call.db4.briefings
        /\ call.db1.alerts = {} /\ call.db3.briefings = {} => record.adjustments = {}

\* score_article: at credibilities from 0 to 1 (nothing bounds the configured
\* ones), 0 to 100 points, and never the default threshold of 70 without a
\* match on the watchlist: credibility and the words of a text, its title
\* included, count for 60 at the most.
AlertNeedsWatchlist ==
  call.fn = "score_article" /\ call.article.credibility \in 0..100 =>
    LET score == Score(call.article, Tickers, Entities)
    IN  /\ score \in 0..100
        /\ score >= 70 => WatchlistMatches(call.article.text \cup call.article.title,
                                           Tickers, Entities) # {}

\* canonical_url: a tracking parameter inserted anywhere in a URL, or another
\* fragment, does not make it another address; a different stem, or another
\* parameter, slashes at the end aside, does.
SameAddressSameForm ==
  call.fn = "canonical_url" =>
    LET url == call.url
        others(u) == [i \in DOMAIN Kept(u.query) |-> <<Kept(u.query)[i].key, Kept(u.query)[i].upper>>]
    IN  /\ \A key \in Tracking, upper \in BOOLEAN, slashes \in 0..1, i \in 1..(Len(url.query) + 1) :
             CanonicalUrl([url EXCEPT !.fragment = NoFragment,
                !.query = InsertAt(@, i, [key |-> key, upper |-> upper, slashes |-> slashes])])
               = CanonicalUrl(url)
        /\ \A v \in Urls :
             CanonicalUrl(v) = CanonicalUrl(url) => v.stem = url.stem /\ others(v) = others(url)
=============================================================================
