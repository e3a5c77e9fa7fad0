----------------------------- MODULE CallsProofs ------------------------------
(***************************************************************************)
(* Proofs about Calls: what the algorithms promise for every argument, any *)
(* number of chunks, alerts and days, and texts and queries of any length. *)
(*                                                                         *)
(*   SearchesSound            Spec => []SearchIsSound                      *)
(*   GuardsDecide             Spec => []GuardDecides                       *)
(*   TradesForward            Spec => []ForwardTrade                       *)
(*   RatesExplained           Spec => []RatesAccounted                     *)
(*   AlertsNeedWatchlist      Spec => []AlertNeedsWatchlist                *)
(*   AddressesKeepForm        Spec => []SameAddressSameForm                *)
(***************************************************************************)
EXTENDS Calls, SequenceLemmas

-----------------------------------------------------------------------------
(* The arguments of a call *)

\* A call has the arguments its function takes.
CallOK ==
  /\ call.fn = "hybrid_search" =>
       /\ call.earlier \subseteq call.later /\ call.later \subseteq Chunks
       /\ call.vec \in [Chunks -> Similarities] /\ call.words \in [Chunks -> Ranks]
       /\ call.topK \in TopKs
  /\ call.fn = "guard" => call.raw \in RawAnswers
  /\ call.fn = "run_backtest" =>
       /\ call.alert \in BacktestAlerts /\ call.holding \in Holdings
       /\ call.prices \in Histories /\ call.action \in {"BUY", "SELL"}
  /\ call.fn = "run_evaluation" =>
       /\ call.db1.alerts \subseteq call.db2.alerts /\ call.db2.alerts \subseteq Alerts
       /\ call.db2.significant \in [Alerts -> 0..MaxSignificant]
       /\ call.db3.briefings \subseteq call.db4.briefings
       /\ call.db4.cited \subseteq call.db4.briefings /\ call.db4.briefings \subseteq Briefings
  /\ call.fn = "canonical_url" => call.url \in Url

LEMMA CallsTyped == Spec => []CallOK
<1>1. Init => CallOK
  BY DEF Init, CallOK
<1>2. CallOK /\ [Next]_call => CallOK'
  <2> SUFFICES ASSUME CallOK, [Next]_call PROVE CallOK'
    OBVIOUS
  <2>1. CASE Search
    BY <2>1 DEF Search, CallOK
  <2>2. CASE Ask
    BY <2>2 DEF Ask, CallOK
  <2>3. CASE Simulate
    BY <2>3 DEF Simulate, CallOK
  <2>4. CASE EvaluateWeek
    BY <2>4 DEF EvaluateWeek, CallOK
  <2>5. CASE ScoreArticle
    BY <2>5 DEF ScoreArticle, CallOK
  <2>6. CASE Canonicalise
    BY <2>6, CallsAssumption DEF Canonicalise, CallOK
  <2>7. CASE UNCHANGED call
    BY <2>7 DEF CallOK
  <2> QED BY <2>1, <2>2, <2>3, <2>4, <2>5, <2>6, <2>7 DEF Next
<1> QED BY <1>1, <1>2, PTL DEF Spec

-----------------------------------------------------------------------------
(* The guard *)

\* Whatever the model answers, only chunks of the context get through.
THEOREM GuardsDecide == Spec => []GuardDecides
<1>1. CallOK => GuardDecides
  <2> SUFFICES ASSUME CallOK, call.fn = "guard" PROVE GuardDecides
    BY DEF GuardDecides
  <2> DEFINE raw == call.raw
             chunks == call.chunks
             bare == [raw EXCEPT !.opened = FALSE, !.newline = FALSE, !.closed = FALSE]
  <2>1. raw \in RawAnswers
    BY DEF CallOK
  <2> HIDE DEF raw, chunks
  <2>2. Answer(raw, chunks).passed =>
          ToSet(Answer(raw, chunks).json.citations)
            \cup UNION ToSet(Answer(raw, chunks).json.items) \subseteq chunks
    <3> SUFFICES ASSUME Answer(raw, chunks).passed
                 PROVE  ToSet(Answer(raw, chunks).json.citations)
                          \cup UNION ToSet(Answer(raw, chunks).json.items) \subseteq chunks
      OBVIOUS
    <3>1. ValidCitations(raw.json, chunks) /\ Answer(raw, chunks).json = raw.json
      BY DEF Answer, Raised, Passed
    <3>2. ToSet(raw.json.citations) \subseteq chunks
      BY <3>1 DEF ValidCitations, ToSet
    <3>3. \A items \in ToSet(raw.json.items) : items \subseteq ToSet(raw.json.citations)
      BY <3>1 DEF ValidCitations, ToSet
    <3> QED BY <3>1, <3>2, <3>3
  <2>3. raw.opened /\ raw.newline => Answer(raw, chunks) = Answer(bare, chunks)
    <3>1. bare.json = raw.json /\ (raw.opened /\ raw.newline => (Parses(bare) <=> Parses(raw)))
      BY <2>1 DEF RawAnswers, Parses
    <3> QED BY <3>1 DEF Answer
  <2> QED BY <2>2, <2>3 DEF GuardDecides, raw, chunks
<1> QED BY <1>1, CallsTyped, PTL

-----------------------------------------------------------------------------
(* Backtests *)

\* The trade lies within the period and goes forward in time.
THEOREM TradesForward == Spec => []ForwardTrade
<1>1. CallOK => ForwardTrade
  <2> DEFINE alert == call.alert
             prices == call.prices
             end == alert.day + call.holding
             row == RunBacktest(alert, call.override, call.action, call.holding, prices)
  <2> SUFFICES ASSUME CallOK, call.fn = "run_backtest", row # None,
                      (alert.day .. end) \cap DOMAIN prices # {}
               PROVE  /\ row.entry \in alert.day .. end /\ row.exit \in alert.day .. end
                      /\ row.entry <= row.exit
                      /\ row.pnl # None /\ row.pnl.gain > 0 =>
                           /\ row.entry < row.exit
                           /\ prices[row.entry] < prices[row.exit] <=> call.action = "BUY"
    BY DEF ForwardTrade
  <2>1. /\ alert # None
        /\ row.entry = EntryDay(prices, alert.day) /\ row.exit = ExitDay(prices, end)
        /\ row.pnl = Profit(call.action, PriceOn(prices, row.entry), PriceOn(prices, row.exit))
    BY DEF RunBacktest
  <2>2. /\ alert.day \in Int /\ end \in Int /\ DOMAIN prices \subseteq Int
        /\ \A day \in DOMAIN prices : prices[day] \in Int
        /\ call.action \in {"BUY", "SELL"} /\ None \notin Int
    <3>1. /\ alert \in BacktestAlerts \ {None} /\ call.holding \in Holdings
          /\ prices \in Histories /\ call.action \in {"BUY", "SELL"}
      BY <2>1 DEF CallOK
    <3>2. alert.day \in Int /\ call.holding \in Int
      BY <3>1, CallsAssumption
    <3> HIDE DEF alert, prices
    <3> QED BY <3>1, <3>2, CallsAssumption
  <2> HIDE DEF row, alert, prices, end
  <2>3. PICK day \in DOMAIN prices : alert.day <= day /\ day <= end
    BY <2>2
  <2>4. row.entry \in DOMAIN prices /\ alert.day <= row.entry /\ row.entry <= day
    <3> DEFINE days == {d \in DOMAIN prices : d >= alert.day}
    <3>1. day \in days /\ days \in SUBSET Int /\ \A d \in days : alert.day <= d
      BY <2>2, <2>3
    <3>2. row.entry = Min(days)
      BY <2>1, <3>1 DEF EntryDay
    <3> HIDE DEF days
    <3>3. Min(days) \in days /\ \A d \in days : Min(days) <= d
      BY <2>2, <3>1, LeastOf DEF Min
    <3> QED BY <3>1, <3>2, <3>3 DEF days
  <2>5. row.exit \in DOMAIN prices /\ row.exit <= end /\ day <= row.exit
    <3> DEFINE days == {d \in DOMAIN prices : d <= end}
    <3>1. day \in days /\ days \in SUBSET Int /\ \A d \in days : d <= end
      BY <2>2, <2>3
    <3>2. row.exit = Max(days)
      BY <2>1, <3>1 DEF ExitDay
    <3> HIDE DEF days
    <3>3. Max(days) \in days /\ \A d \in days : Max(days) >= d
      BY <2>2, <3>1, GreatestOf DEF Max
    <3> QED BY <2>2, <3>1, <3>2, <3>3 DEF days
  <2>6. row.entry \in Int /\ row.exit \in Int /\ day \in Int /\ row.entry # None /\ row.exit # None
    BY <2>2, <2>4, <2>5
  <2>7. row.entry \in alert.day .. end /\ row.exit \in alert.day .. end /\ row.entry <= row.exit
    BY <2>2, <2>4, <2>5, <2>6
  <2>8. ASSUME row.pnl # None, row.pnl.gain > 0
        PROVE  row.entry < row.exit /\ (prices[row.entry] < prices[row.exit] <=> call.action = "BUY")
    <3> DEFINE paid == prices[row.entry]
               got == prices[row.exit]
    <3>1. paid \in Int /\ got \in Int
      BY <2>2, <2>4, <2>5
    <3>2. row.pnl = Profit(call.action, paid, got)
      BY <2>1, <2>6 DEF PriceOn
    <3>3. row.entry = row.exit => paid = got
      OBVIOUS
    <3> HIDE DEF paid, got
    <3>4. row.pnl.gain = IF call.action = "BUY" THEN got - paid ELSE paid - got
      BY <2>8, <3>2 DEF Profit
    <3>5. paid # got /\ (paid < got <=> call.action = "BUY")
      BY <2>2, <2>8, <3>1, <3>4
    <3> QED BY <2>6, <2>7, <3>3, <3>5 DEF paid, got
  <2> QED BY <2>7, <2>8
<1> QED BY <1>1, CallsTyped, PTL

-----------------------------------------------------------------------------
(* Scores *)

\* The smaller of two numbers.
LEMMA MinOfTwo ==
  ASSUME NEW a \in Int, NEW b \in Int
  PROVE  Min({a, b}) = IF a <= b THEN a ELSE b
<1> DEFINE m == IF a <= b THEN a ELSE b
<1>1. m \in {a, b} /\ \A y \in {a, b} : m <= y
  OBVIOUS
<1>2. \A x \in {a, b} : (\A y \in {a, b} : x <= y) => x = m
  OBVIOUS
<1> HIDE DEF m
<1>3. Min({a, b}) = m
  BY <1>1, <1>2 DEF Min
<1> QED BY <1>3 DEF m

\* The parts of a score have their caps, and the watchlist counts for nothing
\* without a match.
LEMMA PointsBounded ==
  ASSUME NEW text, NEW title, NEW credibility \in 0..100, NEW matches, IsFiniteSet(matches)
  PROVE  /\ CredibilityPoints(credibility) \in 0..20 /\ MagnitudePoints(text) \in 0..25
         /\ WatchlistPoints(matches) \in 0..35 /\ (matches = {} => WatchlistPoints(matches) = 0)
         /\ SignalPoints(title) \in 0..10 /\ Recency = 5
<1>1. CredibilityPoints(credibility) \in 0..20
  BY DEF CredibilityPoints
<1>2. Cardinality(Magnitude \cap Found(text)) \in Nat
  BY CallsAssumption, FS_Intersection, FS_CardinalityType
<1>3. Cardinality(matches) \in Nat /\ (matches = {} => Cardinality(matches) = 0)
  BY FS_CardinalityType, FS_EmptySet
<1>4. MagnitudePoints(text) \in 0..25
  <2> DEFINE count == Cardinality(Magnitude \cap Found(text))
  <2>1. MagnitudePoints(text) = Min({8 * count, 25}) /\ count \in Nat
    BY <1>2 DEF MagnitudePoints
  <2> HIDE DEF count
  <2>2. Min({8 * count, 25}) = IF 8 * count <= 25 THEN 8 * count ELSE 25
    BY <2>1, MinOfTwo
  <2> QED BY <2>1, <2>2
<1>5. WatchlistPoints(matches) \in 0..35 /\ (matches = {} => WatchlistPoints(matches) = 0)
  <2> DEFINE count == Cardinality(matches)
  <2>1. WatchlistPoints(matches) = Min({12 * count, 35}) /\ count \in Nat
    BY <1>3 DEF WatchlistPoints
  <2>2. matches = {} => count = 0
    BY <1>3
  <2> HIDE DEF count
  <2>3. Min({12 * count, 35}) = IF 12 * count <= 35 THEN 12 * count ELSE 35
    BY <2>1, MinOfTwo
  <2> QED BY <2>1, <2>2, <2>3
<1> QED BY <1>1, <1>4, <1>5 DEF SignalPoints, Recency

\* Without a match on the watchlist an article stays below the threshold.
THEOREM AlertsNeedWatchlist == Spec => []AlertNeedsWatchlist
<1>1. AlertNeedsWatchlist
  <2> DEFINE article == call.article
             text == article.text \cup article.title
             matches == WatchlistMatches(text, Tickers, Entities)
             points == CredibilityPoints(article.credibility) + MagnitudePoints(text)
                         + WatchlistPoints(matches) + SignalPoints(article.title) + Recency
  <2> SUFFICES ASSUME article.credibility \in 0..100
               PROVE  Min({points, 100}) \in 0..100 /\ (Min({points, 100}) >= 70 => matches # {})
    BY DEF AlertNeedsWatchlist, Score
  <2>1. IsFiniteSet(matches)
    BY CallsAssumption, FS_Intersection, FS_Union DEF WatchlistMatches
  <2> HIDE DEF matches, text
  <2>2. points \in 0..95 /\ (matches = {} => points <= 60)
    BY <2>1, PointsBounded
  <2> HIDE DEF points
  <2>3. Min({points, 100}) = points
    BY <2>2, MinOfTwo
  <2> QED BY <2>2, <2>3
<1> QED BY <1>1, PTL

-----------------------------------------------------------------------------
(* Rates *)

\* With one significant backtest for each alert at the most, the join has no
\* more rows than there are alerts.
LEMMA JoinBounded ==
  ASSUME NEW db, NEW alerts \in SUBSET Alerts, db.significant \in [Alerts -> Nat],
         \A alert \in alerts : db.significant[alert] <= 1
  PROVE  /\ Cardinality(Joined(db, alerts)) \in Nat /\ Cardinality(alerts) \in Nat
         /\ Cardinality(Joined(db, alerts)) <= Cardinality(alerts)
<1>1. IsFiniteSet(alerts)
  BY CallsAssumption, FS_Subset
<1>2. IsFiniteSet({1}) /\ Cardinality({1}) = 1
  BY FS_Singleton
<1>3. Joined(db, alerts) \in SUBSET (alerts \X {1})
  <2>1. \A alert \in alerts : 1..db.significant[alert] \subseteq {1}
    OBVIOUS
  <2> QED BY <2>1 DEF Joined
<1>4. /\ IsFiniteSet(alerts \X {1})
      /\ Cardinality(alerts \X {1}) = Cardinality(alerts) * Cardinality({1})
  BY <1>1, <1>2, FS_Product
<1>5. Cardinality(alerts) \in Nat
  BY <1>1, FS_CardinalityType
<1>6. /\ IsFiniteSet(Joined(db, alerts))
      /\ Cardinality(Joined(db, alerts)) <= Cardinality(alerts \X {1})
  BY <1>3, <1>4, FS_Subset
<1>7. Cardinality(Joined(db, alerts)) \in Nat
  BY <1>6, FS_CardinalityType
<1> QED BY <1>2, <1>4, <1>5, <1>6, <1>7

\* A rate above 1 is one of a count above the total.
LEMMA AboveOne ==
  ASSUME NEW count \in Nat, NEW total \in Nat, Above(Rate(count, total), 10)
  PROVE  count > total
BY DEF Above, Rate

\* A rate above 1 has one of the two explanations.
THEOREM RatesExplained == Spec => []RatesAccounted
<1>1. CallOK => RatesAccounted
  <2> DEFINE db1 == call.db1
             db2 == call.db2
             db3 == call.db3
             db4 == call.db4
  <2> SUFFICES ASSUME CallOK, call.fn = "run_evaluation"
               PROVE  /\ Above(AlertPrecision(db1, db2), 10) =>
                           \/ \E alert \in db2.alerts : db2.significant[alert] > 1
                           \/ db1.alerts # db2.alerts
                      /\ Above(CitationRate(db3, db4), 10) => db3.briefings # db4.briefings
                      /\ db1.alerts = {} /\ db3.briefings = {} =>
                           Evaluate(db1, db2, db3, db4).adjustments = {}
    BY DEF RatesAccounted, Evaluate
  <2>1. /\ db1.alerts \subseteq db2.alerts /\ db2.alerts \in SUBSET Alerts
        /\ db2.significant \in [Alerts -> 0..MaxSignificant]
        /\ db3.briefings \subseteq db4.briefings
        /\ db4.cited \subseteq db4.briefings /\ db4.briefings \subseteq Briefings
    BY DEF CallOK
  <2> HIDE DEF db1, db2, db3, db4
  <2>2. db2.significant \in [Alerts -> Nat] /\ \A alert \in db2.alerts : db2.significant[alert] \in Nat
    BY <2>1, CallsAssumption
  <2>3. ASSUME Above(AlertPrecision(db1, db2), 10), db1.alerts = db2.alerts,
               \A alert \in db2.alerts : ~(db2.significant[alert] > 1)
        PROVE  FALSE
    <3>1. /\ Significant(db2) \in Nat /\ Cardinality(db2.alerts) \in Nat
          /\ Significant(db2) <= Cardinality(db2.alerts)
      <4>1. \A alert \in db2.alerts : db2.significant[alert] <= 1
        BY <2>2, <2>3
      <4> QED BY <2>1, <2>2, <4>1, JoinBounded DEF Significant
    <3>2. Significant(db2) > Cardinality(db2.alerts)
      BY <2>3, <3>1, AboveOne DEF AlertPrecision
    <3> QED BY <3>1, <3>2
  <2>4. ASSUME Above(CitationRate(db3, db4), 10), db3.briefings = db4.briefings
        PROVE  FALSE
    <3>1. IsFiniteSet(db4.briefings)
      BY <2>1, CallsAssumption, FS_Subset
    <3>2. /\ Cardinality(db4.cited) <= Cardinality(db4.briefings)
          /\ Cardinality(db4.cited) \in Nat /\ Cardinality(db4.briefings) \in Nat
      BY <2>1, <3>1, FS_Subset, FS_CardinalityType
    <3>3. Cardinality(db4.cited) > Cardinality(db4.briefings)
      BY <2>4, <3>2, AboveOne DEF CitationRate
    <3> QED BY <3>2, <3>3
  <2>5. ASSUME db1.alerts = {}, db3.briefings = {}
        PROVE  Evaluate(db1, db2, db3, db4).adjustments = {}
    <3>1. AlertPrecision(db1, db2) = NoRate /\ CitationRate(db3, db4) = NoRate
      BY <2>5, FS_EmptySet DEF AlertPrecision, CitationRate, Rate
    <3> QED BY <3>1 DEF Evaluate, Below, Above
  <2> QED BY <2>3, <2>4, <2>5
<1> QED BY <1>1, CallsTyped, PTL

-----------------------------------------------------------------------------
(* Search *)

\* What the best n rows are: rows, n of them or all, and none beaten by one left out.
LEMMA BestRows ==
  ASSUME NEW rows, IsFiniteSet(rows), NEW score, NEW n \in Nat, NEW S \in Best(rows, score, n)
  PROVE  /\ S \subseteq rows /\ Cardinality(S) <= n
         /\ Cardinality(rows) >= n => Cardinality(S) = n
         /\ \A x \in rows \ S, y \in S : score[y] >= score[x]
<1>1. Cardinality(rows) \in Nat
  BY FS_CardinalityType
<1>2. S \subseteq rows /\ Cardinality(S) = Min({n, Cardinality(rows)})
  BY DEF Best, kSubset
<1>3. Cardinality(S) = IF n <= Cardinality(rows) THEN n ELSE Cardinality(rows)
  BY <1>1, <1>2, MinOfTwo
<1> QED BY <1>1, <1>2, <1>3 DEF Best

\* A finite set of numbers has an upper bound.
LEMMA FiniteBounded ==
  ASSUME NEW S \in SUBSET Nat, IsFiniteSet(S)
  PROVE  \E n \in Nat : \A x \in S : x <= n
<1> DEFINE Bounded(k) == \A A \in SUBSET Nat : IsFiniteSet(A) /\ Cardinality(A) = k =>
                           \E n \in Nat : \A x \in A : x <= n
           T == {k \in Nat : Bounded(k)}
<1>1. 0 \in T
  BY FS_EmptySet
<1>2. ASSUME NEW k \in T PROVE k + 1 \in T
  <2>0. k \in Nat /\ k + 1 \in Nat /\ Bounded(k)
    <3> HIDE DEF Bounded
    <3> QED BY SMT
  <2> SUFFICES Bounded(k + 1)
    <3> HIDE DEF Bounded
    <3> QED BY <2>0
  <2> SUFFICES ASSUME NEW A \in SUBSET Nat, IsFiniteSet(A), Cardinality(A) = k + 1
               PROVE  \E n \in Nat : \A x \in A : x <= n
    OBVIOUS
  <2>1. PICK y \in A : TRUE
    <3>1. k + 1 # 0
      BY <2>0
    <3> QED BY <3>1, FS_EmptySet
  <2>2. IsFiniteSet(A \ {y}) /\ Cardinality(A \ {y}) = (k + 1) - 1
    BY <2>1, FS_RemoveElement
  <2>3. Cardinality(A \ {y}) = k /\ A \ {y} \in SUBSET Nat
    BY <2>0, <2>2
  <2>4. PICK m \in Nat : \A x \in A \ {y} : x <= m
    BY <2>0, <2>2, <2>3
  <2>5. /\ m + y \in Nat
        /\ \A x \in A : x <= m + y
    BY <2>1, <2>4
  <2> QED BY <2>5
<1>3. Cardinality(S) \in T
  <2>1. T \in SUBSET Nat /\ Cardinality(S) \in Nat
    BY FS_CardinalityType
  <2> HIDE DEF T
  <2> QED BY <1>1, <1>2, <2>1, Induction
<1> QED BY <1>3

\* The divisor of the normalisation is positive.
LEMMA MaxWordsPositive ==
  ASSUME NEW scores, IsFiniteSet(DOMAIN scores), \A c \in DOMAIN scores : scores[c].words \in Nat
  PROVE  MaxWords(scores) \in Nat \ {0}
<1> DEFINE found == {scores[c].words : c \in DOMAIN scores}
           f == [c \in DOMAIN scores |-> scores[c].words]
<1>1. f \in Surjection(DOMAIN scores, found)
  BY DEF Surjection
<1>2. IsFiniteSet(found) /\ found \in SUBSET Nat
  BY <1>1, FS_Surjection
<1>3. PICK n \in Nat : \A x \in found : x <= n
  <2> HIDE DEF found
  <2> QED BY <1>2, FiniteBounded
<1> HIDE DEF found
<1>4. /\ {0} \cup found \in SUBSET Int /\ {0} \cup found # {}
      /\ \A x \in {0} \cup found : x <= n
  BY <1>2, <1>3
<1>5. Max({0} \cup found) \in {0} \cup found
  <2> DEFINE all == {0} \cup found
  <2>1. all \in SUBSET Int /\ all # {} /\ n \in Int /\ \A x \in all : x <= n
    BY <1>3, <1>4
  <2> HIDE DEF all
  <2>2. Max(all) \in all
    BY <2>1, GreatestOf DEF Max
  <2> QED BY <2>2 DEF all
<1>6. Max({0} \cup found) \in Nat
  <2>1. \A x \in {0} \cup found : x \in Nat
    BY <1>2
  <2> QED BY <1>5, <2>1, Zenon
<1> QED BY <1>6 DEF MaxWords, found

\* Better by both measures is better combined, also where one is a tie.
LEMMA BetterCombined ==
  ASSUME NEW v \in Int, NEW w \in Nat, NEW u \in Int, NEW x \in Nat, v >= u, w >= x, v > u \/ w > x,
         NEW m \in Nat \ {0}, NEW unit \in Nat \ {0}
  PROVE  7 * v * m + 3 * w * unit > 7 * u * m + 3 * x * unit
<1>1. 7 * v * m >= 7 * u * m /\ (v > u => 7 * v * m > 7 * u * m)
  <2>1. (v - u) * m >= 0 /\ (v > u => (v - u) * m > 0)
    OBVIOUS
  <2>2. 7 * v * m - 7 * u * m = 7 * ((v - u) * m)
    OBVIOUS
  <2> QED BY <2>1, <2>2
<1>2. 3 * w * unit >= 3 * x * unit /\ (w > x => 3 * w * unit > 3 * x * unit)
  <2>1. (w - x) * unit >= 0 /\ (w > x => (w - x) * unit > 0)
    OBVIOUS
  <2>2. 3 * w * unit - 3 * x * unit = 3 * ((w - x) * unit)
    OBVIOUS
  <2> QED BY <2>1, <2>2
<1>3. /\ 7 * v * m \in Int /\ 7 * u * m \in Int
      /\ 3 * w * unit \in Int /\ 3 * x * unit \in Int
  OBVIOUS
<1> QED BY <1>1, <1>2, <1>3

\* ... and all of them when there are no more than asked for.
LEMMA BestWhenFew ==
  ASSUME NEW rows, IsFiniteSet(rows), NEW score, NEW n \in Nat, NEW S \in Best(rows, score, n),
         Cardinality(rows) <= n
  PROVE  S = rows
<1>1. Cardinality(rows) \in Nat
  BY FS_CardinalityType
<1>2. S \in SUBSET rows /\ Cardinality(S) = Min({n, Cardinality(rows)})
  BY DEF Best, kSubset
<1>3. Cardinality(S) = Cardinality(rows)
  BY <1>1, <1>2, MinOfTwo
<1> QED BY <1>2, <1>3, FS_Subset

\* hybrid_search returns what it should, for any number of chunks, any scores,
\* any order of ties, any rows of the vector index, and chunks that appear
\* between the two SELECTs.
THEOREM SearchesSound == Spec => []SearchIsSound
<1>1. CallOK => SearchIsSound
  <2> DEFINE earlier == call.earlier
             later == call.later
             vec == call.vec
             words == call.words
             topK == call.topK
             matching == {c \in later : words[c] > 0}
             v(V, c) == IF c \in V THEN vec[c] ELSE 0
  <2> SUFFICES ASSUME CallOK, call.fn = "hybrid_search", NEW V \in VectorRows(earlier, topK),
                      NEW found \in HybridSearch(V, later, vec, words, topK)
               PROVE  /\ found \subseteq V \cup matching /\ Cardinality(found) <= topK
                      /\ Cardinality(V \cup matching) >= topK => Cardinality(found) = topK
                      /\ \A x \in (V \cup matching) \ found, y \in found :
                           words[x] > words[y] =>
                             IF x \in V THEN v(V, x) <= v(V, y) ELSE y \in V
    BY DEF SearchIsSound
  <2>1. /\ earlier \subseteq later /\ later \subseteq Chunks
        /\ vec \in [Chunks -> Similarities] /\ words \in [Chunks -> Ranks] /\ topK \in TopKs
    BY DEF CallOK
  <2> HIDE DEF earlier, later, vec, words, topK
  <2>2. /\ \A c \in later : vec[c] \in Int /\ words[c] \in Nat
        /\ topK \in Nat /\ 2 * topK \in Nat /\ Unit \in Nat \ {0}
    <3>1. \A c \in later : vec[c] \in Similarities /\ words[c] \in Ranks
      BY <2>1
    <3>2. /\ Similarities \subseteq Int /\ Ranks \subseteq Nat /\ TopKs \subseteq Nat
          /\ Unit \in Nat \ {0}
      BY CallsAssumption
    <3>3. \A c \in later : vec[c] \in Int /\ words[c] \in Nat
      BY <3>1, <3>2
    <3>4. topK \in Nat
      BY <2>1, <3>2
    <3>5. 2 * topK \in Nat
      BY <3>4
    <3> QED BY <3>2, <3>3, <3>4, <3>5
  <2>3. V \in SUBSET later /\ IsFiniteSet(V) /\ IsFiniteSet(matching) /\ matching \in SUBSET later
    <3>1. IsFiniteSet(later) /\ V \in SUBSET later
      BY <2>1, CallsAssumption, FS_Subset DEF VectorRows
    <3>2. matching \in SUBSET later
      OBVIOUS
    <3> HIDE DEF matching
    <3> QED BY <3>1, <3>2, FS_Subset
  <2>4. PICK W \in WordRows(later, words, topK) :
          found \in Best(V \cup W, Combined(Merged(V, W, vec, words)), topK)
    BY DEF HybridSearch
  <2>5. /\ W \in SUBSET matching
        /\ Cardinality(matching) >= 2 * topK => Cardinality(W) = 2 * topK
        /\ Cardinality(matching) <= 2 * topK => W = matching
        /\ \A x \in matching \ W, y \in W : words[y] >= words[x]
    <3>1. W \in Best(matching, words, 2 * topK)
      BY <2>4 DEF WordRows
    <3> HIDE DEF matching
    <3> QED BY <2>2, <2>3, <3>1, BestRows, BestWhenFew
  <2> DEFINE rows == V \cup W
             scores == Merged(V, W, vec, words)
             score == Combined(scores)
             top == MaxWords(scores)
             w(c) == IF c \in W THEN words[c] ELSE 0
  <2>6. rows \in SUBSET later /\ rows \in SUBSET (V \cup matching) /\ IsFiniteSet(rows)
    <3>1. rows \in SUBSET later /\ rows \in SUBSET (V \cup matching) /\ IsFiniteSet(later)
      BY <2>1, <2>3, <2>5, CallsAssumption, FS_Subset
    <3> HIDE DEF rows
    <3> QED BY <3>1, FS_Subset
  <2>7. /\ found \subseteq rows /\ Cardinality(found) <= topK
        /\ Cardinality(rows) >= topK => Cardinality(found) = topK
        /\ \A x \in rows \ found, y \in found : score[y] >= score[x]
    <3>1. found \in Best(rows, score, topK)
      BY <2>4
    <3> HIDE DEF rows, score
    <3> QED BY <2>2, <2>6, <3>1, BestRows
  <2>8. \A c \in rows : v(V, c) \in Int /\ w(c) \in Nat
    BY <2>2, <2>6
  <2>9. /\ top \in Nat \ {0}
        /\ \A c \in rows : score[c] = 7 * v(V, c) * top + 3 * w(c) * Unit
    <3>1. /\ DOMAIN scores = rows
          /\ \A c \in rows : scores[c].vec = v(V, c) /\ scores[c].words = w(c)
      BY DEF Merged
    <3> HIDE DEF scores, rows, v, w
    <3>2. top \in Nat \ {0}
      BY <2>6, <2>8, <3>1, MaxWordsPositive
    <3> QED BY <3>1, <3>2 DEF Combined
  <2>10. Cardinality(V \cup matching) >= topK => Cardinality(rows) >= topK
    <3>1. CASE Cardinality(matching) <= 2 * topK
      BY <2>5, <3>1
    <3>2. CASE ~(Cardinality(matching) <= 2 * topK)
      <4>1. W \in SUBSET rows
        OBVIOUS
      <4> HIDE DEF rows, matching
      <4>2. Cardinality(W) <= Cardinality(rows) /\ Cardinality(rows) \in Nat
        BY <2>6, <4>1, FS_Subset, FS_CardinalityType
      <4>3. Cardinality(matching) \in Nat
        BY <2>3, FS_CardinalityType
      <4> QED BY <2>2, <2>5, <3>2, <4>2, <4>3
    <3> QED BY <3>1, <3>2
  <2>11. ASSUME NEW x \in (V \cup matching) \ found, NEW y \in found, words[x] > words[y],
                ~(IF x \in V THEN v(V, x) <= v(V, y) ELSE y \in V)
         PROVE  FALSE
    <3>1. /\ x \in later /\ y \in rows /\ y \in later
          /\ vec[x] \in Int /\ vec[y] \in Int /\ words[x] \in Nat /\ words[y] \in Nat
      BY <2>2, <2>3, <2>6, <2>7, <2>11
    <3>2. x \in matching
      BY <3>1, <2>11
    <3>3. y \in W => x \in W
      BY <2>5, <2>11, <3>1, <3>2
    <3>4. x \in rows
      BY <2>11, <3>1, <3>3
    <3>5. v(V, x) \in Int /\ v(V, y) \in Int /\ w(x) \in Nat /\ w(y) \in Nat
      BY <2>8, <3>1, <3>4
    <3>6. v(V, x) >= v(V, y) /\ w(x) >= w(y) /\ (v(V, x) > v(V, y) \/ w(x) > w(y))
      <4>1. w(x) >= w(y) /\ (y \in W => w(x) > w(y))
        BY <2>11, <3>1, <3>3
      <4>2. CASE x \in V
        BY <2>11, <3>5, <4>1, <4>2
      <4>3. CASE x \notin V
        BY <2>11, <3>1, <4>1, <4>3
      <4> QED BY <4>2, <4>3
    <3> HIDE DEF v, w, score, top, rows
    <3>7. 7 * v(V, x) * top + 3 * w(x) * Unit > 7 * v(V, y) * top + 3 * w(y) * Unit
      BY <2>2, <2>9, <3>5, <3>6, BetterCombined
    <3>8. score[y] >= score[x]
      BY <2>7, <2>11, <3>4
    <3>9. /\ 7 * v(V, x) * top + 3 * w(x) * Unit \in Int
          /\ 7 * v(V, y) * top + 3 * w(y) * Unit \in Int
      BY <2>2, <2>9, <3>5
    <3> QED BY <2>9, <3>1, <3>4, <3>7, <3>8, <3>9
  <2> QED BY <2>6, <2>7, <2>10, <2>11
<1> QED BY <1>1, CallsTyped, PTL

-----------------------------------------------------------------------------
(* Addresses *)

\* What is left of a query without its tracking parts has the parts' type.
LEMMA KeptType ==
  ASSUME NEW query \in Seq(Part)
  PROVE  /\ Kept(query) \in Seq(Part) /\ Len(Kept(query)) \in Nat
         /\ DOMAIN Kept(query) = 1..Len(Kept(query))
         /\ \A i \in DOMAIN Kept(query) : Kept(query)[i] \in Part
<1>1. Kept(query) \in Seq(Part)
  BY SelectedElements DEF Kept
<1> QED BY <1>1, LenProperties

\* A tracking part may be inserted anywhere.
LEMMA KeptInsert ==
  ASSUME NEW query \in Seq(Part), NEW part \in Part, IsTracking(part),
         NEW i \in 1..(Len(query) + 1)
  PROVE  /\ Kept(InsertAt(query, i, part)) = Kept(query)
         /\ InsertAt(query, i, part) \in Seq(Part)
<1> DEFINE longer == InsertAt(query, i, part)
           R == {p \in ToSet(longer) : ~IsTracking(p)}
           S == {p \in ToSet(query) : ~IsTracking(p)}
<1>1. /\ longer \in Seq(Part) /\ Len(longer) = Len(query) + 1
      /\ \A j \in 1..(Len(query) + 1) :
           longer[j] = IF j < i THEN query[j] ELSE IF j = i THEN part ELSE query[j - 1]
  BY InsertedElements
<1>2. Len(query) \in Nat /\ DOMAIN query = 1..Len(query) /\ DOMAIN longer = 1..(Len(query) + 1)
  BY <1>1, LenProperties
<1> HIDE DEF longer
<1>3. \A j \in DOMAIN query : query[j] \in ToSet(longer)
  <2> SUFFICES ASSUME NEW j \in DOMAIN query PROVE \E k \in DOMAIN longer : longer[k] = query[j]
    BY DEF ToSet
  <2>1. CASE j < i
    BY <1>1, <1>2, <2>1
  <2>2. CASE ~(j < i)
    <3>1. j + 1 \in 1..(Len(query) + 1) /\ ~(j + 1 < i) /\ j + 1 # i /\ (j + 1) - 1 = j
      BY <1>2, <2>2
    <3>2. longer[j + 1] = query[j]
      BY <1>1, <3>1
    <3> QED BY <1>2, <3>1, <3>2
  <2> QED BY <2>1, <2>2
<1>4. \A p \in ToSet(query) : p \in R <=> p \in S
  BY <1>3 DEF ToSet
<1>5. part \notin R
  OBVIOUS
<1>6. Selected(longer, R) = Selected(query, S)
  <2> HIDE DEF R, S
  <2> QED BY <1>4, <1>5, SelectedInsert DEF longer
<1> QED BY <1>1, <1>6 DEF Kept, longer

\* The form of an address whose query is left empty, and of any other.
LEMMA CanonicalForms ==
  ASSUME NEW url \in Url
  PROVE  LET query == Kept(url.query)
             form == CanonicalUrl(url)
         IN  /\ form.stem = url.stem
             /\ query = <<>> => form.query = <<>>
             /\ query # <<>> => form.query = [query EXCEPT ![Len(query)].slashes = 0]
BY DEF CanonicalUrl, Url

\* The last part keeps its key, and no part is lost, when its slashes go.
LEMMA SlashesOnly ==
  ASSUME NEW query \in Seq(Part), NEW n
  PROVE  LET short == [query EXCEPT ![n].slashes = 0]
         IN  /\ DOMAIN short = DOMAIN query
             /\ \A i \in DOMAIN query : short[i].key = query[i].key /\ short[i].upper = query[i].upper
<1>1. \A i \in DOMAIN query : query[i] \in Part
  BY LenProperties
<1> QED BY <1>1 DEF Part

\* Addresses that differ in tracking parts and fragments only have one form,
\* and addresses of one form differ in nothing else but slashes.
THEOREM AddressesKeepForm == Spec => []SameAddressSameForm
<1> DEFINE names(u) == [i \in DOMAIN Kept(u.query) |-> <<Kept(u.query)[i].key, Kept(u.query)[i].upper>>]
<1>1. ASSUME NEW url \in Url, NEW key \in Tracking, NEW upper \in BOOLEAN, NEW slashes \in 0..1,
             NEW i \in 1..(Len(url.query) + 1)
      PROVE  CanonicalUrl([url EXCEPT !.fragment = NoFragment,
               !.query = InsertAt(@, i, [key |-> key, upper |-> upper, slashes |-> slashes])])
               = CanonicalUrl(url)
  <2> DEFINE part == [key |-> key, upper |-> upper, slashes |-> slashes]
             longer == InsertAt(url.query, i, part)
             other == [url EXCEPT !.fragment = NoFragment, !.query = longer]
  <2>1. url.query \in Seq(Part) /\ part \in Part /\ IsTracking(part)
    BY DEF Url, Part, IsTracking
  <2>2. Kept(longer) = Kept(url.query)
    <3> HIDE DEF part
    <3> QED BY <2>1, KeptInsert
  <2> HIDE DEF longer
  <2>3. /\ other.query = longer /\ other.stem = url.stem /\ other.slashes = url.slashes
        /\ other = [url EXCEPT !.fragment = NoFragment, !.query = longer]
    BY DEF Url
  <2>4. CanonicalUrl(other) = CanonicalUrl(url)
    BY <2>2, <2>3 DEF CanonicalUrl, Url
  <2> QED BY <2>4 DEF longer
<1>2. ASSUME NEW url \in Url, NEW v \in Url, CanonicalUrl(v) = CanonicalUrl(url)
      PROVE  v.stem = url.stem /\ names(v) = names(url)
  <2> DEFINE a == Kept(v.query)
             b == Kept(url.query)
             short(q) == [q EXCEPT ![Len(q)].slashes = 0]
  <2>1. a \in Seq(Part) /\ b \in Seq(Part)
    BY KeptType DEF Url
  <2>2. /\ v.stem = url.stem
        /\ (IF a = <<>> THEN <<>> ELSE short(a)) = (IF b = <<>> THEN <<>> ELSE short(b))
    BY <1>2, CanonicalForms
  <2> HIDE DEF a, b
  <2>3. /\ DOMAIN short(a) = DOMAIN a /\ DOMAIN short(b) = DOMAIN b
        /\ \A j \in DOMAIN a : short(a)[j].key = a[j].key /\ short(a)[j].upper = a[j].upper
        /\ \A j \in DOMAIN b : short(b)[j].key = b[j].key /\ short(b)[j].upper = b[j].upper
    BY <2>1, SlashesOnly
  <2>4. (a = <<>> <=> DOMAIN a = {}) /\ (b = <<>> <=> DOMAIN b = {}) /\ DOMAIN <<>> = {}
    BY <2>1, LenProperties, EmptySeq
  <2> HIDE DEF short
  <2>5. /\ DOMAIN a = DOMAIN b
        /\ \A j \in DOMAIN a : a[j].key = b[j].key /\ a[j].upper = b[j].upper
    BY <2>2, <2>3, <2>4
  <2> QED BY <2>2, <2>5 DEF a, b
<1>3. CallOK => SameAddressSameForm
  BY <1>1, <1>2, CallsAssumption DEF CallOK, SameAddressSameForm
<1> QED BY <1>3, CallsTyped, PTL
=============================================================================
