------------------------------- MODULE Backtest -------------------------------
(***************************************************************************)
(* run_backtest (packages/backtest/simulator.py), behind POST              *)
(* /backtest/run: the instrument, the days a trade is entered and left,    *)
(* and its profit.  Days are numbers, prices[d] the close of a day that    *)
(* has one (an empty function when there is no series).                    *)
(***************************************************************************)
EXTENDS Integers, Sequences, FiniteSets, FiniteSetsExt, SequencesExt

CONSTANT
  None          \* Python's None

\* The one given, or the first entity of the alert that looks like a ticker
\* (up to five capitals).
Instrument(override, entities) ==
  LET tickers == SelectSeq(entities, LAMBDA e : e.upper /\ e.length <= 5)
  IN  IF override # None THEN override
      ELSE IF tickers # <<>> THEN Head(tickers).name ELSE None

\* The first day at or after the event.
EntryDay(prices, event) ==
  LET days == {d \in DOMAIN prices : d >= event}
  IN  IF days = {} THEN None ELSE Min(days)

\* Mutated form: the first day at or after the end of the period.
ExitDayAfter(prices, end) ==
  LET days == {d \in DOMAIN prices : d >= end}
  IN  IF days = {} THEN None ELSE Min(days)

\* The last day at or before the end of the period.
ExitDay(prices, end) ==
  LET days == {d \in DOMAIN prices : d <= end}
  IN  IF days = {} THEN None ELSE Max(days)

\* The profit as a fraction of the entry; none when a price is missing or 0.
Profit(action, entry, exit) ==
  IF entry = None \/ exit = None \/ entry = 0 \/ exit = 0 THEN None
  ELSE [gain |-> IF action = "BUY" THEN exit - entry ELSE entry - exit, of |-> entry]

PriceOn(prices, day) == IF day = None THEN None ELSE prices[day]

\* The row recorded; None for the ValueError that is answered with 404.
RunBacktest(alert, override, action, holding, prices) ==
  IF alert = None \/ Instrument(override, alert.entities) = None THEN None
  ELSE LET entry == EntryDay(prices, alert.day)
           exit == ExitDay(prices, alert.day + holding)
       IN  [instrument |-> Instrument(override, alert.entities),
            entry |-> entry, exit |-> exit,
            pnl |-> Profit(action, PriceOn(prices, entry), PriceOn(prices, exit))]
=============================================================================
