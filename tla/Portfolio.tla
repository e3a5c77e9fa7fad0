------------------------------ MODULE Portfolio -------------------------------
(***************************************************************************)
(* Trades: parse_action (packages/portfolio/parser.py) reads a command,    *)
(* record_action and get_positions (ledger.py) keep the ledger and         *)
(* compute the positions.  Its users are the loop of imap_poll_task, one   *)
(* session for all mails of a poll, and the HTTP API, one per request.     *)
(*                                                                         *)
(* trade_actions.timestamp is filled in by the database with now(): the    *)
(* time the TRANSACTION began.  A mail session begins one with the SELECT  *)
(* of a reply and keeps it open while it mails, up to the commit of the    *)
(* next trade, so the order of the timestamps, which get_positions reads   *)
(* the ledger in, need not be the order in which trades were recorded.     *)
(***************************************************************************)
EXTENDS Integers, Sequences, FiniteSets, SequencesExt, Selection

CONSTANTS
  MailSessions,   \* sessions of imap_poll_task
  Requests,       \* sessions of the HTTP API
  Tickers,        \* names of instruments
  Texts,          \* bodies of mails and requests: sequences of lines
  NoPrice,        \* a trade without a price ("@" absent or no number)
  MaxRows,        \* bound: rows of the ledger
  MaxClock        \* bound: transactions begun

Sessions == MailSessions \cup Requests

Commands == {"BUY", "SELL", "NOTE", "POSITION", "HELP"}

\* A line of a text, as the regular expressions of parse_action read it.
Line ==
  [kind : Commands \cup {"QUESTION", "PROSE"}, instrument : Tickers \cup {""},
   quantity : Nat, price : Nat \cup {NoPrice}]

ASSUME PortfolioAssumption ==
  /\ Texts \subseteq Seq(Line)
  /\ NoPrice \notin Int
  /\ MaxRows \in Nat /\ MaxClock \in Nat

VARIABLES
  ledger,     \* rows of trade_actions, in the order of their commits
  clock,      \* the time, counted in transactions begun
  began,      \* began[s]: when the open transaction of s began, or 0
  pc,         \* where session s is
  entry       \* entry[s]: the command session s is working on

vars == <<ledger, clock, began, pc, entry>>

-----------------------------------------------------------------------------
(* parse_action *)

Recorded == {"BUY", "SELL", "NOTE"}

\* The text is no command: it is put to the language model.
Question ==
  [kind |-> "QUESTION", instrument |-> "", quantity |-> 0, price |-> NoPrice]

\* The first line that is a command; blank lines and prose are passed over.
ParseAction(text) ==
  LET commands == Selected(text, {line \in ToSet(text) : line.kind \in Commands})
  IN  IF commands = <<>> THEN Question ELSE Head(commands)

-----------------------------------------------------------------------------
(* get_positions *)

\* A position: its quantity, and its average cost as a fraction.  An average
\* of nothing and one of zero are the same to the code (both are false).
Flat == [quantity |-> 0, cost |-> [num |-> 0, den |-> 1], trades |-> 0]

\* Mutated form: the unit price stands for the total paid.
MeanOfPrices(pos, buy) ==
  [num |-> pos.quantity * pos.cost.num + buy.price * pos.cost.den,
   den |-> (pos.quantity + buy.quantity) * pos.cost.den]

\* The average after a buy: old_cost is avg_cost or the price of the buy.
Mean(pos, buy) ==
  LET old == IF pos.cost.num = 0 THEN [num |-> buy.price, den |-> 1] ELSE pos.cost
  IN  [num |-> pos.quantity * old.num + buy.quantity * buy.price * old.den,
       den |-> (pos.quantity + buy.quantity) * old.den]

\* Mutated form: a sale takes its value out of the average too.
ApplyAveragingSales(pos, trade) ==
  LET signed == IF trade.kind = "BUY" THEN trade.quantity ELSE 0 - trade.quantity
      after == pos.quantity + signed
  IN  [quantity |-> after,
       cost |-> IF trade.price # NoPrice /\ after > 0
                THEN Mean(pos, [trade EXCEPT !.quantity = signed]) ELSE pos.cost,
       trades |-> pos.trades + 1]

Apply(pos, trade) ==
  LET after == pos.quantity +
                 (IF trade.kind = "BUY" THEN trade.quantity ELSE 0 - trade.quantity)
  IN  [quantity |-> after,
       cost |-> IF trade.kind = "BUY" /\ trade.price # NoPrice /\ after > 0
                THEN Mean(pos, trade) ELSE pos.cost,
       trades |-> pos.trades + 1]

\* How many rows are no later than the i-th.
Rank(rows, i) == Cardinality({j \in DOMAIN rows : rows[j].at <= rows[i].at})

\* ORDER BY timestamp.  No two rows have the same (TypeOK).
ByTimestamp(rows) ==
  [n \in 1..Len(rows) |-> rows[CHOOSE i \in DOMAIN rows : Rank(rows, i) = n]]

\* The trades of one instrument, in the order get_positions reads them.
TradesIn(i, rows) ==
  Selected(rows, {r \in ToSet(rows) : r.kind \in {"BUY", "SELL"} /\ r.instrument = i})

\* The position after each of the first n trades.
PositionAfter(trades) ==
  LET after[n \in 0..Len(trades)] ==
        IF n = 0 THEN Flat ELSE Apply(after[n - 1], trades[n])
  IN  after

Position(trades) == PositionAfter(trades)[Len(trades)]

Instruments == {r.instrument : r \in ToSet(ledger)} \ {""}

\* What get_positions returns: the positions that are not flat.
Positions ==
  LET final == [i \in Instruments |-> Position(TradesIn(i, ByTimestamp(ledger)))]
  IN  [i \in {j \in Instruments : final[j].quantity # 0} |-> final[i]]

-----------------------------------------------------------------------------
(* The sessions *)

Init ==
  /\ ledger = <<>>
  /\ clock = 0
  /\ began = [s \in Sessions |-> 0]
  /\ pc = [s \in Sessions |-> "next"]
  /\ entry = [s \in Sessions |-> Question]

Goto(s, l) == pc' = [pc EXCEPT ![s] = l]

\* The first statement of a transaction begins it.
EnsureBegun(s) ==
  IF began[s] # 0 THEN UNCHANGED <<clock, began>>
  ELSE /\ clock < MaxClock
       /\ clock' = clock + 1
       /\ began' = [began EXCEPT ![s] = clock + 1]

EndTransaction(s) == began' = [began EXCEPT ![s] = 0]

\* The command is done with.
Clear(s) == entry' = [entry EXCEPT ![s] = Question]

\* The session is closed: the next command of s is read in a new one.
Close(s) == Goto(s, "next") /\ EndTransaction(s) /\ Clear(s)

\* The next mail, of the same poll or of a later one, or the text of a request.
Read(s) ==
  /\ pc[s] = "next" /\ Len(ledger) < MaxRows
  /\ \E text \in Texts : entry' = [entry EXCEPT ![s] = ParseAction(text)]
  /\ Goto(s, "parsed")
  /\ UNCHANGED <<ledger, clock, began>>

\* record_action: db.add(action), and the INSERT that its commit flushes
Insert(s) ==
  /\ pc[s] = "parsed" /\ entry[s].kind \in Recorded
  /\ EnsureBegun(s)
  /\ Goto(s, "commit")
  /\ UNCHANGED <<ledger, entry>>

AddRow(s) ==
  ledger' = Append(ledger,
    [session |-> s, kind |-> entry[s].kind, instrument |-> entry[s].instrument,
     quantity |-> entry[s].quantity, price |-> entry[s].price,
     at |-> began[s]])

\* Mutated form: the transaction goes on, as with a flush in place of the commit.
CommitKeepingTransaction(s) ==
  /\ pc[s] = "commit" /\ Len(ledger) < MaxRows
  /\ AddRow(s)
  /\ Goto(s, "summary")
  /\ UNCHANGED <<clock, began, entry>>

Commit(s) ==
  /\ pc[s] = "commit" /\ Len(ledger) < MaxRows
  /\ AddRow(s) /\ EndTransaction(s)
  /\ Goto(s, "summary")
  /\ UNCHANGED <<clock, entry>>

\* The row is committed and the answer of the database is lost.
CommitUnknown(s) ==
  /\ pc[s] = "commit" /\ Len(ledger) < MaxRows
  /\ AddRow(s) /\ Close(s)
  /\ UNCHANGED clock

\* The SELECT of format_positions, after a trade or for POSITION, and of
\* hybrid_search, for a QUESTION, begins a transaction.
Select(s) ==
  /\ \/ pc[s] = "summary"
     \/ s \in MailSessions /\ pc[s] = "parsed" /\ entry[s].kind \in {"POSITION", "QUESTION"}
  /\ EnsureBegun(s)
  /\ Goto(s, "reply")
  /\ UNCHANGED <<ledger, entry>>

\* The reply of a mail session leaves the transaction open.
MailReply(s) ==
  /\ s \in MailSessions
  /\ \/ pc[s] = "reply"
     \/ pc[s] = "parsed" /\ entry[s].kind = "HELP"
  /\ Goto(s, "next") /\ Clear(s)
  /\ UNCHANGED <<ledger, clock, began>>

\* A request is answered ("recorded" or "unrecognized") and its session closed.
Respond(s) ==
  /\ s \in Requests
  /\ \/ pc[s] = "reply"
     \/ pc[s] = "parsed" /\ entry[s].kind \notin Recorded
  /\ Close(s)
  /\ UNCHANGED <<ledger, clock>>

\* The last mail is done, or an exception or a crash ends the session: what
\* is not committed is rolled back.
End(s) ==
  /\ Close(s)
  /\ UNCHANGED <<ledger, clock>>

Next ==
  \E s \in Sessions :
    \/ Read(s) \/ Insert(s) \/ Commit(s) \/ CommitUnknown(s)
    \/ Select(s) \/ MailReply(s) \/ Respond(s) \/ End(s)

Spec == Init /\ [][Next]_vars

-----------------------------------------------------------------------------
(* Properties *)

Labels == {"next", "parsed", "commit", "summary", "reply"}

Row ==
  [session : Sessions, kind : Recorded, instrument : Tickers \cup {""}, quantity : Nat,
   price : Nat \cup {NoPrice}, at : Nat]

\* Every variable stays in its range, and no two rows have the same timestamp.
TypeOK ==
  /\ ledger \in Seq(Row) /\ Len(ledger) <= MaxRows
  /\ \A i \in DOMAIN ledger : ledger[i].at \in 1..clock
  /\ \A i, j \in DOMAIN ledger : ledger[i].at = ledger[j].at => i = j
  /\ clock \in 0..MaxClock
  /\ began \in [Sessions -> 0..clock]
  /\ pc \in [Sessions -> Labels]
  /\ entry \in [Sessions -> Line]
  /\ \A s \in Sessions : entry[s].kind \in Commands \cup {"QUESTION"}
  /\ \A s \in Sessions : pc[s] \in {"commit", "summary"} => entry[s].kind \in Recorded

\* The timestamps keep the order in which one session recorded its trades,
\* although a transaction stays open from one mail to the next: trades change
\* places only with those of another session.
OwnOrder ==
  \A i, j \in DOMAIN ledger :
    i < j /\ ledger[i].session = ledger[j].session => ledger[i].at < ledger[j].at

\* The quantity held after the first n trades.
Held(trades, n) == PositionAfter(trades)[n].quantity

NeverShort(trades) == \A n \in DOMAIN trades : Held(trades, n) >= 0

IsPricedBuy(r) == r.kind = "BUY" /\ r.price # NoPrice

PricesPaid(trades) == {r.price : r \in {x \in ToSet(trades) : IsPricedBuy(x)}}

\* The trades since the position was last flat.
SinceFlat(trades) ==
  LET flat == {0} \cup {n \in DOMAIN trades : Held(trades, n) = 0}
  IN  SubSeq(trades, (CHOOSE n \in flat : \A k \in flat : k <= n) + 1, Len(trades))

Within(cost, prices) ==
  /\ \E p \in prices : p * cost.den <= cost.num
  /\ \E p \in prices : cost.num <= p * cost.den

\* get_positions: the average cost of a position that was never short, in the
\* order of the timestamps, lies between the prices paid for it; and between
\* those paid since it was last flat, if all buys since then had a price.
AverageWithinPaid ==
  \A i \in DOMAIN Positions :
    LET trades == TradesIn(i, ByTimestamp(ledger))
        run == SinceFlat(trades)
        cost == Positions[i].cost
    IN  NeverShort(trades) =>
          /\ cost.num # 0 => Within(cost, PricesPaid(trades))
          /\ (\A n \in DOMAIN run : run[n].kind = "BUY" => IsPricedBuy(run[n])) =>
               Within(cost, PricesPaid(run))

\* The money paid for the first n trades, all of them with a price.
PaidAfter(trades) ==
  LET paid[n \in 0..Len(trades)] ==
        IF n = 0 THEN 0 ELSE paid[n - 1] + trades[n].quantity * trades[n].price
  IN  paid

\* While a position is only bought, each time at a price above zero, its
\* average is the money paid over the quantity, whatever the order in which
\* the sessions recorded the trades.
BuysAverage ==
  \A i \in DOMAIN Positions :
    LET trades == TradesIn(i, ledger)
        paid == PaidAfter(trades)[Len(trades)]
        cost == Positions[i].cost
    IN  (\A n \in DOMAIN trades : IsPricedBuy(trades[n]) /\ trades[n].price > 0) =>
          cost.num * Positions[i].quantity = paid * cost.den

\* "running-average cost basis" (ledger.py:59): when no sale, at the time it
\* was recorded, sold more than the ledger held, the average cost of an open
\* position lies between the prices paid.
CoveredAverageWithinPaid ==
  \A i \in DOMAIN Positions :
    LET trades == TradesIn(i, ledger)
    IN  NeverShort(trades) /\ Positions[i].cost.num # 0 =>
          Within(Positions[i].cost, PricesPaid(trades))
=============================================================================
