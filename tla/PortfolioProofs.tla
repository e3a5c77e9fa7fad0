--------------------------- MODULE PortfolioProofs ---------------------------
(***************************************************************************)
(* Proofs about Portfolio, for any number of sessions, any texts and any   *)
(* length of the ledger.                                                   *)
(*                                                                         *)
(*   PortfolioTypeCorrect   Spec => []TypeOK                               *)
(*   OwnTradesInOrder       Spec => []OwnOrder                             *)
(*   AveragesWithinPrices   Spec => []AverageWithinPaid                    *)
(*   BuysAverageExactly     Spec => []BuysAverage                          *)
(***************************************************************************)
EXTENDS Portfolio, SequenceLemmas

-----------------------------------------------------------------------------
(* The inductive invariant *)

\* A transaction that is open began after every trade its session recorded,
\* at a time when no other began and no recorded one did.
TransactionsOK ==
  /\ \A s \in Sessions : pc[s] = "commit" => began[s] # 0
  /\ \A s, u \in Sessions : s # u /\ began[s] # 0 => began[s] # began[u]
  /\ \A s \in Sessions, i \in DOMAIN ledger :
       began[s] # 0 => /\ ledger[i].at # began[s]
                       /\ ledger[i].session = s => ledger[i].at < began[s]

Inv == TypeOK /\ TransactionsOK /\ OwnOrder

\* parse_action finds a command of the text, or none.
LEMMA ParseType ==
  ASSUME NEW text \in Texts
  PROVE  ParseAction(text) \in Line /\ ParseAction(text).kind \in Commands \cup {"QUESTION"}
<1> DEFINE found == {line \in ToSet(text) : line.kind \in Commands}
           commands == Selected(text, found)
<1>1. text \in Seq(Line)
  BY PortfolioAssumption
<1>2. commands \in Seq(Line) /\ ToSet(commands) = ToSet(text) \cap found
  BY <1>1, SelectedElements
<1>3. Question \in Line /\ Question.kind = "QUESTION"
  BY DEF Question, Line, Commands
<1>4. ParseAction(text) = IF commands = <<>> THEN Question ELSE Head(commands)
  BY DEF ParseAction
<1> HIDE DEF commands
<1>5. commands # <<>> => Head(commands) \in ToSet(commands) /\ Head(commands) \in Line
  BY <1>2, ElementsType, HeadTailProperties
<1> QED BY <1>2, <1>3, <1>4, <1>5

\* A transaction that begins is the latest.
LEMMA BegunType ==
  ASSUME TypeOK, TransactionsOK, NEW s \in Sessions, EnsureBegun(s), UNCHANGED ledger
  PROVE  /\ clock' \in clock..MaxClock /\ began' \in [Sessions -> 0..clock']
         /\ began'[s] # 0 /\ \A u \in Sessions \ {s} : began'[u] = began[u]
         /\ \A t, u \in Sessions : t # u /\ began'[t] # 0 => began'[t] # began'[u]
         /\ \A t \in Sessions, i \in DOMAIN ledger :
              began'[t] # 0 => /\ ledger[i].at # began'[t]
                               /\ ledger[i].session = t => ledger[i].at < began'[t]
<1>0. /\ clock \in 0..MaxClock /\ began \in [Sessions -> 0..clock] /\ MaxClock \in Nat
      /\ \A i \in DOMAIN ledger : ledger[i].at \in 1..clock
  BY PortfolioAssumption DEF TypeOK
<1>1. CASE began[s] # 0
  BY <1>0, <1>1 DEF EnsureBegun, TransactionsOK
<1>2. CASE began[s] = 0
  <2>1. clock' = clock + 1 /\ began' = [began EXCEPT ![s] = clock + 1] /\ clock < MaxClock
    BY <1>2 DEF EnsureBegun
  <2>2. clock' \in clock..MaxClock /\ began' \in [Sessions -> 0..clock'] /\ began'[s] = clock + 1
        /\ \A u \in Sessions \ {s} : began'[u] = began[u]
    BY <1>0, <2>1
  <2>3. \A u \in Sessions : began[u] # clock + 1 /\ began[u] \in Nat
    BY <1>0
  <2>4. \A t, u \in Sessions : t # u /\ began'[t] # 0 => began'[t] # began'[u]
    BY <2>2, <2>3 DEF TransactionsOK
  <2>5. \A t \in Sessions, i \in DOMAIN ledger :
          began'[t] # 0 => /\ ledger[i].at # began'[t]
                           /\ ledger[i].session = t => ledger[i].at < began'[t]
    BY <1>0, <2>2 DEF TransactionsOK
  <2> QED BY <1>0, <2>2, <2>4, <2>5
<1> QED BY <1>1, <1>2

\* Closing a transaction, or leaving it open.
LEMMA EndedType ==
  ASSUME TypeOK, TransactionsOK, NEW s \in Sessions, UNCHANGED <<ledger, clock>>,
         EndTransaction(s) \/ UNCHANGED began,
         \A u \in Sessions : pc'[u] = "commit" => pc[u] = "commit" /\ (u = s => began' = began)
  PROVE  began' \in [Sessions -> 0..clock] /\ TransactionsOK'
<1>1. began \in [Sessions -> 0..clock] /\ clock \in Nat
  BY DEF TypeOK
<1>2. \A u \in Sessions : began'[u] = began[u] \/ (u = s /\ began'[u] = 0)
  BY <1>1 DEF EndTransaction
<1>3. began' \in [Sessions -> 0..clock]
  BY <1>1 DEF EndTransaction
<1>4. \A u \in Sessions : pc'[u] = "commit" => began'[u] # 0
  BY <1>2 DEF TransactionsOK
<1>5. \A t, u \in Sessions : t # u /\ began'[t] # 0 => began'[t] # began'[u]
  BY <1>2 DEF TransactionsOK
<1>6. \A t \in Sessions, i \in DOMAIN ledger' :
        began'[t] # 0 => /\ ledger'[i].at # began'[t]
                         /\ ledger'[i].session = t => ledger'[i].at < began'[t]
  BY <1>2 DEF TransactionsOK
<1> QED BY <1>3, <1>4, <1>5, <1>6 DEF TransactionsOK

\* A row that is committed, and its transaction with it, is the session's last.
LEMMA RowAdded ==
  ASSUME Inv, NEW s \in Sessions, pc[s] = "commit", Len(ledger) < MaxRows, AddRow(s),
         EndTransaction(s), clock' = clock, \A u \in Sessions \ {s} : pc'[u] = pc[u],
         pc'[s] # "commit"
  PROVE  /\ ledger' \in Seq(Row) /\ Len(ledger') <= MaxRows
         /\ \A i \in DOMAIN ledger' : ledger'[i].at \in 1..clock'
         /\ \A i, j \in DOMAIN ledger' : ledger'[i].at = ledger'[j].at => i = j
         /\ began' \in [Sessions -> 0..clock']
         /\ TransactionsOK' /\ OwnOrder'
<1> DEFINE row == [session |-> s, kind |-> entry[s].kind, instrument |-> entry[s].instrument,
                   quantity |-> entry[s].quantity, price |-> entry[s].price, at |-> began[s]]
           n == Len(ledger)
<1>0. /\ ledger \in Seq(Row) /\ n \in Nat /\ DOMAIN ledger = 1..n
      /\ \A i \in DOMAIN ledger : ledger[i] \in Row /\ ledger[i].at \in 1..clock
      /\ \A i, j \in DOMAIN ledger : ledger[i].at = ledger[j].at => i = j
      /\ clock \in Nat /\ began \in [Sessions -> 0..clock] /\ MaxRows \in Nat
      /\ entry[s] \in Line /\ entry[s].kind \in Recorded
  BY LenProperties, PortfolioAssumption DEF Inv, TypeOK
<1>1. began[s] \in 1..clock
  BY <1>0 DEF Inv, TransactionsOK
<1>2. row \in Row /\ row.at = began[s] /\ row.session = s
  <2>1. /\ entry[s].instrument \in Tickers \cup {""} /\ entry[s].quantity \in Nat
        /\ entry[s].price \in Nat \cup {NoPrice}
    BY <1>0 DEF Line
  <2>2. began[s] \in Nat /\ entry[s].kind \in Recorded
    BY <1>0, <1>1
  <2> QED BY <2>1, <2>2 DEF Row
<1>3. ledger' = Append(ledger, row)
  BY DEF AddRow
<1> HIDE DEF row
<1>4. /\ ledger' \in Seq(Row) /\ Len(ledger') = n + 1 /\ ledger'[n + 1] = row
      /\ \A i \in 1..n : ledger'[i] = ledger[i]
  BY <1>0, <1>2, <1>3, AppendProperties
<1>5. DOMAIN ledger' = 1..(n + 1)
  BY <1>0, <1>4, LenProperties
<1>6. \A i \in DOMAIN ledger' : (i \in DOMAIN ledger /\ ledger'[i] = ledger[i])
                                \/ (i = n + 1 /\ ledger'[i] = row)
  BY <1>0, <1>4, <1>5
<1>7. \A i \in DOMAIN ledger : /\ ledger[i].at # began[s]
                               /\ ledger[i].session = s => ledger[i].at < began[s]
  BY <1>1 DEF Inv, TransactionsOK
<1>8. \A i \in DOMAIN ledger' : ledger'[i].at \in 1..clock'
  BY <1>0, <1>1, <1>2, <1>6
<1>9. \A i, j \in DOMAIN ledger' : ledger'[i].at = ledger'[j].at => i = j
  BY <1>0, <1>2, <1>6, <1>7
<1>10. /\ began' \in [Sessions -> 0..clock'] /\ began'[s] = 0
       /\ \A u \in Sessions \ {s} : began'[u] = began[u]
  BY <1>0 DEF EndTransaction
<1>11. TransactionsOK'
  <2>1. \A u \in Sessions : pc'[u] = "commit" => began'[u] # 0
    BY <1>10 DEF Inv, TransactionsOK
  <2>2. \A t, u \in Sessions : t # u /\ began'[t] # 0 => began'[t] # began'[u]
    BY <1>10 DEF Inv, TransactionsOK
  <2>3. ASSUME NEW t \in Sessions, NEW i \in DOMAIN ledger', began'[t] # 0
        PROVE  /\ ledger'[i].at # began'[t]
               /\ ledger'[i].session = t => ledger'[i].at < began'[t]
    <3>1. t # s /\ began'[t] = began[t]
      BY <1>10, <2>3
    <3>2. began[s] # began[t]
      BY <1>1, <3>1 DEF Inv, TransactionsOK
    <3> QED BY <1>2, <1>6, <2>3, <3>1, <3>2 DEF Inv, TransactionsOK
  <2> QED BY <2>1, <2>2, <2>3 DEF TransactionsOK
<1>12. OwnOrder'
  <2> SUFFICES ASSUME NEW i \in DOMAIN ledger', NEW j \in DOMAIN ledger', i < j,
                      ledger'[i].session = ledger'[j].session
               PROVE  ledger'[i].at < ledger'[j].at
    BY DEF OwnOrder
  <2>1. CASE j = n + 1
    <3>1. i \in DOMAIN ledger /\ ledger'[i] = ledger[i] /\ ledger'[j] = row
      BY <1>0, <1>4, <1>5, <2>1
    <3>2. ledger[i].session = s /\ ledger'[j].at = began[s]
      BY <1>2, <3>1
    <3> QED BY <1>7, <3>1, <3>2
  <2>2. CASE j # n + 1
    <3>1. i \in 1..n /\ j \in 1..n
      BY <1>0, <1>5, <2>2
    <3>2. ledger'[i] = ledger[i] /\ ledger'[j] = ledger[j] /\ i \in DOMAIN ledger /\ j \in DOMAIN ledger
      BY <1>0, <1>4, <3>1
    <3> QED BY <3>2 DEF Inv, OwnOrder
  <2> QED BY <2>1, <2>2
<1>13. Len(ledger') <= MaxRows
  BY <1>0, <1>4
<1> QED BY <1>4, <1>8, <1>9, <1>10, <1>11, <1>12, <1>13

\* A step that adds no row keeps the order.
LEMMA SameLedger ==
  ASSUME Inv, UNCHANGED ledger, clock' \in clock..MaxClock, began' \in [Sessions -> 0..clock'],
         TransactionsOK', pc' \in [Sessions -> Labels], entry' \in [Sessions -> Line],
         \A s \in Sessions : entry'[s].kind \in Commands \cup {"QUESTION"},
         \A s \in Sessions : pc'[s] \in {"commit", "summary"} => entry'[s].kind \in Recorded
  PROVE  Inv'
<1>1. \A i \in DOMAIN ledger : ledger[i].at \in 1..clock'
  BY PortfolioAssumption DEF Inv, TypeOK
<1>2. clock' \in 0..MaxClock
  BY PortfolioAssumption DEF Inv, TypeOK
<1> QED BY <1>1, <1>2 DEF Inv, TypeOK, OwnOrder

LEMMA NextKeeps ==
  ASSUME Inv, [Next]_vars
  PROVE  Inv'
<1>0. /\ clock \in 0..MaxClock /\ began \in [Sessions -> 0..clock]
      /\ pc \in [Sessions -> Labels] /\ entry \in [Sessions -> Line]
      /\ \A s \in Sessions : entry[s].kind \in Commands \cup {"QUESTION"}
      /\ \A s \in Sessions : pc[s] \in {"commit", "summary"} => entry[s].kind \in Recorded
      /\ TypeOK /\ TransactionsOK /\ MaxClock \in Nat
  BY PortfolioAssumption DEF Inv, TypeOK
<1>a. Question \in Line /\ Question.kind = "QUESTION"
  BY DEF Question, Line
<1>b. clock \in clock..MaxClock
  BY <1>0
<1>1. ASSUME NEW s \in Sessions, Read(s) PROVE Inv'
  <2>1. PICK text \in Texts : entry' = [entry EXCEPT ![s] = ParseAction(text)]
    BY <1>1 DEF Read
  <2>2. ParseAction(text) \in Line /\ ParseAction(text).kind \in Commands \cup {"QUESTION"}
    BY ParseType
  <2>3. pc' = [pc EXCEPT ![s] = "parsed"] /\ UNCHANGED <<ledger, clock, began>>
    BY <1>1 DEF Read, Goto
  <2>4. TransactionsOK'
    BY <1>0, <2>3, EndedType
  <2> HIDE DEF ParseAction
  <2> QED BY <1>0, <1>b, <2>1, <2>2, <2>3, <2>4, SameLedger DEF Labels
<1>2. ASSUME NEW s \in Sessions, NEW l \in {"commit", "reply"}, EnsureBegun(s), Goto(s, l),
             UNCHANGED <<ledger, entry>>, l = "commit" => entry[s].kind \in Recorded
      PROVE  Inv'
  <2>1. /\ clock' \in clock..MaxClock /\ began' \in [Sessions -> 0..clock'] /\ began'[s] # 0
        /\ \A u \in Sessions \ {s} : began'[u] = began[u]
        /\ \A t, u \in Sessions : t # u /\ began'[t] # 0 => began'[t] # began'[u]
        /\ \A t \in Sessions, i \in DOMAIN ledger :
             began'[t] # 0 => /\ ledger[i].at # began'[t]
                              /\ ledger[i].session = t => ledger[i].at < began'[t]
    BY <1>0, <1>2, BegunType
  <2>2. pc' = [pc EXCEPT ![s] = l] /\ l \in Labels
    BY <1>2 DEF Goto, Labels
  <2>3. TransactionsOK'
    BY <1>0, <1>2, <2>1, <2>2 DEF TransactionsOK
  <2> QED BY <1>0, <1>2, <2>1, <2>2, <2>3, SameLedger
<1>3. ASSUME NEW s \in Sessions, Insert(s) \/ Select(s) PROVE Inv'
  BY <1>2, <1>3 DEF Insert, Select
<1>4. ASSUME NEW s \in Sessions, Commit(s) \/ CommitUnknown(s) PROVE Inv'
  <2>1. /\ pc[s] = "commit" /\ Len(ledger) < MaxRows /\ AddRow(s) /\ EndTransaction(s)
        /\ clock' = clock
    BY <1>4 DEF Commit, CommitUnknown, Close
  <2>2. PICK l \in {"summary", "next"} : pc' = [pc EXCEPT ![s] = l]
    BY <1>4 DEF Commit, CommitUnknown, Close, Goto
  <2>3. pc'[s] # "commit" /\ \A u \in Sessions \ {s} : pc'[u] = pc[u]
    BY <1>0, <2>2
  <2>4. /\ ledger' \in Seq(Row) /\ Len(ledger') <= MaxRows
        /\ \A i \in DOMAIN ledger' : ledger'[i].at \in 1..clock'
        /\ \A i, j \in DOMAIN ledger' : ledger'[i].at = ledger'[j].at => i = j
        /\ began' \in [Sessions -> 0..clock']
        /\ TransactionsOK' /\ OwnOrder'
    BY <2>1, <2>3, RowAdded
  <2>5. \/ entry' = entry
        \/ entry' = [entry EXCEPT ![s] = Question] /\ pc'[s] = "next"
    BY <1>0, <1>4 DEF Commit, CommitUnknown, Close, Clear, Goto
  <2>6. /\ entry' \in [Sessions -> Line]
        /\ \A u \in Sessions : entry'[u].kind \in Commands \cup {"QUESTION"}
    BY <1>0, <1>a, <2>5
  <2>7. \A u \in Sessions : pc'[u] \in {"commit", "summary"} => entry'[u].kind \in Recorded
    BY <1>0, <2>1, <2>2, <2>5
  <2>8. pc' \in [Sessions -> Labels]
    BY <1>0, <2>2 DEF Labels
  <2> QED BY <1>0, <2>1, <2>4, <2>6, <2>7, <2>8 DEF Inv, TypeOK
<1>5. ASSUME NEW s \in Sessions, MailReply(s) \/ Respond(s) \/ End(s) PROVE Inv'
  <2>1. /\ pc' = [pc EXCEPT ![s] = "next"] /\ entry' = [entry EXCEPT ![s] = Question]
        /\ EndTransaction(s) \/ UNCHANGED began
        /\ UNCHANGED <<ledger, clock>>
    BY <1>5 DEF MailReply, Respond, End, Close, Clear, Goto
  <2>2. \A u \in Sessions : pc'[u] = "commit" => pc[u] = "commit" /\ u # s
    BY <1>0, <2>1
  <2>3. began' \in [Sessions -> 0..clock] /\ TransactionsOK'
    BY <1>0, <2>1, <2>2, EndedType
  <2> QED BY <1>0, <1>a, <1>b, <2>1, <2>3, SameLedger DEF Labels
<1>6. CASE UNCHANGED vars
  <2>1. UNCHANGED <<ledger, clock, began, pc, entry>>
    BY <1>6 DEF vars
  <2> QED BY <1>0, <2>1 DEF Inv, TypeOK, TransactionsOK, OwnOrder
<1> QED BY <1>1, <1>3, <1>4, <1>5, <1>6 DEF Next

LEMMA PortfolioInvariant == Spec => []Inv
<1>1. Init => Inv
  <2> SUFFICES ASSUME Init PROVE Inv
    OBVIOUS
  <2>1. <<>> \in Seq(Row) /\ Len(<<>>) = 0 /\ DOMAIN <<>> = {}
    BY EmptySeq
  <2>2. Question \in Line /\ Question.kind = "QUESTION"
    BY DEF Question, Line
  <2>3. TypeOK
    BY <2>1, <2>2, PortfolioAssumption DEF Init, TypeOK, Labels
  <2> QED BY <2>1, <2>3 DEF Init, Inv, TransactionsOK, OwnOrder
<1> QED BY <1>1, NextKeeps, PTL DEF Spec

-----------------------------------------------------------------------------
(* Theorems on the ledger *)

\* Every variable of the sessions keeps its type, and no two rows of the
\* ledger have the same timestamp.
THEOREM PortfolioTypeCorrect == Spec => []TypeOK
<1>1. Inv => TypeOK
  BY DEF Inv
<1> QED BY <1>1, PortfolioInvariant, PTL

\* The timestamps keep the order in which one session recorded its trades,
\* although a session keeps a transaction open from one mail to the next.
THEOREM OwnTradesInOrder == Spec => []OwnOrder
<1>1. Inv => OwnOrder
  BY DEF Inv
<1> QED BY <1>1, PortfolioInvariant, PTL

-----------------------------------------------------------------------------
(* Arithmetic *)

\* Multiplying by a number that is not negative keeps an inequality.
LEMMA TimesMonotone ==
  ASSUME NEW a \in Int, NEW b \in Int, NEW c \in Nat, a <= b
  PROVE  c * a <= c * b /\ a * c <= b * c
<1>1. c * (b - a) >= 0
  <2>1. b - a \in Nat
    OBVIOUS
  <2> DEFINE d == b - a
  <2>2. d \in Nat
    BY <2>1
  <2> HIDE DEF d
  <2>3. c * d \in Nat
    BY <2>2
  <2> QED BY <2>3 DEF d
<1>2. c * (b - a) = c * b - c * a
  OBVIOUS
<1>3. c * a \in Int /\ c * b \in Int /\ a * c = c * a /\ b * c = c * b
  OBVIOUS
<1> QED BY <1>1, <1>2, <1>3

\* The mean of q units at num/den and b units at p lies above a price that is
\* below both, and below a price that is above both.
LEMMA MeanBetween ==
  ASSUME NEW q \in Nat, NEW b \in Nat, NEW num \in Nat, NEW den \in Nat \ {0}, NEW p \in Nat,
         NEW x \in Nat
  PROVE  /\ x * den <= num /\ x <= p => x * ((q + b) * den) <= q * num + b * p * den
         /\ num <= x * den /\ p <= x => q * num + b * p * den <= x * ((q + b) * den)
<1> DEFINE bd == b * den
<1>1. bd \in Nat /\ x * den \in Nat /\ q * num \in Nat /\ b * p * den \in Nat
  OBVIOUS
<1>2. x * ((q + b) * den) = q * (x * den) + x * bd
  OBVIOUS
<1>3. b * p * den = p * bd
  OBVIOUS
<1>4. ASSUME x * den <= num, x <= p PROVE x * ((q + b) * den) <= q * num + b * p * den
  <2>1. q * (x * den) <= q * num
    BY <1>1, <1>4, TimesMonotone
  <2>2. x * bd <= p * bd
    <3> HIDE DEF bd
    <3> QED BY <1>1, <1>4, TimesMonotone
  <2>3. q * (x * den) \in Nat /\ x * bd \in Nat /\ p * bd \in Nat
    OBVIOUS
  <2> HIDE DEF bd
  <2> QED BY <1>1, <1>2, <1>3, <2>1, <2>2, <2>3
<1>5. ASSUME num <= x * den, p <= x PROVE q * num + b * p * den <= x * ((q + b) * den)
  <2>1. q * num <= q * (x * den)
    BY <1>1, <1>5, TimesMonotone
  <2>2. p * bd <= x * bd
    <3> HIDE DEF bd
    <3> QED BY <1>1, <1>5, TimesMonotone
  <2>3. q * (x * den) \in Nat /\ x * bd \in Nat /\ p * bd \in Nat
    OBVIOUS
  <2> HIDE DEF bd
  <2> QED BY <1>1, <1>2, <1>3, <2>1, <2>2, <2>3
<1> QED BY <1>4, <1>5

-----------------------------------------------------------------------------
(* Positions *)

Trades == {r \in Row : r.kind \in {"BUY", "SELL"}}

Costs == [num : Int, den : Nat \ {0}]

PositionsOf == [quantity : Int, cost : Costs, trades : Nat]

\* What a trade does to a position, in its three cases.
LEMMA ApplyCases ==
  ASSUME NEW pos \in PositionsOf, NEW r \in Trades
  PROVE  /\ Apply(pos, r) \in PositionsOf
         /\ Apply(pos, r).quantity =
              pos.quantity + (IF r.kind = "BUY" THEN r.quantity ELSE 0 - r.quantity)
         /\ ~(IsPricedBuy(r) /\ pos.quantity + r.quantity > 0) =>
              Apply(pos, r).cost = pos.cost
         /\ IsPricedBuy(r) /\ pos.quantity + r.quantity > 0 =>
              /\ r.price \in Nat
              /\ pos.cost.num = 0 =>
                   Apply(pos, r).cost = [num |-> pos.quantity * r.price + r.quantity * r.price * 1,
                                         den |-> (pos.quantity + r.quantity) * 1]
              /\ pos.cost.num # 0 =>
                   Apply(pos, r).cost =
                     [num |-> pos.quantity * pos.cost.num + r.quantity * r.price * pos.cost.den,
                      den |-> (pos.quantity + r.quantity) * pos.cost.den]
<1> DEFINE q == pos.quantity
           b == r.quantity
           num == pos.cost.num
           den == pos.cost.den
           after == q + (IF r.kind = "BUY" THEN b ELSE 0 - b)
           cost == Apply(pos, r).cost
<1>1. /\ q \in Int /\ pos.cost \in Costs /\ num \in Int /\ den \in Nat \ {0} /\ pos.trades \in Nat
      /\ b \in Nat /\ r.price \in Nat \cup {NoPrice} /\ r.kind \in {"BUY", "SELL"}
  BY DEF PositionsOf, Costs, Trades, Row
<1>2. Apply(pos, r) =
        [quantity |-> after,
         cost |-> IF r.kind = "BUY" /\ r.price # NoPrice /\ after > 0 THEN Mean(pos, r) ELSE pos.cost,
         trades |-> pos.trades + 1]
  BY DEF Apply
<1>3. IsPricedBuy(r) <=> r.kind = "BUY" /\ r.price # NoPrice
  BY DEF IsPricedBuy
<1>4. r.kind = "BUY" => after = q + b
  OBVIOUS
<1>5. after \in Int
  BY <1>1
<1>6. ~(IsPricedBuy(r) /\ q + b > 0) => cost = pos.cost
  <2> SUFFICES ASSUME ~(IsPricedBuy(r) /\ q + b > 0) PROVE cost = pos.cost
    OBVIOUS
  <2>1. ~(r.kind = "BUY" /\ r.price # NoPrice /\ after > 0)
    BY <1>3, <1>4
  <2> QED BY <1>2, <2>1
<1>7. IsPricedBuy(r) /\ q + b > 0 => cost = Mean(pos, r)
  <2> SUFFICES ASSUME IsPricedBuy(r), q + b > 0 PROVE cost = Mean(pos, r)
    OBVIOUS
  <2>1. r.kind = "BUY" /\ r.price # NoPrice /\ after > 0
    BY <1>3, <1>4
  <2> QED BY <1>2, <2>1
<1>8. /\ num = 0 => Mean(pos, r) = [num |-> q * r.price + b * r.price * 1, den |-> (q + b) * 1]
      /\ num # 0 => Mean(pos, r) = [num |-> q * num + b * r.price * den, den |-> (q + b) * den]
  BY DEF Mean
<1>9. IsPricedBuy(r) => r.price \in Nat
  BY <1>1, <1>3
<1>10. ASSUME IsPricedBuy(r), q + b > 0 PROVE Mean(pos, r) \in Costs
  <2>1. r.price \in Nat
    BY <1>9, <1>10
  <2>2. CASE num = 0
    <3>1. q * r.price + b * r.price * 1 \in Int /\ (q + b) * 1 \in Nat \ {0}
      BY <1>1, <1>10, <2>1
    <3> QED BY <1>8, <2>2, <3>1 DEF Costs
  <2>3. CASE num # 0
    <3>1. q * num + b * r.price * den \in Int
      BY <1>1, <2>1
    <3>2. (q + b) * den \in Nat \ {0}
      <4> DEFINE t == q + b
      <4>1. t \in Nat \ {0} /\ den \in Nat \ {0}
        BY <1>1, <1>10
      <4> HIDE DEF t, den
      <4>2. t * den \in Nat \ {0}
        BY <4>1
      <4> QED BY <4>2 DEF t, den
    <3> QED BY <1>8, <2>3, <3>1, <3>2 DEF Costs
  <2> QED BY <2>2, <2>3
<1>11. cost \in Costs
  BY <1>1, <1>6, <1>7, <1>10
<1>12. Apply(pos, r) \in PositionsOf
  <2>1. Apply(pos, r) = [quantity |-> after, cost |-> cost, trades |-> pos.trades + 1]
    BY <1>2
  <2>2. pos.trades + 1 \in Nat
    BY <1>1
  <2> HIDE DEF after, cost
  <2> QED BY <1>5, <1>11, <2>1, <2>2 DEF PositionsOf
<1>13. Apply(pos, r).quantity = after
  BY <1>2
<1> HIDE DEF cost
<1> QED BY <1>6, <1>7, <1>8, <1>9, <1>12, <1>13 DEF cost

\* PositionAfter folds Apply over the trades.
LEMMA PositionRecursion ==
  ASSUME NEW trades \in Seq(Trades)
  PROVE  /\ PositionAfter(trades) \in [0..Len(trades) -> PositionsOf]
         /\ PositionAfter(trades)[0] = Flat
         /\ \A n \in 1..Len(trades) :
              PositionAfter(trades)[n] = Apply(PositionAfter(trades)[n - 1], trades[n])
<1> DEFINE F == PositionAfter(trades)
           N == Len(trades)
           A == PositionsOf
           Body(f, n) == Apply(f[n - 1], trades[n])
           P(f) == f = [n \in 0..N |-> IF n = 0 THEN Flat ELSE Body(f, n)]
           step == [n \in 1..N |-> [q \in A |-> Apply(q, trades[n])]]
<1>1. N \in Nat /\ Flat \in A /\ \A n \in 1..N : trades[n] \in Trades
  BY LenProperties DEF Flat, PositionsOf, Costs
<1>2. step \in [1..N -> [A -> A]]
  BY <1>1, ApplyCases
<1>3. \A n \in 1..N : n - 1 \in 0..N /\ n \in 0..N /\ n # 0
  BY <1>1
<1>4. \E f : P(f)
  <2>1. PICK f \in [0..N -> A] : f[0] = Flat /\ \A i \in 1..N : f[i] = step[i][f[i - 1]]
    <3> DEFINE b == Flat
    <3>1. b \in A /\ N \in Nat
      BY <1>1
    <3> HIDE DEF step, A, N, b, P, Body
    <3>2. \E f \in [0..N -> A] : f[0] = b /\ \A i \in 1..N : f[i] = step[i][f[i - 1]]
      BY <1>2, <3>1, RecursionExists, SMTT(40)
    <3> QED BY <3>2 DEF b
  <2>2. \A n \in 1..N : f[n] = Body(f, n)
    BY <1>3, <2>1
  <2>3. P(f)
    <3> HIDE DEF step, N, A, Body
    <3>1. \A n \in 0..N : n = 0 \/ n \in 1..N
      BY <1>1
    <3>2. \A n \in 0..N : f[n] = IF n = 0 THEN Flat ELSE Body(f, n)
      BY <1>3, <2>1, <2>2, <3>1
    <3> QED BY <2>1, <3>2
  <2> QED BY <2>3
<1>5. F = CHOOSE f : P(f)
  BY Zenon DEF PositionAfter
<1>6. P(F)
  <2> HIDE DEF P
  <2> QED BY <1>4, <1>5
<1>7. /\ F = [n \in 0..N |-> F[n]]
      /\ F[0] = Flat
      /\ \A n \in 1..N : F[n] = Body(F, n)
  <2> HIDE DEF F, N, Body
  <2>1. 0 \in 0..N
    BY <1>1
  <2> QED BY <1>6, <1>3, <2>1
<1>8. \A n \in 1..N : F[n - 1] \in A => F[n] = step[n][F[n - 1]]
  <2> HIDE DEF F
  <2> QED BY <1>7
<1>9. F \in [0..N -> A]
  <2> DEFINE b == Flat
  <2>1. b \in A /\ N \in Nat /\ F[0] = b
    BY <1>1, <1>7
  <2> HIDE DEF step, A, N, F, b, P, Body
  <2>2. \A i \in 0..N : F[i] \in A
    BY <1>2, <1>8, <2>1, RecursionType
  <2> QED BY <1>7, <2>2
<1> QED BY <1>7, <1>9

-----------------------------------------------------------------------------
(* The average lies between the prices paid *)

\* A bound on an average is one for more prices.
LEMMA WithinMore ==
  ASSUME NEW cost, NEW PS, NEW QS, PS \subseteq QS, Within(cost, PS)
  PROVE  Within(cost, QS)
BY DEF Within

\* A trade keeps the average of a position that is not short within the
\* prices paid; and the first buy with a price brings it there, that of a
\* position without an average or that is flat.
LEMMA ApplyWithin ==
  ASSUME NEW pos \in PositionsOf, pos.quantity \in Nat, pos.cost.num \in Nat, NEW r \in Trades,
         NEW PS \in SUBSET Nat, NEW QS \in SUBSET Nat, PS \subseteq QS,
         IsPricedBuy(r) => r.price \in QS
  PROVE  /\ Apply(pos, r).cost.num \in Nat
         /\ Within(pos.cost, PS) => Within(Apply(pos, r).cost, QS)
         /\ /\ IsPricedBuy(r) /\ pos.quantity + r.quantity > 0
            /\ pos.cost.num = 0 \/ pos.quantity = 0
            => Within(Apply(pos, r).cost, QS)
<1> DEFINE q == pos.quantity
           b == r.quantity
           p == r.price
           num == pos.cost.num
           den == pos.cost.den
           cost == Apply(pos, r).cost
<1>1. q \in Nat /\ b \in Nat /\ num \in Nat /\ den \in Nat \ {0}
  BY DEF PositionsOf, Costs, Trades, Row
<1>2. /\ ~(IsPricedBuy(r) /\ q + b > 0) => cost = pos.cost
      /\ IsPricedBuy(r) /\ q + b > 0 =>
           /\ p \in Nat
           /\ num = 0 => cost = [num |-> q * p + b * p * 1, den |-> (q + b) * 1]
           /\ num # 0 => cost = [num |-> q * num + b * p * den, den |-> (q + b) * den]
  BY ApplyCases
<1>3. ASSUME ~(IsPricedBuy(r) /\ q + b > 0)
      PROVE  cost.num \in Nat /\ (Within(pos.cost, PS) => Within(cost, QS))
  BY <1>1, <1>2, <1>3, WithinMore
<1>4. ASSUME IsPricedBuy(r), q + b > 0, num = 0
      PROVE  cost.num \in Nat /\ Within(cost, QS)
  <2>1. p \in Nat /\ p \in QS /\ cost.num = q * p + b * p * 1 /\ cost.den = (q + b) * 1
    BY <1>2, <1>4
  <2>2. q * p + b * p * 1 = p * ((q + b) * 1) /\ q * p + b * p * 1 \in Nat
    BY <1>1, <2>1
  <2>3. p * cost.den = cost.num /\ cost.num \in Nat
    BY <2>1, <2>2
  <2> HIDE DEF cost
  <2>4. p * cost.den <= cost.num /\ cost.num <= p * cost.den
    BY <2>3
  <2> QED BY <2>1, <2>3, <2>4 DEF Within
<1>5. ASSUME IsPricedBuy(r), q + b > 0, num # 0
      PROVE  /\ cost.num \in Nat
             /\ Within(pos.cost, PS) => Within(cost, QS)
             /\ q = 0 => Within(cost, QS)
  <2>1. p \in Nat /\ p \in QS /\ cost.num = q * num + b * p * den /\ cost.den = (q + b) * den
    BY <1>2, <1>5
  <2>2. cost.num \in Nat
    <3> HIDE DEF cost, q, b, p, num, den
    <3>1. q * num \in Nat /\ b * p \in Nat
      BY <1>1, <2>1
    <3>2. b * p * den \in Nat
      BY <1>1, <3>1
    <3> QED BY <2>1, <3>1, <3>2
  <2>3. ASSUME Within(pos.cost, PS) PROVE Within(cost, QS)
    <3>1. PICK lo \in PS : lo * den <= num
      BY <2>3 DEF Within
    <3>2. PICK hi \in PS : num <= hi * den
      BY <2>3 DEF Within
    <3>3. lo \in Nat /\ hi \in Nat /\ lo \in QS /\ hi \in QS
      OBVIOUS
    <3> DEFINE x == IF lo <= p THEN lo ELSE p
               y == IF hi <= p THEN p ELSE hi
    <3>4. x \in QS /\ x \in Nat /\ x <= p /\ x <= lo /\ y \in QS /\ y \in Nat /\ p <= y /\ hi <= y
      BY <2>1, <3>3
    <3> HIDE DEF x, y, cost, q, b, p, num, den
    <3>5. x * den <= lo * den /\ hi * den <= y * den
      BY <1>1, <3>3, <3>4, TimesMonotone
    <3>6. x * den \in Nat /\ lo * den \in Nat /\ hi * den \in Nat /\ y * den \in Nat
      BY <1>1, <3>3, <3>4
    <3>7. x * den <= num /\ num <= y * den
      BY <1>1, <3>1, <3>2, <3>5, <3>6
    <3>8. x * ((q + b) * den) <= q * num + b * p * den
      BY <1>1, <2>1, <3>4, <3>7, MeanBetween
    <3>9. q * num + b * p * den <= y * ((q + b) * den)
      BY <1>1, <2>1, <3>4, <3>7, MeanBetween
    <3> QED BY <2>1, <3>4, <3>8, <3>9 DEF Within
  <2>4. ASSUME q = 0 PROVE Within(cost, QS)
    <3>1. q * num + b * p * den = p * ((q + b) * den)
      BY <1>1, <2>1, <2>4
    <3>2. p * cost.den = cost.num
      BY <2>1, <3>1
    <3> HIDE DEF cost
    <3>3. p * cost.den <= cost.num /\ cost.num <= p * cost.den
      BY <2>2, <3>2
    <3> QED BY <2>1, <3>3 DEF Within
  <2> QED BY <2>2, <2>3, <2>4
<1> HIDE DEF cost, q, b, num
<1> QED BY <1>3, <1>4, <1>5 DEF cost, q, b, num

\* The prices of the priced buys among the trades after the k-th up to the n-th.
Paid(trades, k, n) ==
  {trades[i].price : i \in {j \in DOMAIN trades : k < j /\ j <= n /\ IsPricedBuy(trades[j])}}

LEMMA PaidType ==
  ASSUME NEW trades \in Seq(Trades), NEW k \in Nat, NEW n \in Nat, n + 1 \in DOMAIN trades, k <= n
  PROVE  /\ Paid(trades, k, n) \in SUBSET Nat /\ Paid(trades, k, n + 1) \in SUBSET Nat
         /\ Paid(trades, k, n) \subseteq Paid(trades, k, n + 1)
         /\ IsPricedBuy(trades[n + 1]) => trades[n + 1].price \in Paid(trades, k, n + 1)
<1>1. DOMAIN trades = 1..Len(trades) /\ \A i \in DOMAIN trades : trades[i] \in Trades
  BY LenProperties
<1>2. \A i \in DOMAIN trades : IsPricedBuy(trades[i]) => trades[i].price \in Nat
  BY <1>1 DEF IsPricedBuy, Trades, Row
<1>3. \A i \in DOMAIN trades : i \in Int /\ (k < i /\ i <= n => k < i /\ i <= n + 1)
  BY <1>1
<1>4. k < n + 1 /\ n + 1 <= n + 1
  OBVIOUS
<1> HIDE DEF IsPricedBuy
<1> QED BY <1>2, <1>3, <1>4 DEF Paid

\* The average of a position that was never short is nothing or lies between
\* the prices paid.
LEMMA AverageFromStart ==
  ASSUME NEW trades \in Seq(Trades), NeverShort(trades)
  PROVE  \A n \in 0..Len(trades) :
           LET pos == PositionAfter(trades)[n]
           IN  /\ pos.quantity \in Nat /\ pos.cost.num \in Nat
               /\ pos.cost.num # 0 => Within(pos.cost, Paid(trades, 0, n))
<1> DEFINE F == PositionAfter(trades)
           N == Len(trades)
           Good(n) == /\ F[n].cost.num \in Nat
                      /\ F[n].cost.num # 0 => Within(F[n].cost, Paid(trades, 0, n))
           T == {n \in 0..N : Good(n)}
<1>1. /\ F \in [0..N -> PositionsOf] /\ F[0] = Flat
      /\ \A n \in 1..N : F[n] = Apply(F[n - 1], trades[n])
  BY PositionRecursion
<1>2. N \in Nat /\ DOMAIN trades = 1..N /\ \A n \in 1..N : trades[n] \in Trades
  BY LenProperties
<1>3. \A n \in 0..N : F[n].quantity \in Nat
  <2>1. F[0].quantity = 0
    BY <1>1 DEF Flat
  <2>2. \A n \in 1..N : F[n].quantity >= 0
    BY <1>2 DEF NeverShort, Held
  <2>3. \A n \in 0..N : F[n].quantity \in Int /\ (n = 0 \/ n \in 1..N)
    BY <1>1, <1>2 DEF PositionsOf
  <2> HIDE DEF F
  <2> QED BY <2>1, <2>2, <2>3
<1> HIDE DEF F
<1>4. 0 \in T
  BY <1>1, <1>2 DEF Flat
<1>5. ASSUME NEW n \in 0..N, n \in T, n < N PROVE n + 1 \in T
  <2>1. n + 1 \in 1..N /\ n + 1 \in 0..N /\ (n + 1) - 1 = n /\ n + 1 \in DOMAIN trades /\ n \in Nat
    BY <1>2, <1>5
  <2> DEFINE pos == F[n]
             r == trades[n + 1]
  <2>2. pos \in PositionsOf /\ pos.quantity \in Nat /\ r \in Trades /\ Good(n)
    BY <1>1, <1>2, <1>3, <1>5, <2>1
  <2>3. F[n + 1] = Apply(pos, r)
    BY <1>1, <2>1
  <2>4. /\ Paid(trades, 0, n) \in SUBSET Nat /\ Paid(trades, 0, n + 1) \in SUBSET Nat
        /\ Paid(trades, 0, n) \subseteq Paid(trades, 0, n + 1)
        /\ IsPricedBuy(r) => r.price \in Paid(trades, 0, n + 1)
    BY <2>1, PaidType
  <2>5. /\ Apply(pos, r).cost.num \in Nat
        /\ Within(pos.cost, Paid(trades, 0, n)) =>
             Within(Apply(pos, r).cost, Paid(trades, 0, n + 1))
        /\ /\ IsPricedBuy(r) /\ pos.quantity + r.quantity > 0
           /\ pos.cost.num = 0 \/ pos.quantity = 0
           => Within(Apply(pos, r).cost, Paid(trades, 0, n + 1))
    <3> DEFINE PS == Paid(trades, 0, n)
               QS == Paid(trades, 0, n + 1)
    <3>1. /\ pos \in PositionsOf /\ pos.quantity \in Nat /\ pos.cost.num \in Nat /\ r \in Trades
          /\ PS \in SUBSET Nat /\ QS \in SUBSET Nat /\ PS \subseteq QS
          /\ IsPricedBuy(r) => r.price \in QS
      BY <2>2, <2>4
    <3> HIDE DEF pos, r, PS, QS
    <3>2. /\ Apply(pos, r).cost.num \in Nat
          /\ Within(pos.cost, PS) => Within(Apply(pos, r).cost, QS)
          /\ /\ IsPricedBuy(r) /\ pos.quantity + r.quantity > 0
             /\ pos.cost.num = 0 \/ pos.quantity = 0
             => Within(Apply(pos, r).cost, QS)
      BY <3>1, ApplyWithin, ZenonT(60)
    <3> QED BY <3>2, Zenon DEF PS, QS
  <2>6. ~(IsPricedBuy(r) /\ pos.quantity + r.quantity > 0) => Apply(pos, r).cost = pos.cost
    BY <2>2, ApplyCases
  <2> HIDE DEF r
  <2>7. Good(n + 1)
    BY <2>2, <2>3, <2>5, <2>6
  <2> QED BY <2>1, <2>7
<1>6. \A n \in 0..N : n \in T
  <2> HIDE DEF T
  <2> QED BY <1>2, <1>4, <1>5, InductionUpTo
<1> QED BY <1>3, <1>6 DEF F

\* When all buys since the position was last flat have a price, its average
\* lies between those prices.
LEMMA AverageSinceFlat ==
  ASSUME NEW trades \in Seq(Trades), NeverShort(trades),
         NEW k \in 0..Len(trades), Held(trades, k) = 0,
         \A n \in (k + 1)..Len(trades) : Held(trades, n) # 0,
         \A n \in (k + 1)..Len(trades) : trades[n].kind = "BUY" => IsPricedBuy(trades[n])
  PROVE  k < Len(trades) =>
           Within(PositionAfter(trades)[Len(trades)].cost, Paid(trades, k, Len(trades)))
<1> DEFINE F == PositionAfter(trades)
           N == Len(trades)
           Good(n) == k < n => Within(F[n].cost, Paid(trades, k, n))
           T == {n \in 0..N : Good(n)}
<1>1. /\ F \in [0..N -> PositionsOf]
      /\ \A n \in 1..N : F[n] = Apply(F[n - 1], trades[n])
  BY PositionRecursion
<1>2. N \in Nat /\ DOMAIN trades = 1..N /\ \A n \in 1..N : trades[n] \in Trades
  BY LenProperties
<1>3. \A n \in 0..N : F[n].quantity \in Nat /\ F[n].cost.num \in Nat
  BY AverageFromStart
<1>4. F[k].quantity = 0 /\ \A n \in (k + 1)..N : F[n].quantity # 0
  BY DEF Held
<1> HIDE DEF F
<1>5. 0 \in T
  BY <1>2
<1>6. ASSUME NEW n \in 0..N, n \in T, n < N PROVE n + 1 \in T
  <2>1. n + 1 \in 1..N /\ n + 1 \in 0..N /\ (n + 1) - 1 = n /\ n + 1 \in DOMAIN trades /\ n \in Nat
    BY <1>2, <1>6
  <2> SUFFICES ASSUME k < n + 1 PROVE Within(F[n + 1].cost, Paid(trades, k, n + 1))
    BY <2>1
  <2> DEFINE pos == F[n]
             r == trades[n + 1]
  <2>2. pos \in PositionsOf /\ pos.quantity \in Nat /\ pos.cost.num \in Nat /\ r \in Trades /\ Good(n)
    BY <1>1, <1>2, <1>3, <1>6, <2>1
  <2>3. F[n + 1] = Apply(pos, r)
    BY <1>1, <2>1
  <2>4. k <= n /\ k \in Nat /\ n + 1 \in (k + 1)..N
    BY <1>2, <2>1
  <2>5. /\ Paid(trades, k, n) \in SUBSET Nat /\ Paid(trades, k, n + 1) \in SUBSET Nat
        /\ Paid(trades, k, n) \subseteq Paid(trades, k, n + 1)
        /\ IsPricedBuy(r) => r.price \in Paid(trades, k, n + 1)
    BY <2>1, <2>4, PaidType
  <2>6. /\ Within(pos.cost, Paid(trades, k, n)) =>
             Within(Apply(pos, r).cost, Paid(trades, k, n + 1))
        /\ /\ IsPricedBuy(r) /\ pos.quantity + r.quantity > 0
           /\ pos.cost.num = 0 \/ pos.quantity = 0
           => Within(Apply(pos, r).cost, Paid(trades, k, n + 1))
    <3> DEFINE PS == Paid(trades, k, n)
               QS == Paid(trades, k, n + 1)
    <3>1. /\ pos \in PositionsOf /\ pos.quantity \in Nat /\ pos.cost.num \in Nat /\ r \in Trades
          /\ PS \in SUBSET Nat /\ QS \in SUBSET Nat /\ PS \subseteq QS
          /\ IsPricedBuy(r) => r.price \in QS
      BY <2>2, <2>5
    <3> HIDE DEF pos, r, PS, QS
    <3>2. /\ Apply(pos, r).cost.num \in Nat
          /\ Within(pos.cost, PS) => Within(Apply(pos, r).cost, QS)
          /\ /\ IsPricedBuy(r) /\ pos.quantity + r.quantity > 0
             /\ pos.cost.num = 0 \/ pos.quantity = 0
             => Within(Apply(pos, r).cost, QS)
      BY <3>1, ApplyWithin, ZenonT(60)
    <3> QED BY <3>2, Zenon DEF PS, QS
  <2>7. CASE k < n
    BY <2>2, <2>3, <2>6, <2>7
  <2>8. CASE k = n
    <3>1. pos.quantity = 0 /\ F[n + 1].quantity \in Nat \ {0}
      BY <1>3, <1>4, <2>1, <2>4, <2>8
    <3>2. Apply(pos, r).quantity =
            pos.quantity + (IF r.kind = "BUY" THEN r.quantity ELSE 0 - r.quantity)
      <4> HIDE DEF pos, r
      <4> QED BY <2>2, ApplyCases
    <3>3. r.quantity \in Nat
      BY <2>2 DEF Trades, Row
    <3>4. r.kind = "BUY" /\ r.quantity > 0
      BY <2>3, <3>1, <3>2, <3>3
    <3>5. IsPricedBuy(r)
      BY <2>4, <3>4
    <3> QED BY <2>3, <2>6, <3>1, <3>3, <3>4, <3>5
  <2> QED BY <2>4, <2>7, <2>8
<1>7. \A n \in 0..N : n \in T
  <2> HIDE DEF T
  <2> QED BY <1>2, <1>5, <1>6, InductionUpTo
<1> QED BY <1>2, <1>7 DEF F

\* The two together, for a position that is not flat.
LEMMA AverageOfTrades ==
  ASSUME NEW trades \in Seq(Trades), NeverShort(trades), Position(trades).quantity # 0
  PROVE  LET run == SinceFlat(trades)
             cost == Position(trades).cost
         IN  /\ cost.num # 0 => Within(cost, PricesPaid(trades))
             /\ (\A n \in DOMAIN run : run[n].kind = "BUY" => IsPricedBuy(run[n])) =>
                  Within(cost, PricesPaid(run))
<1> DEFINE N == Len(trades)
           flat == {0} \cup {n \in DOMAIN trades : Held(trades, n) = 0}
           k == CHOOSE n \in flat : \A l \in flat : l <= n
           run == SinceFlat(trades)
           cost == Position(trades).cost
<1>1. N \in Nat /\ DOMAIN trades = 1..N /\ \A n \in 1..N : trades[n] \in Trades
  BY LenProperties
<1>2. \A n \in 0..N : n = 0 \/ n \in 1..N
  BY <1>1
<1>3. k \in flat /\ \A l \in flat : l <= k
  <2>1. flat \in SUBSET (0..N) /\ flat # {}
    BY <1>1
  <2> HIDE DEF flat
  <2>2. flat \in SUBSET Int /\ N \in Int /\ \A l \in flat : l <= N
    BY <1>1, <2>1
  <2>3. \E n \in flat : \A l \in flat : n >= l
    BY <2>1, <2>2, GreatestOf
  <2>4. \E n \in flat : \A l \in flat : l <= n
    BY <2>2, <2>3
  <2> QED BY <2>4
<1>4. PositionAfter(trades)[0] = Flat
  BY PositionRecursion
<1>5. k \in 0..N /\ Held(trades, k) = 0
  <2>1. Held(trades, 0) = 0
    BY <1>4 DEF Held, Flat
  <2> HIDE DEF k
  <2> QED BY <1>1, <1>3, <2>1
<1>6. \A n \in (k + 1)..N : Held(trades, n) # 0 /\ n \in DOMAIN trades
  <2> HIDE DEF k
  <2>1. \A n \in (k + 1)..N : n \in DOMAIN trades /\ ~(n <= k)
    BY <1>1, <1>5
  <2> QED BY <1>3, <2>1
<1>7. run = SubSeq(trades, k + 1, N)
  BY DEF SinceFlat
<1> HIDE DEF k, run
<1>8. k < N
  <2>1. Held(trades, N) # 0
    BY DEF Position, Held
  <2> QED BY <1>1, <1>5, <2>1
<1>9. DOMAIN run = 1..(N - k) /\ \A m \in 1..(N - k) : run[m] = trades[k + m]
  <2>1. \A i \in (k + 1)..N : trades[i] \in Trades
    BY <1>1, <1>5
  <2>2. k + 1 \in Int /\ N \in Int /\ k + 1 <= N /\ N - (k + 1) + 1 = N - k
    BY <1>1, <1>5, <1>8
  <2>3. run \in Seq(Trades) /\ Len(run) = N - (k + 1) + 1
        /\ \A m \in 1..(N - (k + 1) + 1) : run[m] = trades[(k + 1) + m - 1]
    BY <1>7, <2>1, <2>2, SubSeqProperties
  <2>4. \A m \in 1..(N - k) : (k + 1) + m - 1 = k + m
    BY <1>1, <1>5
  <2> QED BY <2>2, <2>3, <2>4, LenProperties
<1>10. \A n \in (k + 1)..N : n - k \in DOMAIN run /\ run[n - k] = trades[n]
  <2>1. \A n \in (k + 1)..N : n - k \in 1..(N - k) /\ k + (n - k) = n
    BY <1>1, <1>5
  <2> QED BY <1>9, <2>1
<1>11. \A m \in DOMAIN run : k + m \in (k + 1)..N /\ run[m] = trades[k + m]
  <2>1. \A m \in 1..(N - k) : k + m \in (k + 1)..N
    BY <1>1, <1>5
  <2> QED BY <1>9, <2>1
<1>12. PricesPaid(trades) = Paid(trades, 0, N)
  <2>1. \A j \in DOMAIN trades : 0 < j /\ j <= N
    BY <1>1
  <2> QED BY <2>1 DEF PricesPaid, Paid, ToSet
<1>13. PricesPaid(run) = Paid(trades, k, N)
  <2>1. \A j \in DOMAIN trades : k < j /\ j <= N <=> j \in (k + 1)..N
    BY <1>1, <1>5
  <2>2. \A j \in (k + 1)..N : j \in DOMAIN trades
    BY <1>6
  <2> QED BY <1>10, <1>11, <2>1, <2>2 DEF PricesPaid, Paid, ToSet
<1>14. cost.num # 0 => Within(cost, PricesPaid(trades))
  <2>1. N \in 0..N
    BY <1>1
  <2> QED BY <1>12, <2>1, AverageFromStart DEF Position
<1>15. (\A n \in DOMAIN run : run[n].kind = "BUY" => IsPricedBuy(run[n])) =>
         Within(cost, PricesPaid(run))
  <2> SUFFICES ASSUME \A n \in DOMAIN run : run[n].kind = "BUY" => IsPricedBuy(run[n])
               PROVE  Within(cost, PricesPaid(run))
    OBVIOUS
  <2>1. \A n \in (k + 1)..N : trades[n].kind = "BUY" => IsPricedBuy(trades[n])
    BY <1>10
  <2>2. \A n \in (k + 1)..N : Held(trades, n) # 0
    BY <1>6
  <2>3. Within(PositionAfter(trades)[N].cost, Paid(trades, k, N))
    BY <1>5, <1>8, <2>1, <2>2, AverageSinceFlat
  <2> QED BY <1>13, <2>3 DEF Position
<1> HIDE DEF cost
<1> QED BY <1>14, <1>15 DEF cost, run

-----------------------------------------------------------------------------
(* The order of the timestamps *)

\* Sorting rows of distinct timestamps rearranges them.
LEMMA ByTimestampRearranges ==
  ASSUME NEW rows \in Seq(Row), \A i, j \in DOMAIN rows : rows[i].at = rows[j].at => i = j
  PROVE  /\ ByTimestamp(rows) \in Seq(Row)
         /\ ToSet(ByTimestamp(rows)) = ToSet(rows)
         /\ IsInjective(ByTimestamp(rows)) /\ IsInjective(rows)
<1> DEFINE N == Len(rows)
           D == DOMAIN rows
           Upto(i) == {j \in D : rows[j].at <= rows[i].at}
           rank == [i \in D |-> Rank(rows, i)]
           index == [n \in 1..N |-> CHOOSE i \in D : Rank(rows, i) = n]
           sorted == ByTimestamp(rows)
<1>1. N \in Nat /\ D = 1..N /\ \A i \in D : rows[i] \in Row /\ rows[i].at \in Nat
  <2>1. \A i \in 1..Len(rows) : rows[i] \in Row
    BY LenProperties
  <2> QED BY <2>1, LenProperties DEF Row
<1>2. IsFiniteSet(D) /\ Cardinality(D) = N /\ IsFiniteSet(1..N) /\ Cardinality(1..N) = N
  BY <1>1, FS_Interval
<1> HIDE DEF D, N
<1>3. \A i \in D : /\ IsFiniteSet(Upto(i)) /\ Cardinality(Upto(i)) \in 1..N
                   /\ Rank(rows, i) = Cardinality(Upto(i))
  <2> TAKE i \in D
  <2> DEFINE U == Upto(i)
  <2>1. U \in SUBSET D /\ i \in U
    BY <1>1
  <2>2. Rank(rows, i) = Cardinality(U)
    BY DEF Rank, D
  <2> HIDE DEF U
  <2>3. IsFiniteSet(U) /\ Cardinality(U) <= N /\ Cardinality(U) \in Nat
    BY <1>2, <2>1, FS_Subset, FS_CardinalityType
  <2>4. Cardinality(U) # 0
    BY <2>1, <2>3, FS_EmptySet
  <2> QED BY <1>1, <2>2, <2>3, <2>4 DEF U
<1>4. \A i, l \in D : Rank(rows, i) = Rank(rows, l) => i = l
  <2>1. ASSUME NEW i \in D, NEW l \in D, rows[i].at < rows[l].at
        PROVE  Rank(rows, i) # Rank(rows, l)
    <3> DEFINE U == Upto(i)
               V == Upto(l)
    <3>1. U \in SUBSET V
      BY <1>1, <2>1
    <3>2. l \in V /\ l \notin U
      BY <1>1, <2>1
    <3>3. IsFiniteSet(V) /\ Rank(rows, i) = Cardinality(U) /\ Rank(rows, l) = Cardinality(V)
      BY <1>3
    <3> HIDE DEF U, V
    <3> QED BY <3>1, <3>2, <3>3, FS_Subset
  <2>2. \A i, l \in D : i # l => rows[i].at < rows[l].at \/ rows[l].at < rows[i].at
    BY <1>1 DEF D
  <2> QED BY <2>1, <2>2
<1>5. rank \in Injection(D, 1..N)
  <2>1. \A i \in D : Rank(rows, i) \in 1..N
    BY <1>3
  <2>2. rank \in [D -> 1..N] /\ \A i, l \in D : rank[i] = rank[l] => i = l
    BY <1>4, <2>1
  <2> HIDE DEF rank
  <2>3. IsInjective(rank)
    BY <2>2 DEF IsInjective
  <2> QED BY <2>2, <2>3 DEF Injection
<1>6. rank \in Surjection(D, 1..N)
  <2> HIDE DEF rank
  <2> QED BY <1>2, <1>5, FS_Injection
<1>7. \A n \in 1..N : \E i \in D : Rank(rows, i) = n
  BY <1>6 DEF Surjection
<1>8. \A n \in 1..N : index[n] \in D /\ Rank(rows, index[n]) = n
  BY <1>7
<1>9. \A i \in D : Rank(rows, i) \in 1..N /\ index[Rank(rows, i)] = i
  <2>1. \A i \in D : Rank(rows, i) \in 1..N
    BY <1>3
  <2> HIDE DEF index
  <2> QED BY <1>4, <1>8, <2>1
<1>10. sorted = [n \in 1..N |-> rows[index[n]]]
  BY DEF ByTimestamp, N, D
<1> HIDE DEF index, sorted
<1>11. sorted \in [1..N -> Row] /\ DOMAIN sorted = 1..N
  BY <1>1, <1>8, <1>10
<1>12. sorted \in Seq(Row)
  BY <1>1, <1>11, SeqDef
<1>13. ToSet(sorted) = ToSet(rows)
  <2>1. \A n \in DOMAIN sorted : index[n] \in D /\ sorted[n] = rows[index[n]]
    BY <1>8, <1>10, <1>11
  <2>2. \A i \in D : Rank(rows, i) \in DOMAIN sorted /\ sorted[Rank(rows, i)] = rows[i]
    BY <1>9, <1>10, <1>11
  <2> QED BY <2>1, <2>2 DEF ToSet, D
<1>14. IsInjective(rows)
  BY DEF IsInjective
<1>15. IsInjective(sorted)
  <2> SUFFICES ASSUME NEW m \in 1..N, NEW n \in 1..N, sorted[m] = sorted[n] PROVE m = n
    BY <1>11 DEF IsInjective
  <2>1. rows[index[m]] = rows[index[n]]
    BY <1>10
  <2>2. index[m] = index[n]
    BY <1>8, <2>1 DEF D
  <2> QED BY <1>8, <2>2
<1> QED BY <1>12, <1>13, <1>14, <1>15 DEF sorted

\* The trades of an instrument are buys and sales.
LEMMA TradesInType ==
  ASSUME NEW rows \in Seq(Row), NEW i
  PROVE  /\ TradesIn(i, rows) \in Seq(Trades)
         /\ ToSet(TradesIn(i, rows)) =
              {r \in ToSet(rows) : r.kind \in {"BUY", "SELL"} /\ r.instrument = i}
         /\ IsInjective(rows) => IsInjective(TradesIn(i, rows))
<1> DEFINE S == {r \in ToSet(rows) : r.kind \in {"BUY", "SELL"} /\ r.instrument = i}
           trades == TradesIn(i, rows)
<1>1. trades = Selected(rows, S)
  BY DEF TradesIn
<1> HIDE DEF trades
<1>2. /\ trades \in Seq(Row) /\ ToSet(trades) = ToSet(rows) \cap S
      /\ IsInjective(rows) => IsInjective(trades)
  <2> HIDE DEF S
  <2> QED BY <1>1, SelectedElements
<1>3. ToSet(trades) = S
  BY <1>2
<1>4. /\ trades \in [1..Len(trades) -> Row] /\ Len(trades) \in Nat
      /\ DOMAIN trades = 1..Len(trades)
  BY <1>2, LenProperties
<1>5. \A n \in 1..Len(trades) : trades[n] \in Trades
  <2>1. \A n \in 1..Len(trades) : trades[n] \in Row /\ trades[n] \in ToSet(trades)
    BY <1>4 DEF ToSet
  <2> QED BY <1>3, <2>1 DEF Trades
<1>6. trades \in Seq(Trades)
  BY <1>4, <1>5, SeqDef
<1> QED BY <1>2, <1>3, <1>6 DEF trades

\* What get_positions answers for an instrument.
LEMMA PositionsOfTrades ==
  ASSUME TypeOK, NEW i \in DOMAIN Positions
  PROVE  /\ TradesIn(i, ByTimestamp(ledger)) \in Seq(Trades)
         /\ Positions[i] = Position(TradesIn(i, ByTimestamp(ledger)))
         /\ Positions[i].quantity # 0
<1> DEFINE final == [j \in Instruments |-> Position(TradesIn(j, ByTimestamp(ledger)))]
<1>1. Positions = [j \in {k \in Instruments : final[k].quantity # 0} |-> final[j]]
  BY DEF Positions
<1>2. i \in Instruments /\ final[i].quantity # 0 /\ Positions[i] = final[i]
  BY <1>1
<1>3. ByTimestamp(ledger) \in Seq(Row)
  BY ByTimestampRearranges DEF TypeOK
<1>4. TradesIn(i, ByTimestamp(ledger)) \in Seq(Trades)
  BY <1>3, TradesInType
<1> QED BY <1>2, <1>4

\* get_positions: the average cost of a position that was never short lies
\* between the prices paid for it, and between those paid since it was last
\* flat when all buys since then had a price, whatever the trades, their
\* number and the interleaving of the sessions that recorded them.
THEOREM AveragesWithinPrices == Spec => []AverageWithinPaid
<1>1. TypeOK => AverageWithinPaid
  <2> SUFFICES ASSUME TypeOK, NEW i \in DOMAIN Positions,
                      NeverShort(TradesIn(i, ByTimestamp(ledger)))
               PROVE  LET trades == TradesIn(i, ByTimestamp(ledger))
                          run == SinceFlat(trades)
                          cost == Positions[i].cost
                      IN  /\ cost.num # 0 => Within(cost, PricesPaid(trades))
                          /\ (\A n \in DOMAIN run : run[n].kind = "BUY" => IsPricedBuy(run[n])) =>
                               Within(cost, PricesPaid(run))
    BY DEF AverageWithinPaid
  <2> DEFINE trades == TradesIn(i, ByTimestamp(ledger))
  <2>1. trades \in Seq(Trades) /\ Positions[i] = Position(trades) /\ Position(trades).quantity # 0
    BY PositionsOfTrades
  <2> HIDE DEF trades
  <2>2. NeverShort(trades)
    BY DEF trades
  <2> QED BY <2>1, <2>2, AverageOfTrades DEF trades
<1> QED BY <1>1, PortfolioTypeCorrect, PTL

-----------------------------------------------------------------------------
(* The money paid *)

\* What a trade is worth.
Worth(r) == r.quantity * r.price

\* The trades of a sequence are worth something.
Priced(trades) == \A n \in 1..Len(trades) : Worth(trades[n]) \in Nat

LEMMA PaidRecursion ==
  ASSUME NEW trades, Len(trades) \in Nat, Priced(trades)
  PROVE  /\ PaidAfter(trades) \in [0..Len(trades) -> Nat]
         /\ PaidAfter(trades)[0] = 0
         /\ \A n \in 1..Len(trades) :
              PaidAfter(trades)[n] =
                PaidAfter(trades)[n - 1] + Worth(trades[n])
<1> DEFINE F == PaidAfter(trades)
           N == Len(trades)
           A == Nat
           Body(f, n) == f[n - 1] + Worth(trades[n])
           P(f) == f = [n \in 0..N |-> IF n = 0 THEN 0 ELSE Body(f, n)]
           step == [n \in 1..N |-> [q \in A |-> q + Worth(trades[n])]]
<1>1. N \in Nat /\ 0 \in A
  OBVIOUS
<1>2. step \in [1..N -> [A -> A]]
  <2>1. \A n \in 1..N : Worth(trades[n]) \in Nat
    BY DEF Priced
  <2> QED BY <2>1
<1>3. \A n \in 1..N : n - 1 \in 0..N /\ n \in 0..N /\ n # 0
  BY <1>1
<1>4. \E f : P(f)
  <2>1. PICK f \in [0..N -> A] : f[0] = 0 /\ \A i \in 1..N : f[i] = step[i][f[i - 1]]
    <3> DEFINE b == 0
    <3>1. b \in A /\ N \in Nat
      BY <1>1
    <3> HIDE DEF step, A, N, b, P, Body
    <3>2. \E f \in [0..N -> A] : f[0] = b /\ \A i \in 1..N : f[i] = step[i][f[i - 1]]
      BY <1>2, <3>1, RecursionExists, SMTT(40)
    <3> QED BY <3>2 DEF b
  <2>2. \A n \in 1..N : f[n] = Body(f, n)
    BY <1>3, <2>1
  <2>3. P(f)
    <3> HIDE DEF step, N, A, Body
    <3>1. \A n \in 0..N : n = 0 \/ n \in 1..N
      BY <1>1
    <3>2. \A n \in 0..N : f[n] = IF n = 0 THEN 0 ELSE Body(f, n)
      BY <1>3, <2>1, <2>2, <3>1
    <3> QED BY <2>1, <3>2
  <2> QED BY <2>3
<1>5. F = CHOOSE f : P(f)
  BY Zenon DEF PaidAfter, Worth
<1>6. P(F)
  <2> HIDE DEF P
  <2> QED BY <1>4, <1>5
<1>7. /\ F = [n \in 0..N |-> F[n]]
      /\ F[0] = 0
      /\ \A n \in 1..N : F[n] = Body(F, n)
  <2> HIDE DEF F, N, Body
  <2>1. 0 \in 0..N
    BY <1>1
  <2> QED BY <1>6, <1>3, <2>1
<1>8. \A n \in 1..N : F[n - 1] \in A => F[n] = step[n][F[n - 1]]
  <2> HIDE DEF F
  <2> QED BY <1>7
<1>9. F \in [0..N -> A]
  <2> DEFINE b == 0
  <2>1. b \in A /\ N \in Nat /\ F[0] = b
    BY <1>1, <1>7
  <2> HIDE DEF step, A, N, F, b, P, Body
  <2>2. \A i \in 0..N : F[i] \in A
    BY <1>2, <1>8, <2>1, RecursionType
  <2> QED BY <1>7, <2>2
<1> QED BY <1>7, <1>9

\* Trades worth the same but for one, the m-th if there is one, worth d more:
\* so is the sum.
LEMMA OneWorthMore ==
  ASSUME NEW s, NEW t, Len(s) \in Nat, Len(t) = Len(s), Priced(s), Priced(t),
         NEW d \in Nat, NEW m \in Nat,
         \A n \in 1..Len(s) : n # m => Worth(t[n]) = Worth(s[n]),
         m \in 1..Len(s) => Worth(t[m]) = Worth(s[m]) + d
  PROVE  PaidAfter(t)[Len(s)] =
           IF m \in 1..Len(s) THEN PaidAfter(s)[Len(s)] + d ELSE PaidAfter(s)[Len(s)]
<1> DEFINE F == PaidAfter(s)
           G == PaidAfter(t)
           N == Len(s)
           T == {n \in 0..N : G[n] = IF m \in 1..n THEN F[n] + d ELSE F[n]}
<1>1. /\ F \in [0..N -> Nat] /\ F[0] = 0
      /\ \A n \in 1..N : F[n] = F[n - 1] + Worth(s[n])
  BY PaidRecursion
<1>2. /\ G \in [0..N -> Nat] /\ G[0] = 0
      /\ \A n \in 1..N : G[n] = G[n - 1] + Worth(t[n])
  BY PaidRecursion
<1>3. N \in Nat
  OBVIOUS
<1> HIDE DEF F, G
<1>4. 0 \in T
  BY <1>1, <1>2
<1>5. ASSUME NEW n \in 0..N, n \in T, n < N PROVE n + 1 \in T
  <2>1. n + 1 \in 1..N /\ n + 1 \in 0..N /\ (n + 1) - 1 = n
    BY <1>5
  <2> DEFINE v == Worth(s[n + 1])
             w == Worth(t[n + 1])
  <2>2. G[n] = IF m \in 1..n THEN F[n] + d ELSE F[n]
    BY <1>5
  <2>3. F[n + 1] = F[n] + v /\ G[n + 1] = G[n] + w
    BY <1>1, <1>2, <2>1
  <2>4. w = IF m = n + 1 THEN v + d ELSE v
    BY <2>1
  <2>5. F[n] \in Nat /\ v \in Nat
    BY <1>1, <2>1 DEF Priced
  <2> HIDE DEF v, w
  <2>6. G[n + 1] = IF m \in 1..(n + 1) THEN F[n + 1] + d ELSE F[n + 1]
    BY <2>1, <2>2, <2>3, <2>4, <2>5
  <2> QED BY <2>1, <2>6
<1>6. N \in T
  <2> HIDE DEF T
  <2>1. \A n \in 0..N : n \in T
    BY <1>3, <1>4, <1>5, InductionUpTo
  <2> QED BY <1>3, <2>1
<1> QED BY <1>6 DEF F, G

\* The trades of t that are in X, and nothing in place of the others.
Nothing == [quantity |-> 0, price |-> 0]

Masked(t, X) == [n \in 1..Len(t) |-> IF t[n] \in X THEN t[n] ELSE Nothing]

LEMMA MaskedType ==
  ASSUME NEW t \in Seq(Trades), Priced(t), NEW X
  PROVE  /\ Len(Masked(t, X)) = Len(t) /\ Len(t) \in Nat /\ Priced(Masked(t, X))
         /\ \A n \in 1..Len(t) :
              Worth(Masked(t, X)[n]) = IF t[n] \in X THEN Worth(t[n]) ELSE 0
<1> DEFINE s == Masked(t, X)
<1>1. Len(t) \in Nat /\ \A n \in 1..Len(t) : t[n] \in Trades
  BY LenProperties
<1>2. /\ s \in [1..Len(t) -> Trades \cup {Nothing}]
      /\ \A n \in 1..Len(t) : s[n] = IF t[n] \in X THEN t[n] ELSE Nothing
  BY <1>1 DEF Masked
<1> HIDE DEF s
<1>3. s \in Seq(Trades \cup {Nothing}) /\ Len(s) = Len(t)
  BY <1>1, <1>2, SeqDef, LenProperties
<1>4. Worth(Nothing) = 0
  BY DEF Worth, Nothing
<1>5. \A n \in 1..Len(t) : Worth(s[n]) = IF t[n] \in X THEN Worth(t[n]) ELSE 0
  BY <1>2, <1>4
<1>6. Priced(s)
  BY <1>3, <1>5 DEF Priced
<1> QED BY <1>1, <1>3, <1>5, <1>6 DEF s

\* Two sequences of the same trades, none of them twice, come to the same sum.
LEMMA SameTradesSameSum ==
  ASSUME NEW s \in Seq(Trades), NEW t \in Seq(Trades), Priced(s), Priced(t),
         IsInjective(s), IsInjective(t), ToSet(s) = ToSet(t)
  PROVE  PaidAfter(s)[Len(s)] = PaidAfter(t)[Len(t)]
<1> DEFINE N == Len(s)
           M == Len(t)
           First(n) == {s[i] : i \in 1..n}
           Total(n) == PaidAfter(Masked(t, First(n)))[M]
           F == PaidAfter(s)
           T == {n \in 0..N : Total(n) = F[n]}
<1>1. N \in Nat /\ DOMAIN s = 1..N /\ M \in Nat /\ DOMAIN t = 1..M
  BY LenProperties
<1>2. /\ F \in [0..N -> Nat] /\ F[0] = 0
      /\ \A n \in 1..N : F[n] = F[n - 1] + Worth(s[n])
  BY <1>1, PaidRecursion
<1> HIDE DEF F
<1>3. ASSUME NEW X, NEW Y, NEW m \in 1..M, t[m] \in Y, t[m] \notin X,
             \A n \in 1..M : n # m => (t[n] \in X <=> t[n] \in Y)
      PROVE  PaidAfter(Masked(t, Y))[M] = PaidAfter(Masked(t, X))[M] + Worth(t[m])
  <2> DEFINE x == Masked(t, X)
             y == Masked(t, Y)
  <2>1. /\ Len(x) = M /\ Priced(x)
        /\ \A n \in 1..M : Worth(x[n]) =
                             IF t[n] \in X THEN Worth(t[n]) ELSE 0
    BY MaskedType
  <2>2. /\ Len(y) = M /\ Priced(y)
        /\ \A n \in 1..M : Worth(y[n]) =
                             IF t[n] \in Y THEN Worth(t[n]) ELSE 0
    BY MaskedType
  <2>3. Worth(t[m]) \in Nat
    BY DEF Priced
  <2> DEFINE d == Worth(t[m])
  <2>4. \A n \in 1..Len(x) : n # m => Worth(y[n]) = Worth(x[n])
    BY <1>3, <2>1, <2>2
  <2>5. Worth(y[m]) = Worth(x[m]) + d
    BY <1>3, <2>1, <2>2, <2>3
  <2>6. d \in Nat /\ m \in Nat /\ m \in 1..Len(x) /\ Len(x) \in Nat /\ Len(y) = Len(x)
    BY <1>1, <2>1, <2>2, <2>3
  <2> HIDE DEF x, y, d
  <2>7. PaidAfter(y)[Len(x)] = PaidAfter(x)[Len(x)] + d
    BY <2>1, <2>2, <2>4, <2>5, <2>6, OneWorthMore
  <2> QED BY <2>1, <2>7 DEF x, y, d
<1>4. 0 \in T
  <2> DEFINE x == Masked(t, {})
             K == {n \in 0..M : PaidAfter(x)[n] = 0}
  <2>1. /\ Len(x) = M /\ Priced(x)
        /\ \A n \in 1..M : Worth(x[n]) = 0
    BY MaskedType
  <2> HIDE DEF x, M
  <2>2. /\ PaidAfter(x) \in [0..M -> Nat] /\ PaidAfter(x)[0] = 0
        /\ \A n \in 1..M : PaidAfter(x)[n] = PaidAfter(x)[n - 1] + Worth(x[n])
    BY <1>1, <2>1, PaidRecursion
  <2>3. 0 \in K
    BY <1>1, <2>2
  <2>4. ASSUME NEW n \in 0..M, n \in K, n < M PROVE n + 1 \in K
    <3>1. n + 1 \in 1..M /\ n + 1 \in 0..M /\ (n + 1) - 1 = n
      BY <1>1, <2>4
    <3>2. PaidAfter(x)[n + 1] = PaidAfter(x)[n] + 0
      BY <2>1, <2>2, <3>1
    <3> QED BY <2>4, <3>1, <3>2
  <2>5. M \in K
    <3> HIDE DEF K
    <3>1. \A n \in 0..M : n \in K
      BY <1>1, <2>3, <2>4, InductionUpTo
    <3> QED BY <1>1, <3>1
  <2>6. First(0) = {}
    OBVIOUS
  <2> HIDE DEF First
  <2>7. Total(0) = 0
    BY <2>5, <2>6 DEF x
  <2> HIDE DEF Total
  <2> QED BY <1>1, <1>2, <2>7
<1>5. ASSUME NEW n \in 0..N, n \in T, n < N PROVE n + 1 \in T
  <2>1. n + 1 \in 1..N /\ n + 1 \in 0..N /\ (n + 1) - 1 = n
    BY <1>1, <1>5
  <2> DEFINE e == s[n + 1]
             d == Worth(e)
             X == First(n)
             Y == First(n + 1)
  <2>2. F[n + 1] = F[n] + d /\ d \in Nat
    BY <1>2, <2>1 DEF Priced
  <2>3. Y = X \cup {e}
    <3>1. \A i \in 1..(n + 1) : i \in 1..n \/ i = n + 1
      BY <2>1
    <3>2. \A i \in 1..n : i \in 1..(n + 1)
      BY <2>1
    <3>3. n + 1 \in 1..(n + 1)
      BY <2>1
    <3> QED BY <3>1, <3>2, <3>3
  <2>4. e \notin X
    <3>1. \A i \in 1..n : i \in DOMAIN s /\ i # n + 1
      BY <1>1, <1>5
    <3> QED BY <1>1, <2>1, <3>1 DEF IsInjective
  <2>5. PICK m \in 1..M : t[m] = e
    <3>1. e \in ToSet(s)
      BY <1>1, <2>1 DEF ToSet
    <3> QED BY <1>1, <3>1 DEF ToSet
  <2>6. \A l \in 1..M : t[l] = e <=> l = m
    BY <1>1, <2>5 DEF IsInjective
  <2>7. Worth(t[m]) = d
    BY <2>5
  <2> HIDE DEF e, d, X, Y
  <2>8. t[m] \in Y /\ t[m] \notin X /\ \A l \in 1..M : l # m => (t[l] \in X <=> t[l] \in Y)
    BY <2>3, <2>4, <2>5, <2>6
  <2>9. PaidAfter(Masked(t, Y))[M] = PaidAfter(Masked(t, X))[M] + d
    BY <1>3, <2>7, <2>8
  <2>10. Total(n + 1) = Total(n) + d
    BY <2>9 DEF X, Y
  <2>11. Total(n) = F[n]
    BY <1>5
  <2> HIDE DEF Total
  <2> QED BY <2>1, <2>2, <2>10, <2>11
<1>6. Total(N) = F[N]
  <2> HIDE DEF T
  <2>1. \A n \in 0..N : n \in T
    BY <1>1, <1>4, <1>5, InductionUpTo
  <2>2. N \in T
    BY <1>1, <2>1
  <2> QED BY <2>2 DEF T
<1>7. Total(N) = PaidAfter(t)[M]
  <2> DEFINE x == Masked(t, First(N))
  <2>1. First(N) = ToSet(t)
    BY <1>1 DEF ToSet
  <2>2. \A n \in 1..M : t[n] \in First(N)
    <3> HIDE DEF First
    <3> QED BY <1>1, <2>1 DEF ToSet
  <2>3. /\ Len(x) = M /\ Priced(x)
        /\ \A n \in 1..M : Worth(x[n]) = Worth(t[n])
    <3> HIDE DEF First
    <3> QED BY <2>2, MaskedType
  <2> HIDE DEF x
  <2>4. PaidAfter(x)[Len(t)] = PaidAfter(t)[Len(t)]
    <3> DEFINE d == 0
               m == 0
    <3>1. d \in Nat /\ m \in Nat /\ m \notin 1..Len(t)
      OBVIOUS
    <3>2. Len(t) \in Nat /\ Len(x) = Len(t)
      BY <1>1, <2>3
    <3>3. \A n \in 1..Len(t) : n # m => Worth(x[n]) = Worth(t[n])
      BY <2>3
    <3> HIDE DEF d, m
    <3> QED BY <2>3, <3>1, <3>2, <3>3, OneWorthMore
  <2> QED BY <2>4 DEF x
<1> QED BY <1>6, <1>7 DEF F

\* The average of a position only bought, at prices above zero, times what is
\* held is the money paid.
LEMMA AverageOfBuys ==
  ASSUME NEW trades \in Seq(Trades),
         \A n \in DOMAIN trades : IsPricedBuy(trades[n]) /\ trades[n].price > 0
  PROVE  LET pos == Position(trades)
         IN  /\ Priced(trades)
             /\ pos.cost.num * pos.quantity = PaidAfter(trades)[Len(trades)] * pos.cost.den
<1> DEFINE F == PositionAfter(trades)
           G == PaidAfter(trades)
           N == Len(trades)
           Good(n) == /\ F[n].quantity \in Nat /\ F[n].cost.num \in Nat
                      /\ F[n].quantity = 0 => G[n] = 0
                      /\ F[n].quantity # 0 => F[n].cost.num # 0
                      /\ F[n].cost.num * F[n].quantity = G[n] * F[n].cost.den
           T == {n \in 0..N : Good(n)}
<1>1. /\ F \in [0..N -> PositionsOf] /\ F[0] = Flat
      /\ \A n \in 1..N : F[n] = Apply(F[n - 1], trades[n])
  BY PositionRecursion
<1>2. N \in Nat /\ DOMAIN trades = 1..N /\ \A n \in 1..N : trades[n] \in Trades
  BY LenProperties
<1>3. \A n \in 1..N : /\ IsPricedBuy(trades[n]) /\ trades[n].kind = "BUY"
                      /\ trades[n].quantity \in Nat /\ trades[n].price \in Nat \ {0}
  <2> TAKE n \in 1..N
  <2>1. /\ trades[n].quantity \in Nat /\ trades[n].price \in Nat \cup {NoPrice}
        /\ IsPricedBuy(trades[n]) /\ trades[n].price > 0
    BY <1>2 DEF Trades, Row
  <2> QED BY <2>1 DEF IsPricedBuy
<1>4. Priced(trades)
  BY <1>3 DEF Priced, Worth
<1>5. /\ G \in [0..N -> Nat] /\ G[0] = 0
      /\ \A n \in 1..N : G[n] = G[n - 1] + Worth(trades[n])
  BY <1>2, <1>4, PaidRecursion
<1> HIDE DEF F, G
<1>6. 0 \in T
  BY <1>1, <1>2, <1>5 DEF Flat
<1>7. ASSUME NEW n \in 0..N, n \in T, n < N PROVE n + 1 \in T
  <2>1. n + 1 \in 1..N /\ n + 1 \in 0..N /\ (n + 1) - 1 = n
    BY <1>2, <1>7
  <2> DEFINE pos == F[n]
             r == trades[n + 1]
             q == pos.quantity
             b == r.quantity
             p == r.price
             num == pos.cost.num
             den == pos.cost.den
             paid == G[n]
             next == F[n + 1]
  <2>2. pos \in PositionsOf /\ r \in Trades
    BY <1>1, <1>2, <2>1
  <2>3. next = Apply(pos, r) /\ G[n + 1] = paid + b * p /\ paid \in Nat
    BY <1>1, <1>5, <2>1 DEF Worth
  <2>4. /\ q \in Nat /\ num \in Nat /\ den \in Nat \ {0}
        /\ q = 0 => paid = 0
        /\ q # 0 => num # 0
        /\ num * q = paid * den
    BY <1>7, <2>2 DEF PositionsOf, Costs
  <2>5. IsPricedBuy(r) /\ r.kind = "BUY" /\ b \in Nat /\ p \in Nat \ {0}
    BY <1>3, <2>1
  <2>6. /\ next.quantity = q + b
        /\ q + b = 0 => next.cost = pos.cost
        /\ q + b > 0 =>
             /\ num = 0 => next.cost = [num |-> q * p + b * p * 1, den |-> (q + b) * 1]
             /\ num # 0 => next.cost = [num |-> q * num + b * p * den, den |-> (q + b) * den]
    <3>1. /\ Apply(pos, r).quantity = q + (IF r.kind = "BUY" THEN b ELSE 0 - b)
          /\ ~(IsPricedBuy(r) /\ q + b > 0) => Apply(pos, r).cost = pos.cost
          /\ IsPricedBuy(r) /\ q + b > 0 =>
               /\ num = 0 => Apply(pos, r).cost = [num |-> q * p + b * p * 1, den |-> (q + b) * 1]
               /\ num # 0 => Apply(pos, r).cost =
                               [num |-> q * num + b * p * den, den |-> (q + b) * den]
      <4> HIDE DEF pos, r
      <4> QED BY <2>2, ApplyCases
    <3> HIDE DEF pos, r, next
    <3> QED BY <2>3, <2>4, <2>5, <3>1
  <2> HIDE DEF pos, r, q, b, p, num, den, paid, next
  <2>7. CASE q + b = 0
    <3>1. q = 0 /\ b = 0 /\ paid = 0
      BY <2>4, <2>5, <2>7
    <3>2. G[n + 1] = 0
      BY <2>3, <2>5, <3>1
    <3>3. next.quantity = 0 /\ next.cost.num = num /\ next.cost.den = den
      BY <2>6, <2>7 DEF num, den
    <3>4. num * 0 = 0 * den
      BY <2>4
    <3>5. Good(n + 1)
      BY <2>4, <3>2, <3>3, <3>4 DEF next
    <3> QED BY <2>1, <3>5
  <2>8. CASE q + b > 0 /\ num = 0
    <3>1. q = 0 /\ b \in Nat \ {0} /\ paid = 0
      BY <2>4, <2>5, <2>8
    <3>2. next.quantity = b /\ next.cost.num = 0 * p + b * p * 1 /\ next.cost.den = (0 + b) * 1
      BY <2>4, <2>5, <2>6, <2>8, <3>1
    <3>3. b * p \in Nat \ {0} /\ 0 * p + b * p * 1 = b * p /\ (0 + b) * 1 = b
      BY <2>5, <3>1
    <3>4. G[n + 1] = b * p
      BY <2>3, <3>1, <3>3
    <3>5. Good(n + 1)
      BY <3>1, <3>2, <3>3, <3>4 DEF next
    <3> QED BY <2>1, <3>5
  <2>9. CASE q + b > 0 /\ num # 0
    <3>1. /\ next.quantity = q + b /\ next.cost.num = q * num + b * p * den
          /\ next.cost.den = (q + b) * den
      BY <2>6, <2>9
    <3>2. q * num + b * p * den \in Nat \ {0}
      <4>1. q * num \in Nat /\ (q # 0 => q * num # 0)
        BY <2>4, <2>9
      <4>2. b * p \in Nat /\ (b # 0 => b * p # 0)
        BY <2>5
      <4> DEFINE bp == b * p
      <4>3. bp * den \in Nat /\ (bp # 0 => bp * den # 0)
        <5> HIDE DEF bp
        <5>1. bp \in Nat
          BY <4>2 DEF bp
        <5> QED BY <2>4, <5>1
      <4> HIDE DEF bp
      <4>4. q # 0 \/ b # 0
        BY <2>4, <2>5, <2>9
      <4>5. q * num + bp * den \in Nat \ {0}
        BY <4>1, <4>2, <4>3, <4>4 DEF bp
      <4> QED BY <4>5 DEF bp
    <3>3. (q * num + b * p * den) * (q + b) = (paid + b * p) * ((q + b) * den)
      <4> DEFINE bp == b * p
                 qb == q + b
      <4>1. bp \in Nat /\ qb \in Nat
        BY <2>4, <2>5
      <4> HIDE DEF bp, qb
      <4>2. (paid + bp) * (qb * den) = qb * (paid * den + bp * den)
        BY <2>3, <2>4, <4>1
      <4>3. paid * den + bp * den = q * num + bp * den
        <5>1. paid * den = q * num
          BY <2>3, <2>4
        <5> QED BY <5>1
      <4>4. qb * (q * num + bp * den) = (q * num + bp * den) * qb
        BY <2>4, <4>1
      <4> QED BY <4>2, <4>3, <4>4 DEF bp, qb
    <3>4. q + b \in Nat \ {0}
      BY <2>4, <2>5, <2>9
    <3>5. Good(n + 1)
      BY <2>3, <3>1, <3>2, <3>3, <3>4 DEF next
    <3> QED BY <2>1, <3>5
  <2> QED BY <2>4, <2>5, <2>7, <2>8, <2>9
<1>8. N \in T
  <2> HIDE DEF T
  <2>1. \A n \in 0..N : n \in T
    BY <1>2, <1>6, <1>7, InductionUpTo
  <2> QED BY <1>2, <2>1
<1> QED BY <1>4, <1>8 DEF F, G, Position

\* While a position is only bought, each time at a price above zero, the
\* average get_positions answers is the money paid over the quantity, in
\* whatever order the sessions' transactions began and committed: sorting the
\* trades by their timestamps cannot change it.
THEOREM BuysAverageExactly == Spec => []BuysAverage
<1>1. TypeOK => BuysAverage
  <2> SUFFICES ASSUME TypeOK, NEW i \in DOMAIN Positions,
                      \A n \in DOMAIN TradesIn(i, ledger) :
                        IsPricedBuy(TradesIn(i, ledger)[n]) /\ TradesIn(i, ledger)[n].price > 0
               PROVE  LET trades == TradesIn(i, ledger)
                          paid == PaidAfter(trades)[Len(trades)]
                          cost == Positions[i].cost
                      IN  cost.num * Positions[i].quantity = paid * cost.den
    BY DEF BuysAverage
  <2> DEFINE trades == TradesIn(i, ledger)
             sorted == TradesIn(i, ByTimestamp(ledger))
  <2>1. /\ ledger \in Seq(Row) /\ ByTimestamp(ledger) \in Seq(Row)
        /\ ToSet(ByTimestamp(ledger)) = ToSet(ledger)
        /\ IsInjective(ByTimestamp(ledger)) /\ IsInjective(ledger)
    BY ByTimestampRearranges DEF TypeOK
  <2>2. /\ trades \in Seq(Trades) /\ IsInjective(trades)
        /\ sorted \in Seq(Trades) /\ IsInjective(sorted)
        /\ ToSet(sorted) = ToSet(trades)
    BY <2>1, TradesInType
  <2>3. Positions[i] = Position(sorted)
    BY PositionsOfTrades
  <2>4. \A n \in DOMAIN trades : IsPricedBuy(trades[n]) /\ trades[n].price > 0
    OBVIOUS
  <2> HIDE DEF trades, sorted
  <2>5. \A n \in DOMAIN sorted : IsPricedBuy(sorted[n]) /\ sorted[n].price > 0
    <3>1. \A r \in ToSet(trades) : IsPricedBuy(r) /\ r.price > 0
      BY <2>4 DEF ToSet
    <3>2. \A n \in DOMAIN sorted : sorted[n] \in ToSet(trades)
      BY <2>2 DEF ToSet
    <3> QED BY <3>1, <3>2
  <2>6. Priced(trades)
    BY <2>2, <2>4, AverageOfBuys
  <2>7. /\ Priced(sorted)
        /\ Position(sorted).cost.num * Position(sorted).quantity =
             PaidAfter(sorted)[Len(sorted)] * Position(sorted).cost.den
    BY <2>2, <2>5, AverageOfBuys
  <2>8. PaidAfter(sorted)[Len(sorted)] = PaidAfter(trades)[Len(trades)]
    BY <2>2, <2>6, <2>7, SameTradesSameSum
  <2> QED BY <2>3, <2>7, <2>8 DEF trades
<1> QED BY <1>1, PortfolioTypeCorrect, PTL
=============================================================================
