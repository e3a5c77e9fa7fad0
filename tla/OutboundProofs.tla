--------------------------- MODULE OutboundProofs ---------------------------
(***************************************************************************)
(* Proofs about Outbound, for any number of workers, messages, articles,   *)
(* searches, ids and any minimum of sources.                               *)
(*                                                                         *)
(*   OutboundTypeCorrect   Spec => []TypeOK                                *)
(*   AlertsConfirmed       Spec => []AlertsAreConfirmed                    *)
(*   MailsOnceFromRows     Spec => []MailedOnceFromRow                     *)
(*   SentAtTruthful        Spec => []SentAtIsTrue                          *)
(*   UnmailedAccounted     Spec => []UnmailedIsAccounted                   *)
(***************************************************************************)
EXTENDS Outbound, SequenceLemmas

-----------------------------------------------------------------------------
(* The inductive invariant *)

\* What AlertsAreConfirmed says of one alert.
Confirmed(a) ==
  /\ a.article \in ToSet(a.links)
  /\ MinSources <= a.sources
  /\ Cardinality(ToSet(a.links)) <= a.sources
  /\ MinSources > 1 => Cardinality(ToSet(a.links)) > 1

\* A worker has a message of the broker exactly while it executes a run.
BusyOK(w) == Idle(w) <=> pc[w] = "idle"

\* What a run holds in memory, label by label.
HoldingsOK(w) ==
  /\ pc[w] \notin {"send", "mail"} => outgoing[w] = <<>> /\ marked[w] = {}
  /\ pc[w] = "mail" => marked[w] = {} /\ \E i \in briefings : outgoing[w] = <<i>>
  /\ pc[w] = "send" => ToSet(outgoing[w]) \subseteq IdsOf(alerts)
  /\ marked[w] \subseteq IdsOf(alerts)
  /\ IsInjective(outgoing[w])

\* The alerts a run may commit are confirmed, and the candidate it puts to
\* the guard has sources enough.
EvidenceOK(w) ==
  /\ pc[w] = "guard" => /\ todo[w] # <<>>
                        /\ MinSources <= SourceCount(Head(todo[w]), hits[w])
  /\ \A a \in ToSet(fired[w]) : Confirmed(a)

\* No row id is used twice: in the tables, by one run, or by two.
IdsOK ==
  /\ IdsOf(alerts) \cap briefings = {}
  /\ \A w \in Workers :
       /\ IsInjective(FiredIds(w))
       /\ IdsOf(ToSet(fired[w])) \cap Committed = {}
  /\ \A w, v \in Workers :
       w # v => IdsOf(ToSet(fired[w])) \cap IdsOf(ToSet(fired[v])) = {}

\* A row is mailed once, from the one run that committed it.
MailsOK ==
  /\ \A i \in Ids : mails[i] \in {0, 1} /\ (mails[i] = 1 => i \in Committed)
  /\ \A i \in sentAt : mails[i] = 1
  /\ \A w \in Workers : /\ \A i \in ToSet(outgoing[w]) : mails[i] = 0
                        /\ \A i \in marked[w] : mails[i] = 1
  /\ \A w, v \in Workers : w # v => ToSet(outgoing[w]) \cap ToSet(outgoing[v]) = {}

RunOK == \A w \in Workers : BusyOK(w) /\ HoldingsOK(w) /\ EvidenceOK(w)

-----------------------------------------------------------------------------
(* Operators *)

\* Each of the broker's operations keeps its types.
LEMMA BrokerOps ==
  ASSUME BrokerTypeOK, NEW w \in Workers
  PROVE  /\ \A m \in Msgs : Trigger(m) \/ Take(w, m) => BrokerTypeOK'
         /\ Succeed(w) \/ Raise(w) \/ Die(w) =>
              BrokerTypeOK' /\ job' = [job EXCEPT ![w] = NoMsg]
<1> USE BrokerAssumption
<1>1. ASSUME NEW m \in Msgs, Trigger(m) \/ Take(w, m) PROVE BrokerTypeOK'
  BY <1>1 DEF Trigger, Take, Idle, BrokerTypeOK
<1>2. ~Idle(w) => job[w] \in Msgs
  BY DEF Idle, BrokerTypeOK
<1>3. ~Idle(w) /\ Release(w) => BrokerTypeOK' /\ job' = [job EXCEPT ![w] = NoMsg]
  BY <1>2 DEF Release, BrokerTypeOK
<1>4. ~Idle(w) /\ Retry(w) => BrokerTypeOK' /\ job' = [job EXCEPT ![w] = NoMsg]
  BY <1>2 DEF Retry, BrokerTypeOK
<1> QED
  BY <1>1, <1>3, <1>4 DEF Succeed, Raise, GiveUp, Die

\* The candidates of a run are articles.
LEMMA CandidatesType ==
  ASSUME stored \in Seq(Articles), aged \in 0..Len(stored)
  PROVE  Candidates \in Seq(Articles)
<1>1. SubSeq(stored, aged + 1, Len(stored)) \in Seq(Articles)
  <2>1. Len(stored) \in Nat /\ \A i \in (aged + 1)..Len(stored) : stored[i] \in Articles
    BY LenProperties
  <2> QED BY <2>1, SubSeqProperties
<1>2. Recent \in Seq(Articles)
  BY <1>1, ReverseType DEF Recent
<1> QED BY <1>2, SelectedElements DEF Candidates

\* What corroborates a is about other articles.
LEMMA CorroboratingElements ==
  ASSUME NEW a \in Articles, NEW found \in Seq(Articles)
  PROVE  /\ Corroborating(a, found) \in Seq(Articles)
         /\ ToSet(Corroborating(a, found)) = ToSet(found) \ {a}
         /\ SourceCount(a, found) \in Nat
         /\ SourceCount(a, found) = Cardinality(ToSet(found) \ {a}) + 1
<1>1. /\ Corroborating(a, found) \in Seq(Articles)
      /\ ToSet(Corroborating(a, found)) = ToSet(found) \cap (Articles \ {a})
  BY SelectedElements DEF Corroborating
<1>2. ToSet(Corroborating(a, found)) = ToSet(found) \ {a}
  BY <1>1, ElementsType
<1>3. Cardinality(ToSet(Corroborating(a, found))) \in Nat
  BY <1>1, ElementsFinite
<1>4. SourceCount(a, found) = Cardinality(ToSet(Corroborating(a, found))) + 1
  BY DEF SourceCount
<1>5. Cardinality(ToSet(Corroborating(a, found))) = Cardinality(ToSet(found) \ {a})
  BY <1>2
<1> QED BY <1>1, <1>2, <1>3, <1>4, <1>5

\* The links of an alert: the article it is about, the first of the chunks
\* that corroborate it, and nothing else.
LEMMA LinksElements ==
  ASSUME NEW a \in Articles, NEW found \in Seq(Articles)
  PROVE  /\ Links(a, found) \in Seq(Articles)
         /\ a \in ToSet(Links(a, found))
         /\ ToSet(Links(a, found)) \subseteq {a} \cup (ToSet(found) \ {a})
         /\ MinSources > 0 /\ ToSet(found) \ {a} # {} =>
              \E b \in ToSet(found) \ {a} : b \in ToSet(Links(a, found))
<1> DEFINE c == Corroborating(a, found)
           n == IF Len(c) < MinSources THEN Len(c) ELSE MinSources
           part == SubSeq(c, 1, n)
           links == <<a>> \o part
<1>0. c \in Seq(Articles) /\ ToSet(c) = ToSet(found) \ {a}
  BY CorroboratingElements
<1>1. Len(c) \in Nat /\ n \in 0..Len(c) /\ DOMAIN c = 1..Len(c) /\ (\A i \in 1..Len(c) : c[i] \in Articles)
  BY <1>0, OutboundAssumption, LenProperties
<1>2. links = Links(a, found)
  BY DEF Links
<1> HIDE DEF c, n
<1>3. part \in Seq(Articles) /\ Len(part) = n /\ \A i \in 1..n : part[i] = c[i]
  BY <1>0, <1>1, SubSeqProperties
<1> HIDE DEF part
<1>4. /\ links \in Seq(Articles) /\ Len(links) = n + 1 /\ links[1] = a
      /\ \A i \in 2..(n + 1) : links[i] = c[i - 1]
  BY <1>1, <1>3
<1>5. DOMAIN links = 1..(n + 1)
  BY <1>1, <1>4, LenProperties
<1> HIDE DEF links
<1>6. a \in ToSet(links)
  BY <1>1, <1>4, <1>5 DEF ToSet
<1>7. \A i \in 2..(n + 1) : i - 1 \in 1..Len(c)
  BY <1>1
<1>8. ToSet(links) \subseteq {a} \cup ToSet(c)
  <2>1. \A i \in 2..(n + 1) : links[i] \in ToSet(c)
    BY <1>1, <1>4, <1>7 DEF ToSet
  <2>2. \A i \in 1..(n + 1) : i = 1 \/ i \in 2..(n + 1)
    BY <1>1
  <2>3. \A i \in DOMAIN links : links[i] = a \/ links[i] \in ToSet(c)
    BY <1>4, <1>5, <2>1, <2>2
  <2>4. ToSet(links) = {links[i] : i \in DOMAIN links}
    BY DEF ToSet
  <2> HIDE DEF links
  <2> QED BY <2>3, <2>4
<1>9. ASSUME MinSources > 0, ToSet(c) # {} PROVE c[1] \in ToSet(c) /\ c[1] \in ToSet(links)
  <2>1. Len(c) > 0
    BY <1>1, <1>9 DEF ToSet
  <2>2. n > 0 /\ 2 \in 1..(n + 1) /\ links[2] = c[1] /\ 1 \in 1..Len(c)
    BY <1>1, <1>4, <1>9, <2>1, OutboundAssumption DEF n
  <2> QED BY <1>1, <1>5, <2>2 DEF ToSet
<1> QED BY <1>0, <1>2, <1>4, <1>6, <1>8, <1>9

\* An alert that the search found sources enough for is confirmed.
LEMMA FiredConfirmed ==
  ASSUME NEW a \in Articles, NEW found \in Seq(Articles), NEW id \in Ids,
         MinSources <= SourceCount(a, found)
  PROVE  LET row == [id |-> id, article |-> a, sources |-> SourceCount(a, found),
                     links |-> Links(a, found)]
         IN  row \in Row /\ Confirmed(row)
<1> DEFINE others == ToSet(found) \ {a}
           links == ToSet(Links(a, found))
<1>1. /\ SourceCount(a, found) \in Nat /\ SourceCount(a, found) = Cardinality(others) + 1
      /\ MinSources \in Nat
  BY CorroboratingElements, OutboundAssumption
<1>2. /\ Links(a, found) \in Seq(Articles) /\ a \in links /\ links \subseteq {a} \cup others
      /\ MinSources > 0 /\ others # {} => \E b \in others : b \in links
  BY LinksElements
<1>3. IsFiniteSet(others) /\ IsFiniteSet(links) /\ Cardinality(others) \in Nat
      /\ Cardinality(links) \in Nat
  BY <1>2, ElementsFinite, FS_Subset, FS_CardinalityType
<1>4. Cardinality(links) <= SourceCount(a, found)
  <2>1. IsFiniteSet(others \cup {a}) /\ Cardinality(others \cup {a}) = Cardinality(others) + 1
    BY <1>3, FS_AddElement
  <2> QED BY <1>1, <1>2, <2>1, FS_Subset
<1>5. ASSUME MinSources > 1 PROVE Cardinality(links) > 1
  <2>1. others # {}
    <3>1. Cardinality(others) > 0
      BY <1>1, <1>3, <1>5
    <3>2. Cardinality({}) = 0
      BY FS_EmptySet
    <3> SUFFICES ASSUME others = {} PROVE Cardinality(others) = 0
      BY <3>1
    <3> QED BY <3>2
  <2>2. PICK b \in others : b \in links
    BY <1>1, <1>2, <1>5, <2>1
  <2>3. IsFiniteSet({a, b}) /\ Cardinality({a, b}) = 2
    <3>1. IsFiniteSet({a}) /\ Cardinality({a}) = 1
      BY FS_Singleton
    <3> DEFINE pair == {a} \cup {b}
    <3>2. pair = {a, b} /\ b \notin {a}
      BY <2>2
    <3>3. IsFiniteSet(pair) /\ Cardinality(pair) = Cardinality({a}) + 1
      BY <3>1, <3>2, FS_AddElement
    <3> HIDE DEF pair
    <3>4. Cardinality(pair) = 2
      BY <3>1, <3>3
    <3> QED BY <3>2, <3>3, <3>4
  <2>4. Cardinality({a, b}) <= Cardinality(links)
    BY <1>2, <1>3, <2>2, FS_Subset
  <2> QED BY <1>3, <2>3, <2>4
<1> QED BY <1>1, <1>2, <1>4, <1>5 DEF Row, Confirmed

-----------------------------------------------------------------------------
(* Types *)

\* The rows a run has in hand are committed.
LEMMA HeldCommitted ==
  ASSUME TypeOK, RunOK, NEW w \in Workers
  PROVE  /\ InHand(w) \subseteq Committed
         /\ Committed \subseteq Ids
         /\ outgoing[w] # <<>> => /\ Head(outgoing[w]) \in Ids
                                  /\ Head(outgoing[w]) \in ToSet(outgoing[w])
                                  /\ Tail(outgoing[w]) \in Seq(Ids)
<1>0. outgoing[w] \in Seq(Ids) /\ HoldingsOK(w) /\ alerts \in SUBSET Row
  BY DEF TypeOK, RunOK
<1>1. ToSet(outgoing[w]) \subseteq Committed
  <2>1. CASE pc[w] = "mail"
    <3>1. PICK i \in briefings : outgoing[w] = <<i>>
      BY <1>0, <2>1 DEF HoldingsOK
    <3>2. \A k \in DOMAIN <<i>> : <<i>>[k] = i
      OBVIOUS
    <3> QED BY <3>1, <3>2 DEF ToSet, Committed
  <2>2. CASE pc[w] # "mail"
    BY <1>0, <2>2, ElementsOfEmpty DEF HoldingsOK, Committed
  <2> QED BY <2>1, <2>2
<1>2. IdsOf(alerts) \subseteq Ids
  BY <1>0 DEF IdsOf, Row
<1>3. Committed \subseteq Ids
  BY <1>2 DEF Committed, TypeOK
<1>4. InHand(w) \subseteq Committed
  BY <1>0, <1>1 DEF InHand, HoldingsOK, Committed
<1>5. outgoing[w] # <<>> => /\ Head(outgoing[w]) \in Ids
                            /\ Head(outgoing[w]) \in ToSet(outgoing[w])
                            /\ Tail(outgoing[w]) \in Seq(Ids)
  BY <1>0, HeadTailProperties, ElementsType
<1> QED BY <1>3, <1>4, <1>5

\* The alerts a run has flushed, and their ids.
LEMMA FiredType ==
  ASSUME TypeOK, NEW w \in Workers
  PROVE  /\ fired[w] \in Seq(Row)
         /\ ToSet(fired[w]) \subseteq Row
         /\ FiredIds(w) \in Seq(Ids)
         /\ ToSet(FiredIds(w)) = IdsOf(ToSet(fired[w]))
<1>1. fired[w] \in Seq(Row) /\ ToSet(fired[w]) \subseteq Row
  BY ElementsType DEF TypeOK
<1>2. DOMAIN fired[w] = 1..Len(fired[w]) /\ Len(fired[w]) \in Nat
      /\ \A i \in DOMAIN fired[w] : fired[w][i] \in Row
  BY <1>1, LenProperties
<1>3. FiredIds(w) \in [1..Len(fired[w]) -> Ids]
  BY <1>2 DEF FiredIds, Row
<1>4. FiredIds(w) \in Seq(Ids)
  BY <1>2, <1>3, SeqDef
<1>5. ToSet(FiredIds(w)) = IdsOf(ToSet(fired[w]))
  BY DEF FiredIds, IdsOf, ToSet
<1> QED BY <1>1, <1>4, <1>5

\* One more mail made from a row.
LEMMA OneMoreMail ==
  ASSUME mails \in [Ids -> Nat], NEW i \in Ids, AddMail(i)
  PROVE  mails' \in [Ids -> Nat]
BY DEF AddMail

RunTypeOK ==
  /\ pc \in [Workers -> Labels]
  /\ todo \in [Workers -> Seq(Articles)]
  /\ hits \in [Workers -> Seq(Articles)]
  /\ fired \in [Workers -> Seq(Row)]
  /\ outgoing \in [Workers -> Seq(Ids)]
  /\ marked \in [Workers -> SUBSET Ids]

LEMMA ForgetType ==
  ASSUME RunTypeOK, NEW w \in Workers, Forget(w)
  PROVE  RunTypeOK'
BY EmptySeq DEF RunTypeOK, Forget, Goto, Labels

\* A run that ends lets go of committed rows only.
LEMMA EndType ==
  ASSUME TypeOK, RunOK, NEW w \in Workers, Forget(w),
         Succeed(w) \/ Raise(w) \/ Die(w),
         abandoned' \subseteq abandoned \cup InHand(w) \cup (Committed' \ Committed),
         UNCHANGED <<stored, aged>>, alerts \subseteq alerts', alerts' \subseteq Row,
         briefings \subseteq briefings', briefings' \subseteq Ids,
         sentAt' \subseteq sentAt \cup marked[w], mails' \in [Ids -> Nat]
  PROVE  TypeOK'
<1>1. BrokerTypeOK'
  BY BrokerOps DEF TypeOK
<1>2. RunTypeOK'
  BY ForgetType DEF TypeOK, RunTypeOK
<1>3. Committed \subseteq Committed' /\ IdsOf(alerts) \subseteq IdsOf(alerts')
  BY DEF Committed, IdsOf
<1>4. abandoned' \subseteq Committed'
  BY <1>3, HeldCommitted DEF TypeOK
<1>5. sentAt' \subseteq IdsOf(alerts')
  BY <1>3 DEF TypeOK, RunOK, HoldingsOK
<1> QED BY <1>1, <1>2, <1>4, <1>5 DEF TypeOK, RunTypeOK

\* The steps of run_alert_engine up to its commit keep the types.
LEMMA EngineStepType ==
  ASSUME TypeOK, RunOK, NEW w \in Workers,
         ReadArticles(w) \/ Search(w) \/ TooFewSources(w) \/ AlertGuardFails(w) \/ Fire(w)
         \/ FindChunks(w)
  PROVE  TypeOK'
<1>0. RunTypeOK /\ BrokerTypeOK /\ todo[w] \in Seq(Articles) /\ hits[w] \in Seq(Articles)
  BY DEF TypeOK, RunTypeOK
<1> SUFFICES RunTypeOK' /\ UNCHANGED <<brokerVars, stored, aged, alerts, briefings, sentAt, mails,
                                       abandoned>>
  BY <1>0 DEF TypeOK, RunTypeOK, brokerVars, BrokerTypeOK, Committed
<1>1. UNCHANGED <<brokerVars, stored, aged, alerts, briefings, sentAt, mails, abandoned>>
  BY DEF ReadArticles, Search, TooFewSources, AlertGuardFails, Fire, FindChunks, articlesRead, tables
<1>2. todo[w] # <<>> => Head(todo[w]) \in Articles /\ Tail(todo[w]) \in Seq(Articles)
  BY <1>0, HeadTailProperties
<1>3. CASE ReadArticles(w)
  <2>1. Candidates \in Seq(Articles)
    BY CandidatesType DEF TypeOK
  <2> QED BY <1>0, <1>1, <1>3, <2>1 DEF ReadArticles, RunTypeOK, Goto, Labels
<1>4. CASE Search(w) \/ FindChunks(w)
  <2>1. Found \subseteq Seq(Articles)
    BY OutboundAssumption DEF Found
  <2>2. CASE Search(w)
    BY <1>0, <1>1, <2>1, <2>2 DEF Search, RunTypeOK, Goto, Labels
  <2>3. CASE FindChunks(w)
    BY <1>0, <1>1, <2>1, <2>3 DEF FindChunks, RunTypeOK, Goto, Labels
  <2> QED BY <1>4, <2>2, <2>3
<1>5. CASE TooFewSources(w)
  BY <1>0, <1>1, <1>2, <1>5 DEF TooFewSources, RunTypeOK
<1>6. pc[w] = "guard" => todo[w] # <<>> /\ MinSources <= SourceCount(Head(todo[w]), hits[w])
  BY DEF RunOK, EvidenceOK
<1>7. CASE AlertGuardFails(w)
  BY <1>0, <1>1, <1>2, <1>6, <1>7, EmptySeq
  DEF AlertGuardFails, NextCandidate, RunTypeOK, Goto, Labels
<1>8. CASE Fire(w)
  <2> DEFINE row(id) == [id |-> id, article |-> Head(todo[w]),
                         sources |-> SourceCount(Head(todo[w]), hits[w]),
                         links |-> Links(Head(todo[w]), hits[w])]
  <2>1. PICK id \in FreeIds : fired' = [fired EXCEPT ![w] = Append(@, row(id))]
    BY <1>8 DEF Fire
  <2>2. row(id) \in Row
    BY <1>0, <1>2, <1>6, <1>8, FiredConfirmed DEF Fire, FreeIds
  <2> HIDE DEF row
  <2>3. fired' \in [Workers -> Seq(Row)]
    BY <1>0, <2>1, <2>2, AppendProperties DEF RunTypeOK
  <2> QED BY <1>0, <1>1, <1>2, <1>6, <1>8, <2>3, EmptySeq
      DEF Fire, NextCandidate, RunTypeOK, Goto, Labels
<1> QED BY <1>3, <1>4, <1>5, <1>7, <1>8

\* So do its commit, the mails, and the steps of a briefing.
LEMMA MailStepType ==
  ASSUME TypeOK, RunOK, NEW w \in Workers, CommitAlerts(w) \/ Send(w) \/ CommitBriefing(w)
  PROVE  TypeOK'
<1>0. /\ RunTypeOK /\ BrokerTypeOK /\ HoldingsOK(w) /\ abandoned \subseteq Committed
      /\ alerts \subseteq Row /\ sentAt \subseteq IdsOf(alerts) /\ briefings \subseteq Ids
  BY DEF TypeOK, RunTypeOK, RunOK
<1>a. UNCHANGED brokerVars => BrokerTypeOK'
  BY <1>0 DEF BrokerTypeOK, brokerVars
<1>1. CASE CommitAlerts(w)
  <2>1. alerts' \subseteq Row /\ FiredIds(w) \in Seq(Ids)
    BY <1>0, <1>1, FiredType DEF CommitAlerts
  <2>2. IdsOf(alerts) \subseteq IdsOf(alerts') /\ briefings' = briefings
    BY <1>1 DEF CommitAlerts, IdsOf
  <2>3. RunTypeOK'
    BY <1>0, <1>1, <2>1, EmptySeq DEF CommitAlerts, RunTypeOK, Goto, Labels
  <2> QED BY <1>0, <1>1, <1>a, <2>1, <2>2, <2>3
      DEF CommitAlerts, TypeOK, RunTypeOK, Committed, articlesRead
<1>2. CASE Send(w)
  <2>1. Head(outgoing[w]) \in Ids /\ Tail(outgoing[w]) \in Seq(Ids)
    BY <1>2, HeldCommitted DEF Send
  <2>2. RunTypeOK'
    BY <1>0, <1>2, <2>1 DEF Send, RunTypeOK
  <2>3. mails' \in [Ids -> Nat]
    BY <1>2, <2>1, OneMoreMail DEF Send, TypeOK
  <2> QED BY <1>0, <1>2, <1>a, <2>2, <2>3
      DEF Send, TypeOK, RunTypeOK, Committed, articlesRead, tables
<1>3. CASE CommitBriefing(w)
  <2>1. PICK id \in FreeIds : /\ briefings' = briefings \cup {id}
                              /\ outgoing' = [outgoing EXCEPT ![w] = <<id>>]
    BY <1>3 DEF CommitBriefing
  <2>2. id \in Ids /\ <<id>> \in Seq(Ids)
    BY DEF FreeIds
  <2>3. RunTypeOK'
    BY <1>0, <1>3, <2>1, <2>2, EmptySeq DEF CommitBriefing, RunTypeOK, Goto, Labels
  <2> QED BY <1>0, <1>3, <1>a, <2>1, <2>2, <2>3
      DEF CommitBriefing, TypeOK, RunTypeOK, Committed, articlesRead
<1> QED BY <1>1, <1>2, <1>3

-----------------------------------------------------------------------------
(* The ways a run ends *)

\* With nothing more in the tables: what it has in hand is let go of.
LetsGo(w) ==
  /\ UNCHANGED <<alerts, briefings, sentAt, mails>>
  /\ abandoned' = abandoned \cup InHand(w)

\* With the notes of the mails it sent.
NotesSentAt(w) ==
  /\ outgoing[w] = <<>>
  /\ sentAt' = sentAt \cup marked[w]
  /\ UNCHANGED <<alerts, briefings, mails>>
  /\ abandoned \subseteq abandoned' /\ abandoned' \subseteq abandoned \cup InHand(w)

\* With one more mail, after which it lets go of the rest, or has no more.
MailsLast(w) ==
  /\ outgoing[w] # <<>> /\ AddMail(Head(outgoing[w]))
  /\ UNCHANGED <<alerts, briefings, sentAt>>
  /\ \/ abandoned' = abandoned \cup InHand(w)
     \/ pc[w] = "mail" /\ abandoned' = abandoned

\* With a commit whose outcome it does not learn.
LosesAlertsCommit(w) ==
  /\ alerts' = alerts \cup ToSet(fired[w])
  /\ UNCHANGED <<briefings, sentAt, mails>>
  /\ abandoned' = abandoned \cup InHand(w) \cup IdsOf(ToSet(fired[w]))

LosesBriefingCommit(w) ==
  \E id \in FreeIds :
    /\ briefings' = briefings \cup {id}
    /\ UNCHANGED <<alerts, sentAt, mails>>
    /\ abandoned' = abandoned \cup InHand(w) \cup {id}

Ends(w) ==
  /\ Forget(w)
  /\ Succeed(w) \/ Raise(w) \/ Die(w)
  /\ UNCHANGED <<stored, aged>>
  /\ \/ LetsGo(w) \/ NotesSentAt(w) \/ MailsLast(w)
     \/ LosesAlertsCommit(w) \/ LosesBriefingCommit(w)

GoesOn(w) ==
  \/ ReadArticles(w) \/ Search(w) \/ TooFewSources(w) \/ AlertGuardFails(w) \/ Fire(w)
  \/ FindChunks(w)
  \/ CommitAlerts(w) \/ Send(w) \/ CommitBriefing(w)

\* A step of a run goes on with it, or ends it in one of these ways.
LEMMA StepsOfRun ==
  ASSUME TypeOK, RunOK, NEW w \in Workers, AlertStep(w) \/ BriefingStep(w) \/ Fault(w)
  PROVE  GoesOn(w) \/ Ends(w)
<1>0. HoldingsOK(w)
  BY DEF RunOK
<1>1. CASE NoCandidates(w) \/ NothingFired(w) \/ NoContent(w)
  <2>1. InHand(w) = {}
    BY <1>0, <1>1, ElementsOfEmpty
    DEF NoCandidates, NothingFired, NoContent, AllLookedAt, HoldingsOK, InHand
  <2>2. Return(w) /\ UNCHANGED <<articlesRead, tables, mails>>
    BY <1>1 DEF NoCandidates, NothingFired, NoContent
  <2> QED BY <2>1, <2>2 DEF Return, articlesRead, tables, Ends, LetsGo
<1>2. CASE CommitSentAt(w) \/ CommitSentAtUnknown(w)
  BY <1>2 DEF CommitSentAt, CommitSentAtUnknown, Return, Fail, FailWith, articlesRead, Ends,
     NotesSentAt
<1>3. CASE MailBriefing(w) \/ MailBriefingUnknown(w) \/ SendUnknown(w)
  <2>1. outgoing[w] # <<>>
    BY <1>0, <1>3 DEF MailBriefing, MailBriefingUnknown, SendUnknown, HoldingsOK
  <2> QED BY <1>3, <2>1
      DEF MailBriefing, MailBriefingUnknown, SendUnknown, Return, Fail, FailWith, articlesRead,
          tables, Ends, MailsLast
<1>4. CASE CommitAlertsUnknown(w)
  BY <1>4 DEF CommitAlertsUnknown, FailWith, articlesRead, Ends, LosesAlertsCommit
<1>5. CASE CommitBriefingUnknown(w)
  BY <1>5 DEF CommitBriefingUnknown, FailWith, articlesRead, Ends, LosesBriefingCommit
<1>6. CASE Error(w) \/ Crash(w)
  BY <1>6 DEF Error, Crash, Fail, FailWith, articlesRead, tables, Ends, LetsGo
<1> QED
  BY <1>1, <1>2, <1>3, <1>4, <1>5, <1>6 DEF AlertStep, BriefingStep, Fault, GoesOn

\* What ending does to the memory of the runs.
LEMMA EndOfRun ==
  ASSUME TypeOK, NEW w \in Workers, Ends(w)
  PROVE  /\ pc' = [pc EXCEPT ![w] = "idle"] /\ job' = [job EXCEPT ![w] = NoMsg]
         /\ fired'[w] = <<>> /\ outgoing'[w] = <<>> /\ marked'[w] = {}
         /\ \A v \in Workers \ {w} :
              /\ pc'[v] = pc[v] /\ todo'[v] = todo[v] /\ hits'[v] = hits[v]
              /\ fired'[v] = fired[v] /\ outgoing'[v] = outgoing[v] /\ marked'[v] = marked[v]
         /\ ToSet(fired'[w]) = {} /\ ToSet(outgoing'[w]) = {}
<1>1. job' = [job EXCEPT ![w] = NoMsg]
  BY BrokerOps DEF TypeOK, Ends
<1> QED BY <1>1, ElementsOfEmpty DEF Ends, Forget, Goto, TypeOK

LEMMA EndsType ==
  ASSUME TypeOK, RunOK, NEW w \in Workers, Ends(w)
  PROVE  TypeOK'
<1>0. /\ alerts \subseteq Row /\ briefings \subseteq Ids /\ sentAt \subseteq IdsOf(alerts)
      /\ mails \in [Ids -> Nat] /\ abandoned \subseteq Committed
  BY DEF TypeOK
<1>1. CASE LetsGo(w) \/ NotesSentAt(w)
  BY <1>0, <1>1, EndType DEF Ends, LetsGo, NotesSentAt
<1>2. CASE MailsLast(w)
  <2>1. mails' \in [Ids -> Nat]
    BY <1>0, <1>2, HeldCommitted, OneMoreMail DEF MailsLast
  <2> QED BY <1>0, <1>2, <2>1, EndType DEF Ends, MailsLast
<1>3. CASE LosesAlertsCommit(w)
  <2>1. alerts' \subseteq Row /\ alerts \subseteq alerts'
    BY <1>0, <1>3, FiredType DEF LosesAlertsCommit
  <2>2. IdsOf(ToSet(fired[w])) \subseteq Committed' /\ Committed \subseteq Committed'
    BY <1>3 DEF LosesAlertsCommit, Committed, IdsOf
  <2>3. abandoned' \subseteq abandoned \cup InHand(w) \cup (Committed' \ Committed)
                             \cup (IdsOf(ToSet(fired[w])) \cap Committed)
    BY <1>3, <2>2 DEF LosesAlertsCommit
  <2>4. BrokerTypeOK' /\ RunTypeOK'
    BY BrokerOps, ForgetType DEF Ends, TypeOK, RunTypeOK
  <2>5. sentAt' \subseteq IdsOf(alerts')
    BY <1>0, <1>3, <2>1 DEF LosesAlertsCommit, IdsOf
  <2>6. abandoned' \subseteq Committed'
    BY <1>0, <1>3, <2>2, HeldCommitted DEF LosesAlertsCommit
  <2> QED BY <1>0, <1>3, <2>1, <2>4, <2>5, <2>6 DEF Ends, LosesAlertsCommit, TypeOK, RunTypeOK
<1>4. CASE LosesBriefingCommit(w)
  <2>1. PICK id \in FreeIds : /\ briefings' = briefings \cup {id}
                              /\ UNCHANGED <<alerts, sentAt, mails>>
                              /\ abandoned' = abandoned \cup InHand(w) \cup {id}
    BY <1>4 DEF LosesBriefingCommit
  <2>2. id \in Ids \ Committed /\ id \in Committed'
    BY <2>1 DEF FreeIds, Committed
  <2>3. UNCHANGED <<stored, aged>>
    BY DEF Ends
  <2> QED BY <1>0, <2>1, <2>2, <2>3, EndType DEF Ends
<1> QED BY <1>1, <1>2, <1>3, <1>4 DEF Ends

-----------------------------------------------------------------------------
(* Ids *)

\* What the other runs remember is left alone by a run that goes on.
LEMMA OthersKept ==
  ASSUME TypeOK, NEW w \in Workers, GoesOn(w)
  PROVE  \A v \in Workers \ {w} :
           /\ pc'[v] = pc[v] /\ todo'[v] = todo[v] /\ hits'[v] = hits[v] /\ job'[v] = job[v]
           /\ fired'[v] = fired[v] /\ outgoing'[v] = outgoing[v] /\ marked'[v] = marked[v]
BY DEF TypeOK, GoesOn, ReadArticles, Search, TooFewSources, AlertGuardFails, Fire, FindChunks,
       CommitAlerts, Send, CommitBriefing, NextCandidate, Goto, brokerVars

\* IdsOK holds on as long as no row is new.
LEMMA IdsKept ==
  ASSUME IdsOK, TypeOK, NEW w \in Workers, UNCHANGED <<alerts, briefings>>,
         fired'[w] = fired[w] \/ fired'[w] = <<>>,
         \A v \in Workers \ {w} : fired'[v] = fired[v]
  PROVE  IdsOK'
<1> DEFINE F(v) == IdsOf(ToSet(fired[v]))
           G(v) == IdsOf(ToSet(fired'[v]))
<1>1. \A v \in Workers : G(v) = F(v) \/ G(v) = {}
  BY ElementsOfEmpty DEF IdsOf
<1>2. Committed' = Committed
  BY DEF Committed, IdsOf
<1>3. ASSUME NEW v \in Workers PROVE IsInjective(FiredIds(v))'
  <2>1. CASE fired'[v] = fired[v]
    BY <2>1 DEF IdsOK, FiredIds, IsInjective
  <2>2. CASE fired'[v] = <<>>
    <3>1. DOMAIN FiredIds(v)' = {}
      BY <2>2 DEF FiredIds
    <3> QED BY <3>1 DEF IsInjective
  <2> QED BY <2>1, <2>2
<1>4. /\ IdsOf(alerts) \cap briefings = {}
      /\ \A v \in Workers : F(v) \cap Committed = {}
      /\ \A u, v \in Workers : u # v => F(u) \cap F(v) = {}
  BY DEF IdsOK
<1>5. /\ IdsOf(alerts') \cap briefings' = {}
      /\ \A v \in Workers : G(v) \cap Committed' = {}
      /\ \A u, v \in Workers : u # v => G(u) \cap G(v) = {}
  <2> HIDE DEF F, G
  <2> QED BY <1>1, <1>2, <1>4
<1> QED BY <1>3, <1>5 DEF IdsOK

\* So it does when a run flushes an alert with a free id,
LEMMA IdsFired ==
  ASSUME IdsOK, TypeOK, NEW w \in Workers, UNCHANGED <<alerts, briefings>>,
         NEW row \in Row, row.id \in FreeIds, fired' = [fired EXCEPT ![w] = Append(@, row)]
  PROVE  IdsOK'
<1> DEFINE F(v) == IdsOf(ToSet(fired[v]))
           G(v) == IdsOf(ToSet(fired'[v]))
<1>0. fired \in [Workers -> Seq(Row)] /\ fired[w] \in Seq(Row)
  BY DEF TypeOK
<1>1. fired'[w] = Append(fired[w], row) /\ \A v \in Workers \ {w} : fired'[v] = fired[v]
  BY <1>0
<1>2. G(w) = F(w) \cup {row.id} /\ \A v \in Workers \ {w} : G(v) = F(v)
  BY <1>0, <1>1, ElementsOfAppend DEF IdsOf
<1>3. Committed' = Committed
  BY DEF Committed, IdsOf
<1>4. /\ IdsOf(alerts) \cap briefings = {}
      /\ \A v \in Workers : F(v) \cap Committed = {} /\ IsInjective(FiredIds(v))
      /\ \A u, v \in Workers : u # v => F(u) \cap F(v) = {}
  BY DEF IdsOK
<1>5. row.id \notin Committed /\ \A v \in Workers : row.id \notin F(v)
  BY DEF FreeIds
<1>6. IsInjective(FiredIds(w))'
  <2>1. /\ Len(fired'[w]) = Len(fired[w]) + 1 /\ fired'[w][Len(fired[w]) + 1] = row
        /\ \A i \in 1..Len(fired[w]) : fired'[w][i] = fired[w][i]
        /\ fired'[w] \in Seq(Row)
    BY <1>0, <1>1, AppendProperties
  <2>2. /\ DOMAIN fired[w] = 1..Len(fired[w]) /\ Len(fired[w]) \in Nat
        /\ DOMAIN fired'[w] = 1..(Len(fired[w]) + 1)
    BY <1>0, <2>1, LenProperties
  <2>3. \A i \in DOMAIN fired[w] : fired[w][i].id # row.id
    BY <1>5 DEF IdsOf, ToSet
  <2>4. \A i \in DOMAIN fired'[w] : (i \in DOMAIN fired[w] /\ fired'[w][i] = fired[w][i])
                                    \/ (i = Len(fired[w]) + 1 /\ fired'[w][i] = row)
    BY <2>1, <2>2
  <2>5. \A i, j \in DOMAIN fired[w] : fired[w][i].id = fired[w][j].id => i = j
    BY <1>4 DEF FiredIds, IsInjective
  <2>6. \A i, j \in DOMAIN fired'[w] : fired'[w][i].id = fired'[w][j].id => i = j
    BY <2>3, <2>4, <2>5
  <2> QED BY <2>6 DEF FiredIds, IsInjective
<1>7. ASSUME NEW v \in Workers \ {w} PROVE IsInjective(FiredIds(v))'
  <2>1. FiredIds(v)' = FiredIds(v)
    BY <1>1 DEF FiredIds
  <2> QED BY <1>4, <2>1
<1>8. /\ IdsOf(alerts') \cap briefings' = {}
      /\ \A v \in Workers : G(v) \cap Committed' = {}
      /\ \A u, v \in Workers : u # v => G(u) \cap G(v) = {}
  <2>1. IdsOf(alerts') \cap briefings' = {}
    BY <1>4
  <2> HIDE DEF F, G
  <2>2. \A v \in Workers : G(v) \cap Committed' = {}
    BY <1>2, <1>3, <1>4, <1>5
  <2>3. \A u, v \in Workers : u # v => G(u) \cap G(v) = {}
    BY <1>2, <1>4, <1>5
  <2> QED BY <2>1, <2>2, <2>3
<1> QED BY <1>6, <1>7, <1>8 DEF IdsOK

\* when it commits its alerts,
LEMMA IdsAlerted ==
  ASSUME IdsOK, TypeOK, NEW w \in Workers, UNCHANGED briefings,
         alerts' = alerts \cup ToSet(fired[w]), fired'[w] = <<>>,
         \A v \in Workers \ {w} : fired'[v] = fired[v]
  PROVE  IdsOK'
<1> DEFINE F(v) == IdsOf(ToSet(fired[v]))
           G(v) == IdsOf(ToSet(fired'[v]))
<1>1. G(w) = {} /\ \A v \in Workers \ {w} : G(v) = F(v)
  BY ElementsOfEmpty DEF IdsOf
<1>2. IdsOf(alerts') = IdsOf(alerts) \cup F(w)
  BY DEF IdsOf
<1>3. /\ IdsOf(alerts) \cap briefings = {}
      /\ \A v \in Workers : F(v) \cap Committed = {} /\ IsInjective(FiredIds(v))
      /\ \A u, v \in Workers : u # v => F(u) \cap F(v) = {}
  BY DEF IdsOK
<1>4. ASSUME NEW v \in Workers PROVE IsInjective(FiredIds(v))'
  <2>1. CASE v = w
    <3>1. DOMAIN FiredIds(w)' = {}
      BY DEF FiredIds
    <3> QED BY <2>1, <3>1 DEF IsInjective
  <2>2. CASE v # w
    <3>1. FiredIds(v)' = FiredIds(v)
      BY <2>2 DEF FiredIds
    <3> QED BY <1>3, <3>1
  <2> QED BY <2>1, <2>2
<1>5. Committed = IdsOf(alerts) \cup briefings /\ Committed' = IdsOf(alerts') \cup briefings'
  BY DEF Committed
<1>6. /\ IdsOf(alerts') \cap briefings' = {}
      /\ \A v \in Workers : G(v) \cap Committed' = {}
      /\ \A u, v \in Workers : u # v => G(u) \cap G(v) = {}
  <2>1. F(w) \cap briefings = {}
    BY <1>3, <1>5
  <2>2. IdsOf(alerts') \cap briefings' = {}
    BY <1>2, <1>3, <2>1
  <2> HIDE DEF F, G
  <2>3. \A v \in Workers : G(v) \cap Committed' = {}
    BY <1>1, <1>2, <1>3, <1>5
  <2>4. \A u, v \in Workers : u # v => G(u) \cap G(v) = {}
    BY <1>1, <1>3
  <2> QED BY <2>2, <2>3, <2>4
<1> QED BY <1>4, <1>6 DEF IdsOK

\* and when it commits a briefing with a free id.
LEMMA IdsBriefed ==
  ASSUME IdsOK, TypeOK, NEW w \in Workers, UNCHANGED alerts, NEW id \in FreeIds,
         briefings' = briefings \cup {id}, fired'[w] = fired[w] \/ fired'[w] = <<>>,
         \A v \in Workers \ {w} : fired'[v] = fired[v]
  PROVE  IdsOK'
<1> DEFINE F(v) == IdsOf(ToSet(fired[v]))
           G(v) == IdsOf(ToSet(fired'[v]))
<1>1. \A v \in Workers : G(v) = F(v) \/ G(v) = {}
  BY ElementsOfEmpty DEF IdsOf
<1>2. /\ IdsOf(alerts) \cap briefings = {}
      /\ \A v \in Workers : F(v) \cap Committed = {} /\ IsInjective(FiredIds(v))
      /\ \A u, v \in Workers : u # v => F(u) \cap F(v) = {}
  BY DEF IdsOK
<1>3. ASSUME NEW v \in Workers PROVE IsInjective(FiredIds(v))'
  <2>1. CASE fired'[v] = fired[v]
    <3>1. FiredIds(v)' = FiredIds(v)
      BY <2>1 DEF FiredIds
    <3> QED BY <1>2, <3>1 DEF IsInjective
  <2>2. CASE fired'[v] = <<>>
    <3>1. DOMAIN FiredIds(v)' = {}
      BY <2>2 DEF FiredIds
    <3> QED BY <3>1 DEF IsInjective
  <2> QED BY <2>1, <2>2
<1>4. id \notin Committed /\ \A v \in Workers : id \notin F(v)
  BY DEF FreeIds
<1>5. /\ Committed = IdsOf(alerts) \cup briefings /\ Committed' = IdsOf(alerts') \cup briefings'
      /\ IdsOf(alerts') = IdsOf(alerts)
  BY DEF Committed
<1>6. /\ IdsOf(alerts') \cap briefings' = {}
      /\ \A v \in Workers : G(v) \cap Committed' = {}
      /\ \A u, v \in Workers : u # v => G(u) \cap G(v) = {}
  <2> HIDE DEF F, G
  <2> QED BY <1>1, <1>2, <1>4, <1>5
<1> QED BY <1>3, <1>6 DEF IdsOK

\* Every step of a run keeps the ids apart.
LEMMA StepIds ==
  ASSUME TypeOK, RunOK, IdsOK, NEW w \in Workers, GoesOn(w) \/ Ends(w)
  PROVE  IdsOK'
<1>0. fired \in [Workers -> Seq(Row)]
  BY DEF TypeOK
<1>1. CASE ReadArticles(w) \/ Search(w) \/ TooFewSources(w) \/ AlertGuardFails(w) \/ FindChunks(w)
           \/ Send(w)
  <2>1. UNCHANGED <<alerts, briefings, fired>>
    BY <1>1 DEF ReadArticles, Search, TooFewSources, AlertGuardFails, FindChunks, Send, tables
  <2> QED BY <2>1, IdsKept
<1>2. CASE Fire(w)
  <2> DEFINE row(id) == [id |-> id, article |-> Head(todo[w]),
                         sources |-> SourceCount(Head(todo[w]), hits[w]),
                         links |-> Links(Head(todo[w]), hits[w])]
  <2>1. PICK id \in FreeIds : fired' = [fired EXCEPT ![w] = Append(@, row(id))]
    BY <1>2 DEF Fire
  <2>2. todo[w] \in Seq(Articles) /\ todo[w] # <<>> /\ hits[w] \in Seq(Articles)
        /\ MinSources <= SourceCount(Head(todo[w]), hits[w])
    BY <1>2 DEF Fire, TypeOK, RunOK, EvidenceOK
  <2>3. row(id) \in Row /\ row(id).id = id
    BY <2>2, FiredConfirmed, HeadTailProperties DEF FreeIds
  <2>4. UNCHANGED <<alerts, briefings>>
    BY <1>2 DEF Fire, tables
  <2> HIDE DEF row
  <2> QED BY <2>1, <2>3, <2>4, IdsFired
<1>3. CASE CommitAlerts(w)
  BY <1>0, <1>3, IdsAlerted DEF CommitAlerts
<1>4. CASE CommitBriefing(w)
  BY <1>4, IdsBriefed DEF CommitBriefing
<1>5. CASE Ends(w)
  <2>1. fired'[w] = <<>> /\ \A v \in Workers \ {w} : fired'[v] = fired[v]
    BY <1>5, EndOfRun
  <2>2. CASE LetsGo(w) \/ NotesSentAt(w) \/ MailsLast(w)
    BY <2>1, <2>2, IdsKept DEF LetsGo, NotesSentAt, MailsLast
  <2>3. CASE LosesAlertsCommit(w)
    BY <2>1, <2>3, IdsAlerted DEF LosesAlertsCommit
  <2>4. CASE LosesBriefingCommit(w)
    BY <2>1, <2>4, IdsBriefed DEF LosesBriefingCommit
  <2> QED BY <1>5, <2>2, <2>3, <2>4 DEF Ends
<1> QED BY <1>1, <1>2, <1>3, <1>4, <1>5 DEF GoesOn

-----------------------------------------------------------------------------
(* What a run holds *)

\* The tables only grow.
LEMMA TablesGrow ==
  ASSUME NEW w \in Workers, GoesOn(w) \/ Ends(w)
  PROVE  alerts \subseteq alerts' /\ briefings \subseteq briefings'
         /\ IdsOf(alerts) \subseteq IdsOf(alerts') /\ Committed \subseteq Committed'
<1>1. CASE GoesOn(w)
  BY <1>1 DEF GoesOn, ReadArticles, Search, TooFewSources, AlertGuardFails, Fire, FindChunks,
              CommitAlerts, Send, CommitBriefing, tables, Committed, IdsOf
<1>2. CASE Ends(w)
  BY <1>2 DEF Ends, LetsGo, NotesSentAt, MailsLast, LosesAlertsCommit, LosesBriefingCommit,
              Committed, IdsOf
<1> QED BY <1>1, <1>2

\* A run that did not move holds what it held.
LEMMA OthersRunOK ==
  ASSUME RunOK, NEW v \in Workers, IdsOf(alerts) \subseteq IdsOf(alerts'),
         briefings \subseteq briefings', pc'[v] = pc[v], job'[v] = job[v], todo'[v] = todo[v],
         hits'[v] = hits[v], fired'[v] = fired[v], outgoing'[v] = outgoing[v],
         marked'[v] = marked[v]
  PROVE  BusyOK(v)' /\ HoldingsOK(v)' /\ EvidenceOK(v)'
<1>0. BusyOK(v) /\ HoldingsOK(v) /\ EvidenceOK(v)
  BY DEF RunOK
<1>1. BusyOK(v)'
  BY <1>0 DEF BusyOK, Idle
<1>2. HoldingsOK(v)'
  BY <1>0 DEF HoldingsOK
<1>3. EvidenceOK(v)'
  BY <1>0 DEF EvidenceOK, SourceCount, Corroborating, Confirmed
<1> QED BY <1>1, <1>2, <1>3

LEMMA StepRunOK ==
  ASSUME TypeOK, RunOK, IdsOK, NEW w \in Workers, GoesOn(w) \/ Ends(w)
  PROVE  RunOK'
<1>0. /\ pc \in [Workers -> Labels] /\ todo \in [Workers -> Seq(Articles)]
      /\ hits \in [Workers -> Seq(Articles)] /\ fired \in [Workers -> Seq(Row)]
      /\ outgoing \in [Workers -> Seq(Ids)] /\ marked \in [Workers -> SUBSET Ids]
      /\ job \in [Workers -> Msgs \cup {NoMsg}]
      /\ BusyOK(w) /\ HoldingsOK(w) /\ EvidenceOK(w)
  BY DEF TypeOK, BrokerTypeOK, RunOK
<1>a. IsInjective(<<>>) /\ ToSet(<<>>) = {}
  BY ElementsOfEmpty DEF IsInjective, ToSet
<1>b. IdsOf(alerts) \subseteq IdsOf(alerts') /\ briefings \subseteq briefings'
  BY TablesGrow
<1> SUFFICES BusyOK(w)' /\ HoldingsOK(w)' /\ EvidenceOK(w)'
  <2>1. ASSUME NEW v \in Workers \ {w} PROVE BusyOK(v)' /\ HoldingsOK(v)' /\ EvidenceOK(v)'
    <3>1. /\ pc'[v] = pc[v] /\ todo'[v] = todo[v] /\ hits'[v] = hits[v] /\ job'[v] = job[v]
          /\ fired'[v] = fired[v] /\ outgoing'[v] = outgoing[v] /\ marked'[v] = marked[v]
      BY <1>0, OthersKept, EndOfRun
    <3> QED BY <1>b, <3>1, OthersRunOK
  <2> QED BY <2>1 DEF RunOK
<1>1. CASE Ends(w)
  <2>1. /\ pc'[w] = "idle" /\ job'[w] = NoMsg /\ fired'[w] = <<>> /\ outgoing'[w] = <<>>
        /\ marked'[w] = {}
    BY <1>0, <1>1, EndOfRun
  <2> QED BY <1>a, <2>1 DEF BusyOK, Idle, HoldingsOK, EvidenceOK
<1>2. CASE GoesOn(w)
  <2>1. BusyOK(w)'
    BY <1>0, <1>2
    DEF GoesOn, ReadArticles, Search, TooFewSources, AlertGuardFails, Fire, FindChunks,
        CommitAlerts, Send, CommitBriefing, NextCandidate, Goto, AllLookedAt, brokerVars,
        BusyOK, Idle
  <2>2. HoldingsOK(w)'
    <3>1. ASSUME pc[w] \notin {"send", "mail"}, pc'[w] \notin {"send", "mail"},
                 UNCHANGED <<outgoing, marked>>
          PROVE  HoldingsOK(w)'
      BY <1>0, <1>a, <3>1 DEF HoldingsOK
    <3>2. CASE ReadArticles(w) \/ Search(w) \/ TooFewSources(w) \/ AlertGuardFails(w)
               \/ Fire(w) \/ FindChunks(w)
      <4>1. pc[w] \notin {"send", "mail"} /\ pc'[w] \notin {"send", "mail"}
            /\ UNCHANGED <<outgoing, marked>>
        BY <1>0, <3>2 DEF ReadArticles, Search, TooFewSources, AlertGuardFails, Fire,
           FindChunks, NextCandidate, Goto
      <4> QED BY <3>1, <4>1
    <3>3. CASE CommitAlerts(w)
      <4>1. outgoing'[w] = FiredIds(w) /\ pc'[w] = "send" /\ marked'[w] = {}
        BY <1>0, <3>3 DEF CommitAlerts, AllLookedAt, Goto, HoldingsOK
      <4>2. IsInjective(FiredIds(w)) /\ ToSet(FiredIds(w)) = IdsOf(ToSet(fired[w]))
        BY FiredType DEF IdsOK
      <4>3. IdsOf(ToSet(fired[w])) \subseteq IdsOf(alerts')
        BY <3>3 DEF CommitAlerts, IdsOf
      <4> QED BY <4>1, <4>2, <4>3 DEF HoldingsOK
    <3>4. CASE Send(w)
      <4>1. /\ outgoing[w] \in Seq(Ids) /\ outgoing[w] # <<>>
            /\ outgoing'[w] = Tail(outgoing[w])
            /\ marked'[w] = marked[w] \cup {Head(outgoing[w])}
            /\ pc[w] = "send" /\ pc' = pc /\ alerts' = alerts
        BY <1>0, <3>4 DEF Send, tables
      <4>2. IsInjective(outgoing'[w])
            /\ ToSet(outgoing[w]) = {Head(outgoing[w])} \cup ToSet(outgoing'[w])
        BY <1>0, <4>1, DistinctTail, ElementsOfTail DEF HoldingsOK
      <4> QED BY <1>0, <4>1, <4>2 DEF HoldingsOK
    <3>5. CASE CommitBriefing(w)
      <4>1. PICK id \in FreeIds : /\ briefings' = briefings \cup {id}
                                  /\ outgoing' = [outgoing EXCEPT ![w] = <<id>>]
        BY <3>5 DEF CommitBriefing
      <4>2. outgoing'[w] = <<id>> /\ id \in briefings' /\ pc'[w] = "mail" /\ marked'[w] = {}
        BY <1>0, <3>5, <4>1 DEF CommitBriefing, Goto, HoldingsOK
      <4>3. IsInjective(<<id>>)
        BY DEF IsInjective
      <4> QED BY <4>2, <4>3 DEF HoldingsOK
    <3> QED BY <1>2, <3>2, <3>3, <3>4, <3>5 DEF GoesOn
  <2>3. EvidenceOK(w)'
    <3>1. ASSUME pc'[w] # "guard", fired'[w] = fired[w] \/ fired'[w] = <<>>
          PROVE  EvidenceOK(w)'
      BY <1>0, <1>a, <3>1 DEF EvidenceOK, Confirmed
    <3>2. CASE ReadArticles(w) \/ TooFewSources(w) \/ AlertGuardFails(w)
               \/ FindChunks(w) \/ CommitAlerts(w) \/ Send(w) \/ CommitBriefing(w)
      <4>1. pc'[w] # "guard" /\ (fired'[w] = fired[w] \/ fired'[w] = <<>>)
        BY <1>0, <3>2 DEF ReadArticles, TooFewSources, AlertGuardFails, CommitAlerts, Send,
           FindChunks, CommitBriefing, NextCandidate, Goto
      <4> QED BY <3>1, <4>1
    <3>3. CASE Search(w)
      <4>1. PICK found \in Found : /\ SourceCount(Head(todo[w]), found) >= MinSources
                                   /\ hits' = [hits EXCEPT ![w] = found]
        BY <3>3 DEF Search
      <4>2. hits'[w] = found /\ todo'[w] = todo[w] /\ todo[w] # <<>> /\ fired'[w] = fired[w]
        BY <1>0, <3>3, <4>1 DEF Search
      <4>3. SourceCount(Head(todo[w]), found) \in Nat /\ MinSources \in Nat
        BY <1>0, <4>2, CorroboratingElements, HeadTailProperties, OutboundAssumption DEF Found
      <4>4. MinSources <= SourceCount(Head(todo[w]), hits[w])'
        BY <4>1, <4>2, <4>3 DEF SourceCount, Corroborating
      <4> QED BY <1>0, <4>2, <4>4 DEF EvidenceOK, Confirmed
    <3>4. CASE Fire(w)
      <4> DEFINE row(id) == [id |-> id, article |-> Head(todo[w]),
                             sources |-> SourceCount(Head(todo[w]), hits[w]),
                             links |-> Links(Head(todo[w]), hits[w])]
      <4>1. PICK id \in FreeIds : fired' = [fired EXCEPT ![w] = Append(@, row(id))]
        BY <3>4 DEF Fire
      <4>2. todo[w] \in Seq(Articles) /\ todo[w] # <<>> /\ hits[w] \in Seq(Articles)
            /\ MinSources <= SourceCount(Head(todo[w]), hits[w])
        BY <1>0, <3>4 DEF Fire, EvidenceOK
      <4>3. row(id) \in Row /\ Confirmed(row(id))
        BY <4>2, FiredConfirmed, HeadTailProperties DEF FreeIds
      <4> HIDE DEF row
      <4>4. ToSet(fired'[w]) = ToSet(fired[w]) \cup {row(id)}
        <5>1. fired'[w] = Append(fired[w], row(id))
          BY <1>0, <4>1
        <5> QED BY <1>0, <4>3, <5>1, ElementsOfAppend
      <4>5. pc'[w] = "search"
        BY <1>0, <3>4 DEF Fire, NextCandidate, Goto
      <4> QED BY <1>0, <4>3, <4>4, <4>5 DEF EvidenceOK, Confirmed
    <3> QED BY <1>2, <3>2, <3>3, <3>4 DEF GoesOn
  <2> QED BY <2>1, <2>2, <2>3
<1> QED BY <1>1, <1>2

-----------------------------------------------------------------------------
(* Mails *)

\* A step that sends no mail keeps the mails right when the rows it takes on
\* are new.
LEMMA NothingMailed ==
  ASSUME TypeOK, RunOK, MailsOK, NEW w \in Workers, mails' = mails,
         Committed \subseteq Committed', sentAt' \subseteq sentAt \cup marked[w],
         marked'[w] \subseteq marked[w],
         \/ ToSet(outgoing'[w]) \subseteq ToSet(outgoing[w])
         \/ ToSet(outgoing'[w]) \subseteq Ids \ Committed,
         \A v \in Workers \ {w} : outgoing'[v] = outgoing[v] /\ marked'[v] = marked[v]
  PROVE  MailsOK'
<1> DEFINE Out(v) == ToSet(outgoing[v])
           Out2(v) == ToSet(outgoing'[v])
<1>1. /\ \A i \in Ids : mails[i] \in {0, 1} /\ (mails[i] = 1 => i \in Committed)
      /\ \A i \in sentAt : mails[i] = 1
      /\ \A v \in Workers : (\A i \in Out(v) : mails[i] = 0) /\ (\A i \in marked[v] : mails[i] = 1)
      /\ \A u, v \in Workers : u # v => Out(u) \cap Out(v) = {}
  BY DEF MailsOK
<1>2. \A v \in Workers : Out(v) \subseteq Committed
  BY HeldCommitted DEF InHand
<1>3. \A v \in Workers \ {w} : Out2(v) = Out(v)
  OBVIOUS
<1>4. Out2(w) \subseteq Out(w) \/ Out2(w) \subseteq Ids \ Committed
  OBVIOUS
<1> HIDE DEF Out, Out2
<1>5. \A i \in Ids : mails[i] \in {0, 1} /\ (mails[i] = 1 => i \in Committed')
  BY <1>1
<1>6. \A i \in sentAt' : mails[i] = 1
  BY <1>1
<1>7. \A v \in Workers : \A i \in marked'[v] : mails[i] = 1
  BY <1>1
<1>8. \A v \in Workers : \A i \in Out2(v) : mails[i] = 0
  BY <1>1, <1>3, <1>4
<1>9. \A u, v \in Workers : u # v => Out2(u) \cap Out2(v) = {}
  BY <1>1, <1>2, <1>3, <1>4
<1> QED BY <1>5, <1>6, <1>7, <1>8, <1>9 DEF MailsOK, Out2

\* A mail made from the next row to be mailed is the first made from it.
LEMMA OneMailed ==
  ASSUME TypeOK, RunOK, MailsOK, NEW w \in Workers, outgoing[w] # <<>>,
         AddMail(Head(outgoing[w])), Committed' = Committed, sentAt' = sentAt,
         marked'[w] \subseteq marked[w] \cup {Head(outgoing[w])},
         ToSet(outgoing'[w]) \subseteq ToSet(outgoing[w]) \ {Head(outgoing[w])},
         \A v \in Workers \ {w} : outgoing'[v] = outgoing[v] /\ marked'[v] = marked[v]
  PROVE  MailsOK' /\ mails[Head(outgoing[w])] = 0 /\ mails'[Head(outgoing[w])] = 1
         /\ Head(outgoing[w]) \in Committed
         /\ \A i \in Ids \ {Head(outgoing[w])} : mails'[i] = mails[i]
<1> DEFINE Out(v) == ToSet(outgoing[v])
           Out2(v) == ToSet(outgoing'[v])
           h == Head(outgoing[w])
<1>1. /\ \A i \in Ids : mails[i] \in {0, 1} /\ (mails[i] = 1 => i \in Committed)
      /\ \A i \in sentAt : mails[i] = 1
      /\ \A v \in Workers : (\A i \in Out(v) : mails[i] = 0) /\ (\A i \in marked[v] : mails[i] = 1)
      /\ \A u, v \in Workers : u # v => Out(u) \cap Out(v) = {}
  BY DEF MailsOK
<1>2. h \in Ids /\ h \in Out(w) /\ Committed \subseteq Ids /\ sentAt \subseteq Committed
      /\ \A v \in Workers : Out(v) \subseteq Committed /\ marked[v] \subseteq Committed
  BY HeldCommitted DEF InHand, TypeOK, Committed
<1>3. \A v \in Workers \ {w} : Out2(v) = Out(v)
  OBVIOUS
<1>4. Out2(w) \subseteq Out(w) \ {h} /\ marked'[w] \subseteq marked[w] \cup {h}
  OBVIOUS
<1>5. mails' = [mails EXCEPT ![h] = @ + 1] /\ mails \in [Ids -> Nat]
  BY DEF AddMail, TypeOK
<1> HIDE DEF Out, Out2, h
<1>6. mails[h] = 0
  BY <1>1, <1>2
<1>7. mails'[h] = 1 /\ \A i \in Ids \ {h} : mails'[i] = mails[i]
  BY <1>2, <1>5, <1>6
<1>8. h \in Committed
  BY <1>2
<1>9. \A i \in Ids : mails'[i] \in {0, 1} /\ (mails'[i] = 1 => i \in Committed')
  BY <1>1, <1>7, <1>8
<1>10. \A i \in sentAt' : mails'[i] = 1
  BY <1>1, <1>2, <1>7
<1>11. \A v \in Workers : \A i \in marked'[v] : mails'[i] = 1
  BY <1>1, <1>2, <1>4, <1>7
<1>12. \A v \in Workers : h \notin Out2(v)
  BY <1>1, <1>2, <1>3, <1>4
<1>13. \A v \in Workers : \A i \in Out2(v) : mails'[i] = 0
  <2>1. \A v \in Workers : Out2(v) \subseteq Out(v)
    BY <1>3, <1>4
  <2> QED BY <1>1, <1>2, <1>7, <1>12, <2>1
<1>14. \A u, v \in Workers : u # v => Out2(u) \cap Out2(v) = {}
  BY <1>1, <1>3, <1>4
<1> QED BY <1>6, <1>7, <1>8, <1>9, <1>10, <1>11, <1>13, <1>14 DEF MailsOK, Out2, h

\* What each kind of step does to the rows, the mails and the notes.
LEMMA StepMails ==
  ASSUME TypeOK, RunOK, IdsOK, MailsOK, SentAtIsTrue, UnmailedIsAccounted,
         NEW w \in Workers, GoesOn(w) \/ Ends(w)
  PROVE  MailsOK' /\ SentAtIsTrue' /\ UnmailedIsAccounted'
<1> DEFINE h == Head(outgoing[w])
<1>0. /\ outgoing \in [Workers -> Seq(Ids)] /\ marked \in [Workers -> SUBSET Ids]
      /\ HoldingsOK(w) /\ mails \in [Ids -> Nat]
  BY DEF TypeOK, RunOK
<1>a. /\ \A v \in Workers \ {w} : outgoing'[v] = outgoing[v] /\ marked'[v] = marked[v]
      /\ \A v \in Workers \ {w} : InHand(v)' = InHand(v)
  <2>1. \A v \in Workers \ {w} : outgoing'[v] = outgoing[v] /\ marked'[v] = marked[v]
    BY OthersKept, EndOfRun
  <2> QED BY <2>1 DEF InHand
<1>b. Committed \subseteq Committed' /\ Committed \subseteq Ids /\ IdsOf(alerts) \subseteq Committed
      /\ ToSet(outgoing[w]) \subseteq Committed /\ marked[w] \subseteq IdsOf(alerts)
      /\ IdsOf(alerts) \cap briefings = {}
  BY TablesGrow, HeldCommitted DEF InHand, Committed, HoldingsOK, RunOK, IdsOK
<1>c. /\ \A i \in Committed : mails[i] = 1 \/ i \in abandoned \/ \E v \in Workers : i \in InHand(v)
      /\ \A i \in IdsOf(alerts) :
           /\ i \in sentAt => mails[i] = 1
           /\ mails[i] = 1 => i \in sentAt \cup abandoned \/ \E v \in Workers : i \in marked[v]
  BY DEF SentAtIsTrue, UnmailedIsAccounted
<1>d. ToSet(<<>>) = {} /\ \A i : ToSet(<<i>>) = {i}
  BY ElementsOfEmpty DEF ToSet
<1>e. \A i \in Ids : (mails[i] = 1 => i \in Committed) /\ mails[i] \in {0, 1}
  BY DEF MailsOK
<1>1. CASE ReadArticles(w) \/ Search(w) \/ TooFewSources(w) \/ AlertGuardFails(w) \/ Fire(w)
           \/ FindChunks(w)
  <2>1. UNCHANGED <<alerts, briefings, sentAt, mails, outgoing, marked, abandoned>>
    BY <1>1 DEF ReadArticles, Search, TooFewSources, AlertGuardFails, Fire, FindChunks, tables
  <2>2. Committed' = Committed /\ IdsOf(alerts') = IdsOf(alerts)
        /\ \A v \in Workers : InHand(v)' = InHand(v)
    BY <2>1 DEF Committed, IdsOf, InHand
  <2>3. MailsOK'
    BY <2>1, <2>2, NothingMailed
  <2> QED BY <2>1, <2>2, <2>3 DEF SentAtIsTrue, UnmailedIsAccounted
<1>2. CASE CommitAlerts(w)
  <2> DEFINE new == IdsOf(ToSet(fired[w]))
  <2>1. /\ UNCHANGED <<briefings, sentAt, mails, marked, abandoned>>
        /\ alerts' = alerts \cup ToSet(fired[w])
        /\ outgoing'[w] = FiredIds(w) /\ outgoing[w] = <<>>
    BY <1>0, <1>2 DEF CommitAlerts, AllLookedAt, HoldingsOK
  <2>2. new \cap Committed = {} /\ new \subseteq Ids /\ ToSet(outgoing'[w]) = new
    BY <2>1, FiredType, ElementsType DEF IdsOK
  <2>3. IdsOf(alerts') = IdsOf(alerts) \cup new /\ Committed' = Committed \cup new
    BY <2>1 DEF IdsOf, Committed
  <2>4. MailsOK'
    BY <1>a, <1>b, <2>1, <2>2, NothingMailed
  <2>5. InHand(w)' = new \cup marked[w] /\ InHand(w) = marked[w]
    BY <1>d, <2>1, <2>2 DEF InHand
  <2> HIDE DEF new
  <2>6. UnmailedIsAccounted'
    BY <1>a, <1>c, <2>1, <2>3, <2>5 DEF UnmailedIsAccounted
  <2>7. \A i \in new : mails[i] # 1 /\ i \notin sentAt
    <3>1. sentAt \subseteq Committed
      BY <1>b DEF TypeOK
    <3> QED BY <1>e, <2>2, <3>1
  <2>8. SentAtIsTrue'
    BY <1>a, <1>c, <2>1, <2>3, <2>7 DEF SentAtIsTrue
  <2> QED BY <2>4, <2>6, <2>8
<1>3. CASE CommitBriefing(w)
  <2>1. PICK id \in FreeIds : /\ briefings' = briefings \cup {id}
                              /\ outgoing' = [outgoing EXCEPT ![w] = <<id>>]
    BY <1>3 DEF CommitBriefing
  <2>2. id \in Ids \ Committed
    BY DEF FreeIds
  <2>3. /\ UNCHANGED <<alerts, sentAt, mails, marked, abandoned>>
        /\ outgoing'[w] = <<id>> /\ outgoing[w] = <<>>
    BY <1>0, <1>3, <2>1 DEF CommitBriefing, HoldingsOK
  <2>4. IdsOf(alerts') = IdsOf(alerts) /\ Committed' = Committed \cup {id}
    BY <2>1, <2>3 DEF IdsOf, Committed
  <2>5. ToSet(outgoing'[w]) = {id}
    BY <1>d, <2>3
  <2>6. MailsOK'
    BY <1>a, <1>b, <2>2, <2>3, <2>5, NothingMailed
  <2>7. InHand(w)' = {id} \cup marked[w] /\ InHand(w) = marked[w]
    BY <1>d, <2>3, <2>5 DEF InHand
  <2>8. UnmailedIsAccounted'
    BY <1>a, <1>c, <2>3, <2>4, <2>7 DEF UnmailedIsAccounted
  <2>9. SentAtIsTrue'
    BY <1>a, <1>c, <2>3, <2>4 DEF SentAtIsTrue
  <2> QED BY <2>6, <2>8, <2>9
<1>4. CASE Send(w)
  <2>1. /\ outgoing[w] # <<>> /\ AddMail(h) /\ UNCHANGED <<alerts, briefings, sentAt, abandoned>>
        /\ outgoing'[w] = Tail(outgoing[w]) /\ marked'[w] = marked[w] \cup {h}
    BY <1>0, <1>4 DEF Send, tables
  <2>2. /\ ToSet(outgoing[w]) = {h} \cup ToSet(outgoing'[w]) /\ h \notin ToSet(outgoing'[w])
    BY <1>0, <2>1, ElementsOfTail, DistinctTail DEF HoldingsOK
  <2>3. Committed' = Committed /\ IdsOf(alerts') = IdsOf(alerts)
    BY <2>1 DEF Committed, IdsOf
  <2>4. MailsOK' /\ mails[h] = 0 /\ mails'[h] = 1 /\ \A i \in Ids \ {h} : mails'[i] = mails[i]
    BY <1>a, <2>1, <2>2, <2>3, OneMailed
  <2>5. InHand(w) = {h} \cup ToSet(outgoing'[w]) \cup marked[w]
        /\ InHand(w)' = {h} \cup ToSet(outgoing'[w]) \cup marked[w]
    BY <2>1, <2>2 DEF InHand
  <2> HIDE DEF h
  <2>6. UnmailedIsAccounted'
    BY <1>a, <1>b, <1>c, <2>1, <2>3, <2>4, <2>5 DEF UnmailedIsAccounted
  <2>7. SentAtIsTrue'
    BY <1>a, <1>b, <1>c, <2>1, <2>3, <2>4 DEF SentAtIsTrue
  <2> QED BY <2>4, <2>6, <2>7
<1>5. ASSUME Ends(w)
      PROVE  ToSet(outgoing'[w]) = {} /\ marked'[w] = {} /\ InHand(w)' = {}
  BY <1>5, EndOfRun DEF InHand
<1>6. CASE Ends(w) /\ LetsGo(w)
  <2>1. /\ UNCHANGED <<alerts, briefings, sentAt, mails>>
        /\ abandoned' = abandoned \cup InHand(w) /\ marked[w] \subseteq InHand(w)
    BY <1>6 DEF LetsGo, InHand
  <2>2. Committed' = Committed /\ IdsOf(alerts') = IdsOf(alerts)
    BY <2>1 DEF Committed, IdsOf
  <2>3. MailsOK'
    BY <1>5, <1>6, <1>a, <2>1, <2>2, NothingMailed
  <2>4. UnmailedIsAccounted'
    BY <1>a, <1>c, <2>1, <2>2 DEF UnmailedIsAccounted
  <2>5. SentAtIsTrue'
    BY <1>a, <1>c, <2>1, <2>2 DEF SentAtIsTrue
  <2> QED BY <2>3, <2>4, <2>5
<1>7. CASE Ends(w) /\ NotesSentAt(w)
  <2>1. /\ UNCHANGED <<alerts, briefings, mails>> /\ sentAt' = sentAt \cup marked[w]
        /\ abandoned \subseteq abandoned' /\ InHand(w) = marked[w]
    BY <1>7, <1>d DEF NotesSentAt, InHand
  <2>2. Committed' = Committed /\ IdsOf(alerts') = IdsOf(alerts)
    BY <2>1 DEF Committed, IdsOf
  <2>3. \A i \in marked[w] : mails[i] = 1
    BY DEF MailsOK
  <2>4. MailsOK'
    BY <1>5, <1>7, <1>a, <2>1, <2>2, NothingMailed
  <2>5. UnmailedIsAccounted'
    BY <1>a, <1>c, <2>1, <2>2, <2>3 DEF UnmailedIsAccounted
  <2>6. SentAtIsTrue'
    BY <1>a, <1>c, <2>1, <2>2, <2>3 DEF SentAtIsTrue
  <2> QED BY <2>4, <2>5, <2>6
<1>8. CASE Ends(w) /\ MailsLast(w)
  <2>1. /\ outgoing[w] # <<>> /\ AddMail(h) /\ UNCHANGED <<alerts, briefings, sentAt>>
        /\ abandoned' = abandoned \cup InHand(w) \/ (pc[w] = "mail" /\ abandoned' = abandoned)
    BY <1>8 DEF MailsLast
  <2>2. Committed' = Committed /\ IdsOf(alerts') = IdsOf(alerts)
    BY <2>1 DEF Committed, IdsOf
  <2>3. /\ MailsOK' /\ mails[h] = 0 /\ mails'[h] = 1 /\ h \in Committed
        /\ \A i \in Ids \ {h} : mails'[i] = mails[i]
    BY <1>5, <1>8, <1>a, <2>1, <2>2, OneMailed
  <2>4. h \in ToSet(outgoing[w]) /\ h \in InHand(w) /\ marked[w] \subseteq InHand(w)
    BY <1>0, <2>1, ElementsType DEF InHand
  <2>5. pc[w] = "mail" => InHand(w) = {h} /\ h \in briefings /\ marked[w] = {}
    <3> SUFFICES ASSUME pc[w] = "mail"
                 PROVE  InHand(w) = {h} /\ h \in briefings /\ marked[w] = {}
      OBVIOUS
    <3>1. marked[w] = {} /\ \E i \in briefings : outgoing[w] = <<i>>
      BY <1>0 DEF HoldingsOK
    <3>2. PICK i \in briefings : outgoing[w] = <<i>>
      BY <3>1
    <3>3. h = i /\ ToSet(outgoing[w]) = {i}
      BY <1>d, <3>2
    <3> QED BY <3>1, <3>3 DEF InHand
  <2> HIDE DEF h
  <2>6. UnmailedIsAccounted'
    BY <1>a, <1>b, <1>c, <2>1, <2>2, <2>3, <2>5 DEF UnmailedIsAccounted
  <2>7. SentAtIsTrue'
    BY <1>a, <1>b, <1>c, <2>1, <2>2, <2>3, <2>4, <2>5 DEF SentAtIsTrue
  <2> QED BY <2>3, <2>6, <2>7
<1>9. CASE Ends(w) /\ LosesAlertsCommit(w)
  <2> DEFINE new == IdsOf(ToSet(fired[w]))
  <2>1. /\ UNCHANGED <<briefings, sentAt, mails>> /\ alerts' = alerts \cup ToSet(fired[w])
        /\ abandoned' = abandoned \cup InHand(w) \cup new /\ marked[w] \subseteq InHand(w)
    BY <1>9 DEF LosesAlertsCommit, InHand
  <2>2. new \cap Committed = {} /\ new \subseteq Ids
    BY FiredType, ElementsType DEF IdsOK
  <2>3. IdsOf(alerts') = IdsOf(alerts) \cup new /\ Committed' = Committed \cup new
    BY <2>1 DEF IdsOf, Committed
  <2>4. MailsOK'
    BY <1>5, <1>9, <1>a, <1>b, <2>1, NothingMailed
  <2>5. \A i \in new : mails[i] # 1 /\ i \notin sentAt
    <3>1. sentAt \subseteq Committed
      BY <1>b DEF TypeOK
    <3> QED BY <1>e, <2>2, <3>1
  <2> HIDE DEF new
  <2>6. UnmailedIsAccounted'
    BY <1>a, <1>c, <2>1, <2>3 DEF UnmailedIsAccounted
  <2>7. SentAtIsTrue'
    BY <1>a, <1>c, <2>1, <2>3, <2>5 DEF SentAtIsTrue
  <2> QED BY <2>4, <2>6, <2>7
<1>10. CASE Ends(w) /\ LosesBriefingCommit(w)
  <2>1. PICK id \in FreeIds : /\ briefings' = briefings \cup {id}
                              /\ UNCHANGED <<alerts, sentAt, mails>>
                              /\ abandoned' = abandoned \cup InHand(w) \cup {id}
    BY <1>10 DEF LosesBriefingCommit
  <2>2. id \in Ids \ Committed /\ marked[w] \subseteq InHand(w)
    BY DEF FreeIds, InHand
  <2>3. IdsOf(alerts') = IdsOf(alerts) /\ Committed' = Committed \cup {id}
    BY <2>1 DEF IdsOf, Committed
  <2>4. MailsOK'
    BY <1>5, <1>10, <1>a, <1>b, <2>1, NothingMailed
  <2>5. UnmailedIsAccounted'
    BY <1>a, <1>c, <2>1, <2>3 DEF UnmailedIsAccounted
  <2>6. SentAtIsTrue'
    BY <1>a, <1>c, <2>1, <2>2, <2>3 DEF SentAtIsTrue
  <2> QED BY <2>4, <2>5, <2>6
<1> QED
  BY <1>1, <1>2, <1>3, <1>4, <1>6, <1>7, <1>8, <1>9, <1>10 DEF GoesOn, Ends

-----------------------------------------------------------------------------
(* The theorems *)

Inv ==
  /\ TypeOK /\ RunOK /\ IdsOK /\ MailsOK
  /\ AlertsAreConfirmed /\ SentAtIsTrue /\ UnmailedIsAccounted

\* Only confirmed alerts are committed.
LEMMA StepConfirmed ==
  ASSUME RunOK, AlertsAreConfirmed, NEW w \in Workers, GoesOn(w) \/ Ends(w)
  PROVE  AlertsAreConfirmed'
<1>1. alerts' \subseteq alerts \cup ToSet(fired[w])
  <2>1. CASE GoesOn(w)
    BY <2>1 DEF GoesOn, ReadArticles, Search, TooFewSources, AlertGuardFails, Fire, FindChunks,
                CommitAlerts, Send, CommitBriefing, tables
  <2>2. CASE Ends(w)
    BY <2>2 DEF Ends, LetsGo, NotesSentAt, MailsLast, LosesAlertsCommit, LosesBriefingCommit
  <2> QED BY <2>1, <2>2
<1>2. \A a \in alerts \cup ToSet(fired[w]) : Confirmed(a)
  BY DEF RunOK, EvidenceOK, AlertsAreConfirmed, Confirmed
<1> QED BY <1>1, <1>2 DEF AlertsAreConfirmed, Confirmed

\* What leaves the rows, the mails and the memory of the runs alone keeps the
\* invariants about them.
LEMMA RowsKept ==
  ASSUME RunOK, IdsOK, MailsOK, AlertsAreConfirmed, SentAtIsTrue, UnmailedIsAccounted,
         UNCHANGED <<alerts, briefings, sentAt, mails, fired, outgoing, marked, abandoned>>
  PROVE  IdsOK' /\ MailsOK' /\ AlertsAreConfirmed' /\ SentAtIsTrue' /\ UnmailedIsAccounted'
<1>1. Committed' = Committed /\ IdsOf(alerts') = IdsOf(alerts)
      /\ (\A v \in Workers : FiredIds(v)' = FiredIds(v) /\ InHand(v)' = InHand(v))
  BY DEF Committed, IdsOf, FiredIds, InHand
<1>2. IdsOK'
  BY <1>1 DEF IdsOK
<1>3. MailsOK'
  BY <1>1 DEF MailsOK
<1>4. SentAtIsTrue' /\ UnmailedIsAccounted' /\ AlertsAreConfirmed'
  BY <1>1 DEF SentAtIsTrue, UnmailedIsAccounted, AlertsAreConfirmed
<1> QED BY <1>2, <1>3, <1>4

\* The articles, the schedule and the workers that take a message keep it all.
LEMMA EnvironmentKeeps ==
  ASSUME Inv, Environment
  PROVE  Inv'
<1> USE DEF Inv
<1>a. UNCHANGED <<alerts, briefings, sentAt, mails, fired, outgoing, marked, abandoned>>
  BY DEF Environment, Age, Ingested, Enqueue, Start, tables
<1>b. IdsOK' /\ MailsOK' /\ AlertsAreConfirmed' /\ SentAtIsTrue' /\ UnmailedIsAccounted'
  BY <1>a, RowsKept
<1>c. IdsOf(alerts) \subseteq IdsOf(alerts') /\ briefings \subseteq briefings' /\ Committed' = Committed
  BY <1>a DEF IdsOf, Committed
<1>d. /\ pc \in [Workers -> Labels] /\ job \in [Workers -> Msgs \cup {NoMsg}]
      /\ stored \in Seq(Articles) /\ Len(stored) \in Nat
  BY LenProperties DEF TypeOK, BrokerTypeOK
<1> SUFFICES TypeOK' /\ RunOK'
  BY <1>b
<1>1. ASSUME UNCHANGED <<pc, job, todo, hits>>, BrokerTypeOK',
             stored' \in Seq(Articles), aged' \in 0..Len(stored')
      PROVE  TypeOK' /\ RunOK'
  <2>1. ASSUME NEW v \in Workers PROVE BusyOK(v)' /\ HoldingsOK(v)' /\ EvidenceOK(v)'
    BY <1>1, <1>a, <1>c, OthersRunOK
  <2> QED BY <1>1, <1>a, <1>c, <2>1 DEF TypeOK, RunOK
<1>2. CASE Age
  BY <1>1, <1>2, <1>d DEF Age, brokerVars, TypeOK, BrokerTypeOK
<1>3. ASSUME NEW a \in Articles, Ingested(a) PROVE TypeOK' /\ RunOK'
  <2>1. stored' \in Seq(Articles) /\ Len(stored') = Len(stored) + 1
    BY <1>3, <1>d, AppendProperties DEF Ingested
  <2>2. UNCHANGED <<pc, job, todo, hits>> /\ BrokerTypeOK'
    BY <1>3 DEF Ingested, brokerVars, TypeOK, BrokerTypeOK
  <2>3. aged' = aged /\ aged \in 0..Len(stored)
    BY <1>3 DEF Ingested, TypeOK
  <2>4. aged' \in 0..Len(stored')
    BY <1>d, <2>1, <2>3
  <2> QED BY <1>1, <2>1, <2>2, <2>4
<1>4. ASSUME NEW m \in Msgs, Enqueue(m) PROVE TypeOK' /\ RunOK'
  <2>1. BrokerTypeOK'
    BY <1>4 DEF Enqueue, Trigger, TypeOK, BrokerTypeOK
  <2> QED BY <1>1, <1>4, <2>1 DEF Enqueue, Trigger, articlesRead, TypeOK
<1>5. ASSUME NEW w \in Workers, NEW m \in Msgs, Start(w, m) PROVE TypeOK' /\ RunOK'
  <2>1. BrokerTypeOK'
    BY <1>5, BrokerOps DEF Start, TypeOK
  <2>2. pc[w] = "idle" /\ m # NoMsg
    BY <1>5, BrokerAssumption DEF Start, Take, RunOK, BusyOK
  <2>3. PICK l \in {"brief", "read"} : pc' = [pc EXCEPT ![w] = l]
    BY <1>5 DEF Start, Goto
  <2>4. job' = [job EXCEPT ![w] = m] /\ UNCHANGED <<stored, aged, todo, hits>>
    BY <1>5 DEF Start, Take, articlesRead
  <2>5. TypeOK'
    BY <1>a, <1>c, <2>1, <2>3, <2>4 DEF TypeOK, Labels
  <2>6. ASSUME NEW v \in Workers PROVE BusyOK(v)' /\ HoldingsOK(v)' /\ EvidenceOK(v)'
    <3>1. CASE v # w
      BY <1>a, <1>c, <1>d, <2>3, <2>4, <3>1, OthersRunOK
    <3>2. CASE v = w
      <4>1. pc'[w] = l /\ job'[w] = m /\ HoldingsOK(w) /\ EvidenceOK(w)
        BY <1>d, <2>3, <2>4 DEF RunOK
      <4>2. BusyOK(w)'
        BY <2>2, <4>1 DEF BusyOK, Idle
      <4>3. HoldingsOK(w)'
        BY <1>a, <2>2, <4>1 DEF HoldingsOK
      <4>4. EvidenceOK(w)'
        BY <1>a, <2>2, <4>1 DEF EvidenceOK, Confirmed
      <4> QED BY <3>2, <4>2, <4>3, <4>4
    <3> QED BY <3>1, <3>2
  <2> QED BY <2>5, <2>6 DEF RunOK
<1> QED BY <1>2, <1>3, <1>4, <1>5 DEF Environment

LEMMA OutboundInvariant == Spec => []Inv
<1>1. Init => Inv
  <2> SUFFICES ASSUME Init PROVE Inv
    OBVIOUS
  <2>0. /\ <<>> \in Seq(Articles) /\ <<>> \in Seq(Row) /\ <<>> \in Seq(Ids) /\ Len(<<>>) = 0
        /\ ToSet(<<>>) = {} /\ IsInjective(<<>>)
    BY EmptySeq, ElementsOfEmpty DEF IsInjective, ToSet
  <2>1. BrokerTypeOK
    BY BrokerAssumption DEF Init, BrokerInit, BrokerTypeOK
  <2>2. TypeOK
    BY <2>0, <2>1 DEF Init, OutboundInit, TypeOK, Labels
  <2>3. RunOK
    BY <2>0 DEF Init, BrokerInit, OutboundInit, RunOK, BusyOK, Idle, HoldingsOK, EvidenceOK
  <2>4. Committed = {} /\ IdsOf(alerts) = {} /\ \A w \in Workers : IdsOf(ToSet(fired[w])) = {}
    BY <2>0 DEF Init, OutboundInit, Committed, IdsOf
  <2>5. IdsOK
    <3>1. ASSUME NEW w \in Workers PROVE IsInjective(FiredIds(w))
      <4>1. DOMAIN FiredIds(w) = {}
        BY DEF Init, OutboundInit, FiredIds
      <4> QED BY <4>1 DEF IsInjective
    <3> QED BY <2>4, <3>1 DEF IdsOK
  <2>6. MailsOK
    BY <2>0 DEF Init, OutboundInit, MailsOK
  <2>7. AlertsAreConfirmed /\ SentAtIsTrue /\ UnmailedIsAccounted
    BY <2>4 DEF Init, OutboundInit, AlertsAreConfirmed, SentAtIsTrue, UnmailedIsAccounted
  <2> QED BY <2>2, <2>3, <2>5, <2>6, <2>7 DEF Inv
<1>2. Inv /\ [Next]_vars => Inv'
  <2> SUFFICES ASSUME Inv, [Next]_vars PROVE Inv'
    OBVIOUS
  <2>1. CASE Environment
    BY <2>1, EnvironmentKeeps
  <2>2. ASSUME NEW w \in Workers, AlertStep(w) \/ BriefingStep(w) \/ Fault(w)
        PROVE  Inv'
    <3>1. GoesOn(w) \/ Ends(w)
      BY <2>2, StepsOfRun DEF Inv
    <3>2. TypeOK'
      BY <3>1, EngineStepType, MailStepType, EndsType DEF Inv, GoesOn
    <3>3. RunOK' /\ IdsOK' /\ AlertsAreConfirmed'
      BY <3>1, StepRunOK, StepIds, StepConfirmed DEF Inv
    <3>4. MailsOK' /\ SentAtIsTrue' /\ UnmailedIsAccounted'
      BY <3>1, StepMails DEF Inv
    <3> QED BY <3>2, <3>3, <3>4 DEF Inv
  <2>3. CASE UNCHANGED vars
    <3>1. UNCHANGED <<alerts, briefings, sentAt, mails, fired, outgoing, marked, abandoned, pc, job,
                      todo, hits, stored, aged, queue, tries>>
      BY <2>3 DEF vars, brokerVars, articlesRead, tables
    <3>2. IdsOK' /\ MailsOK' /\ AlertsAreConfirmed' /\ SentAtIsTrue' /\ UnmailedIsAccounted'
      BY <3>1, RowsKept DEF Inv
    <3>3. ASSUME NEW v \in Workers PROVE BusyOK(v)' /\ HoldingsOK(v)' /\ EvidenceOK(v)'
      BY <3>1, OthersRunOK DEF Inv, IdsOf
    <3>4. TypeOK'
      BY <3>1 DEF Inv, TypeOK, BrokerTypeOK, Committed, IdsOf
    <3> QED BY <3>2, <3>3, <3>4 DEF Inv, RunOK
  <2> QED BY <2>1, <2>2, <2>3 DEF Next
<1> QED BY <1>1, <1>2, PTL DEF Spec

\* Every variable of the outbound runs keeps its type.
THEOREM OutboundTypeCorrect == Spec => []TypeOK
<1>1. Inv => TypeOK
  BY DEF Inv
<1> QED BY <1>1, OutboundInvariant, PTL

\* An alert anybody can see counts min_sources sources or more, never fewer
\* than it links, and links its article and, if min_sources asks for
\* confirmation at all, at least one more.
THEOREM AlertsConfirmed == Spec => []AlertsAreConfirmed
<1>1. Inv => AlertsAreConfirmed
  BY DEF Inv
<1> QED BY <1>1, OutboundInvariant, PTL

\* No mail is made from a row that is not committed, and no row is mailed
\* twice, whatever fails and however often a run is retried.
THEOREM MailsOnceFromRows == Spec => []MailedOnceFromRow
<1>1. Inv => MailedOnceFromRow
  BY DEF Inv, MailsOK, MailedOnceFromRow
<1> QED BY <1>1, OutboundInvariant, PTL

\* sent_at is set for mailed alerts only, and missing from a mailed alert
\* only while its run goes on or because it failed.
THEOREM SentAtTruthful == Spec => []SentAtIsTrue
<1>1. Inv => SentAtIsTrue
  BY DEF Inv
<1> QED BY <1>1, OutboundInvariant, PTL

\* A committed row that was not mailed is in the hands of a run, or a run
\* failed with it in hand.
THEOREM UnmailedAccounted == Spec => []UnmailedIsAccounted
<1>1. Inv => UnmailedIsAccounted
  BY DEF Inv
<1> QED BY <1>1, OutboundInvariant, PTL
=============================================================================
