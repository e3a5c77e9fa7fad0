------------------------------ MODULE Outbound ------------------------------
(***************************************************************************)
(* alert_task and briefing_task: run_alert_engine (packages/alerts), the   *)
(* hybrid search, the evidence guard and the mails that follow, executed   *)
(* by any number of workers over one database and one SMTP server.         *)
(*                                                                         *)
(* An alert run commits all its alerts in one transaction, then mails them *)
(* one by one, noting sent_at in its session, and commits the notes last.  *)
(* A briefing run commits the row of the briefing, whose sent_at the       *)
(* server fills in, and mails it afterwards.  The mail is outside both     *)
(* transactions.                                                           *)
(***************************************************************************)
EXTENDS Broker, Sequences, FiniteSets, SequencesExt, Selection

CONSTANTS
  Briefings,    \* the messages of Msgs that ask for a briefing
  Articles,     \* articles that may be ingested
  HighScore,    \* those score_article rates at alert_threshold or above
  Hits,         \* what hybrid_search may return: articles, one per chunk
  MinSources,   \* alert_min_sources
  Ids           \* ids of rows (uuid4: fresh while any is free)

ASSUME OutboundAssumption ==
  /\ Briefings \subseteq Msgs
  /\ HighScore \subseteq Articles
  /\ Hits \subseteq Seq(Articles)
  /\ MinSources \in Nat
  /\ IsFiniteSet(Ids)

VARIABLES
  stored,       \* articles of the table, in order of fetched_at
  aged,         \* how many of them are older than lookback_hours
  alerts,       \* committed rows of alerts, each with its alert_sources
  briefings,    \* ids of the committed rows of briefings
  sentAt,       \* ids of the alerts with a committed sent_at
  mails,        \* mails[i]: mails made from row i the SMTP server accepted
  pc,           \* where the run of each worker is
  todo,         \* candidates still to be looked at
  hits,         \* the chunks found for the first of them
  fired,        \* alerts flushed by the run and not committed
  outgoing,     \* ids of rows committed by the run and not yet mailed
  marked,       \* ids of alerts whose sent_at is set and not committed
  abandoned     \* history: rows a run had in hand when it failed

tables == <<alerts, briefings, sentAt>>
articlesRead == <<stored, aged>>
vars == <<brokerVars, articlesRead, tables, mails, pc, todo, hits, fired,
          outgoing, marked, abandoned>>

-----------------------------------------------------------------------------

Row == [id : Ids, article : Articles, sources : Nat, links : Seq(Articles)]

IdsOf(rows) == {a.id : a \in rows}

\* Ids of alerts and briefings that are committed.
Committed == IdsOf(alerts) \cup briefings

FreeIds ==
  Ids \ (Committed \cup UNION {IdsOf(ToSet(fired[w])) : w \in Workers})

Labels == {"idle", "read", "search", "guard", "send", "brief", "draft", "mail"}

OutboundInit ==
  /\ stored = <<>> /\ aged = 0
  /\ alerts = {} /\ briefings = {} /\ sentAt = {}
  /\ mails = [i \in Ids |-> 0]
  /\ pc = [w \in Workers |-> "idle"]
  /\ todo = [w \in Workers |-> <<>>]
  /\ hits = [w \in Workers |-> <<>>]
  /\ fired = [w \in Workers |-> <<>>]
  /\ outgoing = [w \in Workers |-> <<>>]
  /\ marked = [w \in Workers |-> {}]
  /\ abandoned = {}

Init == BrokerInit /\ OutboundInit

-----------------------------------------------------------------------------
(* Leaving a run *)

Goto(w, l) == pc' = [pc EXCEPT ![w] = l]

\* Committed rows that the run has not finished with.
InHand(w) == ToSet(outgoing[w]) \cup marked[w]

Forget(w) ==
  /\ Goto(w, "idle")
  /\ todo' = [todo EXCEPT ![w] = <<>>]
  /\ hits' = [hits EXCEPT ![w] = <<>>]
  /\ fired' = [fired EXCEPT ![w] = <<>>]
  /\ outgoing' = [outgoing EXCEPT ![w] = <<>>]
  /\ marked' = [marked EXCEPT ![w] = {}]

\* The run fails after all, having committed the rows of new.
FailWith(w, new) ==
  /\ Forget(w) /\ Raise(w)
  /\ abandoned' = abandoned \cup InHand(w) \cup new

Fail(w) == FailWith(w, {})

Return(w) == Forget(w) /\ Succeed(w) /\ UNCHANGED abandoned

-----------------------------------------------------------------------------
(* The environment of the runs *)

\* An ingestion run commits an article.
Ingested(a) ==
  /\ a \notin ToSet(stored)
  /\ stored' = Append(stored, a)
  /\ UNCHANGED <<brokerVars, aged, tables, mails, pc, todo, hits, fired,
                 outgoing, marked, abandoned>>

\* The oldest article of the lookback window leaves it.
Age ==
  /\ aged < Len(stored)
  /\ aged' = aged + 1
  /\ UNCHANGED <<brokerVars, stored, tables, mails, pc, todo, hits, fired,
                 outgoing, marked, abandoned>>

Enqueue(m) ==
  /\ Trigger(m)
  /\ UNCHANGED <<articlesRead, tables, mails, pc, todo, hits, fired, outgoing,
                 marked, abandoned>>

Start(w, m) ==
  /\ Take(w, m)
  /\ Goto(w, IF m \in Briefings THEN "brief" ELSE "read")
  /\ UNCHANGED <<articlesRead, tables, mails, todo, hits, fired, outgoing,
                 marked, abandoned>>

-----------------------------------------------------------------------------
(* run_alert_engine *)

\* The articles of the lookback window, newest first.
Recent == Reverse(SubSeq(stored, aged + 1, Len(stored)))

Candidates == Selected(Recent, HighScore)

ReadArticles(w) ==
  /\ pc[w] = "read"
  /\ Candidates # <<>>
  /\ todo' = [todo EXCEPT ![w] = Candidates]
  /\ Goto(w, "search")
  /\ UNCHANGED <<brokerVars, articlesRead, tables, mails, hits, fired, outgoing,
                 marked, abandoned>>

NoCandidates(w) ==
  /\ pc[w] = "read"
  /\ Candidates = <<>>
  /\ Return(w)
  /\ UNCHANGED <<articlesRead, tables, mails>>

\* Chunks of other articles than the candidate.
Corroborating(a, found) == Selected(found, Articles \ {a})

SourceCount(a, found) == Cardinality(ToSet(Corroborating(a, found))) + 1

\* What hybrid_search may find now.
Found == {h \in Hits : ToSet(h) \subseteq ToSet(stored)}

\* The candidate has enough sources.
Search(w) ==
  /\ pc[w] = "search" /\ todo[w] # <<>>
  /\ \E found \in Found :
       /\ SourceCount(Head(todo[w]), found) >= MinSources
       /\ hits' = [hits EXCEPT ![w] = found]
  /\ Goto(w, "guard")
  /\ UNCHANGED <<brokerVars, articlesRead, tables, mails, todo, fired, outgoing,
                 marked, abandoned>>

\* alert_insufficient_sources: on to the next candidate.
TooFewSources(w) ==
  /\ pc[w] = "search" /\ todo[w] # <<>>
  /\ \E found \in Found : SourceCount(Head(todo[w]), found) < MinSources
  /\ todo' = [todo EXCEPT ![w] = Tail(@)]
  /\ UNCHANGED <<brokerVars, articlesRead, tables, mails, pc, hits, fired,
                 outgoing, marked, abandoned>>

NextCandidate(w) ==
  /\ todo' = [todo EXCEPT ![w] = Tail(@)]
  /\ hits' = [hits EXCEPT ![w] = <<>>]
  /\ Goto(w, "search")

\* evidence_guard_failed: the exception is caught, on to the next candidate.
AlertGuardFails(w) ==
  /\ pc[w] = "guard"
  /\ NextCandidate(w)
  /\ UNCHANGED <<brokerVars, articlesRead, tables, mails, fired, outgoing,
                 marked, abandoned>>

\* [primary] + corroborating[:min_sources], the rows of alert_sources
Links(a, found) ==
  LET corroborating == Corroborating(a, found)
  IN  <<a>> \o
      SubSeq(corroborating, 1,
             IF Len(corroborating) < MinSources THEN Len(corroborating)
                                                ELSE MinSources)

\* db.add(alert); await db.flush(); db.add(AlertSource(...)) ...
Fire(w) ==
  /\ pc[w] = "guard"
  /\ \E id \in FreeIds :
       LET a == Head(todo[w])
       IN  fired' = [fired EXCEPT ![w] = Append(@,
             [id |-> id, article |-> a, sources |-> SourceCount(a, hits[w]),
              links |-> Links(a, hits[w])])]
  /\ NextCandidate(w)
  /\ UNCHANGED <<brokerVars, articlesRead, tables, mails, outgoing, marked,
                 abandoned>>

AllLookedAt(w) == pc[w] = "search" /\ todo[w] = <<>>

FiredIds(w) == [i \in DOMAIN fired[w] |-> fired[w][i].id]

\* Mutated form: the alerts are left to the last commit.
CommitAlertsLater(w) ==
  /\ AllLookedAt(w) /\ fired[w] # <<>>
  /\ fired' = [fired EXCEPT ![w] = <<>>]
  /\ outgoing' = [outgoing EXCEPT ![w] = FiredIds(w)]
  /\ Goto(w, "send")
  /\ UNCHANGED <<brokerVars, articlesRead, tables, mails, todo, hits, marked,
                 abandoned>>

CommitAlerts(w) ==
  /\ AllLookedAt(w) /\ fired[w] # <<>>
  /\ alerts' = alerts \cup ToSet(fired[w])
  /\ fired' = [fired EXCEPT ![w] = <<>>]
  /\ outgoing' = [outgoing EXCEPT ![w] = FiredIds(w)]
  /\ Goto(w, "send")
  /\ UNCHANGED <<brokerVars, articlesRead, briefings, sentAt, mails, todo, hits,
                 marked, abandoned>>

\* if not alerts: return
NothingFired(w) ==
  /\ AllLookedAt(w) /\ fired[w] = <<>>
  /\ Return(w)
  /\ UNCHANGED <<articlesRead, tables, mails>>

\* The server commits but the connection is lost before the answer arrives.
CommitAlertsUnknown(w) ==
  /\ AllLookedAt(w)
  /\ alerts' = alerts \cup ToSet(fired[w])
  /\ FailWith(w, IdsOf(ToSet(fired[w])))
  /\ UNCHANGED <<articlesRead, briefings, sentAt, mails>>

-----------------------------------------------------------------------------
(* alert_task, after the engine *)

AddMail(i) == mails' = [mails EXCEPT ![i] = @ + 1]

\* Mutated form: only the first alert is mailed.
SendFirstOnly(w) ==
  /\ pc[w] = "send" /\ outgoing[w] # <<>>
  /\ AddMail(Head(outgoing[w]))
  /\ marked' = [marked EXCEPT ![w] = @ \cup {Head(outgoing[w])}]
  /\ outgoing' = [outgoing EXCEPT ![w] = <<>>]
  /\ UNCHANGED <<brokerVars, articlesRead, tables, pc, todo, hits, fired,
                 abandoned>>

\* Mutated form: sent_at is set for all alerts of the run.
SendMarkingAll(w) ==
  /\ pc[w] = "send" /\ outgoing[w] # <<>>
  /\ AddMail(Head(outgoing[w]))
  /\ sentAt' = sentAt \cup ToSet(outgoing[w])
  /\ outgoing' = [outgoing EXCEPT ![w] = Tail(@)]
  /\ UNCHANGED <<brokerVars, articlesRead, alerts, briefings, pc, todo, hits,
                 fired, marked, abandoned>>

\* sender.send(...); alert.sent_at = ...
Send(w) ==
  /\ pc[w] = "send" /\ outgoing[w] # <<>>
  /\ AddMail(Head(outgoing[w]))
  /\ marked' = [marked EXCEPT ![w] = @ \cup {Head(outgoing[w])}]
  /\ outgoing' = [outgoing EXCEPT ![w] = Tail(@)]
  /\ UNCHANGED <<brokerVars, articlesRead, tables, pc, todo, hits, fired,
                 abandoned>>

\* The server accepts the mail and the session fails afterwards.
SendUnknown(w) ==
  /\ pc[w] = "send" /\ outgoing[w] # <<>>
  /\ AddMail(Head(outgoing[w]))
  /\ Fail(w)
  /\ UNCHANGED <<articlesRead, tables>>

CommitSentAt(w) ==
  /\ pc[w] = "send" /\ outgoing[w] = <<>>
  /\ sentAt' = sentAt \cup marked[w]
  /\ Return(w)
  /\ UNCHANGED <<articlesRead, alerts, briefings, mails>>

CommitSentAtUnknown(w) ==
  /\ pc[w] = "send" /\ outgoing[w] = <<>>
  /\ sentAt' = sentAt \cup marked[w]
  /\ Fail(w)
  /\ UNCHANGED <<articlesRead, alerts, briefings, mails>>

-----------------------------------------------------------------------------
(* briefing_task *)

FindChunks(w) ==
  /\ pc[w] = "brief"
  /\ \E found \in Found \ {<<>>} : hits' = [hits EXCEPT ![w] = found]
  /\ Goto(w, "draft")
  /\ UNCHANGED <<brokerVars, articlesRead, tables, mails, todo, fired, outgoing,
                 marked, abandoned>>

\* briefing_no_chunks
NoContent(w) ==
  /\ pc[w] = "brief"
  /\ <<>> \in Found
  /\ Return(w)
  /\ UNCHANGED <<articlesRead, tables, mails>>

\* db.add(briefing); await db.commit().  (Fail covers a guard that raises.)
CommitBriefing(w) ==
  /\ pc[w] = "draft"
  /\ \E id \in FreeIds :
       /\ briefings' = briefings \cup {id}
       /\ outgoing' = [outgoing EXCEPT ![w] = <<id>>]
  /\ hits' = [hits EXCEPT ![w] = <<>>]
  /\ Goto(w, "mail")
  /\ UNCHANGED <<brokerVars, articlesRead, alerts, sentAt, mails, todo, fired,
                 marked, abandoned>>

CommitBriefingUnknown(w) ==
  /\ pc[w] = "draft"
  /\ \E id \in FreeIds :
       /\ briefings' = briefings \cup {id}
       /\ FailWith(w, {id})
  /\ UNCHANGED <<articlesRead, alerts, sentAt, mails>>

MailBriefing(w) ==
  /\ pc[w] = "mail"
  /\ AddMail(Head(outgoing[w]))
  /\ Return(w)
  /\ UNCHANGED <<articlesRead, tables>>

MailBriefingUnknown(w) ==
  /\ pc[w] = "mail"
  /\ AddMail(Head(outgoing[w]))
  /\ Fail(w)
  /\ UNCHANGED <<articlesRead, tables>>

-----------------------------------------------------------------------------
(* Failures *)

\* Any exception that is not caught: database, language model (briefing),
\* embedder, SMTP.  The open transaction is rolled back.
Error(w) ==
  /\ pc[w] # "idle"
  /\ Fail(w)
  /\ UNCHANGED <<articlesRead, tables, mails>>

\* Mutated form: the dying run is not rolled back.
CrashCommitting(w) ==
  /\ pc[w] # "idle"
  /\ Forget(w) /\ Die(w)
  /\ alerts' = alerts \cup {[a EXCEPT !.links = <<a.article>>] : a \in ToSet(fired[w])}
  /\ abandoned' = abandoned \cup InHand(w)
  /\ UNCHANGED <<articlesRead, briefings, sentAt, mails>>

Crash(w) ==
  /\ pc[w] # "idle"
  /\ Forget(w) /\ Die(w)
  /\ abandoned' = abandoned \cup InHand(w)
  /\ UNCHANGED <<articlesRead, tables, mails>>

-----------------------------------------------------------------------------

AlertStep(w) ==
  \/ ReadArticles(w) \/ NoCandidates(w) \/ Search(w) \/ TooFewSources(w)
  \/ AlertGuardFails(w) \/ Fire(w) \/ CommitAlerts(w) \/ NothingFired(w)
  \/ Send(w) \/ CommitSentAt(w)

BriefingStep(w) ==
  FindChunks(w) \/ NoContent(w) \/ CommitBriefing(w) \/ MailBriefing(w)

Fault(w) ==
  \/ CommitAlertsUnknown(w) \/ SendUnknown(w) \/ CommitSentAtUnknown(w)
  \/ CommitBriefingUnknown(w) \/ MailBriefingUnknown(w)
  \/ Error(w) \/ Crash(w)

Environment ==
  \/ Age \/ \E a \in Articles : Ingested(a)
  \/ \E m \in Msgs : Enqueue(m)
  \/ \E w \in Workers, m \in Msgs : Start(w, m)

Next ==
  Environment \/ \E w \in Workers : AlertStep(w) \/ BriefingStep(w) \/ Fault(w)

Spec == Init /\ [][Next]_vars

-----------------------------------------------------------------------------
(* Safety *)

\* Every variable stays in its range; row ids are never shared, between
\* tables or between runs.
TypeOK ==
  /\ BrokerTypeOK
  /\ stored \in Seq(Articles) /\ aged \in 0..Len(stored)
  /\ alerts \in SUBSET Row
  /\ briefings \in SUBSET Ids
  /\ sentAt \in SUBSET IdsOf(alerts)
  /\ mails \in [Ids -> Nat]
  /\ pc \in [Workers -> Labels]
  /\ todo \in [Workers -> Seq(Articles)]
  /\ hits \in [Workers -> Seq(Articles)]
  /\ fired \in [Workers -> Seq(Row)]
  /\ outgoing \in [Workers -> Seq(Ids)]
  /\ marked \in [Workers -> SUBSET Ids]
  /\ abandoned \in SUBSET Committed

\* An alert anybody can see is complete: it is linked to the article it is
\* about and, when min_sources asks for confirmation at all, to at least one
\* more article, although the links are added after the alert is flushed
\* and the run may die in between; source_count is no less than what is
\* linked.
AlertsAreConfirmed ==
  \A a \in alerts :
    /\ a.article \in ToSet(a.links)
    /\ MinSources <= a.sources
    /\ Cardinality(ToSet(a.links)) <= a.sources
    /\ MinSources > 1 => Cardinality(ToSet(a.links)) > 1

\* No mail tells of a row that is not in the database, whatever is rolled
\* back, and no row is mailed twice, however often a run is retried.
MailedOnceFromRow ==
  \A i \in Ids : mails[i] <= IF i \in Committed THEN 1 ELSE 0

\* An alert with sent_at was mailed, and one that was mailed has sent_at
\* unless its run is still going or failed before its last commit.
SentAtIsTrue ==
  \A i \in IdsOf(alerts) :
    /\ i \in sentAt => mails[i] = 1
    /\ mails[i] = 1 =>
         i \in sentAt \cup abandoned \/ \E w \in Workers : i \in marked[w]

\* A committed row that was not mailed is about to be, or a run failed with
\* it in hand: nothing else leaves a row unmailed.
UnmailedIsAccounted ==
  \A i \in Committed :
    mails[i] = 1 \/ i \in abandoned \/ \E w \in Workers : i \in InHand(w)

\* "A sent daily briefing email" (core/models.py): a briefing in the table
\* has been mailed, or its run is about to mail it.
BriefingRowMeansSent ==
  \A i \in briefings : mails[i] = 1 \/ \E w \in Workers : i \in InHand(w)
=============================================================================
