---------------------------- MODULE InboundMail -----------------------------
(***************************************************************************)
(* imap_poll_task: IMAPPoller.poll (packages/emailer/imap.py), then, for   *)
(* each trusted message, parse_action, record_action (the ledger) and a    *)
(* reply by SMTP, executed by any number of workers over one mailbox.      *)
(*                                                                         *)
(* The mailbox, the database and the SMTP server are three systems with    *)
(* no transaction between them.  FETCH (RFC822) sets \Seen on the server,  *)
(* a ledger row is committed on its own, and a reply is sent or not: what  *)
(* a run has done survives it, what it had in memory does not.             *)
(***************************************************************************)
EXTENDS Broker, Sequences, FiniteSets, SequencesExt, Selection

CONSTANTS
  Mails,        \* messages that may arrive
  Trusted,      \* those whose From header matches trusted_senders
  Trades,       \* those parse_action reads as BUY, SELL or NOTE
  Questions     \* those it reads as a QUESTION (the others: POSITION, HELP)

ASSUME InboundMailAssumption ==
  /\ IsFiniteSet(Workers)
  /\ Trusted \subseteq Mails
  /\ Trades \subseteq Mails
  /\ Questions \subseteq Mails \ Trades

VARIABLES
  inbox,        \* messages of the folder, in order of arrival
  seen,         \* messages with the flag \Seen
  ledger,       \* ledger[m]: rows of trade_actions recorded from m
  replies,      \* replies[m]: replies to m the SMTP server has accepted
  pc,           \* where the run of each worker is
  uids,         \* messages found by SEARCH and still to be fetched
  box,          \* messages fetched and still to be processed
  abandoned     \* history: messages that a run let go of unanswered

stores == <<inbox, seen, ledger, replies>>
vars == <<brokerVars, stores, pc, uids, box, abandoned>>

-----------------------------------------------------------------------------

Labels == {"idle", "search", "fetch", "store", "process", "reply"}

MailInit ==
  /\ inbox = <<>>
  /\ seen = {}
  /\ ledger = [m \in Mails |-> 0]
  /\ replies = [m \in Mails |-> 0]
  /\ pc = [w \in Workers |-> "idle"]
  /\ uids = [w \in Workers |-> <<>>]
  /\ box = [w \in Workers |-> <<>>]
  /\ abandoned = {}

Init == BrokerInit /\ MailInit

Goto(w, l) == pc' = [pc EXCEPT ![w] = l]

\* What only the memory of the run knows it has to process.
InHand(w) ==
  ToSet(box[w]) \cup (IF pc[w] = "store" THEN {Head(uids[w])} ELSE {})

Forget(w) ==
  /\ Goto(w, "idle")
  /\ uids' = [uids EXCEPT ![w] = <<>>]
  /\ box' = [box EXCEPT ![w] = <<>>]

Abandon(w) == abandoned' = abandoned \cup InHand(w)

Fail(w) == Forget(w) /\ Raise(w) /\ Abandon(w)

\* A message is delivered to the mailbox.
Arrive(m) ==
  /\ m \notin ToSet(inbox)
  /\ inbox' = Append(inbox, m)
  /\ UNCHANGED <<brokerVars, seen, ledger, replies, pc, uids, box, abandoned>>

Enqueue(t) ==
  /\ Trigger(t)
  /\ UNCHANGED <<stores, pc, uids, box, abandoned>>

Start(w, t) ==
  /\ Take(w, t)
  /\ Goto(w, "search")
  /\ UNCHANGED <<stores, uids, box, abandoned>>

-----------------------------------------------------------------------------
(* IMAPPoller.poll *)

\* imap.search(None, "UNSEEN")
Search(w) ==
  /\ pc[w] = "search"
  /\ uids' = [uids EXCEPT ![w] = Selected(inbox, Mails \ seen)]
  /\ Goto(w, "fetch")
  /\ UNCHANGED <<brokerVars, stores, box, abandoned>>

\* Mutated form: the flag is left to be set when the message is processed.
SetLater(m) == seen' = seen

\* Mutated form: the whole folder is flagged.
SetFolderSeen(m) == seen' = ToSet(inbox)

SetSeen(m) == seen' = seen \cup {m}

\* imap.fetch(uid, "(RFC822)") of a message from an untrusted sender
FetchUntrusted(w) ==
  /\ pc[w] = "fetch" /\ uids[w] # <<>>
  /\ Head(uids[w]) \notin Trusted
  /\ SetSeen(Head(uids[w]))
  /\ uids' = [uids EXCEPT ![w] = Tail(@)]
  /\ UNCHANGED <<brokerVars, inbox, ledger, replies, pc, box, abandoned>>

\* The answer to FETCH does not begin with the message (it may begin with
\* flags that another session has set): it is passed over, and stays \Seen.
FetchUnreadable(w) ==
  /\ pc[w] = "fetch" /\ uids[w] # <<>>
  /\ SetSeen(Head(uids[w]))
  /\ abandoned' = abandoned \cup {Head(uids[w])}
  /\ uids' = [uids EXCEPT ![w] = Tail(@)]
  /\ UNCHANGED <<brokerVars, inbox, ledger, replies, pc, box>>

FetchTrusted(w) ==
  /\ pc[w] = "fetch" /\ uids[w] # <<>>
  /\ Head(uids[w]) \in Trusted
  /\ SetSeen(Head(uids[w]))
  /\ Goto(w, "store")
  /\ UNCHANGED <<brokerVars, inbox, ledger, replies, uids, box, abandoned>>

\* imap.store(uid, "+FLAGS", "\\Seen"); messages.append(...)
Store(w) ==
  /\ pc[w] = "store"
  /\ SetSeen(Head(uids[w]))
  /\ box' = [box EXCEPT ![w] = Append(@, Head(uids[w]))]
  /\ uids' = [uids EXCEPT ![w] = Tail(@)]
  /\ Goto(w, "fetch")
  /\ UNCHANGED <<brokerVars, inbox, ledger, replies, abandoned>>

EndPoll(w) ==
  /\ pc[w] = "fetch" /\ uids[w] = <<>>
  /\ Goto(w, "process")
  /\ UNCHANGED <<brokerVars, stores, uids, box, abandoned>>

\* Mutated form: after an error the poll returns nothing.
ImapErrorReturnsNothing(w) ==
  /\ pc[w] \in {"search", "fetch", "store"}
  /\ abandoned' = abandoned \cup (InHand(w) \ ToSet(box[w]))
  /\ uids' = [uids EXCEPT ![w] = <<>>]
  /\ box' = [box EXCEPT ![w] = <<>>]
  /\ Goto(w, "process")
  /\ UNCHANGED <<brokerVars, stores>>

\* except imaplib.IMAP4.error: the poll returns what it has so far.
ImapError(w) ==
  /\ pc[w] \in {"search", "fetch", "store"}
  /\ abandoned' = abandoned \cup (InHand(w) \ ToSet(box[w]))
  /\ uids' = [uids EXCEPT ![w] = <<>>]
  /\ Goto(w, "process")
  /\ UNCHANGED <<brokerVars, stores, box>>

-----------------------------------------------------------------------------
(* The loop over the messages in imap_poll_task *)

Done(w) ==
  /\ pc[w] = "process" /\ box[w] = <<>>
  /\ Forget(w) /\ Succeed(w)
  /\ UNCHANGED <<stores, abandoned>>

AddRow(m) == ledger' = [ledger EXCEPT ![m] = @ + 1]

\* Mutated form: the reply is sent although the row is not there yet.
RecordNothing(w) ==
  /\ pc[w] = "process" /\ box[w] # <<>> /\ Head(box[w]) \in Trades
  /\ Goto(w, "reply")
  /\ UNCHANGED <<brokerVars, stores, uids, box, abandoned>>

\* record_action: db.add(action); await db.commit()
Record(w) ==
  /\ pc[w] = "process" /\ box[w] # <<>> /\ Head(box[w]) \in Trades
  /\ AddRow(Head(box[w]))
  /\ Goto(w, "reply")
  /\ UNCHANGED <<brokerVars, inbox, seen, replies, uids, box, abandoned>>

\* The row is committed and the answer of the database is lost.
RecordUnknown(w) ==
  /\ pc[w] = "process" /\ box[w] # <<>> /\ Head(box[w]) \in Trades
  /\ AddRow(Head(box[w]))
  /\ Fail(w)
  /\ UNCHANGED <<inbox, seen, replies>>

\* POSITION, HELP and QUESTION: nothing is recorded.
Answer(w) ==
  /\ pc[w] = "process" /\ box[w] # <<>> /\ Head(box[w]) \notin Trades
  /\ Goto(w, "reply")
  /\ UNCHANGED <<brokerVars, stores, uids, box, abandoned>>

\* The answer of the language model is no JSON, or fails _validate_citations.
GuardRejects(w) ==
  /\ pc[w] = "process" /\ box[w] # <<>> /\ Head(box[w]) \in Questions
  /\ Fail(w)
  /\ UNCHANGED stores

AddReply(m) == replies' = [replies EXCEPT ![m] = @ + 1]

\* sender.send(...), and on to the next message
Reply(w) ==
  /\ pc[w] = "reply"
  /\ AddReply(Head(box[w]))
  /\ box' = [box EXCEPT ![w] = Tail(@)]
  /\ Goto(w, "process")
  /\ UNCHANGED <<brokerVars, inbox, seen, ledger, uids, abandoned>>

\* The server accepts the reply and the session fails afterwards.
ReplyUnknown(w) ==
  /\ pc[w] = "reply"
  /\ AddReply(Head(box[w]))
  /\ Fail(w)
  /\ UNCHANGED <<inbox, seen, ledger>>

-----------------------------------------------------------------------------
(* Failures *)

\* Any other exception: OSError of the IMAP connection, SMTPException, ...
Error(w) ==
  /\ pc[w] # "idle"
  /\ Fail(w)
  /\ UNCHANGED stores

Crash(w) ==
  /\ pc[w] # "idle"
  /\ Forget(w) /\ Die(w) /\ Abandon(w)
  /\ UNCHANGED stores

-----------------------------------------------------------------------------

Step(w) ==
  \/ Search(w) \/ FetchUntrusted(w) \/ FetchTrusted(w) \/ Store(w)
  \/ EndPoll(w) \/ Done(w) \/ Record(w) \/ Answer(w) \/ Reply(w)

Fault(w) ==
  \/ FetchUnreadable(w) \/ ImapError(w) \/ RecordUnknown(w)
  \/ GuardRejects(w) \/ ReplyUnknown(w)
  \/ Error(w) \/ Crash(w)

Schedule ==
  \/ \E m \in Mails : Arrive(m)
  \/ \E t \in Msgs : Enqueue(t)
  \/ \E w \in Workers, t \in Msgs : Start(w, t)

Next == Schedule \/ \E w \in Workers : Step(w) \/ Fault(w)

Spec == Init /\ [][Next]_vars

-----------------------------------------------------------------------------
(* Safety *)

TypeOK ==
  /\ BrokerTypeOK
  /\ inbox \in Seq(Mails)
  /\ seen \in SUBSET ToSet(inbox)
  /\ ledger \in [Mails -> Nat]
  /\ replies \in [Mails -> Nat]
  /\ pc \in [Workers -> Labels]
  /\ uids \in [Workers -> Seq(Mails)]
  /\ box \in [Workers -> Seq(Mails)]
  /\ abandoned \in SUBSET Mails

\* Every confirmation the user gets is backed by a ledger row of its own:
\* "record the action, and reply with confirmation" in this order, whatever
\* fails between the database and the SMTP server, and with several runs.
ConfirmedIsRecorded == \A m \in Trades : replies[m] <= ledger[m]

\* A retry never records a trade again: only runs whose SEARCH preceded the
\* first FETCH of the message can, once each.  With one worker, a trade is
\* recorded at most once.
RecordedOncePerRun ==
  \A m \in Mails :
    /\ ledger[m] <= Cardinality(Workers)
    /\ replies[m] <= Cardinality(Workers)
    /\ m \notin seen => ledger[m] = 0 /\ replies[m] = 0

Answered(m) == replies[m] > 0 /\ (m \in Trades => ledger[m] > 0)

\* A message marked \Seen is answered, or some run still has it in hand, or
\* a run let go of it: failed while it had it in hand, or could not read the
\* answer to its FETCH.  Nothing else loses messages.
SeenIsAccounted ==
  \A m \in seen \cap Trusted :
    Answered(m) \/ m \in abandoned \/ \E w \in Workers : m \in InHand(w)

\* "The system will parse the command, record the action, and reply with
\* confirmation" (README.md): a trade that nobody works on any more, and that
\* no later poll can find, is in the ledger.
SeenTradesAreRecorded ==
  \A m \in seen \cap Trusted \cap Trades :
    ledger[m] > 0 \/ \E w \in Workers : m \in InHand(w)

-----------------------------------------------------------------------------
(* Liveness *)

Fairness ==
  /\ WF_vars(\E t \in Msgs : Enqueue(t))
  /\ \A w \in Workers : WF_vars(\E t \in Msgs : Start(w, t)) /\ WF_vars(Step(w))

FairSpec == Spec /\ Fairness

FaultsStop == <>[][\A w \in Workers : Fault(w) => Step(w)]_vars

\* A message that arrives is settled in the end: answered, or abandoned by a
\* run that let go of it.  It never just stays unread.
MailsGetSettled ==
  FaultsStop =>
    \A m \in Trusted : m \in ToSet(inbox) ~> Answered(m) \/ m \in abandoned
=============================================================================
