------------------------- MODULE InboundMailProofs --------------------------
(***************************************************************************)
(* Proofs about InboundMail, for any mailbox, any messages and any finite  *)
(* number of workers.                                                      *)
(*                                                                         *)
(*   MailTypeCorrect       Spec => []TypeOK                                *)
(*   MailRunCorrect        Spec => []RunOK, the strengthening              *)
(*   ConfirmationsBacked   Spec => []ConfirmedIsRecorded                   *)
(*   RetriesRecordNothing  Spec => []RecordedOncePerRun                    *)
(*   SeenMailsAccounted    Spec => []SeenIsAccounted                       *)
(***************************************************************************)
EXTENDS InboundMail, SequenceLemmas

-----------------------------------------------------------------------------
(* The inductive invariant *)

\* What a run holds in memory, label by label: no message twice, and a
\* message leaves uids before it enters box.
HoldingsOK(w) ==
  /\ pc[w] \in {"idle", "search"} => uids[w] = <<>> /\ box[w] = <<>>
  /\ pc[w] \in {"process", "reply"} => uids[w] = <<>>
  /\ pc[w] = "store" => uids[w] # <<>> /\ Head(uids[w]) \in Trusted \cap seen
  /\ pc[w] = "reply" => box[w] # <<>>
  /\ IsInjective(uids[w]) /\ IsInjective(box[w])
  /\ ToSet(uids[w]) \cap ToSet(box[w]) = {}
  /\ ToSet(uids[w]) \subseteq ToSet(inbox)
  /\ ToSet(box[w]) \subseteq seen

\* A worker has a message of the broker exactly while it executes a run.
BusyOK(w) == Idle(w) <=> pc[w] = "idle"

RunOK == IsInjective(inbox) /\ \A w \in Workers : HoldingsOK(w) /\ BusyOK(w)

\* The runs that have recorded m, if it is a trade, and not yet answered it.
Replying(m) == {w \in Workers : pc[w] = "reply" /\ Head(box[w]) = m}

\* The runs that hold m, and may still answer it.
May(m) == {w \in Workers : m \in ToSet(uids[w]) \cup ToSet(box[w])}

\* The runs that may still record m.
MayRecord(m) == May(m) \ Replying(m)

\* A row that is there before its reply pays for the reply.
RowsBackReplies == \A m \in Trades : replies[m] + Cardinality(Replying(m)) <= ledger[m]

\* A run that recorded or answered m holds it no longer, and no run can come
\* to hold a message that was seen.
RunsBoundRows ==
  \A m \in Mails :
    /\ ledger[m] + Cardinality(MayRecord(m)) <= Cardinality(Workers)
    /\ replies[m] + Cardinality(May(m)) <= Cardinality(Workers)
    /\ m \notin seen => ledger[m] = 0 /\ replies[m] = 0

-----------------------------------------------------------------------------
(* Types *)

\* Each of the broker's operations keeps its types.
LEMMA BrokerOps ==
  ASSUME BrokerTypeOK, NEW w \in Workers
  PROVE  /\ \A m \in Msgs : Trigger(m) \/ Take(w, m) => BrokerTypeOK'
         /\ Succeed(w) \/ Raise(w) \/ Die(w) => BrokerTypeOK'
<1> USE BrokerAssumption
<1>1. ASSUME NEW m \in Msgs, Trigger(m) \/ Take(w, m) PROVE BrokerTypeOK'
  BY <1>1 DEF Trigger, Take, Idle, BrokerTypeOK
<1>2. ~Idle(w) => job[w] \in Msgs
  BY DEF Idle, BrokerTypeOK
<1>3. ~Idle(w) /\ Release(w) => BrokerTypeOK'
  BY <1>2 DEF Release, BrokerTypeOK
<1>4. ~Idle(w) /\ Retry(w) => BrokerTypeOK'
  BY <1>2 DEF Retry, BrokerTypeOK
<1> QED
  BY <1>1, <1>3, <1>4 DEF Succeed, Raise, GiveUp, Die

\* The messages a run looks at are messages of the folder.
LEMMA HeadsAreMails ==
  ASSUME TypeOK, NEW w \in Workers
  PROVE  /\ uids[w] \in Seq(Mails) /\ box[w] \in Seq(Mails)
         /\ uids[w] # <<>> => /\ Head(uids[w]) \in Mails
                              /\ Head(uids[w]) \in ToSet(uids[w])
                              /\ Tail(uids[w]) \in Seq(Mails)
         /\ box[w] # <<>> => /\ Head(box[w]) \in Mails
                             /\ Head(box[w]) \in ToSet(box[w])
                             /\ Tail(box[w]) \in Seq(Mails)
<1>1. uids[w] \in Seq(Mails) /\ box[w] \in Seq(Mails)
  BY DEF TypeOK
<1>2. ASSUME NEW s \in Seq(Mails), s # <<>>
      PROVE  Head(s) \in Mails /\ Head(s) \in ToSet(s) /\ Tail(s) \in Seq(Mails)
  BY <1>2, HeadTailProperties, ElementsType
<1> QED BY <1>1, <1>2

\* A run that fails or ends forgets what it held, and lets go of mails only.
LEMMA ForgetType ==
  ASSUME TypeOK, RunOK, NEW w \in Workers, Forget(w)
  PROVE  /\ pc' \in [Workers -> Labels]
         /\ uids' \in [Workers -> Seq(Mails)]
         /\ box' \in [Workers -> Seq(Mails)]
         /\ InHand(w) \subseteq Mails
<1>1. ToSet(box[w]) \subseteq Mails
  BY HeadsAreMails, ElementsType
<1>2. pc[w] = "store" => Head(uids[w]) \in Mails
  BY HeadsAreMails DEF RunOK, HoldingsOK
<1>3. InHand(w) \subseteq Mails
  BY <1>1, <1>2 DEF InHand
<1> QED BY <1>3, EmptySeq DEF Forget, Goto, Labels, TypeOK

\* One more row of a message, or one more reply to it.
LEMMA CountUp ==
  ASSUME NEW f \in [Mails -> Nat], NEW m \in Mails
  PROVE  [f EXCEPT ![m] = @ + 1] \in [Mails -> Nat]
OBVIOUS

\* Every step of a run keeps the types.
LEMMA RunStepType ==
  ASSUME TypeOK, RunOK, NEW w \in Workers, Step(w) \/ Fault(w)
  PROVE  TypeOK'
<1> USE DEF TypeOK
<1> DEFINE h == Head(uids[w])
           b == Head(box[w])
<1>0. /\ pc \in [Workers -> Labels] /\ uids \in [Workers -> Seq(Mails)]
      /\ box \in [Workers -> Seq(Mails)]
  OBVIOUS
<1>1. CASE Search(w)
  <2>1. Selected(inbox, Mails \ seen) \in Seq(Mails)
    BY SelectedElements
  <2> QED BY <1>1, <2>1 DEF Search, Goto, Labels, stores, brokerVars, BrokerTypeOK
<1>2. CASE FetchUntrusted(w) \/ FetchUnreadable(w) \/ FetchTrusted(w) \/ Store(w)
  <2>1. uids[w] # <<>>
    BY <1>2 DEF FetchUntrusted, FetchUnreadable, FetchTrusted, Store, RunOK, HoldingsOK
  <2>2. h \in Mails /\ h \in ToSet(inbox) /\ Tail(uids[w]) \in Seq(Mails)
    BY <2>1, HeadsAreMails DEF RunOK, HoldingsOK
  <2>3. seen' \in SUBSET ToSet(inbox') /\ inbox' = inbox
    BY <1>2, <2>2 DEF FetchUntrusted, FetchUnreadable, FetchTrusted, Store, SetSeen
  <2>4. uids' \in [Workers -> Seq(Mails)] /\ pc' \in [Workers -> Labels]
    BY <1>0, <1>2, <2>2
    DEF FetchUntrusted, FetchUnreadable, FetchTrusted, Store, Goto, Labels
  <2>5. box' \in [Workers -> Seq(Mails)]
    <3>1. Append(box[w], h) \in Seq(Mails)
      BY <2>2, AppendProperties
    <3> QED BY <1>0, <1>2, <3>1 DEF FetchUntrusted, FetchUnreadable, FetchTrusted, Store
  <2>6. abandoned' \in SUBSET Mails /\ UNCHANGED <<brokerVars, ledger, replies>>
    BY <1>2, <2>2 DEF FetchUntrusted, FetchUnreadable, FetchTrusted, Store
  <2> QED BY <2>3, <2>4, <2>5, <2>6 DEF brokerVars, BrokerTypeOK
<1>3. CASE EndPoll(w) \/ Answer(w)
  BY <1>3 DEF EndPoll, Answer, Goto, Labels, stores, brokerVars, BrokerTypeOK
<1>4. CASE ImapError(w)
  <2>1. InHand(w) \ ToSet(box[w]) \subseteq Mails
    BY HeadsAreMails DEF InHand, RunOK, HoldingsOK
  <2> QED
    BY <1>4, <2>1, EmptySeq DEF ImapError, Goto, Labels, stores, brokerVars, BrokerTypeOK
<1>5. CASE Done(w)
  <2>1. BrokerTypeOK'
    BY <1>5, BrokerOps DEF Done
  <2> QED BY <1>5, <2>1, ForgetType DEF Done, stores
<1>6. CASE Record(w) \/ Reply(w)
  <2>1. box[w] # <<>>
    BY <1>6 DEF Record, Reply, RunOK, HoldingsOK
  <2>2. b \in Mails /\ Tail(box[w]) \in Seq(Mails)
    BY <2>1, HeadsAreMails
  <2>3. ledger' \in [Mails -> Nat] /\ replies' \in [Mails -> Nat]
    <3>1. CASE Record(w)
      <4>1. ledger' = [ledger EXCEPT ![b] = @ + 1] /\ replies' = replies
        BY <3>1 DEF Record, AddRow
      <4> QED BY <2>2, <4>1, CountUp
    <3>2. CASE Reply(w)
      <4>1. replies' = [replies EXCEPT ![b] = @ + 1] /\ ledger' = ledger
        BY <3>2 DEF Reply, AddReply
      <4> QED BY <2>2, <4>1, CountUp
    <3> QED BY <1>6, <3>1, <3>2
  <2> QED BY <1>6, <2>2, <2>3 DEF Record, Reply, Goto, Labels, brokerVars, BrokerTypeOK
<1>7. ASSUME Fail(w) \/ (Forget(w) /\ Die(w) /\ Abandon(w)), UNCHANGED <<inbox, seen>>,
             ledger' \in [Mails -> Nat], replies' \in [Mails -> Nat]
      PROVE  TypeOK'
  <2>1. BrokerTypeOK'
    BY <1>7, BrokerOps DEF Fail
  <2>2. Forget(w) /\ Abandon(w)
    BY <1>7 DEF Fail
  <2> QED BY <1>7, <2>1, <2>2, ForgetType DEF Abandon
<1>8. CASE RecordUnknown(w) \/ ReplyUnknown(w)
  <2>1. box[w] # <<>>
    BY <1>8 DEF RecordUnknown, ReplyUnknown, RunOK, HoldingsOK
  <2>2. b \in Mails
    BY <2>1, HeadsAreMails
  <2>3. ledger' \in [Mails -> Nat] /\ replies' \in [Mails -> Nat]
    <3>1. CASE RecordUnknown(w)
      <4>1. ledger' = [ledger EXCEPT ![b] = @ + 1] /\ replies' = replies
        BY <3>1 DEF RecordUnknown, AddRow
      <4> QED BY <2>2, <4>1, CountUp
    <3>2. CASE ReplyUnknown(w)
      <4>1. replies' = [replies EXCEPT ![b] = @ + 1] /\ ledger' = ledger
        BY <3>2 DEF ReplyUnknown, AddReply
      <4> QED BY <2>2, <4>1, CountUp
    <3> QED BY <1>8, <3>1, <3>2
  <2> QED BY <1>7, <1>8, <2>3 DEF RecordUnknown, ReplyUnknown
<1>9. CASE GuardRejects(w) \/ Error(w) \/ Crash(w)
  BY <1>7, <1>9 DEF GuardRejects, Error, Crash, stores
<1> QED
  BY <1>1, <1>2, <1>3, <1>4, <1>5, <1>6, <1>8, <1>9 DEF Step, Fault

\* A step of one run leaves what the others hold, and never unsets \Seen.
LEMMA OthersKept ==
  ASSUME TypeOK, NEW w \in Workers, Step(w) \/ Fault(w)
  PROVE  /\ \A v \in Workers \ {w} : pc'[v] = pc[v] /\ uids'[v] = uids[v] /\ box'[v] = box[v]
         /\ inbox' = inbox
         /\ seen \subseteq seen'
         /\ abandoned \subseteq abandoned'
<1>1. ASSUME Forget(w)
      PROVE \A v \in Workers \ {w} : pc'[v] = pc[v] /\ uids'[v] = uids[v] /\ box'[v] = box[v]
  BY <1>1 DEF Forget, Goto, TypeOK
<1>2. CASE Step(w)
  BY <1>1, <1>2 DEF Step, Search, FetchUntrusted, FetchTrusted, Store, EndPoll, Done, Record,
     Answer, Reply, Goto, SetSeen, stores, TypeOK
<1>3. CASE Fault(w)
  BY <1>1, <1>3 DEF Fault, FetchUnreadable, ImapError, RecordUnknown, GuardRejects, ReplyUnknown,
     Error, Crash, Fail, Goto, SetSeen, Abandon, stores, TypeOK
<1> QED BY <1>2, <1>3

-----------------------------------------------------------------------------
(* What a run holds *)

\* What a run that did not move holds stays as it should be.
LEMMA OthersHoldingsOK ==
  ASSUME TypeOK, RunOK, NEW w \in Workers, NEW v \in Workers, seen \subseteq seen',
         ToSet(inbox) \subseteq ToSet(inbox'),
         pc'[v] = pc[v], uids'[v] = uids[v], box'[v] = box[v]
  PROVE  HoldingsOK(v)'
BY DEF RunOK, HoldingsOK

\* A run that ends takes its worker's message off with it.
LEMMA RunStepBusy ==
  ASSUME TypeOK, RunOK, NEW w \in Workers, Step(w) \/ Fault(w)
  PROVE  \A v \in Workers : BusyOK(v)'
<1>1. /\ pc \in [Workers -> Labels] /\ job \in [Workers -> Msgs \cup {NoMsg}]
      /\ \A v \in Workers : BusyOK(v)
  BY DEF TypeOK, BrokerTypeOK, RunOK
<1>2. ASSUME Forget(w), Succeed(w) \/ Raise(w) \/ Die(w) PROVE \A v \in Workers : BusyOK(v)'
  <2>1. pc' = [pc EXCEPT ![w] = "idle"] /\ job' = [job EXCEPT ![w] = NoMsg]
    BY <1>2 DEF Forget, Goto, Succeed, Raise, Die, Release, Retry, GiveUp
  <2> QED BY <1>1, <2>1 DEF BusyOK, Idle
<1>3. ASSUME NEW l \in Labels \ {"idle"}, Goto(w, l), pc[w] # "idle", job' = job
      PROVE  \A v \in Workers : BusyOK(v)'
  BY <1>1, <1>3 DEF Goto, BusyOK, Idle
<1>4. ASSUME pc' = pc, job' = job PROVE \A v \in Workers : BusyOK(v)'
  BY <1>1, <1>4 DEF BusyOK, Idle
<1>5. CASE Step(w)
  <2>1. CASE FetchUntrusted(w)
    BY <1>4, <2>1 DEF FetchUntrusted, brokerVars
  <2>2. CASE Done(w)
    BY <1>2, <2>2 DEF Done
  <2>3. CASE ~FetchUntrusted(w) /\ ~Done(w)
    <3>1. /\ pc[w] # "idle" /\ job' = job
          /\ \E l \in {"fetch", "store", "process", "reply"} : Goto(w, l)
      BY <1>5, <2>3 DEF Step, Search, FetchTrusted, Store, EndPoll, Record, Answer, Reply, brokerVars
    <3> QED BY <1>3, <3>1 DEF Labels
  <2> QED BY <2>1, <2>2, <2>3
<1>6. CASE Fault(w)
  <2>1. CASE FetchUnreadable(w)
    BY <1>4, <2>1 DEF FetchUnreadable, brokerVars
  <2>2. CASE ImapError(w)
    BY <1>3, <2>2 DEF ImapError, Labels, brokerVars
  <2>3. CASE ~FetchUnreadable(w) /\ ~ImapError(w)
    BY <1>2, <1>6, <2>3
    DEF Fault, RecordUnknown, GuardRejects, ReplyUnknown, Error, Crash, Fail
  <2> QED BY <2>1, <2>2, <2>3
<1> QED BY <1>5, <1>6

\* Neither does the run that moves come to hold a message twice.
LEMMA RunStepHoldings ==
  ASSUME TypeOK, RunOK, NEW w \in Workers, Step(w) \/ Fault(w)
  PROVE  RunOK'
<1> DEFINE h == Head(uids[w])
           b == Head(box[w])
<1>0. /\ pc \in [Workers -> Labels] /\ uids \in [Workers -> Seq(Mails)]
      /\ box \in [Workers -> Seq(Mails)] /\ inbox \in Seq(Mails)
      /\ uids[w] \in Seq(Mails) /\ box[w] \in Seq(Mails)
      /\ HoldingsOK(w)
  BY DEF TypeOK, RunOK
<1>a. IsInjective(<<>>) /\ ToSet(<<>>) = {}
  BY ElementsOfEmpty DEF IsInjective, ToSet
<1>b. inbox' = inbox /\ seen \subseteq seen' /\ IsInjective(inbox)
  BY OthersKept DEF RunOK
<1> SUFFICES HoldingsOK(w)'
  <2>1. ASSUME NEW v \in Workers \ {w} PROVE HoldingsOK(v)'
    BY OthersKept, OthersHoldingsOK
  <2> QED BY <1>b, <2>1, RunStepBusy DEF RunOK
<1>1. CASE Search(w)
  <2> DEFINE s == Selected(inbox, Mails \ seen)
  <2>1. IsInjective(s) /\ ToSet(s) \subseteq ToSet(inbox)
    BY <1>0, <1>b, SelectedElements
  <2>2. box[w] = <<>>
    BY <1>0, <1>1 DEF Search, HoldingsOK
  <2>3. uids'[w] = s /\ pc'[w] = "fetch" /\ box'[w] = <<>>
    BY <1>0, <1>1, <2>2 DEF Search, Goto
  <2> HIDE DEF s
  <2> QED BY <1>a, <1>b, <2>1, <2>3 DEF HoldingsOK
<1>2. ASSUME pc[w] = "fetch", pc'[w] = "fetch", uids[w] # <<>>, uids'[w] = Tail(uids[w]),
             box'[w] = box[w]
      PROVE  HoldingsOK(w)'
  <2>1. IsInjective(uids'[w]) /\ ToSet(uids'[w]) \subseteq ToSet(uids[w])
    BY <1>0, <1>2, DistinctTail, ElementsOfTail DEF HoldingsOK
  <2> QED BY <1>0, <1>2, <1>b, <2>1 DEF HoldingsOK
<1>3. CASE FetchUntrusted(w) \/ FetchUnreadable(w)
  BY <1>0, <1>2, <1>3 DEF FetchUntrusted, FetchUnreadable
<1>4. CASE FetchTrusted(w)
  <2>1. /\ uids'[w] = uids[w] /\ box'[w] = box[w] /\ pc[w] = "fetch" /\ pc'[w] = "store"
        /\ uids[w] # <<>> /\ h \in Trusted \cap seen'
    BY <1>0, <1>4 DEF FetchTrusted, Goto, SetSeen
  <2> QED BY <1>0, <1>b, <2>1 DEF HoldingsOK
<1>5. CASE Store(w)
  <2>1. pc[w] = "store" /\ uids[w] # <<>> /\ h \in seen
    BY <1>0, <1>5 DEF Store, HoldingsOK
  <2>2. uids'[w] = Tail(uids[w]) /\ box'[w] = Append(box[w], h) /\ pc'[w] = "fetch"
    BY <1>0, <1>5 DEF Store, Goto
  <2>3. /\ IsInjective(uids'[w]) /\ h \notin ToSet(uids'[w])
        /\ ToSet(uids[w]) = {h} \cup ToSet(uids'[w])
    BY <1>0, <2>1, <2>2, DistinctTail, ElementsOfTail DEF HoldingsOK
  <2>4. h \in Mails /\ h \notin ToSet(box[w])
    BY <1>0, <2>1, <2>3, HeadsAreMails DEF HoldingsOK
  <2>5. IsInjective(box'[w]) /\ ToSet(box'[w]) = ToSet(box[w]) \cup {h}
    BY <1>0, <2>2, <2>4, DistinctAppend, ElementsOfAppend DEF HoldingsOK
  <2> QED BY <1>0, <1>b, <2>1, <2>2, <2>3, <2>4, <2>5 DEF HoldingsOK
<1>6. CASE EndPoll(w) \/ Answer(w) \/ Record(w)
  <2>1. /\ uids'[w] = uids[w] /\ box'[w] = box[w] /\ uids[w] = <<>>
        /\ pc'[w] = "process" \/ (pc'[w] = "reply" /\ box[w] # <<>>)
    BY <1>0, <1>6 DEF EndPoll, Answer, Record, Goto, stores, HoldingsOK
  <2> QED BY <1>0, <1>b, <2>1 DEF HoldingsOK
<1>7. CASE ImapError(w)
  <2>1. uids'[w] = <<>> /\ box'[w] = box[w] /\ pc'[w] = "process"
    BY <1>0, <1>7 DEF ImapError, Goto
  <2> QED BY <1>0, <1>a, <1>b, <2>1 DEF HoldingsOK
<1>8. CASE Reply(w)
  <2>1. box[w] # <<>> /\ uids[w] = <<>>
    BY <1>0, <1>8 DEF Reply, HoldingsOK
  <2>2. uids'[w] = <<>> /\ box'[w] = Tail(box[w]) /\ pc'[w] = "process"
    BY <1>0, <1>8, <2>1 DEF Reply, Goto
  <2>3. IsInjective(box'[w]) /\ ToSet(box'[w]) \subseteq ToSet(box[w])
    BY <1>0, <2>1, <2>2, DistinctTail, ElementsOfTail DEF HoldingsOK
  <2> QED BY <1>0, <1>a, <1>b, <2>1, <2>2, <2>3 DEF HoldingsOK
<1>9. ASSUME Forget(w) PROVE HoldingsOK(w)'
  <2>1. uids'[w] = <<>> /\ box'[w] = <<>> /\ pc'[w] = "idle"
    BY <1>0, <1>9 DEF Forget, Goto
  <2> QED BY <1>a, <2>1 DEF HoldingsOK
<1>10. CASE Done(w) \/ RecordUnknown(w) \/ GuardRejects(w) \/ ReplyUnknown(w) \/ Error(w) \/ Crash(w)
  BY <1>9, <1>10 DEF Done, RecordUnknown, GuardRejects, ReplyUnknown, Error, Crash, Fail
<1> QED
  BY <1>1, <1>3, <1>4, <1>5, <1>6, <1>7, <1>8, <1>10 DEF Step, Fault

\* The schedule and the mailbox disturb no run.
LEMMA ScheduleKeeps ==
  ASSUME TypeOK, RunOK, Schedule
  PROVE  TypeOK' /\ RunOK'
<1>1. ASSUME NEW m \in Mails, Arrive(m) PROVE TypeOK' /\ RunOK'
  <2>1. inbox' \in Seq(Mails) /\ ToSet(inbox') = ToSet(inbox) \cup {m}
    BY <1>1, AppendProperties, ElementsOfAppend DEF Arrive, TypeOK
  <2>2. IsInjective(inbox')
    BY <1>1, DistinctAppend DEF Arrive, TypeOK, RunOK
  <2>3. ASSUME NEW v \in Workers PROVE HoldingsOK(v)' /\ BusyOK(v)'
    BY <1>1, <2>1, OthersHoldingsOK DEF Arrive, RunOK, BusyOK, Idle, brokerVars
  <2>4. TypeOK'
    BY <1>1, <2>1 DEF Arrive, TypeOK, brokerVars, BrokerTypeOK
  <2> QED BY <2>2, <2>3, <2>4 DEF RunOK
<1>2. ASSUME NEW t \in Msgs, Enqueue(t) PROVE TypeOK' /\ RunOK'
  <2>1. BrokerTypeOK'
    BY <1>2 DEF Enqueue, Trigger, TypeOK, BrokerTypeOK
  <2>2. ASSUME NEW v \in Workers PROVE HoldingsOK(v)' /\ BusyOK(v)'
    BY <1>2, OthersHoldingsOK DEF Enqueue, Trigger, stores, RunOK, BusyOK, Idle
  <2> QED BY <1>2, <2>1, <2>2 DEF Enqueue, TypeOK, RunOK, stores
<1>3. ASSUME NEW w \in Workers, NEW t \in Msgs, Start(w, t) PROVE TypeOK' /\ RunOK'
  <2>1. BrokerTypeOK'
    BY <1>3, BrokerOps DEF Start, TypeOK
  <2>2. TypeOK'
    BY <1>3, <2>1 DEF Start, Goto, Labels, TypeOK, stores
  <2>3. pc[w] = "idle" /\ t # NoMsg
    BY <1>3, BrokerAssumption DEF Start, Take, RunOK, BusyOK
  <2>4. ASSUME NEW v \in Workers PROVE HoldingsOK(v)' /\ BusyOK(v)'
    <3>1. /\ pc' = [pc EXCEPT ![w] = "search"] /\ job' = [job EXCEPT ![w] = t]
          /\ pc \in [Workers -> Labels] /\ job \in [Workers -> Msgs \cup {NoMsg}]
          /\ UNCHANGED <<inbox, seen, uids, box>> /\ HoldingsOK(v) /\ BusyOK(v)
      BY <1>3 DEF Start, Take, Goto, stores, TypeOK, BrokerTypeOK, RunOK
    <3>2. BusyOK(v)'
      BY <2>3, <3>1 DEF BusyOK, Idle
    <3>3. HoldingsOK(v)'
      BY <2>3, <3>1 DEF HoldingsOK
    <3> QED BY <3>2, <3>3
  <2> QED BY <1>3, <2>2, <2>4 DEF Start, stores, RunOK
<1> QED BY <1>1, <1>2, <1>3 DEF Schedule

-----------------------------------------------------------------------------
(* Theorems on types *)

LEMMA MailInvariant == Spec => [](TypeOK /\ RunOK)
<1>1. Init => TypeOK /\ RunOK
  <2> SUFFICES ASSUME Init PROVE TypeOK /\ RunOK
    OBVIOUS
  <2>1. <<>> \in Seq(Mails) /\ ToSet(<<>>) = {} /\ IsInjective(<<>>)
    BY EmptySeq, ElementsOfEmpty DEF IsInjective, ToSet
  <2>2. TypeOK
    BY <2>1, BrokerAssumption
    DEF Init, MailInit, BrokerInit, TypeOK, BrokerTypeOK, Labels
  <2>3. RunOK
    BY <2>1 DEF Init, MailInit, BrokerInit, RunOK, HoldingsOK, BusyOK, Idle
  <2> QED BY <2>2, <2>3
<1>2. TypeOK /\ RunOK /\ [Next]_vars => TypeOK' /\ RunOK'
  <2> SUFFICES ASSUME TypeOK, RunOK, [Next]_vars PROVE TypeOK' /\ RunOK'
    OBVIOUS
  <2>1. CASE Schedule
    BY <2>1, ScheduleKeeps
  <2>2. ASSUME NEW w \in Workers, Step(w) \/ Fault(w) PROVE TypeOK' /\ RunOK'
    BY <2>2, RunStepType, RunStepHoldings
  <2>3. CASE UNCHANGED vars
    BY <2>3 DEF vars, stores, brokerVars, TypeOK, BrokerTypeOK, RunOK, HoldingsOK, BusyOK, Idle
  <2> QED BY <2>1, <2>2, <2>3 DEF Next
<1> QED BY <1>1, <1>2, PTL DEF Spec

\* Every variable of the mail run keeps its type, in every reachable state of
\* any number of runs over one mailbox.
THEOREM MailTypeCorrect == Spec => []TypeOK
BY MailInvariant, PTL

\* What a run holds: no message twice, none of it still to be fetched and
\* processed at once, and what it will answer is \Seen.
THEOREM MailRunCorrect == Spec => []RunOK
BY MailInvariant, PTL

-----------------------------------------------------------------------------
(* Rows and replies *)

\* How many of the runs are in a set, when the set shrinks, or loses or gains
\* one run.
LEMMA CountRuns ==
  ASSUME NEW S \in SUBSET Workers, NEW R \in SUBSET Workers
  PROVE  /\ Cardinality(S) \in Nat /\ Cardinality(S) <= Cardinality(Workers)
         /\ R \subseteq S => Cardinality(R) <= Cardinality(S)
         /\ \A w \in S : R \subseteq S \ {w} => Cardinality(R) + 1 <= Cardinality(S)
         /\ \A w \in Workers : R \subseteq S \cup {w} => Cardinality(R) <= Cardinality(S) + 1
<1>1. IsFiniteSet(Workers) /\ IsFiniteSet(S) /\ IsFiniteSet(R)
  BY InboundMailAssumption, FS_Subset
<1>2. Cardinality(S) \in Nat /\ Cardinality(R) \in Nat /\ Cardinality(Workers) \in Nat
  BY <1>1, FS_CardinalityType
<1>3. Cardinality(S) <= Cardinality(Workers)
  BY <1>1, FS_Subset
<1>4. R \subseteq S => Cardinality(R) <= Cardinality(S)
  BY <1>1, FS_Subset
<1>5. ASSUME NEW w \in S, R \subseteq S \ {w} PROVE Cardinality(R) + 1 <= Cardinality(S)
  <2>1. IsFiniteSet(S \ {w}) /\ Cardinality(S \ {w}) = Cardinality(S) - 1
    BY <1>1, FS_RemoveElement
  <2>2. Cardinality(R) <= Cardinality(S \ {w})
    BY <1>5, <2>1, FS_Subset
  <2> QED BY <1>2, <2>1, <2>2
<1>6. ASSUME NEW w \in Workers, R \subseteq S \cup {w} PROVE Cardinality(R) <= Cardinality(S) + 1
  <2>1. IsFiniteSet(S \cup {w}) /\ Cardinality(S \cup {w}) <= Cardinality(S) + 1
    <3>1. CASE w \in S
      <4>1. S \cup {w} = S
        BY <3>1
      <4> QED BY <1>1, <1>2, <4>1
    <3>2. CASE w \notin S
      <4>1. IsFiniteSet(S \cup {w}) /\ Cardinality(S \cup {w}) = Cardinality(S) + 1
        BY <1>1, <3>2, FS_AddElement
      <4> QED BY <1>2, <4>1
    <3> QED BY <3>1, <3>2
  <2>2. Cardinality(R) <= Cardinality(S \cup {w}) /\ Cardinality(S \cup {w}) \in Nat
    BY <1>6, <2>1, FS_Subset, FS_CardinalityType
  <2> QED BY <1>2, <2>1, <2>2
<1> QED BY <1>2, <1>3, <1>4, <1>5, <1>6

\* What the run w may still do with m.
HoldsNow(w, m) == m \in ToSet(uids[w]) \cup ToSet(box[w])
RepliesNow(w, m) == pc[w] = "reply" /\ Head(box[w]) = m

\* A step of w with respect to one message: it writes no row and no reply,
\* or it writes a row it held and stands to answer it, or it answers it and
\* holds it no longer.  It comes to hold no message that was seen.
StepOn(w, m) ==
  /\ \/ ledger'[m] = ledger[m] /\ replies'[m] = replies[m]
        /\ (m \in Trades /\ RepliesNow(w, m)' => RepliesNow(w, m))
     \/ ledger'[m] = ledger[m] + 1 /\ replies'[m] = replies[m]
        /\ m \in Trades /\ HoldsNow(w, m) /\ ~RepliesNow(w, m)
        /\ (HoldsNow(w, m)' => RepliesNow(w, m)')
     \/ ledger'[m] = ledger[m] /\ replies'[m] = replies[m] + 1
        /\ HoldsNow(w, m) /\ RepliesNow(w, m)
        /\ ~HoldsNow(w, m)' /\ ~RepliesNow(w, m)'
  /\ m \in seen => (HoldsNow(w, m)' => HoldsNow(w, m))
  /\ m \in seen => (HoldsNow(w, m)' /\ RepliesNow(w, m) => RepliesNow(w, m)')
  /\ m \notin seen => ledger'[m] = ledger[m] /\ replies'[m] = replies[m]

LEMMA StepOnMail ==
  ASSUME TypeOK, RunOK, NEW w \in Workers, Step(w) \/ Fault(w), NEW m \in Mails
  PROVE  StepOn(w, m)
<1> DEFINE h == Head(uids[w])
           b == Head(box[w])
<1>0. /\ pc \in [Workers -> Labels] /\ uids \in [Workers -> Seq(Mails)]
      /\ box \in [Workers -> Seq(Mails)] /\ inbox \in Seq(Mails)
      /\ ledger \in [Mails -> Nat] /\ replies \in [Mails -> Nat]
      /\ uids[w] \in Seq(Mails) /\ box[w] \in Seq(Mails)
      /\ HoldingsOK(w)
  BY DEF TypeOK, RunOK
<1>a. ToSet(<<>>) = {}
  BY ElementsOfEmpty
<1>b. /\ uids[w] # <<>> => ToSet(uids[w]) = {h} \cup ToSet(Tail(uids[w]))
      /\ box[w] # <<>> => ToSet(box[w]) = {b} \cup ToSet(Tail(box[w])) /\ b \notin ToSet(Tail(box[w]))
  BY <1>0, ElementsOfTail, DistinctTail DEF HoldingsOK
<1>1. CASE Search(w)
  <2>1. /\ ToSet(uids'[w]) = ToSet(inbox) \cap (Mails \ seen) /\ pc'[w] = "fetch" /\ box'[w] = <<>>
        /\ ledger' = ledger /\ replies' = replies
    BY <1>0, <1>1, SelectedElements DEF Search, Goto, HoldingsOK, stores
  <2>2. ~RepliesNow(w, m) /\ ~RepliesNow(w, m)' /\ (m \in seen => ~HoldsNow(w, m)')
    BY <1>1, <1>a, <2>1 DEF RepliesNow, HoldsNow, Search
  <2> QED BY <2>1, <2>2 DEF StepOn
<1>2. ASSUME ledger' = ledger, replies' = replies, pc'[w] # "reply", pc[w] # "reply",
             HoldsNow(w, m)' => HoldsNow(w, m)
      PROVE  StepOn(w, m)
  BY <1>2 DEF StepOn, RepliesNow
<1>3. CASE FetchUntrusted(w) \/ FetchUnreadable(w) \/ FetchTrusted(w) \/ Store(w)
  <2>1. uids[w] # <<>> /\ h \in Mails
    BY <1>0, <1>3, HeadsAreMails
    DEF FetchUntrusted, FetchUnreadable, FetchTrusted, Store, HoldingsOK
  <2>2. \/ uids'[w] = Tail(uids[w]) /\ box'[w] = box[w]
        \/ uids'[w] = uids[w] /\ box'[w] = box[w]
        \/ uids'[w] = Tail(uids[w]) /\ box'[w] = Append(box[w], h)
    BY <1>0, <1>3 DEF FetchUntrusted, FetchUnreadable, FetchTrusted, Store
  <2>3. ToSet(Append(box[w], h)) = ToSet(box[w]) \cup {h}
    BY <1>0, <2>1, ElementsOfAppend
  <2>4. HoldsNow(w, m)' => HoldsNow(w, m)
    BY <1>b, <2>1, <2>2, <2>3 DEF HoldsNow
  <2>5. ledger' = ledger /\ replies' = replies /\ pc'[w] # "reply" /\ pc[w] # "reply"
    BY <1>0, <1>3 DEF FetchUntrusted, FetchUnreadable, FetchTrusted, Store, Goto
  <2> QED BY <1>2, <2>4, <2>5
<1>4. CASE EndPoll(w)
  <2>1. UNCHANGED <<uids, box, ledger, replies>> /\ pc'[w] # "reply" /\ pc[w] # "reply"
    BY <1>0, <1>4 DEF EndPoll, Goto, stores
  <2> QED BY <1>2, <2>1 DEF HoldsNow
<1>5. CASE ImapError(w)
  <2>1. /\ uids'[w] = <<>> /\ box'[w] = box[w] /\ pc'[w] # "reply" /\ pc[w] # "reply"
        /\ UNCHANGED <<ledger, replies>>
    BY <1>0, <1>5 DEF ImapError, Goto, stores
  <2> QED BY <1>2, <1>a, <2>1 DEF HoldsNow
<1>6. CASE Answer(w)
  <2>1. UNCHANGED <<uids, box, ledger, replies>> /\ pc[w] = "process" /\ b \notin Trades
    BY <1>6 DEF Answer, stores
  <2> QED BY <2>1 DEF StepOn, HoldsNow, RepliesNow
<1>7. CASE Record(w)
  <2>1. /\ ledger' = [ledger EXCEPT ![b] = @ + 1] /\ UNCHANGED <<uids, box, replies>>
        /\ pc[w] = "process" /\ pc'[w] = "reply" /\ b \in Trades
        /\ b \in ToSet(box[w]) /\ b \in seen
    BY <1>0, <1>b, <1>7 DEF Record, AddRow, Goto, HoldingsOK
  <2> QED BY <1>0, <2>1 DEF StepOn, HoldsNow, RepliesNow
<1>8. CASE Reply(w)
  <2>1. /\ replies' = [replies EXCEPT ![b] = @ + 1] /\ ledger' = ledger
        /\ pc[w] = "reply" /\ pc'[w] = "process" /\ uids'[w] = <<>> /\ uids[w] = <<>>
        /\ box'[w] = Tail(box[w]) /\ box[w] # <<>>
    BY <1>0, <1>8 DEF Reply, AddReply, Goto, HoldingsOK
  <2>2. b \in ToSet(box[w]) /\ b \in seen /\ b \notin ToSet(box'[w])
        /\ ToSet(box'[w]) \subseteq ToSet(box[w])
    BY <1>0, <1>b, <2>1 DEF HoldingsOK
  <2> QED BY <1>0, <1>a, <2>1, <2>2 DEF StepOn, HoldsNow, RepliesNow
<1>9. ASSUME Forget(w) PROVE ~HoldsNow(w, m)' /\ ~RepliesNow(w, m)'
  <2>1. uids'[w] = <<>> /\ box'[w] = <<>> /\ pc'[w] = "idle"
    BY <1>0, <1>9 DEF Forget, Goto
  <2> QED BY <1>a, <2>1 DEF HoldsNow, RepliesNow
<1>10. CASE Done(w) \/ GuardRejects(w) \/ Error(w) \/ Crash(w)
  <2>1. Forget(w) /\ UNCHANGED <<ledger, replies>>
    BY <1>10 DEF Done, GuardRejects, Error, Crash, Fail, stores
  <2> QED BY <1>9, <2>1 DEF StepOn
<1>11. CASE RecordUnknown(w)
  <2>1. /\ ledger' = [ledger EXCEPT ![b] = @ + 1] /\ UNCHANGED replies
        /\ pc[w] = "process" /\ b \in Trades /\ b \in ToSet(box[w]) /\ b \in seen
    BY <1>0, <1>b, <1>11 DEF RecordUnknown, AddRow, HoldingsOK
  <2>2. ~HoldsNow(w, m)' /\ ~RepliesNow(w, m)'
    BY <1>9, <1>11 DEF RecordUnknown, Fail
  <2>3. HoldsNow(w, b) /\ ~RepliesNow(w, m)
    BY <2>1 DEF HoldsNow, RepliesNow
  <2> QED BY <1>0, <2>1, <2>2, <2>3 DEF StepOn
<1>12. CASE ReplyUnknown(w)
  <2>1. /\ replies' = [replies EXCEPT ![b] = @ + 1] /\ ledger' = ledger
        /\ pc[w] = "reply" /\ b \in ToSet(box[w]) /\ b \in seen
    BY <1>0, <1>b, <1>12 DEF ReplyUnknown, AddReply, HoldingsOK
  <2>2. ~HoldsNow(w, m)' /\ ~RepliesNow(w, m)'
    BY <1>9, <1>12 DEF ReplyUnknown, Fail
  <2>3. HoldsNow(w, b) /\ RepliesNow(w, b) /\ (m # b => ~RepliesNow(w, m))
    BY <2>1 DEF HoldsNow, RepliesNow
  <2> QED BY <1>0, <2>1, <2>2, <2>3 DEF StepOn
<1> QED
  BY <1>1, <1>3, <1>4, <1>5, <1>6, <1>7, <1>8, <1>10, <1>11, <1>12 DEF Step, Fault

\* The sets that are counted, run by run.
LEMMA CountedRuns ==
  ASSUME NEW m
  PROVE  /\ Replying(m) = {v \in Workers : RepliesNow(v, m)}
         /\ May(m) = {v \in Workers : HoldsNow(v, m)}
         /\ MayRecord(m) = {v \in Workers : HoldsNow(v, m) /\ ~RepliesNow(v, m)}
BY DEF Replying, May, MayRecord, RepliesNow, HoldsNow

\* A step of w moves only w between the sets that are counted.
LEMMA OthersCounted ==
  ASSUME TypeOK, NEW w \in Workers, Step(w) \/ Fault(w), NEW m
  PROVE  \A v \in Workers \ {w} : /\ HoldsNow(v, m)' <=> HoldsNow(v, m)
                                  /\ RepliesNow(v, m)' <=> RepliesNow(v, m)
BY OthersKept DEF HoldsNow, RepliesNow

LEMMA StepCounts ==
  ASSUME TypeOK, RunOK, RowsBackReplies, RunsBoundRows, NEW w \in Workers, Step(w) \/ Fault(w)
  PROVE  RowsBackReplies' /\ RunsBoundRows'
<1>0. ASSUME NEW m \in Mails
      PROVE  /\ m \in Trades => replies'[m] + Cardinality(Replying(m)') <= ledger'[m]
             /\ ledger'[m] + Cardinality(MayRecord(m)') <= Cardinality(Workers)
             /\ replies'[m] + Cardinality(May(m)') <= Cardinality(Workers)
             /\ m \notin seen' => ledger'[m] = 0 /\ replies'[m] = 0
  <2> DEFINE Rep == Replying(m)   RepN == Replying(m)'
             Rec == MayRecord(m)  RecN == MayRecord(m)'
             All == May(m)        AllN == May(m)'
             W == Cardinality(Workers)
  <2>1. /\ Rep \in SUBSET Workers /\ RepN \in SUBSET Workers
        /\ Rec \in SUBSET Workers /\ RecN \in SUBSET Workers
        /\ All \in SUBSET Workers /\ AllN \in SUBSET Workers
    BY DEF Replying, MayRecord, May
  <2>2. StepOn(w, m)
    BY StepOnMail
  <2>3. /\ m \in Trades => replies[m] + Cardinality(Rep) <= ledger[m]
        /\ ledger[m] + Cardinality(Rec) <= W
        /\ replies[m] + Cardinality(All) <= W
        /\ m \notin seen => ledger[m] = 0 /\ replies[m] = 0
    BY DEF RowsBackReplies, RunsBoundRows
  <2>4. ledger[m] \in Nat /\ replies[m] \in Nat /\ seen \subseteq seen'
    BY OthersKept DEF TypeOK
  <2>5. /\ Rep = {v \in Workers : RepliesNow(v, m)}
        /\ RepN = {v \in Workers : RepliesNow(v, m)'}
        /\ All = {v \in Workers : HoldsNow(v, m)}
        /\ AllN = {v \in Workers : HoldsNow(v, m)'}
        /\ Rec = {v \in Workers : HoldsNow(v, m) /\ ~RepliesNow(v, m)}
        /\ RecN = {v \in Workers : HoldsNow(v, m)' /\ ~RepliesNow(v, m)'}
    BY DEF Replying, May, MayRecord, RepliesNow, HoldsNow
  <2>6. \A v \in Workers \ {w} : /\ HoldsNow(v, m)' <=> HoldsNow(v, m)
                                 /\ RepliesNow(v, m)' <=> RepliesNow(v, m)
    BY OthersCounted
  <2>7. m \in seen => AllN \subseteq All /\ RecN \subseteq Rec
    BY <2>2, <2>5, <2>6 DEF StepOn
  <2>8. /\ Cardinality(Rep) \in Nat /\ Cardinality(RepN) \in Nat
        /\ Cardinality(Rec) \in Nat /\ Cardinality(RecN) \in Nat
        /\ Cardinality(All) \in Nat /\ Cardinality(AllN) \in Nat
        /\ W \in Nat /\ Cardinality(RecN) <= W /\ Cardinality(AllN) <= W
    BY <2>1, CountRuns, InboundMailAssumption, FS_CardinalityType
  <2>9. m \in seen => Cardinality(AllN) <= Cardinality(All) /\ Cardinality(RecN) <= Cardinality(Rec)
    BY <2>1, <2>7, CountRuns
  <2>10. CASE /\ ledger'[m] = ledger[m] /\ replies'[m] = replies[m]
              /\ (m \in Trades /\ RepliesNow(w, m)' => RepliesNow(w, m))
    <3>1. m \in Trades => RepN \subseteq Rep
      BY <2>5, <2>6, <2>10
    <3>2. m \in Trades => Cardinality(RepN) <= Cardinality(Rep)
      BY <2>1, <3>1, CountRuns
    <3> QED BY <2>3, <2>4, <2>8, <2>9, <2>10, <3>2
  <2>11. CASE /\ ledger'[m] = ledger[m] + 1 /\ replies'[m] = replies[m]
              /\ m \in Trades /\ HoldsNow(w, m) /\ ~RepliesNow(w, m)
              /\ (HoldsNow(w, m)' => RepliesNow(w, m)')
    <3>1. m \in seen
      BY <2>2, <2>4, <2>11 DEF StepOn
    <3>2. w \in Rec /\ RecN \subseteq Rec \ {w} /\ RepN \subseteq Rep \cup {w}
      BY <2>5, <2>6, <2>7, <2>11, <3>1
    <3>3. /\ Cardinality(RecN) + 1 <= Cardinality(Rec)
          /\ Cardinality(RepN) <= Cardinality(Rep) + 1
      BY <2>1, <3>2, CountRuns
    <3> QED BY <2>3, <2>4, <2>8, <2>9, <2>11, <3>1, <3>3
  <2>12. CASE /\ ledger'[m] = ledger[m] /\ replies'[m] = replies[m] + 1
              /\ HoldsNow(w, m) /\ RepliesNow(w, m)
              /\ ~HoldsNow(w, m)' /\ ~RepliesNow(w, m)'
    <3>1. m \in seen
      BY <2>2, <2>4, <2>12 DEF StepOn
    <3>2. w \in Rep /\ RepN \subseteq Rep \ {w} /\ w \in All /\ AllN \subseteq All \ {w}
      BY <2>5, <2>6, <2>7, <2>12, <3>1
    <3>3. /\ Cardinality(RepN) + 1 <= Cardinality(Rep)
          /\ Cardinality(AllN) + 1 <= Cardinality(All)
      BY <2>1, <3>2, CountRuns
    <3> QED BY <2>3, <2>4, <2>8, <2>9, <2>12, <3>1, <3>3
  <2> QED BY <2>2, <2>10, <2>11, <2>12 DEF StepOn
<1>1. Trades \subseteq Mails
  BY InboundMailAssumption
<1> QED BY <1>0, <1>1 DEF RowsBackReplies, RunsBoundRows

LEMMA ScheduleCounts ==
  ASSUME TypeOK, RunOK, RowsBackReplies, RunsBoundRows, Schedule
  PROVE  RowsBackReplies' /\ RunsBoundRows'
<1>1. UNCHANGED <<seen, ledger, replies, uids, box>>
  BY DEF Schedule, Arrive, Enqueue, Start, stores
<1>2. \A v \in Workers : pc'[v] = pc[v] \/ (pc[v] # "reply" /\ pc'[v] # "reply")
  BY DEF Schedule, Arrive, Enqueue, Start, Take, Goto, stores, TypeOK, RunOK, BusyOK
<1>3. \A m \in Mails : Replying(m)' = Replying(m) /\ May(m)' = May(m)
  BY <1>1, <1>2 DEF Replying, May
<1>4. \A m \in Mails : MayRecord(m)' = MayRecord(m)
  BY <1>3 DEF MayRecord
<1>5. Trades \subseteq Mails
  BY InboundMailAssumption
<1> QED BY <1>1, <1>3, <1>4, <1>5 DEF RowsBackReplies, RunsBoundRows

LEMMA CountInvariant == Spec => [](RowsBackReplies /\ RunsBoundRows)
<1>1. Init => RowsBackReplies /\ RunsBoundRows
  <2> SUFFICES ASSUME Init PROVE RowsBackReplies /\ RunsBoundRows
    OBVIOUS
  <2>1. ASSUME NEW m \in Mails PROVE Replying(m) = {} /\ May(m) = {} /\ MayRecord(m) = {}
    BY ElementsOfEmpty DEF Init, MailInit, Replying, May, MayRecord
  <2>2. /\ Cardinality({}) = 0 /\ Cardinality(Workers) \in Nat /\ Trades \subseteq Mails
        /\ \A m \in Mails : ledger[m] = 0 /\ replies[m] = 0
    BY FS_EmptySet, InboundMailAssumption, FS_CardinalityType DEF Init, MailInit
  <2>3. ASSUME NEW m \in Mails
        PROVE  /\ replies[m] + Cardinality(Replying(m)) <= ledger[m]
               /\ ledger[m] + Cardinality(MayRecord(m)) <= Cardinality(Workers)
               /\ replies[m] + Cardinality(May(m)) <= Cardinality(Workers)
    BY <2>1, <2>2
  <2> QED BY <2>2, <2>3 DEF RowsBackReplies, RunsBoundRows
<1>2. /\ TypeOK /\ RunOK /\ RowsBackReplies /\ RunsBoundRows /\ [Next]_vars
      => RowsBackReplies' /\ RunsBoundRows'
  <2> SUFFICES ASSUME TypeOK, RunOK, RowsBackReplies, RunsBoundRows, [Next]_vars
               PROVE  RowsBackReplies' /\ RunsBoundRows'
    OBVIOUS
  <2>1. CASE Schedule
    BY <2>1, ScheduleCounts
  <2>2. ASSUME NEW w \in Workers, Step(w) \/ Fault(w) PROVE RowsBackReplies' /\ RunsBoundRows'
    BY <2>2, StepCounts
  <2>3. CASE UNCHANGED vars
    BY <2>3 DEF vars, stores, RowsBackReplies, RunsBoundRows, Replying, May, MayRecord
  <2> QED BY <2>1, <2>2, <2>3 DEF Next
<1> QED BY <1>1, <1>2, MailInvariant, PTL DEF Spec

-----------------------------------------------------------------------------
(* Theorems on rows and replies *)

\* Every confirmation is backed by a ledger row of its own, whatever fails
\* between the database and the SMTP server and however many runs there are.
THEOREM ConfirmationsBacked == Spec => []ConfirmedIsRecorded
<1>1. TypeOK /\ RowsBackReplies => ConfirmedIsRecorded
  <2> SUFFICES ASSUME TypeOK, RowsBackReplies, NEW m \in Trades PROVE replies[m] <= ledger[m]
    BY DEF ConfirmedIsRecorded
  <2>1. Replying(m) \in SUBSET Workers /\ m \in Mails
    BY InboundMailAssumption DEF Replying
  <2>2. Cardinality(Replying(m)) \in Nat
    BY <2>1, CountRuns
  <2>3. replies[m] \in Nat /\ ledger[m] \in Nat
    BY <2>1 DEF TypeOK
  <2> QED BY <2>2, <2>3 DEF RowsBackReplies
<1> QED BY <1>1, MailInvariant, CountInvariant, PTL

\* A message gives at most one row and one reply per worker, and none before
\* it is \Seen: retries and later polls add nothing.
THEOREM RetriesRecordNothing == Spec => []RecordedOncePerRun
<1>1. TypeOK /\ RunsBoundRows => RecordedOncePerRun
  <2> SUFFICES ASSUME TypeOK, RunsBoundRows, NEW m \in Mails
               PROVE  /\ ledger[m] <= Cardinality(Workers)
                      /\ replies[m] <= Cardinality(Workers)
                      /\ m \notin seen => ledger[m] = 0 /\ replies[m] = 0
    BY DEF RecordedOncePerRun
  <2>1. May(m) \in SUBSET Workers /\ MayRecord(m) \in SUBSET Workers
    BY DEF May, MayRecord
  <2>2. /\ Cardinality(May(m)) \in Nat /\ Cardinality(MayRecord(m)) \in Nat
        /\ Cardinality(Workers) \in Nat
    BY <2>1, CountRuns, InboundMailAssumption, FS_CardinalityType
  <2>3. replies[m] \in Nat /\ ledger[m] \in Nat
    BY DEF TypeOK
  <2> QED BY <2>2, <2>3 DEF RunsBoundRows
<1> QED BY <1>1, MailInvariant, CountInvariant, PTL

-----------------------------------------------------------------------------
(* No message is lost silently *)

\* What a run has in hand when it moves it keeps, lets go of, or has answered;
\* and it has in hand whatever trusted message it marks \Seen.
LEMMA HandedOn ==
  ASSUME TypeOK, RunOK, NEW w \in Workers, Step(w) \/ Fault(w)
  PROVE  /\ \A m \in InHand(w) : m \in InHand(w)' \/ m \in abandoned' \/ replies'[m] > 0
         /\ \A m \in (seen' \ seen) \cap Trusted : m \in InHand(w)' \/ m \in abandoned'
<1> DEFINE h == Head(uids[w])
           b == Head(box[w])
<1>0. /\ pc \in [Workers -> Labels] /\ uids \in [Workers -> Seq(Mails)]
      /\ box \in [Workers -> Seq(Mails)] /\ replies \in [Mails -> Nat]
      /\ uids[w] \in Seq(Mails) /\ box[w] \in Seq(Mails)
      /\ HoldingsOK(w)
  BY DEF TypeOK, RunOK
<1>a. ToSet(<<>>) = {}
  BY ElementsOfEmpty
<1>b. /\ uids[w] # <<>> => h \in Mails
      /\ box[w] # <<>> => ToSet(box[w]) = {b} \cup ToSet(Tail(box[w])) /\ b \in Mails
  BY <1>0, ElementsOfTail, HeadsAreMails
<1>1. CASE Search(w)
  <2>1. InHand(w) = {} /\ seen' = seen
    BY <1>0, <1>1, <1>a DEF Search, InHand, HoldingsOK, stores
  <2> QED BY <2>1
<1>2. CASE FetchUntrusted(w) \/ FetchUnreadable(w)
  <2>1. /\ InHand(w) = ToSet(box[w]) /\ InHand(w)' = ToSet(box[w])
        /\ seen' = seen \cup {h} /\ (h \in Trusted => h \in abandoned')
    BY <1>2 DEF FetchUntrusted, FetchUnreadable, SetSeen, InHand
  <2> QED BY <2>1
<1>3. CASE FetchTrusted(w)
  <2>1. InHand(w) = ToSet(box[w]) /\ InHand(w)' = ToSet(box[w]) \cup {h} /\ seen' = seen \cup {h}
    BY <1>0, <1>3 DEF FetchTrusted, Goto, SetSeen, InHand
  <2> QED BY <2>1
<1>4. CASE Store(w)
  <2>1. h \in Mails /\ h \in seen
    BY <1>0, <1>b, <1>4 DEF Store, HoldingsOK
  <2>2. ToSet(Append(box[w], h)) = ToSet(box[w]) \cup {h}
    BY <1>0, <2>1, ElementsOfAppend
  <2>3. /\ InHand(w) = ToSet(box[w]) \cup {h} /\ InHand(w)' = ToSet(box[w]) \cup {h}
        /\ seen' = seen
    BY <1>0, <1>4, <2>1, <2>2 DEF Store, Goto, SetSeen, InHand
  <2> QED BY <2>3
<1>5. CASE EndPoll(w) \/ Record(w) \/ Answer(w)
  <2>1. /\ InHand(w) = ToSet(box[w]) /\ InHand(w)' = ToSet(box[w]) /\ seen' = seen
    BY <1>0, <1>5 DEF EndPoll, Record, Answer, Goto, InHand, stores
  <2> QED BY <2>1
<1>6. CASE ImapError(w)
  <2>1. /\ InHand(w)' = ToSet(box[w]) /\ abandoned' = abandoned \cup (InHand(w) \ ToSet(box[w]))
        /\ seen' = seen
    BY <1>0, <1>6 DEF ImapError, Goto, InHand, stores
  <2> QED BY <2>1
<1>7. CASE Done(w)
  <2>1. InHand(w) = {} /\ seen' = seen
    BY <1>7, <1>a DEF Done, InHand, stores
  <2> QED BY <2>1
<1>8. CASE Reply(w)
  <2>1. /\ InHand(w) = ToSet(box[w]) /\ InHand(w)' = ToSet(Tail(box[w])) /\ seen' = seen
        /\ replies' = [replies EXCEPT ![b] = @ + 1] /\ box[w] # <<>>
    BY <1>0, <1>8 DEF Reply, AddReply, Goto, InHand, HoldingsOK
  <2>2. replies'[b] > 0
    BY <1>0, <1>b, <2>1
  <2> QED BY <1>b, <2>1, <2>2
<1>9. CASE RecordUnknown(w) \/ GuardRejects(w) \/ ReplyUnknown(w) \/ Error(w) \/ Crash(w)
  <2>1. Abandon(w) /\ seen' = seen
    BY <1>9 DEF RecordUnknown, GuardRejects, ReplyUnknown, Error, Crash, Fail, stores
  <2> QED BY <2>1 DEF Abandon
<1> QED
  BY <1>1, <1>2, <1>3, <1>4, <1>5, <1>6, <1>7, <1>8, <1>9 DEF Step, Fault

\* A message marked \Seen is answered, and in the ledger if it is a trade, or
\* some run still has it in hand, or a run let go of it.
THEOREM SeenMailsAccounted == Spec => []SeenIsAccounted
<1> DEFINE Accounted == \A m \in seen \cap Trusted :
             replies[m] > 0 \/ m \in abandoned \/ \E w \in Workers : m \in InHand(w)
<1>1. Init => Accounted
  BY DEF Init, MailInit
<1>2. TypeOK /\ RunOK /\ Accounted /\ [Next]_vars => Accounted'
  <2> SUFFICES ASSUME TypeOK, RunOK, Accounted, [Next]_vars,
                      NEW m \in seen' \cap Trusted
               PROVE  replies'[m] > 0 \/ m \in abandoned' \/ \E w \in Workers : m \in InHand(w)'
    OBVIOUS
  <2>0. m \in Mails
    BY InboundMailAssumption
  <2>1. CASE Schedule
    <3>1. UNCHANGED <<seen, replies, abandoned, uids, box>>
      BY <2>1 DEF Schedule, Arrive, Enqueue, Start, stores
    <3>2. \A v \in Workers : pc'[v] = pc[v] \/ (pc[v] # "store" /\ pc'[v] # "store")
      BY <2>1 DEF Schedule, Arrive, Enqueue, Start, Take, Goto, stores, TypeOK, RunOK, BusyOK
    <3>3. \A v \in Workers : InHand(v)' = InHand(v)
      BY <3>1, <3>2 DEF InHand
    <3> QED BY <3>1, <3>3
  <2>2. ASSUME NEW w \in Workers, Step(w) \/ Fault(w)
        PROVE  replies'[m] > 0 \/ m \in abandoned' \/ \E v \in Workers : m \in InHand(v)'
    <3>1. CASE m \notin seen
      BY <2>2, <3>1, HandedOn
    <3>2. replies[m] \in Nat /\ (replies'[m] = replies[m] \/ replies'[m] = replies[m] + 1)
      BY <2>0, <2>2, StepOnMail DEF StepOn, TypeOK
    <3>3. abandoned \subseteq abandoned' /\ \A v \in Workers \ {w} : InHand(v)' = InHand(v)
      BY <2>2, OthersKept DEF InHand
    <3>4. ASSUME m \in InHand(w) PROVE m \in InHand(w)' \/ m \in abandoned' \/ replies'[m] > 0
      BY <2>2, <3>4, HandedOn
    <3>5. CASE m \in seen
      <4>1. CASE replies[m] > 0
        BY <3>2, <4>1
      <4>2. CASE m \in abandoned
        BY <3>3, <4>2
      <4>3. ASSUME NEW v \in Workers, m \in InHand(v)
            PROVE  replies'[m] > 0 \/ m \in abandoned' \/ \E u \in Workers : m \in InHand(u)'
        BY <3>3, <3>4, <4>3
      <4> QED BY <3>5, <4>1, <4>2, <4>3
    <3> QED BY <3>1, <3>5
  <2>3. CASE UNCHANGED vars
    BY <2>3 DEF vars, stores, InHand
  <2> QED BY <2>1, <2>2, <2>3 DEF Next
<1>3. TypeOK /\ Accounted /\ ConfirmedIsRecorded => SeenIsAccounted
  <2> SUFFICES ASSUME TypeOK, Accounted, ConfirmedIsRecorded, NEW m \in seen \cap Trusted
               PROVE  Answered(m) \/ m \in abandoned \/ \E w \in Workers : m \in InHand(w)
    BY DEF SeenIsAccounted
  <2>1. ASSUME m \in Trades, replies[m] > 0 PROVE ledger[m] > 0
    <3>1. replies[m] \in Nat /\ ledger[m] \in Nat /\ replies[m] <= ledger[m]
      BY <2>1, InboundMailAssumption DEF TypeOK, ConfirmedIsRecorded
    <3> QED BY <2>1, <3>1
  <2> QED BY <2>1 DEF Answered
<1> QED BY <1>1, <1>2, <1>3, MailInvariant, ConfirmationsBacked, PTL DEF Spec
=============================================================================
