--------------------------- MODULE CollectionProofs ---------------------------
(***************************************************************************)
(* Proofs about Collection, for any number of processes, sites, links,     *)
(* pages and feeds.                                                        *)
(*                                                                         *)
(*   TypeCorrect            Spec => []TypeOK                               *)
(*   TruncationsAccounted   Spec => []PartialIsAccounted                   *)
(*   PagesHaveFiles         Spec => []ArticlesHaveFiles                    *)
(*   RobotsRespected        Spec => []RobotsObeyed                         *)
(***************************************************************************)
EXTENDS Collection, SequenceTheorems, TLAPS

-----------------------------------------------------------------------------
(* The steps of a put *)

BlobInv == BlobTypeOK /\ PartialIsAccounted

\* What one process does to its put.
BlobStep(w) ==
  \/ \E p \in Pages : PutChecks(w, p) \/ PutFinds(w, p)
  \/ PutOpens(w) \/ PutWrites(w) \/ PutBreaks(w)

\* The open put of a process has a page, and no other step than these two.
LEMMA PutShape ==
  ASSUME BlobTypeOK, NEW w \in Processes, putting[w] # NoPut
  PROVE  /\ putting[w] \in [step : {"absent", "open"}, page : Pages]
         /\ putting[w].page \in Pages
         /\ putting[w].step \in {"absent", "open"}
         /\ putting[w] = [step |-> putting[w].step, page |-> putting[w].page]
  BY DEF BlobTypeOK, NoPut

LEMMA BlobStepType ==
  ASSUME BlobTypeOK, NEW w \in Processes, BlobStep(w)
  PROVE  BlobTypeOK'
<1>1. ASSUME NEW p \in Pages, PutChecks(w, p) PROVE BlobTypeOK'
  BY <1>1 DEF PutChecks, BlobTypeOK
<1>2. ASSUME NEW p \in Pages, PutFinds(w, p) PROVE BlobTypeOK'
  BY <1>2 DEF PutFinds, BlobTypeOK
<1>3. CASE PutOpens(w)
  <2>1. putting[w] # NoPut
    BY <1>3 DEF PutOpens, NoPut
  <2>2. [putting[w] EXCEPT !.step = "open"] = [step |-> "open", page |-> putting[w].page]
    <3> DEFINE r == putting[w]
    <3>1. r \in [step : {"absent", "open"}, page : Pages]
      BY <2>1, PutShape
    <3> HIDE DEF r
    <3>2. [r EXCEPT !.step = "open"] = [step |-> "open", page |-> r.page]
      BY <3>1
    <3> QED BY <3>2 DEF r
  <2> QED BY <1>3, <2>1, <2>2, PutShape DEF PutOpens, BlobTypeOK
<1>4. CASE PutWrites(w)
  BY <1>4, PutShape DEF PutWrites, BlobTypeOK, NoPut
<1>5. CASE PutBreaks(w)
  BY <1>5, PutShape DEF PutBreaks, BlobTypeOK, NoPut
<1> QED BY <1>1, <1>2, <1>3, <1>4, <1>5 DEF BlobStep

\* A step of a put leaves no file truncated without account.
LEMMA BlobStepAccounted ==
  ASSUME BlobInv, NEW w \in Processes, BlobStep(w)
  PROVE  PartialIsAccounted'
<1> SUFFICES ASSUME NEW q \in Pages, files'[q] = "partial"
             PROVE  \/ q \in torn'
                    \/ \E v \in Processes : putting'[v] = [step |-> "open", page |-> q]
  BY DEF PartialIsAccounted
<1> USE DEF BlobInv
<1>1. ASSUME NEW p \in Pages, PutChecks(w, p) PROVE
        \/ q \in torn'
        \/ \E v \in Processes : putting'[v] = [step |-> "open", page |-> q]
  <2>1. files[q] = "partial" /\ torn' = torn
    BY <1>1 DEF PutChecks
  <2>2. CASE q \in torn BY <2>1, <2>2
  <2>3. ASSUME NEW v \in Processes, putting[v] = [step |-> "open", page |-> q]
        PROVE  putting'[v] = putting[v]
    <3>1. v # w BY <1>1, <2>3 DEF PutChecks, NoPut
    <3> QED BY <1>1, <3>1 DEF PutChecks, BlobTypeOK
  <2> QED BY <2>1, <2>2, <2>3 DEF PartialIsAccounted
<1>2. ASSUME NEW p \in Pages, PutFinds(w, p) PROVE
        \/ q \in torn'
        \/ \E v \in Processes : putting'[v] = [step |-> "open", page |-> q]
  BY <1>2 DEF PutFinds, PartialIsAccounted
<1>3. CASE PutOpens(w)
  <2>1. putting[w] # NoPut /\ putting[w].step = "absent"
    BY <1>3 DEF PutOpens, NoPut
  <2>2. putting'[w] = [step |-> "open", page |-> putting[w].page]
    BY <1>3, <2>1, PutShape DEF PutOpens, BlobTypeOK
  <2>3. CASE q = putting[w].page BY <2>2, <2>3
  <2>4. CASE q # putting[w].page
    <3>1. files[q] = "partial" /\ torn' = torn
      BY <1>3, <2>4 DEF PutOpens, BlobTypeOK
    <3>2. ASSUME NEW v \in Processes, putting[v] = [step |-> "open", page |-> q]
          PROVE  putting'[v] = putting[v]
      <4>1. v # w BY <2>1, <3>2
      <4> QED BY <1>3, <4>1 DEF PutOpens, BlobTypeOK
    <3> QED BY <3>1, <3>2 DEF PartialIsAccounted
  <2> QED BY <2>3, <2>4
<1>4. CASE PutWrites(w)
  <2>0. putting[w] # NoPut
    BY <1>4 DEF PutWrites, NoPut
  <2>1. putting[w] # NoPut /\ putting[w].page \in Pages
    BY <2>0, PutShape
  <2>2. q # putting[w].page
    BY <1>4, <2>1 DEF PutWrites, BlobTypeOK
  <2>3. files[q] = "partial" /\ torn' = torn
    BY <1>4, <2>2 DEF PutWrites, BlobTypeOK
  <2>4. ASSUME NEW v \in Processes, putting[v] = [step |-> "open", page |-> q]
        PROVE  putting'[v] = putting[v]
    <3>1. v # w BY <2>2, <2>4
    <3> QED BY <1>4, <3>1 DEF PutWrites, BlobTypeOK
  <2> QED BY <2>3, <2>4 DEF PartialIsAccounted
<1>5. CASE PutBreaks(w)
  <2>1. files[q] = "partial" /\ torn \subseteq torn'
    BY <1>5 DEF PutBreaks
  <2>2. CASE q \in torn BY <2>1, <2>2
  <2>3. ASSUME NEW v \in Processes, putting[v] = [step |-> "open", page |-> q]
        PROVE  q \in torn' \/ putting'[v] = putting[v]
    <3>1. CASE v = w BY <1>5, <2>1, <2>3, <3>1 DEF PutBreaks
    <3>2. CASE v # w BY <1>5, <3>2 DEF PutBreaks, BlobTypeOK
    <3> QED BY <3>1, <3>2
  <2> QED BY <2>1, <2>2, <2>3 DEF PartialIsAccounted
<1> QED BY <1>1, <1>2, <1>3, <1>4, <1>5 DEF BlobStep

-----------------------------------------------------------------------------
(* Type correctness *)

Entry == Links \cup {NoLink}

FeedsOK ==
  /\ feed \in [Processes -> Seq(Entry)]
  /\ results \in [Processes -> Seq(Result)]
  /\ \A w \in Processes : Len(feed[w]) + Len(results[w]) <= MaxEntries

\* A process between two runs has no results left.
IdleForgets == \A w \in Processes : step[w] = "idle" => results[w] = <<>>

Article == [link : Links, html : Pages \cup {NoPage}]

LEMMA MaxEntriesIsNat == MaxEntries \in Nat /\ MaxEntries > 0
  BY FetcherAssumption DEF FetcherAssumption

\* Taking an entry or a result, with or without adding a result.
LEMMA Shorter ==
  ASSUME NEW a \in Nat, NEW b \in Nat, NEW m \in Nat, a + b <= m
  PROVE  (a - 1) + b <= m /\ (a - 1) + (b + 1) <= m /\ a + (b - 1) <= m
  OBVIOUS

\* What a step may do to the feed and the results of one process.
LEMMA FeedsUpdated ==
  ASSUME FeedsOK, NEW w \in Processes, NEW f \in Seq(Entry), NEW r \in Seq(Result),
         Len(f) + Len(r) <= MaxEntries,
         feed' = [feed EXCEPT ![w] = f], results' = [results EXCEPT ![w] = r]
  PROVE  FeedsOK'
<1>1. feed' \in [Processes -> Seq(Entry)] /\ results' \in [Processes -> Seq(Result)]
  BY DEF FeedsOK
<1>2. ASSUME NEW v \in Processes PROVE Len(feed'[v]) + Len(results'[v]) <= MaxEntries
  <2>1. CASE v = w BY <2>1 DEF FeedsOK
  <2>2. CASE v # w BY <2>2 DEF FeedsOK
  <2> QED BY <2>1, <2>2
<1> QED BY <1>1, <1>2 DEF FeedsOK

\* The smaller of two lengths.
LEMMA MinOfTwo ==
  ASSUME NEW a \in Nat, NEW b \in Nat
  PROVE  Min({a, b}) \in Nat /\ Min({a, b}) <= a /\ Min({a, b}) <= b
<1>1. \E x \in {a, b} : \A y \in {a, b} : x <= y
  <2>1. CASE a <= b BY <2>1
  <2>2. CASE b <= a BY <2>2
  <2> QED BY <2>1, <2>2
<1> QED BY <1>1 DEF Min

\* The first entries of a feed.
LEMMA FirstEntries ==
  ASSUME NEW f \in Seq(Entry), NEW n \in Nat, n <= Len(f)
  PROVE  SubSeq(f, 1, n) \in Seq(Entry) /\ Len(SubSeq(f, 1, n)) = n
<1>1. \A i \in 1..n : f[i] \in Entry
  BY ElementOfSeq, LenProperties
<1> QED BY <1>1, SubSeqProperties

LEMMA LoadType ==
  ASSUME FeedsOK, IdleForgets, NEW w \in Processes, LoadFeed(w) \/ LoadPage(w)
  PROVE  FeedsOK'
<1>1. results[w] = <<>> /\ results' = [results EXCEPT ![w] = <<>>]
  BY DEF LoadFeed, LoadPage, FeedsOK, IdleForgets
<1>2. CASE LoadFeed(w)
  <2>1. PICK f \in Feeds \cup {<<>>} :
          feed' = [feed EXCEPT ![w] = SubSeq(f, 1, Min({Len(f), MaxEntries}))]
    BY <1>2 DEF LoadFeed
  <2>2. f \in Seq(Entry)
    BY FetcherAssumption, EmptySeq DEF FetcherAssumption, Entry
  <2>3. LET n == Min({Len(f), MaxEntries})
        IN  n \in Nat /\ n <= Len(f) /\ n <= MaxEntries
    BY <2>2, MinOfTwo, LenProperties, FetcherAssumption DEF FetcherAssumption
  <2> DEFINE n == Min({Len(f), MaxEntries})
             first == SubSeq(f, 1, n)
  <2>4. first \in Seq(Entry) /\ Len(first) <= MaxEntries
    BY <2>2, <2>3, FirstEntries
  <2>5. <<>> \in Seq(Result) /\ Len(<<>>) = 0
    BY EmptySeq
  <2> HIDE DEF n, first
  <2>6. Len(first) + Len(<<>>) <= MaxEntries
    BY <2>4, <2>5, LenProperties, FetcherAssumption DEF FetcherAssumption
  <2>7. feed' = [feed EXCEPT ![w] = first]
    BY <2>1 DEF first, n
  <2> QED BY <1>1, <2>4, <2>5, <2>6, <2>7, FeedsUpdated
<1>3. CASE LoadPage(w)
  <2>1. PICK l \in PageSources : feed' = [feed EXCEPT ![w] = <<l>>]
    BY <1>3 DEF LoadPage
  <2>2. <<l>> \in Seq(Entry) /\ Len(<<l>>) = 1
    BY FetcherAssumption DEF FetcherAssumption, Entry
  <2>3. <<>> \in Seq(Result) /\ Len(<<>>) = 0
    BY EmptySeq
  <2>4. Len(<<l>>) + Len(<<>>) <= MaxEntries
    BY <2>2, <2>3, FetcherAssumption DEF FetcherAssumption
  <2> QED BY <1>1, <2>1, <2>2, <2>3, <2>4, FeedsUpdated
<1> QED BY <1>2, <1>3

\* Entries are passed over, fetched, or replaced by their summaries.
LEMMA ReadType ==
  ASSUME FeedsOK, NEW w \in Processes,
         PassOverEntry(w) \/ FetchPage(w) \/ FallBack(w) \/ DropPage(w)
  PROVE  FeedsOK'
<1>1. feed[w] \in Seq(Entry) /\ feed[w] # <<>> /\ results[w] \in Seq(Result)
  BY DEF FeedsOK, PassOverEntry, FetchPage, FallBack, DropPage, AtEntry
<1>2. /\ Head(feed[w]) \in Entry /\ Tail(feed[w]) \in Seq(Entry)
      /\ Len(Tail(feed[w])) = Len(feed[w]) - 1
      /\ Len(feed[w]) \in Nat /\ Len(results[w]) \in Nat
      /\ Len(feed[w]) + Len(results[w]) <= MaxEntries
  BY <1>1, HeadTailProperties, LenProperties DEF FeedsOK
<1>3. feed' = [feed EXCEPT ![w] = Tail(feed[w])]
  BY DEF PassOverEntry, FetchPage, FallBack, DropPage, NextEntry
<1>4. CASE PassOverEntry(w) \/ DropPage(w)
  <2>1. results' = [results EXCEPT ![w] = results[w]]
    BY <1>4 DEF PassOverEntry, DropPage, FeedsOK
  <2>2. Len(Tail(feed[w])) + Len(results[w]) <= MaxEntries
    BY <1>2, Shorter, MaxEntriesIsNat
  <2> QED BY <1>1, <1>2, <1>3, <2>1, <2>2, FeedsUpdated
<1>5. CASE FetchPage(w) \/ FallBack(w)
  <2>1. PICK h \in Pages \cup {NoPage}, t \in BOOLEAN :
          results' = [results EXCEPT ![w] =
            Append(results[w], [link |-> Link(w), html |-> h, text |-> t])]
    BY <1>5 DEF FetchPage, FallBack, AddResult
  <2> DEFINE e == [link |-> Link(w), html |-> h, text |-> t]
  <2>2. e \in Result
    BY <1>2, <1>5 DEF FetchPage, FallBack, AtEntry, Link, Entry, Result
  <2> HIDE DEF e
  <2>3. /\ Append(results[w], e) \in Seq(Result)
        /\ Len(Append(results[w], e)) = Len(results[w]) + 1
    BY <1>1, <2>2, AppendProperties
  <2>4. Len(Tail(feed[w])) + Len(Append(results[w], e)) <= MaxEntries
    BY <1>2, <2>3, Shorter, MaxEntriesIsNat
  <2>5. results' = [results EXCEPT ![w] = Append(results[w], e)]
    BY <2>1 DEF e
  <2> QED BY <1>2, <1>3, <2>3, <2>4, <2>5, FeedsUpdated
<1> QED BY <1>4, <1>5

\* Results are taken one by one, or forgotten.
LEMMA TakeType ==
  ASSUME FeedsOK, NEW w \in Processes, feed' = feed, AtResult(w), NextResult(w)
  PROVE  FeedsOK'
<1>1. /\ feed[w] \in Seq(Entry) /\ results[w] \in Seq(Result) /\ results[w] # <<>>
      /\ Len(feed[w]) + Len(results[w]) <= MaxEntries
  BY DEF FeedsOK, AtResult
<1>2. /\ Tail(results[w]) \in Seq(Result)
      /\ Len(Tail(results[w])) = Len(results[w]) - 1
      /\ Len(feed[w]) \in Nat /\ Len(results[w]) \in Nat
  BY <1>1, HeadTailProperties, LenProperties
<1>3. Len(feed[w]) + Len(Tail(results[w])) <= MaxEntries
  BY <1>1, <1>2, Shorter, MaxEntriesIsNat
<1>4. feed' = [feed EXCEPT ![w] = feed[w]]
  BY DEF FeedsOK
<1>5. results' = [results EXCEPT ![w] = Tail(results[w])]
  BY DEF NextResult
<1> QED BY <1>1, <1>2, <1>3, <1>4, <1>5, FeedsUpdated

LEMMA ForgetType ==
  ASSUME FeedsOK, NEW w \in Processes, ForgetFeed(w)
  PROVE  FeedsOK'
<1>1. <<>> \in Seq(Entry) /\ <<>> \in Seq(Result) /\ Len(<<>>) + Len(<<>>) <= MaxEntries
  BY EmptySeq, FetcherAssumption DEF FetcherAssumption
<1> QED BY <1>1, FeedsUpdated DEF ForgetFeed

\* The article a result becomes.
LEMMA CurrentResult ==
  ASSUME FeedsOK, NEW w \in Processes, AtResult(w)
  PROVE  Current(w) \in Result
  BY HeadTailProperties DEF FeedsOK, AtResult, Current

\* The rest of TypeOK.
RestOK ==
  /\ robots \in [Processes -> [Sites -> {"unknown", "rules", "allow_all"}]]
  /\ open \in SUBSET Sites
  /\ step \in [Processes -> {"idle", "entry", "page", "store"}]
  /\ session \in [Processes -> SUBSET Article]
  /\ articles \in SUBSET Article

LEMMA TypeParts == TypeOK <=> BlobTypeOK /\ FeedsOK /\ RestOK
  BY DEF TypeOK, FeedsOK, RestOK, Entry, Article

LEMMA EntryHasSite ==
  ASSUME FeedsOK, NEW w \in Processes, AtEntry(w)
  PROVE  Link(w) \in Links /\ Site(w) \in Sites
<1>1. Head(feed[w]) \in Entry
  BY HeadTailProperties DEF FeedsOK, AtEntry
<1> QED BY <1>1, FetcherAssumption DEF FetcherAssumption, AtEntry, Link, Site, Entry

LEMMA FetchRest ==
  ASSUME FeedsOK, RestOK, IdleForgets, NEW w \in Processes, Fetch(w)
  PROVE  RestOK' /\ IdleForgets'
<1> USE DEF Fetch, RestOK, IdleForgets, FeedsOK, disk
<1>1. CASE LoadFeed(w) BY <1>1 DEF LoadFeed, StepTo
<1>2. CASE LoadPage(w) BY <1>2 DEF LoadPage, StepTo
<1>3. CASE PassOverEntry(w) \/ DropPage(w) BY <1>3 DEF PassOverEntry, DropPage
<1>4. CASE ReadRobots(w) BY <1>4 DEF ReadRobots, Learn
<1>5. CASE MissRobots(w) BY <1>5, EntryHasSite DEF MissRobots, Learn
<1>6. CASE FetchPage(w) \/ FallBack(w)
  BY <1>6 DEF FetchPage, FallBack, AtEntry, Reading, AddResult
<1> QED BY <1>1, <1>2, <1>3, <1>4, <1>5, <1>6 DEF FetchStep

\* The article of a result, added to its session.
LEMMA AddRest ==
  ASSUME FeedsOK, RestOK, IdleForgets, NEW w \in Processes, AtResult(w), Add(w)
  PROVE  RestOK' /\ IdleForgets'
<1>1. [link |-> Current(w).link, html |-> Current(w).html] \in Article
  BY CurrentResult DEF Result, Article
<1> DEFINE a == [link |-> Current(w).link, html |-> Current(w).html]
<1>2. a \in Article
  BY <1>1
<1>3. session' = [session EXCEPT ![w] = @ \cup {a}]
  BY DEF Add
<1> HIDE DEF a
<1>4. session' \in [Processes -> SUBSET Article]
  BY <1>2, <1>3 DEF RestOK
<1> QED BY <1>4 DEF Add, RestOK, IdleForgets, NextResult, AtResult, FeedsOK

\* Every step of a process is a step of its put or leaves the files alone.
LEMMA FilesStep ==
  ASSUME FeedsOK, NEW w \in Processes,
         \/ Fetch(w) \/ BeginStoring(w) \/ PassOver(w) \/ Put(w) \/ AddSummary(w)
         \/ Commit(w) \/ Error(w) \/ Crash(w)
  PROVE  BlobStep(w) \/ UNCHANGED disk
<1>1. CASE Put(w)
  <2>1. Current(w).html \in Pages
    BY <1>1, CurrentResult DEF Put, Result
  <2> QED BY <1>1, <2>1 DEF Put, BlobStep
<1> QED BY <1>1 DEF Fetch, BeginStoring, PassOver, AddSummary, Commit, Error, Crash, BlobStep

LEMMA TypeStep ==
  ASSUME TypeOK, IdleForgets, [Next]_vars
  PROVE  TypeOK' /\ IdleForgets'
<1>0. BlobTypeOK /\ FeedsOK /\ RestOK
  BY TypeParts
<1>1. CASE UNCHANGED vars
  BY <1>1 DEF TypeOK, BlobTypeOK, IdleForgets, vars, fetchVars, disk
<1>2. ASSUME NEW w \in Processes,
             \/ Fetch(w) \/ BeginStoring(w) \/ PassOver(w) \/ Put(w) \/ AddSummary(w)
             \/ Commit(w) \/ Error(w) \/ Crash(w)
      PROVE  TypeOK' /\ IdleForgets'
  <2>1. BlobTypeOK'
    <3>1. CASE BlobStep(w) BY <1>0, <3>1, BlobStepType
    <3>2. CASE UNCHANGED disk BY <1>0, <3>2 DEF BlobTypeOK, disk
    <3> QED BY <1>0, <1>2, <3>1, <3>2, FilesStep
  <2>2. FeedsOK' /\ RestOK' /\ IdleForgets'
    <3>1. CASE Fetch(w)
      <4>1. LoadFeed(w) \/ LoadPage(w) => FeedsOK'
        BY <1>0, LoadType
      <4>2. PassOverEntry(w) \/ FetchPage(w) \/ FallBack(w) \/ DropPage(w) => FeedsOK'
        BY <1>0, ReadType
      <4>3. ReadRobots(w) \/ MissRobots(w) => FeedsOK'
        BY <1>0 DEF ReadRobots, MissRobots, FeedsOK
      <4> QED BY <1>0, <3>1, <4>1, <4>2, <4>3, FetchRest DEF Fetch, FetchStep
    <3>2. CASE BeginStoring(w)
      BY <1>0, <3>2 DEF BeginStoring, FeedRead, Reading, StepTo, FeedsOK, RestOK, IdleForgets
    <3>3. CASE PassOver(w)
      BY <1>0, <3>3, TakeType DEF PassOver, RestOK, IdleForgets, AtResult, NextResult, FeedsOK
    <3>4. CASE Put(w)
      <4>1. CASE Add(w)
        BY <1>0, <3>4, <4>1, TakeType, AddRest DEF Put, Add
      <4>2. CASE UNCHANGED <<fetchVars, session, articles>>
        BY <1>0, <4>2 DEF fetchVars, FeedsOK, RestOK, IdleForgets
      <4> QED BY <3>4, <4>1, <4>2 DEF Put
    <3>5. CASE AddSummary(w)
      BY <1>0, <3>5, TakeType, AddRest DEF AddSummary, Add
    <3>6. CASE Commit(w)
      <4>1. FeedsOK' BY <1>0, <3>6, ForgetType DEF Commit
      <4> QED BY <1>0, <3>6, <4>1 DEF Commit, ForgetFeed, StepTo, RestOK, IdleForgets, FeedsOK
    <3>7. CASE Error(w) \/ Crash(w)
      <4>1. FeedsOK' BY <1>0, <3>7, ForgetType DEF Error, Crash
      <4>2. Unknown \in [Sites -> {"unknown", "rules", "allow_all"}]
        BY DEF Unknown
      <4>3. RestOK'
        <5>1. robots' \in [Processes -> [Sites -> {"unknown", "rules", "allow_all"}]]
          <6>1. CASE Error(w) BY <1>0, <6>1 DEF Error, RestOK
          <6>2. CASE Crash(w) BY <1>0, <4>2, <6>2 DEF Crash, RestOK
          <6> QED BY <3>7, <6>1, <6>2
        <5>2. session' \in [Processes -> SUBSET Article]
          BY <1>0, <3>7 DEF Error, Crash, RestOK
        <5>3. step' \in [Processes -> {"idle", "entry", "page", "store"}]
          BY <1>0, <3>7 DEF Error, Crash, ForgetFeed, StepTo, RestOK
        <5> QED BY <1>0, <3>7, <5>1, <5>2, <5>3 DEF Error, Crash, RestOK
      <4>4. IdleForgets'
        BY <1>0, <3>7 DEF Error, Crash, ForgetFeed, IdleForgets, StepTo, FeedsOK, RestOK
      <4> QED BY <4>1, <4>3, <4>4
    <3> QED BY <1>2, <3>1, <3>2, <3>3, <3>4, <3>5, <3>6, <3>7
  <2>3. TypeOK' <=> BlobTypeOK' /\ FeedsOK' /\ RestOK'
    BY DEF TypeOK, FeedsOK, RestOK, Entry, Article
  <2> QED BY <2>1, <2>2, <2>3
<1> QED BY <1>1, <1>2 DEF Next

LEMMA InitType == Init => TypeOK /\ IdleForgets
<1> SUFFICES ASSUME Init PROVE TypeOK /\ IdleForgets
  OBVIOUS
<1>1. <<>> \in Seq(Entry) /\ <<>> \in Seq(Result) /\ Len(<<>>) + Len(<<>>) <= MaxEntries
  BY EmptySeq, MaxEntriesIsNat
<1>2. FeedsOK /\ RestOK /\ IdleForgets
  BY <1>1 DEF Init, FetcherInit, Unknown, FeedsOK, RestOK, IdleForgets
<1>3. BlobTypeOK
  BY DEF Init, BlobInit, BlobTypeOK
<1> QED BY <1>2, <1>3, TypeParts

\* The steps of fetching and storing keep every variable in its range, the
\* entries and results of a run within the cap on entries.
THEOREM TypeCorrect == Spec => []TypeOK
<1>1. TypeOK /\ IdleForgets /\ [Next]_vars => (TypeOK /\ IdleForgets)'
  BY TypeStep
<1> QED BY InitType, <1>1, PTL DEF Spec

-----------------------------------------------------------------------------
(* Truncated files *)

\* Only puts touch files: a truncated one is being written, or accounted for.
THEOREM TruncationsAccounted == Spec => []PartialIsAccounted
<1>1. Init => PartialIsAccounted
  BY DEF Init, BlobInit, PartialIsAccounted
<1>2. TypeOK /\ PartialIsAccounted /\ [Next]_vars => PartialIsAccounted'
  <2> SUFFICES ASSUME TypeOK, PartialIsAccounted, [Next]_vars
               PROVE  PartialIsAccounted'
    OBVIOUS
  <2>0. BlobTypeOK /\ FeedsOK
    BY TypeParts
  <2>1. CASE UNCHANGED disk
    BY <2>1 DEF disk, PartialIsAccounted
  <2>2. ASSUME NEW w \in Processes, BlobStep(w) PROVE PartialIsAccounted'
    BY <2>0, <2>2, BlobStepAccounted DEF BlobInv
  <2>3. UNCHANGED disk \/ \E w \in Processes : BlobStep(w)
    <3>1. CASE UNCHANGED vars BY <3>1 DEF vars
    <3>2. CASE Next BY <2>0, <3>2, FilesStep DEF Next
    <3> QED BY <3>1, <3>2
  <2> QED BY <2>1, <2>2, <2>3
<1> QED BY <1>1, <1>2, TypeCorrect, PTL DEF Spec

-----------------------------------------------------------------------------
(* Articles and their files *)

\* The put of a process is that of the page of its current result.
PutIsCurrent ==
  \A w \in Processes :
    putting[w] # NoPut => AtResult(w) /\ putting[w].page = Current(w).html

LEMMA PutStaysCurrent ==
  ASSUME TypeOK, PutIsCurrent, [Next]_vars
  PROVE  PutIsCurrent'
<1>0. BlobTypeOK /\ FeedsOK /\ RestOK
  BY TypeParts
<1> SUFFICES ASSUME NEW v \in Processes, putting'[v] # NoPut
             PROVE  /\ step'[v] = "store" /\ results'[v] # <<>>
                    /\ putting'[v].page = Head(results'[v]).html
  BY DEF PutIsCurrent, AtResult, Current
<1>1. CASE UNCHANGED <<step[v], results[v], putting[v]>>
  BY <1>1 DEF PutIsCurrent, AtResult, Current
<1>2. CASE UNCHANGED vars
  BY <1>1, <1>2 DEF vars, fetchVars, disk
<1>3. ASSUME NEW w \in Processes,
             \/ Fetch(w) \/ BeginStoring(w) \/ PassOver(w) \/ Put(w) \/ AddSummary(w)
             \/ Commit(w) \/ Error(w) \/ Crash(w)
      PROVE  v = w \/ UNCHANGED <<step[v], results[v], putting[v]>>
  <2>1. CASE Put(w)
    BY <1>0, <2>1 DEF Put, PutChecks, PutOpens, PutWrites, PutFinds, Add, NextResult,
                      fetchVars, FeedsOK, RestOK, BlobTypeOK
  <2>2. CASE Fetch(w)
    BY <1>0, <2>2 DEF Fetch, FetchStep, LoadFeed, LoadPage, PassOverEntry, ReadRobots,
                      MissRobots, FetchPage, FallBack, DropPage, AddResult, StepTo, disk,
                      FeedsOK, RestOK, BlobTypeOK
  <2>3. CASE BeginStoring(w) \/ PassOver(w) \/ AddSummary(w)
    BY <1>0, <2>3 DEF BeginStoring, PassOver, AddSummary, Add, NextResult, StepTo, disk,
                      FeedsOK, RestOK, BlobTypeOK
  <2>4. CASE Commit(w) \/ Error(w) \/ Crash(w)
    BY <1>0, <2>4 DEF Commit, Error, Crash, PutBreaks, ForgetFeed, StepTo, disk,
                      FeedsOK, RestOK, BlobTypeOK
  <2> QED BY <1>3, <2>1, <2>2, <2>3, <2>4
<1>4. CASE Fetch(v) \/ BeginStoring(v) \/ Commit(v)
  <2>1. putting[v] = NoPut
    BY <1>4 DEF PutIsCurrent, AtResult, Fetch, FetchStep, LoadFeed, LoadPage, PassOverEntry,
                ReadRobots, MissRobots, FetchPage, FallBack, DropPage, AtEntry, Reading,
                BeginStoring, FeedRead, Commit
  <2> QED BY <1>4, <2>1 DEF Fetch, BeginStoring, Commit, disk
<1>5. CASE PassOver(v)
  BY <1>5 DEF PassOver, disk
<1>6. CASE AddSummary(v)
  <2>1. putting[v] = NoPut
    BY <1>0, <1>6, PutShape, FetcherAssumption
    DEF AddSummary, PutIsCurrent, FetcherAssumption
  <2> QED BY <1>6, <2>1 DEF AddSummary, disk
<1>7. CASE Error(v) \/ Crash(v)
  BY <1>0, <1>7 DEF Error, Crash, PutBreaks, BlobTypeOK
<1>8. CASE Put(v)
  <2>1. CASE PutWrites(v)
    BY <1>0, <2>1 DEF PutWrites, BlobTypeOK
  <2>2. CASE PutFinds(v, Current(v).html)
    BY <2>2 DEF PutFinds
  <2>3. CASE PutChecks(v, Current(v).html) /\ UNCHANGED fetchVars
    BY <1>0, <1>8, <2>3
    DEF PutChecks, BlobTypeOK, Put, AtResult, Current, fetchVars
  <2>4. CASE PutOpens(v) /\ UNCHANGED fetchVars
    <3>1. putting[v] # NoPut
      BY <2>4 DEF PutOpens, NoPut
    <3>2. putting'[v].page = putting[v].page
      BY <1>0, <2>4, <3>1, PutShape DEF PutOpens, BlobTypeOK
    <3> QED
      BY <2>4, <3>1, <3>2 DEF PutIsCurrent, AtResult, Current, fetchVars
  <2> QED BY <1>8, <2>1, <2>2, <2>3, <2>4 DEF Put
<1> QED BY <1>1, <1>2, <1>3, <1>4, <1>5, <1>6, <1>7, <1>8 DEF Next

\* Files never go away, and an article comes after the file of its page.
LEMMA FilesStay ==
  ASSUME BlobTypeOK, NEW w \in Processes, BlobStep(w) \/ UNCHANGED disk,
         NEW p \in Pages, files[p] # "absent"
  PROVE  files'[p] # "absent"
  BY DEF BlobStep, PutChecks, PutFinds, PutOpens, PutWrites, PutBreaks, BlobTypeOK, disk

LEMMA PageIsThere ==
  ASSUME TypeOK, PutIsCurrent, NEW w \in Processes, Put(w), Add(w)
  PROVE  files'[Current(w).html] # "absent"
<1>0. BlobTypeOK /\ FeedsOK
  BY TypeParts
<1>1. CASE PutFinds(w, Current(w).html)
  BY <1>1 DEF PutFinds
<1>2. CASE PutWrites(w)
  <2>1. putting[w] # NoPut
    BY <1>2 DEF PutWrites, NoPut
  <2>2. putting[w].page = Current(w).html /\ putting[w].page \in Pages
    BY <1>0, <2>1, PutShape DEF PutIsCurrent
  <2> QED BY <1>0, <1>2, <2>2 DEF PutWrites, BlobTypeOK
<1>3. results' # results
  <2>1. results[w] \in Seq(Result) /\ results[w] # <<>> /\ results'[w] = Tail(results[w])
    BY <1>0 DEF Put, AtResult, Add, NextResult, FeedsOK
  <2>2. Len(Tail(results[w])) = Len(results[w]) - 1 /\ Len(results[w]) \in Nat
    BY <2>1, HeadTailProperties, LenProperties
  <2>3. Len(Tail(results[w])) # Len(results[w])
    BY <2>2
  <2> QED BY <2>1, <2>3
<1> QED BY <1>1, <1>2, <1>3 DEF Put, fetchVars

\* ArticlesHaveFiles, without the union over the sessions.
HasFile(a, fs) == a.html # NoPage => fs[a.html] # "absent"

FilesForAll ==
  /\ \A a \in articles : HasFile(a, files)
  /\ \A w \in Processes : \A a \in session[w] : HasFile(a, files)

LEMMA FilesForAllIs == FilesForAll <=> ArticlesHaveFiles
  BY DEF FilesForAll, HasFile, ArticlesHaveFiles

LEMMA FilesForAllStep ==
  ASSUME TypeOK, PutIsCurrent, FilesForAll, [Next]_vars
  PROVE  FilesForAll'
<1>0. BlobTypeOK /\ FeedsOK /\ RestOK
  BY TypeParts
<1>1. CASE UNCHANGED vars
  BY <1>1 DEF vars, disk, FilesForAll, HasFile
<1>2. ASSUME NEW w \in Processes,
             \/ Fetch(w) \/ BeginStoring(w) \/ PassOver(w) \/ Put(w) \/ AddSummary(w)
             \/ Commit(w) \/ Error(w) \/ Crash(w)
      PROVE  FilesForAll'
  <2>1. ASSUME NEW a \in Article, HasFile(a, files) PROVE HasFile(a, files')
    <3>1. CASE a.html = NoPage BY <3>1 DEF HasFile
    <3>2. CASE a.html # NoPage
      <4>1. a.html \in Pages BY <3>2 DEF Article
      <4>2. BlobStep(w) \/ UNCHANGED disk BY <1>0, <1>2, FilesStep
      <4> QED BY <1>0, <2>1, <3>2, <4>1, <4>2, FilesStay DEF HasFile
    <3> QED BY <3>1, <3>2
  <2>2. \A a \in articles : HasFile(a, files')
    BY <1>0, <2>1 DEF FilesForAll, RestOK
  <2>3. \A v \in Processes : \A a \in session[v] : HasFile(a, files')
    BY <1>0, <2>1 DEF FilesForAll, RestOK
  <2>4. CASE Add(w) /\ (Put(w) \/ AddSummary(w))
    <3> DEFINE b == [link |-> Current(w).link, html |-> Current(w).html]
    <3>1. HasFile(b, files')
      <4>1. b.html = Current(w).html OBVIOUS
      <4>2. CASE Put(w)
        BY <2>4, <4>1, <4>2, PageIsThere DEF HasFile
      <4>3. CASE AddSummary(w)
        BY <4>1, <4>3 DEF HasFile, AddSummary
      <4> QED BY <2>4, <4>2, <4>3
    <3>2. session' = [session EXCEPT ![w] = @ \cup {b}] /\ articles' = articles
      BY <2>4 DEF Add
    <3> HIDE DEF b
    <3> QED BY <1>0, <2>2, <2>3, <3>1, <3>2 DEF FilesForAll, RestOK
  <2>5. CASE UNCHANGED <<session, articles>>
    BY <2>2, <2>3, <2>5 DEF FilesForAll
  <2>6. CASE Commit(w)
    BY <1>0, <2>2, <2>3, <2>6 DEF Commit, FilesForAll, RestOK
  <2>7. CASE Error(w) \/ Crash(w)
    BY <1>0, <2>2, <2>3, <2>7 DEF Error, Crash, FilesForAll, RestOK
  <2> QED
    BY <1>2, <2>4, <2>5, <2>6, <2>7
    DEF Fetch, BeginStoring, PassOver, Put, AddSummary, Add
<1> QED BY <1>1, <1>2 DEF Next

\* The file of a page is there before its article is added, and stays.
THEOREM PagesHaveFiles == Spec => []ArticlesHaveFiles
<1>1. Init => PutIsCurrent /\ FilesForAll
  BY DEF Init, BlobInit, PutIsCurrent, FilesForAll
<1>2. TypeOK /\ PutIsCurrent /\ FilesForAll /\ [Next]_vars => (PutIsCurrent /\ FilesForAll)'
  BY PutStaysCurrent, FilesForAllStep
<1> QED BY <1>1, <1>2, FilesForAllIs, TypeCorrect, PTL DEF Spec

-----------------------------------------------------------------------------
(* The rules of sites *)

Obedient(a, sites) ==
  a.link \in Disallowed /\ a.html # NoPage => SiteOf[a.link] \in sites

\* allow_all stands for rules that could not be read, and what is fetched,
\* about to be stored, or stored obeys the rules that were.
RobotsInv ==
  /\ \A w \in Processes, s \in Sites : robots[w][s] = "allow_all" => s \in open
  /\ \A a \in articles : Obedient(a, open)
  /\ \A w \in Processes : \A a \in session[w] : Obedient(a, open)
  /\ \A w \in Processes : \A i \in 1..Len(results[w]) : Obedient(results[w][i], open)

LEMMA RobotsInvIs == TypeOK /\ RobotsInv => RobotsObeyed
<1> SUFFICES ASSUME TypeOK, RobotsInv,
                    NEW a \in articles \cup
                      UNION {session[w] \cup ToSet(results[w]) : w \in Processes}
             PROVE  Obedient(a, open)
  BY DEF RobotsObeyed, Obedient
<1>1. CASE a \in articles BY <1>1 DEF RobotsInv
<1>2. ASSUME NEW w \in Processes, a \in session[w] PROVE Obedient(a, open)
  BY <1>2 DEF RobotsInv
<1>3. ASSUME NEW w \in Processes, a \in ToSet(results[w]) PROVE Obedient(a, open)
  <2>1. DOMAIN results[w] = 1..Len(results[w])
    BY LenProperties DEF TypeOK
  <2> QED BY <1>3, <2>1 DEF ToSet, RobotsInv
<1> QED BY <1>1, <1>2, <1>3

LEMMA RobotsStep ==
  ASSUME TypeOK, RobotsInv, [Next]_vars
  PROVE  RobotsInv'
<1>0. FeedsOK /\ RestOK
  BY TypeParts
<1>1. CASE UNCHANGED vars
  BY <1>1 DEF vars, fetchVars, RobotsInv, Obedient
<1>2. ASSUME NEW w \in Processes,
             \/ Fetch(w) \/ BeginStoring(w) \/ PassOver(w) \/ Put(w) \/ AddSummary(w)
             \/ Commit(w) \/ Error(w) \/ Crash(w)
      PROVE  RobotsInv'
  <2>1. open \subseteq open'
    BY <1>2 DEF Fetch, FetchStep, LoadFeed, LoadPage, PassOverEntry, ReadRobots, MissRobots,
                FetchPage, FallBack, DropPage, BeginStoring, PassOver, Put, AddSummary,
                Commit, Error, Crash, Add, fetchVars
  <2>2. \A a : Obedient(a, open) => Obedient(a, open')
    BY <2>1 DEF Obedient
  <2>3. \A v \in Processes, s \in Sites : robots'[v][s] = "allow_all" => s \in open'
    <3>1. CASE ReadRobots(w)
      BY <1>0, <2>1, <3>1, EntryHasSite DEF ReadRobots, Learn, RestOK, RobotsInv
    <3>2. CASE MissRobots(w)
      BY <1>0, <2>1, <3>2, EntryHasSite DEF MissRobots, Learn, RestOK, RobotsInv
    <3>3. CASE Crash(w)
      BY <1>0, <2>1, <3>3 DEF Crash, Unknown, RestOK, RobotsInv
    <3>4. CASE robots' = robots
      BY <2>1, <3>4 DEF RobotsInv
    <3> QED
      BY <1>2, <3>1, <3>2, <3>3, <3>4
      DEF Fetch, FetchStep, LoadFeed, LoadPage, PassOverEntry, FetchPage, FallBack,
          DropPage, BeginStoring, PassOver, Put, AddSummary, Commit, Error, Add, fetchVars
  <2>4. \A v \in Processes : \A i \in 1..Len(results'[v]) : Obedient(results'[v][i], open')
    <3>1. ASSUME NEW r \in Seq(Result), results' = [results EXCEPT ![w] = r],
                 \A i \in 1..Len(r) : Obedient(r[i], open')
          PROVE  \A v \in Processes : \A i \in 1..Len(results'[v]) : Obedient(results'[v][i], open')
      <4> SUFFICES ASSUME NEW v \in Processes, NEW i \in 1..Len(results'[v])
                   PROVE  Obedient(results'[v][i], open')
        OBVIOUS
      <4>1. CASE v = w BY <1>0, <3>1, <4>1 DEF FeedsOK
      <4>2. CASE v # w BY <1>0, <2>2, <3>1, <4>2 DEF FeedsOK, RobotsInv
      <4> QED BY <4>1, <4>2
    <3>2. CASE ForgetFeed(w)
      <4>1. <<>> \in Seq(Result) /\ Len(<<>>) = 0
        BY EmptySeq
      <4>2. \A i \in 1..Len(<<>>) : Obedient(<<>>[i], open')
        BY <4>1
      <4>3. results' = [results EXCEPT ![w] = <<>>]
        BY <3>2 DEF ForgetFeed
      <4> QED BY <3>1, <4>1, <4>2, <4>3
    <3>3. CASE AtResult(w) /\ NextResult(w)
      <4>1. results[w] \in Seq(Result) /\ results[w] # <<>>
        BY <1>0, <3>3 DEF FeedsOK, AtResult
      <4>2. /\ Tail(results[w]) \in Seq(Result)
            /\ Len(Tail(results[w])) = Len(results[w]) - 1
            /\ Len(results[w]) \in Nat
            /\ \A i \in 1..Len(Tail(results[w])) : Tail(results[w])[i] = results[w][i + 1]
        BY <4>1, HeadTailProperties, LenProperties
      <4>3. \A i \in 1..Len(Tail(results[w])) : i + 1 \in 1..Len(results[w])
        BY <4>2
      <4>4. \A i \in 1..Len(Tail(results[w])) : Obedient(Tail(results[w])[i], open')
        BY <2>2, <4>2, <4>3 DEF RobotsInv
      <4> QED BY <3>1, <3>3, <4>2, <4>4 DEF NextResult
    <3>4. CASE FetchPage(w) \/ FallBack(w)
      <4>1. PICK h \in Pages \cup {NoPage}, t \in BOOLEAN :
              /\ results' = [results EXCEPT ![w] =
                   Append(results[w], [link |-> Link(w), html |-> h, text |-> t])]
              /\ h # NoPage => CanFetch(w)
        BY <3>4 DEF FetchPage, FallBack, AddResult
      <4> DEFINE e == [link |-> Link(w), html |-> h, text |-> t]
      <4>2. Link(w) \in Links /\ Site(w) \in Sites
        BY <1>0, <3>4, EntryHasSite DEF FetchPage, FallBack
      <4>3. e \in Result
        BY <4>2 DEF Result
      <4>4. Obedient(e, open)
        BY <4>1, <4>2 DEF Obedient, CanFetch, RobotsInv, Site
      <4> HIDE DEF e
      <4>5. /\ Append(results[w], e) \in Seq(Result)
            /\ Len(Append(results[w], e)) = Len(results[w]) + 1
            /\ \A i \in 1..Len(results[w]) : Append(results[w], e)[i] = results[w][i]
            /\ Append(results[w], e)[Len(results[w]) + 1] = e
            /\ Len(results[w]) \in Nat
        BY <1>0, <4>3, AppendProperties, LenProperties DEF FeedsOK
      <4>6. ASSUME NEW i \in 1..Len(Append(results[w], e))
            PROVE  Obedient(Append(results[w], e)[i], open')
        <5>1. CASE i = Len(results[w]) + 1
          BY <2>2, <4>4, <4>5, <5>1
        <5>2. CASE i \in 1..Len(results[w])
          BY <2>2, <4>5, <5>2 DEF RobotsInv
        <5> QED BY <4>5, <5>1, <5>2
      <4>7. results' = [results EXCEPT ![w] = Append(results[w], e)]
        BY <4>1 DEF e
      <4> QED BY <3>1, <4>5, <4>6, <4>7
    <3>5. CASE results' = results
      BY <2>2, <3>5 DEF RobotsInv
    <3> QED
      BY <1>2, <3>2, <3>3, <3>4, <3>5
      DEF Fetch, FetchStep, LoadFeed, LoadPage, PassOverEntry, ReadRobots, MissRobots,
          DropPage, BeginStoring, PassOver, Put, AddSummary, Add, Commit, Error, Crash, fetchVars
  <2>5. ASSUME AtResult(w)
        PROVE  Obedient([link |-> Current(w).link, html |-> Current(w).html], open')
    <3>1. results[w] \in Seq(Result) /\ results[w] # <<>>
      BY <1>0, <2>5 DEF FeedsOK, AtResult
    <3>2. Current(w) = results[w][1] /\ 1 \in 1..Len(results[w])
      BY <3>1, EmptySeq DEF Current
    <3>3. Obedient(Current(w), open)
      BY <3>2 DEF RobotsInv
    <3> QED BY <2>2, <3>3 DEF Obedient
  <2>6. /\ \A a \in articles' : Obedient(a, open')
        /\ \A v \in Processes : \A a \in session'[v] : Obedient(a, open')
    <3>1. CASE Add(w) /\ AtResult(w)
      <4> DEFINE b == [link |-> Current(w).link, html |-> Current(w).html]
      <4>1. session' = [session EXCEPT ![w] = @ \cup {b}] /\ articles' = articles
        BY <3>1 DEF Add
      <4>2. Obedient(b, open')
        BY <2>5, <3>1
      <4> HIDE DEF b
      <4> QED BY <1>0, <2>2, <4>1, <4>2 DEF RobotsInv, RestOK
    <3>2. CASE UNCHANGED <<session, articles>>
      BY <2>2, <3>2 DEF RobotsInv
    <3>3. CASE Commit(w)
      BY <1>0, <2>2, <3>3 DEF Commit, RobotsInv, RestOK
    <3>4. CASE Error(w) \/ Crash(w)
      BY <1>0, <2>2, <3>4 DEF Error, Crash, RobotsInv, RestOK
    <3> QED
      BY <1>2, <3>1, <3>2, <3>3, <3>4
      DEF Fetch, BeginStoring, PassOver, Put, AddSummary, Add
  <2> QED BY <2>3, <2>4, <2>6 DEF RobotsInv
<1> QED BY <1>1, <1>2 DEF Next

\* No process fetches what the rules it has read keep robots from, and what it
\* has fetched without rules is accounted for, however often processes die.
THEOREM RobotsRespected == Spec => []RobotsObeyed
<1>1. Init => RobotsInv
  <2> SUFFICES ASSUME Init PROVE RobotsInv
    OBVIOUS
  <2>1. \A w \in Processes : Len(results[w]) = 0
    BY EmptySeq DEF Init, FetcherInit
  <2> QED BY <2>1 DEF Init, FetcherInit, Unknown, RobotsInv
<1>2. TypeOK /\ RobotsInv /\ [Next]_vars => RobotsInv'
  BY RobotsStep
<1> QED BY <1>1, <1>2, RobotsInvIs, TypeCorrect, PTL DEF Spec
=============================================================================
