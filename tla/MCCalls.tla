------------------------------- MODULE MCCalls --------------------------------
(***************************************************************************)
(* The arguments Calls is checked with.                                    *)
(***************************************************************************)
EXTENDS Calls, TLC

UpTo(n, S) == UNION {[1..m -> S] : m \in 0..n}

MCSimilarities == -2..1

\* A citation without a chunk_id.
NoChunk == 0

MCObjects == [citations : UpTo(2, {1, 2, NoChunk}), items : UpTo(2, SUBSET {1, 2})]
MCContexts == SUBSET {1, 2}

MCHistories == UNION {[days -> 0..2] : days \in SUBSET (1..4)}
MCAlerts ==
  {None} \cup
  [day : 2..3,
   entities : {<<>>, <<[name |-> "Opec", length |-> 4, upper |-> FALSE],
                      [name |-> "SANCTIONS", length |-> 9, upper |-> TRUE],
                      [name |-> "ACME", length |-> 4, upper |-> TRUE]>>}]
MCHoldings == -1..2

Words == {"halted", "breaking", "alert", "surge", "crash", "opec", "ACME", "BETA"}
MCInside ==
  [w \in Words |-> IF w = "halted" THEN {"halt", "halted"} ELSE {w} \ {"ACME", "BETA"}]
MCMagnitude == {"halt", "halted", "alert", "surge", "crash"}
MCTitleSignals == {"breaking", "alert", "halt", "crisis"}
MCArticles ==
  [text : SUBSET Words, title : SUBSET {"halted", "breaking", "alert", "ACME", "surge"},
   credibility : {0, 65, 100, 150}]

Parts == [key : Keys \cup Tracking, upper : BOOLEAN, slashes : 0..1]
MCUrls ==
  [stem : Stems, slashes : 0..1, query : UpTo(2, Parts),
   fragment : Fragments \cup {NoFragment}]
=============================================================================
