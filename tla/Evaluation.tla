------------------------------ MODULE Evaluation ------------------------------
(***************************************************************************)
(* run_evaluation (packages/eval/evaluator.py), the body of eval_task: two *)
(* rates, each a quotient of two counts that are SELECTed one after the    *)
(* other, and so on two states of the database.                            *)
(*                                                                         *)
(* A state holds the alerts of the window, and for each alert the number   *)
(* of its backtests that moved by more than 2%; the briefings of the       *)
(* window, and those of them that cite something.                          *)
(***************************************************************************)
EXTENDS Integers, FiniteSets

CONSTANT
  NoRate        \* None: nothing to divide by

Rate(count, total) == IF total > 0 THEN [count |-> count, total |-> total] ELSE NoRate

\* Backtests that moved, joined with their alerts.
Joined(db, alerts) == UNION {{alert} \X (1..db.significant[alert]) : alert \in alerts}

\* Mutated form: the window of the alerts is forgotten.
SignificantEver(db) == Cardinality(Joined(db, DOMAIN db.significant))

\* count(*) of the join with the alerts of the window
Significant(db) == Cardinality(Joined(db, db.alerts))

AlertPrecision(db1, db2) == Rate(Significant(db2), Cardinality(db1.alerts))
CitationRate(db3, db4) == Rate(Cardinality(db4.cited), Cardinality(db3.briefings))

\* rate < tenths / 10 and rate > tenths / 10
Below(rate, tenths) == rate # NoRate /\ 10 * rate.count < tenths * rate.total
Above(rate, tenths) == rate # NoRate /\ 10 * rate.count > tenths * rate.total

\* The record committed by an evaluation whose four SELECTs saw db1 to db4.
Evaluate(db1, db2, db3, db4) ==
  LET precision == AlertPrecision(db1, db2)
      cited == CitationRate(db3, db4)
  IN  [precision |-> precision, cited |-> cited,
       adjustments |->
         (IF Below(precision, 3) THEN {"raise_threshold"} ELSE {})
         \cup (IF Above(precision, 7) THEN {"threshold_fits"} ELSE {})
         \cup (IF Below(cited, 8) THEN {"check_citations"} ELSE {})]
=============================================================================
