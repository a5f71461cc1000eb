---------------------------- MODULE MCFreezeGate ----------------------------
(***************************************************************************)
(* Instances of FreezeGate for TLC.  The objective is 99%, so the budget   *)
(* is 100 ten-thousandths: an error ratio of 100 spends all of it, 97      *)
(* leaves 3%, 95 leaves exactly the 5% that unfreezes.                     *)
(***************************************************************************)
EXTENDS FreezeGate, TLC

Sample(window, hour) == [window |-> window, hour |-> hour]

(* Every side of both thresholds, and every way a reading can be missing. *)
AllSamples ==
  { Sample(Value(-1), Value(0)),      \* rounding below zero: all of it left
    Sample(Value(95), NoData),        \* exactly 5% left
    Sample(Value(97), Value(1440)),   \* 3% left and a fast burn
    Sample(Value(100), Value(0)),     \* exactly nothing left
    Sample(Value(250), InfValue),     \* overspent, unusable hour
    Sample(QueryError, NoData),
    Sample(Value(0), QueryError),     \* only the second query fails
    Sample(NoData, NoData),
    Sample(InfValue, Value(0)) }

(* The readings that differ in what they do to the freeze. *)
FewSamples ==
  { Sample(Value(0), Value(0)), Sample(Value(97), Value(0)),
    Sample(Value(250), Value(0)), Sample(QueryError, NoData) }

(* Images and reasons are interchangeable in a run without liveness. *)
Interchangeable == Permutations(Images) \cup Permutations(Reasons)
=============================================================================
