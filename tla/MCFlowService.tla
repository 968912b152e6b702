---------------------------- MODULE MCFlowService ---------------------------
(* Small instances of FlowService for TLC: one root dataset, or a root dataset *)
(* and a dataset derived from it.                                              *)
EXTENDS FlowService

Root    == "root"
Derived == "derived"

RootRule     == [k \in {Root} |-> "TimeDelta"]
RootOnly     == [k \in {Root} |-> {}]
PairRules    == [k \in {Root, Derived} |-> IF k = Root THEN "TimeDelta" ELSE "Transform"]
CronPairRules == [k \in {Root, Derived} |-> IF k = Root THEN "Cron" ELSE "Transform"]
PairGraph    == [k \in {Root, Derived} |-> IF k = Root THEN {Derived} ELSE {}]
=============================================================================
