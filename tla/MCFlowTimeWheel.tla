-------------------------- MODULE MCFlowTimeWheel ---------------------------
(* Two flows and three moments: enough for stale records above and below  *)
(* a live one, a re-planned flow and a bystander on top of the heap.       *)
EXTENDS FlowTimeWheel

=============================================================================
