--------------------------- MODULE FlowTimeWheel ----------------------------
(***************************************************************************)
(* The time wheel of the flow service: a binary heap of (moment, flow)     *)
(* records ordered by moment and then by flow id, next to a map from flow  *)
(* to the moment it is planned for.  A record is never removed from the    *)
(* middle of the heap: cancelling or re-planning a flow leaves a stale     *)
(* record behind, which is popped once it reaches the top.                 *)
(*                                                                         *)
(* Every operation runs under the flow service's state mutex, so each one  *)
(* is a single action.                                                     *)
(***************************************************************************)
EXTENDS Naturals

CONSTANTS FlowIds, Times,
          MaxCopies        \* bound: equal records the heap may hold

ASSUME WheelFlowIdsAssumption == FlowIds \subseteq Nat
ASSUME WheelTimesAssumption   == Times \subseteq Nat \ {0}
ASSUME MaxCopiesAssumption    == MaxCopies \in Nat \ {0}

VARIABLES flow_heap,                    \* how often the heap holds each record
          flow_activation_times_by_id,  \* the map
          taken,                        \* what the last take returned, as a bag
          cancelled                     \* history: flows that were ever cancelled

wheelVars == <<flow_heap, flow_activation_times_by_id>>
vars == <<flow_heap, flow_activation_times_by_id, taken, cancelled>>

NotPlanned == 0         \* no moment of the model is 0

Records == Times \X FlowIds

\* FlowRecord's derived ordering.
AtOrBefore(r, s) == r[1] < s[1] \/ (r[1] = s[1] /\ r[2] <= s[2])

InHeap(heap, r) == heap[r] > 0

IsTop(heap, r) == InHeap(heap, r) /\ \A s \in Records : InHeap(heap, s) => AtOrBefore(r, s)

is_flow_activation_planned_at(times, f, m) == times[f] = m

Live(times, r) == is_flow_activation_planned_at(times, r[2], r[1])

\* Pops stale records off the top: what stays is everything from the first
\* live record on.
NoCleaning(heap, times) == heap
clean_top_cancellations(heap, times) ==
    [r \in Records |->
        IF \E l \in Records : InHeap(heap, l) /\ Live(times, l) /\ AtOrBefore(l, r)
        THEN heap[r]
        ELSE 0]

Init ==
    /\ flow_heap = [r \in Records |-> 0]
    /\ flow_activation_times_by_id = [f \in FlowIds |-> NotPlanned]
    /\ taken = [f \in FlowIds |-> 0]
    /\ cancelled = {}

nearest_activation_moment(m) == \E r \in Records : IsTop(flow_heap, r) /\ r[1] = m

\* plan_flow on a wheel with this heap and map.
plan_flow(heap, times, t, f) ==
    /\ heap[<<t, f>>] < MaxCopies
    /\ flow_heap' = [heap EXCEPT ![<<t, f>>] = @ + 1]
    /\ flow_activation_times_by_id' = [times EXCEPT ![f] = t]

Unplanned(f) == [flow_activation_times_by_id EXCEPT ![f] = NotPlanned]

ReplansAtSameMoment(t, f) == t <= flow_activation_times_by_id[f]
AlwaysMoves(t, f) == TRUE
MovesEarlier(t, f) == t < flow_activation_times_by_id[f]

activate_at(t, f) ==
    /\ \/ /\ flow_activation_times_by_id[f] = NotPlanned
          /\ plan_flow(flow_heap, flow_activation_times_by_id, t, f)
       \/ /\ flow_activation_times_by_id[f] # NotPlanned
          /\ MovesEarlier(t, f)
          /\ plan_flow(clean_top_cancellations(flow_heap, Unplanned(f)), Unplanned(f), t, f)
       \/ /\ flow_activation_times_by_id[f] # NotPlanned
          /\ ~MovesEarlier(t, f)
          /\ UNCHANGED wheelVars
    /\ UNCHANGED <<taken, cancelled>>

cancel_flow_activation(f) ==
    /\ flow_activation_times_by_id[f] # NotPlanned
    /\ flow_activation_times_by_id' = Unplanned(f)
    /\ flow_heap' = clean_top_cancellations(flow_heap, Unplanned(f))
    /\ cancelled' = cancelled \cup {f}
    /\ UNCHANGED taken

\* The Vec of flows whose record at moment m is live, duplicates included.
ReturnsStaleRecords(m) == [f \in FlowIds |-> flow_heap[<<m, f>>]]
PlannedAt(m) ==
    [f \in FlowIds |->
        IF is_flow_activation_planned_at(flow_activation_times_by_id, f, m)
        THEN flow_heap[<<m, f>>]
        ELSE 0]

\* Pops every record of the nearest moment; the map keeps the flows it returns.
take_nearest_planned_flows(m) ==
    /\ nearest_activation_moment(m)
    /\ taken' = PlannedAt(m)
    /\ flow_heap' = clean_top_cancellations(
                        [r \in Records |-> IF r[1] > m THEN flow_heap[r] ELSE 0],
                        flow_activation_times_by_id)
    /\ UNCHANGED <<flow_activation_times_by_id, cancelled>>

Next ==
    \/ \E t \in Times, f \in FlowIds : activate_at(t, f)
    \/ \E f \in FlowIds : cancel_flow_activation(f)
    \/ \E m \in Times : take_nearest_planned_flows(m)

Spec == Init /\ [][Next]_vars

-----------------------------------------------------------------------------
(* Properties *)

\* The wheel's state is well formed.
TypeOK ==
    /\ flow_heap \in [Records -> 0 .. MaxCopies]
    /\ flow_activation_times_by_id \in [FlowIds -> Times \cup {NotPlanned}]
    /\ taken \in [FlowIds -> 0 .. MaxCopies]
    /\ cancelled \subseteq FlowIds

\* A stale record never sits on top of the heap between two operations, so the
\* moment nearest_activation_moment peeks at is one that some flow is really
\* planned for: the main loop is never woken for a cancelled activation.
TopIsLive ==
    \A r \in Records : IsTop(flow_heap, r) => Live(flow_activation_times_by_id, r)

\* take_nearest_planned_flows lists a flow twice only if that flow was
\* cancelled before: re-planning alone never leaves two live records of a flow.
ListedTwiceOnlyAfterCancel ==
    \A f \in FlowIds : taken[f] > 1 => f \in cancelled

\* A record of a never-cancelled flow is unique in the heap, and no record of
\* that flow is earlier than its planned moment: a re-plan only moves a flow
\* earlier, so the records it leaves behind are later ones.
StaleRecordsAreLater ==
    \A r \in Records :
        (InHeap(flow_heap, r) /\ r[2] \notin cancelled) =>
            /\ flow_heap[r] = 1
            /\ flow_activation_times_by_id[r[2]] # NotPlanned
            /\ flow_activation_times_by_id[r[2]] <= r[1]

\* The inductive invariant: the wheel is well formed and the records of flows
\* that were never cancelled (the discipline the flow service keeps: it aborts
\* a flow it cancels) are unique, at or after the planned moment.
WheelInv == TypeOK /\ StaleRecordsAreLater

\* The wheel implements the plan: the waiting flows are those whose planned
\* moment still has a record in the heap.
Waiting == {f \in FlowIds : /\ flow_activation_times_by_id[f] # NotPlanned
                            /\ InHeap(flow_heap, <<flow_activation_times_by_id[f], f>>)}

Plan == INSTANCE ActivationPlan WITH plan <- flow_activation_times_by_id, waiting <- Waiting

\* Every operation of the wheel is an operation of the plan: in particular a
\* take hands out all flows waiting for the nearest moment and no other, however
\* many stale records the heap holds.
ImplementsPlan == Plan!PlanSpec

\* A take returns exactly the flows that the plan says are due.
TakeReturnsDueFlows ==
    [][\A m \in Times : take_nearest_planned_flows(m) =>
          {f \in FlowIds : taken'[f] > 0} = Plan!DueAt(m)]_vars

=============================================================================
