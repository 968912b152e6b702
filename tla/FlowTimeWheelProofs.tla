------------------------- MODULE FlowTimeWheelProofs ------------------------
(***************************************************************************)
(* Proofs about the time wheel, for any sets of flows and moments and any  *)
(* bound on equal records.                                                 *)
(***************************************************************************)
EXTENDS FlowTimeWheel, TLAPS

\* The order of FlowRecord is a partial order on records.
LEMMA AtOrBeforeOrder ==
    ASSUME NEW r \in Records, NEW s \in Records, NEW u \in Records
    PROVE  /\ AtOrBefore(r, r)
           /\ AtOrBefore(r, s) /\ AtOrBefore(s, r) => r = s
           /\ AtOrBefore(r, s) /\ AtOrBefore(s, u) => AtOrBefore(r, u)
  <1>1. /\ r[1] \in Nat /\ s[1] \in Nat /\ u[1] \in Nat
        /\ r[2] \in Nat /\ s[2] \in Nat /\ u[2] \in Nat
    BY WheelFlowIdsAssumption, WheelTimesAssumption DEF Records
  <1>2. r = <<r[1], r[2]>> /\ s = <<s[1], s[2]>>
    BY DEF Records
  <1>3. AtOrBefore(r, s) /\ AtOrBefore(s, r) => r[1] = s[1] /\ r[2] = s[2]
    BY <1>1 DEF AtOrBefore
  <1>4. AtOrBefore(r, s) /\ AtOrBefore(s, u) => AtOrBefore(r, u)
    BY <1>1 DEF AtOrBefore
  <1>5. AtOrBefore(r, r)
    BY <1>1 DEF AtOrBefore
  <1> QED  BY <1>2, <1>3, <1>4, <1>5

\* Cleaning the top of a heap keeps its live records with their counts and
\* leaves no stale record on top.
LEMMA CleaningKeepsLive ==
    ASSUME NEW heap \in [Records -> 0 .. MaxCopies],
           NEW times \in [FlowIds -> Times \cup {NotPlanned}],
           NEW r \in Records
    PROVE  LET clean == clean_top_cancellations(heap, times)
           IN  /\ clean \in [Records -> 0 .. MaxCopies]
               /\ clean[r] = heap[r] \/ clean[r] = 0
               /\ Live(times, r) => clean[r] = heap[r]
               /\ IsTop(clean, r) => Live(times, r)
  <1> DEFINE clean == clean_top_cancellations(heap, times)
             Kept(s) == \E l \in Records : InHeap(heap, l) /\ Live(times, l) /\ AtOrBefore(l, s)
  <1>1. \A s \in Records : clean[s] = IF Kept(s) THEN heap[s] ELSE 0
    BY DEF clean_top_cancellations
  <1>2. clean \in [Records -> 0 .. MaxCopies]
    BY MaxCopiesAssumption DEF clean_top_cancellations
  <1>3. Live(times, r) => clean[r] = heap[r]
    BY <1>1, AtOrBeforeOrder DEF InHeap
  <1>4. ASSUME IsTop(clean, r)
        PROVE  Live(times, r)
    <2>1. Kept(r)
      BY <1>1, <1>4 DEF IsTop, InHeap
    <2>2. PICK l \in Records : InHeap(heap, l) /\ Live(times, l) /\ AtOrBefore(l, r)
      BY <2>1
    <2>3. InHeap(clean, l)
      BY <1>1, <2>2, AtOrBeforeOrder DEF InHeap
    <2>4. r = l
      BY <1>4, <2>2, <2>3, AtOrBeforeOrder DEF IsTop
    <2> QED  BY <2>2, <2>4
  <1> QED  BY <1>1, <1>2, <1>3, <1>4

-----------------------------------------------------------------------------
\* An empty wheel satisfies the invariant.
LEMMA InitWheelInv == Init => WheelInv
  BY MaxCopiesAssumption DEF Init, WheelInv, TypeOK, StaleRecordsAreLater, InHeap, Records

\* Un-planning a flow keeps the map well formed.
LEMMA UnplannedType ==
    ASSUME TypeOK, NEW f \in FlowIds
    PROVE  Unplanned(f) \in [FlowIds -> Times \cup {NotPlanned}]
  BY DEF TypeOK, Unplanned

\* Planning a flow at t, on a heap whose records are records of the current
\* one, when t is earlier than the flow's planned moment or the flow has none.
LEMMA PlanFlowKeepsInv ==
    ASSUME WheelInv,
           NEW heap \in [Records -> 0 .. MaxCopies],
           NEW times \in [FlowIds -> Times \cup {NotPlanned}],
           NEW t \in Times, NEW f \in FlowIds,
           \A r \in Records : heap[r] = flow_heap[r] \/ heap[r] = 0,
           \A g \in FlowIds \ {f} : times[g] = flow_activation_times_by_id[g],
           flow_activation_times_by_id[f] = NotPlanned \/ t < flow_activation_times_by_id[f],
           plan_flow(heap, times, t, f),
           UNCHANGED <<taken, cancelled>>
    PROVE  WheelInv'
  <1>1. <<t, f>> \in Records
    BY DEF Records
  <1>2. heap[<<t, f>>] \in 0 .. MaxCopies /\ heap[<<t, f>>] < MaxCopies
    BY <1>1 DEF plan_flow
  <1>3. TypeOK'
    BY <1>1, <1>2, MaxCopiesAssumption DEF WheelInv, TypeOK, plan_flow
  <1>4. ASSUME NEW r \in Records, InHeap(flow_heap', r), r[2] \notin cancelled
        PROVE  /\ flow_heap'[r] = 1
               /\ flow_activation_times_by_id'[r[2]] # NotPlanned
               /\ flow_activation_times_by_id'[r[2]] <= r[1]
    <2>0. r[1] \in Times /\ r[2] \in FlowIds /\ r = <<r[1], r[2]>> /\ Times \subseteq Nat \ {0}
      BY WheelTimesAssumption DEF Records
    <2>1. CASE r = <<t, f>>
      <3>1. flow_heap[r] = 0
        BY <2>1, <2>0, <1>4 DEF WheelInv, StaleRecordsAreLater, TypeOK, InHeap
      <3>2. flow_heap'[r] = heap[r] + 1 /\ flow_activation_times_by_id'[f] = t
        BY <2>1, <1>1 DEF plan_flow
      <3> QED  BY <3>1, <3>2, <2>0, <2>1 DEF NotPlanned
    <2>2. CASE r # <<t, f>>
      <3>1. flow_heap'[r] = heap[r]
        BY <2>2, <1>1 DEF plan_flow
      <3>2. InHeap(flow_heap, r) /\ flow_heap'[r] = flow_heap[r]
        BY <3>1, <1>4 DEF InHeap
      <3>3. /\ flow_heap[r] = 1
            /\ flow_activation_times_by_id[r[2]] # NotPlanned
            /\ flow_activation_times_by_id[r[2]] <= r[1]
        BY <3>2, <1>4 DEF WheelInv, StaleRecordsAreLater
      <3>4. CASE r[2] = f
        <4>1. flow_activation_times_by_id'[f] = t
          BY DEF plan_flow
        <4>2. flow_activation_times_by_id[f] \in Times
          BY <3>3, <3>4 DEF WheelInv, TypeOK
        <4> QED  BY <4>1, <4>2, <3>2, <3>3, <3>4, <2>0 DEF NotPlanned
      <3>5. CASE r[2] # f
        BY <3>2, <3>3, <3>5, <2>0 DEF plan_flow
      <3> QED  BY <3>4, <3>5
    <2> QED  BY <2>1, <2>2
  <1> QED  BY <1>3, <1>4 DEF WheelInv, StaleRecordsAreLater

\* Every operation of the wheel keeps the invariant.
LEMMA NextWheelInv == WheelInv /\ [Next]_vars => WheelInv'
  <1> SUFFICES ASSUME WheelInv, [Next]_vars PROVE WheelInv'
    OBVIOUS
  <1> USE DEF WheelInv
  <1>1. ASSUME NEW t \in Times, NEW f \in FlowIds, activate_at(t, f)
        PROVE  WheelInv'
    <2>1. CASE /\ flow_activation_times_by_id[f] = NotPlanned
               /\ plan_flow(flow_heap, flow_activation_times_by_id, t, f)
      BY <1>1, <2>1, PlanFlowKeepsInv DEF activate_at, TypeOK
    <2>2. CASE /\ flow_activation_times_by_id[f] # NotPlanned
               /\ MovesEarlier(t, f)
               /\ plan_flow(clean_top_cancellations(flow_heap, Unplanned(f)), Unplanned(f), t, f)
      <3> DEFINE heap == clean_top_cancellations(flow_heap, Unplanned(f))
      <3>1. heap \in [Records -> 0 .. MaxCopies]
        BY UnplannedType, CleaningKeepsLive, <1>1 DEF TypeOK, clean_top_cancellations
      <3>2. \A r \in Records : heap[r] = flow_heap[r] \/ heap[r] = 0
        BY UnplannedType, CleaningKeepsLive, <1>1 DEF TypeOK
      <3>3. \A g \in FlowIds \ {f} : Unplanned(f)[g] = flow_activation_times_by_id[g]
        BY DEF Unplanned, TypeOK
      <3> HIDE DEF heap
      <3> QED  BY <1>1, <2>2, <3>1, <3>2, <3>3, UnplannedType, PlanFlowKeepsInv
               DEF activate_at, MovesEarlier, heap
    <2>3. CASE UNCHANGED wheelVars
      BY <1>1, <2>3 DEF activate_at, wheelVars, TypeOK, StaleRecordsAreLater, InHeap
    <2> QED  BY <1>1, <2>1, <2>2, <2>3 DEF activate_at
  <1>2. ASSUME NEW f \in FlowIds, cancel_flow_activation(f)
        PROVE  WheelInv'
    <2>1. TypeOK'
      BY <1>2, UnplannedType, CleaningKeepsLive
      DEF cancel_flow_activation, TypeOK, clean_top_cancellations
    <2>2. \A r \in Records : flow_heap'[r] = flow_heap[r] \/ flow_heap'[r] = 0
      BY <1>2, UnplannedType, CleaningKeepsLive DEF cancel_flow_activation, TypeOK
    <2>3. \A r \in Records : r[2] # f /\ r[2] \in FlowIds =>
              flow_activation_times_by_id'[r[2]] = flow_activation_times_by_id[r[2]]
      BY <1>2 DEF cancel_flow_activation, Unplanned, TypeOK
    <2> QED  BY <1>2, <2>1, <2>2, <2>3
             DEF cancel_flow_activation, StaleRecordsAreLater, InHeap, Records
  <1>3. ASSUME NEW m \in Times, take_nearest_planned_flows(m)
        PROVE  WheelInv'
    <2> DEFINE rest == [r \in Records |-> IF r[1] > m THEN flow_heap[r] ELSE 0]
    <2>1. rest \in [Records -> 0 .. MaxCopies]
      BY MaxCopiesAssumption DEF TypeOK
    <2>2. \A r \in Records : flow_heap'[r] = rest[r] \/ flow_heap'[r] = 0
      BY <1>3, <2>1, CleaningKeepsLive DEF take_nearest_planned_flows, TypeOK
    <2>3. \A r \in Records : flow_heap'[r] = flow_heap[r] \/ flow_heap'[r] = 0
      BY <2>2
    <2>4. flow_heap' \in [Records -> 0 .. MaxCopies]
      BY <1>3, <2>1, MaxCopiesAssumption
      DEF take_nearest_planned_flows, clean_top_cancellations, TypeOK
    <2>5. taken' \in [FlowIds -> 0 .. MaxCopies]
      <3>1. \A f \in FlowIds : <<m, f>> \in Records
        BY DEF Records
      <3> QED  BY <1>3, <3>1, MaxCopiesAssumption DEF take_nearest_planned_flows, PlannedAt, TypeOK
    <2>6. TypeOK'
      BY <1>3, <2>4, <2>5 DEF take_nearest_planned_flows, TypeOK
    <2> QED  BY <1>3, <2>3, <2>6 DEF take_nearest_planned_flows, StaleRecordsAreLater, InHeap
  <1>4. CASE UNCHANGED vars
    BY <1>4 DEF vars, TypeOK, StaleRecordsAreLater, InHeap
  <1> QED  BY <1>1, <1>2, <1>3, <1>4 DEF Next

\* The wheel is always well formed, and a flow that was never cancelled has one
\* live record at most, all its other records being later (activate_at only
\* re-plans to an earlier moment).
THEOREM WheelInvariant == Spec => []WheelInv
  BY InitWheelInv, NextWheelInv, PTL DEF Spec

-----------------------------------------------------------------------------
\* A record pushed on a heap with no stale top, for a flow that is not planned,
\* leaves no stale top.
LEMMA PlanFlowKeepsTopLive ==
    ASSUME NEW heap \in [Records -> 0 .. MaxCopies],
           NEW times \in [FlowIds -> Times \cup {NotPlanned}],
           NEW t \in Times, NEW f \in FlowIds,
           times[f] = NotPlanned,
           \A r \in Records : IsTop(heap, r) => Live(times, r),
           plan_flow(heap, times, t, f)
    PROVE  TopIsLive'
  <1> SUFFICES ASSUME NEW r \in Records, IsTop(flow_heap', r)
               PROVE  Live(flow_activation_times_by_id', r)
    BY DEF TopIsLive
  <1>1. <<t, f>> \in Records /\ r[2] \in FlowIds /\ r[1] \in Times
    BY DEF Records
  <1>2. CASE r = <<t, f>>
    BY <1>1, <1>2 DEF plan_flow, Live, is_flow_activation_planned_at
  <1>3. CASE r # <<t, f>>
    <2>1. \A s \in Records : heap[s] \in Nat /\ (InHeap(heap, s) => InHeap(flow_heap', s))
      BY <1>1, MaxCopiesAssumption DEF plan_flow, InHeap
    <2>2. InHeap(heap, r)
      BY <1>1, <1>3 DEF plan_flow, InHeap, IsTop
    <2>3. IsTop(heap, r)
      BY <2>1, <2>2 DEF IsTop
    <2>4. times[r[2]] = r[1]
      BY <2>3 DEF Live, is_flow_activation_planned_at
    <2>5. r[2] # f
      BY <2>4, <1>1, WheelTimesAssumption DEF NotPlanned
    <2> QED  BY <2>4, <2>5, <1>1 DEF plan_flow, Live, is_flow_activation_planned_at
  <1> QED  BY <1>2, <1>3

\* Every operation leaves a live record on top.
LEMMA NextTopIsLive == TypeOK /\ TopIsLive /\ [Next]_vars => TopIsLive'
  <1> SUFFICES ASSUME TypeOK, TopIsLive, [Next]_vars PROVE TopIsLive'
    OBVIOUS
  <1>1. ASSUME NEW t \in Times, NEW f \in FlowIds, activate_at(t, f)
        PROVE  TopIsLive'
    <2>1. CASE /\ flow_activation_times_by_id[f] = NotPlanned
               /\ plan_flow(flow_heap, flow_activation_times_by_id, t, f)
      BY <2>1, PlanFlowKeepsTopLive DEF TopIsLive, TypeOK
    <2>2. CASE plan_flow(clean_top_cancellations(flow_heap, Unplanned(f)), Unplanned(f), t, f)
      <3>1. clean_top_cancellations(flow_heap, Unplanned(f)) \in [Records -> 0 .. MaxCopies]
        BY UnplannedType, MaxCopiesAssumption DEF TypeOK, clean_top_cancellations
      <3>2. Unplanned(f)[f] = NotPlanned
        BY DEF Unplanned, TypeOK
      <3>3. \A r \in Records : IsTop(clean_top_cancellations(flow_heap, Unplanned(f)), r)
                                   => Live(Unplanned(f), r)
        BY UnplannedType, CleaningKeepsLive DEF TypeOK
      <3> QED  BY <2>2, <3>1, <3>2, <3>3, UnplannedType, PlanFlowKeepsTopLive
    <2>3. CASE UNCHANGED wheelVars
      BY <2>3 DEF wheelVars, TopIsLive
    <2> QED  BY <1>1, <2>1, <2>2, <2>3 DEF activate_at
  <1>2. ASSUME NEW f \in FlowIds, cancel_flow_activation(f)
        PROVE  TopIsLive'
    BY <1>2, UnplannedType, CleaningKeepsLive DEF cancel_flow_activation, TopIsLive, TypeOK
  <1>3. ASSUME NEW m \in Times, take_nearest_planned_flows(m)
        PROVE  TopIsLive'
    <2> DEFINE rest == [r \in Records |-> IF r[1] > m THEN flow_heap[r] ELSE 0]
    <2>1. rest \in [Records -> 0 .. MaxCopies]
      BY MaxCopiesAssumption DEF TypeOK
    <2> QED  BY <1>3, <2>1, CleaningKeepsLive DEF take_nearest_planned_flows, TopIsLive, TypeOK
  <1>4. CASE UNCHANGED vars
    BY <1>4 DEF vars, TopIsLive
  <1> QED  BY <1>1, <1>2, <1>3, <1>4 DEF Next

\* No stale record is ever on top of the heap, so nearest_activation_moment
\* answers with a moment that some flow is planned for.
THEOREM TopAlwaysLive == Spec => []TopIsLive
  <1>1. Init => TopIsLive
    BY DEF Init, TopIsLive, IsTop, InHeap
  <1>2. WheelInv => TypeOK
    BY DEF WheelInv
  <1> QED  BY <1>1, <1>2, NextTopIsLive, WheelInvariant, PTL DEF Spec

\* A take lists a flow twice only if that flow was cancelled at some time before
\* (and planned again at a moment whose stale record was still in the heap).
THEOREM NoDoubleListing == Spec => []ListedTwiceOnlyAfterCancel
  <1>1. Init => ListedTwiceOnlyAfterCancel
    BY DEF Init, ListedTwiceOnlyAfterCancel
  <1>2. WheelInv /\ ListedTwiceOnlyAfterCancel /\ [Next]_vars => ListedTwiceOnlyAfterCancel'
    <2> SUFFICES ASSUME WheelInv, ListedTwiceOnlyAfterCancel, [Next]_vars
                 PROVE  ListedTwiceOnlyAfterCancel'
      OBVIOUS
    <2>1. ASSUME NEW m \in Times, take_nearest_planned_flows(m)
          PROVE  ListedTwiceOnlyAfterCancel'
      <3> SUFFICES ASSUME NEW f \in FlowIds, taken'[f] > 1, f \notin cancelled
                   PROVE  FALSE
        BY <2>1 DEF take_nearest_planned_flows, ListedTwiceOnlyAfterCancel
      <3>1. <<m, f>> \in Records
        BY DEF Records
      <3>2. flow_heap[<<m, f>>] > 1
        BY <2>1 DEF take_nearest_planned_flows, PlannedAt
      <3>3. InHeap(flow_heap, <<m, f>>)
        BY <3>1, <3>2 DEF InHeap, WheelInv, TypeOK
      <3> QED  BY <3>1, <3>2, <3>3 DEF WheelInv, StaleRecordsAreLater
    <2>2. ASSUME NEW t \in Times, NEW f \in FlowIds, activate_at(t, f)
          PROVE  ListedTwiceOnlyAfterCancel'
      BY <2>2 DEF activate_at, ListedTwiceOnlyAfterCancel
    <2>3. ASSUME NEW f \in FlowIds, cancel_flow_activation(f)
          PROVE  ListedTwiceOnlyAfterCancel'
      BY <2>3 DEF cancel_flow_activation, ListedTwiceOnlyAfterCancel
    <2>4. CASE UNCHANGED vars
      BY <2>4 DEF vars, ListedTwiceOnlyAfterCancel
    <2> QED  BY <2>1, <2>2, <2>3, <2>4 DEF Next
  <1> QED  BY <1>1, <1>2, WheelInvariant, PTL DEF Spec

-----------------------------------------------------------------------------
(* The wheel implements the activation plan. *)

\* Planning an un-planned flow on a heap that keeps the live records of the
\* current one makes that flow wait and leaves the others as they are.
LEMMA PlanFlowWaits ==
    ASSUME TypeOK,
           NEW heap \in [Records -> 0 .. MaxCopies],
           NEW times \in [FlowIds -> Times \cup {NotPlanned}],
           NEW t \in Times, NEW f \in FlowIds,
           \A g \in FlowIds \ {f} : times[g] = flow_activation_times_by_id[g],
           \A r \in Records : Live(times, r) => heap[r] = flow_heap[r],
           plan_flow(heap, times, t, f)
    PROVE  /\ Waiting' = Waiting \cup {f}
           /\ flow_activation_times_by_id' = [flow_activation_times_by_id EXCEPT ![f] = t]
  <1>1. <<t, f>> \in Records
    BY DEF Records
  <1>2. flow_activation_times_by_id' = [flow_activation_times_by_id EXCEPT ![f] = t]
    BY DEF plan_flow, TypeOK
  <1>3. f \in Waiting'
    <2>1. flow_heap'[<<t, f>>] > 0
      BY <1>1, MaxCopiesAssumption DEF plan_flow
    <2>2. flow_activation_times_by_id'[f] = t
      BY <1>2 DEF TypeOK
    <2> QED  BY <2>1, <2>2, WheelTimesAssumption DEF Waiting, InHeap, NotPlanned
  <1>4. ASSUME NEW g \in FlowIds \ {f}
        PROVE  g \in Waiting' <=> g \in Waiting
    <2> DEFINE tg == flow_activation_times_by_id[g]
    <2>1. times[g] = tg /\ flow_activation_times_by_id'[g] = tg
      BY <1>2 DEF TypeOK
    <2>2. CASE tg = NotPlanned
      BY <2>1, <2>2 DEF Waiting
    <2>3. CASE tg # NotPlanned
      <3>1. <<tg, g>> \in Records
        BY <2>3 DEF Records, TypeOK
      <3>2. Live(times, <<tg, g>>)
        BY <2>1 DEF Live, is_flow_activation_planned_at
      <3>3. flow_heap'[<<tg, g>>] = heap[<<tg, g>>]
        BY <3>1, <1>1 DEF plan_flow
      <3> QED  BY <3>1, <3>2, <3>3, <2>1, <2>3 DEF Waiting, InHeap
    <2> QED  BY <2>2, <2>3
  <1>5. Waiting' = Waiting \cup {f}
    BY <1>3, <1>4 DEF Waiting
  <1> QED  BY <1>2, <1>5

\* Every operation of the wheel is a step of the plan, or changes nothing of it.
LEMMA StepImplementsPlan ==
    TypeOK /\ TopIsLive /\ [Next]_vars => [Plan!PlanNext]_(Plan!planVars)
  <1> SUFFICES ASSUME TypeOK, TopIsLive, [Next]_vars
               PROVE  [Plan!PlanNext]_(Plan!planVars)
    OBVIOUS
  <1>1. ASSUME NEW t \in Times, NEW f \in FlowIds, activate_at(t, f)
        PROVE  Plan!Activate(f, t)
    <2>1. CASE /\ flow_activation_times_by_id[f] = NotPlanned
               /\ plan_flow(flow_heap, flow_activation_times_by_id, t, f)
      BY <2>1, PlanFlowWaits DEF Plan!Activate, Plan!IsPlanned, Plan!NotPlanned, NotPlanned, TypeOK
    <2>2. CASE /\ MovesEarlier(t, f)
               /\ plan_flow(clean_top_cancellations(flow_heap, Unplanned(f)), Unplanned(f), t, f)
      <3>1. clean_top_cancellations(flow_heap, Unplanned(f)) \in [Records -> 0 .. MaxCopies]
        BY MaxCopiesAssumption DEF TypeOK, clean_top_cancellations
      <3>2. \A r \in Records : Live(Unplanned(f), r) =>
                clean_top_cancellations(flow_heap, Unplanned(f))[r] = flow_heap[r]
        BY UnplannedType, CleaningKeepsLive DEF TypeOK
      <3>3. \A g \in FlowIds \ {f} : Unplanned(f)[g] = flow_activation_times_by_id[g]
        BY DEF Unplanned, TypeOK
      <3>4. /\ Waiting' = Waiting \cup {f}
            /\ flow_activation_times_by_id' = [flow_activation_times_by_id EXCEPT ![f] = t]
        BY <2>2, <3>1, <3>2, <3>3, UnplannedType, PlanFlowWaits
      <3> QED  BY <2>2, <3>4 DEF Plan!Activate, MovesEarlier
    <2>3. CASE /\ flow_activation_times_by_id[f] # NotPlanned
               /\ ~MovesEarlier(t, f)
               /\ UNCHANGED wheelVars
      BY <2>3 DEF Plan!Activate, Plan!IsPlanned, Plan!NotPlanned, Plan!planVars, NotPlanned,
                  MovesEarlier, wheelVars, Waiting, InHeap
    <2> QED  BY <1>1, <2>1, <2>2, <2>3 DEF activate_at
  <1>2. ASSUME NEW f \in FlowIds, cancel_flow_activation(f)
        PROVE  Plan!Cancel(f)
    <2>1. ASSUME NEW g \in FlowIds \ {f}
          PROVE  g \in Waiting' <=> g \in Waiting
      <3> DEFINE tg == flow_activation_times_by_id[g]
      <3>1. Unplanned(f)[g] = tg /\ flow_activation_times_by_id'[g] = tg
        BY <1>2 DEF cancel_flow_activation, Unplanned, TypeOK
      <3>2. CASE tg = NotPlanned
        BY <3>1, <3>2 DEF Waiting
      <3>3. CASE tg # NotPlanned
        <4>1. <<tg, g>> \in Records
          BY <3>3 DEF Records, TypeOK
        <4>2. Live(Unplanned(f), <<tg, g>>)
          BY <3>1 DEF Live, is_flow_activation_planned_at
        <4>3. flow_heap'[<<tg, g>>] = flow_heap[<<tg, g>>]
          BY <1>2, <4>1, <4>2, UnplannedType, CleaningKeepsLive DEF cancel_flow_activation, TypeOK
        <4> QED  BY <4>3, <3>1, <3>3 DEF Waiting, InHeap
      <3> QED  BY <3>2, <3>3
    <2>2. f \notin Waiting'
      BY <1>2 DEF cancel_flow_activation, Waiting, Unplanned, TypeOK
    <2>3. Waiting' = Waiting \ {f}
      BY <2>1, <2>2 DEF Waiting
    <2> QED  BY <1>2, <2>3 DEF Plan!Cancel, Plan!IsPlanned, Plan!NotPlanned, NotPlanned,
                               cancel_flow_activation, Unplanned
  <1>3. ASSUME NEW m \in Times, take_nearest_planned_flows(m)
        PROVE  Plan!Take(m)
    <2> DEFINE rest == [r \in Records |-> IF r[1] > m THEN flow_heap[r] ELSE 0]
    <2>1. PICK top \in Records : IsTop(flow_heap, top) /\ top[1] = m
      BY <1>3 DEF take_nearest_planned_flows, nearest_activation_moment
    <2>2. top[2] \in FlowIds /\ top = <<m, top[2]>>
      BY <2>1 DEF Records
    <2>3. flow_activation_times_by_id[top[2]] = m
      BY <2>1 DEF TopIsLive, Live, is_flow_activation_planned_at
    <2>4. top[2] \in Waiting
      BY <2>1, <2>2, <2>3, WheelTimesAssumption DEF Waiting, IsTop, NotPlanned
    <2>5. ASSUME NEW g \in Waiting
          PROVE  m <= flow_activation_times_by_id[g]
      <3>1. <<flow_activation_times_by_id[g], g>> \in Records
        BY <2>5 DEF Waiting, Records, TypeOK
      <3>2. AtOrBefore(top, <<flow_activation_times_by_id[g], g>>)
        BY <2>1, <3>1, <2>5 DEF Waiting, IsTop
      <3>3. flow_activation_times_by_id[g] \in Nat /\ m \in Nat
        BY <3>1, WheelTimesAssumption DEF Records
      <3> QED  BY <3>2, <3>3, <2>1 DEF AtOrBefore
    <2>6. Plan!IsNearest(m)
      BY <2>3, <2>4, <2>5 DEF Plan!IsNearest
    <2>7. rest \in [Records -> 0 .. MaxCopies]
      BY MaxCopiesAssumption DEF TypeOK
    <2>8. ASSUME NEW g \in FlowIds
          PROVE  g \in Waiting' <=> g \in Waiting /\ flow_activation_times_by_id[g] # m
      <3> DEFINE tg == flow_activation_times_by_id[g]
      <3>1. flow_activation_times_by_id'[g] = tg
        BY <1>3 DEF take_nearest_planned_flows
      <3>2. CASE tg = NotPlanned
        BY <3>1, <3>2 DEF Waiting
      <3>3. CASE tg # NotPlanned
        <4>1. <<tg, g>> \in Records /\ tg \in Nat /\ m \in Nat
          BY <3>3, WheelTimesAssumption DEF Records, TypeOK
        <4>2. Live(flow_activation_times_by_id, <<tg, g>>)
          BY DEF Live, is_flow_activation_planned_at
        <4>3. flow_heap'[<<tg, g>>] = rest[<<tg, g>>]
          BY <1>3, <2>7, <4>1, <4>2, CleaningKeepsLive DEF take_nearest_planned_flows, TypeOK
        <4>4. rest[<<tg, g>>] = IF tg > m THEN flow_heap[<<tg, g>>] ELSE 0
          BY <4>1
        <4>5. g \in Waiting => m <= tg
          BY <2>5
        <4> QED  BY <4>1, <4>3, <4>4, <4>5, <3>1, <3>3 DEF Waiting, InHeap
      <3> QED  BY <3>2, <3>3
    <2>9. Waiting' = Waiting \ Plan!DueAt(m)
      BY <2>8 DEF Waiting, Plan!DueAt
    <2> QED  BY <1>3, <2>6, <2>9 DEF Plan!Take, take_nearest_planned_flows
  <1>4. CASE UNCHANGED vars
    BY <1>4 DEF vars, Plan!planVars, Waiting, InHeap
  <1> QED  BY <1>1, <1>2, <1>3, <1>4 DEF Next, Plan!PlanNext

\* The heap with its lazily removed records behaves as the activation plan:
\* every operation of FlowTimeWheel is one of the plan.
THEOREM WheelImplementsPlan == Spec => ImplementsPlan
  <1>1. Init => Plan!PlanInit
    BY DEF Init, Plan!PlanInit, Plan!NotPlanned, NotPlanned, Waiting
  <1>2. WheelInv => TypeOK
    BY DEF WheelInv
  <1> QED  BY <1>1, <1>2, StepImplementsPlan, WheelInvariant, TopAlwaysLive, PTL
           DEF Spec, ImplementsPlan, Plan!PlanSpec

\* A take returns exactly the flows that the plan says are due, however many
\* stale records of other flows, or of the same ones, share the moment.
THEOREM TakesReturnDueFlows == Spec => TakeReturnsDueFlows
  <1>1. TypeOK => \A m \in Times : take_nearest_planned_flows(m) =>
                     {f \in FlowIds : taken'[f] > 0} = Plan!DueAt(m)
    <2> SUFFICES ASSUME TypeOK, NEW m \in Times, take_nearest_planned_flows(m)
                 PROVE  {f \in FlowIds : taken'[f] > 0} = Plan!DueAt(m)
      OBVIOUS
    <2>1. ASSUME NEW f \in FlowIds
          PROVE  taken'[f] > 0 <=> f \in Waiting /\ flow_activation_times_by_id[f] = m
      <3>1. m # NotPlanned /\ taken'[f] = PlannedAt(m)[f]
        BY WheelTimesAssumption DEF take_nearest_planned_flows, NotPlanned
      <3>2. CASE flow_activation_times_by_id[f] = m
        BY <3>1, <3>2 DEF PlannedAt, is_flow_activation_planned_at, Waiting, InHeap
      <3>3. CASE flow_activation_times_by_id[f] # m
        BY <3>1, <3>3 DEF PlannedAt, is_flow_activation_planned_at
      <3> QED  BY <3>2, <3>3
    <2>2. Waiting \subseteq FlowIds
      BY DEF Waiting
    <2> QED  BY <2>1, <2>2 DEF Plan!DueAt
  <1>2. WheelInv => TypeOK
    BY DEF WheelInv
  <1> QED  BY <1>1, <1>2, WheelInvariant, PTL DEF TakeReturnsDueFlows

=============================================================================
