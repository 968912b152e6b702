------------------------- MODULE FlowServiceProofs --------------------------
(***************************************************************************)
(* Proofs about FlowService: a key has at most one active flow, no         *)
(* unfinished flow is forgotten, and an active schedule never falls asleep.*)
(*                                                                         *)
(* A handler goes through several service states, so that the lemmas are   *)
(* about operators on a state s.  What an operator does to the parts of s  *)
(* that the invariant is about is one of a few relations between s and the *)
(* next state n: Keeps (nothing), Starts (a flow is new), Schedules (a     *)
(* task is new), Retires (a flow is over), and each of these relations     *)
(* preserves the invariant.                                                *)
(***************************************************************************)
EXTENDS FlowService, SequenceLemmas, FiniteSetTheorems

\* What the parts of a service state are.
LEMMA StateFields ==
  ASSUME NEW s \in ServiceStates
  PROVE  /\ s.flows \in Seq(AllFlows) /\ Len(s.flows) \in Nat /\ DOMAIN s.flows = 1..Len(s.flows)
         /\ \A f \in 1..Len(s.flows) : s.flows[f] \in AllFlows
         /\ s.active_configs \subseteq Keys /\ s.pending \in [Keys -> Nat]
         /\ s.plan \in Seq(Int) /\ s.waiting \subseteq Nat
         /\ s.tasks \in Seq(Nat) /\ Len(s.tasks) \in Nat
         /\ s.task_queue \in Seq(Nat) /\ Len(s.task_queue) \in Nat
         /\ s.by_task \in Seq(Nat) /\ Len(s.by_task) \in Nat
         /\ s.last_attempt \in [Keys -> Int] /\ s.last_success \in [Keys -> Int]
         /\ s.error \in Errors
<1>1. /\ s.flows \in Seq(AllFlows)
      /\ s.active_configs \subseteq Keys /\ s.pending \in [Keys -> Nat]
      /\ s.plan \in Seq(Int) /\ s.waiting \subseteq Nat
      /\ s.tasks \in Seq(Nat) /\ s.task_queue \in Seq(Nat) /\ s.by_task \in Seq(Nat)
      /\ s.last_attempt \in [Keys -> Int] /\ s.last_success \in [Keys -> Int]
      /\ s.error \in Errors
  BY DEF ServiceStates
<1>2. /\ Len(s.flows) \in Nat /\ DOMAIN s.flows = 1..Len(s.flows)
      /\ \A f \in 1..Len(s.flows) : s.flows[f] \in AllFlows
  <2> HIDE DEF AllFlows
  <2> QED  BY <1>1
<1>3. QED  BY <1>1, <1>2

\* One element of a sequence is replaced.
LEMMA ReplaceFacts ==
  ASSUME NEW S, NEW q \in Seq(S), NEW i \in 1..Len(q), NEW e \in S
  PROVE  /\ [q EXCEPT ![i] = e] \in Seq(S) /\ Len([q EXCEPT ![i] = e]) = Len(q)
         /\ \A j \in 1..Len(q) : [q EXCEPT ![i] = e][j] = IF j = i THEN e ELSE q[j]
<1> DEFINE r == [q EXCEPT ![i] = e]
<1>1. DOMAIN r = 1..Len(q) /\ Len(q) \in Nat
  OBVIOUS
<1>2. \A j \in 1..Len(q) : r[j] = (IF j = i THEN e ELSE q[j]) /\ r[j] \in S
  OBVIOUS
<1>3. r \in [1..Len(q) -> S]
  BY <1>1, <1>2
<1> HIDE DEF r
<1>4. r \in Seq(S) /\ Len(r) = Len(q)
  BY <1>1, <1>3
<1>5. QED  BY <1>2, <1>4 DEF r

\* The same when the position is not known.
LEMMA ReplaceAny ==
  ASSUME NEW S, NEW q \in Seq(S), NEW i, NEW e \in S
  PROVE  [q EXCEPT ![i] = e] \in Seq(S)
<1>1. CASE i \in 1..Len(q)
  BY <1>1, ReplaceFacts
<1>2. CASE i \notin 1..Len(q)
  <2>1. [q EXCEPT ![i] = e] = q
    BY <1>2
  <2>2. QED  BY <2>1
<1>3. QED  BY <1>1, <1>2

-----------------------------------------------------------------------------
(* Steps that leave alone what the invariant speaks of.                      *)

Touches(s, n) ==
  /\ n \in ServiceStates
  /\ Len(n.flows) = Len(s.flows)
  /\ \A f \in 1..Len(s.flows) : /\ n.flows[f].key = s.flows[f].key
                                /\ n.flows[f].outcome = s.flows[f].outcome
                                /\ n.flows[f].task_ids = s.flows[f].task_ids
  /\ n.pending = s.pending /\ n.active_configs = s.active_configs
  /\ n.tasks = s.tasks /\ n.task_queue = s.task_queue /\ n.by_task = s.by_task

\* A state touches itself, and touches add up.
LEMMA TouchesTransitive ==
  ASSUME NEW s, NEW n, NEW o, Touches(s, n), Touches(n, o)
  PROVE  Touches(s, o)
  BY DEF Touches

\* Doing nothing leaves everything alone.
LEMMA TouchesItself ==
  ASSUME NEW s \in ServiceStates
  PROVE  Touches(s, s)
  BY DEF Touches

\* No flow loses what it waits for.
Patient(s, n) ==
  /\ Len(n.plan) = Len(s.plan)
  /\ \A f \in 1..Len(s.flows) : /\ n.flows[f].running = s.flows[f].running
                                /\ Waits(s, f) => Waits(n, f)

\* A flow that has to wait again still waits.
Keeps(s, n) == Touches(s, n) /\ Patient(s, n)

\* A state keeps itself, ...
LEMMA KeepsItself ==
  ASSUME NEW s \in ServiceStates
  PROVE  Keeps(s, s)
  BY TouchesItself DEF Keeps, Patient

\* ... and such steps add up.
LEMMA KeepsTransitive ==
  ASSUME NEW s, NEW n, NEW o, Keeps(s, n), Keeps(n, o)
  PROVE  Keeps(s, o)
<1>1. Touches(s, o) /\ Len(n.flows) = Len(s.flows)
  BY TouchesTransitive DEF Keeps, Touches
<1>2. QED  BY <1>1 DEF Keeps, Patient

\* No flow but f loses what it waits for.
Spares(s, n, f) ==
  /\ Len(n.plan) = Len(s.plan)
  /\ \A g \in 1..Len(s.flows) : /\ n.flows[g].running = s.flows[g].running
                                /\ g # f /\ Waits(s, g) => Waits(n, g)

\* The parts of a state after one flow was replaced.
LEMMA FlowReplaced ==
  ASSUME NEW s \in ServiceStates, NEW f \in 1..Len(s.flows), NEW g \in AllFlows,
         NEW n, n = [s EXCEPT !.flows = [s.flows EXCEPT ![f] = g]]
  PROVE  /\ n \in ServiceStates
         /\ Len(n.flows) = Len(s.flows)
         /\ \A h \in 1..Len(s.flows) : n.flows[h] = IF h = f THEN g ELSE s.flows[h]
         /\ n.pending = s.pending /\ n.active_configs = s.active_configs
         /\ n.tasks = s.tasks /\ n.task_queue = s.task_queue /\ n.by_task = s.by_task
         /\ n.plan = s.plan /\ n.waiting = s.waiting /\ n.error = s.error
<1>1. PICK q \in Seq(AllFlows) : q = [s.flows EXCEPT ![f] = g]
  BY StateFields, ReplaceFacts
<1>2. Len(q) = Len(s.flows) /\ \A h \in 1..Len(s.flows) : q[h] = IF h = f THEN g ELSE s.flows[h]
  BY <1>1, StateFields, ReplaceFacts
<1>3. n = [s EXCEPT !.flows = q]
  BY <1>1
<1> HIDE DEF AllFlows
<1>4. /\ n \in ServiceStates /\ n.flows = q
      /\ n.pending = s.pending /\ n.active_configs = s.active_configs
      /\ n.tasks = s.tasks /\ n.task_queue = s.task_queue /\ n.by_task = s.by_task
      /\ n.plan = s.plan /\ n.waiting = s.waiting /\ n.error = s.error
  BY <1>3 DEF ServiceStates
<1>5. QED  BY <1>2, <1>4

\* A flow that keeps its key, its outcome and its tasks may change otherwise.
LEMMA TouchFlow ==
  ASSUME NEW s \in ServiceStates, NEW f \in 1..Len(s.flows), NEW g \in AllFlows,
         g.key = s.flows[f].key, g.outcome = s.flows[f].outcome,
         g.task_ids = s.flows[f].task_ids
  PROVE  Touches(s, [s EXCEPT !.flows = [s.flows EXCEPT ![f] = g]])
<1>1. PICK n : n = [s EXCEPT !.flows = [s.flows EXCEPT ![f] = g]]
  OBVIOUS
<1>2. QED  BY <1>1, FlowReplaced DEF Touches

\* If it also runs or not as before, and waits for its inputs if it did, it keeps
\* what it waits for.
LEMMA KeepFlow ==
  ASSUME NEW s \in ServiceStates, NEW f \in 1..Len(s.flows), NEW g \in AllFlows,
         g.key = s.flows[f].key, g.outcome = s.flows[f].outcome,
         g.task_ids = s.flows[f].task_ids, g.running = s.flows[f].running,
         \/ f \in s.waiting \/ s.plan[f] # NotPlanned
         \/ g.start_condition \in {"batching", s.flows[f].start_condition}
  PROVE  Keeps(s, [s EXCEPT !.flows = [s.flows EXCEPT ![f] = g]])
<1>1. PICK n : n = [s EXCEPT !.flows = [s.flows EXCEPT ![f] = g]]
  OBVIOUS
<1>2. Touches(s, n)
  BY <1>1, TouchFlow
<1>3. /\ \A h \in 1..Len(s.flows) : n.flows[h] = IF h = f THEN g ELSE s.flows[h]
      /\ n.plan = s.plan /\ n.waiting = s.waiting
  BY <1>1, FlowReplaced
<1>4. Patient(s, n)
  BY <1>3 DEF Patient, Waits
<1>5. QED  BY <1>1, <1>2, <1>4 DEF Keeps

\* An error changes nothing else.
LEMMA FailTouches ==
  ASSUME NEW s \in ServiceStates, NEW why \in Errors
  PROVE  /\ Touches(s, Fail(s, why)) /\ Keeps(s, Fail(s, why))
         /\ Fail(s, why).error = why /\ Fail(s, why).plan = s.plan
<1>1. PICK n : n = Fail(s, why)
  OBVIOUS
<1>2. /\ n \in ServiceStates /\ n.flows = s.flows /\ n.pending = s.pending
      /\ n.active_configs = s.active_configs
      /\ n.tasks = s.tasks /\ n.task_queue = s.task_queue /\ n.by_task = s.by_task
      /\ n.error = why /\ n.plan = s.plan /\ n.waiting = s.waiting
  BY <1>1 DEF Fail, ServiceStates
<1>3. Touches(s, n) /\ Patient(s, n)
  BY <1>2 DEF Touches, Patient, Waits
<1>4. QED  BY <1>1, <1>2, <1>3 DEF Keeps

\* Planning a flow leaves flows and tasks alone, and the flow waits or is planned.
LEMMA EnqueueKeeps ==
  ASSUME NEW s \in ServiceStates, NEW f \in 1..Len(s.flows), NEW t \in Int,
         Len(s.plan) = Len(s.flows), NEW n, n = enqueue_flow(s, f, t)
  PROVE  /\ Keeps(s, n)
         /\ f \in n.waiting \/ n.plan[f] # NotPlanned
         /\ s.plan[f] = NotPlanned => f \in n.waiting
         /\ \A h \in 1..Len(s.flows) : n.flows[h] = s.flows[h]
<1>0. f \in Nat
  BY StateFields
<1>1. CASE s.plan[f] = NotPlanned \/ t < s.plan[f]
  <2>0. s.plan \in Seq(Int) /\ f \in 1..Len(s.plan)
    BY StateFields
  <2>0a. /\ [s.plan EXCEPT ![f] = t] \in Seq(Int) /\ Len([s.plan EXCEPT ![f] = t]) = Len(s.plan)
         /\ \A h \in 1..Len(s.plan) : [s.plan EXCEPT ![f] = t][h] = IF h = f THEN t ELSE s.plan[h]
    BY <2>0, ReplaceFacts
  <2>1. PICK p \in Seq(Int) : /\ p = [s.plan EXCEPT ![f] = t] /\ Len(p) = Len(s.plan)
                              /\ \A h \in 1..Len(s.plan) : h # f => p[h] = s.plan[h]
    BY <2>0a
  <2>2. PICK w \in SUBSET Nat : w = s.waiting \cup {f}
    BY <1>0, StateFields
  <2>3. n = [s EXCEPT !.plan = p, !.waiting = w]
    BY <1>1, <2>1, <2>2 DEF enqueue_flow
  <2>5. /\ n \in ServiceStates /\ n.flows = s.flows /\ n.pending = s.pending
        /\ n.active_configs = s.active_configs
        /\ n.tasks = s.tasks /\ n.task_queue = s.task_queue /\ n.by_task = s.by_task
        /\ n.plan = p /\ n.waiting = w
    BY <2>3 DEF ServiceStates
  <2>6. Touches(s, n)
    BY <2>5 DEF Touches
  <2>7. Patient(s, n)
    BY <2>1, <2>2, <2>5 DEF Patient, Waits
  <2>8. QED  BY <2>2, <2>5, <2>6, <2>7 DEF Keeps
<1>2. CASE ~(s.plan[f] = NotPlanned \/ t < s.plan[f])
  <2>1. n = s
    BY <1>2 DEF enqueue_flow
  <2>2. QED  BY <1>2, <2>1, KeepsItself
<1>3. QED  BY <1>1, <1>2

\* A start condition is only given, or refused.  A flow that waits for its inputs
\* must not lose that condition.
LEMMA SetConditionKeeps ==
  ASSUME NEW s \in ServiceStates, NEW f \in 1..Len(s.flows),
         NEW c \in {"schedule", "throttling", "batching"},
         c = "batching" \/ f \in s.waiting \/ s.plan[f] # NotPlanned,
         NEW n, n = set_relevant_start_condition(s, f, c)
  PROVE  /\ Keeps(s, n) /\ n.plan = s.plan
         /\ CanWait(s.flows[f]) => n.flows[f].start_condition = c
<1>1. PICK g0 \in AllFlows : g0 = s.flows[f]
  BY StateFields
<1> DEFINE g == [g0 EXCEPT !.start_condition = c]
<1>2. g \in AllFlows
  BY DEF AllFlows
<1>3. /\ g.key = g0.key /\ g.outcome = g0.outcome /\ g.task_ids = g0.task_ids
      /\ g.running = g0.running /\ g.start_condition = c
  BY DEF AllFlows
<1> HIDE DEF g
<1>4. PICK w : w = [s EXCEPT !.flows = [s.flows EXCEPT ![f] = g]]
  OBVIOUS
<1>5. Keeps(s, w)
  BY <1>1, <1>2, <1>3, <1>4, KeepFlow
<1>6. w.plan = s.plan /\ w.flows[f] = g
  BY <1>2, <1>4, FlowReplaced
<1>7. [s EXCEPT !.flows[f].start_condition = c] = w
  BY <1>1, <1>4 DEF ServiceStates, g
<1>8. "flow rejects start condition" \in Errors
  BY DEF Errors
<1>9. CASE CanWait(s.flows[f])
  <2>1. n = w
    BY <1>7, <1>9 DEF set_relevant_start_condition
  <2>2. QED  BY <1>3, <1>5, <1>6, <2>1
<1>10. CASE ~CanWait(s.flows[f])
  <2>1. n = Fail(s, "flow rejects start condition")
    BY <1>10 DEF set_relevant_start_condition
  <2>2. PICK e \in Errors : e = "flow rejects start condition"
    BY <1>8
  <2>3. n = Fail(s, e)
    BY <2>1, <2>2
  <2>4. Keeps(s, n) /\ n.plan = s.plan
    BY <2>3, FailTouches
  <2>5. QED  BY <1>10, <2>4
<1>11. QED  BY <1>9, <1>10

-----------------------------------------------------------------------------
(* Triggers of pending flows *)

\* The parts of a flow.
LEMMA FlowFields ==
  ASSUME NEW g \in AllFlows
  PROVE  /\ g.key \in Keys /\ g.triggers \subseteq Triggers /\ g.since \in Int
         /\ g.task_ids \subseteq Nat /\ g.running \in BOOLEAN
  BY DEF AllFlows

\* Moments of the plan are integers.
LEMMA BoundaryType ==
  ASSUME NEW s \in ServiceStates, NEW k \in Keys, NEW t \in Int
  PROVE  throttling_boundary_time(s, k, t) \in Int
<1>1. s.last_attempt[k] \in Int
  BY StateFields
<1>2. QED  BY <1>1, FlowConstants DEF throttling_boundary_time, Later

\* The next moment of a schedule is an integer.
LEMMA ActivationTimeType ==
  ASSUME NEW k \in Keys, HasSchedule(k), NEW t \in Int, NEW u \in Int
  PROVE  next_activation_time(k, t, u) \in Int
  BY FlowConstants DEF next_activation_time, HasSchedule, Later

\* The batching rule plans a flow and gives it a start condition, no more.  A
\* flow that is not planned waits for its inputs, or is planned now.
LEMMA EvaluateKeeps ==
  ASSUME NEW s \in ServiceStates, NEW f \in 1..Len(s.flows), NEW t \in Int, NEW boundary \in Int,
         NEW enough, Len(s.plan) = Len(s.flows),
         NEW n, n = evaluate_flow_transform_rule(s, f, t, boundary, enough)
  PROVE  Keeps(s, n) /\ (CanWait(s.flows[f]) /\ s.plan[f] = NotPlanned => Waits(n, f))
<1> DEFINE flow      == s.flows[f]
           deadline  == flow.since + BatchingInterval
           changed   == \E trigger \in flow.triggers : trigger.result = "Changed"
           satisfied == changed /\ (enough \/ t >= deadline)
           finish    == IF satisfied THEN t ELSE deadline
           at        == Later(finish, boundary)
           batching  == IF flow.start_condition = "batching" THEN s
                        ELSE set_relevant_start_condition(s, f, "batching")
           planned   == IF s.plan[f] = NotPlanned \/ s.plan[f] > at
                        THEN enqueue_flow(batching, f, at) ELSE batching
           throttled == set_relevant_start_condition(planned, f, "throttling")
<1>1. at \in Int
  <2>1. flow.since \in Int
    BY StateFields, FlowFields
  <2> HIDE DEF flow
  <2>2. finish \in Int
    BY <2>1, FlowConstants
  <2> HIDE DEF finish
  <2>3. QED  BY <2>2 DEF Later
<1>2. n \in {batching, throttled, planned}
  BY DEF evaluate_flow_transform_rule
<1> HIDE DEF at
<1>4. /\ Keeps(s, batching) /\ batching.plan = s.plan
      /\ CanWait(flow) => batching.flows[f].start_condition = "batching"
  BY KeepsItself, SetConditionKeeps
<1> HIDE DEF flow, batching
<1>5. batching \in ServiceStates /\ Len(batching.flows) = Len(s.flows)
  BY <1>4 DEF Keeps, Touches
<1>6. /\ Keeps(batching, planned)
      /\ f \in planned.waiting \/ planned.plan[f] # NotPlanned
  <2>1. CASE s.plan[f] = NotPlanned \/ s.plan[f] > at
    <3>1. planned = enqueue_flow(batching, f, at) /\ f \in 1..Len(batching.flows)
      BY <1>5, <2>1
    <3>2. Len(batching.plan) = Len(batching.flows)
      BY <1>4, <1>5
    <3>3. QED  BY <1>1, <1>5, <3>1, <3>2, EnqueueKeeps
  <2>2. CASE ~(s.plan[f] = NotPlanned \/ s.plan[f] > at)
    BY <1>4, <1>5, <2>2, KeepsItself
  <2>3. QED  BY <2>1, <2>2
<1> HIDE DEF planned
<1>7. planned \in ServiceStates /\ Len(planned.flows) = Len(s.flows)
  BY <1>5, <1>6 DEF Keeps, Touches
<1>8. Keeps(planned, throttled)
  BY <1>6, <1>7, SetConditionKeeps
<1> HIDE DEF throttled
<1>9. Keeps(s, planned)
  BY <1>4, <1>6, KeepsTransitive
<1>10. Keeps(s, throttled)
  BY <1>8, <1>9, KeepsTransitive
<1>11. ASSUME CanWait(flow), s.plan[f] = NotPlanned
       PROVE  Waits(n, f)
  <2>1. Waits(batching, f)
    BY <1>4, <1>11 DEF Waits
  <2>2. Waits(planned, f)
    BY <1>5, <1>6, <2>1 DEF Keeps, Patient
  <2>3. Waits(throttled, f)
    BY <1>7, <1>8, <2>2 DEF Keeps, Patient
  <2>4. QED  BY <1>2, <2>1, <2>2, <2>3
<1>12. QED  BY <1>2, <1>4, <1>9, <1>10, <1>11 DEF flow

\* A trigger of a pending flow.
LEMMA MergeKeeps ==
  ASSUME NEW s \in ServiceStates, PendingInv(s), NEW k \in Keys, s.pending[k] # None,
         NEW trigger \in Triggers, NEW context, NEW t \in Int, NEW enough,
         Len(s.plan) = Len(s.flows)
  PROVE  Keeps(s, MergeTrigger(s, k, trigger, context, t, enough))
<1> DEFINE f        == s.pending[k]
           flow     == s.flows[f]
           boundary == throttling_boundary_time(s, k, t)
           unique   == is_unique_vs(trigger, flow.triggers)
           triggers == IF unique THEN flow.triggers \cup {trigger} ELSE flow.triggers
           merged   == [s EXCEPT !.flows[f].triggers = IF unique THEN @ \cup {trigger} ELSE @]
           evaluated == evaluate_flow_transform_rule(merged, f, t, boundary, enough)
           queued    == enqueue_flow(merged, f, boundary)
           throttled == set_relevant_start_condition(queued, f, "throttling")
           rejected  == Fail(s, "flow rejects trigger")
           unplanned == Fail(s, "no activation time")
           stuck     == Fail(enqueue_flow(s, f, boundary), "flow rejects start condition")
<1>1. MergeTrigger(s, k, trigger, context, t, enough)
        \in {rejected, evaluated, merged, unplanned, queued, throttled, stuck}
  BY DEF MergeTrigger
<1>2. f \in 1..Len(s.flows) /\ f \in Nat
  BY StateFields DEF PendingInv
<1>3. boundary \in Int
  BY BoundaryType
<1>4. flow \in AllFlows
  BY <1>2, StateFields
<1>5. triggers \in SUBSET Triggers
  <2>1. flow.triggers \subseteq Triggers
    BY <1>4, FlowFields
  <2> HIDE DEF flow, unique
  <2>2. QED  BY <2>1
<1>6. merged = [s EXCEPT !.flows = [s.flows EXCEPT ![f] = [flow EXCEPT !.triggers = triggers]]]
  BY <1>2 DEF ServiceStates
<1> HIDE DEF f, boundary, unique, triggers, merged
<1>7. Keeps(s, merged)
  <2>1. PICK g0 \in AllFlows : g0 = flow
    BY <1>4
  <2>2. PICK u \in SUBSET Triggers : u = triggers
    BY <1>5
  <2> DEFINE g == [g0 EXCEPT !.triggers = u]
  <2>3. g \in AllFlows
    BY DEF AllFlows
  <2>4. /\ g.key = g0.key /\ g.outcome = g0.outcome /\ g.task_ids = g0.task_ids
        /\ g.running = g0.running /\ g.start_condition = g0.start_condition
    BY DEF AllFlows
  <2>5. merged = [s EXCEPT !.flows = [s.flows EXCEPT ![f] = g]]
    BY <1>6, <2>1, <2>2
  <2> HIDE DEF g
  <2>6. QED  BY <1>2, <2>1, <2>3, <2>4, <2>5, KeepFlow
<1> HIDE DEF flow
<1>8. /\ merged \in ServiceStates /\ Len(merged.flows) = Len(s.flows)
      /\ Len(merged.plan) = Len(merged.flows)
  BY <1>7 DEF Keeps, Patient, Touches
<1>9. Keeps(s, evaluated)
  <2>1. Keeps(merged, evaluated)
    BY <1>2, <1>3, <1>8, EvaluateKeeps
  <2> HIDE DEF evaluated
  <2>2. QED  BY <1>7, <2>1, KeepsTransitive
<1>10. /\ Keeps(s, queued) /\ queued \in ServiceStates /\ Len(queued.flows) = Len(s.flows)
       /\ f \in queued.waiting \/ queued.plan[f] # NotPlanned
  <2>1. Keeps(merged, queued) /\ (f \in queued.waiting \/ queued.plan[f] # NotPlanned)
    BY <1>2, <1>3, <1>8, EnqueueKeeps
  <2> HIDE DEF queued
  <2>2. Keeps(s, queued)
    BY <1>7, <2>1, KeepsTransitive
  <2>3. QED  BY <2>1, <2>2 DEF Keeps, Touches
<1> HIDE DEF queued
<1>11. Keeps(s, throttled)
  <2>1. Keeps(queued, throttled)
    BY <1>2, <1>10, SetConditionKeeps
  <2> HIDE DEF throttled
  <2>2. QED  BY <1>10, <2>1, KeepsTransitive
<1>12. {"flow rejects trigger", "no activation time", "flow rejects start condition"} \subseteq Errors
  BY DEF Errors
<1>13. Keeps(s, rejected) /\ Keeps(s, unplanned)
  BY <1>12, FailTouches
<1>14. Keeps(s, stuck)
  <2> DEFINE e == enqueue_flow(s, f, boundary)
  <2>1. Keeps(s, e)
    BY <1>2, <1>3, EnqueueKeeps
  <2> HIDE DEF e
  <2>2. e \in ServiceStates
    BY <2>1 DEF Keeps, Touches
  <2>3. Keeps(e, Fail(e, "flow rejects start condition"))
    BY <1>12, <2>2, FailTouches
  <2>4. QED  BY <2>1, <2>3, KeepsTransitive DEF e
<1> HIDE DEF evaluated, throttled, rejected, unplanned, stuck
<1>15. QED  BY <1>1, <1>7, <1>9, <1>10, <1>11, <1>13, <1>14

-----------------------------------------------------------------------------
(* New flows *)

\* A flow of key k was added, and is pending.
Starts(s, n, k) ==
  /\ n \in ServiceStates
  /\ Len(n.flows) = Len(s.flows) + 1
  /\ \A f \in 1..Len(s.flows) : /\ n.flows[f].key = s.flows[f].key
                                /\ n.flows[f].outcome = s.flows[f].outcome
                                /\ n.flows[f].task_ids = s.flows[f].task_ids
                                /\ n.flows[f].running = s.flows[f].running
                                /\ Waits(s, f) => Waits(n, f)
  /\ n.flows[Len(s.flows) + 1].key = k /\ n.flows[Len(s.flows) + 1].outcome = "none"
  /\ n.flows[Len(s.flows) + 1].task_ids = {} /\ ~n.flows[Len(s.flows) + 1].running
  /\ Len(n.plan) = Len(s.plan) + 1
  /\ n.pending = [s.pending EXCEPT ![k] = Len(s.flows) + 1]
  /\ n.active_configs = s.active_configs
  /\ n.tasks = s.tasks /\ n.task_queue = s.task_queue /\ n.by_task = s.by_task

\* Such steps after a flow was started.
LEMMA StartsThenKeeps ==
  ASSUME NEW s \in ServiceStates, NEW n, NEW o, NEW k, Starts(s, n, k), Keeps(n, o)
  PROVE  Starts(s, o, k)
<1>1. PICK L \in Nat : L = Len(s.flows)
  BY StateFields
<1>2. 1..L \subseteq 1..(L + 1) /\ L + 1 \in 1..(L + 1)
  OBVIOUS
<1>3. Len(n.flows) = L + 1 /\ Len(o.flows) = L + 1 /\ o \in ServiceStates
  BY <1>1 DEF Starts, Keeps, Touches
<1>4. \A f \in 1..L : /\ o.flows[f].key = s.flows[f].key
                      /\ o.flows[f].outcome = s.flows[f].outcome
                      /\ o.flows[f].task_ids = s.flows[f].task_ids
  BY <1>1, <1>2, <1>3 DEF Starts, Keeps, Touches
<1>4a. \A f \in 1..L : /\ o.flows[f].running = s.flows[f].running
                       /\ Waits(s, f) => Waits(o, f)
  BY <1>1, <1>2, <1>3 DEF Starts, Keeps, Patient
<1>5. o.flows[L + 1].key = k /\ o.flows[L + 1].outcome = "none" /\ o.flows[L + 1].task_ids = {}
  BY <1>1, <1>2, <1>3 DEF Starts, Keeps, Touches
<1>5a. ~o.flows[L + 1].running /\ Len(o.plan) = Len(s.plan) + 1
  BY <1>1, <1>2, <1>3 DEF Starts, Keeps, Patient
<1>6. /\ o.pending = [s.pending EXCEPT ![k] = L + 1] /\ o.active_configs = s.active_configs
      /\ o.tasks = s.tasks /\ o.task_queue = s.task_queue /\ o.by_task = s.by_task
  BY <1>1 DEF Starts, Keeps, Touches
<1>7. QED  BY <1>1, <1>3, <1>4, <1>4a, <1>5, <1>5a, <1>6 DEF Starts

\* PendingInv is about keys, outcomes and pending flows only.
LEMMA SamePending ==
  ASSUME NEW s, NEW n, PendingInv(s), Len(n.flows) = Len(s.flows), n.pending = s.pending,
         \A f \in 1..Len(s.flows) : /\ n.flows[f].key = s.flows[f].key
                                   /\ n.flows[f].outcome = s.flows[f].outcome
  PROVE  PendingInv(n)
<1>1. ASSUME NEW k \in Keys, n.pending[k] # None
      PROVE  n.pending[k] \in 1..Len(n.flows) /\ n.flows[n.pending[k]].key = k
  <2>1. s.pending[k] \in 1..Len(s.flows) /\ s.flows[s.pending[k]].key = k
    BY <1>1 DEF PendingInv
  <2>2. QED  BY <2>1
<1>2. ASSUME NEW f \in 1..Len(n.flows), n.flows[f].outcome = "none"
      PROVE  n.pending[n.flows[f].key] = f
  <2>1. f \in 1..Len(s.flows) /\ s.flows[f].outcome = "none" /\ n.flows[f].key = s.flows[f].key
    BY <1>2
  <2>2. s.pending[s.flows[f].key] = f
    BY <2>1 DEF PendingInv
  <2>3. QED  BY <2>1, <2>2
<1>3. QED  BY <1>1, <1>2 DEF PendingInv

\* The newest flow of a key depends on keys only.
LEMMA SameLast ==
  ASSUME NEW s, NEW n, Len(n.flows) = Len(s.flows),
         \A f \in 1..Len(s.flows) : n.flows[f].key = s.flows[f].key,
         NEW f, NEW k, IsLast(s, f, k)
  PROVE  IsLast(n, f, k)
  BY DEF IsLast

\* AwakeInv is about keys, outcomes, pending flows and active configurations only.
LEMMA SameAwake ==
  ASSUME NEW s, NEW n, NEW ended, AwakeInv(s, ended), Len(n.flows) = Len(s.flows),
         n.pending = s.pending, n.active_configs \subseteq s.active_configs,
         \A f \in 1..Len(s.flows) : /\ n.flows[f].key = s.flows[f].key
                                   /\ n.flows[f].outcome = s.flows[f].outcome
  PROVE  AwakeInv(n, ended)
<1>1. ASSUME NEW k \in Keys, n.pending[k] # None
      PROVE  IsLast(n, n.pending[k], k)
  <2>1. IsLast(s, s.pending[k], k)
    BY <1>1 DEF AwakeInv
  <2>2. QED  BY <2>1, SameLast
<1>2. ASSUME NEW k \in n.active_configs \ ended, HasSchedule(k), n.pending[k] = None
      PROVE  \E f \in 1..Len(n.flows) : IsLast(n, f, k) /\ n.flows[f].outcome = "Failed"
  <2>1. PICK f \in 1..Len(s.flows) : IsLast(s, f, k) /\ s.flows[f].outcome = "Failed"
    BY <1>2 DEF AwakeInv
  <2>2. IsLast(n, f, k)
    BY <2>1, SameLast
  <2>3. QED  BY <2>1, <2>2
<1>3. QED  BY <1>1, <1>2 DEF AwakeInv

\* A key with a pending flow needs no exception.
LEMMA Awakened ==
  ASSUME NEW s, NEW k, AwakeInv(s, {k}), s.pending[k] # None
  PROVE  AwakeInv(s, {})
  BY DEF AwakeInv

\* What touches keep.
LEMMA TouchesPreserve ==
  ASSUME NEW s, NEW n, NEW messages, NEW task, NEW gone,
         CoreInv(s, messages, task, gone), Touches(s, n)
  PROVE  CoreInv(n, messages, task, gone)
<1>0. /\ s \in ServiceStates /\ n \in ServiceStates /\ PendingInv(s)
      /\ TaskInv(s, messages, task) /\ TrackedInv(s, messages, task, gone)
  BY DEF Touches, CoreInv
<1>1. Len(s.flows) \in Nat /\ Len(s.tasks) \in Nat
  BY <1>0, StateFields
<1>2. PendingInv(n)
  <2>1. /\ Len(n.flows) = Len(s.flows) /\ n.pending = s.pending
        /\ \A f \in 1..Len(s.flows) : /\ n.flows[f].key = s.flows[f].key
                                      /\ n.flows[f].outcome = s.flows[f].outcome
    BY DEF Touches
  <2>2. QED  BY <1>0, <2>1, SamePending
<1>3. TaskInv(n, messages, task)
  BY <1>0 DEF TaskInv, Touches, InQueue
<1>4. TrackedInv(n, messages, task, gone)
  <2> SUFFICES ASSUME NEW t \in 1..Len(s.tasks), NEW f, f = s.by_task[t], f # None
               PROVE  Followed(n, messages, task, gone, t, f)
    BY DEF TrackedInv, Touches
  <2>1. InQueue(n, t) <=> InQueue(s, t)
    BY DEF InQueue, Touches
  <2>2. Unstarted(n, messages, t) <=> Unstarted(s, messages, t)
    BY <2>1 DEF Unstarted
  <2>3. \A k : Gone(n, gone, k) <=> Gone(s, gone, k)
    BY DEF Gone, Touches
  <2>4. Followed(s, messages, task, gone, t, f)
    BY <1>0 DEF TrackedInv
  <2>5. QED  BY <2>1, <2>2, <2>3, <2>4 DEF Followed, Touches
<1>5. QED  BY <1>0, <1>2, <1>3, <1>4 DEF CoreInv

\* What is left of a task that will end.
LEMMA SameEnding ==
  ASSUME NEW s, NEW n, n.task_queue = s.task_queue, NEW messages, NEW task, NEW t
  PROVE  Ending(s, messages, task, t) <=> Ending(n, messages, task, t)
  BY DEF Ending, InQueue

\* AliveInv is about flows and their tasks.
LEMMA PatientAlive ==
  ASSUME NEW s, NEW n, NEW messages, NEW task, AliveInv(s, messages, task, {}), Patient(s, n),
         Len(n.flows) = Len(s.flows),
         \A f \in 1..Len(s.flows) : /\ n.flows[f].outcome = s.flows[f].outcome
                                   /\ n.flows[f].task_ids = s.flows[f].task_ids,
         n.tasks = s.tasks, n.task_queue = s.task_queue, n.by_task = s.by_task
  PROVE  AliveInv(n, messages, task, {})
<1>1. ASSUME NEW f \in 1..Len(s.flows), HasTask(s, messages, task, f)
      PROVE  HasTask(n, messages, task, f)
  BY <1>1, SameEnding DEF HasTask
<1>2. Len(n.plan) = Len(n.flows)
  BY DEF AliveInv, Patient
<1>3. ASSUME NEW f \in 1..Len(n.flows)
      PROVE  /\ \A t \in n.flows[f].task_ids : t \in 1..Len(n.tasks) /\ n.tasks[t] = f
             /\ n.flows[f].outcome = "none" =>
                   /\ Waits(n, f) \/ HasTask(n, messages, task, f)
                   /\ n.flows[f].running => HasTask(n, messages, task, f)
  <2>1. f \in 1..Len(s.flows)
    OBVIOUS
  <2>2. /\ \A t \in s.flows[f].task_ids : t \in 1..Len(s.tasks) /\ s.tasks[t] = f
        /\ s.flows[f].outcome = "none" =>
              /\ Waits(s, f) \/ HasTask(s, messages, task, f)
              /\ s.flows[f].running => HasTask(s, messages, task, f)
    BY <2>1 DEF AliveInv
  <2>3. n.flows[f].running = s.flows[f].running /\ (Waits(s, f) => Waits(n, f))
    BY <2>1 DEF Patient
  <2>4. QED  BY <1>1, <2>1, <2>2, <2>3
<1>4. QED  BY <1>2, <1>3 DEF AliveInv

\* The invariant is kept.
LEMMA KeepsPreserve ==
  ASSUME NEW s, NEW n, NEW messages, NEW task, NEW gone, NEW ended,
         ServiceInv(s, messages, task, gone, ended), Keeps(s, n)
  PROVE  ServiceInv(n, messages, task, gone, ended)
<1>1. /\ CoreInv(s, messages, task, gone) /\ AliveInv(s, messages, task, {})
      /\ AwakeInv(s, ended)
  BY DEF ServiceInv
<1>2. CoreInv(n, messages, task, gone)
  BY <1>1, TouchesPreserve DEF Keeps
<1>3. AliveInv(n, messages, task, {})
  <2>1. /\ Patient(s, n) /\ Len(n.flows) = Len(s.flows)
        /\ \A f \in 1..Len(s.flows) : /\ n.flows[f].outcome = s.flows[f].outcome
                                      /\ n.flows[f].task_ids = s.flows[f].task_ids
        /\ n.tasks = s.tasks /\ n.task_queue = s.task_queue /\ n.by_task = s.by_task
    BY DEF Keeps, Touches
  <2>2. QED  BY <1>1, <2>1, PatientAlive
<1>4. AwakeInv(n, ended)
  <2>1. /\ Len(n.flows) = Len(s.flows) /\ n.pending = s.pending
        /\ n.active_configs = s.active_configs
        /\ \A f \in 1..Len(s.flows) : /\ n.flows[f].key = s.flows[f].key
                                      /\ n.flows[f].outcome = s.flows[f].outcome
    BY DEF Keeps, Touches
  <2>2. QED  BY <1>1, <2>1, SameAwake
<1>5. QED  BY <1>2, <1>3, <1>4 DEF ServiceInv

\* A flow may be started for a key that has none and is not gone.
LEMMA StartsPreserve ==
  ASSUME NEW s, NEW n, NEW messages, NEW task, NEW gone, NEW ended, NEW k \in Keys,
         ServiceInv(s, messages, task, gone, ended), Starts(s, n, k),
         s.pending[k] = None, ~Gone(s, gone, k), Waits(n, Len(s.flows) + 1)
  PROVE  ServiceInv(n, messages, task, gone, ended)
<1>0. /\ s \in ServiceStates /\ n \in ServiceStates /\ PendingInv(s)
      /\ TaskInv(s, messages, task) /\ TrackedInv(s, messages, task, gone)
      /\ AliveInv(s, messages, task, {}) /\ AwakeInv(s, ended)
  BY DEF Starts, ServiceInv, CoreInv
<1>1. /\ Len(s.flows) \in Nat /\ Len(s.tasks) \in Nat /\ s.pending \in [Keys -> Nat]
      /\ \A f \in 1..Len(s.flows) : s.flows[f].key \in Keys
  BY <1>0, StateFields, FlowFields
<1>2. PendingInv(n)
  <2>1. ASSUME NEW j \in Keys, n.pending[j] # None
        PROVE  n.pending[j] \in 1..Len(n.flows) /\ n.flows[n.pending[j]].key = j
    <3>1. PICK L \in Nat : L = Len(s.flows) /\ Len(n.flows) = L + 1
      BY <1>1 DEF Starts
    <3>2. n.pending = [s.pending EXCEPT ![k] = L + 1] /\ n.flows[L + 1].key = k
      BY <3>1 DEF Starts
    <3>3. CASE j = k
      <4>1. n.pending[j] = L + 1 /\ L + 1 \in 1..(L + 1)
        BY <1>1, <3>2, <3>3
      <4>2. QED  BY <3>1, <3>2, <3>3, <4>1
    <3>4. CASE j # k
      <4>1. n.pending[j] = s.pending[j]
        BY <1>1, <3>2, <3>4
      <4>2. s.pending[j] \in 1..L /\ s.flows[s.pending[j]].key = j
        BY <1>0, <2>1, <3>1, <4>1 DEF PendingInv
      <4>3. n.flows[s.pending[j]].key = s.flows[s.pending[j]].key
        BY <3>1, <4>2 DEF Starts
      <4>4. QED  BY <3>1, <4>1, <4>2, <4>3
    <3>5. QED  BY <3>3, <3>4
  <2>2. ASSUME NEW f \in 1..Len(n.flows), n.flows[f].outcome = "none"
        PROVE  n.pending[n.flows[f].key] = f
    <3>1. CASE f = Len(s.flows) + 1
      BY <1>1, <3>1 DEF Starts
    <3>2. CASE f # Len(s.flows) + 1
      <4>1. f \in 1..Len(s.flows)
        BY <1>1, <3>2 DEF Starts
      <4>2. n.flows[f].key = s.flows[f].key /\ s.pending[s.flows[f].key] = f /\ f # None
        <5>1. n.flows[f].key = s.flows[f].key /\ n.flows[f].outcome = s.flows[f].outcome
          BY <4>1 DEF Starts
        <5>2. s.flows[f].outcome = "none"
          BY <2>2, <5>1
        <5>3. s.pending[s.flows[f].key] = f
          BY <1>0, <4>1, <5>2 DEF PendingInv
        <5>4. f # None
          BY <4>1 DEF None
        <5>5. QED  BY <5>1, <5>3, <5>4
      <4>3. QED  BY <1>1, <4>1, <4>2 DEF Starts
    <3>3. QED  BY <3>1, <3>2
  <2>3. QED  BY <2>1, <2>2 DEF PendingInv
<1>3. TaskInv(n, messages, task)
  BY <1>0 DEF TaskInv, Starts, InQueue
<1>4. TrackedInv(n, messages, task, gone)
  <2> SUFFICES ASSUME NEW t \in 1..Len(s.tasks), NEW f, f = s.by_task[t], f # None
               PROVE  Followed(n, messages, task, gone, t, f)
    BY DEF TrackedInv, Starts
  <2>1. InQueue(n, t) <=> InQueue(s, t)
    BY DEF InQueue, Starts
  <2>2. Unstarted(n, messages, t) <=> Unstarted(s, messages, t)
    BY <2>1 DEF Unstarted
  <2>3. \A j \in Keys : Gone(s, gone, j) => Gone(n, gone, j)
    BY <1>1 DEF Gone, Starts
  <2>4. Followed(s, messages, task, gone, t, f)
    BY <1>0 DEF TrackedInv
  <2>5. f \in 1..Len(s.flows) /\ s.flows[f].key \in Keys
    BY <1>1, <2>4 DEF Followed
  <2>6. /\ f \in 1..Len(n.flows) /\ n.flows[f].task_ids = s.flows[f].task_ids
        /\ n.flows[f].outcome = s.flows[f].outcome /\ n.flows[f].key = s.flows[f].key
    <3>1. Len(n.flows) = Len(s.flows) + 1
      BY DEF Starts
    <3>2. f \in 1..Len(n.flows)
      BY <1>1, <2>5, <3>1
    <3>3. /\ n.flows[f].task_ids = s.flows[f].task_ids
          /\ n.flows[f].outcome = s.flows[f].outcome /\ n.flows[f].key = s.flows[f].key
      BY <2>5 DEF Starts
    <3>4. QED  BY <3>2, <3>3
  <2>7. QED  BY <2>1, <2>2, <2>3, <2>4, <2>5, <2>6 DEF Followed
<1>5. AliveInv(n, messages, task, {})
  <2>1. PICK L \in Nat : L = Len(s.flows) /\ Len(n.flows) = L + 1
    BY <1>1 DEF Starts
  <2>2. Len(n.plan) = Len(n.flows)
    BY <1>0, <2>1 DEF Starts, AliveInv
  <2>3. ASSUME NEW f \in 1..L
        PROVE  /\ \A t \in n.flows[f].task_ids : t \in 1..Len(n.tasks) /\ n.tasks[t] = f
               /\ n.flows[f].outcome = "none" =>
                     /\ Waits(n, f) \/ HasTask(n, messages, task, f)
                     /\ n.flows[f].running => HasTask(n, messages, task, f)
    <3>1. /\ \A t \in s.flows[f].task_ids : t \in 1..Len(s.tasks) /\ s.tasks[t] = f
          /\ s.flows[f].outcome = "none" =>
                /\ Waits(s, f) \/ HasTask(s, messages, task, f)
                /\ s.flows[f].running => HasTask(s, messages, task, f)
      BY <1>0, <2>1 DEF AliveInv
    <3>2. /\ n.flows[f].outcome = s.flows[f].outcome /\ n.flows[f].task_ids = s.flows[f].task_ids
          /\ n.flows[f].running = s.flows[f].running /\ (Waits(s, f) => Waits(n, f))
          /\ n.tasks = s.tasks /\ n.task_queue = s.task_queue /\ n.by_task = s.by_task
      BY <2>1 DEF Starts
    <3>3. HasTask(s, messages, task, f) => HasTask(n, messages, task, f)
      BY <3>2, SameEnding DEF HasTask
    <3>4. QED  BY <3>1, <3>2, <3>3
  <2>4. n.flows[L + 1].task_ids = {} /\ ~n.flows[L + 1].running /\ Waits(n, L + 1)
    BY <2>1 DEF Starts
  <2>5. \A f \in 1..(L + 1) : f \in 1..L \/ f = L + 1
    OBVIOUS
  <2>6. QED  BY <2>1, <2>2, <2>3, <2>4, <2>5 DEF AliveInv
<1>6. AwakeInv(n, ended)
  <2>1. PICK L \in Nat : L = Len(s.flows) /\ Len(n.flows) = L + 1
    BY <1>1 DEF Starts
  <2>2. /\ \A f \in 1..L : n.flows[f].key = s.flows[f].key /\ n.flows[f].outcome = s.flows[f].outcome
        /\ n.flows[L + 1].key = k /\ n.active_configs = s.active_configs
        /\ n.pending[k] = L + 1 /\ \A j \in Keys : j # k => n.pending[j] = s.pending[j]
    BY <1>1, <2>1 DEF Starts
  <2>3. /\ 1..L \subseteq 1..(L + 1) /\ L + 1 \in 1..(L + 1) /\ L + 1 # None
        /\ \A f \in 1..(L + 1) : f \in 1..L \/ f = L + 1
        /\ \A f \in 1..(L + 1) : f <= L + 1
    BY DEF None
  <2>4. IsLast(n, L + 1, k)
    BY <2>1, <2>2, <2>3 DEF IsLast
  <2>5. ASSUME NEW j, j # k, NEW f, IsLast(s, f, j)
        PROVE  f \in 1..L /\ IsLast(n, f, j)
    BY <2>1, <2>2, <2>3, <2>5 DEF IsLast
  <2>6. ASSUME NEW j \in Keys, n.pending[j] # None
        PROVE  IsLast(n, n.pending[j], j)
    <3>1. CASE j = k
      BY <2>2, <2>4, <3>1
    <3>2. CASE j # k
      BY <1>0, <2>2, <2>5, <2>6, <3>2 DEF AwakeInv
    <3>3. QED  BY <3>1, <3>2
  <2>7. ASSUME NEW j \in n.active_configs \ ended, HasSchedule(j), n.pending[j] = None
        PROVE  \E f \in 1..Len(n.flows) : IsLast(n, f, j) /\ n.flows[f].outcome = "Failed"
    <3>1. j \in Keys /\ j # k
      BY <1>0, <2>2, <2>3, <2>7, StateFields
    <3>2. PICK f \in 1..Len(s.flows) : IsLast(s, f, j) /\ s.flows[f].outcome = "Failed"
      BY <1>0, <2>2, <2>7, <3>1 DEF AwakeInv
    <3>3. IsLast(n, f, j) /\ f \in 1..Len(n.flows) /\ n.flows[f].outcome = "Failed"
      BY <2>1, <2>2, <2>3, <2>5, <3>1, <3>2
    <3>4. QED  BY <3>3
  <2>8. QED  BY <2>6, <2>7 DEF AwakeInv
<1>7. QED  BY <1>0, <1>2, <1>3, <1>4, <1>5, <1>6 DEF ServiceInv, CoreInv

\* A new flow is unfinished and has the key it was made for.
LEMMA NewFlowType ==
  ASSUME NEW k \in Keys, NEW trigger \in Triggers, NEW t \in Int
  PROVE  /\ NewFlow(k, trigger, t) \in AllFlows
         /\ NewFlow(k, trigger, t).key = k /\ NewFlow(k, trigger, t).outcome = "none"
         /\ NewFlow(k, trigger, t).task_ids = {} /\ ~NewFlow(k, trigger, t).running
         /\ CanWait(NewFlow(k, trigger, t))
  BY DEF NewFlow, AllFlows, CanWait

\* A trigger of a key without a pending flow starts one.
LEMMA InitiateStarts ==
  ASSUME NEW s \in ServiceStates, NEW k \in Keys, NEW trigger \in Triggers, NEW context,
         context = "Scheduled" => HasSchedule(k), NEW t \in Int, NEW enough,
         Len(s.plan) = Len(s.flows), NEW n, n = InitiateFlow(s, k, trigger, context, t, enough)
  PROVE  Starts(s, n, k) /\ Waits(n, Len(s.flows) + 1)
<1> DEFINE f        == Len(s.flows) + 1
           boundary == throttling_boundary_time(s, k, t)
           naive    == IF context = "Scheduled" THEN next_activation_time(k, t, s.last_success[k]) ELSE t
           new      == [s EXCEPT !.flows = Append(@, NewFlow(k, trigger, t)),
                                 !.plan = Append(@, NotPlanned), !.pending[k] = f]
           queued    == enqueue_flow(new, f, Later(boundary, naive))
           evaluated == evaluate_flow_transform_rule(new, f, t, boundary, enough)
           throttled == set_relevant_start_condition(queued, f, "throttling")
           scheduled == set_relevant_start_condition(queued, f, "schedule")
<1>1. n \in {evaluated, throttled, scheduled, queued}
  BY DEF InitiateFlow
<1>2. boundary \in Int
  BY BoundaryType
<1>3. naive \in Int
  <2>1. s.last_success[k] \in Int
    BY StateFields
  <2>2. QED  BY <2>1, ActivationTimeType
<1>4. f \in Nat
  BY StateFields
<1>5. /\ Starts(s, new, k) /\ CanWait(new.flows[f]) /\ new.plan[f] = NotPlanned
  <2>1. PICK q \in Seq(AllFlows) : q = Append(s.flows, NewFlow(k, trigger, t))
    BY StateFields, NewFlowType, AppendFacts
  <2>2. /\ Len(q) = f /\ q[f] = NewFlow(k, trigger, t)
        /\ \A h \in 1..Len(s.flows) : q[h] = s.flows[h]
    BY <2>1, StateFields, NewFlowType, AppendFacts
  <2>3. PICK p \in Seq(Int) : /\ p = Append(s.plan, NotPlanned) /\ Len(p) = Len(s.plan) + 1
                              /\ p[f] = NotPlanned /\ \A h \in 1..Len(s.flows) : p[h] = s.plan[h]
    <3>1. s.plan \in Seq(Int) /\ NotPlanned \in Int
      BY StateFields DEF NotPlanned
    <3>2. PICK p : p = Append(s.plan, NotPlanned)
      OBVIOUS
    <3>3. /\ p \in Seq(Int) /\ Len(p) = Len(s.plan) + 1
          /\ p[Len(s.plan) + 1] = NotPlanned /\ \A h \in 1..Len(s.plan) : p[h] = s.plan[h]
      BY <3>1, <3>2, AppendFacts
    <3>4. QED  BY <3>2, <3>3
  <2>4. PICK pending \in [Keys -> Nat] : pending = [s.pending EXCEPT ![k] = f]
    <3> HIDE DEF f
    <3> QED  BY <1>4, StateFields
  <2>5. new = [s EXCEPT !.flows = q, !.plan = p, !.pending = pending]
    BY <2>1, <2>3, <2>4
  <2> HIDE DEF new, f
  <2>6. /\ new \in ServiceStates /\ new.flows = q /\ new.pending = pending
        /\ new.active_configs = s.active_configs
        /\ new.tasks = s.tasks /\ new.task_queue = s.task_queue /\ new.by_task = s.by_task
        /\ new.plan = p /\ new.waiting = s.waiting
    BY <2>5 DEF ServiceStates
  <2>7. /\ q[f].key = k /\ q[f].outcome = "none" /\ q[f].task_ids = {} /\ ~q[f].running
        /\ CanWait(q[f])
    BY <2>2, NewFlowType
  <2>8. \A h \in 1..Len(s.flows) : Waits(s, h) => Waits(new, h)
    BY <2>2, <2>3, <2>6 DEF Waits
  <2>9. \A h \in 1..Len(s.flows) : new.flows[h] = s.flows[h]
    BY <2>2, <2>6
  <2>10. Starts(s, new, k)
    BY <2>2, <2>3, <2>4, <2>6, <2>7, <2>8, <2>9 DEF Starts, f
  <2>11. QED  BY <2>3, <2>6, <2>7, <2>10
<1> HIDE DEF boundary, naive, new
<1>6. /\ new \in ServiceStates /\ f \in 1..Len(new.flows) /\ Len(new.plan) = Len(new.flows)
  <2>1. /\ new \in ServiceStates /\ Len(new.flows) = Len(s.flows) + 1
        /\ Len(new.plan) = Len(s.plan) + 1
    BY <1>5 DEF Starts
  <2>2. QED  BY <1>4, <2>1
<1>7. Starts(s, evaluated, k) /\ Waits(evaluated, f)
  <2>1. Keeps(new, evaluated) /\ Waits(evaluated, f)
    <3> HIDE DEF f
    <3> QED  BY <1>2, <1>5, <1>6, EvaluateKeeps
  <2> HIDE DEF evaluated, f
  <2>2. QED  BY <1>5, <2>1, StartsThenKeeps
<1>8. Keeps(new, queued) /\ f \in queued.waiting
  <2>1. Later(boundary, naive) \in Int
    BY <1>2, <1>3 DEF Later
  <2> HIDE DEF f
  <2>2. QED  BY <1>5, <1>6, <2>1, EnqueueKeeps
<1> HIDE DEF queued
<1>9. queued \in ServiceStates /\ f \in 1..Len(queued.flows)
  BY <1>6, <1>8 DEF Keeps, Touches
<1>10. Starts(s, queued, k) /\ Waits(queued, f)
  BY <1>5, <1>8, StartsThenKeeps DEF Waits
<1>11. Starts(s, throttled, k) /\ Starts(s, scheduled, k) /\ Waits(throttled, f) /\ Waits(scheduled, f)
  <2> HIDE DEF f
  <2>1. Keeps(queued, throttled) /\ Keeps(queued, scheduled)
    BY <1>8, <1>9, SetConditionKeeps
  <2> HIDE DEF throttled, scheduled
  <2>2. Waits(throttled, f) /\ Waits(scheduled, f)
    BY <1>9, <1>10, <2>1 DEF Keeps, Patient
  <2>3. QED  BY <1>10, <2>1, <2>2, StartsThenKeeps
<1> HIDE DEF evaluated, throttled, scheduled
<1>12. QED  BY <1>1, <1>7, <1>10, <1>11

\* A key that is not gone may be triggered.
LEMMA TriggerPreserves ==
  ASSUME NEW s, NEW messages, NEW task, NEW gone, NEW ended, NEW k \in Keys,
         ServiceInv(s, messages, task, gone, ended), ~Gone(s, gone, k),
         NEW trigger \in Triggers, NEW context, context = "Scheduled" => HasSchedule(k),
         NEW t \in Int, NEW enough,
         NEW m, m = trigger_flow_common(s, k, trigger, context, t, enough)
  PROVE  ServiceInv(m, messages, task, gone, ended) /\ m.pending[k] # None
<1>1. s \in ServiceStates /\ PendingInv(s) /\ Len(s.plan) = Len(s.flows)
  BY DEF ServiceInv, CoreInv, AliveInv
<1>2. CASE s.pending[k] # None
  <2> DEFINE n == MergeTrigger(s, k, trigger, context, t, enough)
  <2>1. Keeps(s, n)
    BY <1>1, <1>2, MergeKeeps
  <2>2. m = n
    BY <1>2 DEF trigger_flow_common
  <2> HIDE DEF n
  <2>3. n.pending = s.pending
    BY <2>1 DEF Keeps, Touches
  <2>4. QED  BY <1>2, <2>1, <2>2, <2>3, KeepsPreserve
<1>3. CASE s.pending[k] = None
  <2> DEFINE n == InitiateFlow(s, k, trigger, context, t, enough)
  <2>1. Starts(s, n, k) /\ Waits(n, Len(s.flows) + 1)
    BY <1>1, InitiateStarts
  <2>2. m = n
    BY <1>3 DEF trigger_flow_common
  <2> HIDE DEF n
  <2>3. n.pending[k] = Len(s.flows) + 1 /\ Len(s.flows) + 1 # None
    BY <1>1, <2>1, StateFields DEF Starts, None
  <2>4. QED  BY <1>3, <2>1, <2>2, <2>3, StartsPreserve
<1>4. QED  BY <1>2, <1>3

\* Configurations of keys that are not deleted may be activated.
LEMMA ActivatePreserves ==
  ASSUME NEW s, NEW messages, NEW task, NEW gone, NEW k \in Keys,
         ServiceInv(s, messages, task, gone, {}), k \notin gone, NEW t \in Int
  PROVE  ServiceInv(Activate(s, k, t), messages, task, gone, {})
<1> DEFINE a == [s EXCEPT !.active_configs = @ \cup {k}]
<1>0. /\ s \in ServiceStates /\ PendingInv(s)
      /\ TaskInv(s, messages, task) /\ TrackedInv(s, messages, task, gone)
      /\ AliveInv(s, messages, task, {}) /\ AwakeInv(s, {})
  BY DEF ServiceInv, CoreInv
<1>1. PICK c \in SUBSET Keys : c = s.active_configs \cup {k}
  BY <1>0, StateFields
<1>2. a = [s EXCEPT !.active_configs = c]
  BY <1>1
<1>3. /\ a \in ServiceStates /\ a.flows = s.flows /\ a.pending = s.pending
      /\ a.active_configs = c
      /\ a.tasks = s.tasks /\ a.task_queue = s.task_queue /\ a.by_task = s.by_task
      /\ a.plan = s.plan /\ a.waiting = s.waiting
  BY <1>0, <1>2 DEF ServiceStates
<1> HIDE DEF a
<1>4. PendingInv(a)
  BY <1>0, <1>3 DEF PendingInv
<1>5. TaskInv(a, messages, task)
  BY <1>0, <1>3 DEF TaskInv, InQueue
<1>6. TrackedInv(a, messages, task, gone)
  <2> SUFFICES ASSUME NEW u \in 1..Len(s.tasks), NEW f, f = s.by_task[u], f # None
               PROVE  Followed(a, messages, task, gone, u, f)
    BY <1>3 DEF TrackedInv
  <2>1. InQueue(a, u) <=> InQueue(s, u)
    BY <1>3 DEF InQueue
  <2>2. Unstarted(a, messages, u) <=> Unstarted(s, messages, u)
    BY <2>1 DEF Unstarted
  <2>3. \A j : Gone(s, gone, j) => Gone(a, gone, j)
    BY <1>1, <1>3 DEF Gone
  <2>4. Followed(s, messages, task, gone, u, f)
    BY <1>0 DEF TrackedInv
  <2>5. QED  BY <1>3, <2>1, <2>2, <2>3, <2>4 DEF Followed
<1>6a. AliveInv(a, messages, task, {})
  <2>1. Patient(s, a)
    BY <1>3 DEF Patient, Waits
  <2>2. QED  BY <1>0, <1>3, <2>1, PatientAlive
<1>6b. AwakeInv(a, {k})
  <2>1. \A f, j : IsLast(s, f, j) => IsLast(a, f, j)
    BY <1>3 DEF IsLast
  <2>2. QED  BY <1>0, <1>1, <1>3, <2>1 DEF AwakeInv
<1>7. ServiceInv(a, messages, task, gone, {k}) /\ ~Gone(a, gone, k)
  BY <1>3, <1>4, <1>5, <1>6, <1>6a, <1>6b DEF ServiceInv, CoreInv, Gone
<1>8. AutoPolling \in Triggers
  BY DEF AutoPolling, Triggers, NoKey
<1> DEFINE context == IF HasSchedule(k) THEN "Scheduled" ELSE "Unconditional"
<1>9. context = "Scheduled" => HasSchedule(k)
  OBVIOUS
<1>10. Activate(s, k, t) = trigger_flow_common(a, k, AutoPolling, context, t, FALSE)
  BY DEF Activate, a
<1> HIDE DEF context
<1>11. PICK n : n = trigger_flow_common(a, k, AutoPolling, context, t, FALSE)
  OBVIOUS
<1>12. ServiceInv(n, messages, task, gone, {k}) /\ n.pending[k] # None
  <2>1. PICK ended : ended = {k}
    OBVIOUS
  <2>2. PICK trigger \in Triggers : trigger = AutoPolling
    BY <1>8
  <2>3. PICK enough : enough = FALSE
    OBVIOUS
  <2>4. n = trigger_flow_common(a, k, trigger, context, t, enough)
    BY <1>11, <2>2, <2>3
  <2>5. ServiceInv(a, messages, task, gone, ended) /\ ~Gone(a, gone, k)
    BY <1>7, <2>1
  <2>6. ServiceInv(n, messages, task, gone, ended) /\ n.pending[k] # None
    BY <1>9, <2>4, <2>5, TriggerPreserves
  <2>7. QED  BY <2>1, <2>6
<1>13. AwakeInv(n, {})
  BY <1>12, Awakened DEF ServiceInv
<1>14. QED  BY <1>10, <1>11, <1>12, <1>13 DEF ServiceInv

-----------------------------------------------------------------------------
(* Handlers that trigger several keys *)

\* The elements of a finite set in some order.
LEMMA SetToSeqType ==
  ASSUME NEW S \in SUBSET Keys
  PROVE  SetToSeq(S) \in Seq(S)
<1>1. IsFiniteSet(S)
  BY FlowConstants, FS_Subset
<1>2. PICK c \in Nat : c = Cardinality(S) /\ ExistsBijection(1..c, S)
  BY <1>1, FS_CardinalityType
<1>3. \E f \in [1..c -> S] : IsInjective(f)
  BY <1>2 DEF ExistsBijection, Bijection, Injection, IsInjective
<1>4. SetToSeq(S) \in [1..c -> S]
  BY <1>2, <1>3 DEF SetToSeq
<1>5. QED  BY <1>4

\* The states in which the invariant's parts hold.
GoodStates(messages, task, gone, ended) ==
  {s \in ServiceStates : ServiceInv(s, messages, task, gone, ended)}

\* Membership in GoodStates is ServiceInv.
LEMMA Good ==
  ASSUME NEW s, NEW messages, NEW task, NEW gone, NEW ended
  PROVE  s \in GoodStates(messages, task, gone, ended) <=>
            ServiceInv(s, messages, task, gone, ended)
  BY DEF GoodStates, ServiceInv, CoreInv

\* The flows downstream are triggered in turn.
LEMMA DependentsPreserve ==
  ASSUME NEW s, NEW messages, NEW task, NEW ended, ServiceInv(s, messages, task, deleted, ended),
         NEW k \in Keys, NEW result \in {"Changed", "UpToDate"}, NEW t \in Int, NEW enough
  PROVE  ServiceInv(TriggerDependents(s, k, result, t, enough), messages, task, deleted, ended)
<1> DEFINE dependents == SetToSeq((Downstream[k] \cap s.active_configs) \ deleted)
           N == Len(dependents)
           X == GoodStates(messages, task, deleted, ended)
           Triggered(a, d) == IF Ok(a)
                          THEN trigger_flow_common(a, d, InputFlow(k, result), "Batching", t, d \in enough)
                          ELSE a
           Def(g) == [i \in 0..N |->
                        IF i = 0 THEN s
                        ELSE LET d == dependents[i]
                                 a == g[i - 1]
                             IN  IF Ok(a)
                                 THEN trigger_flow_common(a, d, InputFlow(k, result), "Batching", t,
                                                          d \in enough)
                                 ELSE a]
           after == CHOOSE g : g = Def(g)
<1>1. /\ N \in Nat /\ \A i \in 1..N : dependents[i] \in Keys /\ dependents[i] \notin deleted
  <2> DEFINE S == (Downstream[k] \cap s.active_configs) \ deleted
  <2>1. S \in SUBSET Keys
    BY StateFields DEF ServiceInv, CoreInv
  <2>2. SetToSeq(S) \in Seq(S)
    <3> HIDE DEF S
    <3> QED  BY <2>1, SetToSeqType
  <2>3. dependents \in Seq(S)
    BY <2>2
  <2> HIDE DEF dependents
  <2>4. N \in Nat /\ \A i \in 1..N : dependents[i] \in S
    <3> HIDE DEF S
    <3> QED  BY <2>3
  <2>5. QED  BY <2>1, <2>4
<1>2. ASSUME NEW a \in X, NEW i \in 1..N PROVE Triggered(a, dependents[i]) \in X
  <2>1. ServiceInv(a, messages, task, deleted, ended)
    BY <1>2, Good
  <2>2. PICK d \in Keys : d = dependents[i] /\ d \notin deleted
    BY <1>1
  <2>3. InputFlow(k, result) \in Triggers
    BY DEF InputFlow, Triggers
  <2>4. ~Gone(a, deleted, d)
    BY <2>2 DEF Gone
  <2>5. ServiceInv(trigger_flow_common(a, d, InputFlow(k, result), "Batching", t, d \in enough),
                   messages, task, deleted, ended)
    BY <2>1, <2>3, <2>4, TriggerPreserves
  <2>6. ServiceInv(Triggered(a, d), messages, task, deleted, ended)
    BY <2>1, <2>5
  <2> HIDE DEF Triggered
  <2>7. QED  BY <2>2, <2>6, Good
<1>3. s \in X
  BY Good
<1> HIDE DEF X, dependents, Triggered, N
<1>4. PICK f \in [0..N -> X] : f[0] = s /\ \A i \in 1..N : f[i] = Triggered(f[i - 1], dependents[i])
  <2> DEFINE step == [i \in 1..N |-> [a \in X |-> Triggered(a, dependents[i])]]
  <2>1. step \in [1..N -> [X -> X]]
    BY <1>2
  <2> HIDE DEF step
  <2>2. PICK f \in [0..N -> X] : f[0] = s /\ \A i \in 1..N : f[i] = step[i][f[i - 1]]
    BY <1>1, <1>3, <2>1, IntervalRecursion
  <2>3. ASSUME NEW i \in 1..N PROVE f[i] = Triggered(f[i - 1], dependents[i])
    <3>1. f[i - 1] \in X
      BY <1>1
    <3>2. step[i][f[i - 1]] = Triggered(f[i - 1], dependents[i])
      BY <3>1 DEF step
    <3>3. QED  BY <2>2, <3>2
  <2>4. QED  BY <2>2, <2>3
<1>5. f = Def(f)
  <2>1. ASSUME NEW i \in 0..N PROVE f[i] = Def(f)[i]
    BY <1>1, <1>4 DEF Triggered
  <2>2. QED  BY <2>1
<1>6. after = Def(after)
  <2> HIDE DEF Def
  <2>1. \E g : g = Def(g)
    BY <1>5
  <2>2. QED  BY <2>1
<1> HIDE DEF after
<1>7. \A i \in 0..N : i \in {j \in Nat : after[j] \in X}
  <2> DEFINE T == {j \in Nat : after[j] \in X}
  <2>1. 0 \in T
    BY <1>1, <1>3, <1>6
  <2>2. ASSUME NEW i \in 1..N, i - 1 \in T PROVE i \in T
    <3>1. after[i] = Triggered(after[i - 1], dependents[i])
      <4>1. Def(after)[i] = Triggered(after[i - 1], dependents[i])
        BY <1>1 DEF Triggered
      <4> HIDE DEF Def
      <4>2. QED  BY <1>6, <4>1
    <3>2. after[i - 1] \in X
      BY <2>2
    <3>3. QED  BY <1>1, <1>2, <3>1, <3>2
  <2> HIDE DEF T
  <2>3. \A i \in 0..N : i \in T
    BY <1>1, <2>1, <2>2, IntervalInduction
  <2>4. QED  BY <2>3 DEF T
<1>8. after[N] \in X
  BY <1>1, <1>7
<1>9. CASE k \in deleted
  <2>1. "dataset not found" \in Errors
    BY DEF Errors
  <2>2. Keeps(s, Fail(s, "dataset not found"))
    BY <2>1, FailTouches DEF ServiceInv, CoreInv
  <2>3. QED  BY <1>9, <2>2, KeepsPreserve DEF TriggerDependents
<1>10. CASE k \notin deleted
  <2>1. TriggerDependents(s, k, result, t, enough) = after[N]
    BY <1>10 DEF TriggerDependents, after, N, dependents
  <2>2. QED  BY <1>8, <2>1, Good DEF X
<1>11. QED  BY <1>9, <1>10

\* Configurations are activated in turn.
LEMMA ActivateAllPreserves ==
  ASSUME NEW s, NEW messages, NEW task, NEW gone, ServiceInv(s, messages, task, gone, {}),
         NEW keys \in Seq(Keys \ gone), NEW t \in Int
  PROVE  ServiceInv(ActivateAll(s, keys, t), messages, task, gone, {})
<1> DEFINE N == Len(keys)
           X == GoodStates(messages, task, gone, {})
           Activated(a, k) == IF Ok(a) THEN Activate(a, k, t) ELSE a
           Def(g) == [i \in 0..N |->
                        IF i = 0 THEN s
                        ELSE LET a == g[i - 1] IN IF Ok(a) THEN Activate(a, keys[i], t) ELSE a]
           after == CHOOSE g : g = Def(g)
<1>1. N \in Nat /\ \A i \in 1..N : keys[i] \in Keys /\ keys[i] \notin gone
  <2>1. N \in Nat /\ \A i \in 1..N : keys[i] \in Keys \ gone
    <3> DEFINE S == Keys \ gone
    <3>1. keys \in Seq(S)
      OBVIOUS
    <3> HIDE DEF S
    <3>2. N \in Nat /\ \A i \in 1..N : keys[i] \in S
      BY <3>1
    <3>3. QED  BY <3>2 DEF S
  <2>2. QED  BY <2>1
<1>2. ASSUME NEW a \in X, NEW i \in 1..N PROVE Activated(a, keys[i]) \in X
  <2>1. ServiceInv(a, messages, task, gone, {})
    BY <1>2, Good
  <2>2. PICK k \in Keys : k = keys[i] /\ k \notin gone
    BY <1>1
  <2>3. ServiceInv(Activate(a, k, t), messages, task, gone, {})
    BY <2>1, <2>2, ActivatePreserves
  <2>4. ServiceInv(Activated(a, k), messages, task, gone, {})
    BY <2>1, <2>3
  <2> HIDE DEF Activated
  <2>5. QED  BY <2>2, <2>4, Good
<1>3. s \in X
  BY Good
<1> HIDE DEF X, Activated, N
<1>4. PICK f \in [0..N -> X] : f[0] = s /\ \A i \in 1..N : f[i] = Activated(f[i - 1], keys[i])
  <2> DEFINE step == [i \in 1..N |-> [a \in X |-> Activated(a, keys[i])]]
  <2>1. step \in [1..N -> [X -> X]]
    BY <1>2
  <2> HIDE DEF step
  <2>1a. N \in Nat
    BY <1>1
  <2>2. PICK f \in [0..N -> X] : f[0] = s /\ \A i \in 1..N : f[i] = step[i][f[i - 1]]
    BY <1>3, <2>1, <2>1a, IntervalRecursion
  <2>3. ASSUME NEW i \in 1..N PROVE f[i] = Activated(f[i - 1], keys[i])
    <3>1. f[i - 1] \in X
      BY <1>1
    <3>2. step[i][f[i - 1]] = Activated(f[i - 1], keys[i])
      BY <3>1 DEF step
    <3>3. QED  BY <2>2, <3>2
  <2>4. QED  BY <2>2, <2>3
<1>5. f = Def(f)
  <2>1. ASSUME NEW i \in 0..N PROVE f[i] = Def(f)[i]
    BY <1>1, <1>4 DEF Activated
  <2>2. QED  BY <2>1
<1>6. after = Def(after)
  <2> HIDE DEF Def
  <2>1. \E g : g = Def(g)
    BY <1>5
  <2>2. QED  BY <2>1
<1> HIDE DEF after
<1>7. \A i \in 0..N : i \in {j \in Nat : after[j] \in X}
  <2> DEFINE T == {j \in Nat : after[j] \in X}
  <2>1. 0 \in T
    BY <1>1, <1>3, <1>6
  <2>2. ASSUME NEW i \in 1..N, i - 1 \in T PROVE i \in T
    <3>1. after[i] = Activated(after[i - 1], keys[i])
      <4>1. Def(after)[i] = Activated(after[i - 1], keys[i])
        BY <1>1 DEF Activated
      <4> HIDE DEF Def
      <4>2. QED  BY <1>6, <4>1
    <3>2. after[i - 1] \in X
      BY <2>2
    <3>3. QED  BY <1>1, <1>2, <3>1, <3>2
  <2> HIDE DEF T
  <2>3. \A i \in 0..N : i \in T
    BY <1>1, <2>1, <2>2, IntervalInduction
  <2>4. QED  BY <2>3 DEF T
<1>8. after[N] \in X
  BY <1>1, <1>7
<1>9. ActivateAll(s, keys, t) = after[N]
  BY DEF ActivateAll, after, N
<1>10. QED  BY <1>8, <1>9, Good DEF X

\* The next cycle of a schedule.
LEMMA NextCyclePreserves ==
  ASSUME NEW s, NEW messages, NEW task, NEW gone, NEW k \in Keys,
         ServiceInv(s, messages, task, gone, {k}), NEW t \in Int, NEW n, n = NextCycle(s, k, t)
  PROVE  n \in ServiceStates /\ (Ok(n) => ServiceInv(n, messages, task, gone, {}))
<1>1. CASE Ok(s) /\ k \in s.active_configs /\ HasSchedule(k)
  <2>1. AutoPolling \in Triggers
    BY DEF AutoPolling, Triggers, NoKey
  <2>2. ~Gone(s, gone, k)
    BY <1>1 DEF Gone
  <2>3. n = trigger_flow_common(s, k, AutoPolling, "Scheduled", t, FALSE)
    BY <1>1 DEF NextCycle
  <2>4. ServiceInv(n, messages, task, gone, {k}) /\ n.pending[k] # None
    BY <1>1, <2>1, <2>2, <2>3, TriggerPreserves
  <2>5. AwakeInv(n, {})
    BY <2>4, Awakened DEF ServiceInv
  <2>6. QED  BY <2>4, <2>5 DEF ServiceInv, CoreInv
<1>2. CASE ~(Ok(s) /\ k \in s.active_configs /\ HasSchedule(k))
  <2>1. n = s
    BY <1>2 DEF NextCycle
  <2>2. CASE ~Ok(s)
    BY <2>1, <2>2 DEF ServiceInv, CoreInv
  <2>3. CASE ~(k \in s.active_configs /\ HasSchedule(k))
    <3>1. AwakeInv(s, {})
      BY <2>3 DEF ServiceInv, AwakeInv
    <3>2. QED  BY <2>1, <3>1 DEF ServiceInv, CoreInv
  <2>4. QED  BY <1>2, <2>2, <2>3
<1>3. QED  BY <1>1, <1>2

-----------------------------------------------------------------------------
(* Tasks *)

\* A task was created for flow f, which tracks it unless it rejected it.
Schedules(s, n, f) ==
  /\ n \in ServiceStates
  /\ Len(n.flows) = Len(s.flows)
  /\ \A g \in 1..Len(s.flows) : /\ n.flows[g].key = s.flows[g].key
                                /\ n.flows[g].outcome = s.flows[g].outcome
                                /\ s.flows[g].task_ids \subseteq n.flows[g].task_ids
  /\ n.pending = s.pending /\ n.active_configs = s.active_configs
  /\ Len(n.tasks) = Len(s.tasks) + 1
  /\ Len(n.task_queue) = Len(s.task_queue) + 1
  /\ \A i \in 1..Len(s.task_queue) : n.task_queue[i] = s.task_queue[i]
  /\ n.task_queue[Len(s.task_queue) + 1] = Len(s.tasks) + 1
  /\ Len(n.by_task) = Len(s.tasks) + 1
  /\ \A t \in 1..Len(s.tasks) : n.by_task[t] = s.by_task[t]
  /\ n.by_task[Len(s.tasks) + 1] # None =>
        /\ n.by_task[Len(s.tasks) + 1] = f
        /\ n.flows[f].outcome = "none" /\ Len(s.tasks) + 1 \in n.flows[f].task_ids
  /\ CanWait(s.flows[f]) => n.by_task[Len(s.tasks) + 1] = f
  /\ \A t \in 1..Len(s.tasks) : n.tasks[t] = s.tasks[t]
  /\ n.tasks[Len(s.tasks) + 1] = f
  /\ \A g \in 1..Len(s.flows) : \A t \in n.flows[g].task_ids :
        t \in s.flows[g].task_ids \/ (g = f /\ t = Len(s.tasks) + 1)
  /\ Spares(s, n, f)

\* schedule_flow_task is such a step.
LEMMA ScheduleIsSchedules ==
  ASSUME NEW s \in ServiceStates, Len(s.by_task) = Len(s.tasks), NEW f \in 1..Len(s.flows)
  PROVE  Schedules(s, schedule_flow_task(s, f), f)
<1> DEFINE t == Len(s.tasks) + 1
           created == create_task(s, f)
<1>1. t \in Nat /\ f \in Nat /\ None \in Nat
  BY StateFields DEF None
<1>1a. s.tasks \in Seq(Nat) /\ s.task_queue \in Seq(Nat) /\ s.by_task \in Seq(Nat)
  BY StateFields
<1>2. PICK tasks \in Seq(Nat) : /\ tasks = Append(s.tasks, f) /\ Len(tasks) = t
                                /\ tasks[t] = f /\ \A i \in 1..Len(s.tasks) : tasks[i] = s.tasks[i]
  <2>1. /\ Append(s.tasks, f) \in Seq(Nat) /\ Len(Append(s.tasks, f)) = t
        /\ Append(s.tasks, f)[t] = f
        /\ \A i \in 1..Len(s.tasks) : Append(s.tasks, f)[i] = s.tasks[i]
    BY <1>1, <1>1a, AppendFacts
  <2>2. QED  BY <2>1
<1>3. PICK queue \in Seq(Nat) :
          /\ queue = Append(s.task_queue, t)
          /\ Len(queue) = Len(s.task_queue) + 1 /\ queue[Len(s.task_queue) + 1] = t
          /\ \A i \in 1..Len(s.task_queue) : queue[i] = s.task_queue[i]
  <2> DEFINE q == Append(s.task_queue, t)
  <2> HIDE DEF t
  <2>1. /\ q \in Seq(Nat) /\ Len(q) = Len(s.task_queue) + 1 /\ q[Len(s.task_queue) + 1] = t
        /\ \A i \in 1..Len(s.task_queue) : q[i] = s.task_queue[i]
    BY <1>1, <1>1a, AppendFacts
  <2>2. QED  BY <2>1
<1>4. PICK by \in Seq(Nat) : /\ by = Append(s.by_task, None) /\ Len(by) = t /\ by[t] = None
                             /\ \A i \in 1..Len(s.tasks) : by[i] = s.by_task[i]
  <2> DEFINE b == Append(s.by_task, None)
  <2>1. /\ b \in Seq(Nat) /\ Len(b) = t /\ b[t] = None
        /\ \A i \in 1..Len(s.tasks) : b[i] = s.by_task[i]
    BY <1>1, <1>1a, AppendFacts
  <2>2. QED  BY <2>1
<1>4a. \A i \in 1..Len(s.tasks) : i \in 1..Len(by) /\ i # t
  <2>1. Len(s.tasks) \in Nat /\ Len(by) = Len(s.tasks) + 1
    BY <1>4, StateFields
  <2>2. QED  BY <2>1
<1>5. created = [s EXCEPT !.tasks = tasks, !.by_task = by, !.task_queue = queue]
  BY <1>2, <1>3, <1>4 DEF create_task
<1> HIDE DEF created
<1>6. /\ created \in ServiceStates /\ created.flows = s.flows /\ created.pending = s.pending
      /\ created.active_configs = s.active_configs
      /\ created.tasks = tasks /\ created.task_queue = queue /\ created.by_task = by
      /\ created.plan = s.plan /\ created.waiting = s.waiting
  BY <1>5 DEF ServiceStates
<1>7. CASE ~CanWait(s.flows[f])
  <2>1. schedule_flow_task(s, f) = created
    BY <1>7 DEF schedule_flow_task, created
  <2>2. Spares(s, created, f)
    BY <1>6 DEF Spares, Waits
  <2>3. QED  BY <1>2, <1>3, <1>4, <1>6, <1>7, <2>1, <2>2 DEF Schedules
<1>8. CASE CanWait(s.flows[f])
  <2>1. PICK g0 \in AllFlows : g0 = s.flows[f]
    BY StateFields
  <2>2. PICK ids \in SUBSET Nat : ids = g0.task_ids \cup {t}
    <3>1. g0.task_ids \subseteq Nat
      BY FlowFields
    <3> HIDE DEF t
    <3>2. QED  BY <1>1, <3>1
  <2> DEFINE g == [g0 EXCEPT !.start_condition = "executor", !.task_ids = ids]
  <2>3. g \in AllFlows
    BY DEF AllFlows
  <2>4. g.key = g0.key /\ g.outcome = g0.outcome /\ g.task_ids = ids /\ g.running = g0.running
    BY DEF AllFlows
  <2>5. PICK by1 \in Seq(Nat) : by1 = [by EXCEPT ![t] = f]
    BY <1>1, ReplaceAny
  <2>6. Len(by1) = t /\ by1[t] = f /\ \A i \in 1..Len(s.tasks) : by1[i] = s.by_task[i]
    <3>1. t \in 1..Len(by)
      BY <1>1, <1>4
    <3>2. Len(by1) = Len(by) /\ \A i \in 1..Len(by) : by1[i] = IF i = t THEN f ELSE by[i]
      BY <1>1, <2>5, <3>1, ReplaceFacts
    <3>3. \A i \in 1..Len(s.tasks) : i \in 1..Len(by) /\ i # t
      BY <1>4a
    <3> HIDE DEF t
    <3>4. QED  BY <1>4, <3>1, <3>2, <3>3
  <2> DEFINE waits == [created EXCEPT !.flows = [created.flows EXCEPT ![f] = g]]
             n     == [waits EXCEPT !.by_task = by1]
  <2>7. schedule_flow_task(s, f) = n
    <3> DEFINE e == [s.flows[f] EXCEPT !.start_condition = "executor", !.task_ids = @ \cup {t}]
    <3>1. schedule_flow_task(s, f) = [created EXCEPT !.flows[f] = e, !.by_task[t] = f]
      BY <1>8 DEF schedule_flow_task, created
    <3>2. e = g
      BY <1>6, <2>1, <2>2
    <3> HIDE DEF g, e
    <3>3. schedule_flow_task(s, f) = [created EXCEPT !.flows[f] = g, !.by_task[t] = f]
      BY <3>1, <3>2
    <3>4. QED  BY <1>6, <2>5, <3>3 DEF ServiceStates
  <2> HIDE DEF g, n
  <2>8. /\ waits \in ServiceStates
        /\ Len(waits.flows) = Len(s.flows)
        /\ \A h \in 1..Len(s.flows) : waits.flows[h] = IF h = f THEN g ELSE s.flows[h]
        /\ waits.pending = s.pending /\ waits.active_configs = s.active_configs
        /\ waits.tasks = tasks /\ waits.task_queue = queue
        /\ waits.plan = s.plan /\ waits.waiting = s.waiting
    BY <1>6, <2>3, FlowReplaced
  <2> HIDE DEF waits
  <2>9. /\ n \in ServiceStates /\ n.flows = waits.flows /\ n.pending = waits.pending
        /\ n.active_configs = waits.active_configs
        /\ n.tasks = waits.tasks /\ n.task_queue = waits.task_queue /\ n.by_task = by1
        /\ n.plan = waits.plan /\ n.waiting = waits.waiting
    BY <2>8 DEF n, ServiceStates
  <2>10. \A h \in 1..Len(s.flows) : /\ n.flows[h].key = s.flows[h].key
                                    /\ n.flows[h].outcome = s.flows[h].outcome
                                    /\ s.flows[h].task_ids \subseteq n.flows[h].task_ids
    BY <2>1, <2>2, <2>4, <2>8, <2>9
  <2>11. n.flows[f].outcome = "none" /\ t \in n.flows[f].task_ids
    BY <1>8, <2>1, <2>2, <2>4, <2>8, <2>9 DEF CanWait
  <2>11a. \A h \in 1..Len(s.flows) : \A u \in n.flows[h].task_ids :
             u \in s.flows[h].task_ids \/ (h = f /\ u = t)
    BY <2>1, <2>2, <2>4, <2>8, <2>9
  <2>11b. Spares(s, n, f)
    BY <2>1, <2>4, <2>8, <2>9 DEF Spares, Waits
  <2>12. Schedules(s, n, f)
    <3>1. /\ Len(n.flows) = Len(s.flows) /\ n.pending = s.pending
          /\ n.active_configs = s.active_configs
          /\ n.tasks = tasks /\ n.task_queue = queue /\ n.by_task = by1 /\ n \in ServiceStates
      BY <2>8, <2>9
    <3>2. QED  BY <1>2, <1>3, <2>6, <2>10, <2>11, <2>11a, <2>11b, <3>1 DEF Schedules
  <2>13. QED  BY <2>7, <2>12
<1>9. QED  BY <1>7, <1>8

\* The new task is queued.
LEMMA ScheduledIsQueued ==
  ASSUME NEW s \in ServiceStates, NEW n, NEW f, Schedules(s, n, f), NEW t
  PROVE  InQueue(n, t) <=> InQueue(s, t) \/ t = Len(s.tasks) + 1
<1> DEFINE new == Len(s.tasks) + 1
<1>1. PICK L \in Nat : L = Len(s.task_queue)
  BY StateFields
<1>2. /\ Len(n.task_queue) = L + 1 /\ n.task_queue[L + 1] = new
      /\ \A i \in 1..L : n.task_queue[i] = s.task_queue[i]
  BY <1>1 DEF Schedules
<1>3. /\ \A i \in 1..(L + 1) : i \in 1..L \/ i = L + 1
      /\ 1..L \subseteq 1..(L + 1) /\ L + 1 \in 1..(L + 1)
  OBVIOUS
<1> HIDE DEF new
<1>4. InQueue(n, t) <=> InQueue(s, t) \/ t = new
  BY <1>1, <1>2, <1>3 DEF InQueue
<1>5. QED  BY <1>4 DEF new

\* A new task preserves the invariant's core.
LEMMA SchedulesPreserve ==
  ASSUME NEW s, NEW n, NEW messages, NEW task, NEW gone, NEW f \in 1..Len(s.flows),
         CoreInv(s, messages, task, gone), Schedules(s, n, f)
  PROVE  CoreInv(n, messages, task, gone)
<1>0. /\ s \in ServiceStates /\ n \in ServiceStates /\ PendingInv(s)
      /\ TaskInv(s, messages, task) /\ TrackedInv(s, messages, task, gone)
  BY DEF Schedules, CoreInv
<1>1. Len(s.flows) \in Nat /\ Len(s.tasks) \in Nat /\ Len(s.task_queue) \in Nat
  BY <1>0, StateFields
<1> DEFINE new == Len(s.tasks) + 1
<1>2. PendingInv(n)
  <2>1. /\ Len(n.flows) = Len(s.flows) /\ n.pending = s.pending
        /\ \A g \in 1..Len(s.flows) : /\ n.flows[g].key = s.flows[g].key
                                      /\ n.flows[g].outcome = s.flows[g].outcome
    BY DEF Schedules
  <2>2. QED  BY <1>0, <2>1, SamePending
<1>3. \A t : InQueue(n, t) <=> InQueue(s, t) \/ t = new
  BY <1>0, ScheduledIsQueued
<1>4. TaskInv(n, messages, task)
  <2>1. Len(n.by_task) = Len(n.tasks) /\ Len(n.tasks) = new
    BY DEF Schedules
  <2>2. ASSUME NEW i \in 1..Len(n.task_queue) PROVE n.task_queue[i] \in 1..new
    <3>1. CASE i = Len(s.task_queue) + 1
      <4>1. n.task_queue[i] = new
        BY <3>1 DEF Schedules
      <4>2. QED  BY <1>1, <4>1
    <3>2. CASE i # Len(s.task_queue) + 1
      <4>1. i \in 1..Len(s.task_queue)
        BY <1>1, <3>2 DEF Schedules
      <4>2. n.task_queue[i] = s.task_queue[i] /\ s.task_queue[i] \in 1..Len(s.tasks)
        BY <1>0, <4>1 DEF Schedules, TaskInv
      <4>3. QED  BY <1>1, <4>2
    <3>3. QED  BY <3>1, <3>2
  <2>3. ASSUME NEW i \in 1..Len(n.task_queue), NEW j \in 1..Len(n.task_queue),
               n.task_queue[i] = n.task_queue[j]
        PROVE  i = j
    <3>1. \A h \in 1..Len(n.task_queue) :
             IF h = Len(s.task_queue) + 1 THEN n.task_queue[h] = new
             ELSE h \in 1..Len(s.task_queue) /\ n.task_queue[h] = s.task_queue[h]
                  /\ s.task_queue[h] \in 1..Len(s.tasks)
      <4>1. /\ Len(n.task_queue) = Len(s.task_queue) + 1
            /\ n.task_queue[Len(s.task_queue) + 1] = new
            /\ \A h \in 1..Len(s.task_queue) : n.task_queue[h] = s.task_queue[h]
        BY DEF Schedules
      <4>2. \A h \in 1..Len(s.task_queue) : s.task_queue[h] \in 1..Len(s.tasks)
        BY <1>0 DEF TaskInv
      <4>3. \A h \in 1..(Len(s.task_queue) + 1) :
               h = Len(s.task_queue) + 1 \/ h \in 1..Len(s.task_queue)
        BY <1>1
      <4>4. QED  BY <4>1, <4>2, <4>3
    <3>2. \A g, h \in 1..Len(s.task_queue) : s.task_queue[g] = s.task_queue[h] => g = h
      BY <1>0 DEF TaskInv
    <3>3. new \notin 1..Len(s.tasks)
      BY <1>1
    <3> HIDE DEF new
    <3>4. QED  BY <2>3, <3>1, <3>2, <3>3
  <2>4. task # None => task \in 1..Len(s.tasks) /\ ~InQueue(s, task)
    BY <1>0 DEF TaskInv
  <2>5. \A i \in 1..Len(messages) : messages[i].task \in 1..Len(s.tasks) /\ ~InQueue(s, messages[i].task)
    BY <1>0 DEF TaskInv
  <2>6. \A t \in 1..Len(s.tasks) : t \in 1..new /\ t # new
    BY <1>1
  <2> HIDE DEF new
  <2>7. QED  BY <1>3, <2>1, <2>2, <2>3, <2>4, <2>5, <2>6 DEF TaskInv
<1>5. TrackedInv(n, messages, task, gone)
  <2> SUFFICES ASSUME NEW t \in 1..new, NEW g, g = n.by_task[t], g # None
               PROVE  Followed(n, messages, task, gone, t, g)
    BY DEF TrackedInv, Schedules
  <2>1. CASE t = new
    <3>1. g = f /\ n.flows[f].outcome = "none" /\ t \in n.flows[f].task_ids
          /\ f \in 1..Len(n.flows)
      BY <2>1 DEF Schedules
    <3>2. InQueue(n, t)
      BY <1>3, <2>1
    <3>3. QED  BY <3>1, <3>2 DEF Followed
  <2>2. CASE t # new
    <3>1. t \in 1..Len(s.tasks)
      BY <1>1, <2>2
    <3>2. g = s.by_task[t]
      BY <3>1 DEF Schedules
    <3>3. Followed(s, messages, task, gone, t, g)
      BY <1>0, <3>1, <3>2 DEF TrackedInv
    <3>4. InQueue(s, t) => InQueue(n, t)
      BY <1>3
    <3>5. Unstarted(s, messages, t) => Unstarted(n, messages, t)
      BY <3>4 DEF Unstarted
    <3>6. \A j : Gone(s, gone, j) => Gone(n, gone, j)
      BY DEF Gone, Schedules
    <3>7. /\ g \in 1..Len(n.flows) /\ s.flows[g].task_ids \subseteq n.flows[g].task_ids
          /\ n.flows[g].outcome = s.flows[g].outcome /\ n.flows[g].key = s.flows[g].key
      BY <3>3 DEF Followed, Schedules
    <3>8. QED  BY <3>3, <3>4, <3>5, <3>6, <3>7 DEF Followed
  <2>3. QED  BY <2>1, <2>2
<1>6. QED  BY <1>0, <1>2, <1>4, <1>5 DEF CoreInv

\* Flow f is not forgotten any more: it has its task.
LEMMA SchedulesAlive ==
  ASSUME NEW s, NEW n, NEW messages, NEW task, NEW taken, NEW f \in 1..Len(s.flows),
         s \in ServiceStates, AliveInv(s, messages, task, taken), Schedules(s, n, f)
  PROVE  AliveInv(n, messages, task, taken \ {f})
<1> DEFINE new == Len(s.tasks) + 1
<1>1. PICK L \in Nat : L = Len(s.tasks) /\ Len(n.tasks) = L + 1
  BY StateFields DEF Schedules
<1>2. \A t : InQueue(n, t) <=> InQueue(s, t) \/ t = new
  BY ScheduledIsQueued
<1>3. \A t : Ending(s, messages, task, t) => Ending(n, messages, task, t)
  BY <1>2 DEF Ending
<1>4. /\ Len(n.plan) = Len(s.plan) /\ Len(n.flows) = Len(s.flows)
      /\ Len(s.plan) = Len(s.flows)
  BY DEF Schedules, Spares, AliveInv
<1>5. ASSUME NEW g \in 1..Len(s.flows)
      PROVE  /\ \A t \in n.flows[g].task_ids : t \in 1..Len(n.tasks) /\ n.tasks[t] = g
             /\ n.flows[g].outcome = "none" =>
                   /\ g \in taken \ {f} \/ Waits(n, g) \/ HasTask(n, messages, task, g)
                   /\ n.flows[g].running => HasTask(n, messages, task, g)
  <2>1. /\ \A t \in s.flows[g].task_ids : t \in 1..L /\ s.tasks[t] = g
        /\ s.flows[g].outcome = "none" =>
              /\ g \in taken \/ Waits(s, g) \/ HasTask(s, messages, task, g)
              /\ s.flows[g].running => HasTask(s, messages, task, g)
    BY <1>1 DEF AliveInv
  <2>2. /\ n.flows[g].outcome = s.flows[g].outcome /\ n.flows[g].running = s.flows[g].running
        /\ s.flows[g].task_ids \subseteq n.flows[g].task_ids
        /\ g # f /\ Waits(s, g) => Waits(n, g)
    BY DEF Schedules, Spares
  <2>3. HasTask(s, messages, task, g) => HasTask(n, messages, task, g)
    <3>1. \A t \in 1..L : n.by_task[t] = s.by_task[t]
      BY <1>1 DEF Schedules
    <3>2. QED  BY <1>3, <2>1, <2>2, <3>1 DEF HasTask
  <2>4. \A t \in n.flows[g].task_ids : t \in 1..Len(n.tasks) /\ n.tasks[t] = g
    <3>1. /\ \A t \in n.flows[g].task_ids : t \in s.flows[g].task_ids \/ (g = f /\ t = L + 1)
          /\ \A t \in 1..L : n.tasks[t] = s.tasks[t]
          /\ n.tasks[L + 1] = f
      BY <1>1 DEF Schedules
    <3>2. 1..L \subseteq 1..(L + 1) /\ L + 1 \in 1..(L + 1)
      OBVIOUS
    <3>3. QED  BY <1>1, <2>1, <3>1, <3>2
  <2>5. CASE g # f
    BY <2>1, <2>2, <2>3, <2>4, <2>5
  <2>6. CASE g = f
    <3>1. ASSUME s.flows[f].outcome = "none", ~s.flows[f].running
          PROVE  HasTask(n, messages, task, f)
      <4>1. n.by_task[new] = f
        BY <3>1 DEF CanWait, Schedules
      <4>2. f # None
        BY DEF None
      <4>3. new \in n.flows[f].task_ids
        BY <4>1, <4>2 DEF Schedules
      <4>4. Ending(n, messages, task, new)
        BY <1>2 DEF Ending
      <4> HIDE DEF new
      <4>5. QED  BY <4>1, <4>3, <4>4 DEF HasTask
    <3>2. s.flows[f].outcome = "none" => HasTask(n, messages, task, f)
      BY <2>1, <2>3, <2>6, <3>1
    <3>3. QED  BY <2>2, <2>4, <2>6, <3>2
  <2>7. QED  BY <2>5, <2>6
<1>6. QED  BY <1>4, <1>5 DEF AliveInv

\* The flows of a timeslot that have still to get their tasks when those up to j
\* have.
Left(due, N, j) == {g \in 1..N : g \in due /\ g > j}

\* The tasks of a timeslot.
LEMMA ScheduleTasksPreserves ==
  ASSUME NEW s, NEW messages, NEW task, NEW gone, ServiceInv(s, messages, task, gone, {}), NEW due
  PROVE  ServiceInv(ScheduleTasks(s, due), messages, task, gone, {})
<1> DEFINE N == Len(s.flows)
           X == {a \in ServiceStates : /\ CoreInv(a, messages, task, gone) /\ AwakeInv(a, {})
                                       /\ Len(a.flows) = N}
           taken == [s EXCEPT !.waiting = @ \ due]
           Scheduled(a, f) == IF f \in due THEN schedule_flow_task(a, f) ELSE a
           Def(g) == [f \in 0..N |-> IF f = 0 THEN [s EXCEPT !.waiting = @ \ due]
                                     ELSE IF f \in due THEN schedule_flow_task(g[f - 1], f)
                                          ELSE g[f - 1]]
           after == CHOOSE g : g = Def(g)
           Alive(a, j) == AliveInv(a, messages, task, Left(due, N, j))
<1>0. /\ s \in ServiceStates /\ CoreInv(s, messages, task, gone)
      /\ AliveInv(s, messages, task, {}) /\ AwakeInv(s, {})
  BY DEF ServiceInv, CoreInv
<1>1. N \in Nat
  BY <1>0, StateFields
<1>2. ASSUME NEW a \in X, NEW f \in 1..N
      PROVE  Scheduled(a, f) \in X /\ (Alive(a, f - 1) => Alive(Scheduled(a, f), f))
  <2>1. /\ CoreInv(a, messages, task, gone) /\ Len(a.flows) = N /\ a \in ServiceStates
        /\ AwakeInv(a, {})
    OBVIOUS
  <2>2. Len(a.by_task) = Len(a.tasks)
    BY <2>1 DEF CoreInv, TaskInv
  <2>3. CASE f \in due
    <3>1. PICK n : n = schedule_flow_task(a, f)
      OBVIOUS
    <3>2. Schedules(a, n, f)
      BY <2>1, <2>2, <3>1, ScheduleIsSchedules
    <3>3. CoreInv(n, messages, task, gone)
      BY <2>1, <3>2, SchedulesPreserve
    <3>4. Len(n.flows) = N /\ n \in ServiceStates
      BY <2>1, <3>2 DEF Schedules
    <3>5. Left(due, N, f - 1) \ {f} = Left(due, N, f)
      BY <1>1 DEF Left
    <3>6. Alive(a, f - 1) => Alive(n, f)
      <4>1. ASSUME Alive(a, f - 1)
            PROVE  AliveInv(n, messages, task, Left(due, N, f - 1) \ {f})
        BY <2>1, <3>2, <4>1, SchedulesAlive
      <4>2. QED  BY <3>5, <4>1
    <3>7. AwakeInv(n, {})
      <4>1. /\ Len(n.flows) = Len(a.flows) /\ n.pending = a.pending
            /\ n.active_configs = a.active_configs
            /\ \A g \in 1..Len(a.flows) : /\ n.flows[g].key = a.flows[g].key
                                          /\ n.flows[g].outcome = a.flows[g].outcome
        BY <3>2 DEF Schedules
      <4>2. QED  BY <2>1, <4>1, SameAwake
    <3>8. QED  BY <2>3, <3>1, <3>3, <3>4, <3>6, <3>7
  <2>4. CASE f \notin due
    <3>1. Left(due, N, f - 1) = Left(due, N, f)
      BY <1>1, <2>4 DEF Left
    <3>2. QED  BY <2>4, <3>1
  <2>5. QED  BY <2>3, <2>4
<1>3. taken \in X /\ Alive(taken, 0)
  <2>1. PICK w \in SUBSET Nat : w = s.waiting \ due
    BY <1>0, StateFields
  <2>2. taken = [s EXCEPT !.waiting = w]
    BY <2>1
  <2> HIDE DEF taken
  <2>3. /\ taken \in ServiceStates /\ taken.flows = s.flows /\ taken.pending = s.pending
        /\ taken.active_configs = s.active_configs
        /\ taken.tasks = s.tasks /\ taken.task_queue = s.task_queue /\ taken.by_task = s.by_task
        /\ taken.plan = s.plan /\ taken.waiting = w
    BY <1>0, <2>2 DEF ServiceStates
  <2>4. Touches(s, taken)
    BY <2>3 DEF Touches
  <2>5. CoreInv(taken, messages, task, gone)
    BY <1>0, <2>4, TouchesPreserve
  <2>6. \A f \in 1..N : Waits(s, f) => f \in Left(due, N, 0) \/ Waits(taken, f)
    BY <1>1, <2>1, <2>3 DEF Left, Waits
  <2>7. \A f : HasTask(s, messages, task, f) => HasTask(taken, messages, task, f)
    BY <2>3, SameEnding DEF HasTask
  <2>8. Alive(taken, 0)
    BY <1>0, <2>3, <2>6, <2>7 DEF AliveInv
  <2>9. AwakeInv(taken, {})
    BY <1>0, <2>3, SameAwake
  <2>10. QED  BY <2>3, <2>5, <2>8, <2>9
<1> HIDE DEF X, Scheduled, N, Alive
<1>4. PICK h \in [0..N -> X] : h[0] = taken /\ \A f \in 1..N : h[f] = Scheduled(h[f - 1], f)
  <2> DEFINE step == [f \in 1..N |-> [a \in X |-> Scheduled(a, f)]]
  <2>1. step \in [1..N -> [X -> X]]
    BY <1>2
  <2> HIDE DEF step, taken
  <2>1a. taken \in X /\ N \in Nat
    BY <1>1, <1>3
  <2>2. PICK h \in [0..N -> X] : h[0] = taken /\ \A f \in 1..N : h[f] = step[f][h[f - 1]]
    BY <2>1, <2>1a, IntervalRecursion
  <2>3. ASSUME NEW f \in 1..N PROVE h[f] = Scheduled(h[f - 1], f)
    <3>1. h[f - 1] \in X
      BY <1>1
    <3>2. step[f][h[f - 1]] = Scheduled(h[f - 1], f)
      BY <3>1 DEF step
    <3>3. QED  BY <2>2, <3>2
  <2>4. QED  BY <2>2, <2>3
<1>5. h = Def(h)
  <2>1. ASSUME NEW f \in 0..N PROVE h[f] = Def(h)[f]
    BY <1>1, <1>4 DEF Scheduled
  <2>2. QED  BY <2>1
<1>6. after = Def(after)
  <2> HIDE DEF Def
  <2>1. \E g : g = Def(g)
    BY <1>5
  <2>2. QED  BY <2>1
<1> HIDE DEF after
<1>7. \A f \in 0..N : f \in {j \in Nat : after[j] \in X /\ Alive(after[j], j)}
  <2> DEFINE T == {j \in Nat : after[j] \in X /\ Alive(after[j], j)}
  <2>1. 0 \in T
    <3>1. after[0] = taken
      BY <1>1, <1>6
    <3> HIDE DEF taken
    <3>2. QED  BY <1>3, <3>1
  <2>2. ASSUME NEW f \in 1..N, f - 1 \in T PROVE f \in T
    <3>1. after[f] = Scheduled(after[f - 1], f)
      <4>1. Def(after)[f] = Scheduled(after[f - 1], f)
        BY <1>1 DEF Scheduled
      <4> HIDE DEF Def
      <4>2. QED  BY <1>6, <4>1
    <3>2. after[f - 1] \in X /\ Alive(after[f - 1], f - 1)
      BY <2>2
    <3>3. QED  BY <1>1, <1>2, <3>1, <3>2
  <2> HIDE DEF T
  <2>3. \A f \in 0..N : f \in T
    BY <1>1, <2>1, <2>2, IntervalInduction
  <2>4. QED  BY <2>3 DEF T
<1>8. after[N] \in X /\ Alive(after[N], N)
  BY <1>1, <1>7
<1>9. ScheduleTasks(s, due) = after[N]
  BY DEF ScheduleTasks, after, N
<1>10. Left(due, N, N) = {}
  BY <1>1 DEF Left
<1>11. QED  BY <1>8, <1>9, <1>10 DEF X, Alive, ServiceInv

-----------------------------------------------------------------------------
(* Flows that end *)

\* No element is there twice.
Distinct(q) == \A i, j \in 1..Len(q) : q[i] = q[j] => i = j

\* Element x is there.
Within(q, x) == \E i \in 1..Len(q) : q[i] = x

\* One more element.
LEMMA WithinAppend ==
  ASSUME NEW q \in Seq(Nat), NEW e \in Nat
  PROVE  /\ \A x : Within(Append(q, e), x) <=> Within(q, x) \/ x = e
         /\ Distinct(q) /\ ~Within(q, e) => Distinct(Append(q, e))
<1>1. /\ Append(q, e) \in Seq(Nat) /\ Len(q) \in Nat
      /\ Len(Append(q, e)) = Len(q) + 1
      /\ Append(q, e)[Len(q) + 1] = e
      /\ \A i \in 1..Len(q) : Append(q, e)[i] = q[i]
  BY AppendFacts
<1> DEFINE a == Append(q, e)
<1> HIDE DEF a
<1>2. QED  BY <1>1 DEF Within, Distinct, a

\* The retain, element by element.
LEMMA WithoutRecursion ==
  ASSUME NEW queue, NEW N \in Nat, N = Len(queue), NEW ids
  PROVE  \E kept : /\ Without(queue, ids) = kept[N] /\ kept[0] = <<>>
                   /\ \A n \in 1..N : kept[n] = IF queue[n] \in ids THEN kept[n - 1]
                                                ELSE Append(kept[n - 1], queue[n])
<1>0. PICK X, base : X = Seq({queue[n] : n \in 1..N}) /\ base = <<>>
  OBVIOUS
<1> DEFINE Kept(q, n) == IF queue[n] \in ids THEN q ELSE Append(q, queue[n])
           Def(g) == [n \in 0..N |-> IF n = 0 THEN <<>>
                                     ELSE IF queue[n] \in ids THEN g[n - 1]
                                          ELSE Append(g[n - 1], queue[n])]
           kept == CHOOSE g : g = Def(g)
           step == [n \in 1..N |-> [q \in X |-> Kept(q, n)]]
<1>1. ASSUME NEW q \in X, NEW n \in 1..N PROVE Kept(q, n) \in X
  BY <1>0
<1>2. base \in X
  BY <1>0
<1> HIDE DEF Kept
<1>3. step \in [1..N -> [X -> X]]
  BY <1>1
<1>4. PICK f \in [0..N -> X] : f[0] = base /\ \A n \in 1..N : f[n] = step[n][f[n - 1]]
  <2> HIDE DEF step
  <2> QED  BY <1>2, <1>3, IntervalRecursion
<1>5. f = Def(f)
  <2>1. ASSUME NEW n \in 0..N PROVE f[n] = Def(f)[n]
    <3>1. CASE n = 0
      BY <1>0, <1>4, <3>1
    <3>2. CASE n # 0
      <4>1. n \in 1..N /\ f[n - 1] \in X
        BY <3>2
      <4>2. f[n] = Kept(f[n - 1], n)
        BY <1>4, <4>1
      <4>3. QED  BY <3>2, <4>1, <4>2 DEF Kept
    <3>3. QED  BY <3>1, <3>2
  <2>2. QED  BY <2>1
<1>6. kept = Def(kept)
  <2> HIDE DEF Def
  <2>1. \E g : g = Def(g)
    BY <1>5
  <2>2. QED  BY <2>1
<1> HIDE DEF kept
<1>7. kept[0] = <<>>
  BY <1>6
<1>8. ASSUME NEW n \in 1..N PROVE kept[n] = Kept(kept[n - 1], n)
  <2>1. Def(kept)[n] = Kept(kept[n - 1], n)
    BY DEF Kept
  <2> HIDE DEF Def
  <2>2. QED  BY <1>6, <2>1
<1>9. Without(queue, ids) = kept[N]
  BY DEF Without, kept
<1>10. QED  BY <1>7, <1>8, <1>9 DEF Kept

\* The retain keeps the other tasks, and adds none.
LEMMA WithoutFacts ==
  ASSUME NEW queue \in Seq(Nat), NEW ids
  PROVE  /\ Without(queue, ids) \in Seq(Nat)
         /\ \A x : Within(Without(queue, ids), x) <=> (x \notin ids /\ Within(queue, x))
         /\ Distinct(queue) => Distinct(Without(queue, ids))
<1> DEFINE N == Len(queue)
           Kept(q, n) == IF queue[n] \in ids THEN q ELSE Append(q, queue[n])
<1>1. N \in Nat /\ \A n \in 1..N : queue[n] \in Nat
  OBVIOUS
<1>7. PICK kept : /\ Without(queue, ids) = kept[N] /\ kept[0] = <<>>
                  /\ \A n \in 1..N : kept[n] = Kept(kept[n - 1], n)
  BY <1>1, WithoutRecursion
<1> HIDE DEF Kept, N
<1> DEFINE Before(n, x) == \E i \in 1..n : queue[i] = x
           Fine(n) == /\ kept[n] \in Seq(Nat)
                      /\ \A x : Within(kept[n], x) <=> (x \notin ids /\ Before(n, x))
                      /\ Distinct(queue) => Distinct(kept[n])
           T == {n \in Nat : Fine(n)}
<1>8. Fine(0)
  <2>1. kept[0] \in Seq(Nat) /\ Len(kept[0]) = 0
    BY <1>7
  <2>2. QED  BY <2>1 DEF Within, Distinct
<1>9. ASSUME NEW n \in 1..N, Fine(n - 1) PROVE Fine(n)
  <2>1. \A x : Before(n, x) <=> Before(n - 1, x) \/ x = queue[n]
    BY <1>1
  <2>2. CASE queue[n] \in ids
    <3>1. kept[n] = kept[n - 1]
      BY <1>7, <2>2 DEF Kept
    <3>2. \A x : x \notin ids => (Before(n, x) <=> Before(n - 1, x))
      BY <2>1, <2>2
    <3> HIDE DEF Before
    <3>3. QED  BY <1>9, <3>1, <3>2
  <2>3. CASE queue[n] \notin ids
    <3>1. kept[n] = Append(kept[n - 1], queue[n])
      BY <1>7, <2>3 DEF Kept
    <3>2. PICK q \in Seq(Nat) : q = kept[n - 1]
      BY <1>9
    <3>3. PICK e \in Nat : e = queue[n]
      BY <1>1
    <3>4. /\ \A x : Within(kept[n], x) <=> Within(q, x) \/ x = e
          /\ Distinct(q) /\ ~Within(q, e) => Distinct(kept[n])
          /\ kept[n] \in Seq(Nat)
      BY <3>1, <3>2, <3>3, WithinAppend, AppendFacts
    <3>5. Distinct(queue) => ~Before(n - 1, e)
      BY <1>1, <3>3 DEF Distinct, N
    <3> HIDE DEF Before
    <3>6. QED  BY <1>9, <2>1, <2>3, <3>2, <3>3, <3>4, <3>5
  <2>4. QED  BY <2>2, <2>3
<1>10. Fine(N)
  <2>1. 0 \in T
    BY <1>8
  <2>2. ASSUME NEW n \in 1..N, n - 1 \in T PROVE n \in T
    <3>1. Fine(n - 1) /\ n \in Nat
      BY <1>1, <2>2
    <3> HIDE DEF Fine
    <3>2. QED  BY <1>9, <3>1
  <2> HIDE DEF T
  <2>3. \A n \in 0..N : n \in T
    BY <1>1, <2>1, <2>2, IntervalInduction
  <2>4. N \in T
    BY <1>1, <2>3
  <2> HIDE DEF Fine
  <2>5. QED  BY <2>4 DEF T
<1>11. QED  BY <1>7, <1>10 DEF Within, N

\* Flow f is not active any more: it is not the pending flow of its key, or it
\* was aborted.  Tasks that are still tracked were tracked before; if they are
\* those of f, they have still to start, or the key is gone.  Other flows keep
\* their tasks and what they wait for.
Retires(s, n, f, messages, gone) ==
  /\ n \in ServiceStates
  /\ Len(n.flows) = Len(s.flows)
  /\ \A g \in 1..Len(s.flows) : /\ n.flows[g].key = s.flows[g].key
                                /\ n.flows[g].task_ids = s.flows[g].task_ids
                                /\ g # f => n.flows[g].outcome = s.flows[g].outcome
  /\ n.flows[f].outcome # "none"
  /\ s.flows[f].outcome # "none" => n.flows[f].outcome = s.flows[f].outcome
  /\ n.active_configs \subseteq s.active_configs
  /\ \A k \in Keys : n.pending[k] = s.pending[k] \/ (n.pending[k] = None /\ s.pending[k] = f)
  /\ n.tasks = s.tasks /\ Len(n.by_task) = Len(s.by_task)
  /\ \A t \in 1..Len(s.tasks) : n.by_task[t] # None =>
        /\ n.by_task[t] = s.by_task[t]
        /\ InQueue(s, t) => InQueue(n, t)
        /\ n.by_task[t] = f => Unstarted(n, messages, t) \/ Gone(n, gone, s.flows[f].key)
  /\ \A t \in 1..Len(s.tasks) : s.tasks[t] # f => n.by_task[t] = s.by_task[t]
  /\ \A t : InQueue(n, t) => InQueue(s, t)
  /\ Distinct(n.task_queue)
  /\ Spares(s, n, f)

\* The key of retired flow f needs no new flow, or it is in ended.
Excused(s, n, f, ended) ==
  LET k == s.flows[f].key
  IN  \/ k \in ended
      \/ k \notin n.active_configs
      \/ n.pending[k] = s.pending[k]
      \/ s.pending[k] = f /\ n.flows[f].outcome = "Failed"

\* Retiring a flow disturbs the schedule of its own key only.
LEMMA RetiresAwake ==
  ASSUME NEW s, NEW n, NEW ended, NEW f \in 1..Len(s.flows), AwakeInv(s, {}), PendingInv(s),
         Len(n.flows) = Len(s.flows),
         \A g \in 1..Len(s.flows) :
            /\ n.flows[g].key = s.flows[g].key
            /\ s.flows[g].outcome # "none" => n.flows[g].outcome = s.flows[g].outcome,
         n.active_configs \subseteq s.active_configs, s.active_configs \subseteq Keys,
         \A k \in Keys : n.pending[k] = s.pending[k] \/ (n.pending[k] = None /\ s.pending[k] = f),
         Excused(s, n, f, ended)
  PROVE  AwakeInv(n, ended)
<1>1. ASSUME NEW k \in Keys, n.pending[k] # None
      PROVE  IsLast(n, n.pending[k], k)
  <2>1. IsLast(s, s.pending[k], k) /\ n.pending[k] = s.pending[k]
    BY <1>1 DEF AwakeInv
  <2>2. QED  BY <2>1, SameLast
<1>2. ASSUME NEW k \in n.active_configs \ ended, HasSchedule(k), n.pending[k] = None
      PROVE  \E g \in 1..Len(n.flows) : IsLast(n, g, k) /\ n.flows[g].outcome = "Failed"
  <2>1. k \in Keys /\ k \in s.active_configs
    OBVIOUS
  <2>2. CASE s.pending[k] = None
    <3>1. PICK g \in 1..Len(s.flows) : IsLast(s, g, k) /\ s.flows[g].outcome = "Failed"
      BY <1>2, <2>1, <2>2 DEF AwakeInv
    <3>2. IsLast(n, g, k)
      BY <3>1, SameLast
    <3>3. QED  BY <3>1, <3>2
  <2>3. CASE s.pending[k] # None
    <3>1. s.pending[k] = f /\ s.flows[f].key = k
      BY <1>2, <2>1, <2>3 DEF PendingInv
    <3>2. n.flows[f].outcome = "Failed"
      BY <1>2, <2>3, <3>1 DEF Excused
    <3>3. IsLast(s, f, k)
      BY <2>1, <2>3, <3>1 DEF AwakeInv
    <3>4. IsLast(n, f, k)
      BY <3>3, SameLast
    <3>5. QED  BY <3>2, <3>4
  <2>4. QED  BY <2>2, <2>3
<1>3. QED  BY <1>1, <1>2 DEF AwakeInv

\* Retiring a flow preserves the invariant.
LEMMA RetiresPreserve ==
  ASSUME NEW s, NEW n, NEW messages, NEW task, NEW gone, NEW ended, NEW f \in 1..Len(s.flows),
         ServiceInv(s, messages, task, gone, {}), Retires(s, n, f, messages, gone),
         Excused(s, n, f, ended)
  PROVE  ServiceInv(n, messages, task, gone, ended)
<1>0. /\ s \in ServiceStates /\ n \in ServiceStates /\ PendingInv(s)
      /\ TaskInv(s, messages, task) /\ TrackedInv(s, messages, task, gone)
      /\ AliveInv(s, messages, task, {}) /\ AwakeInv(s, {})
  BY DEF Retires, ServiceInv, CoreInv
<1>1. /\ Len(s.flows) \in Nat /\ Len(s.tasks) \in Nat /\ Len(n.task_queue) \in Nat
      /\ \A g \in 1..Len(s.flows) : s.flows[g].key \in Keys
  BY <1>0, StateFields, FlowFields
<1>2. /\ Len(n.flows) = Len(s.flows)
      /\ \A g \in 1..Len(s.flows) : /\ n.flows[g].key = s.flows[g].key
                                    /\ n.flows[g].task_ids = s.flows[g].task_ids
                                    /\ g # f => n.flows[g].outcome = s.flows[g].outcome
      /\ n.flows[f].outcome # "none"
  BY DEF Retires
<1>3. \A k \in Keys : n.pending[k] = s.pending[k] \/ (n.pending[k] = None /\ s.pending[k] = f)
  BY DEF Retires
<1>4. PendingInv(n)
  <2>1. ASSUME NEW k \in Keys, n.pending[k] # None
        PROVE  n.pending[k] \in 1..Len(n.flows) /\ n.flows[n.pending[k]].key = k
    <3>1. n.pending[k] = s.pending[k]
      BY <1>3, <2>1
    <3>2. s.pending[k] \in 1..Len(s.flows) /\ s.flows[s.pending[k]].key = k
      BY <1>0, <2>1, <3>1 DEF PendingInv
    <3>3. QED  BY <1>2, <3>1, <3>2
  <2>2. ASSUME NEW g \in 1..Len(n.flows), n.flows[g].outcome = "none"
        PROVE  n.pending[n.flows[g].key] = g
    <3>1. g \in 1..Len(s.flows) /\ g # f
      BY <1>2, <2>2
    <3>2. s.flows[g].outcome = "none" /\ n.flows[g].key = s.flows[g].key /\ s.flows[g].key \in Keys
      BY <1>1, <1>2, <2>2, <3>1
    <3>3. s.pending[s.flows[g].key] = g
      BY <1>0, <3>1, <3>2 DEF PendingInv
    <3>4. QED  BY <1>3, <3>1, <3>2, <3>3
  <2>3. QED  BY <2>1, <2>2 DEF PendingInv
<1>5. /\ Len(n.tasks) = Len(s.tasks) /\ Len(n.by_task) = Len(s.by_task)
      /\ \A t : InQueue(n, t) => InQueue(s, t)
      /\ Distinct(n.task_queue)
  BY DEF Retires
<1>6. TaskInv(n, messages, task)
  <2>1. ASSUME NEW i \in 1..Len(n.task_queue) PROVE n.task_queue[i] \in 1..Len(s.tasks)
    <3>1. InQueue(s, n.task_queue[i])
      BY <1>5 DEF InQueue
    <3>2. QED  BY <1>0, <3>1 DEF InQueue, TaskInv
  <2>2. /\ Len(s.by_task) = Len(s.tasks)
        /\ task # None => task \in 1..Len(s.tasks) /\ ~InQueue(s, task)
        /\ \A i \in 1..Len(messages) :
              messages[i].task \in 1..Len(s.tasks) /\ ~InQueue(s, messages[i].task)
    BY <1>0 DEF TaskInv
  <2>3. QED  BY <1>5, <2>1, <2>2 DEF TaskInv, Distinct
<1>7. TrackedInv(n, messages, task, gone)
  <2> SUFFICES ASSUME NEW t \in 1..Len(s.tasks), NEW g, g = n.by_task[t], g # None
               PROVE  Followed(n, messages, task, gone, t, g)
    BY <1>5 DEF TrackedInv
  <2>1. /\ g = s.by_task[t]
        /\ InQueue(s, t) => InQueue(n, t)
        /\ g = f => Unstarted(n, messages, t) \/ Gone(n, gone, s.flows[f].key)
    BY DEF Retires
  <2>2. Followed(s, messages, task, gone, t, g)
    BY <1>0, <2>1 DEF TrackedInv
  <2>3. g \in 1..Len(s.flows) /\ s.flows[g].key \in Keys
    BY <1>1, <2>2 DEF Followed
  <2>4. Unstarted(s, messages, t) => Unstarted(n, messages, t)
    BY <2>1 DEF Unstarted
  <2>5. \A k \in Keys : Gone(s, gone, k) => Gone(n, gone, k)
    <3>1. n.active_configs \subseteq s.active_configs
      BY DEF Retires
    <3>2. QED  BY <1>3, <3>1 DEF Gone
  <2>6. CASE g = f
    BY <1>2, <2>1, <2>2, <2>3, <2>6 DEF Followed
  <2>7. CASE g # f
    BY <1>2, <2>1, <2>2, <2>3, <2>4, <2>5, <2>7 DEF Followed
  <2>8. QED  BY <2>6, <2>7
<1>8. AliveInv(n, messages, task, {})
  <2>1. ASSUME NEW g \in 1..Len(s.flows)
        PROVE  /\ \A t \in n.flows[g].task_ids : t \in 1..Len(n.tasks) /\ n.tasks[t] = g
               /\ n.flows[g].outcome = "none" =>
                     /\ Waits(n, g) \/ HasTask(n, messages, task, g)
                     /\ n.flows[g].running => HasTask(n, messages, task, g)
    <3>1. /\ \A t \in s.flows[g].task_ids : t \in 1..Len(s.tasks) /\ s.tasks[t] = g
          /\ s.flows[g].outcome = "none" =>
                /\ Waits(s, g) \/ HasTask(s, messages, task, g)
                /\ s.flows[g].running => HasTask(s, messages, task, g)
      BY <1>0 DEF AliveInv
    <3>2. /\ n.tasks = s.tasks /\ n.flows[g].running = s.flows[g].running
          /\ g # f /\ Waits(s, g) => Waits(n, g)
      BY DEF Retires, Spares
    <3>3. ASSUME g # f, HasTask(s, messages, task, g)
          PROVE  HasTask(n, messages, task, g)
      <4>1. PICK t \in s.flows[g].task_ids : s.by_task[t] = g /\ Ending(s, messages, task, t)
        BY <3>3 DEF HasTask
      <4>2. t \in 1..Len(s.tasks) /\ s.tasks[t] = g
        BY <3>1
      <4>3. n.by_task[t] = g
        BY <3>3, <4>1, <4>2 DEF Retires
      <4>4. g # None
        BY DEF None
      <4>5. InQueue(s, t) => InQueue(n, t)
        BY <4>2, <4>3, <4>4 DEF Retires
      <4>6. Ending(n, messages, task, t)
        BY <4>1, <4>5 DEF Ending
      <4>7. QED  BY <1>2, <4>3, <4>6 DEF HasTask
    <3>4. QED  BY <1>2, <3>1, <3>2, <3>3
  <2>2. Len(n.plan) = Len(n.flows)
    BY <1>0, <1>2 DEF AliveInv, Retires, Spares
  <2>3. QED  BY <1>2, <2>1, <2>2 DEF AliveInv
<1>9. AwakeInv(n, ended)
  <2>1. /\ n.active_configs \subseteq s.active_configs
        /\ s.flows[f].outcome # "none" => n.flows[f].outcome = s.flows[f].outcome
    BY DEF Retires
  <2>2. s.active_configs \subseteq Keys
    BY <1>0, StateFields
  <2>3. QED  BY <1>0, <1>2, <1>3, <2>1, <2>2, RetiresAwake
<1>10. QED  BY <1>0, <1>4, <1>6, <1>7, <1>8, <1>9 DEF ServiceInv, CoreInv

\* The parts of an aborted flow's state.
LEMMA AbortFacts ==
  ASSUME NEW s \in ServiceStates, NEW f \in 1..Len(s.flows), NEW n, n = abort(s, f)
  PROVE  /\ n \in ServiceStates
         /\ Len(n.flows) = Len(s.flows)
         /\ \A g \in 1..Len(s.flows) : /\ n.flows[g].key = s.flows[g].key
                                       /\ n.flows[g].task_ids = s.flows[g].task_ids
                                       /\ g # f => n.flows[g].outcome = s.flows[g].outcome
         /\ Ok(n) => n.flows[f].outcome # "none"
         /\ s.flows[f].outcome # "none" => n.flows[f].outcome = s.flows[f].outcome
         /\ s.flows[f].outcome = "none" => n.error = s.error
         /\ n.pending = s.pending /\ n.active_configs = s.active_configs
         /\ n.tasks = s.tasks /\ n.task_queue = s.task_queue /\ n.by_task = s.by_task
         /\ Spares(s, n, f)
<1>1. CASE s.flows[f].outcome = "none"
  <2>1. PICK g0 \in AllFlows : g0 = s.flows[f]
    BY StateFields
  <2> DEFINE g == [g0 EXCEPT !.outcome = "Aborted", !.start_condition = "none"]
  <2>2. g \in AllFlows
    BY DEF AllFlows
  <2>3. g.key = g0.key /\ g.task_ids = g0.task_ids /\ g.outcome = "Aborted"
        /\ g.running = g0.running
    BY DEF AllFlows
  <2>4. n = [s EXCEPT !.flows = [s.flows EXCEPT ![f] = g]]
    BY <1>1, <2>1 DEF abort
  <2> HIDE DEF g
  <2>5. /\ n \in ServiceStates
        /\ Len(n.flows) = Len(s.flows)
        /\ \A h \in 1..Len(s.flows) : n.flows[h] = IF h = f THEN g ELSE s.flows[h]
        /\ n.pending = s.pending /\ n.active_configs = s.active_configs
        /\ n.tasks = s.tasks /\ n.task_queue = s.task_queue /\ n.by_task = s.by_task
        /\ n.error = s.error /\ n.plan = s.plan /\ n.waiting = s.waiting
    BY <2>2, <2>4, FlowReplaced
  <2>6. Spares(s, n, f)
    BY <2>1, <2>3, <2>5 DEF Spares, Waits
  <2>7. QED  BY <1>1, <2>1, <2>3, <2>5, <2>6
<1>2. CASE s.flows[f].outcome \in {"Aborted", "Failed"}
  BY <1>2 DEF abort, Spares
<1>3. CASE s.flows[f].outcome \notin {"none", "Aborted", "Failed"}
  <2>1. n = Fail(s, "flow rejects abort")
    BY <1>3 DEF abort
  <2>2. "flow rejects abort" \in Errors
    BY DEF Errors
  <2>3. /\ n \in ServiceStates /\ n.flows = s.flows /\ n.pending = s.pending
        /\ n.active_configs = s.active_configs
        /\ n.tasks = s.tasks /\ n.task_queue = s.task_queue /\ n.by_task = s.by_task
        /\ n.error = "flow rejects abort" /\ n.plan = s.plan /\ n.waiting = s.waiting
    BY <2>1, <2>2 DEF Fail, ServiceStates
  <2>4. Spares(s, n, f)
    BY <2>3 DEF Spares, Waits
  <2>5. QED  BY <1>3, <2>3, <2>4 DEF Ok
<1>4. QED  BY <1>1, <1>2, <1>3

\* Flow f was aborted, and its tasks are neither tracked nor queued any more.
Aborts(s, n, f) ==
  /\ Len(n.flows) = Len(s.flows)
  /\ \A g \in 1..Len(s.flows) : /\ n.flows[g].key = s.flows[g].key
                                /\ n.flows[g].task_ids = s.flows[g].task_ids
                                /\ g # f => n.flows[g].outcome = s.flows[g].outcome
  /\ n.flows[f].outcome # "none"
  /\ s.flows[f].outcome # "none" => n.flows[f].outcome = s.flows[f].outcome
  /\ n.pending = s.pending /\ n.active_configs = s.active_configs /\ n.tasks = s.tasks
  /\ Len(n.by_task) = Len(s.by_task)
  /\ \A t \in 1..Len(s.by_task) :
        n.by_task[t] = IF t \in s.flows[f].task_ids THEN None ELSE s.by_task[t]
  /\ n.task_queue = Without(s.task_queue, s.flows[f].task_ids)
  /\ Spares(s, n, f)

\* The same for abort_flow_impl, which also forgets and cancels the tasks.
LEMMA AbortFlowFacts ==
  ASSUME NEW s \in ServiceStates, NEW f \in 1..Len(s.flows), NEW n, n = abort_flow_impl(s, f)
  PROVE  /\ n \in ServiceStates
         /\ s.flows[f].outcome = "none" => n.error = s.error
         /\ Ok(n) => Aborts(s, n, f)
<1> DEFINE ids == s.flows[f].task_ids
<1>1. PICK a : a = abort(s, f)
  OBVIOUS
<1>2. /\ a \in ServiceStates
      /\ Len(a.flows) = Len(s.flows)
      /\ \A g \in 1..Len(s.flows) : /\ a.flows[g].key = s.flows[g].key
                                    /\ a.flows[g].task_ids = s.flows[g].task_ids
                                    /\ g # f => a.flows[g].outcome = s.flows[g].outcome
      /\ Ok(a) => a.flows[f].outcome # "none"
      /\ s.flows[f].outcome # "none" => a.flows[f].outcome = s.flows[f].outcome
      /\ s.flows[f].outcome = "none" => a.error = s.error
      /\ a.pending = s.pending /\ a.active_configs = s.active_configs
      /\ a.tasks = s.tasks /\ a.task_queue = s.task_queue /\ a.by_task = s.by_task
      /\ Spares(s, a, f)
  BY <1>1, AbortFacts
<1>3. CASE ~Ok(a)
  <2>1. n = a
    BY <1>1, <1>3 DEF abort_flow_impl
  <2>2. QED  BY <1>2, <1>3, <2>1
<1>4. CASE Ok(a)
  <2> DEFINE forgotten == [t \in DOMAIN a.by_task |-> IF t \in ids THEN None ELSE a.by_task[t]]
  <2>1. s.by_task \in Seq(Nat) /\ s.task_queue \in Seq(Nat)
    BY StateFields
  <2>2. PICK b \in Seq(Nat) :
          /\ b = forgotten /\ Len(b) = Len(s.by_task)
          /\ \A t \in 1..Len(s.by_task) : b[t] = IF t \in ids THEN None ELSE s.by_task[t]
    <3>1. DOMAIN a.by_task = 1..Len(s.by_task) /\ Len(s.by_task) \in Nat
      BY <1>2, <2>1
    <3>2. /\ DOMAIN forgotten = 1..Len(s.by_task)
          /\ \A t \in 1..Len(s.by_task) :
                forgotten[t] = (IF t \in ids THEN None ELSE s.by_task[t]) /\ forgotten[t] \in Nat
      BY <1>2, <2>1, <3>1 DEF None
    <3>3. forgotten \in [1..Len(s.by_task) -> Nat]
      BY <3>2
    <3> HIDE DEF forgotten
    <3>4. forgotten \in Seq(Nat) /\ Len(forgotten) = Len(s.by_task)
      BY <3>1, <3>3
    <3>5. QED  BY <3>2, <3>4
  <2>3. PICK q \in Seq(Nat) : q = Without(s.task_queue, ids)
    BY <2>1, WithoutFacts
  <2>4. n = [a EXCEPT !.by_task = b, !.task_queue = q]
    BY <1>1, <1>2, <1>4, <2>2, <2>3 DEF abort_flow_impl
  <2>5. /\ n \in ServiceStates /\ n.flows = a.flows /\ n.pending = a.pending
        /\ n.active_configs = a.active_configs
        /\ n.tasks = a.tasks /\ n.task_queue = q /\ n.by_task = b /\ n.error = a.error
        /\ n.plan = a.plan /\ n.waiting = a.waiting
    BY <1>2, <2>4 DEF ServiceStates
  <2>5a. Spares(s, n, f)
    BY <1>2, <2>5 DEF Spares, Waits
  <2>6. Aborts(s, n, f)
    BY <1>2, <1>4, <2>2, <2>3, <2>5, <2>5a DEF Aborts
  <2>7. QED  BY <1>2, <2>5, <2>6
<1>5. QED  BY <1>3, <1>4

\* Cancelling takes a flow off the plan, or fails.
LEMMA UnplanFacts ==
  ASSUME NEW s \in ServiceStates, NEW f \in 1..Len(s.flows), Len(s.plan) = Len(s.flows),
         NEW n, n = Unplan(s, f)
  PROVE  Touches(s, n) /\ Spares(s, n, f)
<1>1. CASE s.plan[f] = NotPlanned
  <2>1. "flow not planned" \in Errors
    BY DEF Errors
  <2>2. Keeps(s, n)
    BY <1>1, <2>1, FailTouches DEF Unplan
  <2>3. QED  BY <2>2 DEF Keeps, Patient, Spares
<1>2. CASE s.plan[f] # NotPlanned
  <2>1. PICK p \in Seq(Int) : /\ p = [s.plan EXCEPT ![f] = NotPlanned] /\ Len(p) = Len(s.plan)
                              /\ \A g \in 1..Len(s.flows) : g # f => p[g] = s.plan[g]
    <3>1. NotPlanned \in Int /\ s.plan \in Seq(Int) /\ f \in 1..Len(s.plan)
      BY StateFields DEF NotPlanned
    <3>2. PICK p : p = [s.plan EXCEPT ![f] = NotPlanned]
      OBVIOUS
    <3>3. /\ p \in Seq(Int) /\ Len(p) = Len(s.plan)
          /\ \A g \in 1..Len(s.plan) : p[g] = IF g = f THEN NotPlanned ELSE s.plan[g]
      BY <3>1, <3>2, ReplaceFacts
    <3>4. QED  BY <3>2, <3>3
  <2>2. PICK w \in SUBSET Nat : w = s.waiting \ {f}
    BY StateFields
  <2>3. n = [s EXCEPT !.plan = p, !.waiting = w]
    BY <1>2, <2>1, <2>2 DEF Unplan
  <2>4. /\ n \in ServiceStates /\ n.flows = s.flows /\ n.pending = s.pending
        /\ n.active_configs = s.active_configs
        /\ n.tasks = s.tasks /\ n.task_queue = s.task_queue /\ n.by_task = s.by_task
        /\ n.plan = p /\ n.waiting = w
    BY <2>3 DEF ServiceStates
  <2>5. Spares(s, n, f)
    BY <2>1, <2>2, <2>4 DEF Spares, Waits
  <2>6. QED  BY <2>4, <2>5 DEF Touches
<1>3. QED  BY <1>1, <1>2

\* The service drops a key.
Dropped(s, k) == drop_pending_flow([s EXCEPT !.active_configs = @ \ {k}], k)

\* The parts of a state without key k.
LEMMA DroppedFacts ==
  ASSUME NEW s \in ServiceStates, NEW k \in Keys, NEW n, n = Dropped(s, k)
  PROVE  /\ n \in ServiceStates /\ n.flows = s.flows /\ n.error = s.error
         /\ n.pending = [s.pending EXCEPT ![k] = None]
         /\ n.active_configs = s.active_configs \ {k}
         /\ n.tasks = s.tasks /\ n.task_queue = s.task_queue /\ n.by_task = s.by_task
         /\ n.plan = s.plan /\ n.waiting = s.waiting
<1>1. PICK c \in SUBSET Keys : c = s.active_configs \ {k}
  BY StateFields
<1>2. PICK p \in [Keys -> Nat] : p = [s.pending EXCEPT ![k] = None]
  BY StateFields DEF None
<1>3. PICK m : m = [s EXCEPT !.active_configs = c]
  OBVIOUS
<1>4. /\ m \in ServiceStates /\ m.flows = s.flows /\ m.pending = s.pending
      /\ m.active_configs = c /\ m.error = s.error
      /\ m.tasks = s.tasks /\ m.task_queue = s.task_queue /\ m.by_task = s.by_task
      /\ m.plan = s.plan /\ m.waiting = s.waiting
  BY <1>3 DEF ServiceStates
<1>5. n = [m EXCEPT !.pending = p]
  BY <1>1, <1>2, <1>3, <1>4 DEF Dropped, drop_pending_flow
<1>6. /\ n \in ServiceStates /\ n.flows = m.flows /\ n.pending = p
      /\ n.active_configs = m.active_configs /\ n.error = m.error
      /\ n.tasks = m.tasks /\ n.task_queue = m.task_queue /\ n.by_task = m.by_task
      /\ n.plan = m.plan /\ n.waiting = m.waiting
  BY <1>4, <1>5 DEF ServiceStates
<1>7. QED  BY <1>1, <1>2, <1>4, <1>6

\* A key without a pending flow may be dropped.
LEMMA DroppedPreserves ==
  ASSUME NEW s, NEW messages, NEW task, NEW gone, NEW k \in Keys,
         ServiceInv(s, messages, task, gone, {}), s.pending[k] = None
  PROVE  ServiceInv(Dropped(s, k), messages, task, gone, {})
<1>0. /\ s \in ServiceStates /\ PendingInv(s)
      /\ TaskInv(s, messages, task) /\ TrackedInv(s, messages, task, gone)
      /\ AliveInv(s, messages, task, {}) /\ AwakeInv(s, {})
  BY DEF ServiceInv, CoreInv
<1>1. PICK n : n = Dropped(s, k)
  OBVIOUS
<1>2. /\ n \in ServiceStates /\ n.flows = s.flows /\ n.pending = [s.pending EXCEPT ![k] = None]
      /\ n.active_configs = s.active_configs \ {k}
      /\ n.tasks = s.tasks /\ n.task_queue = s.task_queue /\ n.by_task = s.by_task
      /\ n.plan = s.plan /\ n.waiting = s.waiting
  BY <1>0, <1>1, DroppedFacts
<1>3. n.pending = s.pending
  BY <1>0, <1>2, StateFields
<1>4. PendingInv(n)
  BY <1>0, <1>2, <1>3 DEF PendingInv
<1>5. TaskInv(n, messages, task)
  BY <1>0, <1>2 DEF TaskInv, InQueue
<1>6. TrackedInv(n, messages, task, gone)
  <2> SUFFICES ASSUME NEW u \in 1..Len(s.tasks), NEW f, f = s.by_task[u], f # None
               PROVE  Followed(n, messages, task, gone, u, f)
    BY <1>2 DEF TrackedInv
  <2>1. InQueue(n, u) <=> InQueue(s, u)
    BY <1>2 DEF InQueue
  <2>2. Unstarted(n, messages, u) <=> Unstarted(s, messages, u)
    BY <2>1 DEF Unstarted
  <2>3. \A j : Gone(s, gone, j) => Gone(n, gone, j)
    BY <1>2, <1>3 DEF Gone
  <2>4. Followed(s, messages, task, gone, u, f)
    BY <1>0 DEF TrackedInv
  <2>5. QED  BY <1>2, <2>1, <2>2, <2>3, <2>4 DEF Followed
<1>7. AliveInv(n, messages, task, {})
  <2>1. Patient(s, n)
    BY <1>2 DEF Patient, Waits
  <2>2. QED  BY <1>0, <1>2, <2>1, PatientAlive
<1>8. AwakeInv(n, {})
  BY <1>0, <1>2, <1>3, SameAwake
<1>9. QED  BY <1>1, <1>2, <1>4, <1>5, <1>6, <1>7, <1>8 DEF ServiceInv, CoreInv

\* What abort_flow_impl leaves tracked was tracked, and is not a task of f.
LEMMA AbortRetires ==
  ASSUME NEW s, NEW messages, NEW task, NEW gone, ServiceInv(s, messages, task, gone, {}),
         NEW f \in 1..Len(s.flows),
         NEW u \in ServiceStates,
         Len(u.flows) = Len(s.flows),
         \A g \in 1..Len(s.flows) : /\ u.flows[g].key = s.flows[g].key
                                    /\ u.flows[g].outcome = s.flows[g].outcome
                                    /\ u.flows[g].task_ids = s.flows[g].task_ids,
         u.active_configs \subseteq s.active_configs,
         \A k \in Keys : u.pending[k] = s.pending[k] \/ (u.pending[k] = None /\ s.pending[k] = f),
         u.tasks = s.tasks, u.task_queue = s.task_queue, u.by_task = s.by_task,
         s.flows[f].key \notin u.active_configs \/ u.pending = s.pending, Spares(s, u, f),
         NEW n, n = abort_flow_impl(u, f), Ok(n)
  PROVE  ServiceInv(n, messages, task, gone, {})
<1> DEFINE ids == s.flows[f].task_ids
<1>0. /\ s \in ServiceStates /\ TaskInv(s, messages, task) /\ TrackedInv(s, messages, task, gone)
      /\ AliveInv(s, messages, task, {})
  BY DEF ServiceInv, CoreInv
<1>1. s.task_queue \in Seq(Nat) /\ Distinct(s.task_queue) /\ Len(s.by_task) = Len(s.tasks)
  BY <1>0, StateFields DEF TaskInv, Distinct
<1>2. /\ n \in ServiceStates
      /\ Len(n.flows) = Len(u.flows)
      /\ \A g \in 1..Len(u.flows) : /\ n.flows[g].key = u.flows[g].key
                                    /\ n.flows[g].task_ids = u.flows[g].task_ids
                                    /\ g # f => n.flows[g].outcome = u.flows[g].outcome
      /\ n.flows[f].outcome # "none"
      /\ u.flows[f].outcome # "none" => n.flows[f].outcome = u.flows[f].outcome
      /\ n.pending = u.pending /\ n.active_configs = u.active_configs /\ n.tasks = u.tasks
      /\ Len(n.by_task) = Len(u.by_task)
      /\ \A t \in 1..Len(u.by_task) :
            n.by_task[t] = IF t \in u.flows[f].task_ids THEN None ELSE u.by_task[t]
      /\ n.task_queue = Without(u.task_queue, u.flows[f].task_ids)
      /\ Spares(u, n, f)
  <2>1. f \in 1..Len(u.flows)
    OBVIOUS
  <2>2. n \in ServiceStates /\ Aborts(u, n, f)
    BY <2>1, AbortFlowFacts
  <2>3. QED  BY <2>2 DEF Aborts
<1>3. /\ n.task_queue = Without(s.task_queue, ids)
      /\ \A t \in 1..Len(s.tasks) : n.by_task[t] = IF t \in ids THEN None ELSE s.by_task[t]
  BY <1>1, <1>2
<1>4. /\ \A t : Within(n.task_queue, t) <=> (t \notin ids /\ Within(s.task_queue, t))
      /\ Distinct(n.task_queue)
  BY <1>1, <1>3, WithoutFacts
<1>5. \A t : InQueue(n, t) <=> (t \notin ids /\ InQueue(s, t))
  BY <1>4 DEF InQueue, Within
<1>6. ASSUME NEW t \in 1..Len(s.tasks), n.by_task[t] # None
      PROVE  /\ n.by_task[t] = s.by_task[t]
             /\ InQueue(s, t) => InQueue(n, t)
             /\ n.by_task[t] # f
  <2>1. t \notin ids /\ n.by_task[t] = s.by_task[t]
    BY <1>3, <1>6
  <2>2. Followed(s, messages, task, gone, t, s.by_task[t])
    BY <1>0, <1>6, <2>1 DEF TrackedInv
  <2>3. s.by_task[t] # f
    BY <2>1, <2>2 DEF Followed
  <2>4. QED  BY <1>5, <2>1, <2>3
<1>7. Retires(s, n, f, messages, gone)
  <2>1. /\ Len(n.flows) = Len(s.flows)
        /\ \A g \in 1..Len(s.flows) : /\ n.flows[g].key = s.flows[g].key
                                      /\ n.flows[g].task_ids = s.flows[g].task_ids
                                      /\ g # f => n.flows[g].outcome = s.flows[g].outcome
    BY <1>2
  <2>2. /\ n.active_configs \subseteq s.active_configs
        /\ \A k \in Keys : n.pending[k] = s.pending[k] \/ (n.pending[k] = None /\ s.pending[k] = f)
        /\ n.tasks = s.tasks /\ Len(n.by_task) = Len(s.by_task)
    BY <1>2
  <2>3. Spares(s, n, f)
    BY <1>2 DEF Spares
  <2>4. \A t \in 1..Len(s.tasks) : s.tasks[t] # f => n.by_task[t] = s.by_task[t]
    <3>1. \A t \in ids : s.tasks[t] = f
      BY <1>0 DEF AliveInv
    <3>2. QED  BY <1>3, <3>1
  <2>5. QED  BY <1>2, <1>4, <1>5, <1>6, <2>1, <2>2, <2>3, <2>4 DEF Retires
<1>8. Excused(s, n, f, {})
  BY <1>2 DEF Excused
<1>9. QED  BY <1>7, <1>8, RetiresPreserve

\* Pausing a key.
LEMMA PauseSound ==
  ASSUME NEW s, NEW messages, NEW task, NEW gone, NEW k \in Keys,
         ServiceInv(s, messages, task, gone, {}),
         NEW n, n = PauseKey(s, k)
  PROVE  n \in ServiceStates /\ (Ok(n) => ServiceInv(n, messages, task, gone, {}))
<1> DEFINE f == s.pending[k]
<1>0. s \in ServiceStates /\ PendingInv(s) /\ Len(s.plan) = Len(s.flows)
  BY DEF ServiceInv, CoreInv, AliveInv
<1>1. PICK d : d = Dropped(s, k)
  OBVIOUS
<1>2. PICK u : u = Unplan(d, f)
  OBVIOUS
<1>3. n = IF f = None THEN d ELSE IF Ok(u) THEN abort_flow_impl(u, f) ELSE u
  BY <1>1, <1>2 DEF PauseKey, Dropped
<1>4. CASE f = None
  <2>1. ServiceInv(n, messages, task, gone, {})
    BY <1>1, <1>3, <1>4, DroppedPreserves
  <2>2. QED  BY <2>1 DEF ServiceInv, CoreInv
<1>5. CASE f # None
  <2>1. /\ d \in ServiceStates /\ d.flows = s.flows /\ d.pending = [s.pending EXCEPT ![k] = None]
        /\ d.active_configs = s.active_configs \ {k}
        /\ d.tasks = s.tasks /\ d.task_queue = s.task_queue /\ d.by_task = s.by_task
        /\ d.plan = s.plan /\ d.waiting = s.waiting
    BY <1>0, <1>1, DroppedFacts
  <2>2. f \in 1..Len(s.flows) /\ s.flows[f].key = k
    BY <1>0, <1>5 DEF PendingInv
  <2>3. Touches(d, u) /\ Spares(d, u, f)
    <3>1. f \in 1..Len(d.flows) /\ Len(d.plan) = Len(d.flows)
      BY <1>0, <2>1, <2>2
    <3>2. QED  BY <1>2, <2>1, <3>1, UnplanFacts
  <2>4. CASE ~Ok(u)
    BY <1>3, <1>5, <2>3, <2>4 DEF Touches
  <2>5. CASE Ok(u)
    <3>1. n = abort_flow_impl(u, f)
      BY <1>3, <1>5, <2>5
    <3>2. /\ u \in ServiceStates /\ Len(u.flows) = Len(s.flows)
          /\ \A g \in 1..Len(s.flows) : /\ u.flows[g].key = s.flows[g].key
                                        /\ u.flows[g].outcome = s.flows[g].outcome
                                        /\ u.flows[g].task_ids = s.flows[g].task_ids
          /\ u.active_configs \subseteq s.active_configs /\ s.flows[f].key \notin u.active_configs
          /\ u.tasks = s.tasks /\ u.task_queue = s.task_queue /\ u.by_task = s.by_task
      BY <2>1, <2>2, <2>3 DEF Touches
    <3>3. \A j \in Keys : u.pending[j] = s.pending[j] \/ (u.pending[j] = None /\ s.pending[j] = f)
      <4>1. u.pending = [s.pending EXCEPT ![k] = None] /\ s.pending \in [Keys -> Nat]
        BY <1>0, <2>1, <2>3, StateFields DEF Touches
      <4>2. QED  BY <4>1
    <3>3a. Spares(s, u, f)
      BY <2>1, <2>3 DEF Spares, Waits
    <3>4. n \in ServiceStates
      BY <2>2, <3>1, <3>2, AbortFlowFacts
    <3> HIDE DEF f
    <3>5. QED  BY <2>2, <3>1, <3>2, <3>3, <3>3a, <3>4, AbortRetires
  <2>6. QED  BY <2>4, <2>5
<1>6. QED  BY <1>4, <1>5

\* Deleting a key: what stays tracked is of a key that is gone.
LEMMA DeleteSound ==
  ASSUME NEW s, NEW messages, NEW task, NEW gone, NEW k \in Keys,
         ServiceInv(s, messages, task, gone, {}),
         k \in gone, NEW n, n = DeleteKey(s, k)
  PROVE  n \in ServiceStates /\ (Ok(n) => ServiceInv(n, messages, task, gone, {}))
<1> DEFINE f == s.pending[k]
<1>0. s \in ServiceStates /\ PendingInv(s) /\ TaskInv(s, messages, task)
      /\ Len(s.plan) = Len(s.flows)
  BY DEF ServiceInv, CoreInv, AliveInv
<1>1. PICK d : d = Dropped(s, k)
  OBVIOUS
<1>2. PICK u : u = Unplan(d, f)
  OBVIOUS
<1>3. n = IF f = None THEN d ELSE IF Ok(u) THEN abort(u, f) ELSE u
  BY <1>1, <1>2 DEF DeleteKey, Dropped
<1>4. CASE f = None
  <2>1. ServiceInv(n, messages, task, gone, {})
    BY <1>1, <1>3, <1>4, DroppedPreserves
  <2>2. QED  BY <2>1 DEF ServiceInv, CoreInv
<1>5. CASE f # None
  <2>1. /\ d \in ServiceStates /\ d.flows = s.flows /\ d.pending = [s.pending EXCEPT ![k] = None]
        /\ d.active_configs = s.active_configs \ {k}
        /\ d.tasks = s.tasks /\ d.task_queue = s.task_queue /\ d.by_task = s.by_task
        /\ d.plan = s.plan /\ d.waiting = s.waiting
    BY <1>0, <1>1, DroppedFacts
  <2>2. f \in 1..Len(s.flows) /\ s.flows[f].key = k
    BY <1>0, <1>5 DEF PendingInv
  <2>3. Touches(d, u) /\ Spares(d, u, f)
    <3>1. f \in 1..Len(d.flows) /\ Len(d.plan) = Len(d.flows)
      BY <1>0, <2>1, <2>2
    <3>2. QED  BY <1>2, <2>1, <3>1, UnplanFacts
  <2>4. CASE ~Ok(u)
    BY <1>3, <1>5, <2>3, <2>4 DEF Touches
  <2>5. CASE Ok(u)
    <3>1. n = abort(u, f)
      BY <1>3, <1>5, <2>5
    <3>2. /\ u \in ServiceStates /\ Len(u.flows) = Len(s.flows)
          /\ \A g \in 1..Len(s.flows) : /\ u.flows[g].key = s.flows[g].key
                                        /\ u.flows[g].outcome = s.flows[g].outcome
                                        /\ u.flows[g].task_ids = s.flows[g].task_ids
          /\ u.active_configs = s.active_configs \ {k}
          /\ u.tasks = s.tasks /\ u.task_queue = s.task_queue /\ u.by_task = s.by_task
      BY <2>1, <2>3 DEF Touches
    <3>3. u.pending = [s.pending EXCEPT ![k] = None] /\ s.pending \in [Keys -> Nat]
      BY <1>0, <2>1, <2>3, StateFields DEF Touches
    <3>3a. Spares(s, u, f)
      BY <2>1, <2>3 DEF Spares, Waits
    <3> HIDE DEF f
    <3>4. /\ n \in ServiceStates
          /\ Len(n.flows) = Len(u.flows)
          /\ \A g \in 1..Len(u.flows) : /\ n.flows[g].key = u.flows[g].key
                                        /\ n.flows[g].task_ids = u.flows[g].task_ids
                                        /\ g # f => n.flows[g].outcome = u.flows[g].outcome
          /\ Ok(n) => n.flows[f].outcome # "none"
          /\ u.flows[f].outcome # "none" => n.flows[f].outcome = u.flows[f].outcome
          /\ n.pending = u.pending /\ n.active_configs = u.active_configs
          /\ n.tasks = u.tasks /\ n.task_queue = u.task_queue /\ n.by_task = u.by_task
          /\ Spares(u, n, f)
      BY <2>2, <3>1, <3>2, AbortFacts
    <3>5. ASSUME Ok(n) PROVE Retires(s, n, f, messages, gone)
      <4>1. /\ Len(n.flows) = Len(s.flows)
            /\ \A g \in 1..Len(s.flows) : /\ n.flows[g].key = s.flows[g].key
                                          /\ n.flows[g].task_ids = s.flows[g].task_ids
                                          /\ g # f => n.flows[g].outcome = s.flows[g].outcome
            /\ n.flows[f].outcome # "none"
            /\ s.flows[f].outcome # "none" => n.flows[f].outcome = s.flows[f].outcome
        BY <2>2, <3>2, <3>4, <3>5
      <4>2. /\ n.active_configs \subseteq s.active_configs
            /\ \A j \in Keys : n.pending[j] = s.pending[j] \/ (n.pending[j] = None /\ s.pending[j] = f)
        BY <3>2, <3>3, <3>4 DEF f
      <4>3. n.tasks = s.tasks /\ n.task_queue = s.task_queue /\ n.by_task = s.by_task
        BY <3>2, <3>4
      <4>4. \A t : InQueue(n, t) <=> InQueue(s, t)
        BY <4>3 DEF InQueue
      <4>5. Distinct(n.task_queue)
        BY <1>0, <4>3 DEF TaskInv, Distinct
      <4>6. Gone(n, gone, s.flows[f].key)
        <5>1. n.pending[k] = None /\ k \notin n.active_configs
          BY <3>2, <3>3, <3>4
        <5>2. QED  BY <2>2, <5>1 DEF Gone
      <4>6a. Spares(s, n, f)
        BY <3>2, <3>3a, <3>4 DEF Spares
      <4>7. QED  BY <3>4, <4>1, <4>2, <4>3, <4>4, <4>5, <4>6, <4>6a DEF Retires
    <3>6. Excused(s, n, f, {})
      BY <2>2, <3>2, <3>4 DEF Excused
    <3>7. QED  BY <2>2, <3>4, <3>5, <3>6, RetiresPreserve
  <2>6. QED  BY <2>4, <2>5
<1>6. QED  BY <1>4, <1>5

\* Cancelling an unfinished flow.
LEMMA CancelSound ==
  ASSUME NEW s, NEW messages, NEW task, NEW gone, ServiceInv(s, messages, task, gone, {}), Ok(s),
         NEW f \in 1..Len(s.flows), s.flows[f].outcome = "none"
  PROVE  Ok(abort_flow_impl(s, f)) /\ ServiceInv(abort_flow_impl(s, f), messages, task, gone, {})
<1>0. s \in ServiceStates
  BY DEF ServiceInv, CoreInv
<1>1. PICK n : n = abort_flow_impl(s, f)
  OBVIOUS
<1>2. Ok(n)
  <2>1. n.error = s.error
    BY <1>0, <1>1, AbortFlowFacts
  <2>2. QED  BY <2>1 DEF Ok
<1>3. ServiceInv(n, messages, task, gone, {})
  <2>1. Spares(s, s, f)
    BY DEF Spares
  <2>2. QED  BY <1>0, <1>1, <1>2, <2>1, AbortRetires
<1>4. QED  BY <1>1, <1>2, <1>3

-----------------------------------------------------------------------------
(* Progress messages *)

\* What is left when the first message is taken.
LEMMA TailFacts ==
  ASSUME NEW messages \in Seq(Messages), messages # <<>>
  PROVE  /\ Tail(messages) \in Seq(Messages) /\ Len(messages) \in Nat /\ 1 \in 1..Len(messages)
         /\ Head(messages) = messages[1] /\ Head(messages) \in Messages
         /\ Len(Tail(messages)) = Len(messages) - 1
         /\ \A i \in 1..(Len(messages) - 1) : Tail(messages)[i] = messages[i + 1]
<1> HIDE DEF Messages
<1> QED  OBVIOUS

\* Messages of other tasks are still there.
LEMMA TailKeepsOthers ==
  ASSUME NEW messages \in Seq(Messages), messages # <<>>, NEW s, NEW t
  PROVE  /\ Reported(Tail(messages), t) => Reported(messages, t)
         /\ t # Head(messages).task /\ Reported(messages, t) => Reported(Tail(messages), t)
         /\ t # Head(messages).task /\ Unstarted(s, messages, t) => Unstarted(s, Tail(messages), t)
<1>1. /\ Len(messages) \in Nat /\ Head(messages) = messages[1]
      /\ Len(Tail(messages)) = Len(messages) - 1
      /\ \A i \in 1..(Len(messages) - 1) : Tail(messages)[i] = messages[i + 1]
  BY TailFacts
<1>2. \A i \in 1..Len(Tail(messages)) : i + 1 \in 1..Len(messages) /\ Tail(messages)[i] = messages[i + 1]
  BY <1>1
<1>3. ASSUME NEW i \in 1..Len(messages), i # 1
      PROVE  i - 1 \in 1..Len(Tail(messages)) /\ Tail(messages)[i - 1] = messages[i]
  <2>1. i - 1 \in 1..(Len(messages) - 1) /\ (i - 1) + 1 = i
    BY <1>1, <1>3
  <2>2. QED  BY <1>1, <2>1
<1>4. Reported(Tail(messages), t) => Reported(messages, t)
  BY <1>2 DEF Reported
<1>5. t # Head(messages).task /\ Reported(messages, t) => Reported(Tail(messages), t)
  BY <1>1, <1>3 DEF Reported
<1>6. t # Head(messages).task /\ Unstarted(s, messages, t) => Unstarted(s, Tail(messages), t)
  BY <1>1, <1>3 DEF Unstarted
<1>7. QED  BY <1>4, <1>5, <1>6

\* The end of a task is still to come, unless the first message reports it.
LEMMA TailKeepsEnds ==
  ASSUME NEW messages \in Seq(Messages), messages # <<>>, NEW s, NEW task, NEW t,
         t = Head(messages).task => Head(messages).outcome = "running",
         Ending(s, messages, task, t)
  PROVE  Ending(s, Tail(messages), task, t)
<1>1. /\ Len(messages) \in Nat /\ Head(messages) = messages[1]
      /\ Len(Tail(messages)) = Len(messages) - 1
      /\ \A i \in 1..(Len(messages) - 1) : Tail(messages)[i] = messages[i + 1]
  BY TailFacts
<1>2. ASSUME NEW i \in 1..Len(messages), messages[i].task = t, messages[i].outcome # "running"
      PROVE  i - 1 \in 1..Len(Tail(messages)) /\ Tail(messages)[i - 1] = messages[i]
  <2>1. i # 1
    BY <1>1, <1>2
  <2>2. i - 1 \in 1..(Len(messages) - 1) /\ (i - 1) + 1 = i
    BY <1>1, <2>1
  <2>3. QED  BY <1>1, <2>2
<1>3. CASE InQueue(s, t) \/ task = t
  BY <1>3 DEF Ending
<1>4. CASE \E i \in 1..Len(messages) : messages[i].task = t /\ messages[i].outcome # "running"
  BY <1>2, <1>4 DEF Ending
<1>5. QED  BY <1>3, <1>4 DEF Ending

\* The first message may be taken if its task is not tracked, or has still to
\* report its end to an unfinished flow.
LEMMA ConsumePreserves ==
  ASSUME NEW s, NEW messages \in Seq(Messages), messages # <<>>, NEW task, NEW gone, NEW ended,
         ServiceInv(s, messages, task, gone, ended), NEW t0, t0 = Head(messages).task,
         s.by_task[t0] # None => /\ s.flows[s.by_task[t0]].outcome = "none"
                                 /\ task = t0 \/ Reported(Tail(messages), t0)
                                 /\ Head(messages).outcome = "running"
  PROVE  ServiceInv(s, Tail(messages), task, gone, ended)
<1>0. /\ s \in ServiceStates /\ PendingInv(s)
      /\ TaskInv(s, messages, task) /\ TrackedInv(s, messages, task, gone)
      /\ AliveInv(s, messages, task, {}) /\ AwakeInv(s, ended)
  BY DEF ServiceInv, CoreInv
<1>1. TaskInv(s, Tail(messages), task)
  <2>1. ASSUME NEW i \in 1..Len(Tail(messages))
        PROVE  Tail(messages)[i].task \in 1..Len(s.tasks) /\ ~InQueue(s, Tail(messages)[i].task)
    <3>1. Reported(messages, Tail(messages)[i].task)
      BY TailKeepsOthers DEF Reported
    <3>2. QED  BY <1>0, <3>1 DEF Reported, TaskInv
  <2>2. QED  BY <1>0, <2>1 DEF TaskInv
<1>2. TrackedInv(s, Tail(messages), task, gone)
  <2> SUFFICES ASSUME NEW t \in 1..Len(s.tasks), NEW f, f = s.by_task[t], f # None
               PROVE  Followed(s, Tail(messages), task, gone, t, f)
    BY DEF TrackedInv
  <2>1. Followed(s, messages, task, gone, t, f)
    BY <1>0 DEF TrackedInv
  <2>2. CASE t = t0
    BY <2>1, <2>2 DEF Followed
  <2>3. CASE t # t0
    <3>1. /\ Reported(messages, t) => Reported(Tail(messages), t)
          /\ Unstarted(s, messages, t) => Unstarted(s, Tail(messages), t)
      BY <2>3, TailKeepsOthers
    <3>2. QED  BY <2>1, <3>1 DEF Followed
  <2>4. QED  BY <2>2, <2>3
<1>3. ASSUME NEW f \in 1..Len(s.flows), HasTask(s, messages, task, f)
      PROVE  HasTask(s, Tail(messages), task, f)
  <2>1. PICK t \in s.flows[f].task_ids : s.by_task[t] = f /\ Ending(s, messages, task, t)
    BY <1>3 DEF HasTask
  <2>2. f # None
    BY DEF None
  <2>3. t = Head(messages).task => Head(messages).outcome = "running"
    BY <2>1, <2>2
  <2>4. Ending(s, Tail(messages), task, t)
    BY <2>1, <2>3, TailKeepsEnds
  <2>5. QED  BY <2>1, <2>4 DEF HasTask
<1>4. AliveInv(s, Tail(messages), task, {})
  BY <1>0, <1>3 DEF AliveInv
<1>5. QED  BY <1>0, <1>1, <1>2, <1>4 DEF ServiceInv, CoreInv

\* The messages that are left after the first still come in pairs.
LEMMA ProtocolOfTail ==
  ASSUME NEW messages \in Seq(Messages), messages # <<>>, NEW task, ProtocolInv(messages, task)
  PROVE  ProtocolInv(Tail(messages), task)
<1>1. PICK r : r = Tail(messages)
  OBVIOUS
<1>2. PICK L \in Nat : L = Len(messages)
  BY TailFacts
<1>3. /\ r \in Seq(Messages) /\ 1 \in 1..L /\ Len(r) = L - 1
      /\ \A i \in 1..(L - 1) : r[i] = messages[i + 1]
  BY <1>1, <1>2, TailFacts
<1>4. \A i \in 1..L :
          IF messages[i].outcome = "running"
          THEN IF i = L THEN task = messages[i].task
               ELSE messages[i + 1].task = messages[i].task /\ messages[i + 1].outcome # "running"
          ELSE i > 1 => messages[i - 1].task = messages[i].task /\ messages[i - 1].outcome = "running"
  BY <1>2 DEF ProtocolInv
<1>5. ASSUME NEW i \in 1..(L - 1)
      PROVE  IF r[i].outcome = "running"
             THEN IF i = L - 1 THEN task = r[i].task
                  ELSE r[i + 1].task = r[i].task /\ r[i + 1].outcome # "running"
             ELSE i > 1 => r[i - 1].task = r[i].task /\ r[i - 1].outcome = "running"
  <2>1. i + 1 \in 1..L /\ r[i] = messages[i + 1]
    BY <1>3
  <2>2. i # L - 1 => i + 1 # L /\ r[i + 1] = messages[(i + 1) + 1]
    BY <1>3
  <2>3. i > 1 => i + 1 > 1 /\ r[i - 1] = messages[(i + 1) - 1]
    <3>1. i > 1 => i - 1 \in 1..(L - 1) /\ (i - 1) + 1 = i /\ (i + 1) - 1 = i
      OBVIOUS
    <3>2. QED  BY <1>3, <3>1
  <2>4. i = L - 1 <=> i + 1 = L
    OBVIOUS
  <2>5. QED  BY <1>4, <2>1, <2>2, <2>3, <2>4
<1>6. task # None /\ r # <<>> => r[L - 1].task = task /\ r[L - 1].outcome = "running"
  <2>1. r # <<>> => L - 1 \in 1..(L - 1) /\ (L - 1) + 1 = L
    <3>1. r # <<>> => Len(r) # 0
      BY <1>3
    <3>2. QED  BY <1>3, <3>1
  <2>2. task # None => messages[L].task = task /\ messages[L].outcome = "running"
    BY <1>2 DEF ProtocolInv
  <2>3. QED  BY <1>3, <2>1, <2>2
<1>7. ASSUME NEW i \in 1..(L - 1), NEW j \in 1..(L - 1), i < j, r[i].task = r[j].task
      PROVE  j = i + 1 /\ r[i].outcome = "running"
  <2>1. /\ i + 1 \in 1..L /\ j + 1 \in 1..L /\ i + 1 < j + 1
        /\ r[i] = messages[i + 1] /\ r[j] = messages[j + 1]
    BY <1>3, <1>7
  <2>2. j + 1 = (i + 1) + 1 /\ messages[i + 1].outcome = "running"
    BY <1>2, <1>7, <2>1 DEF ProtocolInv
  <2>3. QED  BY <2>1, <2>2
<1>8. ProtocolInv(r, task)
  BY <1>3, <1>5, <1>6, <1>7 DEF ProtocolInv
<1>9. QED  BY <1>1, <1>8

\* The message that a task runs.
LEMMA RunningSound ==
  ASSUME NEW s, NEW messages \in Seq(Messages), messages # <<>>, NEW task, NEW gone,
         ServiceInv(s, messages, task, gone, {}), ProtocolInv(messages, task),
         Head(messages).outcome = "running",
         NEW f, f = s.by_task[Head(messages).task], f # None,
         NEW n, n = on_task_running(s, f)
  PROVE  n \in ServiceStates /\ (Ok(n) => ServiceInv(n, Tail(messages), task, gone, {}))
<1>0. /\ s \in ServiceStates /\ TaskInv(s, messages, task) /\ TrackedInv(s, messages, task, gone)
      /\ CoreInv(s, messages, task, gone) /\ AliveInv(s, messages, task, {})
      /\ AwakeInv(s, {})
  BY DEF ServiceInv, CoreInv
<1>1. PICK t0 : t0 = Head(messages).task
  OBVIOUS
<1>2. /\ Tail(messages) \in Seq(Messages) /\ Len(messages) \in Nat /\ 1 \in 1..Len(messages)
      /\ Head(messages) = messages[1]
      /\ Len(Tail(messages)) = Len(messages) - 1
      /\ \A i \in 1..(Len(messages) - 1) : Tail(messages)[i] = messages[i + 1]
  BY TailFacts
<1>3. t0 \in 1..Len(s.tasks)
  BY <1>0, <1>1, <1>2 DEF TaskInv
<1>4. Followed(s, messages, task, gone, t0, f)
  BY <1>0, <1>1, <1>3 DEF TrackedInv
<1>5. f \in 1..Len(s.flows)
  BY <1>4 DEF Followed
<1>6. CASE s.flows[f].outcome # "none"
  <2>1. "flow rejects task running" \in Errors
    BY DEF Errors
  <2>2. n = Fail(s, "flow rejects task running")
    BY <1>6 DEF on_task_running
  <2>3. n \in ServiceStates /\ n.error = "flow rejects task running"
    <3>1. Touches(s, n) /\ n.error = "flow rejects task running"
      BY <1>0, <2>1, <2>2, FailTouches
    <3>2. QED  BY <3>1 DEF Touches
  <2>4. QED  BY <2>3 DEF Ok
<1>7. CASE s.flows[f].outcome = "none"
  <2>1. PICK g0 \in AllFlows : g0 = s.flows[f]
    BY <1>0, <1>5, StateFields
  <2> DEFINE g == [g0 EXCEPT !.running = TRUE, !.start_condition = "none"]
  <2>2. g \in AllFlows
    BY DEF AllFlows
  <2>3. g.key = g0.key /\ g.outcome = g0.outcome /\ g.task_ids = g0.task_ids
    BY DEF AllFlows
  <2>4. n = [s EXCEPT !.flows = [s.flows EXCEPT ![f] = g]]
    BY <1>7, <2>1 DEF on_task_running
  <2> HIDE DEF g
  <2>4a. g.key = s.flows[f].key /\ g.outcome = s.flows[f].outcome /\ g.task_ids = s.flows[f].task_ids
    BY <2>1, <2>3
  <2>5. Touches(s, n)
    <3>1. Touches(s, [s EXCEPT !.flows = [s.flows EXCEPT ![f] = g]])
      BY <1>0, <1>5, <2>2, <2>4a, TouchFlow
    <3>2. QED  BY <2>4, <3>1
  <2>6. CoreInv(n, messages, task, gone)
    BY <1>0, <2>5, TouchesPreserve
  <2>7. n.by_task[t0] = f /\ n.flows[f].outcome = "none"
    BY <1>1, <1>5, <1>7, <2>5 DEF Touches
  <2>8. (task = t0 \/ Reported(Tail(messages), t0)) /\ Ending(s, messages, task, t0)
    <3>1. CASE Len(messages) = 1
      BY <1>1, <1>2, <3>1 DEF ProtocolInv, Ending
    <3>2. CASE Len(messages) # 1
      <4>1. 1 \in 1..Len(Tail(messages)) /\ Tail(messages)[1] = messages[1 + 1]
            /\ 1 + 1 \in 1..Len(messages)
        BY <1>2, <3>2
      <4>2. messages[1 + 1].task = messages[1].task /\ messages[1 + 1].outcome # "running"
        BY <1>2, <3>2 DEF ProtocolInv
      <4>3. Reported(Tail(messages), t0)
        BY <1>1, <1>2, <4>1, <4>2 DEF Reported
      <4>4. Ending(s, messages, task, t0)
        BY <1>1, <1>2, <4>1, <4>2 DEF Ending
      <4>5. QED  BY <4>3, <4>4
    <3>3. QED  BY <3>1, <3>2
  <2>9. AliveInv(n, messages, task, {})
    <3>1. /\ \A h \in 1..Len(s.flows) : n.flows[h] = IF h = f THEN g ELSE s.flows[h]
          /\ Len(n.flows) = Len(s.flows) /\ n.plan = s.plan /\ n.waiting = s.waiting
          /\ n.tasks = s.tasks /\ n.task_queue = s.task_queue /\ n.by_task = s.by_task
      BY <1>0, <1>5, <2>2, <2>4, FlowReplaced
    <3>2. \A h \in 1..Len(s.flows) : /\ n.flows[h].task_ids = s.flows[h].task_ids
                                      /\ n.flows[h].outcome = s.flows[h].outcome
      BY <2>4a, <3>1
    <3>3. ASSUME NEW h \in 1..Len(s.flows), HasTask(s, messages, task, h)
          PROVE  HasTask(n, messages, task, h)
      <4>1. PICK t \in s.flows[h].task_ids : s.by_task[t] = h /\ Ending(s, messages, task, t)
        BY <3>3 DEF HasTask
      <4>2. Ending(n, messages, task, t)
        BY <3>1, <4>1, SameEnding
      <4>3. t \in n.flows[h].task_ids /\ n.by_task[t] = h
        BY <3>1, <3>2, <4>1
      <4>4. QED  BY <4>2, <4>3 DEF HasTask
    <3>4. HasTask(n, messages, task, f)
      <4>1. t0 \in s.flows[f].task_ids /\ s.by_task[t0] = f
        BY <1>1, <1>4 DEF Followed
      <4>2. HasTask(s, messages, task, f)
        BY <2>8, <4>1 DEF HasTask
      <4>3. QED  BY <1>5, <3>3, <4>2
    <3>5. \A h \in 1..Len(s.flows) : h # f =>
             (Waits(s, h) => Waits(n, h)) /\ n.flows[h].running = s.flows[h].running
      BY <3>1 DEF Waits
    <3>6. Len(n.plan) = Len(n.flows)
      BY <1>0, <3>1 DEF AliveInv
    <3>7. ASSUME NEW h \in 1..Len(s.flows)
          PROVE  /\ \A t \in n.flows[h].task_ids : t \in 1..Len(n.tasks) /\ n.tasks[t] = h
                 /\ n.flows[h].outcome = "none" =>
                       /\ Waits(n, h) \/ HasTask(n, messages, task, h)
                       /\ n.flows[h].running => HasTask(n, messages, task, h)
      <4>1. /\ \A t \in s.flows[h].task_ids : t \in 1..Len(s.tasks) /\ s.tasks[t] = h
            /\ s.flows[h].outcome = "none" =>
                  /\ Waits(s, h) \/ HasTask(s, messages, task, h)
                  /\ s.flows[h].running => HasTask(s, messages, task, h)
        BY <1>0 DEF AliveInv
      <4>2. n.flows[h].task_ids = s.flows[h].task_ids /\ n.flows[h].outcome = s.flows[h].outcome
        BY <3>2
      <4>3. n.tasks = s.tasks
        BY <3>1
      <4>4. CASE h = f
        BY <3>4, <4>1, <4>2, <4>3, <4>4
      <4>5. CASE h # f
        BY <3>3, <3>5, <4>1, <4>2, <4>3, <4>5
      <4>6. QED  BY <4>4, <4>5
    <3>8. QED  BY <3>1, <3>6, <3>7 DEF AliveInv
  <2>10. ServiceInv(n, messages, task, gone, {})
    <3>1. AwakeInv(n, {})
      BY <1>0, <2>5, SameAwake DEF Touches
    <3>2. QED  BY <2>6, <2>9, <3>1 DEF ServiceInv
  <2>11. ServiceInv(n, Tail(messages), task, gone, {})
    BY <1>1, <2>7, <2>8, <2>10, ConsumePreserves
  <2>12. QED  BY <2>11 DEF ServiceInv, CoreInv
<1>8. QED  BY <1>6, <1>7

\* Rounded times are integers.
LEMMA RoundTimeType ==
  ASSUME NEW t \in Int
  PROVE  round_time(t) \in Int
<1>1. Step \in Nat \ {0}
  BY FlowConstants
<1>2. Step \div 2 \in Int
  BY <1>1
<1>3. (t + Step \div 2) \div Step \in Int
  BY <1>1, <1>2
<1>4. QED  BY <1>1, <1>3 DEF round_time

\* A task that reports its end was not Unstarted, and every other task that is
\* not over is.
LEMMA OthersAreUnstarted ==
  ASSUME NEW s, NEW messages \in Seq(Messages), messages # <<>>, NEW task,
         TaskInv(s, messages, task), ProtocolInv(messages, task), task \in Nat,
         Head(messages).outcome # "running", NEW t0, t0 = Head(messages).task
  PROVE  /\ ~Unstarted(s, messages, t0)
         /\ \A t \in 1..Len(s.tasks) :
               t # t0 /\ (InQueue(s, t) \/ task = t \/ Reported(messages, t)) => Unstarted(s, messages, t)
<1>1. Len(messages) \in Nat /\ 1 \in 1..Len(messages) /\ Head(messages) = messages[1]
  BY TailFacts
<1>2. ~Unstarted(s, messages, t0)
  <2>1. ~InQueue(s, t0)
    BY <1>1 DEF TaskInv
  <2>2. ASSUME NEW i \in 1..Len(messages), messages[i].task = t0, messages[i].outcome = "running"
        PROVE  FALSE
    <3>1. i # 1
      BY <1>1, <2>2
    <3>2. 1 < i
      BY <1>1, <3>1
    <3>3. messages[1].outcome = "running"
      BY <1>1, <2>2, <3>2 DEF ProtocolInv
    <3>4. QED  BY <1>1, <3>3
  <2>3. QED  BY <2>1, <2>2 DEF Unstarted
<1>3. ASSUME NEW t \in 1..Len(s.tasks), t # t0, InQueue(s, t) \/ task = t \/ Reported(messages, t)
      PROVE  Unstarted(s, messages, t)
  <2>1. CASE InQueue(s, t)
    BY <2>1 DEF Unstarted
  <2>2. CASE task = t
    <3>1. t # None
      BY DEF None
    <3>2. /\ Len(messages) \in 1..Len(messages)
          /\ messages[Len(messages)].task = t /\ messages[Len(messages)].outcome = "running"
      BY <1>1, <2>2, <3>1 DEF ProtocolInv
    <3>3. QED  BY <3>2 DEF Unstarted
  <2>3. CASE Reported(messages, t)
    <3>1. PICK i \in 1..Len(messages) : messages[i].task = t
      BY <2>3 DEF Reported
    <3>2. CASE messages[i].outcome = "running"
      BY <3>1, <3>2 DEF Unstarted
    <3>3. CASE messages[i].outcome # "running"
      <4>1. i # 1
        BY <1>1, <1>3, <3>1
      <4>2. i > 1 /\ i - 1 \in 1..Len(messages)
        BY <1>1, <4>1
      <4>3. messages[i - 1].task = t /\ messages[i - 1].outcome = "running"
        BY <3>1, <3>3, <4>2 DEF ProtocolInv
      <4>4. QED  BY <4>2, <4>3 DEF Unstarted
    <3>4. QED  BY <3>2, <3>3
  <2>4. QED  BY <1>3, <2>1, <2>2, <2>3
<1>4. QED  BY <1>2, <1>3

\* Flow f of s has ended in n, and nothing else is different.
Ends(s, n, f, outcome) ==
  /\ Len(n.flows) = Len(s.flows)
  /\ \A g \in 1..Len(s.flows) : /\ n.flows[g].key = s.flows[g].key
                                /\ n.flows[g].task_ids = s.flows[g].task_ids
                                /\ g # f => n.flows[g].outcome = s.flows[g].outcome
  /\ n.flows[f].outcome = IF s.flows[f].outcome = "none" THEN outcome ELSE s.flows[f].outcome
  /\ n.flows[f].outcome # "none"
  /\ n.pending = s.pending /\ n.active_configs = s.active_configs
  /\ n.tasks = s.tasks /\ n.task_queue = s.task_queue /\ n.by_task = s.by_task
  /\ Spares(s, n, f)

\* The service forgets task t, and the pending flow of k.
Forgets(s, n, t, k) ==
  /\ n \in ServiceStates /\ n.flows = s.flows /\ n.active_configs = s.active_configs
  /\ n.pending = [s.pending EXCEPT ![k] = None]
  /\ n.tasks = s.tasks /\ n.task_queue = s.task_queue
  /\ n.plan = s.plan /\ n.waiting = s.waiting
  /\ Len(n.by_task) = Len(s.by_task)
  /\ \A u \in 1..Len(s.by_task) : n.by_task[u] = IF u = t THEN None ELSE s.by_task[u]

\* The parts of a state whose flow f was told how a task ended.
LEMMA FinishedFacts ==
  ASSUME NEW s \in ServiceStates, NEW f \in 1..Len(s.flows),
         NEW outcome \in {"Changed", "UpToDate", "Empty", "Failed"}, NEW t \in Int,
         NEW n, n = on_task_finished(s, f, outcome, t)
  PROVE  n \in ServiceStates /\ (Ok(n) => Ends(s, n, f, outcome))
<1> DEFINE k == s.flows[f].key
<1>1. CASE ~s.flows[f].running \/ s.flows[f].start_condition # "none"
  <2>1. "flow rejects task finished" \in Errors
    BY DEF Errors
  <2>2. n = Fail(s, "flow rejects task finished")
    BY <1>1 DEF on_task_finished
  <2>3. Touches(s, n) /\ n.error = "flow rejects task finished"
    BY <2>1, <2>2, FailTouches
  <2>4. QED  BY <2>3 DEF Ok, Touches
<1>2. CASE ~(~s.flows[f].running \/ s.flows[f].start_condition # "none")
  <2>1. PICK g0 \in AllFlows : g0 = s.flows[f]
    BY StateFields
  <2>2. k \in Keys
    BY <2>1, FlowFields
  <2>3. PICK o \in {"Changed", "UpToDate", "Empty", "Failed", "Aborted"} :
            o = IF g0.outcome = "none" THEN outcome ELSE g0.outcome
    BY DEF AllFlows
  <2> DEFINE g == [g0 EXCEPT !.outcome = o]
  <2>4. g \in AllFlows
    BY DEF AllFlows
  <2>5. g.key = g0.key /\ g.task_ids = g0.task_ids /\ g.outcome = o
        /\ g.running = g0.running /\ g.start_condition = g0.start_condition
    BY DEF AllFlows
  <2>6. PICK a \in [Keys -> Int] : a = [s.last_attempt EXCEPT ![k] = t]
    BY <2>2, StateFields
  <2>7. PICK b \in [Keys -> Int] :
            b = [s.last_success EXCEPT ![k] = IF outcome = "Failed" THEN s.last_success[k] ELSE t]
    BY <2>2, StateFields
  <2> DEFINE m == [s EXCEPT !.flows = [s.flows EXCEPT ![f] = g]]
  <2>8. n = [m EXCEPT !.last_attempt = a, !.last_success = b]
    BY <1>2, <2>1, <2>3, <2>6, <2>7 DEF on_task_finished, ServiceStates
  <2> HIDE DEF g
  <2>9. /\ m \in ServiceStates
        /\ Len(m.flows) = Len(s.flows)
        /\ \A h \in 1..Len(s.flows) : m.flows[h] = IF h = f THEN g ELSE s.flows[h]
        /\ m.pending = s.pending /\ m.active_configs = s.active_configs
        /\ m.tasks = s.tasks /\ m.task_queue = s.task_queue /\ m.by_task = s.by_task
        /\ m.plan = s.plan /\ m.waiting = s.waiting
    BY <2>4, FlowReplaced
  <2> HIDE DEF m
  <2>10. /\ n \in ServiceStates /\ n.flows = m.flows /\ n.pending = m.pending
         /\ n.active_configs = m.active_configs
         /\ n.tasks = m.tasks /\ n.task_queue = m.task_queue /\ n.by_task = m.by_task
         /\ n.plan = m.plan /\ n.waiting = m.waiting
    BY <2>8, <2>9 DEF ServiceStates
  <2>10a. Spares(s, n, f)
    BY <2>1, <2>5, <2>9, <2>10 DEF Spares, Waits
  <2>11. Ends(s, n, f, outcome)
    BY <2>1, <2>3, <2>5, <2>9, <2>10, <2>10a DEF Ends
  <2>12. QED  BY <2>10, <2>11
<1>3. QED  BY <1>1, <1>2

\* The parts of a state from which a task and a pending flow were removed.
LEMMA ForgetFacts ==
  ASSUME NEW s \in ServiceStates, NEW t \in 1..Len(s.by_task), NEW k \in Keys,
         NEW n, n = drop_pending_flow([s EXCEPT !.by_task[t] = None], k)
  PROVE  Forgets(s, n, t, k)
<1>1. PICK by \in Seq(Nat) :
          /\ by = [s.by_task EXCEPT ![t] = None] /\ Len(by) = Len(s.by_task)
          /\ \A u \in 1..Len(s.by_task) : by[u] = IF u = t THEN None ELSE s.by_task[u]
  <2>1. s.by_task \in Seq(Nat) /\ None \in Nat
    BY StateFields DEF None
  <2>2. /\ [s.by_task EXCEPT ![t] = None] \in Seq(Nat)
        /\ Len([s.by_task EXCEPT ![t] = None]) = Len(s.by_task)
        /\ \A u \in 1..Len(s.by_task) :
              [s.by_task EXCEPT ![t] = None][u] = IF u = t THEN None ELSE s.by_task[u]
    BY <2>1, ReplaceFacts
  <2>3. QED  BY <2>2
<1>2. PICK p \in [Keys -> Nat] : p = [s.pending EXCEPT ![k] = None]
  BY StateFields DEF None
<1>3. PICK e : e = [s EXCEPT !.by_task = by]
  OBVIOUS
<1>4. /\ e \in ServiceStates /\ e.flows = s.flows /\ e.pending = s.pending
      /\ e.active_configs = s.active_configs
      /\ e.tasks = s.tasks /\ e.task_queue = s.task_queue /\ e.by_task = by
      /\ e.plan = s.plan /\ e.waiting = s.waiting
  BY <1>3 DEF ServiceStates
<1>5. n = [e EXCEPT !.pending = p]
  BY <1>1, <1>2, <1>3, <1>4 DEF drop_pending_flow
<1>6. /\ n \in ServiceStates /\ n.flows = e.flows /\ n.pending = p
      /\ n.active_configs = e.active_configs
      /\ n.tasks = e.tasks /\ n.task_queue = e.task_queue /\ n.by_task = by
      /\ n.plan = e.plan /\ n.waiting = e.waiting
  BY <1>4, <1>5 DEF ServiceStates
<1>7. QED  BY <1>1, <1>2, <1>4, <1>6 DEF Forgets

\* A flow that ends and is forgotten, with its task, is retired, if the other
\* tasks that are tracked have still to start.
LEMMA EndRetires ==
  ASSUME NEW s \in ServiceStates, NEW d, NEW n, NEW f, NEW t0, NEW k \in Keys,
         NEW messages, NEW gone, NEW outcome,
         Ends(s, d, f, outcome), Forgets(d, n, t0, k), s.pending[k] = f \/ s.pending[k] = None,
         Distinct(s.task_queue), Len(s.by_task) = Len(s.tasks), s.tasks[t0] = f,
         \A t \in 1..Len(s.tasks) : t # t0 /\ s.by_task[t] # None => Unstarted(s, messages, t)
  PROVE  Retires(s, n, f, messages, gone)
<1>1. \A t : InQueue(n, t) <=> InQueue(s, t)
  BY DEF Ends, Forgets, InQueue
<1>2. \A t \in 1..Len(s.tasks) : n.by_task[t] # None =>
         t # t0 /\ n.by_task[t] = s.by_task[t]
  BY DEF Ends, Forgets
<1>3. \A t : Unstarted(s, messages, t) => Unstarted(n, messages, t)
  BY <1>1 DEF Unstarted
<1>4. \A j \in Keys : n.pending[j] = s.pending[j] \/ (n.pending[j] = None /\ s.pending[j] = f)
  <2>1. s.pending \in [Keys -> Nat] /\ n.pending = [s.pending EXCEPT ![k] = None]
    BY StateFields DEF Ends, Forgets
  <2>2. QED  BY <2>1
<1>5. /\ n \in ServiceStates
      /\ Len(n.flows) = Len(s.flows)
      /\ \A g \in 1..Len(s.flows) : /\ n.flows[g].key = s.flows[g].key
                                    /\ n.flows[g].task_ids = s.flows[g].task_ids
                                    /\ g # f => n.flows[g].outcome = s.flows[g].outcome
      /\ n.flows[f].outcome # "none"
      /\ s.flows[f].outcome # "none" => n.flows[f].outcome = s.flows[f].outcome
  BY DEF Ends, Forgets
<1>6. /\ n.active_configs \subseteq s.active_configs
      /\ n.tasks = s.tasks /\ Len(n.by_task) = Len(s.by_task)
      /\ Distinct(n.task_queue)
  BY DEF Ends, Forgets
<1>7. \A t \in 1..Len(s.tasks) : n.by_task[t] # None =>
        /\ n.by_task[t] = s.by_task[t]
        /\ InQueue(s, t) => InQueue(n, t)
        /\ n.by_task[t] = f => Unstarted(n, messages, t) \/ Gone(n, gone, s.flows[f].key)
  BY <1>1, <1>2, <1>3
<1>8. \A t \in 1..Len(s.tasks) : s.tasks[t] # f => n.by_task[t] = s.by_task[t]
  BY DEF Ends, Forgets
<1>9. Spares(s, n, f)
  BY DEF Ends, Forgets, Spares, Waits
<1>10. QED  BY <1>1, <1>4, <1>5, <1>6, <1>7, <1>8, <1>9 DEF Retires

\* The end of a task: its flow is over and its key may be triggered again.
LEMMA EndSound ==
  ASSUME NEW s, NEW messages \in Seq(Messages), messages # <<>>, NEW task \in Nat, NEW gone,
         ServiceInv(s, messages, task, gone, {}), ProtocolInv(messages, task),
         Head(messages).outcome # "running", NEW t0, t0 = Head(messages).task,
         NEW f \in 1..Len(s.flows), f = s.by_task[t0], f # None, NEW k \in Keys, k = s.flows[f].key,
         NEW d, NEW n, Ends(s, d, f, Head(messages).outcome), Forgets(d, n, t0, k),
         NEW ended, Head(messages).outcome # "Failed" => k \in ended
  PROVE  ServiceInv(n, Tail(messages), task, gone, ended)
<1>0. /\ s \in ServiceStates /\ PendingInv(s)
      /\ TaskInv(s, messages, task) /\ TrackedInv(s, messages, task, gone)
      /\ AliveInv(s, messages, task, {})
  BY DEF ServiceInv, CoreInv
<1>1. t0 \in 1..Len(s.tasks)
  BY <1>0, TailFacts DEF TaskInv
<1>2. Len(s.by_task) = Len(s.tasks) /\ Distinct(s.task_queue)
  BY <1>0 DEF TaskInv, Distinct
<1>3. (s.flows[f].outcome = "none" /\ s.pending[k] = f) \/ Gone(s, gone, k)
  <2>1. ~Unstarted(s, messages, t0)
    BY <1>0, OthersAreUnstarted
  <2>2. Followed(s, messages, task, gone, t0, f)
    BY <1>0, <1>1 DEF TrackedInv
  <2>3. s.flows[f].outcome = "none" \/ Gone(s, gone, k)
    BY <2>1, <2>2 DEF Followed
  <2>4. QED  BY <1>0, <2>3 DEF PendingInv
<1>4. ASSUME NEW t \in 1..Len(s.tasks), t # t0, s.by_task[t] # None
      PROVE  Unstarted(s, messages, t)
  <2>1. InQueue(s, t) \/ task = t \/ Reported(messages, t)
    BY <1>0, <1>4 DEF TrackedInv, Followed
  <2>2. QED  BY <1>0, <1>4, <2>1, OthersAreUnstarted
<1>5. \A t \in 1..Len(s.tasks) : t # t0 /\ s.by_task[t] # None => Unstarted(s, messages, t)
  BY <1>4
<1>5a. s.tasks[t0] = f
  <2>1. t0 \in s.flows[f].task_ids
    BY <1>0, <1>1 DEF TrackedInv, Followed
  <2>2. QED  BY <1>0, <2>1 DEF AliveInv
<1>6. Retires(s, n, f, messages, gone)
  <2>1. s.pending[k] = f \/ s.pending[k] = None
    BY <1>3 DEF Gone
  <2>2. PICK outcome : outcome = Head(messages).outcome
    OBVIOUS
  <2>3. QED  BY <1>0, <1>2, <1>5, <1>5a, <2>1, <2>2, EndRetires
<1>6a. Excused(s, n, f, ended)
  <2>1. n.flows = d.flows /\ n.active_configs = s.active_configs
    BY DEF Ends, Forgets
  <2>2. d.flows[f].outcome = IF s.flows[f].outcome = "none" THEN Head(messages).outcome
                             ELSE s.flows[f].outcome
    BY DEF Ends
  <2>3. QED  BY <1>3, <2>1, <2>2 DEF Excused, Gone
<1>7. ServiceInv(n, messages, task, gone, ended)
  BY <1>6, <1>6a, RetiresPreserve
<1>8. n.by_task[t0] = None
  BY <1>1, <1>2 DEF Ends, Forgets
<1>9. QED  BY <1>7, <1>8, ConsumePreserves

\* Parts of the message that a task has ended.
LEMMA EndMessage ==
  ASSUME NEW s, NEW messages \in Seq(Messages), messages # <<>>, NEW task, NEW gone, NEW ended,
         ServiceInv(s, messages, task, gone, ended),
         NEW m, m = Head(messages), m.outcome # "running", NEW f, f = s.by_task[m.task], f # None
  PROVE  /\ m.at \in Int /\ m.outcome \in {"Changed", "UpToDate", "Empty", "Failed"}
         /\ s \in ServiceStates /\ m.task \in 1..Len(s.by_task)
         /\ f \in 1..Len(s.flows) /\ s.flows[f].key \in Keys
<1>0. s \in ServiceStates /\ TaskInv(s, messages, task) /\ TrackedInv(s, messages, task, gone)
  BY DEF ServiceInv, CoreInv
<1>1. m \in Messages /\ m = messages[1] /\ 1 \in 1..Len(messages)
  BY TailFacts
<1>2. m.at \in Int /\ m.outcome \in {"Changed", "UpToDate", "Empty", "Failed"}
  BY <1>1 DEF Messages
<1>3. m.task \in 1..Len(s.tasks) /\ Len(s.by_task) = Len(s.tasks)
  BY <1>0, <1>1 DEF TaskInv
<1>4. f \in 1..Len(s.flows)
  BY <1>0, <1>3 DEF TrackedInv, Followed
<1>5. s.flows[f].key \in Keys
  BY <1>0, <1>4, StateFields, FlowFields
<1>6. QED  BY <1>0, <1>2, <1>3, <1>4, <1>5

\* The message that a task has ended.
LEMMA FinishedSound ==
  ASSUME NEW s, NEW messages \in Seq(Messages), messages # <<>>, NEW task \in Nat,
         ServiceInv(s, messages, task, deleted, {}), ProtocolInv(messages, task),
         NEW m, m = Head(messages), m.outcome # "running", s.by_task[m.task] # None,
         NEW enough, NEW n, n = OnTaskFinished(s, m, enough)
  PROVE  n \in ServiceStates /\ (Ok(n) => ServiceInv(n, Tail(messages), task, deleted, {}))
<1>1. PICK f : f = s.by_task[m.task]
  OBVIOUS
<1>2. PICK done : done = on_task_finished(s, f, m.outcome, m.at)
  OBVIOUS
<1>3. PICK k : k = s.flows[f].key
  OBVIOUS
<1>4. PICK next : next = drop_pending_flow([done EXCEPT !.by_task[m.task] = None], k)
  OBVIOUS
<1> DEFINE result   == done.flows[f].outcome
           followed == IF result \in {"Changed", "UpToDate"}
                       THEN TriggerDependents(next, k, result, round_time(m.at), enough)
                       ELSE next
           cycle    == NextCycle(followed, k, round_time(m.at))
<1>5. ~Ok(done) => n = done
  BY <1>1, <1>2, <1>3, <1>4 DEF OnTaskFinished
<1>5a. Ok(done) => n = IF m.outcome = "Failed" THEN followed ELSE cycle
  BY <1>1, <1>2, <1>3, <1>4 DEF OnTaskFinished
<1>6. /\ m.at \in Int /\ m.outcome \in {"Changed", "UpToDate", "Empty", "Failed"}
      /\ s \in ServiceStates /\ m.task \in 1..Len(s.by_task)
      /\ f \in 1..Len(s.flows) /\ k \in Keys
  BY <1>1, <1>3, EndMessage
<1>7. done \in ServiceStates /\ (Ok(done) => Ends(s, done, f, m.outcome))
  BY <1>2, <1>6, FinishedFacts
<1>8. CASE ~Ok(done)
  BY <1>5, <1>7, <1>8
<1>9. CASE Ok(done)
  <2>1. m.task \in 1..Len(done.by_task)
    BY <1>6, <1>7, <1>9 DEF Ends
  <2>2. Forgets(done, next, m.task, k)
    BY <1>4, <1>6, <1>7, <2>1, ForgetFacts
  <2>2a. PICK ended : ended = IF m.outcome = "Failed" THEN {} ELSE {k}
    OBVIOUS
  <2>3. ServiceInv(next, Tail(messages), task, deleted, ended)
    BY <1>1, <1>3, <1>6, <1>7, <1>9, <2>2, <2>2a, EndSound
  <2>4. round_time(m.at) \in Int
    BY <1>6, RoundTimeType
  <2>5. ServiceInv(followed, Tail(messages), task, deleted, ended)
    <3> HIDE DEF result
    <3> QED  BY <1>6, <2>3, <2>4, DependentsPreserve
  <2> HIDE DEF followed
  <2>6. CASE m.outcome = "Failed"
    <3>1. ServiceInv(n, Tail(messages), task, deleted, {})
      BY <1>5a, <1>9, <2>2a, <2>5, <2>6
    <3>2. QED  BY <3>1 DEF ServiceInv, CoreInv
  <2>7. CASE m.outcome # "Failed"
    <3>1. ServiceInv(followed, Tail(messages), task, deleted, {k})
      BY <2>2a, <2>5, <2>7
    <3>2. n = cycle
      BY <1>5a, <1>9, <2>7
    <3>3. QED  BY <1>6, <2>4, <3>1, <3>2, NextCyclePreserves
  <2>8. QED  BY <2>6, <2>7
<1>10. QED  BY <1>8, <1>9

-----------------------------------------------------------------------------
(* The actions *)

\* Resetting the error changes nothing the invariant is about.
LEMMA ClearedSound ==
  ASSUME NEW s, NEW messages, NEW task, NEW gone, NEW ended,
         ServiceInv(s, messages, task, gone, ended), NEW n, n = [s EXCEPT !.error = "none"]
  PROVE  ServiceInv(n, messages, task, gone, ended) /\ n.error = "none"
<1>1. s \in ServiceStates /\ "none" \in Errors /\ n = Fail(s, "none")
  BY DEF ServiceInv, CoreInv, Errors, Fail
<1>2. Keeps(s, n) /\ n.error = "none"
  BY <1>1, FailTouches
<1>3. QED  BY <1>2, KeepsPreserve

\* The service after a step of the main loop or of a consumer, unless the step
\* ended the server.
LEMMA LoopStepSound ==
  ASSUME NEW s \in ServiceStates, EndLoopStep(s), NEW messages, NEW task, NEW gone,
         Ok(s) => ServiceInv(s, messages, task, gone, {}), server' \in {"starting", "up"}
  PROVE  server' = "up" /\ ServiceInv(svc', messages, task, gone, {}) /\ svc'.error = "none"
<1>1. s.error \in Errors /\ (server' = IF Ok(s) THEN "up" ELSE s.error)
      /\ svc' = [s EXCEPT !.error = "none"]
  BY StateFields DEF EndLoopStep
<1>2. Ok(s) /\ server' = "up"
  BY <1>1 DEF Errors, Ok
<1>3. QED  BY <1>1, <1>2, ClearedSound

\* What FlowInv says of a server that has not ended.
Running ==
  /\ now \in Int
  /\ progress \in Seq(Messages) /\ executing \in Nat
  /\ updates \in Seq([key : Keys, paused : BOOLEAN, at : Int])
  /\ deletions \in Seq(deleted) /\ deleted \subseteq Keys
  /\ "delete" \in Requests => \A i \in 1..Len(updates) : updates[i].paused
  /\ "delete" \notin Requests => deleted = {}

\* Activating the enabled configurations at the start preserves FlowInv.
LEMMA run_Sound ==
  ASSUME FlowInv, run
  PROVE  FlowInv'
<1> SUFFICES ASSUME server' \in {"starting", "up"}
             PROVE  FlowInv'
  BY DEF FlowInv
<1>0. /\ Running /\ deleted = {} /\ ServiceInv(svc, progress, executing, deleted, {})
      /\ ProtocolInv(progress, executing)
  BY DEF FlowInv, run, Running
<1> DEFINE enabled   == {k \in Keys : configs[k] = "active"}
           scheduled == {k \in enabled : HasSchedule(k)}
           keys == SetToSeq(scheduled) \o SetToSeq(enabled \ scheduled)
           n    == ActivateAll(svc, keys, round_time(now))
<1>1. EndLoopStep(n)
  BY DEF run
<1>2. keys \in Seq(Keys \ deleted)
  <2>1. scheduled \in SUBSET Keys /\ (enabled \ scheduled) \in SUBSET Keys
    OBVIOUS
  <2>2. PICK p \in Seq(scheduled) : p = SetToSeq(scheduled)
    BY <2>1, SetToSeqType
  <2>3. PICK q \in Seq(enabled \ scheduled) : q = SetToSeq(enabled \ scheduled)
    BY <2>1, SetToSeqType
  <2>4. p \in Seq(Keys) /\ q \in Seq(Keys)
    BY <2>1
  <2>5. p \o q \in Seq(Keys)
    BY <2>4
  <2>6. QED  BY <1>0, <2>2, <2>3, <2>5
<1>3. round_time(now) \in Int
  BY <1>0, RoundTimeType DEF Running
<1> HIDE DEF keys
<1>4. ServiceInv(n, progress, executing, deleted, {})
  BY <1>0, <1>2, <1>3, ActivateAllPreserves
<1>5. n \in ServiceStates
  BY <1>4 DEF ServiceInv, CoreInv
<1> HIDE DEF n
<1>6. server' = "up" /\ ServiceInv(svc', progress, executing, deleted, {}) /\ svc'.error = "none"
  BY <1>1, <1>4, <1>5, LoopStepSound
<1>7. UNCHANGED <<now, deleted, executing, progress, updates, deletions>>
  BY DEF run, queues
<1>8. QED  BY <1>0, <1>6, <1>7 DEF FlowInv, Running

\* Handing the flows of a timeslot to the task system preserves FlowInv.
LEMMA run_current_timeslot_Sound ==
  ASSUME FlowInv, run_current_timeslot
  PROVE  FlowInv'
<1> SUFFICES ASSUME server' \in {"starting", "up"}
             PROVE  FlowInv'
  BY DEF FlowInv
<1>0. /\ Running /\ ServiceInv(svc, progress, executing, deleted, {})
      /\ ProtocolInv(progress, executing)
  BY DEF FlowInv, run_current_timeslot, Running
<1>1. PICK due : EndLoopStep(ScheduleTasks(svc, due))
  BY DEF run_current_timeslot
<1>2. PICK n : n = ScheduleTasks(svc, due)
  OBVIOUS
<1>3. ServiceInv(n, progress, executing, deleted, {})
  BY <1>0, <1>2, ScheduleTasksPreserves
<1>4. n \in ServiceStates /\ EndLoopStep(n)
  BY <1>1, <1>2, <1>3 DEF ServiceInv, CoreInv
<1>5. server' = "up" /\ ServiceInv(svc', progress, executing, deleted, {}) /\ svc'.error = "none"
  BY <1>3, <1>4, LoopStepSound
<1>6. UNCHANGED <<now, deleted, executing, progress, updates, deletions>>
  BY DEF run_current_timeslot, queues
<1>7. QED  BY <1>0, <1>5, <1>6 DEF FlowInv, Running

\* Handling a message about a task preserves FlowInv, or ends the server.
LEMMA ConsumeTaskProgress_Sound ==
  ASSUME FlowInv, ConsumeTaskProgress
  PROVE  FlowInv'
<1> SUFFICES ASSUME server' \in {"starting", "up"}
             PROVE  FlowInv'
  BY DEF FlowInv
<1>0. /\ Running /\ ServiceInv(svc, progress, executing, deleted, {})
      /\ ProtocolInv(progress, executing)
  BY DEF FlowInv, ConsumeTaskProgress, Running
<1>1. progress \in Seq(Messages) /\ progress # <<>> /\ executing \in Nat
  BY <1>0 DEF Running, ConsumeTaskProgress
<1>2. PICK m : m = Head(progress)
  OBVIOUS
<1>3. PICK f : f = svc.by_task[m.task]
  OBVIOUS
<1>4. ASSUME NEW n \in ServiceStates, EndLoopStep(n),
             Ok(n) => ServiceInv(n, Tail(progress), executing, deleted, {})
      PROVE  server' = "up" /\ ServiceInv(svc', Tail(progress), executing, deleted, {})
             /\ svc'.error = "none"
  BY <1>4, LoopStepSound
<1>5. server' = "up" /\ ServiceInv(svc', Tail(progress), executing, deleted, {}) /\ svc'.error = "none"
  <2>1. CASE f = None /\ EndLoopStep(svc)
    <3>1. ServiceInv(svc, Tail(progress), executing, deleted, {})
      BY <1>0, <1>1, <1>2, <1>3, <2>1, ConsumePreserves
    <3>2. QED  BY <1>4, <2>1, <3>1 DEF ServiceInv, CoreInv
  <2>2. CASE f # None /\ m.outcome = "running" /\ EndLoopStep(on_task_running(svc, f))
    <3>1. PICK n : n = on_task_running(svc, f)
      OBVIOUS
    <3>2. n \in ServiceStates /\ (Ok(n) => ServiceInv(n, Tail(progress), executing, deleted, {}))
      BY <1>0, <1>1, <1>2, <1>3, <2>2, <3>1, RunningSound
    <3>3. QED  BY <1>4, <2>2, <3>1, <3>2
  <2>3. ASSUME f # None, m.outcome # "running", NEW enough, EndLoopStep(OnTaskFinished(svc, m, enough))
        PROVE  server' = "up" /\ ServiceInv(svc', Tail(progress), executing, deleted, {})
               /\ svc'.error = "none"
    <3>1. PICK n : n = OnTaskFinished(svc, m, enough)
      OBVIOUS
    <3>2. n \in ServiceStates /\ (Ok(n) => ServiceInv(n, Tail(progress), executing, deleted, {}))
      BY <1>0, <1>1, <1>2, <1>3, <2>3, <3>1, FinishedSound
    <3>3. QED  BY <1>4, <2>3, <3>1, <3>2
  <2>4. QED  BY <1>2, <1>3, <2>1, <2>2, <2>3 DEF ConsumeTaskProgress
<1>6. progress' = Tail(progress) /\ UNCHANGED <<now, deleted, executing, updates, deletions>>
  BY DEF ConsumeTaskProgress
<1>7. Tail(progress) \in Seq(Messages) /\ ProtocolInv(Tail(progress), executing)
  BY <1>0, <1>1, TailFacts, ProtocolOfTail
<1>8. QED  BY <1>0, <1>5, <1>6, <1>7 DEF FlowInv, Running

\* Handling a changed configuration preserves FlowInv, or ends the server.
LEMMA ConsumeConfigurationUpdated_Sound ==
  ASSUME FlowInv, ConsumeConfigurationUpdated
  PROVE  FlowInv'
<1> SUFFICES ASSUME server' \in {"starting", "up"}
             PROVE  FlowInv'
  BY DEF FlowInv
<1>0. /\ Running /\ ServiceInv(svc, progress, executing, deleted, {})
      /\ ProtocolInv(progress, executing)
  BY DEF FlowInv, ConsumeConfigurationUpdated, Running
<1> DEFINE Updates == [key : Keys, paused : BOOLEAN, at : Int]
<1>1. /\ updates \in Seq(Updates) /\ updates # <<>> /\ updates' = Tail(updates)
      /\ UNCHANGED <<now, deleted, executing, progress, deletions>>
  BY <1>0 DEF ConsumeConfigurationUpdated, Running
<1>2. PICK m \in Updates : m = Head(updates)
  <2> HIDE DEF Updates
  <2> QED  BY <1>1
<1>3. m.key \in Keys /\ round_time(m.at) \in Int
  BY <1>2, RoundTimeType
<1>4. /\ Tail(updates) \in Seq(Updates)
      /\ "delete" \in Requests => m.paused /\ \A i \in 1..Len(Tail(updates)) : Tail(updates)[i].paused
  <2>1. "delete" \in Requests => \A i \in 1..Len(updates) : updates[i].paused
    BY <1>0 DEF Running
  <2> HIDE DEF Updates
  <2>2. /\ Tail(updates) \in Seq(Updates) /\ Len(updates) \in Nat /\ 1 \in 1..Len(updates)
        /\ m = updates[1] /\ Len(Tail(updates)) = Len(updates) - 1
        /\ \A i \in 1..(Len(updates) - 1) : Tail(updates)[i] = updates[i + 1]
    BY <1>1, <1>2
  <2>3. QED  BY <2>1, <2>2
<1>5. PICK n : n = IF m.paused THEN PauseKey(svc, m.key) ELSE Activate(svc, m.key, round_time(m.at))
  OBVIOUS
<1>6. EndLoopStep(n)
  BY <1>2, <1>5 DEF ConsumeConfigurationUpdated
<1>7. n \in ServiceStates /\ (Ok(n) => ServiceInv(n, progress, executing, deleted, {}))
  <2>1. CASE m.paused
    BY <1>0, <1>3, <1>5, <2>1, PauseSound
  <2>2. CASE ~m.paused
    <3>1. m.key \notin deleted
      BY <1>0, <1>4, <2>2 DEF Running
    <3>2. ServiceInv(n, progress, executing, deleted, {})
      BY <1>0, <1>3, <1>5, <2>2, <3>1, ActivatePreserves
    <3>3. QED  BY <3>2 DEF ServiceInv, CoreInv
  <2>3. QED  BY <2>1, <2>2
<1>8. server' = "up" /\ ServiceInv(svc', progress, executing, deleted, {}) /\ svc'.error = "none"
  BY <1>6, <1>7, LoopStepSound
<1>9. QED  BY <1>0, <1>1, <1>4, <1>8 DEF FlowInv, Running

\* Handling a deletion preserves FlowInv, or ends the server.
LEMMA ConsumeDeleted_Sound ==
  ASSUME FlowInv, ConsumeDeleted
  PROVE  FlowInv'
<1> SUFFICES ASSUME server' \in {"starting", "up"}
             PROVE  FlowInv'
  BY DEF FlowInv
<1>0. /\ Running /\ ServiceInv(svc, progress, executing, deleted, {})
      /\ ProtocolInv(progress, executing)
  BY DEF FlowInv, ConsumeDeleted, Running
<1>1. /\ deletions \in Seq(deleted) /\ deletions # <<>> /\ deletions' = Tail(deletions)
      /\ UNCHANGED <<now, deleted, executing, progress, updates>>
  BY <1>0 DEF ConsumeDeleted, Running
<1>2. PICK k \in deleted : k = Head(deletions)
  BY <1>1
<1>3. Tail(deletions) \in Seq(deleted) /\ k \in Keys
  BY <1>0, <1>1 DEF Running
<1>4. PICK n : n = DeleteKey(svc, k)
  OBVIOUS
<1>5. EndLoopStep(n)
  BY <1>2, <1>4 DEF ConsumeDeleted
<1>6. n \in ServiceStates /\ (Ok(n) => ServiceInv(n, progress, executing, deleted, {}))
  BY <1>0, <1>3, <1>4, DeleteSound
<1>7. server' = "up" /\ ServiceInv(svc', progress, executing, deleted, {}) /\ svc'.error = "none"
  BY <1>5, <1>6, LoopStepSound
<1>8. QED  BY <1>0, <1>1, <1>3, <1>7 DEF FlowInv, Running

\* A task that was not reported starts.
LEMMA ProtocolOfStart ==
  ASSUME NEW messages \in Seq(Messages), ProtocolInv(messages, None),
         \A i \in 1..Len(messages) : messages[i].task # None,
         NEW m \in Messages, m.outcome = "running", ~Reported(messages, m.task)
  PROVE  ProtocolInv(Append(messages, m), m.task)
<1>1. PICK r : r = Append(messages, m)
  OBVIOUS
<1>2. PICK L \in Nat : L = Len(messages)
  BY AppendFacts
<1>3. /\ Len(r) = L + 1 /\ r[L + 1] = m
      /\ \A i \in 1..L : r[i] = messages[i]
  BY <1>1, <1>2, AppendFacts
<1>4. \A i \in 1..L :
          IF messages[i].outcome = "running"
          THEN i # L /\ messages[i + 1].task = messages[i].task /\ messages[i + 1].outcome # "running"
          ELSE i > 1 => messages[i - 1].task = messages[i].task /\ messages[i - 1].outcome = "running"
  BY <1>2 DEF ProtocolInv
<1>5. ASSUME NEW i \in 1..(L + 1)
      PROVE  IF r[i].outcome = "running"
             THEN IF i = L + 1 THEN m.task = r[i].task
                  ELSE r[i + 1].task = r[i].task /\ r[i + 1].outcome # "running"
             ELSE i > 1 => r[i - 1].task = r[i].task /\ r[i - 1].outcome = "running"
  <2>1. CASE i = L + 1
    BY <1>3, <2>1
  <2>2. CASE i \in 1..L
    <3>1. r[i] = messages[i] /\ i # L + 1
      BY <1>3, <2>2
    <3>2. i # L => r[i + 1] = messages[i + 1]
      BY <1>3, <2>2
    <3>3. i > 1 => r[i - 1] = messages[i - 1]
      BY <1>3, <2>2
    <3>4. QED  BY <1>4, <2>2, <3>1, <3>2, <3>3
  <2>3. QED  BY <2>1, <2>2
<1>6. r[L + 1].task = m.task /\ r[L + 1].outcome = "running"
  BY <1>3
<1>7. ASSUME NEW i \in 1..(L + 1), NEW j \in 1..(L + 1), i < j, r[i].task = r[j].task
      PROVE  j = i + 1 /\ r[i].outcome = "running"
  <2>1. i \in 1..L /\ r[i] = messages[i]
    BY <1>3, <1>7
  <2>2. j # L + 1
    BY <1>2, <1>3, <1>7, <2>1 DEF Reported
  <2>3. j \in 1..L /\ r[j] = messages[j]
    BY <1>3, <2>2
  <2>4. QED  BY <1>2, <1>7, <2>1, <2>3 DEF ProtocolInv
<1>8. ProtocolInv(r, m.task)
  BY <1>3, <1>5, <1>6, <1>7 DEF ProtocolInv
<1>9. QED  BY <1>1, <1>8

\* The task in execution ends.
LEMMA ProtocolOfEnd ==
  ASSUME NEW messages \in Seq(Messages), NEW task, task # None, ProtocolInv(messages, task),
         NEW m \in Messages, m.outcome # "running", m.task = task
  PROVE  ProtocolInv(Append(messages, m), None)
<1>1. PICK r : r = Append(messages, m)
  OBVIOUS
<1>2. PICK L \in Nat : L = Len(messages)
  BY AppendFacts
<1>3. /\ Len(r) = L + 1 /\ r[L + 1] = m
      /\ \A i \in 1..L : r[i] = messages[i]
      /\ messages = <<>> <=> L = 0
  BY <1>1, <1>2, AppendFacts
<1>4. \A i \in 1..L :
          IF messages[i].outcome = "running"
          THEN i # L => messages[i + 1].task = messages[i].task /\ messages[i + 1].outcome # "running"
          ELSE i > 1 => messages[i - 1].task = messages[i].task /\ messages[i - 1].outcome = "running"
  BY <1>2 DEF ProtocolInv
<1>5. L > 0 => messages[L].task = task /\ messages[L].outcome = "running"
  BY <1>2, <1>3 DEF ProtocolInv
<1>6. ASSUME NEW i \in 1..(L + 1)
      PROVE  IF r[i].outcome = "running"
             THEN IF i = L + 1 THEN None = r[i].task
                  ELSE r[i + 1].task = r[i].task /\ r[i + 1].outcome # "running"
             ELSE i > 1 => r[i - 1].task = r[i].task /\ r[i - 1].outcome = "running"
  <2>1. CASE i = L + 1
    <3>1. i > 1 => L \in 1..L /\ L > 0 /\ i - 1 = L
      BY <2>1
    <3>2. QED  BY <1>3, <1>5, <2>1, <3>1
  <2>2. CASE i \in 1..L
    <3>1. r[i] = messages[i] /\ i # L + 1
      BY <1>3, <2>2
    <3>2. i # L => r[i + 1] = messages[i + 1]
      BY <1>3, <2>2
    <3>3. i = L => r[i + 1] = m /\ messages[i].task = task
      BY <1>3, <1>5, <2>2
    <3>4. i > 1 => r[i - 1] = messages[i - 1]
      BY <1>3, <2>2
    <3>5. QED  BY <1>4, <2>2, <3>1, <3>2, <3>3, <3>4
  <2>3. QED  BY <2>1, <2>2
<1>7. ASSUME NEW i \in 1..(L + 1), NEW j \in 1..(L + 1), i < j, r[i].task = r[j].task
      PROVE  j = i + 1 /\ r[i].outcome = "running"
  <2>0. \A a, b \in 1..L : a < b /\ messages[a].task = messages[b].task =>
            b = a + 1 /\ messages[a].outcome = "running"
    BY <1>2 DEF ProtocolInv
  <2>1. i \in 1..L /\ r[i] = messages[i]
    BY <1>3, <1>7
  <2>2. CASE j \in 1..L
    BY <1>3, <1>7, <2>0, <2>1, <2>2
  <2>3. CASE j = L + 1
    <3>1. L > 0 /\ L \in 1..L
      BY <2>1
    <3>2. messages[i].task = messages[L].task /\ messages[L].outcome = "running"
      BY <1>3, <1>5, <1>7, <2>1, <2>3, <3>1
    <3>3. i < L => L = i + 1 /\ messages[i].outcome = "running"
      BY <2>0, <2>1, <3>1, <3>2
    <3>4. i = L
      BY <1>4, <2>1, <3>2, <3>3
    <3>5. QED  BY <2>1, <2>3, <3>2, <3>4
  <2>4. QED  BY <2>2, <2>3
<1>8. ProtocolInv(r, None)
  BY <1>3, <1>6, <1>7 DEF ProtocolInv
<1>9. QED  BY <1>1, <1>8

\* An appended message reports its task, and nothing else is different.
LEMMA ReportedAppend ==
  ASSUME NEW messages \in Seq(Messages), NEW m \in Messages, NEW s, NEW t
  PROVE  /\ Reported(Append(messages, m), t) <=> Reported(messages, t) \/ m.task = t
         /\ Unstarted(s, messages, t) => Unstarted(s, Append(messages, m), t)
         /\ m.outcome = "running" => Unstarted(s, Append(messages, m), m.task)
<1>1. PICK r : r = Append(messages, m)
  OBVIOUS
<1>2. PICK L \in Nat : L = Len(messages)
  BY AppendFacts
<1>3. /\ Len(r) = L + 1 /\ r[L + 1] = m
      /\ \A i \in 1..L : r[i] = messages[i]
  BY <1>1, <1>2, AppendFacts
<1>4. /\ 1..L \subseteq 1..(L + 1) /\ L + 1 \in 1..(L + 1)
      /\ \A i \in 1..(L + 1) : i \in 1..L \/ i = L + 1
  OBVIOUS
<1>5. Reported(r, t) <=> Reported(messages, t) \/ m.task = t
  BY <1>2, <1>3, <1>4 DEF Reported
<1>6. Unstarted(s, messages, t) => Unstarted(s, r, t)
  BY <1>2, <1>3, <1>4 DEF Unstarted
<1>7. m.outcome = "running" => Unstarted(s, r, m.task)
  BY <1>2, <1>3, <1>4 DEF Unstarted
<1>8. QED  BY <1>1, <1>5, <1>6, <1>7

\* An element of an appended sequence was there before, or is the new one.
LEMMA AppendCases ==
  ASSUME NEW S, NEW q \in Seq(S), NEW e \in S, NEW i \in 1..Len(Append(q, e))
  PROVE  (i \in 1..Len(q) /\ Append(q, e)[i] = q[i]) \/ Append(q, e)[i] = e
<1>1. PICK L \in Nat : L = Len(q) /\ Len(Append(q, e)) = L + 1
  BY AppendFacts
<1>2. i \in 1..L \/ i = L + 1
  BY <1>1
<1>3. QED  BY <1>1, <1>2, AppendFacts

\* The executor takes the first task of the queue.
LEMMA StartPreserves ==
  ASSUME NEW s, NEW messages \in Seq(Messages), NEW gone, ServiceInv(s, messages, None, gone, {}),
         s.task_queue # <<>>, NEW n, n = [s EXCEPT !.task_queue = Tail(s.task_queue)],
         NEW m \in Messages, m.outcome = "running", m.task = Head(s.task_queue)
  PROVE  /\ ServiceInv(n, Append(messages, m), m.task, gone, {}) /\ n.error = s.error
         /\ InQueue(s, m.task)
<1>0. /\ s \in ServiceStates /\ PendingInv(s)
      /\ TaskInv(s, messages, None) /\ TrackedInv(s, messages, None, gone)
      /\ AliveInv(s, messages, None, {}) /\ AwakeInv(s, {})
  BY DEF ServiceInv, CoreInv
<1>1. PICK q \in Seq(Nat) : q = s.task_queue
  BY <1>0, StateFields
<1>2. PICK L \in Nat : L = Len(q)
  OBVIOUS
<1>3. PICK h : h = m.task
  OBVIOUS
<1>4. PICK r \in Seq(Nat) : r = Tail(q)
  <2>1. q # <<>>
    BY <1>1
  <2>2. Tail(q) \in Seq(Nat)
    BY <2>1
  <2>3. QED  BY <2>2
<1>5. /\ 1 \in 1..L /\ h = q[1] /\ Len(r) = L - 1
      /\ \A i \in 1..(L - 1) : r[i] = q[i + 1] /\ i + 1 \in 1..L
      /\ \A i \in 1..L : i = 1 \/ (i - 1 \in 1..(L - 1) /\ (i - 1) + 1 = i)
  <2>1. q # <<>> /\ h = Head(q)
    BY <1>1, <1>3
  <2>2. L # 0 /\ h = q[1] /\ Len(r) = L - 1 /\ \A i \in 1..(L - 1) : r[i] = q[i + 1]
    BY <1>2, <1>4, <2>1
  <2>3. 1 \in 1..L /\ \A i \in 1..(L - 1) : i + 1 \in 1..L
    BY <2>2
  <2>4. \A i \in 1..L : i = 1 \/ (i - 1 \in 1..(L - 1) /\ (i - 1) + 1 = i)
    OBVIOUS
  <2>5. QED  BY <2>2, <2>3, <2>4
<1>6. /\ n \in ServiceStates /\ n.flows = s.flows /\ n.pending = s.pending
      /\ n.active_configs = s.active_configs /\ n.error = s.error
      /\ n.tasks = s.tasks /\ n.task_queue = r /\ n.by_task = s.by_task
      /\ n.plan = s.plan /\ n.waiting = s.waiting
  BY <1>0, <1>1, <1>4 DEF ServiceStates
<1>7. /\ \A i \in 1..L : q[i] \in 1..Len(s.tasks)
      /\ \A i, j \in 1..L : q[i] = q[j] => i = j
  BY <1>0, <1>1, <1>2 DEF TaskInv
<1>8. \A t : InQueue(s, t) <=> \E i \in 1..L : q[i] = t
  BY <1>1, <1>2 DEF InQueue
<1>9. \A t : InQueue(n, t) <=> \E i \in 1..(L - 1) : q[i + 1] = t
  <2>1. \A t : InQueue(n, t) <=> \E i \in 1..(L - 1) : r[i] = t
    BY <1>5, <1>6 DEF InQueue
  <2>2. QED  BY <1>5, <2>1
<1>10. /\ \A t : InQueue(s, t) <=> InQueue(n, t) \/ t = h
       /\ ~InQueue(n, h)
  <2>1. ASSUME NEW t, InQueue(n, t)
        PROVE  InQueue(s, t)
    <3>1. PICK i \in 1..(L - 1) : q[i + 1] = t
      BY <1>9, <2>1
    <3>2. i + 1 \in 1..L
      BY <1>5
    <3>3. QED  BY <1>8, <3>1, <3>2
  <2>2. ASSUME NEW t, InQueue(s, t)
        PROVE  InQueue(n, t) \/ t = h
    <3>1. PICK i \in 1..L : q[i] = t
      BY <1>8, <2>2
    <3>2. i = 1 \/ (i - 1 \in 1..(L - 1) /\ q[(i - 1) + 1] = t)
      BY <1>5, <3>1
    <3>3. QED  BY <1>5, <1>9, <3>1, <3>2
  <2>3. ~InQueue(n, h)
    <3>1. ASSUME NEW i \in 1..(L - 1), q[i + 1] = h
          PROVE  FALSE
      <4>1. i + 1 \in 1..L /\ q[i + 1] = q[1] /\ 1 \in 1..L
        BY <1>5, <3>1
      <4>2. i + 1 = 1
        BY <1>7, <4>1
      <4>3. QED  BY <4>2
    <3>2. QED  BY <1>9, <3>1
  <2>4. InQueue(s, h)
    BY <1>5, <1>8
  <2>5. QED  BY <2>1, <2>2, <2>3, <2>4
<1>11. PICK a : a = Append(messages, m)
  OBVIOUS
<1>12. PendingInv(n)
  BY <1>0, <1>6 DEF PendingInv
<1>13. TaskInv(n, a, h)
  <2>1. Len(n.by_task) = Len(n.tasks) /\ h \in 1..Len(n.tasks)
    <3>1. h \in 1..Len(s.tasks)
      BY <1>5, <1>7
    <3>2. QED  BY <1>0, <1>6, <3>1 DEF TaskInv
  <2>2. ASSUME NEW i \in 1..Len(n.task_queue)
        PROVE  n.task_queue[i] \in 1..Len(n.tasks)
    <3>1. i \in 1..(L - 1) /\ n.task_queue[i] = q[i + 1] /\ i + 1 \in 1..L
      BY <1>5, <1>6
    <3>2. QED  BY <1>6, <1>7, <3>1
  <2>3. ASSUME NEW i \in 1..Len(n.task_queue), NEW j \in 1..Len(n.task_queue),
               n.task_queue[i] = n.task_queue[j]
        PROVE  i = j
    <3>1. /\ i \in 1..(L - 1) /\ j \in 1..(L - 1) /\ r[i] = r[j]
      BY <1>5, <1>6, <2>3
    <3>2. q[i + 1] = q[j + 1] /\ i + 1 \in 1..L /\ j + 1 \in 1..L
      BY <1>5, <3>1
    <3>3. i + 1 = j + 1
      BY <1>7, <3>2
    <3>4. QED  BY <3>1, <3>3
  <2>4. ASSUME NEW i \in 1..Len(a)
        PROVE  a[i].task \in 1..Len(n.tasks) /\ ~InQueue(n, a[i].task)
    <3>1. (i \in 1..Len(messages) /\ a[i] = messages[i]) \/ a[i] = m
      BY <1>11, AppendCases
    <3>2. i \in 1..Len(messages) =>
             messages[i].task \in 1..Len(s.tasks) /\ ~InQueue(s, messages[i].task)
      BY <1>0 DEF TaskInv
    <3>3. QED  BY <1>3, <1>6, <1>10, <2>1, <3>1, <3>2
  <2>5. QED  BY <1>10, <2>1, <2>2, <2>3, <2>4 DEF TaskInv
<1>14. ASSUME NEW t \in 1..Len(n.tasks), n.by_task[t] # None
       PROVE  Followed(n, a, h, gone, t, n.by_task[t])
  <2>1. Followed(s, messages, None, gone, t, s.by_task[t])
    BY <1>0, <1>6, <1>14 DEF TrackedInv
  <2>2. InQueue(n, t) \/ h = t \/ Reported(a, t)
    <3>1. None # t
      BY DEF None
    <3>2. InQueue(s, t) \/ Reported(messages, t)
      BY <2>1, <3>1 DEF Followed
    <3>3. Reported(messages, t) => Reported(a, t)
      BY <1>11, ReportedAppend
    <3>4. QED  BY <1>10, <3>2, <3>3
  <2>3. Unstarted(s, messages, t) => Unstarted(n, a, t)
    <3>1. CASE t = h
      BY <1>3, <1>11, <3>1, ReportedAppend
    <3>2. CASE t # h
      <4>1. Unstarted(s, messages, t) => Unstarted(n, messages, t)
        BY <1>10, <3>2 DEF Unstarted
      <4>2. QED  BY <1>11, <4>1, ReportedAppend
    <3>3. QED  BY <3>1, <3>2
  <2>4. \A k : Gone(s, gone, k) => Gone(n, gone, k)
    BY <1>6 DEF Gone
  <2>5. QED  BY <1>6, <2>1, <2>2, <2>3, <2>4 DEF Followed
<1>15. TrackedInv(n, a, h, gone)
  BY <1>14 DEF TrackedInv
<1>15a. AliveInv(n, a, h, {})
  <2>1. ASSUME NEW t, t # None, Ending(s, messages, None, t)
        PROVE  Ending(n, a, h, t)
    <3>1. CASE InQueue(s, t)
      BY <1>10, <3>1 DEF Ending
    <3>2. CASE \E i \in 1..Len(messages) : messages[i].task = t /\ messages[i].outcome # "running"
      <4>1. PICK i \in 1..Len(messages) : messages[i].task = t /\ messages[i].outcome # "running"
        BY <3>2
      <4>2. i \in 1..Len(a) /\ a[i] = messages[i]
        BY <1>11, AppendFacts
      <4>3. QED  BY <4>1, <4>2 DEF Ending
    <3>3. QED  BY <2>1, <3>1, <3>2 DEF Ending
  <2>2. ASSUME NEW f \in 1..Len(s.flows), HasTask(s, messages, None, f)
        PROVE  HasTask(n, a, h, f)
    <3>1. PICK t \in s.flows[f].task_ids : s.by_task[t] = f /\ Ending(s, messages, None, t)
      BY <2>2 DEF HasTask
    <3>2. t \in 1..Len(s.tasks)
      BY <1>0 DEF AliveInv
    <3>3. t # None
      BY <3>2 DEF None
    <3>4. QED  BY <1>6, <2>1, <3>1, <3>3 DEF HasTask
  <2>3. \A f : Waits(s, f) => Waits(n, f)
    BY <1>6 DEF Waits
  <2>4. ASSUME NEW f \in 1..Len(n.flows)
        PROVE  /\ \A t \in n.flows[f].task_ids : t \in 1..Len(n.tasks) /\ n.tasks[t] = f
               /\ n.flows[f].outcome = "none" =>
                     /\ Waits(n, f) \/ HasTask(n, a, h, f)
                     /\ n.flows[f].running => HasTask(n, a, h, f)
    <3>1. f \in 1..Len(s.flows)
      BY <1>6
    <3>2. /\ \A t \in s.flows[f].task_ids : t \in 1..Len(s.tasks) /\ s.tasks[t] = f
          /\ s.flows[f].outcome = "none" =>
                /\ Waits(s, f) \/ HasTask(s, messages, None, f)
                /\ s.flows[f].running => HasTask(s, messages, None, f)
      BY <1>0, <3>1 DEF AliveInv
    <3>3. QED  BY <1>6, <2>2, <2>3, <3>1, <3>2
  <2>5. Len(n.plan) = Len(n.flows)
    BY <1>0, <1>6 DEF AliveInv
  <2>6. QED  BY <2>4, <2>5 DEF AliveInv
<1>15b. AwakeInv(n, {})
  BY <1>0, <1>6, SameAwake
<1>16. ServiceInv(n, a, h, gone, {})
  BY <1>6, <1>12, <1>13, <1>15, <1>15a, <1>15b DEF ServiceInv, CoreInv
<1>17. QED  BY <1>3, <1>6, <1>10, <1>11, <1>16

\* The executor reports the end of its task.
LEMMA EndPreserves ==
  ASSUME NEW s, NEW messages \in Seq(Messages), NEW gone, NEW task, task # None,
         ServiceInv(s, messages, task, gone, {}), NEW m \in Messages, m.task = task,
         m.outcome # "running"
  PROVE  ServiceInv(s, Append(messages, m), None, gone, {})
<1>0. /\ s \in ServiceStates /\ PendingInv(s)
      /\ TaskInv(s, messages, task) /\ TrackedInv(s, messages, task, gone)
      /\ AliveInv(s, messages, task, {}) /\ AwakeInv(s, {})
  BY DEF ServiceInv, CoreInv
<1>1. PICK a : a = Append(messages, m)
  OBVIOUS
<1>2. TaskInv(s, a, None)
  <2>1. ASSUME NEW i \in 1..Len(a)
        PROVE  a[i].task \in 1..Len(s.tasks) /\ ~InQueue(s, a[i].task)
    <3>1. (i \in 1..Len(messages) /\ a[i] = messages[i]) \/ a[i] = m
      BY <1>1, AppendCases
    <3>2. QED  BY <1>0, <3>1 DEF TaskInv
  <2>2. QED  BY <1>0, <2>1 DEF TaskInv
<1>3. ASSUME NEW t \in 1..Len(s.tasks), s.by_task[t] # None
      PROVE  Followed(s, a, None, gone, t, s.by_task[t])
  <2>1. Followed(s, messages, task, gone, t, s.by_task[t])
    BY <1>0, <1>3 DEF TrackedInv
  <2>2. /\ Reported(messages, t) \/ task = t => Reported(a, t)
        /\ Unstarted(s, messages, t) => Unstarted(s, a, t)
    BY <1>1, ReportedAppend
  <2>3. QED  BY <2>1, <2>2 DEF Followed
<1>3a. AliveInv(s, a, None, {})
  <2>1. PICK L \in Nat : L = Len(messages) /\ Len(a) = L + 1
    BY <1>1, AppendFacts
  <2>2. a[L + 1] = m /\ \A i \in 1..L : a[i] = messages[i]
    BY <1>1, <2>1, AppendFacts
  <2>3. 1..L \subseteq 1..(L + 1) /\ L + 1 \in 1..(L + 1)
    OBVIOUS
  <2>4. \A t : Ending(s, messages, task, t) => Ending(s, a, None, t)
    BY <2>1, <2>2, <2>3 DEF Ending
  <2>5. \A f : HasTask(s, messages, task, f) => HasTask(s, a, None, f)
    BY <2>4 DEF HasTask
  <2>6. QED  BY <1>0, <2>5 DEF AliveInv
<1>4. ServiceInv(s, a, None, gone, {})
  BY <1>0, <1>2, <1>3, <1>3a DEF ServiceInv, CoreInv, TrackedInv
<1>5. QED  BY <1>1, <1>4

\* The start of a task preserves FlowInv.
LEMMA TaskRuns_Sound ==
  ASSUME FlowInv, TaskRuns
  PROVE  FlowInv'
<1>0. /\ Running /\ ServiceInv(svc, progress, executing, deleted, {})
      /\ ProtocolInv(progress, executing)
      /\ svc.error = "none" /\ server = "up"
  BY DEF FlowInv, TaskRuns, Running
<1>1. /\ executing = None /\ svc.task_queue # <<>> /\ progress \in Seq(Messages) /\ now \in Int
      /\ UNCHANGED <<server, now, deleted, updates, deletions>>
  BY <1>0 DEF TaskRuns, Running
<1>2. svc.task_queue \in Seq(Nat) /\ svc \in ServiceStates /\ TaskInv(svc, progress, None)
  BY <1>0, <1>1, StateFields DEF ServiceInv, CoreInv
<1>3. Head(svc.task_queue) \in Nat
  BY <1>1, <1>2
<1>4. PICK m : m = [task |-> Head(svc.task_queue), outcome |-> "running", at |-> now]
  OBVIOUS
<1>5. m \in Messages /\ m.outcome = "running" /\ m.task = Head(svc.task_queue)
  BY <1>1, <1>3, <1>4 DEF Messages
<1>6. /\ executing' = m.task /\ progress' = Append(progress, m)
      /\ svc' = [svc EXCEPT !.task_queue = Tail(svc.task_queue)]
  BY <1>4, <1>5 DEF TaskRuns
<1>7. /\ ServiceInv(svc', progress', executing', deleted, {}) /\ svc'.error = "none"
      /\ InQueue(svc, m.task)
  BY <1>0, <1>1, <1>5, <1>6, StartPreserves
<1>8. /\ ~Reported(progress, m.task)
      /\ \A i \in 1..Len(progress) : progress[i].task # None
  BY <1>2, <1>7 DEF TaskInv, Reported, None
<1>9. ProtocolInv(progress', executing')
  BY <1>0, <1>1, <1>5, <1>6, <1>8, ProtocolOfStart
<1>10. progress' \in Seq(Messages) /\ executing' \in Nat
  BY <1>1, <1>3, <1>5, <1>6, AppendFacts
<1>11. QED  BY <1>0, <1>1, <1>7, <1>9, <1>10 DEF FlowInv, Running

\* The end of a task preserves FlowInv.
LEMMA TaskFinishes_Sound ==
  ASSUME FlowInv, TaskFinishes
  PROVE  FlowInv'
<1>0. /\ Running /\ ServiceInv(svc, progress, executing, deleted, {})
      /\ ProtocolInv(progress, executing)
      /\ svc.error = "none" /\ server = "up"
  BY DEF FlowInv, TaskFinishes, Running
<1>1. /\ executing # None /\ executing' = None /\ svc' = svc
      /\ progress \in Seq(Messages) /\ now \in Int /\ executing \in Nat
      /\ UNCHANGED <<server, now, deleted, updates, deletions>>
  BY <1>0 DEF TaskFinishes, Running
<1>2. PICK o \in {"Changed", "UpToDate", "Empty", "Failed"} :
          progress' = Append(progress, [task |-> executing, outcome |-> o, at |-> now])
  BY DEF TaskFinishes, Results
<1>3. PICK m : m = [task |-> executing, outcome |-> o, at |-> now]
  OBVIOUS
<1>4. m \in Messages /\ m.outcome # "running" /\ m.task = executing
  BY <1>1, <1>3 DEF Messages
<1>5. progress' = Append(progress, m)
  BY <1>2, <1>3
<1>6. ServiceInv(svc', progress', executing', deleted, {})
  BY <1>0, <1>1, <1>4, <1>5, EndPreserves
<1>7. ProtocolInv(progress', executing')
  BY <1>0, <1>1, <1>4, <1>5, ProtocolOfEnd
<1>8. progress' \in Seq(Messages) /\ executing' \in Nat
  BY <1>1, <1>4, <1>5, AppendFacts DEF None
<1>9. QED  BY <1>0, <1>1, <1>6, <1>7, <1>8 DEF FlowInv, Running

\* The service after a request, which may have failed.
LEMMA RequestSound ==
  ASSUME NEW s, EndRequest(s), NEW messages, NEW task, NEW gone,
         ServiceInv(s, messages, task, gone, {})
  PROVE  server' = server /\ ServiceInv(svc', messages, task, gone, {}) /\ svc'.error = "none"
<1>1. svc' = [s EXCEPT !.error = "none"] /\ server' = server
  BY DEF EndRequest
<1>2. QED  BY <1>1, ClearedSound

\* A manual trigger, also one that fails, preserves FlowInv.
LEMMA trigger_manual_flow_Sound ==
  ASSUME FlowInv, NEW k \in Keys, trigger_manual_flow(k)
  PROVE  FlowInv'
<1>0. /\ Running /\ ServiceInv(svc, progress, executing, deleted, {})
      /\ ProtocolInv(progress, executing)
      /\ server = "up" /\ k \notin deleted
  BY DEF FlowInv, trigger_manual_flow, Asked, Running
<1>1. PICK t \in Int : t = round_time(now)
  BY <1>0, RoundTimeType DEF Running
<1>2. PICK trigger \in Triggers : trigger = Manual(t)
  BY DEF Manual, Triggers
<1>3. PICK n : n = trigger_flow_common(svc, k, trigger, "Unconditional", t, FALSE)
  OBVIOUS
<1>4. EndRequest(n) /\ UNCHANGED <<now, deleted, executing, progress, updates, deletions>>
  BY <1>1, <1>2, <1>3 DEF trigger_manual_flow, queues
<1>5. ~Gone(svc, deleted, k)
  BY <1>0 DEF Gone
<1>6. ServiceInv(n, progress, executing, deleted, {})
  BY <1>0, <1>3, <1>5, TriggerPreserves
<1>7. server' = "up" /\ ServiceInv(svc', progress, executing, deleted, {}) /\ svc'.error = "none"
  BY <1>0, <1>4, <1>6, RequestSound
<1>8. QED  BY <1>0, <1>4, <1>7 DEF FlowInv, Running

\* A request that announces a changed configuration.  Where datasets are
\* deleted it is a pause.
LEMMA ConfiguredSound ==
  ASSUME FlowInv, server = "up", NEW k \in Keys, NEW status \in {"active", "paused"},
         Configured(k, status), "delete" \in Requests => status = "paused",
         NEW s, EndRequest(s), ServiceInv(s, progress, executing, deleted, {}),
         UNCHANGED <<now, deleted, executing, progress, deletions>>
  PROVE  FlowInv'
<1>0. Running /\ ProtocolInv(progress, executing)
  BY DEF FlowInv, Running
<1> DEFINE Updates == [key : Keys, paused : BOOLEAN, at : Int]
<1>1. PICK u \in Updates : /\ u = [key |-> k, paused |-> status # "active", at |-> now]
                           /\ u.paused = (status # "active")
  <2>1. PICK p \in BOOLEAN : p = (status # "active")
    OBVIOUS
  <2>2. now \in Int
    BY <1>0 DEF Running
  <2>3. [key |-> k, paused |-> p, at |-> now] \in Updates
    BY <2>2
  <2>4. QED  BY <2>1, <2>3
<1>2. updates' = Append(updates, u) /\ updates \in Seq(Updates)
  BY <1>0, <1>1 DEF Configured, Running
<1>3. "delete" \in Requests => u.paused /\ \A i \in 1..Len(updates) : updates[i].paused
  BY <1>0, <1>1 DEF Running
<1> HIDE DEF Updates
<1>4. updates' \in Seq(Updates)
  BY <1>2, AppendFacts
<1>5. "delete" \in Requests => \A i \in 1..Len(updates') : updates'[i].paused
  BY <1>2, <1>3, AppendCases
<1> USE DEF Updates
<1>6. server' = "up" /\ ServiceInv(svc', progress, executing, deleted, {}) /\ svc'.error = "none"
  BY RequestSound
<1>7. QED  BY <1>0, <1>4, <1>5, <1>6 DEF FlowInv, Running

\* A new configuration preserves FlowInv where nothing is deleted.
LEMMA set_configuration_Sound ==
  ASSUME NothingRevived, FlowInv, NEW k \in Keys, set_configuration(k)
  PROVE  FlowInv'
<1>1. server = "up" /\ "delete" \notin Requests
  BY DEF set_configuration, Asked, NothingRevived
<1>2. ServiceInv(svc, progress, executing, deleted, {})
  BY <1>1 DEF FlowInv
<1>3. PICK status \in {"active", "paused"} : Configured(k, status)
  BY DEF set_configuration
<1>4. EndRequest(svc) /\ UNCHANGED <<now, deleted, executing, progress, deletions>>
  BY DEF set_configuration
<1>5. QED  BY <1>1, <1>2, <1>3, <1>4, ConfiguredSound

\* The request to pause preserves FlowInv.
LEMMA pause_flow_configuration_Sound ==
  ASSUME FlowInv, NEW k \in Keys, pause_flow_configuration(k)
  PROVE  FlowInv'
<1>1. server = "up"
  BY DEF pause_flow_configuration, Asked
<1>2. ServiceInv(svc, progress, executing, deleted, {})
  BY <1>1 DEF FlowInv
<1>3. /\ Configured(k, "paused") /\ EndRequest(svc)
      /\ UNCHANGED <<now, deleted, executing, progress, deletions>>
  BY DEF pause_flow_configuration
<1>4. QED  BY <1>1, <1>2, <1>3, ConfiguredSound

\* The request to resume preserves FlowInv where nothing is deleted.
LEMMA resume_flow_configuration_Sound ==
  ASSUME NothingRevived, FlowInv, NEW k \in Keys, resume_flow_configuration(k)
  PROVE  FlowInv'
<1>1. server = "up" /\ "delete" \notin Requests
  BY DEF resume_flow_configuration, Asked, NothingRevived
<1>2. ServiceInv(svc, progress, executing, deleted, {})
  BY <1>1 DEF FlowInv
<1>3. /\ Configured(k, "active") /\ EndRequest(svc)
      /\ UNCHANGED <<now, deleted, executing, progress, deletions>>
  BY DEF resume_flow_configuration
<1>4. QED  BY <1>1, <1>2, <1>3, ConfiguredSound

\* A cancellation preserves FlowInv.
LEMMA cancel_scheduled_tasks_Sound ==
  ASSUME FlowInv, NEW f \in DOMAIN svc.flows, cancel_scheduled_tasks(f)
  PROVE  FlowInv'
<1>0. /\ Running /\ ServiceInv(svc, progress, executing, deleted, {})
      /\ ProtocolInv(progress, executing)
      /\ server = "up" /\ Ok(svc)
  BY DEF FlowInv, cancel_scheduled_tasks, Asked, Running, Ok
<1>1. PICK n : n = IF svc.flows[f].outcome = "none" THEN abort_flow_impl(svc, f) ELSE svc
  OBVIOUS
<1>2. EndRequest(n) /\ UNCHANGED <<now, deleted, executing, progress, deletions>>
  BY <1>1 DEF cancel_scheduled_tasks
<1>3. f \in 1..Len(svc.flows) /\ svc.flows[f].key \in Keys
  BY <1>0, StateFields, FlowFields DEF ServiceInv, CoreInv
<1>4. ServiceInv(n, progress, executing, deleted, {})
  BY <1>0, <1>1, <1>3, CancelSound
<1>5. CASE Configured(svc.flows[f].key, "paused")
  BY <1>0, <1>2, <1>3, <1>4, <1>5, ConfiguredSound
<1>6. CASE UNCHANGED <<configs, updates>>
  <2>1. server' = "up" /\ ServiceInv(svc', progress, executing, deleted, {}) /\ svc'.error = "none"
    BY <1>0, <1>2, <1>4, RequestSound
  <2>2. QED  BY <1>0, <1>2, <1>6, <2>1 DEF FlowInv, Running
<1>7. QED  BY <1>5, <1>6 DEF cancel_scheduled_tasks

\* The deletion of a dataset preserves FlowInv: the service has not heard of it.
LEMMA delete_dataset_Sound ==
  ASSUME FlowInv, NEW k \in Keys, delete_dataset(k)
  PROVE  FlowInv'
<1>0. /\ Running /\ ServiceInv(svc, progress, executing, deleted, {})
      /\ ProtocolInv(progress, executing)
      /\ server = "up" /\ "delete" \in Requests
  BY DEF FlowInv, delete_dataset, Asked, Running
<1>1. /\ EndRequest(svc) /\ deleted' = deleted \cup {k} /\ deletions' = Append(deletions, k)
      /\ UNCHANGED <<now, executing, progress, updates>>
  BY DEF delete_dataset
<1>2. PICK gone : gone = deleted \cup {k}
  OBVIOUS
<1>3. ServiceInv(svc, progress, executing, gone, {})
  <2>1. \A j : Gone(svc, deleted, j) => Gone(svc, gone, j)
    BY <1>2 DEF Gone
  <2>2. TrackedInv(svc, progress, executing, deleted)
    BY <1>0 DEF ServiceInv, CoreInv
  <2>3. TrackedInv(svc, progress, executing, gone)
    BY <2>1, <2>2 DEF TrackedInv, Followed
  <2>4. QED  BY <1>0, <2>3 DEF ServiceInv, CoreInv
<1>4. server' = "up" /\ ServiceInv(svc', progress, executing, gone, {}) /\ svc'.error = "none"
  BY <1>0, <1>1, <1>3, RequestSound
<1>5. deletions' \in Seq(gone) /\ gone \subseteq Keys
  <2>1. deletions \in Seq(gone) /\ k \in gone /\ gone \subseteq Keys
    BY <1>0, <1>2 DEF Running
  <2>2. QED  BY <1>1, <2>1, AppendFacts
<1>6. QED  BY <1>0, <1>1, <1>2, <1>4, <1>5 DEF FlowInv, Running

\* Time preserves FlowInv.
LEMMA Tick_Sound ==
  ASSUME FlowInv, Tick
  PROVE  FlowInv'
  BY DEF FlowInv, Tick, queues

\* FlowInv holds at the start.
LEMMA Init_Sound ==
  ASSUME Init
  PROVE  FlowInv
<1>1. svc \in ServiceStates
  BY DEF Init, ServiceStates, None, Never, Errors
<1>2. /\ svc.flows = <<>> /\ svc.tasks = <<>> /\ svc.task_queue = <<>> /\ svc.by_task = <<>>
      /\ svc.pending = [k \in Keys |-> None] /\ svc.error = "none" /\ executing = None
      /\ progress = <<>> /\ svc.plan = <<>> /\ svc.active_configs = {}
  BY DEF Init
<1>3. PendingInv(svc)
  BY <1>2 DEF PendingInv
<1>4. TaskInv(svc, progress, executing) /\ TrackedInv(svc, progress, executing, deleted)
  BY <1>2 DEF TaskInv, TrackedInv
<1>4a. AliveInv(svc, progress, executing, {})
  BY <1>2 DEF AliveInv
<1>4b. AwakeInv(svc, {})
  BY <1>2 DEF AwakeInv
<1>5. ProtocolInv(progress, executing)
  BY <1>2 DEF ProtocolInv
<1>6. /\ now \in Int /\ progress \in Seq(Messages) /\ executing \in Nat
      /\ updates \in Seq([key : Keys, paused : BOOLEAN, at : Int])
      /\ deletions \in Seq(deleted) /\ deleted \subseteq Keys /\ deleted = {}
      /\ \A i \in 1..Len(updates) : updates[i].paused
  BY FlowConstants DEF Init, None
<1>7. QED  BY <1>1, <1>2, <1>3, <1>4, <1>4a, <1>4b, <1>5, <1>6 DEF FlowInv, ServiceInv, CoreInv

\* Whatever the triggers, schedules, task results, pauses and cancellations, the
\* service keeps FlowInv, as long as users who delete datasets do not enable
\* configurations.
THEOREM FlowInvariant ==
  ASSUME NothingRevived
  PROVE  Spec => []FlowInv
<1>1. Init => FlowInv
  BY Init_Sound
<1>2. FlowInv /\ [Next]_vars => FlowInv'
  <2> SUFFICES ASSUME FlowInv, [Next]_vars
               PROVE  FlowInv'
    OBVIOUS
  <2>1. CASE run                          BY <2>1, run_Sound
  <2>2. CASE run_current_timeslot         BY <2>2, run_current_timeslot_Sound
  <2>3. CASE TaskRuns                     BY <2>3, TaskRuns_Sound
  <2>4. CASE TaskFinishes                 BY <2>4, TaskFinishes_Sound
  <2>5. CASE ConsumeTaskProgress          BY <2>5, ConsumeTaskProgress_Sound
  <2>6. CASE ConsumeConfigurationUpdated  BY <2>6, ConsumeConfigurationUpdated_Sound
  <2>7. CASE ConsumeDeleted               BY <2>7, ConsumeDeleted_Sound
  <2>8. ASSUME NEW k \in Keys, trigger_manual_flow(k)
        PROVE  FlowInv'
    BY <2>8, trigger_manual_flow_Sound
  <2>9. ASSUME NEW k \in Keys, set_configuration(k)
        PROVE  FlowInv'
    BY <2>9, set_configuration_Sound
  <2>10. ASSUME NEW k \in Keys, pause_flow_configuration(k)
         PROVE  FlowInv'
    BY <2>10, pause_flow_configuration_Sound
  <2>11. ASSUME NEW k \in Keys, resume_flow_configuration(k)
         PROVE  FlowInv'
    BY <2>11, resume_flow_configuration_Sound
  <2>12. ASSUME NEW k \in Keys, delete_dataset(k)
         PROVE  FlowInv'
    BY <2>12, delete_dataset_Sound
  <2>13. ASSUME NEW f \in DOMAIN svc.flows, cancel_scheduled_tasks(f)
         PROVE  FlowInv'
    BY <2>13, cancel_scheduled_tasks_Sound
  <2>14. CASE Tick                        BY <2>14, Tick_Sound
  <2>15. CASE UNCHANGED vars
    BY <2>15 DEF FlowInv, vars
  <2>16. QED
    BY <2>1, <2>2, <2>3, <2>4, <2>5, <2>6, <2>7, <2>8, <2>9, <2>10, <2>11, <2>12, <2>13, <2>14,
       <2>15 DEF Next
<1>3. QED  BY <1>1, <1>2, PTL DEF Spec

\* A key never has two unfinished flows: the one that is not finished is the one
\* the service has as pending for the key.
THEOREM OneActiveFlow ==
  ASSUME NothingRevived
  PROVE  Spec => []OneActiveFlowPerKey
<1>1. FlowInv => OneActiveFlowPerKey
  <2> SUFFICES ASSUME FlowInv, server = "up", NEW f \in DOMAIN svc.flows,
                      svc.flows[f].outcome = "none"
               PROVE  svc.pending[svc.flows[f].key] = f
    BY DEF OneActiveFlowPerKey
  <2>1. svc \in ServiceStates /\ PendingInv(svc)
    BY DEF FlowInv, ServiceInv, CoreInv
  <2>2. f \in 1..Len(svc.flows)
    BY <2>1, StateFields
  <2>3. QED  BY <2>1, <2>2 DEF PendingInv
<1>2. QED  BY <1>1, FlowInvariant, PTL

\* No unfinished flow is forgotten: it waits for its activation or for its inputs,
\* or the service follows a task of the flow whose end is still to be reported.
\* It is so whatever is triggered, paused, cancelled or deleted in between.
THEOREM NoFlowIsStuck ==
  ASSUME NothingRevived
  PROVE  Spec => []NoStuckFlow
<1>1. FlowInv => NoStuckFlow
  <2> SUFFICES ASSUME FlowInv, server = "up", NEW f \in DOMAIN svc.flows,
                      svc.flows[f].outcome = "none"
               PROVE  \/ f \in svc.waiting
                      \/ svc.flows[f].start_condition = "batching" /\ svc.plan[f] = NotPlanned
                      \/ \E t \in svc.flows[f].task_ids : svc.by_task[t] = f /\ InTheWorks(t)
    BY DEF NoStuckFlow
  <2>1. /\ svc \in ServiceStates /\ AliveInv(svc, progress, executing, {})
        /\ progress \in Seq(Messages)
    BY DEF FlowInv, ServiceInv, CoreInv
  <2>2. f \in 1..Len(svc.flows)
    BY <2>1, StateFields
  <2>3. Waits(svc, f) \/ HasTask(svc, progress, executing, f)
    BY <2>1, <2>2 DEF AliveInv
  <2>4. DOMAIN svc.task_queue = 1..Len(svc.task_queue) /\ DOMAIN progress = 1..Len(progress)
    <3>1. svc.task_queue \in Seq(Nat)
      BY <2>1, StateFields
    <3>2. QED  BY <2>1, <3>1
  <2>5. \A t : Ending(svc, progress, executing, t) => InTheWorks(t)
    BY <2>4 DEF Ending, InQueue, InTheWorks
  <2>6. QED  BY <2>3, <2>5 DEF Waits, HasTask
<1>2. QED  BY <1>1, FlowInvariant, PTL

\* An active schedule never falls asleep: its key has a pending flow, unless its
\* last flow failed.  It is so whatever is triggered, paused, cancelled or deleted
\* between the end of a flow and the next cycle.
THEOREM ScheduleNeverSleeps ==
  ASSUME NothingRevived
  PROVE  Spec => []ScheduleStaysAlive
<1>1. FlowInv => ScheduleStaysAlive
  <2> SUFFICES ASSUME FlowInv, server = "up", NEW k \in svc.active_configs, HasSchedule(k),
                      svc.pending[k] = None
               PROVE  svc.flows[LastFlowOf(k)].outcome = "Failed"
    BY DEF ScheduleStaysAlive
  <2>1. svc \in ServiceStates /\ AwakeInv(svc, {})
    BY DEF FlowInv, ServiceInv, CoreInv
  <2>2. DOMAIN svc.flows = 1..Len(svc.flows) /\ Len(svc.flows) \in Nat
    BY <2>1, StateFields
  <2>3. PICK f \in 1..Len(svc.flows) : IsLast(svc, f, k) /\ svc.flows[f].outcome = "Failed"
    BY <2>1 DEF AwakeInv
  <2>4. LastFlowOf(k) = f
    <3> DEFINE S == {g \in DOMAIN svc.flows : svc.flows[g].key = k} \cup {0}
    <3>1. f \in S /\ S \subseteq Nat /\ \A g \in S : g <= f
      BY <2>2, <2>3 DEF IsLast
    <3>2. LastFlowOf(k) = Max(S)
      BY DEF LastFlowOf
    <3> HIDE DEF S
    <3>3. \A x \in S : (\A y \in S : x >= y) => x = f
      BY <3>1
    <3>4. \A y \in S : f >= y
      BY <3>1
    <3>5. Max(S) = f
      BY <3>1, <3>3, <3>4 DEF Max
    <3>6. QED  BY <3>2, <3>5
  <2>5. QED  BY <2>3, <2>4
<1>2. QED  BY <1>1, FlowInvariant, PTL

=============================================================================
