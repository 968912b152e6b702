---------------------------- MODULE FlowService -----------------------------
(***************************************************************************)
(* The flow service: what triggers a flow, when it is activated, and how   *)
(* it follows the task it hands to the task system.                        *)
(*                                                                         *)
(* The service keeps everything in memory behind one mutex.  Its handlers  *)
(* (the main loop, the message consumers, the GraphQL requests) are the    *)
(* actions; a handler that starts flows of several keys runs through a     *)
(* sequence of service states, so the operators below map a service state  *)
(* to the next one.  The wheel is the plan of ActivationPlan, the task     *)
(* system is one executor with a FIFO queue whose progress messages arrive *)
(* in order (TaskSystem), and messages of different producers arrive in    *)
(* any order (Outbox).                                                     *)
(***************************************************************************)
EXTENDS Integers, SequencesExt

CONSTANTS
    Keys,               \* flow keys: the ingest of a root dataset, with a schedule,
                        \* or the transform of a derived one, with a batching rule
    RuleOf,             \* key -> "TimeDelta", "Cron" or "Transform"
    Downstream,         \* key -> transform keys of the downstream datasets
    Period,             \* of the schedules
    Throttling,         \* mandatory_throttling_period
    BatchingInterval,   \* max_batching_interval of the transform rules
    Step,               \* awaiting_step: ticks that request times are rounded to
    Requests,           \* requests that users make
    MaxDelay,           \* ticks within which a configuration message is delivered
    MaxRequests,        \* bound: the number of requests
    MaxFlows,           \* bound: flows
    MaxTasks,           \* bound: tasks
    MaxTime             \* bound: the clock

ASSUME FlowConstants ==
    /\ IsFiniteSet(Keys)
    /\ Period \in Nat \ {0} /\ BatchingInterval \in Nat \ {0} /\ Step \in Nat \ {0}
    /\ Throttling \in Nat /\ MaxDelay \in Nat
    /\ RuleOf \in [Keys -> {"TimeDelta", "Cron", "Transform"}]
    /\ Downstream \in [Keys -> SUBSET {k \in Keys : RuleOf[k] = "Transform"}]
    /\ Requests \subseteq {"trigger", "set", "pause", "resume", "cancel", "delete"}

VARIABLES
    server,         \* "starting", "up", or the error or panic that ended the server
    now,
    svc,            \* the service state, see ServiceStates
    configs,        \* key -> status of its FlowConfiguration
    deleted,        \* keys whose dataset was deleted
    executing,      \* task the executor runs, or None
    progress,       \* undelivered TaskProgressMessages
    updates,        \* undelivered FlowConfigurationUpdatedMessages
    deletions,      \* keys in undelivered DatasetLifecycleMessage::Deleted
    requests        \* how many requests were made

vars == <<server, now, svc, configs, deleted, executing, progress, updates, deletions, requests>>
queues == <<progress, updates, deletions>>

None       == 0
NotPlanned == 0
Never      == 0
FlowIds    == 1 .. MaxFlows
TaskIds    == 1 .. MaxTasks
NoKey      == "no key"

HasSchedule(k) == RuleOf[k] \in {"TimeDelta", "Cron"}

\* What a successful task reports: only the ingest of an unchanged source gives
\* a result that is not empty although nothing changed.
Results(k) == IF HasSchedule(k) THEN {"Changed", "UpToDate"} ELSE {"Changed", "Empty"}

Later(t, u) == IF t < u THEN u ELSE t

\* duration_round: to the nearest step, up from the middle.
round_time(t) == ((t + Step \div 2) \div Step) * Step

-----------------------------------------------------------------------------
(* The Flow aggregate *)

AutoPolling        == [kind |-> "AutoPolling", by |-> NoKey, result |-> "Empty", at |-> 0]
Manual(t)          == [kind |-> "Manual", by |-> NoKey, result |-> "Empty", at |-> t]
InputFlow(k, r)    == [kind |-> "InputDatasetFlow", by |-> k, result |-> r, at |-> 0]

is_unique_vs(trigger, existing) ==
    ~\E e \in existing :
        \/ e = trigger
        \/ e.kind = "InputDatasetFlow" /\ trigger.kind = e.kind /\ trigger.by = e.by

\* Flow::new; `since' is the time of the primary trigger.
NewFlow(k, trigger, t) ==
    [key |-> k, triggers |-> {trigger}, since |-> t, start_condition |-> "none",
     task_ids |-> {}, running |-> FALSE, outcome |-> "none"]

\* FlowState::apply of StartConditionUpdated rejects any other flow.
CanWait(flow) == flow.outcome = "none" /\ ~flow.running

Ok(s)        == s.error = "none"
Fail(s, why) == [s EXCEPT !.error = why]

set_relevant_start_condition(s, f, condition) ==
    IF CanWait(s.flows[f])
    THEN [s EXCEPT !.flows[f].start_condition = condition]
    ELSE Fail(s, "flow rejects start condition")

abort(s, f) ==
    CASE s.flows[f].outcome = "none" ->
            [s EXCEPT !.flows[f] = [@ EXCEPT !.outcome = "Aborted", !.start_condition = "none"]]
      [] s.flows[f].outcome \in {"Aborted", "Failed"} -> s
      [] OTHER -> Fail(s, "flow rejects abort")

on_task_running(s, f) ==
    IF s.flows[f].outcome # "none"
    THEN Fail(s, "flow rejects task running")
    ELSE [s EXCEPT !.flows[f] = [@ EXCEPT !.running = TRUE, !.start_condition = "none"]]

\* Also updates the run statistics of the key, as the flow event store does.
on_task_finished(s, f, outcome, t) ==
    LET k == s.flows[f].key
    IN  IF ~s.flows[f].running \/ s.flows[f].start_condition # "none"
        THEN Fail(s, "flow rejects task finished")
        ELSE [s EXCEPT !.flows[f].outcome = IF @ = "none" THEN outcome ELSE @,
                       !.last_attempt[k] = t,
                       !.last_success[k] = IF outcome = "Failed" THEN @ ELSE t]

-----------------------------------------------------------------------------
(* Triggering flows *)

\* FlowTimeWheel::activate_at, as ActivationPlan describes it.
enqueue_flow(s, f, t) ==
    IF s.plan[f] = NotPlanned \/ t < s.plan[f]
    THEN [s EXCEPT !.plan[f] = t, !.waiting = @ \cup {f}]
    ELSE s

next_activation_time(k, t, last_success) ==
    CASE RuleOf[k] = "TimeDelta" -> IF last_success = Never THEN t ELSE Later(t, last_success + Period)
      [] RuleOf[k] = "Cron"      -> (t \div Period + 1) * Period

\* A mutant of throttling_boundary_time: the throttling period is not applied.
Unthrottled(s, k, t) == t

\* A mutant of throttling_boundary_time: the boundary may lie before the trigger.
BoundaryInThePast(s, k, t) ==
    IF s.last_attempt[k] = Never THEN t ELSE s.last_attempt[k] + Throttling

throttling_boundary_time(s, k, t) ==
    IF s.last_attempt[k] = Never THEN t ELSE Later(t, s.last_attempt[k] + Throttling)

\* `enough': the records accumulated since the first trigger of each input reach
\* the rule's minimum.
evaluate_flow_transform_rule(s, f, t, boundary, enough) ==
    LET flow      == s.flows[f]
        deadline  == flow.since + BatchingInterval
        changed   == \E trigger \in flow.triggers : trigger.result = "Changed"
        satisfied == changed /\ (enough \/ t >= deadline)
        finish    == IF satisfied THEN t ELSE deadline
        at        == Later(finish, boundary)
        batching  == IF flow.start_condition = "batching"
                     THEN s
                     ELSE set_relevant_start_condition(s, f, "batching")
        planned   == IF s.plan[f] = NotPlanned \/ s.plan[f] > at
                     THEN enqueue_flow(batching, f, at)
                     ELSE batching
    IN  CASE ~Ok(batching) \/ ~changed -> batching
          [] Ok(batching) /\ satisfied /\ boundary > finish ->
                set_relevant_start_condition(planned, f, "throttling")
          [] OTHER -> planned

\* trigger_flow_common for a key that has a pending flow.
MergeTrigger(s, k, trigger, context, t, enough) ==
    LET f        == s.pending[k]
        flow     == s.flows[f]
        boundary == throttling_boundary_time(s, k, t)
        unique   == is_unique_vs(trigger, flow.triggers)
        merged   == [s EXCEPT !.flows[f].triggers = IF unique THEN @ \cup {trigger} ELSE @]
        rejected == unique /\ flow.outcome # "none"
    IN  CASE rejected -> Fail(s, "flow rejects trigger")
          [] ~rejected /\ context = "Batching" ->
                IF flow.start_condition = "batching"
                THEN evaluate_flow_transform_rule(merged, f, t, boundary, enough)
                ELSE merged
          [] ~rejected /\ context # "Batching" /\ s.plan[f] = NotPlanned ->
                Fail(s, "no activation time")
          [] ~rejected /\ context # "Batching" /\ s.plan[f] # NotPlanned ->
                IF boundary >= s.plan[f]
                THEN merged
                ELSE IF boundary <= t
                     THEN enqueue_flow(merged, f, boundary)
                     ELSE IF CanWait(flow)
                          THEN set_relevant_start_condition(enqueue_flow(merged, f, boundary), f,
                                                            "throttling")
                          ELSE Fail(enqueue_flow(s, f, boundary), "flow rejects start condition")

\* trigger_flow_common for a key that has none.
InitiateFlow(s, k, trigger, context, t, enough) ==
    LET f        == Len(s.flows) + 1
        boundary == throttling_boundary_time(s, k, t)
        naive    == IF context = "Scheduled" THEN next_activation_time(k, t, s.last_success[k]) ELSE t
        new      == [s EXCEPT !.flows = Append(@, NewFlow(k, trigger, t)),
                            !.plan = Append(@, NotPlanned), !.pending[k] = f]
        queued   == enqueue_flow(new, f, Later(boundary, naive))
    IN  CASE context = "Batching" -> evaluate_flow_transform_rule(new, f, t, boundary, enough)
          [] context # "Batching" /\ boundary > naive ->
                set_relevant_start_condition(queued, f, "throttling")
          [] context # "Batching" /\ boundary <= naive /\ naive > t ->
                set_relevant_start_condition(queued, f, "schedule")
          [] OTHER -> queued

trigger_flow_common(s, k, trigger, context, t, enough) ==
    IF s.pending[k] # None
    THEN MergeTrigger(s, k, trigger, context, t, enough)
    ELSE InitiateFlow(s, k, trigger, context, t, enough)

\* activate_flow_configuration
Activate(s, k, t) ==
    LET active == [s EXCEPT !.active_configs = @ \cup {k}]
    IN  trigger_flow_common(active, k, AutoPolling,
                            IF HasSchedule(k) THEN "Scheduled" ELSE "Unconditional", t, FALSE)

\* enqueue_dependent_flows: the enabled transforms downstream, as long as none
\* of them fails.  The dependency graph loses a dataset when it is deleted, and
\* has no neighbours to give for one it does not know.
TriggerDependents(s, k, result, t, enough) ==
    LET dependents == SetToSeq((Downstream[k] \cap s.active_configs) \ deleted)
        after[i \in 0 .. Len(dependents)] ==
            IF i = 0 THEN s
            ELSE LET d == dependents[i]
                     a == after[i - 1]
                 IN  IF Ok(a)
                     THEN trigger_flow_common(a, d, InputFlow(k, result), "Batching", t, d \in enough)
                     ELSE a
    IN  IF k \in deleted THEN Fail(s, "dataset not found") ELSE after[Len(dependents)]

\* try_enqueue_scheduled_auto_polling_flow_if_enabled
NextCycle(s, k, t) ==
    IF Ok(s) /\ k \in s.active_configs /\ HasSchedule(k)
    THEN trigger_flow_common(s, k, AutoPolling, "Scheduled", t, FALSE)
    ELSE s

-----------------------------------------------------------------------------
(* Tasks *)

create_task(s, f) ==
    [s EXCEPT !.tasks = Append(@, f), !.by_task = Append(@, None),
              !.task_queue = Append(@, Len(s.tasks) + 1)]

\* A mutant of schedule_flow_task: the task is not tracked.
UntrackedTask(s, f) ==
    [create_task(s, f) EXCEPT !.flows[f].start_condition = "executor",
                              !.flows[f].task_ids = @ \cup {Len(s.tasks) + 1}]

\* A mutant of schedule_flow_task: the activation time does not outlive the
\* activation.
ForgetsActivationTime(s, f) ==
    [UntrackedTask(s, f) EXCEPT !.by_task[Len(s.tasks) + 1] = f, !.plan[f] = NotPlanned]

\* The task is created before the flow is asked whether it can have one; the
\* error of a flow that cannot is logged.
schedule_flow_task(s, f) ==
    LET t    == Len(s.tasks) + 1
        flow == s.flows[f]
    IN  IF CanWait(flow)
        THEN [create_task(s, f) EXCEPT !.flows[f] = [flow EXCEPT !.start_condition = "executor",
                                                                 !.task_ids = @ \cup {t}],
                                       !.by_task[t] = f]
        ELSE create_task(s, f)

\* The retain of cancel_task, for every task of ids.
Without(queue, ids) ==
    LET kept[n \in 0 .. Len(queue)] ==
            IF n = 0 THEN <<>>
            ELSE IF queue[n] \in ids THEN kept[n - 1] ELSE Append(kept[n - 1], queue[n])
    IN  kept[Len(queue)]

\* A mutant of abort_flow_impl: the tasks stay tracked.
AbortKeepsTracking(s, f) == abort(s, f)

\* Aborts the flow, forgets its tasks and cancels those still queued.
abort_flow_impl(s, f) ==
    LET aborted == abort(s, f)
        ids     == s.flows[f].task_ids
    IN  IF Ok(aborted)
        THEN [aborted EXCEPT !.by_task = [t \in DOMAIN @ |-> IF t \in ids THEN None ELSE @[t]],
                             !.task_queue = Without(@, ids)]
        ELSE aborted

\* The wheel's cancel_flow_activation.
Unplan(s, f) ==
    IF s.plan[f] = NotPlanned
    THEN Fail(s, "flow not planned")
    ELSE [s EXCEPT !.plan[f] = NotPlanned, !.waiting = @ \ {f}]

\* Takes key k out of the service, if it has a pending flow.
drop_pending_flow(s, k) == [s EXCEPT !.pending[k] = None]

-----------------------------------------------------------------------------
(* The handlers *)

Bounded(s) == Len(s.flows) <= MaxFlows /\ Len(s.tasks) <= MaxTasks

\* An error or a panic of the main loop or of a consumer ends the server; a
\* request only fails itself.  What was done before it stays done.
EndLoopStep(s) ==
    /\ Bounded(s)
    /\ svc' = [s EXCEPT !.error = "none"]
    /\ server' = IF Ok(s) THEN "up" ELSE s.error
EndRequest(s) ==
    /\ Bounded(s)
    /\ svc' = [s EXCEPT !.error = "none"]
    /\ requests < MaxRequests
    /\ requests' = requests + 1
    /\ UNCHANGED server

Init ==
    /\ server = "starting"
    /\ now = Step
    /\ svc = [flows |-> <<>>, active_configs |-> {}, pending |-> [k \in Keys |-> None],
              plan |-> <<>>, waiting |-> {},
              tasks |-> <<>>, task_queue |-> <<>>, by_task |-> <<>>,
              last_attempt |-> [k \in Keys |-> Never], last_success |-> [k \in Keys |-> Never],
              error |-> "none"]
    /\ configs \in [Keys -> {"unset", "active"}]
    /\ deleted = {}
    /\ executing = None
    /\ progress = <<>> /\ updates = <<>> /\ deletions = <<>>
    /\ requests = 0

\* The configurations of keys are activated in turn, as long as none fails.
ActivateAll(s, keys, t) ==
    LET after[i \in 0 .. Len(keys)] ==
            IF i = 0 THEN s
            ELSE LET a == after[i - 1] IN IF Ok(a) THEN Activate(a, keys[i], t) ELSE a
    IN  after[Len(keys)]

\* FlowService::run: activates the enabled configurations, schedules first.
run ==
    /\ server = "starting"
    /\ LET enabled   == {k \in Keys : configs[k] = "active"}
           scheduled == {k \in enabled : HasSchedule(k)}
       IN  EndLoopStep(ActivateAll(svc, SetToSeq(scheduled) \o SetToSeq(enabled \ scheduled),
                                   round_time(now)))
    /\ UNCHANGED <<now, configs, deleted, executing, queues, requests>>

IsNearest(m) == /\ \E f \in svc.waiting : svc.plan[f] = m
                /\ \A f \in svc.waiting : m <= svc.plan[f]

\* The tasks of the flows of a timeslot, in the order in which the wheel takes
\* flows of one moment: by their ids.
ScheduleTasks(s, due) ==
    LET after[f \in 0 .. Len(s.flows)] ==
            IF f = 0 THEN [s EXCEPT !.waiting = @ \ due]
            ELSE IF f \in due THEN schedule_flow_task(after[f - 1], f) ELSE after[f - 1]
    IN  after[Len(s.flows)]

\* One turn of the main loop that finds a timeslot due.
run_current_timeslot ==
    /\ server = "up"
    /\ \E m \in 1 .. now :
        /\ IsNearest(m)
        /\ EndLoopStep(ScheduleTasks(svc, {f \in svc.waiting : svc.plan[f] = m}))
    /\ UNCHANGED <<now, configs, deleted, executing, queues, requests>>

\* The executor takes a task and posts Running ...
TaskRuns ==
    /\ server = "up"
    /\ executing = None
    /\ svc.task_queue # <<>>
    /\ executing' = Head(svc.task_queue)
    /\ svc' = [svc EXCEPT !.task_queue = Tail(@)]
    /\ progress' = Append(progress, [task |-> executing', outcome |-> "running", at |-> now])
    /\ UNCHANGED <<server, now, configs, deleted, updates, deletions, requests>>

\* ... and Finished with an outcome that its plan can have.
TaskFinishes ==
    /\ server = "up"
    /\ executing # None
    /\ \E o \in Results(svc.flows[svc.tasks[executing]].key) \cup {"Failed"} :
          progress' = Append(progress, [task |-> executing, outcome |-> o, at |-> now])
    /\ executing' = None
    /\ UNCHANGED <<server, now, svc, configs, deleted, updates, deletions, requests>>

\* A mutant of OnTaskFinished: the pending flow is dropped at the end.
DropsPendingLast(s, m, enough) ==
    LET f        == s.by_task[m.task]
        k        == s.flows[f].key
        done     == [on_task_finished(s, f, m.outcome, m.at) EXCEPT !.by_task[m.task] = None]
        followed == IF done.flows[f].outcome \in {"Changed", "UpToDate"}
                    THEN TriggerDependents(done, k, done.flows[f].outcome, round_time(m.at), enough)
                    ELSE done
    IN  drop_pending_flow(IF m.outcome = "Failed" THEN followed
                                                  ELSE NextCycle(followed, k, round_time(m.at)), k)

\* The result the dependents are triggered with is the flow's, which may have
\* been aborted; the next cycle depends on the task's outcome.
OnTaskFinished(s, m, enough) ==
    LET f        == s.by_task[m.task]
        k        == s.flows[f].key
        done     == on_task_finished(s, f, m.outcome, m.at)
        next     == drop_pending_flow([done EXCEPT !.by_task[m.task] = None], k)
        result   == done.flows[f].outcome
        followed == IF result \in {"Changed", "UpToDate"}
                    THEN TriggerDependents(next, k, result, round_time(m.at), enough)
                    ELSE next
    IN  CASE ~Ok(done)                          -> done
          [] Ok(done) /\ m.outcome = "Failed"   -> followed
          [] OTHER                              -> NextCycle(followed, k, round_time(m.at))

\* consume_message of a TaskProgressMessage
ConsumeTaskProgress ==
    /\ server = "up"
    /\ progress # <<>>
    /\ progress' = Tail(progress)
    /\ LET m == Head(progress)
           f == svc.by_task[m.task]
       IN  \/ f = None /\ EndLoopStep(svc)
           \/ f # None /\ m.outcome = "running" /\ EndLoopStep(on_task_running(svc, f))
           \/ /\ f # None /\ m.outcome # "running"
              /\ \E enough \in SUBSET Downstream[svc.flows[f].key] :
                    EndLoopStep(OnTaskFinished(svc, m, enough))
    /\ UNCHANGED <<now, configs, deleted, executing, updates, deletions, requests>>

PauseKey(s, k) ==
    LET f       == s.pending[k]
        dropped == drop_pending_flow([s EXCEPT !.active_configs = @ \ {k}], k)
    IN  IF f = None
        THEN dropped
        ELSE IF Ok(Unplan(dropped, f)) THEN abort_flow_impl(Unplan(dropped, f), f)
                                       ELSE Unplan(dropped, f)

\* consume_message of a FlowConfigurationUpdatedMessage
ConsumeConfigurationUpdated ==
    /\ server = "up"
    /\ updates # <<>>
    /\ updates' = Tail(updates)
    /\ LET m == Head(updates)
       IN  EndLoopStep(IF m.paused THEN PauseKey(svc, m.key) ELSE Activate(svc, m.key, round_time(m.at)))
    /\ UNCHANGED <<now, configs, deleted, executing, progress, deletions, requests>>

\* A mutant of DeleteKey: the pending flow is only taken off the wheel.
DeleteWithoutAbort(s, k) ==
    LET f       == s.pending[k]
        dropped == drop_pending_flow([s EXCEPT !.active_configs = @ \ {k}], k)
    IN  IF f = None THEN dropped ELSE Unplan(dropped, f)

\* Tasks stay associated with the aborted flow, and are not cancelled.
DeleteKey(s, k) ==
    LET f       == s.pending[k]
        dropped == drop_pending_flow([s EXCEPT !.active_configs = @ \ {k}], k)
    IN  IF f = None
        THEN dropped
        ELSE IF Ok(Unplan(dropped, f)) THEN abort(Unplan(dropped, f), f) ELSE Unplan(dropped, f)

\* consume_message of DatasetLifecycleMessage::Deleted, by this service and by
\* the configuration service.
ConsumeDeleted ==
    /\ server = "up"
    /\ deletions # <<>>
    /\ deletions' = Tail(deletions)
    /\ EndLoopStep(DeleteKey(svc, Head(deletions)))
    /\ configs' = [configs EXCEPT ![Head(deletions)] = IF @ = "unset" THEN @ ELSE "stopped"]
    /\ UNCHANGED <<now, deleted, executing, progress, updates, requests>>

-----------------------------------------------------------------------------
(* Requests *)

Asked(request, k) == server = "up" /\ request \in Requests /\ k \notin deleted

trigger_manual_flow(k) ==
    /\ Asked("trigger", k)
    /\ EndRequest(trigger_flow_common(svc, k, Manual(round_time(now)), "Unconditional",
                                      round_time(now), FALSE))
    /\ UNCHANGED <<now, configs, deleted, executing, queues>>

Configured(k, status) ==
    /\ configs' = [configs EXCEPT ![k] = status]
    /\ updates' = Append(updates, [key |-> k, paused |-> status # "active", at |-> now])

set_configuration(k) ==
    /\ Asked("set", k)
    /\ EndRequest(svc)
    /\ \E status \in {"active", "paused"} : Configured(k, status)
    /\ UNCHANGED <<now, deleted, executing, progress, deletions>>

pause_flow_configuration(k) ==
    /\ Asked("pause", k)
    /\ configs[k] # "unset"
    /\ EndRequest(svc)
    /\ Configured(k, "paused")
    /\ UNCHANGED <<now, deleted, executing, progress, deletions>>

resume_flow_configuration(k) ==
    /\ Asked("resume", k)
    /\ configs[k] # "unset"
    /\ EndRequest(svc)
    /\ Configured(k, "active")
    /\ UNCHANGED <<now, deleted, executing, progress, deletions>>

\* The mutation aborts a flow that is not finished, and pauses its
\* configuration if it has one.
cancel_scheduled_tasks(f) ==
    LET flow == svc.flows[f]
    IN  /\ Asked("cancel", flow.key)
        /\ EndRequest(IF flow.outcome = "none" THEN abort_flow_impl(svc, f) ELSE svc)
        /\ IF configs[flow.key] # "unset"
           THEN Configured(flow.key, "paused")
           ELSE UNCHANGED <<configs, updates>>
        /\ UNCHANGED <<now, deleted, executing, progress, deletions>>

\* The use case refuses to leave dangling references.  The dependency graph, a
\* best-effort consumer, is updated at once.
delete_dataset(k) ==
    /\ Asked("delete", k)
    /\ Downstream[k] \subseteq deleted
    /\ EndRequest(svc)
    /\ deleted' = deleted \cup {k}
    /\ deletions' = Append(deletions, k)
    /\ UNCHANGED <<now, configs, executing, progress, updates>>

\* The clock, and the assumption that the relay delivers configuration messages
\* in MaxDelay ticks.
Tick ==
    /\ server = "up"
    /\ now < MaxTime
    /\ \A i \in DOMAIN updates : now < updates[i].at + MaxDelay
    /\ now' = now + 1
    /\ UNCHANGED <<server, svc, configs, deleted, executing, queues, requests>>

Next ==
    \/ run
    \/ run_current_timeslot
    \/ TaskRuns
    \/ TaskFinishes
    \/ ConsumeTaskProgress
    \/ ConsumeConfigurationUpdated
    \/ ConsumeDeleted
    \/ \E k \in Keys :
          \/ trigger_manual_flow(k)
          \/ set_configuration(k)
          \/ pause_flow_configuration(k)
          \/ resume_flow_configuration(k)
          \/ delete_dataset(k)
    \/ \E f \in DOMAIN svc.flows : cancel_scheduled_tasks(f)
    \/ Tick

Spec == Init /\ [][Next]_vars

\* The main loop, the executor and the outbox relay are futures of one select
\* that keeps being polled, and the clock goes on; users do nothing they are not
\* free to do.
FairSpec ==
    /\ Spec
    /\ WF_vars(run)
    /\ WF_vars(run_current_timeslot)
    /\ WF_vars(TaskRuns)
    /\ WF_vars(TaskFinishes)
    /\ WF_vars(ConsumeTaskProgress)
    /\ WF_vars(ConsumeConfigurationUpdated)
    /\ WF_vars(ConsumeDeleted)
    /\ WF_vars(Tick)

-----------------------------------------------------------------------------
(* Properties *)

Flows == [key : Keys, triggers : SUBSET [kind : {"AutoPolling", "Manual", "InputDatasetFlow"},
                                         by : Keys \cup {NoKey},
                                         result : {"Empty", "Changed", "UpToDate"}, at : Nat],
          since : Nat, start_condition : {"none", "schedule", "throttling", "batching", "executor"},
          task_ids : SUBSET TaskIds, running : BOOLEAN,
          outcome : {"none", "Changed", "UpToDate", "Empty", "Failed", "Aborted"}]

TypeOK ==
    /\ now \in Step .. MaxTime
    /\ svc.flows \in Seq(Flows)
    /\ svc.active_configs \subseteq Keys
    /\ svc.pending \in [Keys -> FlowIds \cup {None}]
    /\ svc.plan \in Seq(Nat) /\ Len(svc.plan) = Len(svc.flows)
    /\ svc.waiting \subseteq FlowIds
    /\ svc.tasks \in Seq(FlowIds)
    /\ svc.task_queue \in Seq(TaskIds)
    /\ svc.by_task \in Seq(FlowIds \cup {None}) /\ Len(svc.by_task) = Len(svc.tasks)
    /\ svc.last_attempt \in [Keys -> Nat] /\ svc.last_success \in [Keys -> Nat]
    /\ svc.error = "none"
    /\ configs \in [Keys -> {"unset", "active", "paused", "stopped"}]
    /\ deleted \subseteq Keys
    /\ executing \in TaskIds \cup {None}
    /\ requests \in 0 .. MaxRequests

\* A key has at most one unfinished flow, the one pending for it: no order of
\* triggers, finished tasks, pauses and cancellations starts a second one while
\* the first still runs, or loses one.
OneActiveFlowPerKey ==
    server = "up" => \A f \in DOMAIN svc.flows :
        svc.flows[f].outcome = "none" => svc.pending[svc.flows[f].key] = f

\* The service follows exactly the tasks of unfinished flows: a task whose
\* messages it would act on belongs to the pending flow of its key.
TracksOwnTasks ==
    \A t \in DOMAIN svc.tasks : svc.by_task[t] # None =>
        LET f == svc.by_task[t]
        IN  /\ t \in svc.flows[f].task_ids
            /\ svc.pending[svc.flows[f].key] = f
            /\ svc.flows[f].outcome = "none"

FlowsInv == TypeOK /\ TracksOwnTasks

\* "Flows may not be attempted more frequent than mandatory throttling period":
\* no task of a key is created within the period after the key's last attempt.
ThrottlingRespected ==
    [][\A t \in DOMAIN svc'.tasks \ DOMAIN svc.tasks :
          LET k == svc.flows[svc'.tasks[t]].key
          IN  svc.last_attempt[k] # Never => now >= svc.last_attempt[k] + Throttling]_vars

\* Delivers the end of task t: what is queued, running or reported.
InTheWorks(t) ==
    \/ executing = t
    \/ \E i \in DOMAIN svc.task_queue : svc.task_queue[i] = t
    \/ \E i \in DOMAIN progress : progress[i].task = t /\ progress[i].outcome # "running"

\* No flow is forgotten: one that is not finished waits for its activation, or
\* for inputs to change, or for a task that is tracked and whose end is still to
\* come.
NoStuckFlow ==
    server = "up" => \A f \in DOMAIN svc.flows : svc.flows[f].outcome = "none" =>
        \/ f \in svc.waiting
        \/ svc.flows[f].start_condition = "batching" /\ svc.plan[f] = NotPlanned
        \/ \E t \in svc.flows[f].task_ids : svc.by_task[t] = f /\ InTheWorks(t)

LastFlowOf(k) == Max({f \in DOMAIN svc.flows : svc.flows[f].key = k} \cup {0})

\* An active schedule never falls asleep: unless its last flow failed, an
\* enabled ingest has a pending flow.  (An unfinished one is planned or has its
\* task, says NoStuckFlow; one that was cancelled is pending until the pause of
\* its configuration arrives.)
ScheduleStaysAlive ==
    server = "up" => \A k \in svc.active_configs : HasSchedule(k) =>
        \/ svc.pending[k] # None
        \/ svc.flows[LastFlowOf(k)].outcome = "Failed"

\* "Triggers the specified flow manually, unless it's already waiting": although
\* the wheel remembers the moment of a flow it has handed out, no trigger plans
\* such a flow again, so that a flow never has two tasks.  (It needs triggers that
\* are not older than the flow's activation: exact times and prompt messages.)
ScheduledOnce == \A f \in DOMAIN svc.flows : Cardinality(svc.flows[f].task_ids) <= 1

\* A flow whose activation time comes is eventually finished.
ActivatedFlowFinishes ==
    \A f \in FlowIds :
        (f \in svc.waiting /\ svc.plan[f] <= now)
            ~> ((f \in DOMAIN svc.flows /\ svc.flows[f].outcome # "none") \/ server # "up")

\* No error or panic of a consumer or of the main loop ends the server.
ServerStaysUp == server \in {"starting", "up"}

-----------------------------------------------------------------------------
(* What the code, its comments and its change log say *)

\* "Pauses particular flow configuration": a request like any other, also while
\* the flow waits for its inputs to change.
PauseIsSafe == server # "flow not planned"

\* "Not deleting task->update association, it should be safe."
DeletionIsSafe == server \notin {"flow rejects task running", "dataset not found"}

\* "Cancelling in Waiting/Running states is accepted, and aborts the flow, and
\* it's associated tasks": no task is created for a flow that was cancelled.
CancelledFlowStartsNothing ==
    \A t \in DOMAIN svc.tasks : t \in svc.flows[svc.tasks[t]].task_ids

-----------------------------------------------------------------------------
(* The inductive invariant of OneActiveFlowPerKey, NoStuckFlow and           *)
(* ScheduleStaysAlive.  Its parts are about a service state s, undelivered   *)
(* progress messages, the task in execution and the deleted keys, because a  *)
(* handler goes through several states.                                      *)

Errors == {"none", "flow rejects start condition", "flow rejects abort",
           "flow rejects task running", "flow rejects task finished", "flow rejects trigger",
           "no activation time", "dataset not found", "flow not planned"}

Triggers == [kind : {"AutoPolling", "Manual", "InputDatasetFlow"}, by : Keys \cup {NoKey},
             result : {"Empty", "Changed", "UpToDate"}, at : Int]

AllFlows == [key : Keys, triggers : SUBSET Triggers, since : Int,
             start_condition : {"none", "schedule", "throttling", "batching", "executor"},
             task_ids : SUBSET Nat, running : BOOLEAN,
             outcome : {"none", "Changed", "UpToDate", "Empty", "Failed", "Aborted"}]

ServiceStates ==
    [flows : Seq(AllFlows), active_configs : SUBSET Keys, pending : [Keys -> Nat],
     plan : Seq(Int), waiting : SUBSET Nat, tasks : Seq(Nat), task_queue : Seq(Nat),
     by_task : Seq(Nat), last_attempt : [Keys -> Int], last_success : [Keys -> Int],
     error : Errors]

Messages == [task : Nat, at : Int,
             outcome : {"running", "Changed", "UpToDate", "Empty", "Failed"}]

InQueue(s, t) == \E i \in 1 .. Len(s.task_queue) : s.task_queue[i] = t
Reported(messages, t) == \E i \in 1 .. Len(messages) : messages[i].task = t

\* Task t has not told the service that it runs.
Unstarted(s, messages, t) ==
    \/ InQueue(s, t)
    \/ \E i \in 1 .. Len(messages) : messages[i].task = t /\ messages[i].outcome = "running"

\* The service has done with a deleted dataset.
Gone(s, gone, k) == k \in gone /\ k \notin s.active_configs /\ s.pending[k] = None

\* Pending flows and keys.
PendingInv(s) ==
    /\ \A k \in Keys : s.pending[k] # None =>
          s.pending[k] \in 1 .. Len(s.flows) /\ s.flows[s.pending[k]].key = k
    /\ \A f \in 1 .. Len(s.flows) : s.flows[f].outcome = "none" => s.pending[s.flows[f].key] = f

\* Tasks, the queue, and what comes from tasks that have left it.
TaskInv(s, messages, task) ==
    /\ Len(s.by_task) = Len(s.tasks)
    /\ \A i \in 1 .. Len(s.task_queue) : s.task_queue[i] \in 1 .. Len(s.tasks)
    /\ \A i, j \in 1 .. Len(s.task_queue) : s.task_queue[i] = s.task_queue[j] => i = j
    /\ task # None => task \in 1 .. Len(s.tasks) /\ ~InQueue(s, task)
    /\ \A i \in 1 .. Len(messages) :
          messages[i].task \in 1 .. Len(s.tasks) /\ ~InQueue(s, messages[i].task)

\* Tracked task t of flow f is one of the flow's, and has not ended.  Unless the
\* flow is the pending one, either the task has still to start, which the flow
\* will reject, or its key is gone.
Followed(s, messages, task, gone, t, f) ==
    /\ f \in 1 .. Len(s.flows) /\ t \in s.flows[f].task_ids
    /\ InQueue(s, t) \/ task = t \/ Reported(messages, t)
    /\ \/ s.flows[f].outcome = "none"
       \/ Unstarted(s, messages, t)
       \/ Gone(s, gone, s.flows[f].key)

TrackedInv(s, messages, task, gone) ==
    \A t \in 1 .. Len(s.tasks) : s.by_task[t] # None =>
        Followed(s, messages, task, gone, t, s.by_task[t])

\* Task t will tell the service that it has ended.
Ending(s, messages, task, t) ==
    \/ InQueue(s, t) \/ task = t
    \/ \E i \in 1 .. Len(messages) : messages[i].task = t /\ messages[i].outcome # "running"

\* The service follows a task of flow f that will tell it its end.
HasTask(s, messages, task, f) ==
    \E t \in s.flows[f].task_ids : s.by_task[t] = f /\ Ending(s, messages, task, t)

\* Flow f waits for its activation or for its inputs.
Waits(s, f) ==
    f \in s.waiting \/ (s.flows[f].start_condition = "batching" /\ s.plan[f] = NotPlanned)

\* A flow's tasks are its own.  No unfinished flow is forgotten, but for those
\* that the main loop has taken off the wheel and has still to give a task, and a
\* running one has its task.
AliveInv(s, messages, task, taken) ==
    /\ Len(s.plan) = Len(s.flows)
    /\ \A f \in 1 .. Len(s.flows) :
          /\ \A t \in s.flows[f].task_ids : t \in 1 .. Len(s.tasks) /\ s.tasks[t] = f
          /\ s.flows[f].outcome = "none" =>
                /\ f \in taken \/ Waits(s, f) \/ HasTask(s, messages, task, f)
                /\ s.flows[f].running => HasTask(s, messages, task, f)

CoreInv(s, messages, task, gone) ==
    /\ s \in ServiceStates
    /\ PendingInv(s)
    /\ TaskInv(s, messages, task)
    /\ TrackedInv(s, messages, task, gone)

\* Flow f is the newest of key k.
IsLast(s, f, k) ==
    /\ f \in 1 .. Len(s.flows) /\ s.flows[f].key = k
    /\ \A g \in 1 .. Len(s.flows) : s.flows[g].key = k => g <= f

\* The pending flow of a key is its newest.  An active schedule has one, unless
\* its newest flow failed or the key is in ended: its flow is over and the next
\* cycle is still to come.
AwakeInv(s, ended) ==
    /\ \A k \in Keys : s.pending[k] # None => IsLast(s, s.pending[k], k)
    /\ \A k \in s.active_configs \ ended : HasSchedule(k) =>
          \/ s.pending[k] # None
          \/ \E f \in 1 .. Len(s.flows) : IsLast(s, f, k) /\ s.flows[f].outcome = "Failed"

ServiceInv(s, messages, task, gone, ended) ==
    /\ CoreInv(s, messages, task, gone)
    /\ AliveInv(s, messages, task, {})
    /\ AwakeInv(s, ended)

\* Messages are pairs Running, Finished of one task, except for a Finished that
\* comes first and a Running of the task in execution that comes last.
ProtocolInv(messages, task) ==
    /\ \A i \in 1 .. Len(messages) :
          IF messages[i].outcome = "running"
          THEN IF i = Len(messages) THEN task = messages[i].task
               ELSE messages[i + 1].task = messages[i].task /\ messages[i + 1].outcome # "running"
          ELSE i > 1 => messages[i - 1].task = messages[i].task /\ messages[i - 1].outcome = "running"
    /\ task # None /\ messages # <<>> =>
          messages[Len(messages)].task = task /\ messages[Len(messages)].outcome = "running"
    /\ \A i, j \in 1 .. Len(messages) :
          i < j /\ messages[i].task = messages[j].task => j = i + 1 /\ messages[i].outcome = "running"

\* Users do not both delete datasets and enable configurations.
NothingRevived == "delete" \in Requests => {"set", "resume"} \cap Requests = {}

FlowInv ==
    server \in {"starting", "up"} =>
        /\ now \in Int
        /\ progress \in Seq(Messages) /\ executing \in Nat
        /\ updates \in Seq([key : Keys, paused : BOOLEAN, at : Int])
        /\ deletions \in Seq(deleted) /\ deleted \subseteq Keys
        /\ server = "starting" => deleted = {}
        /\ "delete" \in Requests => \A i \in 1 .. Len(updates) : updates[i].paused
        /\ "delete" \notin Requests => deleted = {}
        /\ ServiceInv(svc, progress, executing, deleted, {})
        /\ svc.error = "none"
        /\ ProtocolInv(progress, executing)

=============================================================================
