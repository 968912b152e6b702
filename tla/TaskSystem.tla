----------------------------- MODULE TaskSystem -----------------------------
(***************************************************************************)
(* The task scheduler and the task executor of one API server.             *)
(*                                                                         *)
(* A task is an event-sourced aggregate: each operation loads the stream,  *)
(* applies an event to the projection it loaded and appends the event to   *)
(* the store.  The store does not look at what was appended in between, so *)
(* loading and saving are separate steps here and `stored' folds the       *)
(* stream as a later load would.  Event store and queue live in memory and *)
(* go with the process; the progress messages live in the outbox, whose    *)
(* durable consumer receives them in order.                                *)
(***************************************************************************)
EXTENDS Integers, SequencesExt

CONSTANTS Callers,      \* concurrent calls of create_task and cancel_task
          MaxTasks,     \* bound: tasks created by a process
          MaxStarts     \* bound: starts of the server

ASSUME MaxTasksAssumption  == MaxTasks \in Nat
ASSUME MaxStartsAssumption == MaxStarts \in Nat

VARIABLES
    server,         \* "up", "down", or "failed": the executor returned an error
    starts,         \* how often the server was started
    last_task_id,   \* -1 before the first task
    stored,         \* task -> projection of its stored events
    task_queue,
    call,           \* caller -> the call in progress
    executor,       \* what TaskExecutorImpl::run is doing
    executions,     \* task -> how often its plan was executed
    progress,       \* committed TaskProgressMessages, from every process
    delivered       \* how many of them the outbox has delivered

vars == <<server, starts, last_task_id, stored, task_queue, call, executor, executions,
          progress, delivered>>

TaskIds == 0 .. MaxTasks - 1

-----------------------------------------------------------------------------
(* The Task aggregate *)

NoTask  == [status |-> "None", cancellation_requested |-> FALSE, replays |-> TRUE]
Queued  == [status |-> "Queued", cancellation_requested |-> FALSE, replays |-> TRUE]

Projections == [status : {"None", "Queued", "Running", "Finished"},
                cancellation_requested : BOOLEAN, replays : BOOLEAN]

\* TaskState::apply: the events a projection accepts.
Accepts(s, event) ==
    \/ event = "TaskRunning" /\ s.status = "Queued"
    \/ event = "TaskCancelled" /\ \/ s.status = "Queued"
                                  \/ s.status = "Running" /\ ~s.cancellation_requested
    \/ event = "TaskFinished" /\ s.status \in {"Queued", "Running"}

Apply(s, event) ==
    CASE event = "TaskRunning"   -> [s EXCEPT !.status = "Running"]
      [] event = "TaskCancelled" -> [s EXCEPT !.cancellation_requested = TRUE]
      [] event = "TaskFinished"  -> [s EXCEPT !.status = "Finished"]

\* Task::can_cancel, and the early return of Task::cancel.
can_cancel(s) == s.status \in {"Queued", "Running"} /\ ~s.cancellation_requested

\* EventStore::save_events appends whatever it is given: a stream that got an
\* event its projection does not accept cannot be loaded any more.
save_events(t, event) ==
    stored' = [stored EXCEPT ![t] = IF @.replays /\ Accepts(@, event)
                                    THEN Apply(@, event)
                                    ELSE [@ EXCEPT !.replays = FALSE]]

-----------------------------------------------------------------------------
(* The process *)

Idle    == [op |-> "idle"]
Waiting == [at |-> "take"]

Init ==
    /\ server = "down"
    /\ starts = 0
    /\ last_task_id = -1
    /\ stored = [t \in TaskIds |-> NoTask]
    /\ task_queue = <<>>
    /\ call = [c \in Callers |-> Idle]
    /\ executor = Waiting
    /\ executions = [t \in TaskIds |-> 0]
    /\ progress = <<>>
    /\ delivered = 0

\* Everything but the outbox is created afresh.
Start ==
    /\ server # "up"
    /\ starts < MaxStarts
    /\ server' = "up"
    /\ starts' = starts + 1
    /\ last_task_id' = -1
    /\ stored' = [t \in TaskIds |-> NoTask]
    /\ task_queue' = <<>>
    /\ call' = [c \in Callers |-> Idle]
    /\ executor' = Waiting
    /\ executions' = [t \in TaskIds |-> 0]
    /\ UNCHANGED <<progress, delivered>>

\* Shutdown, crash, or an internal error of any service of APIServer::run.
Stop ==
    /\ server = "up"
    /\ server' = "down"
    /\ UNCHANGED <<starts, last_task_id, stored, task_queue, call, executor, executions,
                   progress, delivered>>

-----------------------------------------------------------------------------
(* TaskSchedulerImpl, called from GraphQL requests and from the flow service *)

\* create_task: allocates the id and saves TaskCreated ...
create_task(c) ==
    /\ server = "up"
    /\ call[c] = Idle
    /\ last_task_id + 1 \in TaskIds
    /\ last_task_id' = last_task_id + 1
    /\ stored' = [stored EXCEPT ![last_task_id'] = Queued]
    /\ call' = [call EXCEPT ![c] = [op |-> "create", task |-> last_task_id']]
    /\ UNCHANGED <<server, starts, task_queue, executor, executions, progress, delivered>>

\* ... and then queues it.
PushBack(c) ==
    /\ server = "up"
    /\ call[c].op = "create"
    /\ task_queue' = Append(task_queue, call[c].task)
    /\ call' = [call EXCEPT ![c] = Idle]
    /\ UNCHANGED <<server, starts, last_task_id, stored, executor, executions, progress,
                   delivered>>

\* cancel_task: loads the task; one that cannot be cancelled, or whose stream
\* does not replay, ends the call here ...
cancel_task(c, t) ==
    /\ server = "up"
    /\ call[c] = Idle
    /\ stored[t].status # "None"
    /\ stored[t].replays
    /\ can_cancel(stored[t])
    /\ call' = [call EXCEPT ![c] = [op |-> "cancel", task |-> t]]
    /\ UNCHANGED <<server, starts, last_task_id, stored, task_queue, executor, executions,
                   progress, delivered>>

\* ... saves TaskCancelled ...
SaveCancelled(c) ==
    /\ server = "up"
    /\ call[c].op = "cancel"
    /\ save_events(call[c].task, "TaskCancelled")
    /\ call' = [call EXCEPT ![c] = [op |-> "retain", task |-> call[c].task]]
    /\ UNCHANGED <<server, starts, last_task_id, task_queue, executor, executions, progress,
                   delivered>>

\* A mutant of WithoutTask: the retain keeps the task instead of the others.
OnlyTask(queue, t) == SelectSeq(queue, LAMBDA x : x = t)

WithoutTask(queue, t) ==
    LET kept[n \in Nat] ==
          IF n = 0 THEN <<>>
          ELSE IF queue[n] = t THEN kept[n - 1] ELSE Append(kept[n - 1], queue[n])
    IN  kept[Len(queue)]

\* ... and takes the task out of the queue.
Retain(c) ==
    /\ server = "up"
    /\ call[c].op = "retain"
    /\ task_queue' = WithoutTask(task_queue, call[c].task)
    /\ call' = [call EXCEPT ![c] = Idle]
    /\ UNCHANGED <<server, starts, last_task_id, stored, executor, executions, progress,
                   delivered>>

-----------------------------------------------------------------------------
(* TaskExecutorImpl::run *)

\* A mutant of PopFront: the task stays queued until it has finished.
PeekFront(t) ==
    /\ t = Head(task_queue)
    /\ UNCHANGED task_queue

PopFront(t) ==
    /\ t = Head(task_queue)
    /\ task_queue' = Tail(task_queue)

\* try_take: the task leaves the queue under the lock ...
try_take ==
    /\ server = "up"
    /\ executor = Waiting
    /\ task_queue # <<>>
    /\ \E t \in TaskIds :
        /\ PopFront(t)
        /\ executor' = [at |-> "popped", task |-> t]
    /\ UNCHANGED <<server, starts, last_task_id, stored, call, executions, progress, delivered>>

\* A mutant of ExecutorFails: the error is logged and the loop goes on.
LogAndContinue ==
    /\ executor' = Waiting
    /\ UNCHANGED <<server, starts, last_task_id, stored, task_queue, call, executions,
                   progress, delivered>>

\* An error of the executor ends APIServer::run.
ExecutorFails ==
    /\ server' = "failed"
    /\ UNCHANGED <<starts, last_task_id, stored, task_queue, call, executor, executions,
                   progress, delivered>>

\* The executor moves on with its task if the load, or the event it applies to
\* what it loaded, succeeds.
MoveOnIf(succeeds, at) ==
    IF succeeds
    THEN /\ executor' = [at |-> at, task |-> executor.task]
         /\ UNCHANGED <<server, starts, last_task_id, stored, task_queue, call, executions,
                        progress, delivered>>
    ELSE ExecutorFails

\* ... is loaded and told to run, cancelled or not ...
LoadAndRun ==
    /\ server = "up"
    /\ executor.at = "popped"
    /\ LET s == stored[executor.task]
       IN  MoveOnIf(s.replays /\ Accepts(s, "TaskRunning"), "loaded")

\* ... and TaskRunning is saved.
SaveRunning ==
    /\ server = "up"
    /\ executor.at = "loaded"
    /\ save_events(executor.task, "TaskRunning")
    /\ executor' = [at |-> "taken", task |-> executor.task]
    /\ UNCHANGED <<server, starts, last_task_id, task_queue, call, executions, progress,
                   delivered>>

\* take_task loads the task it was given ...
take_task ==
    /\ server = "up"
    /\ executor.at = "taken"
    /\ MoveOnIf(stored[executor.task].replays, "posting")

Message(kind, t) == [kind |-> kind, task |-> t, process |-> starts]

\* ... and commits the Running message.
PostRunning ==
    /\ server = "up"
    /\ executor.at = "posting"
    /\ progress' = Append(progress, Message("Running", executor.task))
    /\ executor' = [at |-> "execute", task |-> executor.task]
    /\ UNCHANGED <<server, starts, last_task_id, stored, task_queue, call, executions,
                   delivered>>

\* execute_task: the plan, cancelled or not, runs to its outcome, success or
\* failure; an internal error is a Stop.
execute_task ==
    /\ server = "up"
    /\ executor.at = "execute"
    /\ executions' = [executions EXCEPT ![executor.task] = @ + 1]
    /\ executor' = [at |-> "outcome", task |-> executor.task]
    /\ UNCHANGED <<server, starts, last_task_id, stored, task_queue, call, progress, delivered>>

\* process_task_outcome refreshes the task and applies the outcome ...
process_task_outcome ==
    /\ server = "up"
    /\ executor.at = "outcome"
    /\ LET s == stored[executor.task]
       IN  MoveOnIf(s.replays /\ Accepts(s, "TaskFinished"), "finishing")

\* ... saves TaskFinished ...
SaveFinished ==
    /\ server = "up"
    /\ executor.at = "finishing"
    /\ save_events(executor.task, "TaskFinished")
    /\ executor' = [at |-> "finished", task |-> executor.task]
    /\ UNCHANGED <<server, starts, last_task_id, task_queue, call, executions, progress,
                   delivered>>

\* ... and commits the Finished message.
PostFinished ==
    /\ server = "up"
    /\ executor.at = "finished"
    /\ progress' = Append(progress, Message("Finished", executor.task))
    /\ executor' = Waiting
    /\ UNCHANGED <<server, starts, last_task_id, stored, task_queue, call, executions, delivered>>

\* The outbox hands the next message to its durable consumer (module Outbox).
Deliver ==
    /\ server = "up"
    /\ delivered < Len(progress)
    /\ delivered' = delivered + 1
    /\ UNCHANGED <<server, starts, last_task_id, stored, task_queue, call, executor,
                   executions, progress>>

ExecutorStep ==
    \/ try_take
    \/ LoadAndRun
    \/ SaveRunning
    \/ take_task
    \/ PostRunning
    \/ execute_task
    \/ process_task_outcome
    \/ SaveFinished
    \/ PostFinished

CallStep(c) == PushBack(c) \/ SaveCancelled(c) \/ Retain(c)

Next ==
    \/ Start
    \/ Stop
    \/ \E c \in Callers : create_task(c) \/ CallStep(c)
    \/ \E c \in Callers, t \in TaskIds : cancel_task(c, t)
    \/ ExecutorStep
    \/ Deliver

Spec == Init /\ [][Next]_vars

\* The server is started; a running server keeps polling its executor and the
\* calls it has accepted.  Nobody has to create or cancel anything.
FairSpec ==
    /\ Spec
    /\ WF_vars(Start)
    /\ WF_vars(ExecutorStep)
    /\ \A c \in Callers : WF_vars(CallStep(c))

-----------------------------------------------------------------------------
(* Properties *)

HeldBy(t) == {c \in Callers : call[c].op = "create" /\ call[c].task = t}
Executing(t) == executor # Waiting /\ executor.task = t

Messages == [kind : {"Running", "Finished"}, task : TaskIds, process : 0 .. MaxStarts]

TypeOK ==
    /\ server \in {"up", "down", "failed"}
    /\ starts \in 0 .. MaxStarts
    /\ last_task_id \in -1 .. MaxTasks - 1
    /\ stored \in [TaskIds -> Projections]
    /\ task_queue \in Seq(TaskIds)
    /\ call \in [Callers -> {Idle} \cup [op : {"create", "cancel", "retain"}, task : TaskIds]]
    /\ executor \in {Waiting} \cup [at : {"popped", "loaded", "taken", "posting", "execute",
                                           "outcome", "finishing", "finished"}, task : TaskIds]
    /\ executions \in [TaskIds -> Nat]
    /\ progress \in Seq(Messages)
    /\ delivered \in 0 .. Len(progress)

\* Exactly one owner: a created task that was neither run nor cancelled is in
\* the queue once, or in the hands of the one call that is about to queue it,
\* or of the executor that just popped it; what the queue holds has not run.
\* So no race of create, cancel and take loses a task or queues it twice.
EveryTaskHasOneOwner ==
    LET Owners(t) == Cardinality({i \in DOMAIN task_queue : task_queue[i] = t})
                     + Cardinality(HeldBy(t)) + (IF Executing(t) THEN 1 ELSE 0)
    IN  \A t \in TaskIds :
            /\ Owners(t) <= 1
            /\ stored[t] = Queued => Owners(t) = 1
            /\ t \in Range(task_queue) => stored[t].status = "Queued"

\* The progress messages of one process follow those of the process before, and
\* are pairs Running, Finished of one task, each task at most once; the flow
\* service relies on it to move a flow from waiting to running to finished
\* without looking at the task again.  Only a stop leaves a Running alone.
ProgressProtocol ==
    \A i \in DOMAIN progress :
        /\ progress[i].kind = "Finished" =>
              /\ i > 1
              /\ progress[i - 1].kind = "Running"
              /\ progress[i - 1].task = progress[i].task
              /\ progress[i - 1].process = progress[i].process
        /\ progress[i].kind = "Running" /\ i > 1 =>
              \/ progress[i - 1].kind = "Finished"
              \/ progress[i - 1].process < progress[i].process
        /\ \A j \in DOMAIN progress :
              /\ progress[i] = progress[j] => i = j
              /\ i < j => progress[i].process <= progress[j].process

\* A plan is executed at most once, and Finished is reported only after the
\* plan has been executed and, if the stream still replays, its outcome stored.
FinishedMeansExecuted ==
    \A t \in TaskIds :
        /\ executions[t] <= 1
        /\ Message("Finished", t) \in Range(progress) =>
              executions[t] = 1 /\ (stored[t].replays => stored[t].status = "Finished")

TasksInv == TypeOK /\ EveryTaskHasOneOwner /\ FinishedMeansExecuted

\* The executor, and with it the server, fails over nothing but a stream that
\* concurrent saves have broken: whatever it takes off the queue may be run, and
\* what it has run may be finished, cancelled early, late or not at all.
FailsOnlyOnBrokenStream ==
    server = "failed" => \E t \in TaskIds : ~stored[t].replays

\* "Refresh the task in case it was updated concurrently (e.g. late cancellation)":
\* no cancellation makes the executor fail.
ExecutorSurvives == server # "failed"

\* A task that nobody cancels is eventually finished, as long as the server
\* stays up.
EventuallyFinished ==
    \A t \in TaskIds :
        (stored[t] = Queued) ~> (stored[t].status = "Finished"
                                  \/ stored[t].cancellation_requested \/ server # "up")

-----------------------------------------------------------------------------
(* The inductive invariant *)

Created(t) == stored[t].status # "None"
Begun(t)   == stored[t].status \in {"Running", "Finished"}
Pending(t) == stored[t].status = "Queued" /\ ~stored[t].cancellation_requested

\* What the stream of a task says, by what is going on with the task.
StreamInv ==
    /\ \A t \in TaskIds :
          /\ Created(t) <=> t <= last_task_id
          /\ ~Created(t) => stored[t] = NoTask
          /\ stored[t].status = "Queued" => stored[t].replays
          /\ stored[t].status = "Running" /\ stored[t].replays => Executing(t)
    /\ \A c \in Callers : call[c] # Idle =>
          /\ Created(call[c].task)
          /\ call[c].op = "create" => stored[call[c].task].status = "Queued"
          /\ call[c].op = "retain" => ~Pending(call[c].task)
    /\ \A i \in DOMAIN task_queue : stored[task_queue[i]].status = "Queued"
    /\ executor # Waiting =>
          CASE executor.at \in {"popped", "loaded"} -> stored[executor.task].status = "Queued"
            [] executor.at = "finished" ->
                 /\ Begun(executor.task)
                 /\ stored[executor.task].replays => stored[executor.task].status = "Finished"
            [] OTHER -> stored[executor.task].status = "Running"

\* The queue, the calls that create and the executor do not share a task ...
OwnerInv ==
    /\ \A i, j \in DOMAIN task_queue : task_queue[i] = task_queue[j] => i = j
    /\ \A i \in DOMAIN task_queue : ~Executing(task_queue[i])
    /\ \A c \in Callers : call[c].op = "create" =>
          /\ ~Executing(call[c].task)
          /\ \A i \in DOMAIN task_queue : task_queue[i] # call[c].task
          /\ \A d \in Callers : call[d].op = "create" /\ call[d].task = call[c].task => c = d

\* ... and one that can still be run and was not cancelled is with one of them.
PendingInv ==
    \A t \in TaskIds : Pending(t) =>
        \/ Executing(t)
        \/ \E i \in DOMAIN task_queue : task_queue[i] = t
        \/ \E c \in Callers : call[c].op = "create" /\ call[c].task = t

\* What was executed and what was reported, by how far a task has come.
OutcomeInv ==
    \A t \in TaskIds :
        /\ executions[t] = (IF ~Begun(t) \/ (Executing(t) /\ executor.at \in
                                               {"taken", "posting", "execute"}) THEN 0 ELSE 1)
        /\ \A i \in DOMAIN progress : progress[i] = Message("Running", t) =>
              Begun(t) /\ ~(Executing(t) /\ executor.at \in {"taken", "posting"})
        /\ \A i \in DOMAIN progress : progress[i] = Message("Finished", t) =>
              Begun(t) /\ ~Executing(t)

\* Where the executor is, by the last message.
ProgressInv ==
    /\ ProgressProtocol
    /\ \A i \in DOMAIN progress : progress[i].process <= starts
    /\ IF executor # Waiting /\ executor.at \in {"execute", "outcome", "finishing", "finished"}
       THEN progress # <<>> /\ progress[Len(progress)] = Message("Running", executor.task)
       ELSE progress = <<>> \/ progress[Len(progress)].kind = "Finished"
                            \/ progress[Len(progress)].process < starts

TaskInv ==
    /\ TypeOK
    /\ StreamInv
    /\ OwnerInv
    /\ PendingInv
    /\ OutcomeInv
    /\ ProgressInv
    /\ FailsOnlyOnBrokenStream

=============================================================================
