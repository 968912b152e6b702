-------------------------- MODULE TaskSystemProofs --------------------------
(***************************************************************************)
(* Proofs about the task system, for any number of tasks, of callers and   *)
(* of starts of the server: TaskInv is inductive, and the invariants that  *)
(* TLC checks follow from it.                                              *)
(***************************************************************************)
EXTENDS TaskSystem, SequenceLemmas, FiniteSetTheorems

-----------------------------------------------------------------------------
(* The retain of cancel_task *)

\* f[n] is what the retain leaves of the first n tasks of the queue.
Retained(f, queue, t) ==
    /\ f[0] = <<>>
    /\ \A n \in Nat :
          f[n + 1] = IF queue[n + 1] = t THEN f[n] ELSE Append(f[n], queue[n + 1])

\* The recursion that defines WithoutTask is well-founded.
LEMMA WithoutTaskRecursion ==
  ASSUME NEW S, NEW queue \in Seq(S), NEW t
  PROVE  \E f : WithoutTask(queue, t) = f[Len(queue)] /\ Retained(f, queue, t)
<1> DEFINE Def(f) == [n \in Nat |-> IF n = 0 THEN <<>>
                                    ELSE IF queue[n] = t THEN f[n - 1]
                                         ELSE Append(f[n - 1], queue[n])]
           X == Seq({queue[n] : n \in Nat})
           base == <<>>
           step == [n \in Nat |-> [s \in X |-> IF queue[n + 1] = t THEN s
                                               ELSE Append(s, queue[n + 1])]]
<1>1. step \in [Nat -> [X -> X]] /\ base \in X
  <2>1. ASSUME NEW n \in Nat, NEW s \in X
        PROVE  (IF queue[n + 1] = t THEN s ELSE Append(s, queue[n + 1])) \in X
    OBVIOUS
  <2>2. QED  BY <2>1
<1>2. PICK f \in [Nat -> X] : Recursive(f, base, step)
  <2> HIDE DEF X, step, base
  <2> QED  BY <1>1, NatRecursion
<1>3. \A n \in Nat : f[n + 1] = IF queue[n + 1] = t THEN f[n] ELSE Append(f[n], queue[n + 1])
  BY <1>2 DEF Recursive
<1>4. f = Def(f)
  <2>1. ASSUME NEW n \in Nat PROVE f[n] = Def(f)[n]
    <3>1. CASE n = 0
      BY <1>2, <3>1 DEF Recursive
    <3>2. CASE n # 0
      <4>1. n - 1 \in Nat /\ (n - 1) + 1 = n
        BY <3>2
      <4>2. QED  BY <1>3, <3>2, <4>1
    <3>3. QED  BY <3>1, <3>2
  <2>2. QED  BY <1>2, <2>1
<1> DEFINE g == CHOOSE h : h = Def(h)
<1>5. g = Def(g)
  <2> HIDE DEF Def
  <2> QED  BY <1>4
<1>6. WithoutTask(queue, t) = g[Len(queue)]
  BY DEF WithoutTask
<1> HIDE DEF g
<1>7. g[0] = <<>>
  BY <1>5
<1>8. ASSUME NEW n \in Nat
      PROVE  g[n + 1] = IF queue[n + 1] = t THEN g[n] ELSE Append(g[n], queue[n + 1])
  <2>1. n + 1 \in Nat /\ n + 1 # 0 /\ (n + 1) - 1 = n
    OBVIOUS
  <2>2. Def(g)[n + 1] = IF queue[n + 1] = t THEN g[n] ELSE Append(g[n], queue[n + 1])
    BY <2>1
  <2> HIDE DEF Def
  <2>3. QED  BY <1>5, <2>2
<1>9. QED  BY <1>6, <1>7, <1>8 DEF Retained

\* No element is there twice.
Distinct(s) == \A i, j \in 1..Len(s) : s[i] = s[j] => i = j

\* The retain removes the task and nothing else, and adds nothing.
LEMMA WithoutTaskKeepsOthers ==
  ASSUME NEW S, NEW queue \in Seq(S), NEW t
  PROVE  /\ WithoutTask(queue, t) \in Seq(S)
         /\ \A x \in S : (\E i \in 1..Len(WithoutTask(queue, t)) : WithoutTask(queue, t)[i] = x)
                           <=> (x # t /\ \E i \in 1..Len(queue) : queue[i] = x)
         /\ Distinct(queue) => Distinct(WithoutTask(queue, t))
<1>1. PICK f : WithoutTask(queue, t) = f[Len(queue)] /\ Retained(f, queue, t)
  BY WithoutTaskRecursion
<1> DEFINE Kept(n) == /\ f[n] \in Seq(S)
                      /\ \A x \in S : (\E i \in 1..Len(f[n]) : f[n][i] = x)
                                        <=> (x # t /\ \E i \in 1..n : queue[i] = x)
                      /\ Distinct(queue) => Distinct(f[n])
           T == {n \in Nat : n <= Len(queue) => Kept(n)}
<1>2. 0 \in T
  <2>1. f[0] = <<>> /\ <<>> \in Seq(S) /\ Len(<<>>) = 0
    BY <1>1 DEF Retained
  <2>2. Kept(0)
    BY <2>1 DEF Distinct
  <2>3. QED  BY <2>2
<1>3. ASSUME NEW n \in Nat, n \in T PROVE n + 1 \in T
  <2> SUFFICES ASSUME n + 1 <= Len(queue) PROVE Kept(n + 1)
    OBVIOUS
  <2>1. Kept(n)
    BY <1>3
  <2>2. queue[n + 1] \in S /\ \A i \in 1..n : i \in 1..Len(queue) /\ i # n + 1
    OBVIOUS
  <2>3. CASE queue[n + 1] = t
    <3>1. f[n + 1] = f[n]
      BY <1>1, <2>3 DEF Retained
    <3>2. \A x \in S : x # t =>
            ((\E i \in 1..n : queue[i] = x) <=> (\E i \in 1..(n + 1) : queue[i] = x))
      BY <2>3
    <3>3. QED  BY <2>1, <3>1, <3>2
  <2>4. CASE queue[n + 1] # t
    <3> DEFINE s == f[n]
               e == queue[n + 1]
    <3>1. f[n + 1] = Append(s, e)
      BY <1>1, <2>4 DEF Retained
    <3>2. s \in Seq(S) /\ e \in S
      BY <2>1, <2>2
    <3>3. /\ Append(s, e) \in Seq(S)
          /\ Len(Append(s, e)) = Len(s) + 1
          /\ Append(s, e)[Len(s) + 1] = e
          /\ \A i \in 1..Len(s) : Append(s, e)[i] = s[i]
      BY <3>2
    <3>4. ASSUME NEW x \in S
          PROVE  (\E i \in 1..Len(Append(s, e)) : Append(s, e)[i] = x)
                   <=> (x # t /\ \E i \in 1..(n + 1) : queue[i] = x)
      <4>1. (\E i \in 1..Len(Append(s, e)) : Append(s, e)[i] = x)
              <=> ((\E i \in 1..Len(s) : s[i] = x) \/ x = e)
        <5> HIDE DEF s, e
        <5> QED  BY <3>2, <3>3
      <4>2. (\E i \in 1..(n + 1) : queue[i] = x) <=> ((\E i \in 1..n : queue[i] = x) \/ x = e)
        OBVIOUS
      <4>3. QED  BY <2>1, <2>4, <4>1, <4>2
    <3>5. ASSUME Distinct(queue) PROVE Distinct(Append(s, e))
      <4>1. Distinct(s) /\ \A i \in 1..Len(s) : s[i] # e
        <5>1. ~\E i \in 1..n : queue[i] = e
          BY <2>2, <3>5 DEF Distinct
        <5>2. QED  BY <2>1, <3>2, <3>5, <5>1
      <4> HIDE DEF s, e
      <4>2. QED  BY <3>2, <3>3, <4>1 DEF Distinct
    <3>6. QED  BY <3>1, <3>3, <3>4, <3>5
  <2>5. QED  BY <2>3, <2>4
<1>4. \A n \in Nat : n \in T
  <2> HIDE DEF T
  <2> QED  BY <1>2, <1>3, NatIsLeastInductiveSet
<1>5. Len(queue) \in Nat
  OBVIOUS
<1>6. Kept(Len(queue))
  BY <1>4, <1>5
<1>7. QED  BY <1>1, <1>6

-----------------------------------------------------------------------------
(* The steps *)

Stages == {"popped", "loaded", "taken", "posting", "execute", "outcome", "finishing", "finished"}

\* A call or an executor that is not idle has a task.
Busy ==
    /\ executor = Waiting \/ (executor # Waiting /\ executor.at \in Stages
                                              /\ executor.task \in TaskIds)
    /\ \A c \in Callers :
          call[c] = Idle \/ (call[c] # Idle /\ call[c].op \in {"create", "cancel", "retain"}
                                            /\ call[c].task \in TaskIds)

\* What the type invariant says of calls and executor, in the form the steps use.
LEMMA BusyHasTask == ASSUME TypeOK PROVE Busy
  BY DEF TypeOK, Busy, Stages, Waiting, Idle

\* What the type invariant says of the committed messages.
LEMMA MessageTypes ==
  ASSUME TypeOK
  PROVE  \A i \in DOMAIN progress : progress[i] \in Messages /\ progress[i].process \in Int
<1>1. \A i \in DOMAIN progress : progress[i] \in Messages
  BY DEF TypeOK
<1>2. \A m \in Messages : m.process \in Int
  BY MaxStartsAssumption DEF Messages
<1>3. QED  BY <1>1, <1>2

\* What save_events leaves of the projections.
Saved(t, event) ==
    LET ok == stored[t].replays /\ Accepts(stored[t], event)
    IN  /\ stored' \in [TaskIds -> Projections]
        /\ \A u \in TaskIds : u # t => stored'[u] = stored[u]
        /\ stored'[t].replays = ok
        /\ stored'[t].status = (IF ok /\ event = "TaskRunning" THEN "Running"
                                ELSE IF ok /\ event = "TaskFinished" THEN "Finished"
                                ELSE stored[t].status)
        /\ stored'[t].cancellation_requested =
              (IF ok /\ event = "TaskCancelled" THEN TRUE ELSE stored[t].cancellation_requested)

\* A save changes the projection of its task only, and never to an unknown one.
LEMMA SaveEvents ==
  ASSUME stored \in [TaskIds -> Projections], NEW t \in TaskIds,
         NEW event \in {"TaskRunning", "TaskCancelled", "TaskFinished"},
         save_events(t, event)
  PROVE  Saved(t, event)
<1> DEFINE s == stored[t]
           ok == s.replays /\ Accepts(s, event)
           n == IF ok THEN Apply(s, event) ELSE [s EXCEPT !.replays = FALSE]
<1>1. s \in Projections
  OBVIOUS
<1>2. ok \in BOOLEAN
  BY DEF Projections, Accepts
<1>3. n \in Projections
  BY <1>1, <1>2 DEF Projections, Apply
<1>4. stored' = [stored EXCEPT ![t] = n]
  BY DEF save_events
<1>5. n.replays = ok
  BY <1>1, <1>2 DEF Projections, Apply
<1>6. n.status = (IF ok /\ event = "TaskRunning" THEN "Running"
                  ELSE IF ok /\ event = "TaskFinished" THEN "Finished" ELSE s.status)
  BY <1>1, <1>2 DEF Projections, Apply
<1>7. n.cancellation_requested =
        (IF ok /\ event = "TaskCancelled" THEN TRUE ELSE s.cancellation_requested)
  BY <1>1, <1>2 DEF Projections, Apply
<1>8. QED
  <2> HIDE DEF n
  <2> QED  BY <1>3, <1>4, <1>5, <1>6, <1>7 DEF Saved

\* The protocol of progress messages is about the messages alone.
LEMMA ProtocolKept ==
  ASSUME ProgressProtocol, progress' = progress
  PROVE  ProgressProtocol'
BY DEF ProgressProtocol

\* A start forgets the tasks; the messages of earlier processes stay.
LEMMA StartPreserves ==
  ASSUME TaskInv, Start
  PROVE  TaskInv'
<1> USE MaxTasksAssumption, MaxStartsAssumption DEF TaskInv, TaskIds, Idle, Waiting
<1>b. Busy
  BY BusyHasTask
<1>1. TypeOK'
  BY DEF Start, TypeOK, Messages, Message, Projections, Queued, NoTask
<1>2. StreamInv'
  BY DEF Start, StreamInv, Created, Begun, Pending, Executing, NoTask, TypeOK
<1>3. OwnerInv'
  BY DEF Start, OwnerInv, Executing
<1>4. PendingInv'
  BY DEF Start, PendingInv, Pending, NoTask
<1>5. OutcomeInv'
  <2>1. \A i \in DOMAIN progress : progress[i].process <= starts /\ progress[i].process \in Int
    BY MessageTypes DEF ProgressInv
  <2>2. starts' = starts + 1 /\ starts \in Int /\ progress' = progress
    BY DEF Start, TypeOK
  <2>3. \A i \in DOMAIN progress : progress[i].process # starts'
    BY <2>1, <2>2
  <2>4. QED  BY <2>2, <2>3 DEF Start, OutcomeInv, Begun, NoTask, Message
<1>6. ProgressInv'
  <2>1. \A i \in DOMAIN progress : progress[i].process <= starts /\ progress[i].process \in Int
    BY MessageTypes DEF ProgressInv
  <2>2. starts' = starts + 1 /\ starts \in Int /\ progress' = progress /\ executor' = Waiting
    BY DEF Start, TypeOK
  <2>3. progress # <<>> => Len(progress) \in DOMAIN progress
    BY DEF TypeOK
  <2>4. ProgressProtocol'
    BY <2>2, ProtocolKept DEF ProgressInv
  <2>5. QED  BY <2>1, <2>2, <2>3, <2>4 DEF ProgressInv
<1>7. FailsOnlyOnBrokenStream'
  BY DEF Start, FailsOnlyOnBrokenStream
<1>8. QED  BY <1>1, <1>2, <1>3, <1>4, <1>5, <1>6, <1>7

\* A stop changes nothing but the server.
LEMMA StopPreserves ==
  ASSUME TaskInv, Stop
  PROVE  TaskInv'
<1> USE MaxTasksAssumption, MaxStartsAssumption DEF TaskInv, TaskIds, Idle, Waiting
<1>b. Busy
  BY BusyHasTask
<1>1. TypeOK'
  BY DEF Stop, TypeOK
<1>2. StreamInv'
  BY DEF Stop, StreamInv, Created, Begun, Pending, Executing
<1>3. OwnerInv'
  BY DEF Stop, OwnerInv, Executing
<1>4. PendingInv'
  BY DEF Stop, PendingInv, Pending, Executing
<1>5. OutcomeInv'
  BY DEF Stop, OutcomeInv, Begun, Executing, Message
<1>6. ProgressInv'
  BY DEF Stop, ProgressInv, ProgressProtocol, Message
<1>7. FailsOnlyOnBrokenStream'
  BY DEF Stop, FailsOnlyOnBrokenStream
<1>8. QED  BY <1>1, <1>2, <1>3, <1>4, <1>5, <1>6, <1>7

\* A delivery changes nothing but the consumer's position.
LEMMA DeliverPreserves ==
  ASSUME TaskInv, Deliver
  PROVE  TaskInv'
<1> USE MaxTasksAssumption, MaxStartsAssumption DEF TaskInv, TaskIds, Idle, Waiting
<1>b. Busy
  BY BusyHasTask
<1>1. TypeOK'
  BY DEF Deliver, TypeOK
<1>2. StreamInv'
  BY DEF Deliver, StreamInv, Created, Begun, Pending, Executing
<1>3. OwnerInv'
  BY DEF Deliver, OwnerInv, Executing
<1>4. PendingInv'
  BY DEF Deliver, PendingInv, Pending, Executing
<1>5. OutcomeInv'
  BY DEF Deliver, OutcomeInv, Begun, Executing, Message
<1>6. ProgressInv'
  BY DEF Deliver, ProgressInv, ProgressProtocol, Message
<1>7. FailsOnlyOnBrokenStream'
  BY DEF Deliver, FailsOnlyOnBrokenStream
<1>8. QED  BY <1>1, <1>2, <1>3, <1>4, <1>5, <1>6, <1>7

\* The new id is above every id in use, so nobody else holds the new task.
LEMMA CreateTaskPreserves ==
  ASSUME TaskInv, NEW c \in Callers, create_task(c)
  PROVE  TaskInv'
<1> USE MaxTasksAssumption, MaxStartsAssumption DEF TaskInv, TaskIds, Idle, Waiting
<1>b. Busy
  BY BusyHasTask
<1> DEFINE new == last_task_id + 1
<1>c. /\ new \in TaskIds /\ ~Created(new) /\ stored[new] = NoTask
      /\ stored' = [stored EXCEPT ![new] = Queued]
      /\ call' = [call EXCEPT ![c] = [op |-> "create", task |-> new]]
      /\ call[c] = Idle /\ last_task_id' = new
      /\ UNCHANGED <<server, starts, task_queue, executor, executions, progress, delivered>>
  BY DEF create_task, StreamInv, TypeOK
<1>d. /\ \A t \in TaskIds : t # new => stored'[t] = stored[t]
      /\ stored'[new] = Queued
  BY <1>c DEF TypeOK
<1>e. /\ \A d \in Callers : d # c => call'[d] = call[d]
      /\ call'[c].op = "create" /\ call'[c].task = new /\ call'[c] # Idle
  BY <1>c DEF TypeOK
<1>f. /\ ~Executing(new)
      /\ \A i \in DOMAIN task_queue : task_queue[i] # new
      /\ \A d \in Callers : call[d] # Idle => call[d].task # new
  BY <1>c, <1>b DEF StreamInv, Created, Begun, Executing, Busy, Stages, NoTask
<1> HIDE DEF new
<1>1. TypeOK'
  BY DEF create_task, TypeOK, Projections, Queued
<1>2. StreamInv'
  <2>1. ASSUME NEW t \in TaskIds
        PROVE  (/\ Created(t) <=> t <= last_task_id
                /\ ~Created(t) => stored[t] = NoTask
                /\ stored[t].status = "Queued" => stored[t].replays
                /\ stored[t].status = "Running" /\ stored[t].replays => Executing(t))'
    <3>1. CASE t = new
      BY <1>c, <1>d, <3>1 DEF Created, Queued, new
    <3>2. CASE t # new
      <4>1. Created(t) => t <= new
        BY <1>c DEF StreamInv, new, TypeOK
      <4>2. t <= new => Created(t)
        BY <1>c, <3>2 DEF StreamInv, new, TypeOK
      <4>3. QED  BY <1>c, <1>d, <3>2, <4>1, <4>2 DEF StreamInv, Created, Executing
    <3>3. QED  BY <3>1, <3>2
  <2>2. \A d \in Callers : (call[d] # Idle =>
            /\ Created(call[d].task)
            /\ call[d].op = "create" => stored[call[d].task].status = "Queued"
            /\ call[d].op = "retain" => ~Pending(call[d].task))'
    BY <1>b, <1>c, <1>d, <1>e, <1>f DEF StreamInv, Created, Pending, Busy, Queued
  <2>3. \A i \in DOMAIN task_queue' : stored'[task_queue'[i]].status = "Queued"
    BY <1>c, <1>d, <1>f DEF StreamInv, TypeOK
  <2>4. executor # Waiting => executor.task \in TaskIds /\ executor.task # new
    BY <1>b, <1>f DEF Busy, Executing
  <2>5. QED  BY <1>c, <1>d, <2>1, <2>2, <2>3, <2>4 DEF StreamInv, Begun
<1>3. OwnerInv'
  BY <1>b, <1>c, <1>e, <1>f DEF OwnerInv, Executing, Busy
<1>4. PendingInv'
  <2>1. ASSUME NEW t \in TaskIds, t # new, Pending(t)'
        PROVE  \/ Executing(t)'
               \/ \E i \in DOMAIN task_queue' : task_queue'[i] = t
               \/ \E d \in Callers : call'[d].op = "create" /\ call'[d].task = t
    <3>1. Pending(t)
      BY <1>d, <2>1 DEF Pending
    <3>2. CASE Executing(t)
      BY <1>c, <3>2 DEF Executing
    <3>3. CASE \E i \in DOMAIN task_queue : task_queue[i] = t
      BY <1>c, <3>3
    <3>4. CASE \E d \in Callers : call[d].op = "create" /\ call[d].task = t
      BY <1>c, <1>e, <3>4
    <3>5. QED  BY <3>1, <3>2, <3>3, <3>4 DEF PendingInv
  <2>2. QED  BY <1>e, <2>1 DEF PendingInv
<1>5. OutcomeInv'
  BY <1>c, <1>d, <1>f DEF OutcomeInv, Begun, Executing, Message, NoTask, Queued
<1>6. ProgressInv'
  BY <1>c DEF ProgressInv, ProgressProtocol, Message
<1>7. FailsOnlyOnBrokenStream'
  BY <1>c DEF create_task, FailsOnlyOnBrokenStream
<1>8. QED  BY <1>1, <1>2, <1>3, <1>4, <1>5, <1>6, <1>7

\* The task passes from the call to the queue.
LEMMA PushBackPreserves ==
  ASSUME TaskInv, NEW c \in Callers, PushBack(c)
  PROVE  TaskInv'
<1> USE MaxTasksAssumption, MaxStartsAssumption DEF TaskInv, TaskIds, Idle, Waiting
<1>b. Busy
  BY BusyHasTask
<1> DEFINE t == call[c].task
<1>c. /\ t \in TaskIds /\ call[c].op = "create" /\ call[c] # Idle
      /\ task_queue' = Append(task_queue, t)
      /\ call' = [call EXCEPT ![c] = Idle]
      /\ UNCHANGED <<server, starts, last_task_id, stored, executor, executions,
                     progress, delivered>>
  BY <1>b DEF PushBack, Busy
<1>d. /\ \A d \in Callers : d # c => call'[d] = call[d]
      /\ call'[c] = Idle
  BY <1>c DEF TypeOK
<1>e. /\ task_queue' \in Seq(TaskIds) /\ DOMAIN task_queue' = 1..(Len(task_queue) + 1)
      /\ DOMAIN task_queue = 1..Len(task_queue) /\ Len(task_queue) \in Nat
      /\ \A i \in 1..Len(task_queue) : task_queue'[i] = task_queue[i]
      /\ task_queue'[Len(task_queue) + 1] = t
  BY <1>c DEF TypeOK
<1> HIDE DEF t
<1>1. TypeOK'
  BY <1>c, <1>d, <1>e DEF TypeOK
<1>2. StreamInv'
  <2>1. stored[t].status = "Queued"
    BY <1>c DEF StreamInv, t
  <2>2. \A i \in DOMAIN task_queue' : stored[task_queue'[i]].status = "Queued"
    BY <1>e, <2>1 DEF StreamInv
  <2>3. QED  BY <1>c, <1>d, <2>2 DEF StreamInv, Created, Begun, Pending, Executing
<1>3. OwnerInv'
  <2>1. ~Executing(t) /\ \A i \in DOMAIN task_queue : task_queue[i] # t
    BY <1>c DEF OwnerInv, t
  <2>2. \A d \in Callers : d # c /\ call[d].op = "create" => call[d].task # t
    BY <1>c DEF OwnerInv, t
  <2>3. QED  BY <1>c, <1>d, <1>e, <2>1, <2>2 DEF OwnerInv, Executing
<1>4. PendingInv'
  <2>1. ASSUME NEW u \in TaskIds, Pending(u)'
        PROVE  \/ Executing(u)'
               \/ \E i \in DOMAIN task_queue' : task_queue'[i] = u
               \/ \E d \in Callers : call'[d].op = "create" /\ call'[d].task = u
    <3>1. Pending(u)
      BY <1>c, <2>1 DEF Pending
    <3>2. CASE Executing(u)
      BY <1>c, <3>2 DEF Executing
    <3>3. CASE \E i \in DOMAIN task_queue : task_queue[i] = u
      BY <1>e, <3>3
    <3>4. CASE \E d \in Callers : call[d].op = "create" /\ call[d].task = u
      BY <1>d, <1>e, <3>4 DEF t
    <3>5. QED  BY <3>1, <3>2, <3>3, <3>4 DEF PendingInv
  <2>2. QED  BY <2>1 DEF PendingInv
<1>5. OutcomeInv'
  BY <1>c DEF OutcomeInv, Begun, Executing, Message
<1>6. ProgressInv'
  BY <1>c DEF ProgressInv, ProgressProtocol, Message
<1>7. FailsOnlyOnBrokenStream'
  BY <1>c DEF FailsOnlyOnBrokenStream
<1>8. QED  BY <1>1, <1>2, <1>3, <1>4, <1>5, <1>6, <1>7

\* A call that loaded a created task holds nothing yet.
LEMMA CancelTaskPreserves ==
  ASSUME TaskInv, NEW c \in Callers, NEW t \in TaskIds, cancel_task(c, t)
  PROVE  TaskInv'
<1> USE MaxTasksAssumption, MaxStartsAssumption DEF TaskInv, TaskIds, Idle, Waiting
<1>b. Busy
  BY BusyHasTask
<1>c. /\ call' = [call EXCEPT ![c] = [op |-> "cancel", task |-> t]] /\ call[c] = Idle
      /\ Created(t)
      /\ UNCHANGED <<server, starts, last_task_id, stored, task_queue, executor,
                     executions, progress, delivered>>
  BY DEF cancel_task, Created
<1>d. /\ \A d \in Callers : d # c => call'[d] = call[d]
      /\ call'[c].op = "cancel" /\ call'[c].task = t
  BY <1>c DEF TypeOK
<1>1. TypeOK'
  BY <1>c DEF TypeOK
<1>2. StreamInv'
  BY <1>c, <1>d DEF StreamInv, Created, Begun, Pending, Executing
<1>3. OwnerInv'
  BY <1>c, <1>d DEF OwnerInv, Executing
<1>4. PendingInv'
  <2>1. \A u \in TaskIds : (\E d \in Callers : call[d].op = "create" /\ call[d].task = u)
            => \E d \in Callers : call'[d].op = "create" /\ call'[d].task = u
    BY <1>c, <1>d
  <2>2. QED  BY <1>c, <2>1 DEF PendingInv, Pending, Executing
<1>5. OutcomeInv'
  BY <1>c DEF OutcomeInv, Begun, Executing, Message
<1>6. ProgressInv'
  BY <1>c DEF ProgressInv, ProgressProtocol, Message
<1>7. FailsOnlyOnBrokenStream'
  BY <1>c DEF FailsOnlyOnBrokenStream
<1>8. QED  BY <1>1, <1>2, <1>3, <1>4, <1>5, <1>6, <1>7

\* The save of a cancellation: the task may meanwhile have been taken or finished.
LEMMA SaveCancelledPreserves ==
  ASSUME TaskInv, NEW c \in Callers, SaveCancelled(c)
  PROVE  TaskInv'
<1> USE MaxTasksAssumption, MaxStartsAssumption DEF TaskInv, TaskIds, Idle, Waiting
<1>b. Busy
  BY BusyHasTask
<1>a. call[c].task \in TaskIds /\ call[c].op = "cancel" /\ Created(call[c].task)
  BY <1>b DEF SaveCancelled, Busy, StreamInv
<1>c. PICK t \in TaskIds :
        /\ call[c].task = t /\ call[c].op = "cancel" /\ Created(t)
        /\ call' = [call EXCEPT ![c] = [op |-> "retain", task |-> t]]
        /\ UNCHANGED <<server, starts, last_task_id, task_queue, executor, executions,
                       progress, delivered>>
  BY <1>a DEF SaveCancelled, Created
<1>d. Saved(t, "TaskCancelled")
  <2>1. save_events(t, "TaskCancelled")
    BY <1>c DEF SaveCancelled, save_events
  <2>2. QED  BY <2>1, SaveEvents DEF TypeOK
<1>e. /\ \A d \in Callers : d # c => call'[d] = call[d]
      /\ call'[c].op = "retain" /\ call'[c].task = t
  BY <1>c DEF TypeOK
<1>f. \A u \in TaskIds :
        /\ stored'[u].status = stored[u].status
        /\ stored'[u].replays => stored[u].replays
        /\ stored'[u].status = "Queued" => stored'[u].replays
        /\ ~Created(u) => stored'[u] = stored[u]
        /\ Pending(u)' => Pending(u)
  <2> TAKE u \in TaskIds
  <2>1. CASE u # t
    BY <1>d, <2>1 DEF Saved, Pending, StreamInv
  <2>2. CASE u = t
    <3>1. stored[t] \in Projections
      BY DEF TypeOK
    <3>2. stored'[t].status = stored[t].status
      BY <1>d DEF Saved
    <3>3. stored'[t].replays => stored[t].replays
      BY <1>d, <3>1 DEF Saved, Projections
    <3>4. stored[t].status = "Queued" => stored'[t].replays
      BY <1>d DEF Saved, Accepts, StreamInv
    <3>5. ~stored'[t].cancellation_requested => ~stored[t].cancellation_requested
      BY <1>d, <3>1 DEF Saved, Projections
    <3>6. QED  BY <1>c, <2>2, <3>2, <3>3, <3>4, <3>5 DEF Pending, Created
  <2>3. QED  BY <2>1, <2>2
<1>g. ~Pending(t)'
  <2>1. CASE stored[t].status = "Queued"
    <3>1. stored[t].replays /\ Accepts(stored[t], "TaskCancelled")
      BY <1>c, <2>1 DEF StreamInv, Accepts
    <3>2. stored'[t].cancellation_requested = TRUE
      BY <1>d, <3>1 DEF Saved
    <3>3. QED  BY <3>2 DEF Pending
  <2>2. CASE stored[t].status # "Queued"
    BY <1>c, <1>f, <2>2 DEF Pending
  <2>3. QED  BY <2>1, <2>2
<1>1. TypeOK'
  BY <1>c, <1>d DEF TypeOK, Saved
<1>2. StreamInv'
  <2>1. ASSUME NEW u \in TaskIds
        PROVE  (/\ Created(u) <=> u <= last_task_id
                /\ ~Created(u) => stored[u] = NoTask
                /\ stored[u].status = "Queued" => stored[u].replays
                /\ stored[u].status = "Running" /\ stored[u].replays => Executing(u))'
    BY <1>c, <1>f DEF StreamInv, Created, Executing
  <2>2. ASSUME NEW d \in Callers
        PROVE  (call[d] # Idle =>
                  /\ Created(call[d].task)
                  /\ call[d].op = "create" => stored[call[d].task].status = "Queued"
                  /\ call[d].op = "retain" => ~Pending(call[d].task))'
    <3>1. CASE d = c
      BY <1>c, <1>e, <1>f, <1>g, <3>1 DEF Created
    <3>2. CASE d # c
      BY <1>b, <1>c, <1>e, <1>f, <3>2 DEF StreamInv, Created, Busy
    <3>3. QED  BY <3>1, <3>2
  <2>3. \A i \in DOMAIN task_queue' : stored'[task_queue'[i]].status = "Queued"
    <3>1. \A i \in DOMAIN task_queue : task_queue[i] \in TaskIds
      BY DEF TypeOK
    <3>2. QED  BY <1>c, <1>f, <3>1 DEF StreamInv
  <2>4. QED  BY <1>b, <1>c, <1>f, <2>1, <2>2, <2>3 DEF StreamInv, Begun, Busy
<1>3. OwnerInv'
  BY <1>c, <1>e DEF OwnerInv, Executing
<1>4. PendingInv'
  <2>1. \A u \in TaskIds : (\E d \in Callers : call[d].op = "create" /\ call[d].task = u)
            => \E d \in Callers : call'[d].op = "create" /\ call'[d].task = u
    BY <1>c, <1>e
  <2>2. QED  BY <1>c, <1>f, <2>1 DEF PendingInv, Executing
<1>5. OutcomeInv'
  BY <1>c, <1>f DEF OutcomeInv, Begun, Executing, Message
<1>6. ProgressInv'
  BY <1>c DEF ProgressInv, ProgressProtocol, Message
<1>7. FailsOnlyOnBrokenStream'
  <2>1. \A u \in TaskIds : stored[u].replays = FALSE => stored'[u].replays = FALSE
    BY <1>f, <1>d DEF TypeOK, Projections, Saved
  <2>2. QED  BY <1>c, <1>f, <2>1 DEF FailsOnlyOnBrokenStream
<1>8. QED  BY <1>1, <1>2, <1>3, <1>4, <1>5, <1>6, <1>7

\* The task leaves the queue; it was cancelled, so it need not be anywhere.
LEMMA RetainPreserves ==
  ASSUME TaskInv, NEW c \in Callers, Retain(c)
  PROVE  TaskInv'
<1> USE MaxTasksAssumption, MaxStartsAssumption DEF TaskInv, TaskIds, Idle, Waiting
<1>b. Busy
  BY BusyHasTask
<1> DEFINE t == call[c].task
<1>c. /\ t \in TaskIds /\ call[c].op = "retain" /\ ~Pending(t)
      /\ task_queue' = WithoutTask(task_queue, t)
      /\ call' = [call EXCEPT ![c] = Idle]
      /\ UNCHANGED <<server, starts, last_task_id, stored, executor, executions,
                     progress, delivered>>
  BY <1>b DEF Retain, Busy, StreamInv
<1>d. /\ \A d \in Callers : d # c => call'[d] = call[d]
      /\ call'[c] = Idle
  BY <1>c DEF TypeOK
<1> HIDE DEF t
<1>e. /\ task_queue' \in Seq(TaskIds)
      /\ \A x \in TaskIds : (\E i \in 1..Len(task_queue') : task_queue'[i] = x)
                              <=> (x # t /\ \E i \in 1..Len(task_queue) : task_queue[i] = x)
      /\ Distinct(task_queue) => Distinct(task_queue')
  <2>1. task_queue \in Seq(TaskIds)
    BY DEF TypeOK
  <2> HIDE DEF TaskIds
  <2>2. QED  BY <1>c, <2>1, WithoutTaskKeepsOthers
<1>f. /\ DOMAIN task_queue' = 1..Len(task_queue') /\ DOMAIN task_queue = 1..Len(task_queue)
      /\ Distinct(task_queue)
      /\ \A i \in DOMAIN task_queue' : task_queue'[i] \in TaskIds
  BY <1>e, SMTT(30) DEF TypeOK, OwnerInv, Distinct
<1>g. \A i \in DOMAIN task_queue' : \E j \in DOMAIN task_queue : task_queue'[i] = task_queue[j]
  BY <1>e, <1>f
<1>1. TypeOK'
  BY <1>c, <1>e DEF TypeOK
<1>2. StreamInv'
  <2>1. \A i \in DOMAIN task_queue' : stored[task_queue'[i]].status = "Queued"
    BY <1>g DEF StreamInv
  <2>2. QED  BY <1>c, <1>d, <2>1 DEF StreamInv, Created, Begun, Pending, Executing
<1>3. OwnerInv'
  <2>1. \A i, j \in DOMAIN task_queue' : task_queue'[i] = task_queue'[j] => i = j
    BY <1>e, <1>f DEF Distinct
  <2>2. \A i \in DOMAIN task_queue' : ~Executing(task_queue'[i])
    BY <1>g DEF OwnerInv
  <2>3. \A d \in Callers : call'[d].op = "create" =>
            /\ call[d].op = "create" /\ call'[d] = call[d]
            /\ \A i \in DOMAIN task_queue' : task_queue'[i] # call[d].task
    BY <1>c, <1>d, <1>g DEF OwnerInv
  <2>4. QED  BY <1>c, <2>1, <2>2, <2>3 DEF OwnerInv, Executing
<1>4. PendingInv'
  <2>1. \A u \in TaskIds : (\E d \in Callers : call[d].op = "create" /\ call[d].task = u)
            => \E d \in Callers : call'[d].op = "create" /\ call'[d].task = u
    BY <1>c, <1>d
  <2>2. \A u \in TaskIds : Pending(u) /\ (\E i \in DOMAIN task_queue : task_queue[i] = u)
            => \E i \in DOMAIN task_queue' : task_queue'[i] = u
    BY <1>c, <1>e, <1>f
  <2>3. \A u \in TaskIds : (Pending(u)' <=> Pending(u)) /\ (Executing(u)' <=> Executing(u))
    BY <1>c DEF Pending, Executing
  <2>4. QED  BY <2>1, <2>2, <2>3 DEF PendingInv
<1>5. OutcomeInv'
  BY <1>c DEF OutcomeInv, Begun, Executing, Message
<1>6. ProgressInv'
  BY <1>c DEF ProgressInv, ProgressProtocol, Message
<1>7. FailsOnlyOnBrokenStream'
  BY <1>c DEF FailsOnlyOnBrokenStream
<1>8. QED  BY <1>1, <1>2, <1>3, <1>4, <1>5, <1>6, <1>7

\* The task passes from the queue to the executor.
LEMMA TryTakePreserves ==
  ASSUME TaskInv, try_take
  PROVE  TaskInv'
<1> USE MaxTasksAssumption, MaxStartsAssumption DEF TaskInv, TaskIds, Idle, Waiting
<1>b. Busy
  BY BusyHasTask
<1>c. PICK t \in TaskIds :
        /\ t = Head(task_queue) /\ task_queue # <<>> /\ task_queue' = Tail(task_queue)
        /\ executor = Waiting /\ executor' = [at |-> "popped", task |-> t]
        /\ UNCHANGED <<server, starts, last_task_id, stored, call, executions,
                       progress, delivered>>
  BY DEF try_take, PopFront
<1>d. /\ task_queue' \in Seq(TaskIds)
      /\ DOMAIN task_queue = 1..Len(task_queue) /\ Len(task_queue) \in Nat \ {0} /\ task_queue[1] = t
      /\ DOMAIN task_queue' = 1..(Len(task_queue) - 1)
      /\ \A i \in 1..(Len(task_queue) - 1) : task_queue'[i] = task_queue[i + 1]
  BY <1>c DEF TypeOK
<1>e. /\ executor' # Waiting /\ executor'.at = "popped" /\ executor'.task = t
      /\ \A u \in TaskIds : ~Executing(u) /\ (Executing(u)' <=> u = t)
  BY <1>c DEF Executing
<1>f. \A i \in DOMAIN task_queue' : task_queue'[i] \in TaskIds /\ task_queue'[i] # t
                                    /\ i + 1 \in DOMAIN task_queue
  BY <1>d DEF OwnerInv
<1>1. TypeOK'
  BY <1>c, <1>d DEF TypeOK
<1>2. StreamInv'
  <2>1. \A i \in DOMAIN task_queue' : stored[task_queue'[i]].status = "Queued"
    BY <1>d, <1>f DEF StreamInv
  <2>2. stored[t].status = "Queued"
    BY <1>d DEF StreamInv
  <2>3. QED  BY <1>c, <1>e, <2>1, <2>2 DEF StreamInv, Created, Begun, Pending
<1>3. OwnerInv'
  <2>1. \A i, j \in DOMAIN task_queue' : task_queue'[i] = task_queue'[j] => i = j
    BY <1>d, <1>f DEF OwnerInv
  <2>2. \A d \in Callers : call[d].op = "create" =>
            call[d].task # t /\ \A i \in DOMAIN task_queue' : task_queue'[i] # call[d].task
    BY <1>d, <1>f DEF OwnerInv
  <2>3. \A d \in Callers : call[d].op = "create" => call[d].task \in TaskIds
    BY <1>b DEF Busy
  <2>4. QED  BY <1>c, <1>e, <1>f, <2>1, <2>2, <2>3 DEF OwnerInv
<1>4. PendingInv'
  <2>1. ASSUME NEW i \in DOMAIN task_queue, task_queue[i] # t
        PROVE  \E j \in DOMAIN task_queue' : task_queue'[j] = task_queue[i]
    <3>1. i - 1 \in DOMAIN task_queue' /\ task_queue'[i - 1] = task_queue[i]
      BY <1>d, <2>1
    <3>2. QED  BY <3>1
  <2>2. \A u \in TaskIds : Pending(u)' <=> Pending(u)
    BY <1>c DEF Pending
  <2>3. QED  BY <1>c, <1>e, <2>1, <2>2 DEF PendingInv
<1>5. OutcomeInv'
  <2>1. ~Begun(t)
    BY <1>d DEF StreamInv, Begun
  <2>2. QED  BY <1>c, <1>e, <2>1 DEF OutcomeInv, Begun, Message
<1>6. ProgressInv'
  BY <1>c, <1>e DEF ProgressInv, ProgressProtocol, Message
<1>7. FailsOnlyOnBrokenStream'
  BY <1>c DEF FailsOnlyOnBrokenStream
<1>8. QED  BY <1>1, <1>2, <1>3, <1>4, <1>5, <1>6, <1>7

\* A load, or an event that is applied and not yet saved, changes nothing else.
LEMMA MoveOnPreserves ==
  ASSUME TaskInv, NEW from, NEW to,
         <<from, to>> \in {<<"popped", "loaded">>, <<"taken", "posting">>,
                           <<"outcome", "finishing">>},
         executor.at = from, executor' = [at |-> to, task |-> executor.task],
         UNCHANGED <<server, starts, last_task_id, stored, task_queue, call, executions,
                     progress, delivered>>
  PROVE  TaskInv'
<1> USE MaxTasksAssumption, MaxStartsAssumption DEF TaskInv, TaskIds, Idle, Waiting
<1>b. Busy
  BY BusyHasTask
<1>c. PICK t \in TaskIds :
        executor.task = t /\ executor # Waiting /\ executor' = [at |-> to, task |-> t]
  BY <1>b DEF Busy
<1>e. /\ executor' # Waiting /\ executor'.at = to /\ executor'.task = t
      /\ \A u \in TaskIds : (Executing(u) <=> u = t) /\ (Executing(u)' <=> u = t)
  BY <1>c DEF Executing
<1>1. TypeOK'
  BY <1>c DEF TypeOK
<1>2. StreamInv'
  <2>1. \A u \in TaskIds : (Pending(u)' <=> Pending(u)) /\ (Created(u)' <=> Created(u))
                            /\ (Begun(u)' <=> Begun(u))
    BY DEF Pending, Created, Begun
  <2>2. CASE from = "popped"
    BY <1>b, <1>c, <1>e, <2>1, <2>2 DEF StreamInv, Busy
  <2>3. CASE from # "popped"
    BY <1>b, <1>c, <1>e, <2>1, <2>3 DEF StreamInv, Busy
  <2>4. QED  BY <2>2, <2>3
<1>3. OwnerInv'
  <2>1. /\ \A i \in DOMAIN task_queue : task_queue[i] \in TaskIds
        /\ \A d \in Callers : call[d].op = "create" => call[d].task \in TaskIds
    BY <1>b DEF TypeOK, Busy
  <2>2. QED  BY <1>c, <1>e, <2>1 DEF OwnerInv
<1>4. PendingInv'
  <2>1. \A u \in TaskIds : (Pending(u)' <=> Pending(u)) /\ (Executing(u)' <=> Executing(u))
    BY <1>e DEF Pending
  <2>2. QED  BY <2>1 DEF PendingInv
<1>5. OutcomeInv'
  <2>1. from = "popped" => ~Begun(t)
    BY <1>c DEF StreamInv, Begun
  <2>2. QED  BY <1>c, <1>e, <2>1 DEF OutcomeInv, Begun, Message
<1>6. ProgressInv'
  BY <1>c, <1>e DEF ProgressInv, ProgressProtocol, Message
<1>7. FailsOnlyOnBrokenStream'
  BY DEF FailsOnlyOnBrokenStream
<1>8. QED  BY <1>1, <1>2, <1>3, <1>4, <1>5, <1>6, <1>7

\* The executor fails on a broken stream.
LEMMA ExecutorFailsPreserves ==
  ASSUME TaskInv, ExecutorFails, \E t \in TaskIds : ~stored[t].replays
  PROVE  TaskInv'
<1> USE DEF TaskInv
<1>1. TypeOK'
  BY DEF ExecutorFails, TypeOK
<1>2. StreamInv'
  BY DEF ExecutorFails, StreamInv, Created, Begun, Pending, Executing
<1>3. OwnerInv'
  BY DEF ExecutorFails, OwnerInv, Executing
<1>4. PendingInv'
  BY DEF ExecutorFails, PendingInv, Pending, Executing
<1>5. OutcomeInv'
  BY DEF ExecutorFails, OutcomeInv, Begun, Executing, Message
<1>6. ProgressInv'
  BY DEF ExecutorFails, ProgressInv, ProgressProtocol, Message
<1>7. FailsOnlyOnBrokenStream'
  BY DEF ExecutorFails, FailsOnlyOnBrokenStream
<1>8. QED  BY <1>1, <1>2, <1>3, <1>4, <1>5, <1>6, <1>7

\* A task that was taken off the queue is still queued in its stream.
LEMMA LoadAndRunPreserves ==
  ASSUME TaskInv, LoadAndRun
  PROVE  TaskInv'
<1>1. executor.task \in TaskIds /\ executor # Waiting
  BY BusyHasTask DEF TaskInv, Busy, LoadAndRun, Waiting
<1>2. stored[executor.task].status = "Queued" /\ stored[executor.task].replays
  BY <1>1 DEF TaskInv, StreamInv, LoadAndRun
<1>3. QED  BY <1>2, MoveOnPreserves DEF LoadAndRun, MoveOnIf, Accepts

\* Only a broken stream keeps the executor from loading the task it was given.
LEMMA TakeTaskPreserves ==
  ASSUME TaskInv, take_task
  PROVE  TaskInv'
<1>1. executor.task \in TaskIds
  BY BusyHasTask DEF TaskInv, Busy, take_task, Waiting
<1>2. CASE stored[executor.task].replays
  BY <1>2, MoveOnPreserves DEF take_task, MoveOnIf
<1>3. CASE ~stored[executor.task].replays
  BY <1>1, <1>3, ExecutorFailsPreserves DEF take_task, MoveOnIf
<1>4. QED  BY <1>2, <1>3

\* What was executed is still running in its stream.
LEMMA ProcessTaskOutcomePreserves ==
  ASSUME TaskInv, process_task_outcome
  PROVE  TaskInv'
<1>1. executor.task \in TaskIds /\ executor # Waiting
  BY BusyHasTask DEF TaskInv, Busy, process_task_outcome, Waiting
<1>2. Accepts(stored[executor.task], "TaskFinished")
  BY <1>1 DEF TaskInv, StreamInv, process_task_outcome, Accepts
<1>3. CASE stored[executor.task].replays
  BY <1>2, <1>3, MoveOnPreserves DEF process_task_outcome, MoveOnIf
<1>4. CASE ~stored[executor.task].replays
  BY <1>1, <1>4, ExecutorFailsPreserves DEF process_task_outcome, MoveOnIf
<1>5. QED  BY <1>3, <1>4

\* TaskRunning is saved for the executor's task, which is still queued in its stream.
LEMMA SaveRunningPreserves ==
  ASSUME TaskInv, SaveRunning
  PROVE  TaskInv'
<1> USE MaxTasksAssumption, MaxStartsAssumption DEF TaskInv, TaskIds, Idle, Waiting
<1>b. Busy
  BY BusyHasTask
<1>c. PICK t \in TaskIds :
        /\ executor.task = t /\ executor # Waiting /\ executor.at = "loaded"
        /\ executor' = [at |-> "taken", task |-> t]
        /\ UNCHANGED <<server, starts, last_task_id, task_queue, call, executions,
                       progress, delivered>>
  BY <1>b DEF SaveRunning, Busy
<1>e. /\ executor' # Waiting /\ executor'.at = "taken" /\ executor'.task = t
      /\ \A u \in TaskIds : (Executing(u) <=> u = t) /\ (Executing(u)' <=> u = t)
  BY <1>c DEF Executing
<1>d. Saved(t, "TaskRunning")
  <2>1. save_events(t, "TaskRunning")
    BY <1>c DEF SaveRunning, save_events
  <2>2. QED  BY <2>1, SaveEvents DEF TypeOK
<1>f. \A u \in TaskIds : u # t => stored'[u] = stored[u]
  BY <1>d DEF Saved
<1>g. stored[t].status = "Queued" /\ stored'[t].status = "Running" /\ stored'[t].replays
  <2>1. stored[t].status = "Queued" /\ stored[t].replays
    BY <1>c DEF StreamInv
  <2>2. QED  BY <1>d, <2>1 DEF Saved, Accepts
<1>1. TypeOK'
  BY <1>c, <1>d DEF TypeOK, Saved
<1>2. StreamInv'
  <2>1. ASSUME NEW u \in TaskIds
        PROVE  (/\ Created(u) <=> u <= last_task_id
                /\ ~Created(u) => stored[u] = NoTask
                /\ stored[u].status = "Queued" => stored[u].replays
                /\ stored[u].status = "Running" /\ stored[u].replays => Executing(u))'
    BY <1>c, <1>e, <1>f, <1>g DEF StreamInv, Created
  <2>2. ASSUME NEW d \in Callers
        PROVE  (call[d] # Idle =>
                  /\ Created(call[d].task)
                  /\ call[d].op = "create" => stored[call[d].task].status = "Queued"
                  /\ call[d].op = "retain" => ~Pending(call[d].task))'
    <3>1. call[d].op = "create" => call[d].task # t
      BY <1>b, <1>e DEF OwnerInv, Busy
    <3>2. QED  BY <1>b, <1>c, <1>f, <1>g, <3>1 DEF StreamInv, Created, Busy, Pending
  <2>3. \A i \in DOMAIN task_queue' : stored'[task_queue'[i]].status = "Queued"
    <3>1. \A i \in DOMAIN task_queue : task_queue[i] \in TaskIds /\ task_queue[i] # t
      BY <1>e DEF TypeOK, OwnerInv
    <3>2. QED  BY <1>c, <1>f, <3>1 DEF StreamInv
  <2>4. QED  BY <1>c, <1>e, <1>g, <2>1, <2>2, <2>3 DEF StreamInv, Begun
<1>3. OwnerInv'
  <2>1. /\ \A i \in DOMAIN task_queue : task_queue[i] \in TaskIds
        /\ \A d \in Callers : call[d].op = "create" => call[d].task \in TaskIds
    BY <1>b DEF TypeOK, Busy
  <2>2. QED  BY <1>c, <1>e, <2>1 DEF OwnerInv
<1>4. PendingInv'
  <2>1. \A u \in TaskIds : (Pending(u)' => Pending(u)) /\ (Executing(u)' <=> Executing(u))
    BY <1>e, <1>f, <1>g DEF Pending
  <2>2. QED  BY <1>c, <2>1 DEF PendingInv
<1>5. OutcomeInv'
  <2>1. ~Begun(t)
    BY <1>g DEF Begun
  <2>2. \A u \in TaskIds : u # t => (Begun(u)' <=> Begun(u))
    BY <1>f DEF Begun
  <2>3. \A k : \A u \in TaskIds : Message(k, u)' = Message(k, u)
    BY <1>c DEF Message
  <2>4. \A i \in DOMAIN progress :
          progress[i] # Message("Running", t) /\ progress[i] # Message("Finished", t)
    BY <2>1 DEF OutcomeInv
  <2>5. Begun(t)'
    BY <1>g DEF Begun
  <2>6. QED  BY <1>c, <1>e, <2>1, <2>2, <2>3, <2>4, <2>5 DEF OutcomeInv
<1>6. ProgressInv'
  BY <1>c, <1>e DEF ProgressInv, ProgressProtocol, Message
<1>7. FailsOnlyOnBrokenStream'
  <2>1. server = "up" /\ server' = "up"
    BY DEF SaveRunning
  <2>2. QED  BY <2>1 DEF FailsOnlyOnBrokenStream
<1>8. QED  BY <1>1, <1>2, <1>3, <1>4, <1>5, <1>6, <1>7

\* TaskFinished is saved for the executor's task; if the stream replays, it accepts it.
LEMMA SaveFinishedPreserves ==
  ASSUME TaskInv, SaveFinished
  PROVE  TaskInv'
<1> USE MaxTasksAssumption, MaxStartsAssumption DEF TaskInv, TaskIds, Idle, Waiting
<1>b. Busy
  BY BusyHasTask
<1>c. PICK t \in TaskIds :
        /\ executor.task = t /\ executor # Waiting /\ executor.at = "finishing"
        /\ executor' = [at |-> "finished", task |-> t]
        /\ UNCHANGED <<server, starts, last_task_id, task_queue, call, executions,
                       progress, delivered>>
  BY <1>b DEF SaveFinished, Busy
<1>e. /\ executor' # Waiting /\ executor'.at = "finished" /\ executor'.task = t
      /\ \A u \in TaskIds : (Executing(u) <=> u = t) /\ (Executing(u)' <=> u = t)
  BY <1>c DEF Executing
<1>d. Saved(t, "TaskFinished")
  <2>1. save_events(t, "TaskFinished")
    BY <1>c DEF SaveFinished, save_events
  <2>2. QED  BY <2>1, SaveEvents DEF TypeOK
<1>f. \A u \in TaskIds : u # t => stored'[u] = stored[u]
  BY <1>d DEF Saved
<1>g. /\ stored[t].status = "Running" /\ stored'[t].status \in {"Running", "Finished"}
      /\ stored'[t].replays => stored'[t].status = "Finished"
  <2>1. stored[t].status = "Running"
    BY <1>c DEF StreamInv
  <2>2. QED  BY <1>d, <2>1 DEF Saved, Accepts
<1>1. TypeOK'
  BY <1>c, <1>d DEF TypeOK, Saved
<1>2. StreamInv'
  <2>1. ASSUME NEW u \in TaskIds
        PROVE  (/\ Created(u) <=> u <= last_task_id
                /\ ~Created(u) => stored[u] = NoTask
                /\ stored[u].status = "Queued" => stored[u].replays
                /\ stored[u].status = "Running" /\ stored[u].replays => Executing(u))'
    BY <1>c, <1>e, <1>f, <1>g DEF StreamInv, Created
  <2>2. ASSUME NEW d \in Callers
        PROVE  (call[d] # Idle =>
                  /\ Created(call[d].task)
                  /\ call[d].op = "create" => stored[call[d].task].status = "Queued"
                  /\ call[d].op = "retain" => ~Pending(call[d].task))'
    <3>1. call[d].op = "create" => call[d].task # t
      BY <1>b, <1>e DEF OwnerInv, Busy
    <3>2. QED  BY <1>b, <1>c, <1>f, <1>g, <3>1 DEF StreamInv, Created, Busy, Pending
  <2>3. \A i \in DOMAIN task_queue' : stored'[task_queue'[i]].status = "Queued"
    <3>1. \A i \in DOMAIN task_queue : task_queue[i] \in TaskIds /\ task_queue[i] # t
      BY <1>e DEF TypeOK, OwnerInv
    <3>2. QED  BY <1>c, <1>f, <3>1 DEF StreamInv
  <2>4. QED  BY <1>c, <1>e, <1>g, <2>1, <2>2, <2>3 DEF StreamInv, Begun
<1>3. OwnerInv'
  <2>1. /\ \A i \in DOMAIN task_queue : task_queue[i] \in TaskIds
        /\ \A d \in Callers : call[d].op = "create" => call[d].task \in TaskIds
    BY <1>b DEF TypeOK, Busy
  <2>2. QED  BY <1>c, <1>e, <2>1 DEF OwnerInv
<1>4. PendingInv'
  <2>1. \A u \in TaskIds : (Pending(u)' => Pending(u)) /\ (Executing(u)' <=> Executing(u))
    BY <1>e, <1>f, <1>g DEF Pending
  <2>2. QED  BY <1>c, <2>1 DEF PendingInv
<1>5. OutcomeInv'
  <2>1. \A u \in TaskIds : Begun(u)' <=> Begun(u)
    BY <1>f, <1>g DEF Begun
  <2>2. \A k : \A u \in TaskIds : Message(k, u)' = Message(k, u)
    BY <1>c DEF Message
  <2>3. QED  BY <1>c, <1>e, <2>1, <2>2 DEF OutcomeInv
<1>6. ProgressInv'
  BY <1>c, <1>e DEF ProgressInv, ProgressProtocol, Message
<1>7. FailsOnlyOnBrokenStream'
  <2>1. server = "up" /\ server' = "up"
    BY DEF SaveFinished
  <2>2. QED  BY <2>1 DEF FailsOnlyOnBrokenStream
<1>8. QED  BY <1>1, <1>2, <1>3, <1>4, <1>5, <1>6, <1>7

\* The plan of a task that has just begun has not been executed.
LEMMA ExecuteTaskPreserves ==
  ASSUME TaskInv, execute_task
  PROVE  TaskInv'
<1> USE MaxTasksAssumption, MaxStartsAssumption DEF TaskInv, TaskIds, Idle, Waiting
<1>b. Busy
  BY BusyHasTask
<1>c. PICK t \in TaskIds :
        /\ executor.task = t /\ executor # Waiting /\ executor.at = "execute"
        /\ executor' = [at |-> "outcome", task |-> t]
        /\ UNCHANGED <<server, starts, last_task_id, stored, task_queue, call,
                       progress, delivered>>
  BY <1>b DEF execute_task, Busy
<1>e. /\ executor' # Waiting /\ executor'.at = "outcome" /\ executor'.task = t
      /\ \A u \in TaskIds : (Executing(u) <=> u = t) /\ (Executing(u)' <=> u = t)
  BY <1>c DEF Executing
<1>f. /\ executions' \in [TaskIds -> Nat]
      /\ executions'[t] = executions[t] + 1
      /\ \A u \in TaskIds : u # t => executions'[u] = executions[u]
  BY <1>c DEF execute_task, TypeOK
<1>1. TypeOK'
  BY <1>c, <1>f DEF TypeOK
<1>2. StreamInv'
  <2>1. \A u \in TaskIds : (Pending(u)' <=> Pending(u)) /\ (Created(u)' <=> Created(u))
                            /\ (Begun(u)' <=> Begun(u))
    BY <1>c DEF Pending, Created, Begun
  <2>2. QED  BY <1>b, <1>c, <1>e, <2>1 DEF StreamInv, Busy
<1>3. OwnerInv'
  <2>1. /\ \A i \in DOMAIN task_queue : task_queue[i] \in TaskIds
        /\ \A d \in Callers : call[d].op = "create" => call[d].task \in TaskIds
    BY <1>b DEF TypeOK, Busy
  <2>2. QED  BY <1>c, <1>e, <2>1 DEF OwnerInv
<1>4. PendingInv'
  <2>1. \A u \in TaskIds : (Pending(u)' <=> Pending(u)) /\ (Executing(u)' <=> Executing(u))
    BY <1>c, <1>e DEF Pending
  <2>2. QED  BY <1>c, <2>1 DEF PendingInv
<1>5. OutcomeInv'
  <2>1. executions[t] = 0 /\ Begun(t)
    BY <1>c, <1>e DEF OutcomeInv, StreamInv, Begun
  <2>2. QED  BY <1>c, <1>e, <1>f, <2>1 DEF OutcomeInv, Begun, Message
<1>6. ProgressInv'
  BY <1>c, <1>e DEF ProgressInv, ProgressProtocol, Message
<1>7. FailsOnlyOnBrokenStream'
  BY <1>c DEF FailsOnlyOnBrokenStream
<1>8. QED  BY <1>1, <1>2, <1>3, <1>4, <1>5, <1>6, <1>7

\* Running is reported once, after the Finished of the task before.
LEMMA PostRunningPreserves ==
  ASSUME TaskInv, PostRunning
  PROVE  TaskInv'
<1> USE MaxTasksAssumption, MaxStartsAssumption DEF TaskInv, TaskIds, Idle, Waiting
<1>b. Busy
  BY BusyHasTask
<1>c. PICK t \in TaskIds :
        /\ executor.task = t /\ executor # Waiting /\ executor.at = "posting"
        /\ executor' = [at |-> "execute", task |-> t]
        /\ UNCHANGED <<server, starts, last_task_id, stored, task_queue, call,
                       executions, delivered>>
  BY <1>b DEF PostRunning, Busy
<1>e. /\ executor' # Waiting /\ executor'.at = "execute" /\ executor'.task = t
      /\ \A u \in TaskIds : (Executing(u) <=> u = t) /\ (Executing(u)' <=> u = t)
  BY <1>c DEF Executing
<1>f. PICK m \in Messages :
        /\ m = Message("Running", t) /\ progress' = Append(progress, m)
        /\ m.kind = "Running" /\ m.task = t /\ m.process = starts
  <2>1. Message("Running", t) \in Messages
    BY DEF Message, Messages, TypeOK
  <2>2. QED  BY <1>c, <2>1 DEF PostRunning, Message
<1>g. /\ progress' \in Seq(Messages) /\ DOMAIN progress = 1..Len(progress)
      /\ DOMAIN progress' = 1..(Len(progress) + 1) /\ Len(progress) \in Nat
      /\ Len(progress') = Len(progress) + 1 /\ progress' # <<>>
      /\ progress'[Len(progress) + 1] = m
      /\ \A i \in 1..Len(progress) : progress'[i] = progress[i] /\ progress[i] \in Messages
  <2>1. progress \in Seq(Messages)
    BY DEF TypeOK
  <2> HIDE DEF TaskInv, TaskIds
  <2>2. QED  BY <1>f, <2>1, AppendFacts
<1>1. TypeOK'
  BY <1>c, <1>f, <1>g, SMTT(30) DEF TypeOK
<1>2. StreamInv'
  <2>1. \A u \in TaskIds : (Pending(u)' <=> Pending(u)) /\ (Created(u)' <=> Created(u))
                            /\ (Begun(u)' <=> Begun(u))
    BY <1>c DEF Pending, Created, Begun
  <2>2. QED  BY <1>b, <1>c, <1>e, <2>1 DEF StreamInv, Busy
<1>3. OwnerInv'
  <2>1. /\ \A i \in DOMAIN task_queue : task_queue[i] \in TaskIds
        /\ \A d \in Callers : call[d].op = "create" => call[d].task \in TaskIds
    BY <1>b DEF TypeOK, Busy
  <2>2. QED  BY <1>c, <1>e, <2>1 DEF OwnerInv
<1>4. PendingInv'
  <2>1. \A u \in TaskIds : (Pending(u)' <=> Pending(u)) /\ (Executing(u)' <=> Executing(u))
    BY <1>c, <1>e DEF Pending
  <2>2. QED  BY <1>c, <2>1 DEF PendingInv
<1>5. OutcomeInv'
  <2>1. Begun(t)
    BY <1>c DEF StreamInv, Begun
  <2>2. \A u \in TaskIds : (Begun(u)' <=> Begun(u)) /\ \A k : Message(k, u)' = Message(k, u)
    BY <1>c DEF Begun, Message
  <2>3. \A u \in TaskIds : m # Message("Finished", u) /\ (m = Message("Running", u) => u = t)
    BY <1>f DEF Message
  <2>4. QED  BY <1>c, <1>e, <1>g, <2>1, <2>2, <2>3 DEF OutcomeInv
<1>6. ProgressInv'
  <2>1. /\ \A i \in 1..Len(progress) : progress[i] # m /\ progress[i].process <= starts
        /\ progress = <<>> \/ progress[Len(progress)].kind = "Finished"
                           \/ progress[Len(progress)].process < starts
    BY <1>c, <1>e, <1>f, <1>g DEF ProgressInv, OutcomeInv
  <2>2. ProgressProtocol'
    <3>1. ProgressProtocol /\ starts \in Int /\ \A x \in Messages : x.process \in Int
      BY DEF ProgressInv, TypeOK, Messages
    <3>2. ASSUME NEW i \in DOMAIN progress'
          PROVE  /\ progress'[i].kind = "Finished" =>
                      /\ i > 1
                      /\ progress'[i - 1].kind = "Running"
                      /\ progress'[i - 1].task = progress'[i].task
                      /\ progress'[i - 1].process = progress'[i].process
                 /\ progress'[i].kind = "Running" /\ i > 1 =>
                      \/ progress'[i - 1].kind = "Finished"
                      \/ progress'[i - 1].process < progress'[i].process
      <4> HIDE DEF TaskInv, TaskIds
      <4>1. CASE i \in 1..Len(progress)
        <5>1. i \in DOMAIN progress /\ progress'[i] = progress[i]
          BY <1>g, <4>1
        <5>2. i > 1 => progress'[i - 1] = progress[i - 1]
          BY <1>g, <4>1
        <5>3. QED  BY <3>1, <5>1, <5>2 DEF ProgressProtocol
      <4>2. CASE i = Len(progress) + 1
        <5>1. progress'[i] = m
          BY <1>g, <4>2
        <5>2. i > 1 => progress # <<>> /\ progress'[i - 1] = progress[Len(progress)]
          <6>1. progress = <<>> => Len(progress) = 0
            OBVIOUS
          <6>2. QED  BY <1>g, <4>2, <6>1
        <5>3. QED  BY <1>f, <2>1, <5>1, <5>2
      <4>3. QED  BY <1>g, <4>1, <4>2
    <3>3. ASSUME NEW i \in DOMAIN progress', NEW j \in DOMAIN progress'
          PROVE  /\ progress'[i] = progress'[j] => i = j
                 /\ i < j => progress'[i].process <= progress'[j].process
      <4> HIDE DEF TaskInv, TaskIds
      <4>1. CASE i \in 1..Len(progress) /\ j \in 1..Len(progress)
        <5>1. /\ progress[i] = progress[j] => i = j
              /\ i < j => progress[i].process <= progress[j].process
          BY <1>g, <3>1, <4>1 DEF ProgressProtocol
        <5>2. QED  BY <1>g, <4>1, <5>1
      <4>2. CASE i = Len(progress) + 1 \/ j = Len(progress) + 1
        BY <1>f, <1>g, <2>1, <3>1, <4>2
      <4>3. QED  BY <1>g, <4>1, <4>2
    <3>4. QED  BY <3>2, <3>3 DEF ProgressProtocol
  <2>3. QED  BY <1>c, <1>e, <1>f, <1>g, <2>1, <2>2 DEF ProgressInv, Message, TypeOK
<1>7. FailsOnlyOnBrokenStream'
  BY <1>c DEF FailsOnlyOnBrokenStream
<1>8. QED  BY <1>1, <1>2, <1>3, <1>4, <1>5, <1>6, <1>7

\* Finished is reported once, directly after the Running of the same task.
LEMMA PostFinishedPreserves ==
  ASSUME TaskInv, PostFinished
  PROVE  TaskInv'
<1> USE MaxTasksAssumption, MaxStartsAssumption DEF TaskInv, TaskIds, Idle, Waiting
<1>b. Busy
  BY BusyHasTask
<1>c. PICK t \in TaskIds :
        /\ executor.task = t /\ executor # Waiting /\ executor.at = "finished"
        /\ executor' = Waiting
        /\ UNCHANGED <<server, starts, last_task_id, stored, task_queue, call,
                       executions, delivered>>
  BY <1>b DEF PostFinished, Busy
<1>e. \A u \in TaskIds : (Executing(u) <=> u = t) /\ ~Executing(u)'
  BY <1>c DEF Executing
<1>f. PICK m \in Messages :
        /\ m = Message("Finished", t) /\ progress' = Append(progress, m)
        /\ m.kind = "Finished" /\ m.task = t /\ m.process = starts
  <2>1. Message("Finished", t) \in Messages
    BY DEF Message, Messages, TypeOK
  <2>2. QED  BY <1>c, <2>1 DEF PostFinished, Message
<1>g. /\ progress' \in Seq(Messages) /\ DOMAIN progress = 1..Len(progress)
      /\ DOMAIN progress' = 1..(Len(progress) + 1) /\ Len(progress) \in Nat
      /\ Len(progress') = Len(progress) + 1 /\ progress' # <<>>
      /\ progress'[Len(progress) + 1] = m
      /\ \A i \in 1..Len(progress) : progress'[i] = progress[i] /\ progress[i] \in Messages
  <2>1. progress \in Seq(Messages)
    BY DEF TypeOK
  <2> HIDE DEF TaskInv, TaskIds
  <2>2. QED  BY <1>f, <2>1, AppendFacts
<1>1. TypeOK'
  BY <1>c, <1>f, <1>g DEF TypeOK
<1>2. StreamInv'
  <2>1. \A u \in TaskIds : (Pending(u)' <=> Pending(u)) /\ (Created(u)' <=> Created(u))
                            /\ (Begun(u)' <=> Begun(u))
    BY <1>c DEF Pending, Created, Begun
  <2>2. Begun(t) /\ (stored[t].replays => stored[t].status = "Finished")
    BY <1>c DEF StreamInv
  <2>3. QED  BY <1>b, <1>c, <1>e, <2>1, <2>2 DEF StreamInv, Busy
<1>3. OwnerInv'
  <2>1. /\ \A i \in DOMAIN task_queue : task_queue[i] \in TaskIds
        /\ \A d \in Callers : call[d].op = "create" => call[d].task \in TaskIds
    BY <1>b DEF TypeOK, Busy
  <2>2. QED  BY <1>c, <1>e, <2>1 DEF OwnerInv
<1>4. PendingInv'
  <2>1. \A u \in TaskIds : Pending(u)' <=> Pending(u)
    BY <1>c DEF Pending
  <2>2. ~Pending(t)
    BY <1>c DEF StreamInv, Begun, Pending
  <2>3. QED  BY <1>c, <1>e, <2>1, <2>2 DEF PendingInv
<1>5. OutcomeInv'
  <2>1. Begun(t)
    BY <1>c DEF StreamInv
  <2>2. \A u \in TaskIds : (Begun(u)' <=> Begun(u)) /\ \A k : Message(k, u)' = Message(k, u)
    BY <1>c DEF Begun, Message
  <2>3. \A u \in TaskIds : m # Message("Running", u) /\ (m = Message("Finished", u) => u = t)
    BY <1>f DEF Message
  <2>4. QED  BY <1>c, <1>e, <1>g, <2>1, <2>2, <2>3 DEF OutcomeInv
<1>6. ProgressInv'
  <2>1. /\ \A i \in 1..Len(progress) : progress[i] # m /\ progress[i].process <= starts
        /\ Len(progress) > 0 /\ progress[Len(progress)] = Message("Running", t)
    BY <1>c, <1>e, <1>f, <1>g DEF ProgressInv, OutcomeInv, TypeOK
  <2>2. ProgressProtocol'
    <3>1. ProgressProtocol /\ starts \in Int /\ \A x \in Messages : x.process \in Int
      BY DEF ProgressInv, TypeOK, Messages
    <3>2. ASSUME NEW i \in DOMAIN progress'
          PROVE  /\ progress'[i].kind = "Finished" =>
                      /\ i > 1
                      /\ progress'[i - 1].kind = "Running"
                      /\ progress'[i - 1].task = progress'[i].task
                      /\ progress'[i - 1].process = progress'[i].process
                 /\ progress'[i].kind = "Running" /\ i > 1 =>
                      \/ progress'[i - 1].kind = "Finished"
                      \/ progress'[i - 1].process < progress'[i].process
      <4> HIDE DEF TaskInv, TaskIds
      <4>1. CASE i \in 1..Len(progress)
        <5>1. i \in DOMAIN progress /\ progress'[i] = progress[i]
          BY <1>g, <4>1
        <5>2. i > 1 => progress'[i - 1] = progress[i - 1]
          BY <1>g, <4>1
        <5>3. QED  BY <3>1, <5>1, <5>2 DEF ProgressProtocol
      <4>2. CASE i = Len(progress) + 1
        <5>1. progress'[i] = m /\ i > 1 /\ progress'[i - 1] = progress[Len(progress)]
          BY <1>g, <2>1, <4>2
        <5>2. QED  BY <1>f, <2>1, <5>1 DEF Message
      <4>3. QED  BY <1>g, <4>1, <4>2
    <3>3. ASSUME NEW i \in DOMAIN progress', NEW j \in DOMAIN progress'
          PROVE  /\ progress'[i] = progress'[j] => i = j
                 /\ i < j => progress'[i].process <= progress'[j].process
      <4> HIDE DEF TaskInv, TaskIds
      <4>1. CASE i \in 1..Len(progress) /\ j \in 1..Len(progress)
        <5>1. /\ progress[i] = progress[j] => i = j
              /\ i < j => progress[i].process <= progress[j].process
          BY <1>g, <3>1, <4>1 DEF ProgressProtocol
        <5>2. QED  BY <1>g, <4>1, <5>1
      <4>2. CASE i = Len(progress) + 1 \/ j = Len(progress) + 1
        BY <1>f, <1>g, <2>1, <3>1, <4>2
      <4>3. QED  BY <1>g, <4>1, <4>2
    <3>4. QED  BY <3>2, <3>3 DEF ProgressProtocol
  <2>3. QED  BY <1>c, <1>e, <1>f, <1>g, <2>1, <2>2 DEF ProgressInv, Message, TypeOK
<1>7. FailsOnlyOnBrokenStream'
  BY <1>c DEF FailsOnlyOnBrokenStream
<1>8. QED  BY <1>1, <1>2, <1>3, <1>4, <1>5, <1>6, <1>7

-----------------------------------------------------------------------------
(* The theorems *)

\* The fresh server has no task, no call and no message.
LEMMA InitImpliesTaskInv ==
  ASSUME Init
  PROVE  TaskInv
<1> USE MaxTasksAssumption, MaxStartsAssumption DEF Init, TaskIds, Idle, Waiting
<1>1. TypeOK
  BY DEF TypeOK, Projections, NoTask
<1>2. StreamInv
  BY DEF StreamInv, Created, NoTask
<1>3. OwnerInv
  BY DEF OwnerInv
<1>4. PendingInv
  BY DEF PendingInv, Pending, NoTask
<1>5. OutcomeInv
  BY DEF OutcomeInv, Begun, NoTask
<1>6. ProgressInv
  BY DEF ProgressInv, ProgressProtocol
<1>7. FailsOnlyOnBrokenStream
  BY DEF FailsOnlyOnBrokenStream
<1>8. QED  BY <1>1, <1>2, <1>3, <1>4, <1>5, <1>6, <1>7 DEF TaskInv

\* Steps that change nothing.
LEMMA StutteringPreserves ==
  ASSUME TaskInv, UNCHANGED vars
  PROVE  TaskInv'
<1> USE DEF TaskInv, vars
<1>1. TypeOK'
  BY DEF TypeOK
<1>2. StreamInv'
  BY DEF StreamInv, Created, Begun, Pending, Executing
<1>3. OwnerInv'
  BY DEF OwnerInv, Executing
<1>4. PendingInv'
  BY DEF PendingInv, Pending, Executing
<1>5. OutcomeInv'
  BY DEF OutcomeInv, Begun, Executing, Message
<1>6. ProgressInv'
  BY DEF ProgressInv, ProgressProtocol, Message
<1>7. FailsOnlyOnBrokenStream'
  BY DEF FailsOnlyOnBrokenStream
<1>8. QED  BY <1>1, <1>2, <1>3, <1>4, <1>5, <1>6, <1>7

\* Every step of the callers, the executor, the outbox and the process.
LEMMA NextPreserves ==
  ASSUME TaskInv, [Next]_vars
  PROVE  TaskInv'
<1>1. CASE Start  BY <1>1, StartPreserves
<1>2. CASE Stop  BY <1>2, StopPreserves
<1>3. CASE \E c \in Callers : create_task(c) \/ CallStep(c)
  BY <1>3, CreateTaskPreserves, PushBackPreserves, SaveCancelledPreserves, RetainPreserves
     DEF CallStep
<1>4. CASE \E c \in Callers, t \in TaskIds : cancel_task(c, t)
  BY <1>4, CancelTaskPreserves
<1>5. CASE ExecutorStep
  BY <1>5, TryTakePreserves, LoadAndRunPreserves, SaveRunningPreserves, TakeTaskPreserves,
     PostRunningPreserves, ExecuteTaskPreserves, ProcessTaskOutcomePreserves,
     SaveFinishedPreserves, PostFinishedPreserves
     DEF ExecutorStep
<1>6. CASE Deliver  BY <1>6, DeliverPreserves
<1>7. CASE UNCHANGED vars  BY <1>7, StutteringPreserves
<1>8. QED  BY <1>1, <1>2, <1>3, <1>4, <1>5, <1>6, <1>7 DEF Next

\* The inductive invariant: what the stream, the queue, the calls, the executor
\* and the outbox say about a task agrees, in every interleaving.
THEOREM TaskInvariant == Spec => []TaskInv
<1>1. Init => TaskInv
  BY InitImpliesTaskInv
<1>2. TaskInv /\ [Next]_vars => TaskInv'
  BY NextPreserves
<1>3. QED  BY <1>1, <1>2, PTL DEF Spec

\* A set with at most one member.
LEMMA AtMostOne ==
  ASSUME NEW S, \A x, y \in S : x = y
  PROVE  /\ Cardinality(S) \in {0, 1}
         /\ S # {} <=> Cardinality(S) = 1
<1>1. CASE S = {}
  BY <1>1, FS_EmptySet
<1>2. CASE \E x : S = {x}
  BY <1>2, FS_Singleton
<1>3. QED  BY <1>1, <1>2

\* A task belongs to one of the queue, a call of create_task and the executor.
LEMMA OneOwner ==
  ASSUME TaskInv
  PROVE  EveryTaskHasOneOwner
<1> DEFINE InQueue(t) == {i \in DOMAIN task_queue : task_queue[i] = t}
<1> SUFFICES ASSUME NEW t \in TaskIds
             PROVE  /\ Cardinality(InQueue(t)) + Cardinality(HeldBy(t))
                          + (IF Executing(t) THEN 1 ELSE 0) <= 1
                    /\ stored[t] = Queued =>
                         Cardinality(InQueue(t)) + Cardinality(HeldBy(t))
                          + (IF Executing(t) THEN 1 ELSE 0) = 1
                    /\ t \in Range(task_queue) => stored[t].status = "Queued"
  BY DEF EveryTaskHasOneOwner
<1>1. /\ Cardinality(InQueue(t)) \in {0, 1}
      /\ InQueue(t) # {} <=> Cardinality(InQueue(t)) = 1
  <2>1. \A i, j \in InQueue(t) : i = j
    BY DEF TaskInv, OwnerInv
  <2>2. QED  BY <2>1, AtMostOne
<1>2. /\ Cardinality(HeldBy(t)) \in {0, 1}
      /\ HeldBy(t) # {} <=> Cardinality(HeldBy(t)) = 1
  <2>1. \A c, d \in HeldBy(t) : c = d
    BY DEF TaskInv, OwnerInv, HeldBy
  <2>2. QED  BY <2>1, AtMostOne
<1>3. ~(InQueue(t) # {} /\ HeldBy(t) # {}) /\ ~(InQueue(t) # {} /\ Executing(t))
      /\ ~(HeldBy(t) # {} /\ Executing(t))
  BY DEF TaskInv, OwnerInv, HeldBy
<1>4. stored[t] = Queued => InQueue(t) # {} \/ HeldBy(t) # {} \/ Executing(t)
  BY DEF TaskInv, PendingInv, Pending, Queued, HeldBy
<1>5. t \in Range(task_queue) => stored[t].status = "Queued"
  BY DEF TaskInv, StreamInv, Range
<1>6. QED
  <2> HIDE DEF InQueue
  <2> QED  BY <1>1, <1>2, <1>3, <1>4, <1>5

\* No interleaving of create_task, cancel_task and the executor loses a task,
\* queues it twice, executes its plan twice, or reports as finished a task whose
\* plan was not executed.
THEOREM TasksHaveOneOwner == Spec => []TasksInv
<1>1. TaskInv => TasksInv
  <2> SUFFICES ASSUME TaskInv PROVE TasksInv
    OBVIOUS
  <2>1. FinishedMeansExecuted
    <3> SUFFICES ASSUME NEW t \in TaskIds
                 PROVE  /\ executions[t] <= 1
                        /\ Message("Finished", t) \in Range(progress) =>
                              /\ executions[t] = 1
                              /\ stored[t].replays => stored[t].status = "Finished"
      BY DEF FinishedMeansExecuted
    <3>1. executions[t] \in {0, 1}
      BY DEF TaskInv, OutcomeInv
    <3>2. ASSUME Message("Finished", t) \in Range(progress)
          PROVE  executions[t] = 1 /\ Begun(t) /\ ~Executing(t)
      BY <3>2 DEF TaskInv, OutcomeInv, Range
    <3>3. Begun(t) /\ ~Executing(t) /\ stored[t].replays => stored[t].status = "Finished"
      BY DEF TaskInv, StreamInv, Begun
    <3>4. QED  BY <3>1, <3>2, <3>3
  <2>2. QED  BY <2>1, OneOwner DEF TasksInv, TaskInv
<1>2. QED  BY <1>1, TaskInvariant, PTL

\* The executor reports Running and Finished of one task at a time, each once,
\* and the reports of one process follow those of the process before.
THEOREM ProgressIsReportedInPairs == Spec => []ProgressProtocol
<1>1. TaskInv => ProgressProtocol
  BY DEF TaskInv, ProgressInv
<1>2. QED  BY <1>1, TaskInvariant, PTL

\* As long as every stream replays, no cancellation, early or late, stops the
\* executor.
THEOREM ExecutorFailsOnlyOnBrokenStream == Spec => []FailsOnlyOnBrokenStream
<1>1. TaskInv => FailsOnlyOnBrokenStream
  BY DEF TaskInv
<1>2. QED  BY <1>1, TaskInvariant, PTL

=============================================================================
