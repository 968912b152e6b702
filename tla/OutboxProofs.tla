---------------------------- MODULE OutboxProofs ----------------------------
(***************************************************************************)
(* Proofs about Outbox, for every number of producers, consumers, writers, *)
(* messages and crashes, and every batch size.  OutboxInv is inductive     *)
(* when transactions commit in the order of their ids; NeverConsumedTwice  *)
(* needs only the part of it that says where the cursors are.              *)
(***************************************************************************)
EXTENDS Outbox, TLAPS

\* Every step of writers, relay, start and stop keeps the variables in their
\* types; the cursor of an invoked consumer is a message id by WorkInv.
LEMMA TypeStep == TypeOK /\ WorkInv /\ [Next]_vars => TypeOK'
  <1> SUFFICES ASSUME TypeOK, WorkInv, [Next]_vars PROVE TypeOK'
    OBVIOUS
  <1>1. ASSUME NEW w \in Writers, NEW p \in Producers, push_message(w, p)
        PROVE  TypeOK'
    <2>1. next_id \in Ids /\ next_id' \in 1 .. MaxMessages + 1
      BY <1>1, MaxMessagesAssumption DEF push_message, TypeOK, Ids
    <2>2. tx' \in [Writers -> SUBSET Ids] /\ producer_of' \in [Ids -> Producers \cup {NoProducer}]
      BY <1>1, <2>1 DEF push_message, TypeOK
    <2> QED  BY <1>1, <2>1, <2>2 DEF push_message, TypeOK, relayVars
  <1>2. ASSUME NEW w \in Writers, commit_transaction(w)
        PROVE  TypeOK'
    BY <1>2 DEF commit_transaction, TypeOK, Ids, dbVars, relayVars
  <1>3. ASSUME NEW w \in Writers, rollback_transaction(w)
        PROVE  TypeOK'
    BY <1>3 DEF rollback_transaction, TypeOK, Ids, dbVars, relayVars
  <1>4. ASSUME NEW routes \in SUBSET Routes, Start(routes)
        PROVE  TypeOK'
    BY <1>4 DEF Start, TypeOK, Ids, dbVars, relayVars
  <1>5. ASSUME init_consumption_records
        PROVE  TypeOK'
    BY <1>5 DEF init_consumption_records, TypeOK, Ids, dbVars, relayVars
  <1>6. ASSUME select_latest_message_ids_by_producers
        PROVE  TypeOK'
    <2>0. {0} \cup committed \subseteq 0 .. MaxMessages
      BY MaxMessagesAssumption DEF TypeOK, Ids
    <2>1. latest' \in [Producers -> 0 .. MaxMessages]
      BY <1>6, <2>0 DEF select_latest_message_ids_by_producers
    <2> QED  BY <1>6, <2>1 DEF select_latest_message_ids_by_producers, TypeOK, dbVars
  <1>7. ASSUME select_latest_consumption_boundaries_by_producers
        PROVE  TypeOK'
    BY <1>7 DEF select_latest_consumption_boundaries_by_producers, TypeOK, Ids, dbVars, relayVars
  <1>8. ASSUME NEW p \in Producers, StartJob(p)
        PROVE  TypeOK'
    <2>1. \A r \in RoutesOf(p) : seen[r] \in 0 .. MaxMessages
      BY DEF RoutesOf, TypeOK
    <2>2. cursor' \in [Producers -> 0 .. MaxMessages]
      BY <1>8, <2>1 DEF StartJob, TypeOK
    <2>3. batch' \in [Producers -> SUBSET Ids]
      BY <1>8 DEF StartJob, MessagesOf, TypeOK
    <2>4. job' \in [Producers -> {"load", "feed", "done"}]
      BY <1>8 DEF StartJob, TypeOK
    <2> QED  BY <1>8, <2>2, <2>3, <2>4 DEF StartJob, TypeOK, dbVars
  <1>9. ASSUME NEW p \in Producers, NextMessage(p)
        PROVE  TypeOK'
    <2>1. PICK m \in batch[p] :
            /\ batch' = [batch EXCEPT ![p] = @ \ {m}]
            /\ cursor' = [cursor EXCEPT ![p] = m]
            /\ todo' = todo \cup Behind(p, m)
      BY <1>9 DEF NextMessage
    <2>2. m \in Ids /\ Behind(p, m) \subseteq Routes
      BY DEF TypeOK, Behind, RoutesOf
    <2>3. batch' \in [Producers -> SUBSET Ids]
      BY <2>1 DEF TypeOK
    <2>4. cursor' \in [Producers -> 0 .. MaxMessages]
      BY <2>1, <2>2, MaxMessagesAssumption DEF TypeOK, Ids
    <2>5. todo' \subseteq Routes
      BY <2>1, <2>2 DEF TypeOK
    <2> QED  BY <1>9, <2>3, <2>4, <2>5 DEF NextMessage, TypeOK, dbVars
  <1>10. ASSUME NEW p \in Producers, FinishJob(p)
        PROVE  TypeOK'
    BY <1>10 DEF FinishJob, TypeOK, Ids, dbVars, relayVars
  <1>11. ASSUME NEW r \in Routes, Dispatch(r)
        PROVE  TypeOK'
    <2>1. cursor[r[1]] \in Ids
      BY <1>11 DEF Dispatch, WorkInv, MessagesOf, TypeOK
    <2>2. applied' \in [Routes -> SUBSET Ids]
      BY <1>11, <2>1 DEF Dispatch, TypeOK
    <2> QED  BY <1>11, <2>2 DEF Dispatch, TypeOK, dbVars
  <1>12. ASSUME NEW r \in Routes, CommitConsumption(r)
        PROVE  TypeOK'
    <2>1. cursor[r[1]] \in Ids
      BY <1>12 DEF CommitConsumption, WorkInv, MessagesOf, TypeOK
    <2>2. boundary' \in [Routes -> 0 .. MaxMessages]
      BY <1>12, <2>1, MaxMessagesAssumption DEF CommitConsumption, update_consumption_boundary, TypeOK, Ids
    <2>3. effects' \in [Routes -> [Ids -> Nat]]
      BY <1>12, <2>1 DEF CommitConsumption, TypeOK
    <2> QED  BY <1>12, <2>2, <2>3 DEF CommitConsumption, TypeOK, dbVars
  <1>13. ASSUME FinishIteration
        PROVE  TypeOK'
    <2>1. /\ latest' \in [Producers -> 0 .. MaxMessages]
          /\ seen' \in [Routes -> 0 .. MaxMessages]
          /\ job' \in [Producers -> {"load", "feed", "done"}]
          /\ batch' \in [Producers -> SUBSET Ids]
          /\ cursor' \in [Producers -> 0 .. MaxMessages]
          /\ todo' \subseteq Routes
          /\ dispatched' \subseteq Routes
      BY <1>13, MaxMessagesAssumption DEF FinishIteration, DropWork, Ids
    <2> QED  BY <1>13, <2>1 DEF FinishIteration, TypeOK, dbVars
  <1>14. ASSUME StopProcess
        PROVE  TypeOK'
    <2>1. /\ latest' \in [Producers -> 0 .. MaxMessages]
          /\ seen' \in [Routes -> 0 .. MaxMessages]
          /\ job' \in [Producers -> {"load", "feed", "done"}]
          /\ batch' \in [Producers -> SUBSET Ids]
          /\ cursor' \in [Producers -> 0 .. MaxMessages]
          /\ todo' \subseteq Routes
          /\ dispatched' \subseteq Routes
      BY <1>14, MaxMessagesAssumption DEF StopProcess, DropWork, Ids
    <2>2. applied' \in [Routes -> SUBSET Ids] /\ tx' \in [Writers -> SUBSET Ids]
      BY <1>14 DEF StopProcess
    <2>3. stops' \in 0 .. MaxStops
      BY <1>14, MaxStopsAssumption DEF StopProcess, TypeOK
    <2> QED  BY <1>14, <2>1, <2>2, <2>3 DEF StopProcess, TypeOK, dbVars
  <1>15. CASE UNCHANGED vars
    BY <1>15 DEF vars, TypeOK, Ids, dbVars, relayVars
  <1> QED
    BY <1>1, <1>2, <1>3, <1>4, <1>5, <1>6, <1>7, <1>8, <1>9, <1>10, <1>11, <1>12, <1>13, <1>14, <1>15 DEF Next, ConsumerFails, Crash

\* With one writing transaction at a time, what an open transaction has
\* inserted stays above everything committed.
LEMMA WriterStep == CommitsInOrder /\ TypeOK /\ WriterInv /\ [Next]_vars => WriterInv'
  <1> SUFFICES ASSUME CommitsInOrder, TypeOK, WriterInv, [Next]_vars PROVE WriterInv'
    OBVIOUS
  <1>1. ASSUME NEW w \in Writers, NEW p \in Producers, push_message(w, p)
        PROVE  WriterInv'
    BY <1>1 DEF push_message, WriterInv, TypeOK, Ids, DropWork, dbVars, relayVars
  <1>2. ASSUME NEW w \in Writers, commit_transaction(w)
        PROVE  WriterInv'
    BY <1>2 DEF commit_transaction, WriterInv, TypeOK, Ids, DropWork, dbVars, relayVars
  <1>3. ASSUME NEW w \in Writers, rollback_transaction(w)
        PROVE  WriterInv'
    BY <1>3 DEF rollback_transaction, WriterInv, TypeOK, Ids, DropWork, dbVars, relayVars
  <1>4. ASSUME NEW routes \in SUBSET Routes, Start(routes)
        PROVE  WriterInv'
    BY <1>4 DEF Start, WriterInv, TypeOK, Ids, DropWork, dbVars, relayVars
  <1>5. ASSUME init_consumption_records
        PROVE  WriterInv'
    BY <1>5 DEF init_consumption_records, WriterInv, TypeOK, Ids, DropWork, dbVars, relayVars
  <1>6. ASSUME select_latest_message_ids_by_producers
        PROVE  WriterInv'
    BY <1>6 DEF select_latest_message_ids_by_producers, WriterInv, TypeOK, Ids, DropWork, dbVars, relayVars
  <1>7. ASSUME select_latest_consumption_boundaries_by_producers
        PROVE  WriterInv'
    BY <1>7 DEF select_latest_consumption_boundaries_by_producers, WriterInv, TypeOK, Ids, DropWork, dbVars, relayVars
  <1>8. ASSUME NEW p \in Producers, StartJob(p)
        PROVE  WriterInv'
    BY <1>8 DEF StartJob, WriterInv, TypeOK, Ids, DropWork, dbVars, relayVars
  <1>9. ASSUME NEW p \in Producers, NextMessage(p)
        PROVE  WriterInv'
    BY <1>9 DEF NextMessage, WriterInv, TypeOK, Ids, DropWork, dbVars, relayVars
  <1>10. ASSUME NEW p \in Producers, FinishJob(p)
        PROVE  WriterInv'
    BY <1>10 DEF FinishJob, WriterInv, TypeOK, Ids, DropWork, dbVars, relayVars
  <1>11. ASSUME NEW r \in Routes, Dispatch(r)
        PROVE  WriterInv'
    BY <1>11 DEF Dispatch, WriterInv, TypeOK, Ids, DropWork, dbVars, relayVars
  <1>12. ASSUME NEW r \in Routes, CommitConsumption(r)
        PROVE  WriterInv'
    BY <1>12 DEF CommitConsumption, WriterInv, TypeOK, Ids, DropWork, dbVars, relayVars
  <1>13. ASSUME FinishIteration
        PROVE  WriterInv'
    BY <1>13 DEF FinishIteration, WriterInv, TypeOK, Ids, DropWork, dbVars, relayVars
  <1>14. ASSUME StopProcess
        PROVE  WriterInv'
    BY <1>14 DEF StopProcess, WriterInv, TypeOK, Ids, DropWork, dbVars, relayVars
  <1>15. CASE UNCHANGED vars
    BY <1>15 DEF vars, WriterInv, TypeOK, Ids, DropWork, dbVars, relayVars
  <1> QED
    BY <1>1, <1>2, <1>3, <1>4, <1>5, <1>6, <1>7, <1>8, <1>9, <1>10, <1>11, <1>12, <1>13, <1>14, <1>15 DEF Next, ConsumerFails, Crash

\* What a ProducerRelayJob has loaded or is feeding stays committed, above its
\* cursor, and of its own producer.
LEMMA WorkStep == TypeOK /\ WorkInv /\ [Next]_vars => WorkInv'
  <1> SUFFICES ASSUME TypeOK, WorkInv, [Next]_vars PROVE WorkInv'
    OBVIOUS
  <1>1. ASSUME NEW w \in Writers, NEW p \in Producers, push_message(w, p)
        PROVE  WorkInv'
    BY <1>1 DEF push_message, WorkInv, TypeOK, MessagesOf, Ids, DropWork, dbVars, relayVars
  <1>2. ASSUME NEW w \in Writers, commit_transaction(w)
        PROVE  WorkInv'
    BY <1>2 DEF commit_transaction, WorkInv, TypeOK, MessagesOf, Ids, DropWork, dbVars, relayVars
  <1>3. ASSUME NEW w \in Writers, rollback_transaction(w)
        PROVE  WorkInv'
    BY <1>3 DEF rollback_transaction, WorkInv, TypeOK, MessagesOf, Ids, DropWork, dbVars, relayVars
  <1>4. ASSUME NEW routes \in SUBSET Routes, Start(routes)
        PROVE  WorkInv'
    BY <1>4 DEF Start, WorkInv, TypeOK, MessagesOf, Ids, DropWork, dbVars, relayVars
  <1>5. ASSUME init_consumption_records
        PROVE  WorkInv'
    BY <1>5 DEF init_consumption_records, WorkInv, TypeOK, MessagesOf, Ids, DropWork, dbVars, relayVars
  <1>6. ASSUME select_latest_message_ids_by_producers
        PROVE  WorkInv'
    BY <1>6 DEF select_latest_message_ids_by_producers, WorkInv, TypeOK, MessagesOf, Ids, DropWork, dbVars, relayVars
  <1>7. ASSUME select_latest_consumption_boundaries_by_producers
        PROVE  WorkInv'
    BY <1>7 DEF select_latest_consumption_boundaries_by_producers, WorkInv, TypeOK, MessagesOf, Ids, DropWork, dbVars, relayVars
  <1>8. ASSUME NEW p \in Producers, StartJob(p)
        PROVE  WorkInv'
    <2>0. \A i \in committed : i \in Nat
      BY DEF TypeOK, Ids
    <2>1. job[p] = "load"
      BY <1>8 DEF StartJob
    <2>2. \A r \in todo \cup dispatched : r[1] # p
      BY <2>1 DEF WorkInv
    <2>3. CASE job' = [job EXCEPT ![p] = "done"] /\ UNCHANGED <<batch, cursor>>
      BY <1>8, <2>2, <2>3 DEF StartJob, WorkInv, MessagesOf, TypeOK, dbVars
    <2>4. CASE job' = [job EXCEPT ![p] = "feed"]
      <3>1. PICK b \in {seen[r] : r \in RoutesOf(p)}, loaded \in SUBSET MessagesOf(p) :
              /\ load_messages_above(p, b, loaded)
              /\ batch' = [batch EXCEPT ![p] = loaded]
              /\ cursor' = [cursor EXCEPT ![p] = b]
        BY <1>8, <2>4 DEF StartJob, TypeOK
      <3>2. b \in Nat /\ \A i \in loaded : i \in MessagesOf(p) /\ b < i
        BY <3>1, <2>0 DEF load_messages_above, RoutesOf, TypeOK, MessagesOf
      <3> QED  BY <1>8, <2>2, <2>4, <3>1, <3>2 DEF StartJob, WorkInv, MessagesOf, TypeOK, dbVars
    <2> QED  BY <1>8, <2>3, <2>4 DEF StartJob
  <1>9. ASSUME NEW p \in Producers, NextMessage(p)
        PROVE  WorkInv'
    <2>1. PICK m \in batch[p] :
            /\ \A i \in batch[p] : m <= i
            /\ batch' = [batch EXCEPT ![p] = @ \ {m}]
            /\ cursor' = [cursor EXCEPT ![p] = m]
            /\ todo' = todo \cup Behind(p, m)
      BY <1>9 DEF NextMessage
    <2>2. m \in MessagesOf(p) /\ \A i \in batch[p] : i \in Nat /\ (i # m => m < i)
      BY <1>9, <2>1 DEF NextMessage, WorkInv, TypeOK, Ids
    <2>3. \A r \in todo \cup dispatched : r[1] # p
      BY <1>9 DEF NextMessage, InFlight
    <2>4. \A r \in Behind(p, m) : r[1] = p /\ r \in deployed
      BY DEF Behind, RoutesOf
    <2>5. MessagesOf(p)' = MessagesOf(p) /\ \A q \in Producers : MessagesOf(q)' = MessagesOf(q)
      BY <1>9 DEF NextMessage, MessagesOf, dbVars
    <2>6. phase = "feeding"
      BY <1>9 DEF NextMessage, WorkInv
    <2>7. \A q \in Producers : job'[q] = "feed" =>
             \A i \in batch'[q] : i \in MessagesOf(q)' /\ cursor'[q] < i
      BY <1>9, <2>1, <2>2, <2>5 DEF NextMessage, WorkInv, TypeOK
    <2>8. \A r \in todo' \cup dispatched' :
             r \in deployed' /\ job'[r[1]] = "feed" /\ cursor'[r[1]] \in MessagesOf(r[1])'
      <3> SUFFICES ASSUME NEW r \in todo' \cup dispatched'
                   PROVE  r \in deployed' /\ job'[r[1]] = "feed" /\ cursor'[r[1]] \in MessagesOf(r[1])'
        OBVIOUS
      <3>0. r[1] \in Producers
        BY <1>9, <2>1, <2>4 DEF NextMessage, TypeOK, Routes
      <3>1. CASE r \in Behind(p, m)
        BY <1>9, <3>0, <3>1, <2>1, <2>2, <2>4, <2>5 DEF NextMessage, TypeOK
      <3>2. CASE r \in todo \cup dispatched
        BY <1>9, <3>0, <3>2, <2>1, <2>3, <2>5 DEF NextMessage, TypeOK, WorkInv
      <3> QED  BY <1>9, <2>1, <3>1, <3>2 DEF NextMessage
    <2>9. todo' \cap dispatched' = {}
      BY <1>9, <2>1, <2>3, <2>4 DEF NextMessage, WorkInv
    <2> QED  BY <1>9, <2>6, <2>7, <2>8, <2>9 DEF NextMessage, WorkInv, dbVars
  <1>10. ASSUME NEW p \in Producers, FinishJob(p)
        PROVE  WorkInv'
    <2>1. \A r \in todo \cup dispatched : r[1] # p
      BY <1>10 DEF FinishJob, InFlight
    <2> QED  BY <1>10, <2>1 DEF FinishJob, WorkInv, MessagesOf, TypeOK, dbVars
  <1>11. ASSUME NEW r \in Routes, Dispatch(r)
        PROVE  WorkInv'
    BY <1>11 DEF Dispatch, WorkInv, TypeOK, MessagesOf, Ids, DropWork, dbVars, relayVars
  <1>12. ASSUME NEW r \in Routes, CommitConsumption(r)
        PROVE  WorkInv'
    BY <1>12 DEF CommitConsumption, WorkInv, TypeOK, MessagesOf, Ids, DropWork, dbVars, relayVars
  <1>13. ASSUME FinishIteration
        PROVE  WorkInv'
    BY <1>13 DEF FinishIteration, WorkInv, TypeOK, MessagesOf, Ids, DropWork, dbVars, relayVars
  <1>14. ASSUME StopProcess
        PROVE  WorkInv'
    BY <1>14 DEF StopProcess, WorkInv, TypeOK, MessagesOf, Ids, DropWork, dbVars, relayVars
  <1>15. CASE UNCHANGED vars
    BY <1>15 DEF vars, WorkInv, TypeOK, MessagesOf, Ids, DropWork, dbVars, relayVars
  <1> QED
    BY <1>1, <1>2, <1>3, <1>4, <1>5, <1>6, <1>7, <1>8, <1>9, <1>10, <1>11, <1>12, <1>13, <1>14, <1>15 DEF Next, ConsumerFails, Crash

\* No message becomes visible in the middle of a loaded batch: new commits lie
\* above every committed message.
LEMMA BatchStep == CommitsInOrder /\ TypeOK /\ WriterInv /\ WorkInv /\ BatchInv /\ [Next]_vars => BatchInv'
  <1> SUFFICES ASSUME CommitsInOrder, TypeOK, WriterInv, WorkInv, BatchInv, [Next]_vars PROVE BatchInv'
    OBVIOUS
  <1>1. ASSUME NEW w \in Writers, NEW p \in Producers, push_message(w, p)
        PROVE  BatchInv'
    <2>1. \A q \in Producers : MessagesOf(q)' = MessagesOf(q)
      BY <1>1 DEF push_message, MessagesOf, WorkInv, TypeOK, Ids
    <2> QED  BY <1>1, <2>1 DEF push_message, BatchInv, relayVars
  <1>2. ASSUME NEW w \in Writers, commit_transaction(w)
        PROVE  BatchInv'
    <2> SUFFICES ASSUME NEW q \in Producers, job[q] = "feed", NEW b \in batch[q],
                        NEW i \in MessagesOf(q)', cursor[q] < i, i < b
                 PROVE  i \in batch[q]
      BY <1>2 DEF commit_transaction, BatchInv, relayVars
    <2>1. b \in committed /\ b \in Nat
      BY DEF WorkInv, MessagesOf, TypeOK, Ids
    <2>2. i \notin tx[w]
      BY <2>1 DEF WriterInv, TypeOK, Ids
    <2>3. i \in MessagesOf(q)
      BY <1>2, <2>2 DEF commit_transaction, MessagesOf
    <2> QED  BY <2>3 DEF BatchInv
  <1>3. ASSUME NEW w \in Writers, rollback_transaction(w)
        PROVE  BatchInv'
    BY <1>3 DEF rollback_transaction, BatchInv, WorkInv, TypeOK, MessagesOf, DropWork, dbVars, relayVars
  <1>4. ASSUME NEW routes \in SUBSET Routes, Start(routes)
        PROVE  BatchInv'
    BY <1>4 DEF Start, BatchInv, WorkInv, TypeOK, MessagesOf, DropWork, dbVars, relayVars
  <1>5. ASSUME init_consumption_records
        PROVE  BatchInv'
    BY <1>5 DEF init_consumption_records, BatchInv, WorkInv, TypeOK, MessagesOf, DropWork, dbVars, relayVars
  <1>6. ASSUME select_latest_message_ids_by_producers
        PROVE  BatchInv'
    BY <1>6 DEF select_latest_message_ids_by_producers, BatchInv, WorkInv, TypeOK, MessagesOf, DropWork, dbVars, relayVars
  <1>7. ASSUME select_latest_consumption_boundaries_by_producers
        PROVE  BatchInv'
    BY <1>7 DEF select_latest_consumption_boundaries_by_producers, BatchInv, WorkInv, TypeOK, MessagesOf, DropWork, dbVars, relayVars
  <1>8. ASSUME NEW p \in Producers, StartJob(p)
        PROVE  BatchInv'
    <2>0. \A i \in committed : i \in Nat
      BY DEF TypeOK, Ids
    <2>1. \A q \in Producers : MessagesOf(q)' = MessagesOf(q)
      BY <1>8 DEF StartJob, MessagesOf, dbVars
    <2>2. CASE job' = [job EXCEPT ![p] = "done"] /\ UNCHANGED <<batch, cursor>>
      BY <2>1, <2>2 DEF BatchInv, TypeOK
    <2>3. CASE job' = [job EXCEPT ![p] = "feed"]
      <3>1. PICK b \in {seen[r] : r \in RoutesOf(p)}, loaded \in SUBSET MessagesOf(p) :
              /\ load_messages_above(p, b, loaded)
              /\ batch' = [batch EXCEPT ![p] = loaded]
              /\ cursor' = [cursor EXCEPT ![p] = b]
        BY <1>8, <2>3 DEF StartJob, TypeOK
      <3>2. \A l \in loaded, i \in MessagesOf(p) : b < i /\ i < l => i \in loaded
        BY <3>1, <2>0 DEF load_messages_above, MessagesOf, RoutesOf, TypeOK
      <3> QED  BY <2>1, <2>3, <3>1, <3>2 DEF BatchInv, TypeOK
    <2> QED  BY <1>8, <2>2, <2>3 DEF StartJob
  <1>9. ASSUME NEW p \in Producers, NextMessage(p)
        PROVE  BatchInv'
    <2>1. PICK m \in batch[p] :
            /\ \A i \in batch[p] : m <= i
            /\ batch' = [batch EXCEPT ![p] = @ \ {m}]
            /\ cursor' = [cursor EXCEPT ![p] = m]
      BY <1>9 DEF NextMessage
    <2>2. cursor[p] < m /\ cursor[p] \in Nat /\ m \in Nat /\ \A i \in MessagesOf(p) : i \in Nat
      BY <1>9, <2>1 DEF NextMessage, WorkInv, TypeOK, Ids, MessagesOf
    <2>3. \A q \in Producers : MessagesOf(q)' = MessagesOf(q)
      BY <1>9 DEF NextMessage, MessagesOf, dbVars
    <2>4. ASSUME NEW b \in batch[p] \ {m}, NEW i \in MessagesOf(p), m < i, i < b
          PROVE  i \in batch[p] \ {m}
      BY <1>9, <2>2, <2>4 DEF NextMessage, BatchInv
    <2> QED  BY <1>9, <2>1, <2>3, <2>4 DEF NextMessage, BatchInv, TypeOK
  <1>10. ASSUME NEW p \in Producers, FinishJob(p)
        PROVE  BatchInv'
    BY <1>10 DEF FinishJob, BatchInv, WorkInv, TypeOK, MessagesOf, DropWork, dbVars, relayVars
  <1>11. ASSUME NEW r \in Routes, Dispatch(r)
        PROVE  BatchInv'
    BY <1>11 DEF Dispatch, BatchInv, WorkInv, TypeOK, MessagesOf, DropWork, dbVars, relayVars
  <1>12. ASSUME NEW r \in Routes, CommitConsumption(r)
        PROVE  BatchInv'
    BY <1>12 DEF CommitConsumption, BatchInv, WorkInv, TypeOK, MessagesOf, DropWork, dbVars, relayVars
  <1>13. ASSUME FinishIteration
        PROVE  BatchInv'
    BY <1>13 DEF FinishIteration, BatchInv, WorkInv, TypeOK, MessagesOf, DropWork, dbVars, relayVars
  <1>14. ASSUME StopProcess
        PROVE  BatchInv'
    BY <1>14 DEF StopProcess, BatchInv, WorkInv, TypeOK, MessagesOf, DropWork, dbVars, relayVars
  <1>15. CASE UNCHANGED vars
    BY <1>15 DEF vars, BatchInv, WorkInv, TypeOK, MessagesOf, DropWork, dbVars, relayVars
  <1> QED
    BY <1>1, <1>2, <1>3, <1>4, <1>5, <1>6, <1>7, <1>8, <1>9, <1>10, <1>11, <1>12, <1>13, <1>14, <1>15 DEF Next, ConsumerFails, Crash

\* A consumer that the loop over the batch leaves behind has its boundary at or
\* above the cursor, and one that is being invoked has missed nothing below it.
LEMMA RouteStep == CommitsInOrder /\ TypeOK /\ WriterInv /\ WorkInv /\ BatchInv /\ RouteInv /\ [Next]_vars => RouteInv'
  <1> SUFFICES ASSUME CommitsInOrder, TypeOK, WriterInv, WorkInv, BatchInv, RouteInv, [Next]_vars PROVE RouteInv'
    OBVIOUS
  <1>1. ASSUME NEW w \in Writers, NEW p \in Producers, push_message(w, p)
        PROVE  RouteInv'
    <2>0. deployed \subseteq Routes /\ \A s \in Routes : s[1] \in Producers
      BY DEF TypeOK, Routes
    <2>1. \A q \in Producers : MessagesOf(q)' = MessagesOf(q)
      BY <1>1 DEF push_message, MessagesOf, WorkInv, TypeOK, Ids
    <2> QED  BY <1>1, <2>0, <2>1 DEF push_message, RouteInv, relayVars
  <1>2. ASSUME NEW w \in Writers, commit_transaction(w)
        PROVE  RouteInv'
    <2>0. deployed \subseteq Routes /\ \A s \in Routes : s[1] \in Producers
      BY DEF TypeOK, Routes
    <2>1. ASSUME NEW r \in todo \cup dispatched, NEW i \in MessagesOf(r[1])', i < cursor[r[1]]
          PROVE  i \in MessagesOf(r[1])
      <3>0. \A c \in committed : c \in Nat
        BY DEF TypeOK, Ids
      <3>1. cursor[r[1]] \in committed /\ cursor[r[1]] \in Nat
        BY <3>0 DEF WorkInv, MessagesOf
      <3>2. i \notin tx[w]
        BY <2>1, <3>1 DEF WriterInv, TypeOK, Ids
      <3> QED  BY <1>2, <3>2 DEF commit_transaction, MessagesOf
    <2> QED  BY <1>2, <2>0, <2>1 DEF commit_transaction, RouteInv, relayVars
  <1>3. ASSUME NEW w \in Writers, rollback_transaction(w)
        PROVE  RouteInv'
    BY <1>3 DEF rollback_transaction, RouteInv, WorkInv, TypeOK, Routes, MessagesOf, DropWork, dbVars, relayVars
  <1>4. ASSUME NEW routes \in SUBSET Routes, Start(routes)
        PROVE  RouteInv'
    <2>0. deployed \subseteq Routes /\ \A s \in Routes : s[1] \in Producers
      BY DEF TypeOK, Routes
    <2>1. \A p \in Producers : job'[p] = "done"
      BY <1>4 DEF Start, WorkInv, relayVars
    <2>2. \A r \in deployed' : r[1] \in Producers
      BY <1>4, <2>0 DEF Start
    <2> QED  BY <2>1, <2>2 DEF RouteInv
  <1>5. ASSUME init_consumption_records
        PROVE  RouteInv'
    BY <1>5 DEF init_consumption_records, RouteInv, WorkInv, TypeOK, Routes, MessagesOf, DropWork, dbVars, relayVars
  <1>6. ASSUME select_latest_message_ids_by_producers
        PROVE  RouteInv'
    BY <1>6 DEF select_latest_message_ids_by_producers, RouteInv, WorkInv, TypeOK, Routes, MessagesOf, DropWork, dbVars, relayVars
  <1>7. ASSUME select_latest_consumption_boundaries_by_producers
        PROVE  RouteInv'
    <2>0. deployed \subseteq Routes /\ \A s \in Routes : s[1] \in Producers
      BY DEF TypeOK, Routes
    <2>1. \A p \in Producers : job'[p] \in {"load", "done"}
      BY <1>7 DEF select_latest_consumption_boundaries_by_producers
    <2> QED  BY <1>7, <2>0, <2>1 DEF select_latest_consumption_boundaries_by_producers, RouteInv
  <1>8. ASSUME NEW p \in Producers, StartJob(p)
        PROVE  RouteInv'
    <2>0. deployed \subseteq Routes /\ \A s \in Routes : s[1] \in Producers
      BY DEF TypeOK, Routes
    <2>1. \A q \in Producers : MessagesOf(q)' = MessagesOf(q)
      BY <1>8 DEF StartJob, MessagesOf, dbVars
    <2>2. CASE job' = [job EXCEPT ![p] = "done"] /\ UNCHANGED <<batch, cursor>>
      BY <1>8, <2>0, <2>1, <2>2 DEF StartJob, RouteInv, TypeOK
    <2>3. CASE job' = [job EXCEPT ![p] = "feed"]
      <3>1. PICK b \in {seen[r] : r \in RoutesOf(p)} :
              /\ determine_processed_boundary_id(p, b)
              /\ cursor' = [cursor EXCEPT ![p] = b]
        BY <1>8, <2>3 DEF StartJob, TypeOK
      <3> SUFFICES ASSUME NEW r \in deployed, job'[r[1]] # "done"
                   PROVE  /\ job'[r[1]] = "load" => seen'[r] = boundary'[r]
                          /\ job'[r[1]] = "feed" =>
                               /\ seen'[r] <= boundary'[r]
                               /\ boundary'[r] = seen'[r] \/ boundary'[r] <= cursor'[r[1]]
                               /\ r \notin todo' \cup dispatched' => cursor'[r[1]] <= boundary'[r]
                               /\ r \in todo' \cup dispatched' =>
                                     /\ boundary'[r] < cursor'[r[1]]
                                     /\ \A i \in MessagesOf(r[1])' : i < cursor'[r[1]] => i <= boundary'[r]
        BY <1>8 DEF StartJob, RouteInv
      <3>2. CASE r[1] = p
        <4>1. seen[r] = boundary[r] /\ boundary[r] \in Nat
          BY <1>8, <2>0, <3>2 DEF StartJob, RouteInv, TypeOK
        <4>2. r \notin todo \cup dispatched
          BY <1>8, <3>2 DEF StartJob, WorkInv
        <4>3. b <= seen[r] /\ cursor'[p] = b
          BY <3>1, <3>2 DEF determine_processed_boundary_id, RoutesOf, TypeOK
        <4> QED  BY <1>8, <4>1, <4>2, <4>3, <3>2 DEF StartJob
      <3>3. CASE r[1] # p
        BY <1>8, <2>0, <2>1, <2>3, <3>1, <3>3 DEF StartJob, RouteInv, TypeOK
      <3> QED  BY <3>2, <3>3
    <2> QED  BY <1>8, <2>2, <2>3 DEF StartJob
  <1>9. ASSUME NEW p \in Producers, NextMessage(p)
        PROVE  RouteInv'
    <2>0. deployed \subseteq Routes /\ \A s \in Routes : s[1] \in Producers
      BY DEF TypeOK, Routes
    <2>1. PICK m \in batch[p] :
            /\ \A i \in batch[p] : m <= i
            /\ cursor' = [cursor EXCEPT ![p] = m]
            /\ todo' = todo \cup Behind(p, m)
      BY <1>9 DEF NextMessage
    <2>2. \A q \in Producers : MessagesOf(q)' = MessagesOf(q)
      BY <1>9 DEF NextMessage, MessagesOf, dbVars
    <2>3. cursor[p] < m /\ cursor[p] \in Nat /\ m \in Nat /\ \A i \in MessagesOf(p) : i \in Nat
      BY <1>9, <2>1 DEF NextMessage, WorkInv, TypeOK, Ids, MessagesOf
    <2> SUFFICES ASSUME NEW r \in deployed
                 PROVE  /\ job[r[1]] = "load" => seen[r] = boundary[r]
                        /\ job[r[1]] = "feed" =>
                             /\ seen[r] <= boundary[r]
                             /\ boundary[r] = seen[r] \/ boundary[r] <= cursor'[r[1]]
                             /\ r \notin todo' \cup dispatched => cursor'[r[1]] <= boundary[r]
                             /\ r \in todo' \cup dispatched =>
                                   /\ boundary[r] < cursor'[r[1]]
                                   /\ \A i \in MessagesOf(r[1]) : i < cursor'[r[1]] => i <= boundary[r]
      BY <1>9, <2>0, <2>2 DEF NextMessage, RouteInv
    <2>4. CASE r[1] = p
      <3>0. r \in Routes /\ r \in RoutesOf(p) /\ cursor'[r[1]] = m
            /\ boundary[r] \in Nat /\ seen[r] \in Nat
        BY <2>0, <2>1, <2>4 DEF RoutesOf, TypeOK
      <3>1. r \notin todo \cup dispatched
        BY <1>9, <2>4 DEF NextMessage, InFlight
      <3>2. /\ seen[r] <= boundary[r]
            /\ boundary[r] = seen[r] \/ boundary[r] <= cursor[p]
            /\ cursor[p] <= boundary[r]
        BY <1>9, <3>1, <2>4 DEF NextMessage, RouteInv
      <3>3. ASSUME NEW i \in MessagesOf(p), i < m
            PROVE  i <= boundary[r]
        <4>1. ~(cursor[p] < i)
          BY <1>9, <2>1, <2>3, <3>3 DEF NextMessage, BatchInv
        <4> QED  BY <4>1, <2>3, <3>2, <3>0
      <3>4. r \in todo' \cup dispatched <=> seen[r] < m
        BY <2>1, <3>0, <3>1 DEF Behind
      <3> QED  BY <1>9, <2>3, <2>4, <3>0, <3>2, <3>3, <3>4 DEF NextMessage
    <2>5. CASE r[1] # p
      <3>1. r \in todo' <=> r \in todo
        BY <2>1, <2>5 DEF Behind, RoutesOf
      <3>2. cursor'[r[1]] = cursor[r[1]]
        BY <2>0, <2>1, <2>5 DEF TypeOK
      <3> QED  BY <3>1, <3>2 DEF RouteInv
    <2> QED  BY <2>4, <2>5
  <1>10. ASSUME NEW p \in Producers, FinishJob(p)
        PROVE  RouteInv'
    BY <1>10 DEF FinishJob, RouteInv, WorkInv, TypeOK, Routes, MessagesOf, DropWork, dbVars, relayVars
  <1>11. ASSUME NEW r \in Routes, Dispatch(r)
        PROVE  RouteInv'
    BY <1>11 DEF Dispatch, RouteInv, WorkInv, TypeOK, Routes, MessagesOf, DropWork, dbVars, relayVars
  <1>12. ASSUME NEW r \in Routes, CommitConsumption(r)
        PROVE  RouteInv'
    <2>0. deployed \subseteq Routes /\ \A s \in Routes : s[1] \in Producers
      BY DEF TypeOK, Routes
    <2>a. \A c \in committed : c \in Nat
      BY DEF TypeOK, Ids
    <2>b. r \in deployed /\ job[r[1]] = "feed" /\ cursor[r[1]] \in Nat
      BY <1>12, <2>a DEF CommitConsumption, WorkInv, MessagesOf
    <2>1. /\ r \in deployed /\ job[r[1]] = "feed"
          /\ cursor[r[1]] \in Nat
          /\ boundary[r] \in Nat /\ seen[r] \in Nat
      BY <1>12, <2>b DEF TypeOK
    <2>2. /\ seen[r] <= boundary[r]
          /\ boundary[r] < cursor[r[1]]
          /\ boundary' = [boundary EXCEPT ![r] = cursor[r[1]]]
      BY <1>12, <2>1 DEF CommitConsumption, update_consumption_boundary, RouteInv
    <2>3. \A q \in Producers : MessagesOf(q)' = MessagesOf(q)
      BY <1>12 DEF CommitConsumption, MessagesOf, dbVars
    <2>4. r \notin todo
      BY <1>12 DEF CommitConsumption, WorkInv
    <2> QED  BY <1>12, <2>0, <2>1, <2>2, <2>3, <2>4 DEF CommitConsumption, RouteInv, TypeOK
  <1>13. ASSUME FinishIteration
        PROVE  RouteInv'
    BY <1>13 DEF FinishIteration, RouteInv, WorkInv, TypeOK, Routes, MessagesOf, DropWork, dbVars, relayVars
  <1>14. ASSUME StopProcess
        PROVE  RouteInv'
    BY <1>14 DEF StopProcess, RouteInv, WorkInv, TypeOK, Routes, MessagesOf, DropWork, dbVars, relayVars
  <1>15. CASE UNCHANGED vars
    BY <1>15 DEF vars, RouteInv, WorkInv, TypeOK, Routes, MessagesOf, DropWork, dbVars, relayVars
  <1> QED
    BY <1>1, <1>2, <1>3, <1>4, <1>5, <1>6, <1>7, <1>8, <1>9, <1>10, <1>11, <1>12, <1>13, <1>14, <1>15 DEF Next, ConsumerFails, Crash

\* A boundary is 0 or the id of a committed message.
LEMMA BoundaryStep == TypeOK /\ WorkInv /\ BoundaryInv /\ [Next]_vars => BoundaryInv'
  <1> SUFFICES ASSUME TypeOK, WorkInv, BoundaryInv, [Next]_vars PROVE BoundaryInv'
    OBVIOUS
  <1>1. ASSUME NEW w \in Writers, NEW p \in Producers, push_message(w, p)
        PROVE  BoundaryInv'
    BY <1>1 DEF push_message, BoundaryInv, dbVars, relayVars
  <1>2. ASSUME NEW w \in Writers, commit_transaction(w)
        PROVE  BoundaryInv'
    BY <1>2 DEF commit_transaction, BoundaryInv, dbVars, relayVars
  <1>3. ASSUME NEW w \in Writers, rollback_transaction(w)
        PROVE  BoundaryInv'
    BY <1>3 DEF rollback_transaction, BoundaryInv, dbVars, relayVars
  <1>4. ASSUME NEW routes \in SUBSET Routes, Start(routes)
        PROVE  BoundaryInv'
    BY <1>4 DEF Start, BoundaryInv, dbVars, relayVars
  <1>5. ASSUME init_consumption_records
        PROVE  BoundaryInv'
    BY <1>5 DEF init_consumption_records, BoundaryInv, dbVars, relayVars
  <1>6. ASSUME select_latest_message_ids_by_producers
        PROVE  BoundaryInv'
    BY <1>6 DEF select_latest_message_ids_by_producers, BoundaryInv, dbVars, relayVars
  <1>7. ASSUME select_latest_consumption_boundaries_by_producers
        PROVE  BoundaryInv'
    BY <1>7 DEF select_latest_consumption_boundaries_by_producers, BoundaryInv, dbVars, relayVars
  <1>8. ASSUME NEW p \in Producers, StartJob(p)
        PROVE  BoundaryInv'
    BY <1>8 DEF StartJob, BoundaryInv, dbVars, relayVars
  <1>9. ASSUME NEW p \in Producers, NextMessage(p)
        PROVE  BoundaryInv'
    BY <1>9 DEF NextMessage, BoundaryInv, dbVars, relayVars
  <1>10. ASSUME NEW p \in Producers, FinishJob(p)
        PROVE  BoundaryInv'
    BY <1>10 DEF FinishJob, BoundaryInv, dbVars, relayVars
  <1>11. ASSUME NEW r \in Routes, Dispatch(r)
        PROVE  BoundaryInv'
    BY <1>11 DEF Dispatch, BoundaryInv, dbVars, relayVars
  <1>12. ASSUME NEW r \in Routes, CommitConsumption(r)
        PROVE  BoundaryInv'
    <2>1. cursor[r[1]] \in committed
      BY <1>12 DEF CommitConsumption, WorkInv, MessagesOf
    <2> QED  BY <1>12, <2>1 DEF CommitConsumption, update_consumption_boundary, BoundaryInv, TypeOK, dbVars
  <1>13. ASSUME FinishIteration
        PROVE  BoundaryInv'
    BY <1>13 DEF FinishIteration, BoundaryInv, dbVars, relayVars
  <1>14. ASSUME StopProcess
        PROVE  BoundaryInv'
    BY <1>14 DEF StopProcess, BoundaryInv, dbVars, relayVars
  <1>15. CASE UNCHANGED vars
    BY <1>15 DEF vars, BoundaryInv, dbVars, relayVars
  <1> QED
    BY <1>1, <1>2, <1>3, <1>4, <1>5, <1>6, <1>7, <1>8, <1>9, <1>10, <1>11, <1>12, <1>13, <1>14, <1>15 DEF Next, ConsumerFails, Crash

\* The commit of a consumption moves the boundary over exactly the message
\* consumed, and a later commit of messages adds none below a boundary.
LEMMA ConsumedStep == CommitsInOrder /\ TypeOK /\ WriterInv /\ WorkInv /\ RouteInv /\ BoundaryInv /\ ConsumedUpToBoundary /\ [Next]_vars => ConsumedUpToBoundary'
  <1> SUFFICES ASSUME CommitsInOrder, TypeOK, WriterInv, WorkInv, RouteInv, BoundaryInv, ConsumedUpToBoundary, [Next]_vars PROVE ConsumedUpToBoundary'
    OBVIOUS
  <1>1. ASSUME NEW w \in Writers, NEW p \in Producers, push_message(w, p)
        PROVE  ConsumedUpToBoundary'
    <2>0. \A r \in Routes : r[1] \in Producers
      BY DEF Routes
    <2>1. \A q \in Producers : MessagesOf(q)' = MessagesOf(q)
      BY <1>1 DEF push_message, MessagesOf, WorkInv, TypeOK, Ids
    <2> QED  BY <1>1, <2>0, <2>1 DEF push_message, ConsumedUpToBoundary
  <1>2. ASSUME NEW w \in Writers, commit_transaction(w)
        PROVE  ConsumedUpToBoundary'
    <2> SUFFICES ASSUME NEW r \in Routes, NEW i \in Ids
                 PROVE  effects[r][i] = IF i \in MessagesOf(r[1])' /\ i <= boundary[r] THEN 1 ELSE 0
      BY <1>2 DEF commit_transaction, ConsumedUpToBoundary
    <2>0. i \in Nat /\ i > 0 /\ boundary[r] \in Nat
      BY DEF Ids, TypeOK
    <2>1. CASE i \in tx[w]
      <3>1. ~(i <= boundary[r])
        BY <2>0, <2>1 DEF BoundaryInv, WriterInv
      <3> QED  BY <3>1 DEF ConsumedUpToBoundary
    <2>2. CASE i \notin tx[w]
      <3>1. i \in MessagesOf(r[1])' <=> i \in MessagesOf(r[1])
        BY <1>2, <2>2 DEF commit_transaction, MessagesOf
      <3> QED  BY <3>1 DEF ConsumedUpToBoundary
    <2> QED  BY <2>1, <2>2
  <1>3. ASSUME NEW w \in Writers, rollback_transaction(w)
        PROVE  ConsumedUpToBoundary'
    BY <1>3 DEF rollback_transaction, ConsumedUpToBoundary, MessagesOf, dbVars, relayVars
  <1>4. ASSUME NEW routes \in SUBSET Routes, Start(routes)
        PROVE  ConsumedUpToBoundary'
    BY <1>4 DEF Start, ConsumedUpToBoundary, MessagesOf, dbVars, relayVars
  <1>5. ASSUME init_consumption_records
        PROVE  ConsumedUpToBoundary'
    BY <1>5 DEF init_consumption_records, ConsumedUpToBoundary, MessagesOf, dbVars, relayVars
  <1>6. ASSUME select_latest_message_ids_by_producers
        PROVE  ConsumedUpToBoundary'
    BY <1>6 DEF select_latest_message_ids_by_producers, ConsumedUpToBoundary, MessagesOf, dbVars, relayVars
  <1>7. ASSUME select_latest_consumption_boundaries_by_producers
        PROVE  ConsumedUpToBoundary'
    BY <1>7 DEF select_latest_consumption_boundaries_by_producers, ConsumedUpToBoundary, MessagesOf, dbVars, relayVars
  <1>8. ASSUME NEW p \in Producers, StartJob(p)
        PROVE  ConsumedUpToBoundary'
    BY <1>8 DEF StartJob, ConsumedUpToBoundary, MessagesOf, dbVars, relayVars
  <1>9. ASSUME NEW p \in Producers, NextMessage(p)
        PROVE  ConsumedUpToBoundary'
    BY <1>9 DEF NextMessage, ConsumedUpToBoundary, MessagesOf, dbVars, relayVars
  <1>10. ASSUME NEW p \in Producers, FinishJob(p)
        PROVE  ConsumedUpToBoundary'
    BY <1>10 DEF FinishJob, ConsumedUpToBoundary, MessagesOf, dbVars, relayVars
  <1>11. ASSUME NEW r \in Routes, Dispatch(r)
        PROVE  ConsumedUpToBoundary'
    BY <1>11 DEF Dispatch, ConsumedUpToBoundary, MessagesOf, dbVars, relayVars
  <1>12. ASSUME NEW r \in Routes, CommitConsumption(r)
        PROVE  ConsumedUpToBoundary'
    <2>1. \A q \in Producers : MessagesOf(q)' = MessagesOf(q)
      BY <1>12 DEF CommitConsumption, MessagesOf, dbVars
    <2>2. \A s \in Routes : s[1] \in Producers
      BY DEF Routes
    <2>3. /\ cursor[r[1]] \in MessagesOf(r[1]) /\ cursor[r[1]] \in Ids
          /\ r \in deployed /\ job[r[1]] = "feed"
      BY <1>12 DEF CommitConsumption, WorkInv, MessagesOf, TypeOK
    <2>4. /\ boundary[r] < cursor[r[1]]
          /\ boundary' = [boundary EXCEPT ![r] = cursor[r[1]]]
          /\ effects' = [effects EXCEPT ![r] = [effects[r] EXCEPT ![cursor[r[1]]] = effects[r][cursor[r[1]]] + 1]]
      BY <1>12 DEF CommitConsumption, update_consumption_boundary
    <2>5. \A i \in MessagesOf(r[1]) : i < cursor[r[1]] => i <= boundary[r]
      BY <1>12, <2>3 DEF CommitConsumption, RouteInv
    <2> SUFFICES ASSUME NEW s \in Routes, NEW i \in Ids
                 PROVE  effects'[s][i] = IF i \in MessagesOf(s[1]) /\ i <= boundary'[s] THEN 1 ELSE 0
      BY <2>1, <2>2 DEF ConsumedUpToBoundary
    <2>6. CASE s # r
      BY <2>4, <2>6 DEF ConsumedUpToBoundary, TypeOK
    <2>7. CASE s = r
      <3>1. boundary'[s] = cursor[r[1]]
        BY <2>4, <2>7 DEF TypeOK
      <3>2. effects'[s] = [effects[r] EXCEPT ![cursor[r[1]]] = effects[r][cursor[r[1]]] + 1]
        BY <2>4, <2>7 DEF TypeOK
      <3>3. effects[r] \in [Ids -> Nat] /\ boundary[r] \in Nat /\ Ids \subseteq Nat
        BY DEF TypeOK, Ids
      <3>4. effects[r][i] = IF i \in MessagesOf(r[1]) /\ i <= boundary[r] THEN 1 ELSE 0
        BY DEF ConsumedUpToBoundary
      <3>5. CASE i = cursor[r[1]]
        BY <3>1, <3>2, <3>3, <3>4, <3>5, <2>3, <2>4, <2>7
      <3>6. CASE i # cursor[r[1]]
        <4>1. effects'[s][i] = effects[r][i]
          BY <3>2, <3>3, <3>6
        <4> QED  BY <4>1, <3>1, <3>3, <3>4, <3>6, <2>3, <2>4, <2>5, <2>7
      <3> QED  BY <3>5, <3>6
    <2> QED  BY <2>6, <2>7
  <1>13. ASSUME FinishIteration
        PROVE  ConsumedUpToBoundary'
    BY <1>13 DEF FinishIteration, ConsumedUpToBoundary, MessagesOf, dbVars, relayVars
  <1>14. ASSUME StopProcess
        PROVE  ConsumedUpToBoundary'
    BY <1>14 DEF StopProcess, ConsumedUpToBoundary, MessagesOf, dbVars, relayVars
  <1>15. CASE UNCHANGED vars
    BY <1>15 DEF vars, ConsumedUpToBoundary, MessagesOf, dbVars, relayVars
  <1> QED
    BY <1>1, <1>2, <1>3, <1>4, <1>5, <1>6, <1>7, <1>8, <1>9, <1>10, <1>11, <1>12, <1>13, <1>14, <1>15 DEF Next, ConsumerFails, Crash

-----------------------------------------------------------------------------
\* Where one transaction writes at a time (SQLite, in-memory), a consumer has
\* consumed exactly the committed messages up to its boundary, each once, for
\* any number of producers, consumers, writers, messages and crashes and any
\* batch size: the relay neither skips nor repeats a message.
THEOREM ConsumedExactlyUpToBoundary ==
    ASSUME CommitsInOrder
    PROVE  Spec => []ConsumedUpToBoundary
  <1>1. Init => OutboxInv
    <2> SUFFICES ASSUME Init PROVE OutboxInv
      OBVIOUS
    <2>1. TypeOK
      BY MaxMessagesAssumption, MaxStopsAssumption DEF Init, NoWork, TypeOK, Ids
    <2>2. WriterInv /\ WorkInv /\ BatchInv /\ BoundaryInv
      BY DEF Init, NoWork, WriterInv, WorkInv, BatchInv, BoundaryInv
    <2>3. RouteInv
      BY DEF Init, RouteInv
    <2>4. ConsumedUpToBoundary
      BY DEF Init, ConsumedUpToBoundary, MessagesOf
    <2> QED  BY <2>1, <2>2, <2>3, <2>4 DEF OutboxInv
  <1>2. OutboxInv /\ [Next]_vars => OutboxInv'
    BY TypeStep, WriterStep, WorkStep, BatchStep, RouteStep, BoundaryStep, ConsumedStep DEF OutboxInv
  <1>3. OutboxInv => ConsumedUpToBoundary
    BY DEF OutboxInv
  <1> QED  BY <1>1, <1>2, <1>3, PTL DEF Spec

-----------------------------------------------------------------------------
\* What is consumed was committed by the route's producer, is not above the
\* boundary and was consumed once.
OnceInv ==
    \A r \in Routes, i \in Ids :
        /\ effects[r][i] \in {0, 1}
        /\ effects[r][i] = 1 => i \in MessagesOf(r[1]) /\ i <= boundary[r]

\* Nothing is consumed above the boundary, so that the message at the cursor
\* has not been consumed when update_consumption_boundary lets it pass; this
\* needs no assumption on the order of commits.
LEMMA OnceStep == TypeOK /\ WorkInv /\ OnceInv /\ [Next]_vars => OnceInv'
  <1> SUFFICES ASSUME TypeOK, WorkInv, OnceInv, [Next]_vars PROVE OnceInv'
    OBVIOUS
  <1>1. ASSUME NEW w \in Writers, NEW p \in Producers, push_message(w, p)
        PROVE  OnceInv'
    <2>0. \A r \in Routes : r[1] \in Producers
      BY DEF Routes
    <2>1. \A q \in Producers : MessagesOf(q)' = MessagesOf(q)
      BY <1>1 DEF push_message, MessagesOf, WorkInv, TypeOK, Ids
    <2> QED  BY <1>1, <2>0, <2>1 DEF push_message, OnceInv
  <1>2. ASSUME NEW w \in Writers, commit_transaction(w)
        PROVE  OnceInv'
    <2>1. \A q \in Producers : MessagesOf(q) \subseteq MessagesOf(q)'
      BY <1>2 DEF commit_transaction, MessagesOf
    <2>2. \A r \in Routes : r[1] \in Producers
      BY DEF Routes
    <2> QED  BY <1>2, <2>1, <2>2 DEF commit_transaction, OnceInv
  <1>3. ASSUME NEW w \in Writers, rollback_transaction(w)
        PROVE  OnceInv'
    BY <1>3 DEF rollback_transaction, OnceInv, MessagesOf, dbVars, relayVars
  <1>4. ASSUME NEW routes \in SUBSET Routes, Start(routes)
        PROVE  OnceInv'
    BY <1>4 DEF Start, OnceInv, MessagesOf, dbVars, relayVars
  <1>5. ASSUME init_consumption_records
        PROVE  OnceInv'
    BY <1>5 DEF init_consumption_records, OnceInv, MessagesOf, dbVars, relayVars
  <1>6. ASSUME select_latest_message_ids_by_producers
        PROVE  OnceInv'
    BY <1>6 DEF select_latest_message_ids_by_producers, OnceInv, MessagesOf, dbVars, relayVars
  <1>7. ASSUME select_latest_consumption_boundaries_by_producers
        PROVE  OnceInv'
    BY <1>7 DEF select_latest_consumption_boundaries_by_producers, OnceInv, MessagesOf, dbVars, relayVars
  <1>8. ASSUME NEW p \in Producers, StartJob(p)
        PROVE  OnceInv'
    BY <1>8 DEF StartJob, OnceInv, MessagesOf, dbVars, relayVars
  <1>9. ASSUME NEW p \in Producers, NextMessage(p)
        PROVE  OnceInv'
    BY <1>9 DEF NextMessage, OnceInv, MessagesOf, dbVars, relayVars
  <1>10. ASSUME NEW p \in Producers, FinishJob(p)
        PROVE  OnceInv'
    BY <1>10 DEF FinishJob, OnceInv, MessagesOf, dbVars, relayVars
  <1>11. ASSUME NEW r \in Routes, Dispatch(r)
        PROVE  OnceInv'
    BY <1>11 DEF Dispatch, OnceInv, MessagesOf, dbVars, relayVars
  <1>12. ASSUME NEW r \in Routes, CommitConsumption(r)
        PROVE  OnceInv'
    <2>1. \A q \in Producers : MessagesOf(q)' = MessagesOf(q)
      BY <1>12 DEF CommitConsumption, MessagesOf, dbVars
    <2>2. \A s \in Routes : s[1] \in Producers
      BY DEF Routes
    <2>3. /\ cursor[r[1]] \in MessagesOf(r[1]) /\ cursor[r[1]] \in Ids
      BY <1>12 DEF CommitConsumption, WorkInv, MessagesOf, TypeOK
    <2>4. /\ boundary[r] < cursor[r[1]]
          /\ boundary' = [boundary EXCEPT ![r] = cursor[r[1]]]
          /\ effects' = [effects EXCEPT ![r] = [effects[r] EXCEPT ![cursor[r[1]]] = effects[r][cursor[r[1]]] + 1]]
      BY <1>12 DEF CommitConsumption, update_consumption_boundary
    <2> SUFFICES ASSUME NEW s \in Routes, NEW i \in Ids
                 PROVE  /\ effects'[s][i] \in {0, 1}
                        /\ effects'[s][i] = 1 => i \in MessagesOf(s[1]) /\ i <= boundary'[s]
      BY <2>1, <2>2 DEF OnceInv
    <2>5. CASE s # r
      BY <2>4, <2>5 DEF OnceInv, TypeOK
    <2>6. CASE s = r
      <3>1. boundary'[s] = cursor[r[1]]
        BY <2>4, <2>6 DEF TypeOK
      <3>2. effects'[s] = [effects[r] EXCEPT ![cursor[r[1]]] = effects[r][cursor[r[1]]] + 1]
        BY <2>4, <2>6 DEF TypeOK
      <3>3. effects[r] \in [Ids -> Nat] /\ boundary[r] \in Nat /\ Ids \subseteq Nat
        BY DEF TypeOK, Ids
      <3>4. CASE i = cursor[r[1]]
        <4>1. effects[r][i] = 0
          BY <3>3, <3>4, <2>3, <2>4 DEF OnceInv
        <4> QED  BY <4>1, <3>1, <3>2, <3>3, <3>4, <2>3, <2>6
      <3>5. CASE i # cursor[r[1]]
        <4>1. effects'[s][i] = effects[r][i]
          BY <3>2, <3>3, <3>5
        <4>2. effects[r][i] = 1 => i \in MessagesOf(r[1]) /\ i <= boundary[r]
          BY DEF OnceInv
        <4>3. effects[r][i] \in {0, 1}
          BY DEF OnceInv
        <4> QED  BY <4>1, <4>2, <4>3, <3>1, <3>3, <2>3, <2>4, <2>6
      <3> QED  BY <3>4, <3>5
    <2> QED  BY <2>5, <2>6
  <1>13. ASSUME FinishIteration
        PROVE  OnceInv'
    BY <1>13 DEF FinishIteration, OnceInv, MessagesOf, dbVars, relayVars
  <1>14. ASSUME StopProcess
        PROVE  OnceInv'
    BY <1>14 DEF StopProcess, OnceInv, MessagesOf, dbVars, relayVars
  <1>15. CASE UNCHANGED vars
    BY <1>15 DEF vars, OnceInv, MessagesOf, dbVars, relayVars
  <1> QED
    BY <1>1, <1>2, <1>3, <1>4, <1>5, <1>6, <1>7, <1>8, <1>9, <1>10, <1>11, <1>12, <1>13, <1>14, <1>15 DEF Next, ConsumerFails, Crash

\* In whatever order transactions commit (Postgres included), no consumption is
\* committed twice and nothing but committed messages of the route's producer is
\* consumed.
THEOREM ConsumedAtMostOnce == Spec => []NeverConsumedTwice
  <1> DEFINE Inv == TypeOK /\ WorkInv /\ OnceInv
  <1>1. Init => Inv
    <2> SUFFICES ASSUME Init PROVE Inv
      OBVIOUS
    <2>1. TypeOK
      BY MaxMessagesAssumption, MaxStopsAssumption DEF Init, NoWork, TypeOK, Ids
    <2>2. WorkInv
      BY DEF Init, NoWork, WorkInv
    <2>3. OnceInv
      BY DEF Init, OnceInv
    <2> QED  BY <2>1, <2>2, <2>3
  <1>2. Inv /\ [Next]_vars => Inv'
    BY TypeStep, WorkStep, OnceStep
  <1>3. Inv => NeverConsumedTwice
    BY DEF OnceInv, NeverConsumedTwice
  <1> QED  BY <1>1, <1>2, <1>3, PTL DEF Spec

\* The relay invokes a consumer with messages above its boundary only, whatever
\* order the writers commit in.
LEMMA OrderStep == TypeOK /\ WorkInv /\ OrderInv /\ [Next]_vars => OrderInv'
  <1> SUFFICES ASSUME TypeOK, WorkInv, OrderInv, [Next]_vars PROVE OrderInv'
    OBVIOUS
  <1>1. ASSUME NEW w \in Writers, NEW p \in Producers, push_message(w, p)
        PROVE  OrderInv'
    BY <1>1 DEF push_message, OrderInv, WorkInv, TypeOK, Routes, DropWork, dbVars, relayVars
  <1>2. ASSUME NEW w \in Writers, commit_transaction(w)
        PROVE  OrderInv'
    BY <1>2 DEF commit_transaction, OrderInv, WorkInv, TypeOK, Routes, DropWork, dbVars, relayVars
  <1>3. ASSUME NEW w \in Writers, rollback_transaction(w)
        PROVE  OrderInv'
    BY <1>3 DEF rollback_transaction, OrderInv, WorkInv, TypeOK, Routes, DropWork, dbVars, relayVars
  <1>4. ASSUME NEW routes \in SUBSET Routes, Start(routes)
        PROVE  OrderInv'
    <2>0. deployed \subseteq Routes /\ \A s \in Routes : s[1] \in Producers
      BY DEF TypeOK, Routes
    <2>1. \A p \in Producers : job'[p] = "done"
      BY <1>4 DEF Start, WorkInv, relayVars
    <2>2. \A r \in deployed' : r[1] \in Producers
      BY <1>4, <2>0 DEF Start
    <2> QED  BY <2>1, <2>2 DEF OrderInv
  <1>5. ASSUME init_consumption_records
        PROVE  OrderInv'
    BY <1>5 DEF init_consumption_records, OrderInv, WorkInv, TypeOK, Routes, DropWork, dbVars, relayVars
  <1>6. ASSUME select_latest_message_ids_by_producers
        PROVE  OrderInv'
    BY <1>6 DEF select_latest_message_ids_by_producers, OrderInv, WorkInv, TypeOK, Routes, DropWork, dbVars, relayVars
  <1>7. ASSUME select_latest_consumption_boundaries_by_producers
        PROVE  OrderInv'
    <2>0. deployed \subseteq Routes /\ \A s \in Routes : s[1] \in Producers
      BY DEF TypeOK, Routes
    <2>1. \A p \in Producers : job'[p] \in {"load", "done"}
      BY <1>7 DEF select_latest_consumption_boundaries_by_producers
    <2> QED  BY <1>7, <2>0, <2>1 DEF select_latest_consumption_boundaries_by_producers, OrderInv
  <1>8. ASSUME NEW p \in Producers, StartJob(p)
        PROVE  OrderInv'
    <2>0. deployed \subseteq Routes /\ \A s \in Routes : s[1] \in Producers
      BY DEF TypeOK, Routes
    <2>1. ASSUME NEW r \in deployed, r[1] = p
          PROVE  r \notin todo \cup dispatched /\ seen[r] = boundary[r] /\ boundary[r] \in Nat
      BY <1>8, <2>0, <2>1 DEF StartJob, WorkInv, OrderInv, TypeOK
    <2>2. \A q \in Producers \ {p} : cursor'[q] = cursor[q] /\ job'[q] = job[q]
      BY <1>8 DEF StartJob, TypeOK
    <2>3. job'[p] \in {"feed", "done"}
      BY <1>8 DEF StartJob, TypeOK
    <2> QED  BY <1>8, <2>0, <2>1, <2>2, <2>3 DEF StartJob, OrderInv
  <1>9. ASSUME NEW p \in Producers, NextMessage(p)
        PROVE  OrderInv'
    <2>0. deployed \subseteq Routes /\ \A s \in Routes : s[1] \in Producers
      BY DEF TypeOK, Routes
    <2>1. PICK m \in batch[p] :
            /\ cursor' = [cursor EXCEPT ![p] = m]
            /\ todo' = todo \cup Behind(p, m)
      BY <1>9 DEF NextMessage
    <2>2. cursor[p] < m /\ cursor[p] \in Nat /\ m \in Nat /\ cursor'[p] = m
          /\ \A q \in Producers \ {p} : cursor'[q] = cursor[q]
      BY <1>9, <2>1 DEF NextMessage, WorkInv, TypeOK, Ids
    <2>3. ASSUME NEW r \in deployed, r[1] = p
          PROVE  /\ seen[r] <= boundary[r]
                 /\ boundary[r] = seen[r] \/ boundary[r] <= cursor[p]
                 /\ boundary[r] \in Nat /\ seen[r] \in Nat
                 /\ r \in todo' \cup dispatched => seen[r] < m
      BY <1>9, <2>0, <2>1, <2>3 DEF NextMessage, InFlight, Behind, OrderInv, TypeOK
    <2>4. ASSUME NEW r \in deployed, r[1] # p
          PROVE  r \in todo' <=> r \in todo
      BY <2>1, <2>4 DEF Behind, RoutesOf
    <2> QED  BY <1>9, <2>0, <2>2, <2>3, <2>4 DEF NextMessage, OrderInv
  <1>10. ASSUME NEW p \in Producers, FinishJob(p)
        PROVE  OrderInv'
    BY <1>10 DEF FinishJob, OrderInv, WorkInv, TypeOK, Routes, DropWork, dbVars, relayVars
  <1>11. ASSUME NEW r \in Routes, Dispatch(r)
        PROVE  OrderInv'
    BY <1>11 DEF Dispatch, OrderInv, WorkInv, TypeOK, Routes, DropWork, dbVars, relayVars
  <1>12. ASSUME NEW r \in Routes, CommitConsumption(r)
        PROVE  OrderInv'
    <2>0. deployed \subseteq Routes /\ \A s \in Routes : s[1] \in Producers
      BY DEF TypeOK, Routes
    <2>1. r \in deployed /\ job[r[1]] = "feed" /\ r \notin todo
      BY <1>12 DEF CommitConsumption, WorkInv
    <2>2. /\ seen[r] <= boundary[r]
          /\ boundary[r] < cursor[r[1]]
          /\ boundary' = [boundary EXCEPT ![r] = cursor[r[1]]]
          /\ boundary[r] \in Nat /\ seen[r] \in Nat /\ cursor[r[1]] \in Nat
      BY <1>12, <2>0, <2>1 DEF CommitConsumption, update_consumption_boundary, OrderInv, TypeOK
    <2> QED  BY <1>12, <2>0, <2>1, <2>2 DEF CommitConsumption, OrderInv, TypeOK
  <1>13. ASSUME FinishIteration
        PROVE  OrderInv'
    BY <1>13 DEF FinishIteration, OrderInv, WorkInv, TypeOK, Routes, DropWork, dbVars, relayVars
  <1>14. ASSUME StopProcess
        PROVE  OrderInv'
    BY <1>14 DEF StopProcess, OrderInv, WorkInv, TypeOK, Routes, DropWork, dbVars, relayVars
  <1>15. CASE UNCHANGED vars
    BY <1>15 DEF vars, OrderInv, dbVars, relayVars
  <1> QED
    BY <1>1, <1>2, <1>3, <1>4, <1>5, <1>6, <1>7, <1>8, <1>9, <1>10, <1>11, <1>12, <1>13,
       <1>14, <1>15 DEF Next, ConsumerFails, Crash

\* A process remembers only what its consumers have passed, or are about to.
LEMMA AppliedStep == TypeOK /\ WorkInv /\ OrderInv /\ AppliedInv /\ [Next]_vars => AppliedInv'
  <1> SUFFICES ASSUME TypeOK, WorkInv, OrderInv, AppliedInv, [Next]_vars PROVE AppliedInv'
    OBVIOUS
  <1>1. ASSUME NEW w \in Writers, NEW p \in Producers, push_message(w, p)
        PROVE  AppliedInv'
    BY <1>1 DEF push_message, AppliedInv, WorkInv, TypeOK, Routes, DropWork, dbVars, relayVars
  <1>2. ASSUME NEW w \in Writers, commit_transaction(w)
        PROVE  AppliedInv'
    BY <1>2 DEF commit_transaction, AppliedInv, WorkInv, TypeOK, Routes, DropWork, dbVars, relayVars
  <1>3. ASSUME NEW w \in Writers, rollback_transaction(w)
        PROVE  AppliedInv'
    BY <1>3 DEF rollback_transaction, AppliedInv, WorkInv, TypeOK, Routes, DropWork, dbVars, relayVars
  <1>4. ASSUME NEW routes \in SUBSET Routes, Start(routes)
        PROVE  AppliedInv'
    BY <1>4 DEF Start, AppliedInv, WorkInv, TypeOK, Routes, DropWork, dbVars, relayVars
  <1>5. ASSUME init_consumption_records
        PROVE  AppliedInv'
    BY <1>5 DEF init_consumption_records, AppliedInv, WorkInv, TypeOK, Routes, DropWork, dbVars, relayVars
  <1>6. ASSUME select_latest_message_ids_by_producers
        PROVE  AppliedInv'
    BY <1>6 DEF select_latest_message_ids_by_producers, AppliedInv, WorkInv, TypeOK, Routes, DropWork, dbVars, relayVars
  <1>7. ASSUME select_latest_consumption_boundaries_by_producers
        PROVE  AppliedInv'
    BY <1>7 DEF select_latest_consumption_boundaries_by_producers, AppliedInv, WorkInv, TypeOK, Routes, DropWork, dbVars, relayVars
  <1>8. ASSUME NEW p \in Producers, StartJob(p)
        PROVE  AppliedInv'
    <2>1. \A r \in dispatched : r[1] # p
      BY <1>8 DEF StartJob, WorkInv
    <2>2. \A r \in dispatched : cursor'[r[1]] = cursor[r[1]]
      BY <1>8, <2>1 DEF StartJob, TypeOK, Routes
    <2> QED  BY <1>8, <2>2 DEF StartJob, AppliedInv
  <1>9. ASSUME NEW p \in Producers, NextMessage(p)
        PROVE  AppliedInv'
    <2>1. \A r \in dispatched : r[1] # p
      BY <1>9 DEF NextMessage, InFlight
    <2>2. \A r \in dispatched : cursor'[r[1]] = cursor[r[1]]
      BY <1>9, <2>1 DEF NextMessage, TypeOK, Routes
    <2> QED  BY <1>9, <2>2 DEF NextMessage, AppliedInv
  <1>10. ASSUME NEW p \in Producers, FinishJob(p)
        PROVE  AppliedInv'
    BY <1>10 DEF FinishJob, AppliedInv, WorkInv, TypeOK, Routes, DropWork, dbVars, relayVars
  <1>11. ASSUME NEW r \in Routes, Dispatch(r)
        PROVE  AppliedInv'
    <2>1. /\ r \notin dispatched /\ applied'[r] = applied[r] \cup {cursor[r[1]]}
          /\ \A s \in Routes \ {r} : applied'[s] = applied[s]
      BY <1>11 DEF Dispatch, WorkInv, TypeOK
    <2> QED  BY <1>11, <2>1 DEF Dispatch, AppliedInv
  <1>12. ASSUME NEW r \in Routes, CommitConsumption(r)
        PROVE  AppliedInv'
    <2>1. r \in deployed /\ job[r[1]] = "feed" /\ r[1] \in Producers
      BY <1>12 DEF CommitConsumption, WorkInv, Routes
    <2>2. /\ boundary[r] < cursor[r[1]] /\ boundary'[r] = cursor[r[1]]
          /\ \A s \in Routes \ {r} : boundary'[s] = boundary[s]
          /\ boundary[r] \in Nat /\ cursor[r[1]] \in Nat /\ \A i \in applied[r] : i \in Nat
      BY <1>12, <2>1 DEF CommitConsumption, update_consumption_boundary, TypeOK, Ids
    <2>3. \A i \in applied'[r] : i <= boundary'[r]
      BY <1>12, <2>2 DEF CommitConsumption, AppliedInv
    <2> QED  BY <1>12, <2>2, <2>3 DEF CommitConsumption, AppliedInv
  <1>13. ASSUME FinishIteration
        PROVE  AppliedInv'
    <2>1. dispatched = {}
      BY <1>13 DEF FinishIteration, WorkInv, TypeOK, Routes
    <2> QED  BY <1>13, <2>1 DEF FinishIteration, AppliedInv
  <1>14. ASSUME StopProcess
        PROVE  AppliedInv'
    BY <1>14 DEF StopProcess, AppliedInv, WorkInv, TypeOK, Routes, DropWork, dbVars, relayVars
  <1>15. CASE UNCHANGED vars
    BY <1>15 DEF vars, AppliedInv, dbVars, relayVars
  <1> QED
    BY <1>1, <1>2, <1>3, <1>4, <1>5, <1>6, <1>7, <1>8, <1>9, <1>10, <1>11, <1>12, <1>13,
       <1>14, <1>15 DEF Next, ConsumerFails, Crash

\* In whatever order transactions commit, a process runs each of its consumers in
\* id order and never twice for one message; what the consumers keep in memory is
\* lost with the process, never applied again.
THEOREM ConsumersRunInOrder == Spec => []InOrderWithinProcess
  <1> DEFINE Inv == TypeOK /\ WorkInv /\ OrderInv /\ AppliedInv
  <1>1. Init => Inv
    <2> SUFFICES ASSUME Init PROVE Inv
      OBVIOUS
    <2>1. TypeOK
      BY MaxMessagesAssumption, MaxStopsAssumption DEF Init, NoWork, TypeOK, Ids
    <2>2. WorkInv
      BY DEF Init, NoWork, WorkInv
    <2>3. OrderInv /\ AppliedInv
      BY DEF Init, OrderInv, AppliedInv
    <2> QED  BY <2>1, <2>2, <2>3
  <1>2. Inv /\ [Next]_vars => Inv'
    BY TypeStep, WorkStep, OrderStep, AppliedStep
  <1>3. Inv => InOrderWithinProcess
    <2> SUFFICES ASSUME Inv, NEW r \in todo, NEW i \in applied[r]
                 PROVE  i < cursor[r[1]]
      BY DEF InOrderWithinProcess
    <2>1. r \in Routes /\ r \in deployed /\ job[r[1]] = "feed" /\ r \notin dispatched
      BY DEF WorkInv, TypeOK
    <2>2. i <= boundary[r] /\ boundary[r] < cursor[r[1]]
      BY <2>1 DEF OrderInv, AppliedInv
    <2>3. i \in Nat /\ boundary[r] \in Nat /\ cursor[r[1]] \in Nat
      BY <2>1 DEF TypeOK, Ids, Routes
    <2> QED  BY <2>2, <2>3
  <1> QED  BY <1>1, <1>2, <1>3, PTL DEF Spec

=============================================================================
