------------------------------- MODULE Outbox -------------------------------
(***************************************************************************)
(* The transactional outbox: writers insert messages inside their own      *)
(* database transactions, and the relay loop of the API server             *)
(* (OutboxTransactionalProcessor) feeds every durable consumer the         *)
(* messages of its producers in id order, moving the consumer's boundary   *)
(* in the transaction that runs the consumer.                              *)
(*                                                                         *)
(* Every DatabaseTransactionRunner::transactional call of the relay is one *)
(* action, except the call that runs a consumer: the consumer's effects    *)
(* outside the database (the state of the in-memory services) happen       *)
(* before the commit, so it is split in Dispatch and CommitConsumption.    *)
(* An error anywhere in the relay ends APIServer::run, hence the process.  *)
(***************************************************************************)
EXTENDS Integers, FiniteSets

CONSTANTS Producers,
          Consumers,
          Writers,          \* concurrent database transactions that post
          BatchSize,        \* OutboxConfig::batch_size
          CommitsInOrder,   \* TRUE: one writing transaction at a time (SQLite,
                            \* in-memory); FALSE: ids come from a sequence and
                            \* transactions commit in any order (Postgres)
          MaxMessages,      \* bound: message ids
          MaxStops          \* bound: crashes, relay errors and shutdowns

ASSUME BatchSizeAssumption      == BatchSize \in Nat \ {0}
ASSUME CommitsInOrderAssumption == CommitsInOrder \in BOOLEAN
ASSUME MaxMessagesAssumption    == MaxMessages \in Nat
ASSUME MaxStopsAssumption       == MaxStops \in Nat

VARIABLES
    \* the database
    next_id,        \* next value of outbox_message_id_seq
    producer_of,    \* id -> producer, once allocated
    committed,      \* ids visible to the relay
    records,        \* routes that have a consumption record
    boundary,       \* route -> last_consumed_message_id
    effects,        \* route -> id -> how often its consumption was committed
    \* the process
    tx,             \* writer -> ids inserted by its open transaction
    deployed,       \* routes of the running release
    phase,          \* the relay loop: down, starting, idle, latest, feeding
    latest,         \* producer -> latest id the iteration has seen
    seen,           \* route -> boundary the iteration has seen
    job,            \* producer -> state of its ProducerRelayJob
    batch,          \* producer -> loaded messages still to be fed
    cursor,         \* producer -> message being fed (at first: processed boundary)
    todo,           \* routes still to be invoked for the message being fed
    dispatched,     \* routes whose consumer runs in an open transaction
    applied,        \* route -> ids whose consumer ran in this process
    stops

dbVars     == <<next_id, producer_of, committed>>
relayVars  == <<latest, seen, job, batch, cursor, todo, dispatched, applied>>
vars       == <<next_id, producer_of, committed, records, boundary, effects, tx,
                deployed, phase, latest, seen, job, batch, cursor, todo,
                dispatched, applied, stops>>

Ids    == 1 .. MaxMessages
Routes == Producers \X Consumers
NoProducer == "unallocated"

RoutesOf(p) == {r \in deployed : r[1] = p}
MessagesOf(p) == {i \in committed : producer_of[i] = p}
InFlight(p) == {r \in todo \cup dispatched : r[1] = p}

\* The relay holds no work: how an iteration, and a process, begins.
NoWork ==
    /\ latest = [p \in Producers |-> 0]
    /\ seen = [r \in Routes |-> 0]
    /\ job = [p \in Producers |-> "done"]
    /\ batch = [p \in Producers |-> {}]
    /\ cursor = [p \in Producers |-> 0]
    /\ todo = {}
    /\ dispatched = {}

DropWork ==
    /\ latest' = [p \in Producers |-> 0]
    /\ seen' = [r \in Routes |-> 0]
    /\ job' = [p \in Producers |-> "done"]
    /\ batch' = [p \in Producers |-> {}]
    /\ cursor' = [p \in Producers |-> 0]
    /\ todo' = {}
    /\ dispatched' = {}

Init ==
    /\ next_id = 1
    /\ producer_of = [i \in Ids |-> NoProducer]
    /\ committed = {}
    /\ records = {}
    /\ boundary = [r \in Routes |-> 0]
    /\ effects = [r \in Routes |-> [i \in Ids |-> 0]]
    /\ tx = [w \in Writers |-> {}]
    /\ deployed = {}
    /\ phase = "down"
    /\ NoWork
    /\ applied = [r \in Routes |-> {}]
    /\ stops = 0

-----------------------------------------------------------------------------
(* Writers *)

\* OutboxTransactionalImpl::post_message_as_json inside the caller's transaction.
push_message(w, p) ==
    /\ phase # "down"
    /\ next_id <= MaxMessages
    /\ CommitsInOrder => \A v \in Writers \ {w} : tx[v] = {}
    /\ producer_of' = [producer_of EXCEPT ![next_id] = p]
    /\ tx' = [tx EXCEPT ![w] = @ \cup {next_id}]
    /\ next_id' = next_id + 1
    /\ UNCHANGED <<committed, records, boundary, effects, deployed, phase, relayVars, stops>>

commit_transaction(w) ==
    /\ tx[w] # {}
    /\ committed' = committed \cup tx[w]
    /\ tx' = [tx EXCEPT ![w] = {}]
    /\ UNCHANGED <<next_id, producer_of, records, boundary, effects, deployed, phase,
                   relayVars, stops>>

\* The ids of a rolled back transaction are never seen by anyone.
rollback_transaction(w) ==
    /\ tx[w] # {}
    /\ tx' = [tx EXCEPT ![w] = {}]
    /\ UNCHANGED <<dbVars, records, boundary, effects, deployed, phase, relayVars, stops>>

-----------------------------------------------------------------------------
(* The relay loop *)

\* A process starts, with the routes its catalog enumerates.
Start(routes) ==
    /\ phase = "down"
    /\ deployed' = routes
    /\ phase' = "starting"
    /\ UNCHANGED <<dbVars, records, boundary, effects, tx, relayVars, stops>>

init_consumption_records ==
    /\ phase = "starting"
    /\ records' = records \cup deployed
    /\ phase' = "idle"
    /\ UNCHANGED <<dbVars, boundary, effects, tx, deployed, relayVars, stops>>

IsLatest(p, i) ==
    \/ MessagesOf(p) = {} /\ i = 0
    \/ i \in MessagesOf(p) /\ \A j \in MessagesOf(p) : j <= i

select_latest_message_ids_by_producers ==
    /\ phase = "idle"
    /\ latest' \in [Producers -> {0} \cup committed]
    /\ \A p \in Producers : IsLatest(p, latest'[p])
    /\ phase' = "latest"
    /\ UNCHANGED <<dbVars, records, boundary, effects, tx, deployed, seen, job, batch,
                   cursor, todo, dispatched, applied, stops>>

\* Reads the boundaries and sets up a job for each producer that has messages
\* and consumers.
select_latest_consumption_boundaries_by_producers ==
    /\ phase = "latest"
    /\ seen' = boundary
    /\ job' = [p \in Producers |-> IF latest[p] # 0 /\ RoutesOf(p) # {} THEN "load" ELSE "done"]
    /\ phase' = "feeding"
    /\ UNCHANGED <<dbVars, records, boundary, effects, tx, deployed, latest, batch,
                   cursor, todo, dispatched, applied, stops>>

\* A mutant of determine_processed_boundary_id: the latest boundary instead.
HighestBoundary(p, b) ==
    /\ \E r \in RoutesOf(p) : seen[r] = b
    /\ \A r \in RoutesOf(p) : seen[r] <= b

\* The earliest boundary among the producer's consumers.
determine_processed_boundary_id(p, b) ==
    /\ \E r \in RoutesOf(p) : seen[r] = b
    /\ \A r \in RoutesOf(p) : b <= seen[r]

\* get_producer_messages: WHERE message_id > above ORDER BY message_id LIMIT batch_size
load_messages_above(p, above, loaded) ==
    LET unprocessed == {i \in MessagesOf(p) : i > above}
    IN  /\ loaded \subseteq unprocessed
        /\ \A i \in loaded, j \in unprocessed \ loaded : i < j
        /\ loaded # unprocessed => Cardinality(loaded) = BatchSize
        /\ Cardinality(loaded) <= BatchSize

\* Beginning of ProducerRelayJob::run_iteration, up to the loaded batch.
StartJob(p) ==
    /\ phase = "feeding"
    /\ job[p] = "load"
    /\ \E b \in {seen[r] : r \in RoutesOf(p)} :
        /\ determine_processed_boundary_id(p, b)
        /\ \/ /\ b < latest[p]
              /\ \E loaded \in SUBSET MessagesOf(p) :
                    /\ load_messages_above(p, b, loaded)
                    /\ batch' = [batch EXCEPT ![p] = loaded]
              /\ cursor' = [cursor EXCEPT ![p] = b]
              /\ job' = [job EXCEPT ![p] = "feed"]
           \/ /\ b >= latest[p]
              /\ job' = [job EXCEPT ![p] = "done"]
              /\ UNCHANGED <<batch, cursor>>
    /\ UNCHANGED <<dbVars, records, boundary, effects, tx, deployed, phase, latest, seen,
                   todo, dispatched, applied, stops>>

\* The consumers of p that are behind message m.
Behind(p, m) == {r \in RoutesOf(p) : seen[r] < m}

\* The next turn of the loop over the batch, once every consumer of the
\* previous message is done.
NextMessage(p) ==
    /\ job[p] = "feed"
    /\ InFlight(p) = {}
    /\ \E m \in batch[p] :
        /\ \A i \in batch[p] : m <= i
        /\ batch' = [batch EXCEPT ![p] = @ \ {m}]
        /\ cursor' = [cursor EXCEPT ![p] = m]
        /\ todo' = todo \cup Behind(p, m)
    /\ UNCHANGED <<dbVars, records, boundary, effects, tx, deployed, phase, latest, seen,
                   job, dispatched, applied, stops>>

FinishJob(p) ==
    /\ job[p] = "feed"
    /\ InFlight(p) = {}
    /\ batch[p] = {}
    /\ job' = [job EXCEPT ![p] = "done"]
    /\ UNCHANGED <<dbVars, records, boundary, effects, tx, deployed, phase, latest, seen,
                   batch, cursor, todo, dispatched, applied, stops>>

\* First half of invoke_consumer: the consumer handles the message, its
\* transaction still open.
Dispatch(r) ==
    /\ r \in todo
    /\ todo' = todo \ {r}
    /\ dispatched' = dispatched \cup {r}
    /\ applied' = [applied EXCEPT ![r] = @ \cup {cursor[r[1]]}]
    /\ UNCHANGED <<dbVars, records, boundary, effects, tx, deployed, phase, latest, seen,
                   job, batch, cursor, stops>>

\* A mutant of update_consumption_boundary: the consumption leaves no trace.
ConsumedWithoutRecord(r) ==
    /\ r \in records
    /\ UNCHANGED boundary

\* Second half: update_consumption_boundary and the commit.
update_consumption_boundary(r) ==
    /\ r \in records
    /\ boundary[r] < cursor[r[1]]
    /\ boundary' = [boundary EXCEPT ![r] = cursor[r[1]]]

CommitConsumption(r) ==
    /\ r \in dispatched
    /\ update_consumption_boundary(r)
    /\ effects' = [effects EXCEPT ![r][cursor[r[1]]] = @ + 1]
    /\ dispatched' = dispatched \ {r}
    /\ UNCHANGED <<dbVars, records, tx, deployed, phase, latest, seen, job, batch, cursor,
                   todo, applied, stops>>

FinishIteration ==
    /\ phase = "feeding"
    /\ \A p \in Producers : job[p] = "done"
    /\ phase' = "idle"
    /\ DropWork
    /\ UNCHANGED <<dbVars, records, boundary, effects, tx, deployed, applied, stops>>

\* A mutant of StopProcess: the failed iteration is retried by the same process.
RetryIteration ==
    /\ stops < MaxStops
    /\ stops' = stops + 1
    /\ phase' = "idle"
    /\ DropWork
    /\ UNCHANGED <<dbVars, records, boundary, effects, tx, deployed, applied>>

\* The process ends: its open transactions are rolled back and what it kept in
\* memory is gone.
StopProcess ==
    /\ stops < MaxStops
    /\ stops' = stops + 1
    /\ phase' = "down"
    /\ tx' = [w \in Writers |-> {}]
    /\ DropWork
    /\ applied' = [r \in Routes |-> {}]
    /\ UNCHANGED <<dbVars, records, boundary, effects, deployed>>

\* The consumer, or the commit of its transaction, returns an error.
ConsumerFails(r) == r \in dispatched /\ StopProcess

Crash == phase # "down" /\ StopProcess

Next ==
    \/ \E w \in Writers, p \in Producers : push_message(w, p)
    \/ \E w \in Writers : commit_transaction(w) \/ rollback_transaction(w)
    \/ \E routes \in SUBSET Routes : Start(routes)
    \/ init_consumption_records
    \/ select_latest_message_ids_by_producers
    \/ select_latest_consumption_boundaries_by_producers
    \/ \E p \in Producers : StartJob(p) \/ NextMessage(p) \/ FinishJob(p)
    \/ \E r \in Routes : Dispatch(r) \/ CommitConsumption(r) \/ ConsumerFails(r)
    \/ FinishIteration
    \/ Crash

Spec == Init /\ [][Next]_vars

\* The relay loop runs for as long as the server does, the server is restarted
\* when it stops, and the consumers and transactions it waits for return.  No
\* fairness for the writers, for failures or for the choice of routes.
Fairness ==
    /\ WF_vars(\E routes \in SUBSET Routes : Start(routes))
    /\ WF_vars(init_consumption_records)
    /\ WF_vars(select_latest_message_ids_by_producers)
    /\ WF_vars(select_latest_consumption_boundaries_by_producers)
    /\ WF_vars(FinishIteration)
    /\ \A p \in Producers : WF_vars(StartJob(p) \/ NextMessage(p) \/ FinishJob(p))
    /\ \A r \in Routes : WF_vars(Dispatch(r) \/ CommitConsumption(r))

FairSpec == Spec /\ Fairness

-----------------------------------------------------------------------------
(* Properties *)

TypeOK ==
    /\ next_id \in 1 .. MaxMessages + 1
    /\ producer_of \in [Ids -> Producers \cup {NoProducer}]
    /\ committed \subseteq Ids
    /\ records \subseteq Routes
    /\ boundary \in [Routes -> 0 .. MaxMessages]
    /\ effects \in [Routes -> [Ids -> Nat]]
    /\ tx \in [Writers -> SUBSET Ids]
    /\ deployed \subseteq Routes
    /\ phase \in {"down", "starting", "idle", "latest", "feeding"}
    /\ latest \in [Producers -> 0 .. MaxMessages]
    /\ seen \in [Routes -> 0 .. MaxMessages]
    /\ job \in [Producers -> {"load", "feed", "done"}]
    /\ batch \in [Producers -> SUBSET Ids]
    /\ cursor \in [Producers -> 0 .. MaxMessages]
    /\ todo \subseteq Routes
    /\ dispatched \subseteq Routes
    /\ applied \in [Routes -> SUBSET Ids]
    /\ stops \in 0 .. MaxStops

\* A route has consumed exactly the committed messages of its producer up to
\* its boundary, each exactly once, and none beyond: no crash, consumer error,
\* restart, batch limit or second consumer makes the relay skip a message or
\* commit its consumption twice.
ConsumedUpToBoundary ==
    \A r \in Routes, i \in Ids :
        effects[r][i] = IF i \in MessagesOf(r[1]) /\ i <= boundary[r] THEN 1 ELSE 0

\* No committed consumption is ever repeated, and only committed messages of
\* the route's own producer are consumed; unlike ConsumedUpToBoundary this does
\* not depend on the order in which transactions commit.
NeverConsumedTwice ==
    \A r \in Routes, i \in Ids :
        /\ effects[r][i] <= 1
        /\ effects[r][i] > 0 => i \in MessagesOf(r[1])

\* Within one process a consumer runs at most once for a message and in id
\* order.  The consumers that keep their state in memory rely on it: that state
\* is not rolled back with the transaction, so an error after a consumer ran
\* has to end the process rather than be retried.
InOrderWithinProcess ==
    \A r \in todo : \A i \in applied[r] : i < cursor[r[1]]

\* "Reliable transaction-based" message passing: a consumer's boundary never
\* passes a message that it did not consume.
NothingSkipped ==
    \A r \in Routes : \A i \in MessagesOf(r[1]) : i <= boundary[r] => effects[r][i] > 0

\* The relay keeps up: a committed message is eventually behind the boundary of
\* every route that is deployed, unless a later release drops the route, however
\* often the process stops.  Where transactions commit in order, this and
\* ConsumedUpToBoundary say that it is consumed.
EventuallyPassed ==
    \A r \in Routes, i \in Ids :
        (i \in MessagesOf(r[1]) /\ r \in deployed) ~> (i <= boundary[r] \/ r \notin deployed)

-----------------------------------------------------------------------------
(* The inductive invariants *)

\* One transaction writes at a time, so what it inserted is above everything
\* that is visible.
WriterInv ==
    /\ \A i \in committed : i < next_id
    /\ \A w \in Writers : \A i \in tx[w] :
          /\ i < next_id
          /\ \A c \in committed : c < i
    /\ \A v, w \in Writers : tx[v] # {} /\ tx[w] # {} => v = w

\* The messages being fed are committed messages of the job's producer, above
\* the cursor; a consumer still to be invoked or running belongs to a job that
\* feeds messages, and is at a committed message of its producer.
WorkInv ==
    /\ phase # "feeding" => todo = {} /\ dispatched = {} /\ \A p \in Producers : job[p] = "done"
    /\ \A p \in Producers : job[p] = "feed" =>
          \A i \in batch[p] : i \in MessagesOf(p) /\ cursor[p] < i
    /\ \A r \in todo \cup dispatched :
          r \in deployed /\ job[r[1]] = "feed" /\ cursor[r[1]] \in MessagesOf(r[1])
    /\ todo \cap dispatched = {}
    /\ \A i \in committed : i < next_id
    /\ \A w \in Writers : \A i \in tx[w] : i < next_id

\* No gap in what a job feeds: between its cursor and any message of its batch
\* lie only messages of the batch.
BatchInv ==
    \A p \in Producers : job[p] = "feed" =>
        \A b \in batch[p], i \in MessagesOf(p) : cursor[p] < i /\ i < b => i \in batch[p]

\* How far each consumer is, seen from the job that feeds it.
RouteInv ==
    \A r \in deployed :
        /\ job[r[1]] = "load" => seen[r] = boundary[r]
        /\ job[r[1]] = "feed" =>
              /\ seen[r] <= boundary[r]
              /\ boundary[r] = seen[r] \/ boundary[r] <= cursor[r[1]]
              /\ r \notin todo \cup dispatched => cursor[r[1]] <= boundary[r]
              /\ r \in todo \cup dispatched =>
                    /\ boundary[r] < cursor[r[1]]
                    /\ \A i \in MessagesOf(r[1]) : i < cursor[r[1]] => i <= boundary[r]

BoundaryInv == \A r \in Routes : boundary[r] \in {0} \cup committed

\* What of RouteInv does not depend on the order of commits: a consumer that is
\* invoked is behind the message it gets ...
OrderInv ==
    \A r \in deployed :
        /\ job[r[1]] = "load" => seen[r] = boundary[r]
        /\ job[r[1]] = "feed" =>
              /\ seen[r] <= boundary[r]
              /\ boundary[r] = seen[r] \/ boundary[r] <= cursor[r[1]]
              /\ r \in todo \cup dispatched => boundary[r] < cursor[r[1]]

\* ... and the messages that it was invoked with in this process are behind its
\* boundary, but for the one whose transaction is still open.
AppliedInv ==
    \A r \in Routes : \A i \in applied[r] :
        i <= boundary[r] \/ (r \in dispatched /\ i = cursor[r[1]])

OutboxInv ==
    /\ TypeOK
    /\ WriterInv
    /\ WorkInv
    /\ BatchInv
    /\ RouteInv
    /\ BoundaryInv
    /\ ConsumedUpToBoundary

=============================================================================
