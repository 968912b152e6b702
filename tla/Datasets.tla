------------------------------ MODULE Datasets -------------------------------
(***************************************************************************)
(* A root dataset and one derived from it, and the operations that write   *)
(* them: polling ingest, manual watermarks, events committed by a user,    *)
(* transforms, hard compaction, resets and the cached summary.             *)
(*                                                                         *)
(* Workers (requests and tasks of one or several processes) run the        *)
(* operations concurrently.  An operation reads the head, works on         *)
(* immutable blocks and files, and moves the head at its end; append       *)
(* compares the head with the expected one in a step before it sets it.    *)
(* Blocks and files that no head leads to are never removed: every chain   *)
(* a worker has read can still be read, whatever the head is.              *)
(***************************************************************************)
EXTENDS Compaction, DataWriter

CONSTANTS
  Workers,
  Root, Derived,      \* the two datasets
  Requests,           \* <<w, o, d>>: worker w may be asked for operation o on d
  MaxTime             \* bound: number of operations that read the clock

ASSUME DatasetsAssumption == Root # Derived /\ MaxTime \in Nat

VARIABLES
  head,       \* the "head" reference of each dataset
  summary,    \* its cached summary
  op,         \* what each worker is doing
  now         \* system time

vars == <<head, summary, op, now>>

Dataset == {Root, Derived}

Idle == [kind |-> "idle"]

NoSummary == [last |-> <<>>, numRecords |-> 0, lastPulled |-> 0]

InitialChain(d) ==
  <<Block("Seed", 0), Block(IF d = Root THEN "SetPollingSource" ELSE "SetTransform", 0)>>

Init ==
  /\ head = [d \in Dataset |-> InitialChain(d)]
  /\ summary = [d \in Dataset |-> NoSummary]
  /\ op = [w \in Workers |-> Idle]
  /\ now = 0

(* A new operation on the clock. *)
Asked(w, request, d) == <<w, request, d>> \in Requests /\ op[w] = Idle /\ now < MaxTime
Tick == now' = now + 1

-----------------------------------------------------------------------------
(* The summary.                                                            *)

(* UpdateSummaryIncrement over the blocks of c from a position on. *)
NumRecordsFrom(c, from) ==
  LET counted[i \in 0..Len(c)] ==
        IF i = 0 THEN 0
        ELSE counted[i - 1] + (IF i >= from /\ IsData(c[i]) THEN Len(c[i].data) ELSE 0)
  IN counted[Len(c)]

LastPulled(c, from, default) ==
  IF LastDataOf(c) >= from THEN c[LastDataOf(c)].time ELSE default

SummaryAlwaysIncremented(prev, c) ==
  [last       |-> c,
   numRecords |-> prev.numRecords + NumRecordsFrom(c, Len(prev.last) + 1),
   lastPulled |-> LastPulled(c, Len(prev.last) + 1, prev.lastPulled)]

(* update_summary: from the block it was last computed for, if the walk    *)
(* from the head meets it, and else from the Seed.                         *)
UpdatedSummary(prev, c) ==
  IF prev.last # <<>> /\ IsAncestor(prev.last, c)
  THEN [last       |-> c,
        numRecords |-> prev.numRecords + NumRecordsFrom(c, Len(prev.last) + 1),
        lastPulled |-> LastPulled(c, Len(prev.last) + 1, prev.lastPulled)]
  ELSE [last |-> c, numRecords |-> NumRecordsFrom(c, 1), lastPulled |-> LastPulled(c, 1, 0)]

(* get_summary reads the summary and the head and computes; then it writes. *)
GetSummary(w, d) ==
  /\ Asked(w, "summary", d)
  /\ op' = [op EXCEPT ![w] = [kind |-> "summary", ds |-> d,
                              new |-> UpdatedSummary(summary[d], head[d])]]
  /\ Tick
  /\ UNCHANGED <<head, summary>>

WriteSummary(w) ==
  /\ op[w].kind = "summary"
  /\ summary' = [summary EXCEPT ![op[w].ds] = op[w].new]
  /\ op' = [op EXCEPT ![w] = Idle]
  /\ UNCHANGED <<head, now>>

-----------------------------------------------------------------------------
(* Committing blocks.                                                      *)

(* An operation that commits events one after the other on top of base.    *)
(* It began with the chain begin, and is at one of the two steps of append. *)
Committing(step, d, begin, base, events) ==
  [kind |-> step, ds |-> d, begin |-> begin, base |-> base, events |-> events]

Commit(d, base, events) == Committing("commit", d, base, base, events)

(* commit_execute_transform takes a no-op for success. *)
ToleratedNoOp(c, b) ==
  /\ b.type = "ExecuteTransform"
  /\ ~EventIsNotEmpty(b) \/ (ConsistentBlock(c, b) /\ NoOpEvent(c, b))

(* MetadataChain::append, up to the comparison of the head.  A block that  *)
(* is not valid, or another head, ends the operation.                      *)
CheckAppend(w) ==
  LET o == op[w] IN
  /\ o.kind = "commit"
  /\ op' = [op EXCEPT ![w] = IF ValidBlock(o.base, o.events[1]) /\ head[o.ds] = o.base
                             THEN Committing("append", o.ds, o.begin, o.base, o.events)
                             ELSE Idle]
  /\ UNCHANGED <<head, summary, now>>

(* The rest of append: the block is inserted and the head set. *)
InsertBlock(w) ==
  LET o   == op[w]
      new == Append(o.base, o.events[1])
  IN /\ o.kind = "append"
     /\ head' = [head EXCEPT ![o.ds] = new]
     /\ op' = [op EXCEPT ![w] =
                 IF Len(o.events) = 1 THEN Idle
                 ELSE Committing("commit", o.ds, o.begin, new, Tail(o.events))]
     /\ UNCHANGED <<summary, now>>

(* The head is set without a comparison: compaction and reset. *)
Rewrite(d, target, then) ==
  [kind |-> "rewrite", ds |-> d, target |-> target, then |-> then]

SetRef(w) ==
  LET o == op[w] IN
  /\ o.kind = "rewrite"
  /\ head' = [head EXCEPT ![o.ds] = o.target]
  /\ op' = [op EXCEPT ![w] = o.then]
  /\ UNCHANGED <<summary, now>>

(* The process stops between two changes of one operation.  To stop before *)
(* the first is the same as not to begin.                                  *)
Crash(w) ==
  /\ \/ op[w].kind = "commit" /\ op[w].base # op[w].begin
     \/ op[w].kind = "transform"
  /\ now < MaxTime
  /\ op' = [op EXCEPT ![w] = Idle]
  /\ Tick
  /\ UNCHANGED <<head, summary>>

-----------------------------------------------------------------------------
(* Root dataset.                                                           *)

(* n new records, told apart by the time they were ingested. *)
NewRecords(n, time) == [i \in 1..n |-> <<time, i>>]

(* DataWriter::stage of n records after the merge, the latest of the       *)
(* present, with a new source state or none.                               *)
StagedEvents(c, n, newState, time) == stage(c, NewRecords(n, time), time, newState, time)

Ingest(w, n, newState) ==
  LET events == StagedEvents(head[Root], n, newState, now + 1) IN
  /\ Asked(w, "ingest", Root)
  /\ Has(head[Root], "SetPollingSource") \/ (Has(head[Root], "AddPushSource") /\ newState = 0)
  /\ events # <<>>
  /\ op' = [op EXCEPT ![w] = Commit(Root, head[Root], events)]
  /\ Tick
  /\ UNCHANGED <<head, summary>>

(* PullService::set_watermark: no source state is passed to the writer. *)
SetWatermark(w) ==
  /\ Asked(w, "watermark", Root)
  /\ summary' = [summary EXCEPT ![Root] = UpdatedSummary(@, head[Root])]
  /\ op' = [op EXCEPT ![w] = Commit(Root, head[Root],
              <<[NextAddData(head[Root], now + 1) EXCEPT !.watermark = now + 1]>>)]
  /\ Tick
  /\ UNCHANGED head

(* The data files the chain of a dataset refers to. *)
Objects(d) == {head[d][i].data : i \in DOMAIN head[d]}

(* Any event a user may send through CommitDatasetEventUseCase: metadata,  *)
(* or an AddData whose fields need not fit the chain and whose data exist. *)
UserEvents(time) ==
  {Block(t, time) : t \in {"Seed", "SetInfo", "AddPushSource", "SetPollingSource"}} \cup
  {[Block("AddData", time) EXCEPT !.prevOffset = a.prevOffset, !.start = a.start,
                                  !.data = a.data, !.watermark = a.watermark] :
     a \in [prevOffset : -1..0, start : 0..1, data : Objects(Root), watermark : {0, time}]}

CommitEvent(w) ==
  /\ Asked(w, "commit", Root)
  /\ \E e \in UserEvents(now + 1) :
       /\ ValidBlock(head[Root], e)
       /\ op' = [op EXCEPT ![w] = Commit(Root, head[Root], <<e>>)]
  /\ Tick
  /\ UNCHANGED <<head, summary>>

-----------------------------------------------------------------------------
(* Derived dataset.                                                        *)

InputWithOldOffset(prev, u) ==
  [prevBlock  |-> LastInputBlock(prev),
   newBlock   |-> IF u # LastInputBlock(prev) THEN u ELSE <<>>,
   prevOffset |-> LastInputOffset(prev),
   newOffset  |-> ChainLastOffset(u)]

(* get_transform_input: what the input chain u has beyond the last query. *)
NextInput(prev, u) ==
  LET lastBlock  == LastInputBlock(prev)
      lastOffset == LastInputOffset(prev)
      offset     == IF ChainLastOffset(u) # -1 THEN ChainLastOffset(u) ELSE lastOffset
  IN [prevBlock  |-> lastBlock,
      newBlock   |-> IF u # lastBlock THEN u ELSE <<>>,
      prevOffset |-> lastOffset,
      newOffset  |-> IF offset # lastOffset THEN offset ELSE -1]

IntervalNotChecked(i) == FALSE

InvalidInterval(i) == i.newBlock # <<>> /\ ~IsAncestor(i.prevBlock, i.newBlock)

(* The data blocks of the interval, oldest first. *)
Unprocessed(i) == DataBlocksAfter(i.newBlock, Len(i.prevBlock))

(* The response of the engine, for a query that maps each record to one:   *)
(* records, the latest watermark of the inputs and a checkpoint.           *)
Transformed(c, input, time) ==
  LET prev   == LastEvent(c, "ExecuteTransform")
      blocks == Unprocessed(input)
      data   == DataOf(blocks)
  IN [Block("ExecuteTransform", time) EXCEPT
        !.input = input,
        !.prevOffset = LastOffset(prev),
        !.start = IF data = <<>> THEN 0 ELSE LastOffset(prev) + 1,
        !.data = data,
        !.prevCheckpoint = prev.newCheckpoint,
        !.newCheckpoint = IF data = <<>> THEN prev.newCheckpoint ELSE time + 1,
        !.watermark = IF blocks = <<>> THEN prev.watermark
                      ELSE Or(Last(blocks).watermark, prev.watermark)]

HasNews(input) ==
  \E i \in DOMAIN Unprocessed(input) :
    Unprocessed(input)[i].data # <<>> \/ Unprocessed(input)[i].watermark # 0

TransformAgain == [kind |-> "transform"]

(* compact_dataset reads the kind of the dataset from its summary. *)
StartCompaction(w, d, keepMetadataOnly, then) ==
  /\ summary' = [summary EXCEPT ![d] = UpdatedSummary(@, head[d])]
  /\ op' = [op EXCEPT ![w] =
              IF /\ ~NothingToDo(head[d], keepMetadataOnly)
                 /\ CompactionAccepted(head[d], keepMetadataOnly, now + 1)
              THEN Rewrite(d, Compacted(head[d], keepMetadataOnly, now + 1), then)
              ELSE Idle]
  /\ Tick
  /\ UNCHANGED head

TransformAlways(c, u) ==
  IF ~Has(c, "SetTransform") THEN "NotDefined"
  ELSE IF ~Has(u, "SetDataSchema") THEN "InputSchemaNotDefined"
  ELSE IF InvalidInterval(NextInput(LastEvent(c, "ExecuteTransform").input, u))
  THEN "InvalidInterval"
  ELSE "Updated"

(* What get_next_operation finds for the chain c and the input chain u.    *)
NextTransform(c, u) ==
  LET input == NextInput(LastEvent(c, "ExecuteTransform").input, u)
  IN IF ~Has(c, "SetTransform") THEN "NotDefined"
     ELSE IF ~Has(u, "SetDataSchema") THEN "InputSchemaNotDefined"
     ELSE IF InvalidInterval(input) THEN "InvalidInterval"
     ELSE IF ~HasNews(input) /\ Has(c, "SetDataSchema") THEN "UpToDate"
     ELSE "Updated"

(* The events that a transform of u then commits on top of c. *)
TransformEvents(c, u, time) ==
  WithSchema(c, time,
    <<Transformed(c, NextInput(LastEvent(c, "ExecuteTransform").input, u), time)>>)

(* transform_impl up to the engine's response.  An input whose history was *)
(* rewritten makes the derived dataset start again, if that was asked for. *)
TransformImpl(w, resetOnDiverged) ==
  LET c    == head[Derived]
      next == NextTransform(c, head[Root])
  IN IF next = "InvalidInterval" /\ resetOnDiverged
     THEN StartCompaction(w, Derived, TRUE, TransformAgain)
     ELSE /\ op' = [op EXCEPT ![w] =
                      IF next = "Updated"
                      THEN Commit(Derived, c, TransformEvents(c, head[Root], now))
                      ELSE Idle]
          /\ UNCHANGED <<head, summary, now>>

Transform(w) ==
  /\ <<w, "transform", Derived>> \in Requests
  /\ op[w] = Idle
  /\ TransformImpl(w, TRUE)

(* After the compaction the transform runs once more, without the option. *)
ResumeTransform(w) ==
  /\ op[w].kind = "transform"
  /\ TransformImpl(w, FALSE)

-----------------------------------------------------------------------------
(* Operations that rewrite history.                                        *)

Compact(w, d, keepMetadataOnly) ==
  /\ Asked(w, "compact", d)
  /\ d = Derived => keepMetadataOnly
  /\ StartCompaction(w, d, keepMetadataOnly, Idle)

(* To an earlier block, by default the Seed. *)
Reset(w, d, i) ==
  /\ Asked(w, "reset", d)
  /\ op' = [op EXCEPT ![w] = Rewrite(d, SubSeq(head[d], 1, i), Idle)]
  /\ Tick
  /\ UNCHANGED <<head, summary>>

-----------------------------------------------------------------------------
Steps(w) ==
  \/ WriteSummary(w)
  \/ CheckAppend(w) \/ InsertBlock(w) \/ SetRef(w) \/ ResumeTransform(w)

Next ==
  \E w \in Workers :
    \/ Steps(w)
    \/ Crash(w)
    \/ \E n \in 0..1, s \in {0, now + 1} : Ingest(w, n, s)
    \/ SetWatermark(w)
    \/ CommitEvent(w)
    \/ Transform(w)
    \/ \E d \in Dataset : \/ GetSummary(w, d)
                         \/ \E k \in BOOLEAN : Compact(w, d, k)
                         \/ \E i \in 1..(Len(head[d]) - 1) : Reset(w, d, i)

Spec == Init /\ [][Next]_vars

-----------------------------------------------------------------------------
(* Records, and chains that a head may lead to. *)
Recorded == Nat \X Nat
Chain(c) == IsChain(c, Recorded) /\ c # <<>>

(* What the operations have in hand. *)
OpOK(o) ==
  \/ o \in {Idle, TransformAgain}
  \/ o.kind = "summary" /\ o.ds \in Dataset
  \/ /\ o.kind \in {"commit", "append"} /\ o.ds \in Dataset
     /\ Chain(o.begin) /\ Chain(o.base) /\ IsAncestor(o.begin, o.base)
     /\ Chain(o.events)
  \/ /\ o.kind = "rewrite" /\ o.ds \in Dataset
     /\ Chain(o.target) /\ o.then \in {Idle, TransformAgain}

(* A dataset always has a head, and a worker what its operation needs. *)
TypeOK ==
  /\ now \in Nat
  /\ DOMAIN head = Dataset /\ \A d \in Dataset : Chain(head[d])
  /\ DOMAIN summary = Dataset
  /\ DOMAIN op = Workers /\ \A w \in Workers : OpOK(op[w])

(* How a block b stands to an earlier block a of its chain. *)
Follows(b, a) ==
  /\ a.time <= b.time
  /\ IsData(a) /\ IsData(b) =>
       /\ a.watermark <= b.watermark
       /\ LastOffset(a) <= b.prevOffset
       /\ b.data # <<>> => b.start = b.prevOffset + 1

(* A chain as it should be. *)
Sequential(c) ==
  /\ \A i \in 1..Len(c) : c[i].type = "Seed" <=> i = 1
  /\ ~(Has(c, "AddPushSource") /\ Has(c, "SetPollingSource"))
  /\ \A i, j \in 1..Len(c) : i < j => Follows(c[j], c[i])

(* In every chain that becomes the head, from whatever events users and    *)
(* operations sent, data blocks at any distance follow each other:         *)
(* offsets grow without gaps, watermarks never go back, system time never  *)
(* goes back, and there is one Seed and one kind of source.                *)
ChainsAreSequential == \A d \in Dataset : Sequential(head[d])

(* The chains that workers are about to make the head are of this kind     *)
(* too: a block stays valid for the chain it was checked against, whatever *)
(* becomes of the head.                                                    *)
PendingChainsAreSequential ==
  \A w \in Workers :
    LET o == op[w] IN
    /\ o.kind \in {"commit", "append"} => Sequential(o.base)
    /\ o.kind = "append" => ValidBlock(o.base, o.events[1])
    /\ o.kind = "rewrite" => Sequential(o.target)

(* Only compaction and reset replace history: any other step that moves a  *)
(* head extends the chain it finds.                                        *)
AppendExtendsHead ==
  [][\A d \in Dataset :
       \/ IsAncestor(head[d], head'[d])
       \/ \E w \in Workers : op[w].kind = "rewrite" /\ head'[d] = op[w].target]_vars

(* A derived dataset holds each record of its input once and in order, up  *)
(* to the block its last query names, whatever happened to the input or to *)
(* the derived dataset since: resets, compactions, interrupted operations. *)
Processed(c) ==
  LET last == LastInputBlock(LastEvent(c, "ExecuteTransform").input)
  IN DataOf(DataBlocksAfter(last, 0))

DerivedMatchesItsInput ==
  DataOf(DataBlocksAfter(head[Derived], 0)) = Processed(head[Derived])

(* Compaction of the root dataset at any moment is accepted by append,     *)
(* keeps every record at its offset, and leaves nothing to compact.        *)
CompactionKeepsRecords ==
  LET c   == head[Root]
      new == Compacted(c, FALSE, now)
  IN ~NothingToDo(c, FALSE) =>
       /\ CompactionAccepted(c, FALSE, now)
       /\ Records(new) = Records(c)
       /\ NothingToDo(new, FALSE)

(* The cached summary is that of the block it names, although it is        *)
(* computed by increments, by several readers, and the head may have moved *)
(* forward, back or to another branch in between.                          *)
SummaryIsExact ==
  \A d \in Dataset : summary[d] # NoSummary =>
    LET c == summary[d].last IN
    /\ summary[d].numRecords = Cardinality(Records(c))
    /\ summary[d].lastPulled = (IF LastDataOf(c) = 0 THEN 0 ELSE c[LastDataOf(c)].time)

(* commit_execute_transform asserts that it changed something: a no-op is  *)
(* only taken for success after a schema was committed.                    *)
TransformCommitsSomething ==
  \A w \in Workers :
    op[w].kind = "commit" /\ ToleratedNoOp(op[w].base, op[w].events[1])
      => op[w].base # op[w].begin

DatasetsInv == TypeOK /\ PendingChainsAreSequential /\ TransformCommitsSomething

(* At any moment a transform that nothing disturbs makes progress: if it   *)
(* reports that the dataset is up to date, then the derived dataset holds  *)
(* every record of its input; if the input has diverged, the derived       *)
(* dataset can be compacted to its metadata and the input processed again; *)
(* and otherwise the blocks it makes are accepted.                         *)
TransformProgresses ==
  LET c    == head[Derived]
      u    == head[Root]
      evts == TransformEvents(c, u, now)
      base == c \o SubSeq(evts, 1, Len(evts) - 1)
  IN CASE NextTransform(c, u) = "UpToDate" ->
            DataOf(DataBlocksAfter(c, 0)) = DataOf(DataBlocksAfter(u, 0))
       [] NextTransform(c, u) = "InvalidInterval" ->
            /\ ~NothingToDo(c, TRUE)
            /\ CompactionAccepted(c, TRUE, now)
            /\ NextTransform(Compacted(c, TRUE, now), u) \in {"Updated", "UpToDate"}
       [] NextTransform(c, u) = "Updated" ->
            /\ base # c => ValidBlock(c, evts[1])
            /\ ValidBlock(base, Last(evts)) \/ ToleratedNoOp(base, Last(evts))
       [] OTHER -> TRUE

=============================================================================
