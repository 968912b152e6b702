---------------------------- MODULE MetadataChain ----------------------------
(***************************************************************************)
(* Metadata chains and what a block must satisfy to be appended to one.    *)
(*                                                                         *)
(* A block names its predecessor by hash, so a hash determines every block *)
(* from the Seed up to the hashed one.  A chain is the sequence of these   *)
(* blocks, and it stands for the hash of its last block; the sequence      *)
(* number of a block is its position.  The empty sequence is "no block".   *)
(*                                                                         *)
(* An absent offset is -1; an absent checkpoint, watermark or source state *)
(* is 0; absent data are the empty sequence.  A data slice is its records, *)
(* which stand for its hash too.                                           *)
(***************************************************************************)
EXTENDS Integers, Sequences

NoInput == [prevBlock |-> <<>>, newBlock |-> <<>>,
            prevOffset |-> -1, newOffset |-> -1]

(* A block with nothing but a type and a system time. *)
Block(type, time) ==
  [type |-> type, time |-> time, prevOffset |-> -1, start |-> 0,
   data |-> <<>>, prevCheckpoint |-> 0, newCheckpoint |-> 0,
   watermark |-> 0, sourceState |-> 0, input |-> NoInput]

BlockTypes == {"Seed", "SetInfo", "AddPushSource", "SetPollingSource", "SetTransform",
               "SetDataSchema", "AddData", "ExecuteTransform"}

(* Blocks with records of R and inputs of I, and chains of such blocks.    *)
(* An input has chains in it: there is no set of all inputs.               *)
Blocks(R, I) ==
  [type : BlockTypes, time : Nat, prevOffset : Int, start : Int, data : Seq(R),
   prevCheckpoint : Nat, newCheckpoint : Nat, watermark : Nat, sourceState : Nat, input : I]
IsBlock(b, R) == b \in Blocks(R, {b.input})
IsChain(c, R) == c \in Seq(Blocks(R, {c[i].input : i \in DOMAIN c}))

IsData(b) == b.type \in {"AddData", "ExecuteTransform"}

(* Position of the last block of c with a type in T, or 0: the search of   *)
(* the chain visitors, which walk from the head to the Seed.               *)
LastOf(c, T) ==
  IF \E i \in 1..Len(c) : c[i].type \in T
  THEN CHOOSE i \in 1..Len(c) :
         c[i].type \in T /\ \A j \in (i + 1)..Len(c) : c[j].type \notin T
  ELSE 0

LastDataOf(c) == LastOf(c, {"AddData", "ExecuteTransform"})

Has(c, type) == LastOf(c, {type}) # 0

(* The last event of a type, or one in which everything is absent. *)
LastEvent(c, type) ==
  IF Has(c, type) THEN c[LastOf(c, {type})] ELSE Block(type, 0)

(* Last offset of a data block, and of the chain. *)
LastOffset(b) ==
  IF b.data # <<>> THEN b.start + Len(b.data) - 1 ELSE b.prevOffset

ChainLastOffset(c) == IF LastDataOf(c) = 0 THEN -1 ELSE LastOffset(c[LastDataOf(c)])

(* Last block and offset of an input that a transform has processed. *)
LastInputBlock(i) == IF i.newBlock # <<>> THEN i.newBlock ELSE i.prevBlock
LastInputOffset(i) == IF i.newOffset # -1 THEN i.newOffset ELSE i.prevOffset

(* a is c or one of its ancestors. *)
IsAncestor(a, c) == Len(a) <= Len(c) /\ a = SubSeq(c, 1, Len(a))

(* The data blocks of c after the first n, oldest first, and the records   *)
(* that blocks have in all.                                                *)
DataBlocksAfter(c, n) ==
  LET kept[i \in 0..Len(c)] ==
        IF i = 0 THEN <<>>
        ELSE IF i > n /\ IsData(c[i]) THEN Append(kept[i - 1], c[i]) ELSE kept[i - 1]
  IN kept[Len(c)]

DataOf(blocks) ==
  LET data[i \in 0..Len(blocks)] ==
        IF i = 0 THEN <<>> ELSE data[i - 1] \o blocks[i].data
  IN data[Len(blocks)]

(* The records of a dataset with the offsets its blocks give them. *)
RecordsOf(b) == {<<b.start + i - 1, b.data[i]>> : i \in DOMAIN b.data}
Records(c) == UNION {RecordsOf(c[i]) : i \in {j \in DOMAIN c : IsData(c[j])}}

-----------------------------------------------------------------------------
(* The validators of MetadataChainImpl::append, for a block b appended to  *)
(* the chain c.                                                            *)

SeedBlockOrder(c, b) == b.type = "Seed" <=> c = <<>>

SystemTimeIsMonotonic(c, b) == c # <<>> => c[Len(c)].time <= b.time

WatermarkIsMonotonic(c, b) ==
  IsData(b) /\ LastDataOf(c) # 0 => c[LastDataOf(c)].watermark <= b.watermark

EventIsNotEmpty(b) ==
  CASE b.type = "AddData" ->
         \/ b.data # <<>> \/ b.newCheckpoint # 0
         \/ b.watermark # 0 \/ b.sourceState # 0
    [] b.type = "ExecuteTransform" ->
         b.data # <<>> \/ b.newCheckpoint # 0 \/ b.watermark # 0
    [] OTHER -> TRUE

OffsetsAreSequentialWithinBlock(c, b) ==
  IsData(b) /\ b.data # <<>> => b.start = b.prevOffset + 1

OffsetsAreSequential(c, b) ==
  IsData(b) => /\ b.data # <<>> => b.start = b.prevOffset + 1
               /\ LastDataOf(c) # 0 => b.prevOffset = LastOffset(c[LastDataOf(c)])

(* Push and polling sources exclude each other. *)
OneKindOfSource(c, b) ==
  /\ b.type = "AddPushSource" => ~Has(c, "SetPollingSource")
  /\ b.type = "SetPollingSource" => ~Has(c, "AddPushSource")

SchemaBeforeData(c, b) == IsData(b) /\ b.data # <<>> => Has(c, "SetDataSchema")

(* The checkpoint a data event starts from is the one the last event of    *)
(* its type ended with.                                                    *)
CheckpointsAreLinked(c, b) ==
  IsData(b) => b.prevCheckpoint = LastEvent(c, b.type).newCheckpoint

ValidExecuteTransform(c, b) ==
  b.type = "ExecuteTransform" =>
    /\ Has(c, "SetTransform") \/ Has(c, "ExecuteTransform")
    /\ Has(c, "ExecuteTransform") =>
         LET prev == LastEvent(c, "ExecuteTransform").input
             new  == b.input
         IN /\ new.newBlock # <<>> => new.newBlock # new.prevBlock
            /\ new.newOffset # -1 => new.newOffset # new.prevOffset
            /\ new.prevBlock = LastInputBlock(prev)
            /\ new.prevOffset = LastInputOffset(prev)
            /\ new.newOffset # -1 => new.newBlock # <<>>

(* The event neither has data nor changes any state of the dataset. *)
NoOpEvent(c, b) ==
  LET prev == LastEvent(c, b.type)
  IN /\ IsData(b)
     /\ b.data = <<>>
     /\ b.newCheckpoint = b.prevCheckpoint
     /\ b.watermark = prev.watermark
     /\ IF b.type = "AddData" THEN b.sourceState = prev.sourceState
                              ELSE b.input.newBlock = <<>>

(* What append checks before it calls an event a no-op, and in all. *)
ConsistentBlock(c, b) ==
  /\ SeedBlockOrder(c, b)
  /\ SystemTimeIsMonotonic(c, b)
  /\ WatermarkIsMonotonic(c, b)
  /\ OffsetsAreSequential(c, b)
  /\ OneKindOfSource(c, b)
  /\ SchemaBeforeData(c, b)
  /\ CheckpointsAreLinked(c, b)
  /\ ValidExecuteTransform(c, b)

ValidBlock(c, b) == ConsistentBlock(c, b) /\ EventIsNotEmpty(b) /\ ~NoOpEvent(c, b)

=============================================================================
