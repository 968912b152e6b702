----------------------------- MODULE Compaction ------------------------------
(***************************************************************************)
(* Hard compaction: the chain that replaces a given one, in which runs of  *)
(* small data slices are merged.  The walk goes from the head to the Seed  *)
(* and collects batches, newest first; the new blocks are then committed   *)
(* on top of the old Seed, oldest first.                                   *)
(***************************************************************************)
EXTENDS MetadataChain, SequencesExt

CONSTANT MaxSliceRecords   \* limit of the records (and bytes) of a merged slice

ASSUME MaxSliceRecordsAssumption == MaxSliceRecords \in Nat

(* DataSliceBatchInfo: the blocks of the batch, newest first, and the      *)
(* bounds the merged event gets.                                           *)
EmptyBatch == [slices |-> <<>>, watermark |-> 0, sourceState |-> 0,
               newCheckpoint |-> 0]

MergedNewestFirst(batches, info) ==
  CASE Len(info.slices) = 0 -> batches
    [] Len(info.slices) = 1 -> Append(batches, info.slices[1])
    [] OTHER -> Append(batches, [Last(info.slices) EXCEPT
                  !.data = DataOf(info.slices)])

(* A finished batch: one block is kept as it is, several become one event. *)
append_add_data_batch(batches, info) ==
  CASE Len(info.slices) = 0 -> batches
    [] Len(info.slices) = 1 -> Append(batches, info.slices[1])
    [] OTHER ->
         LET oldest == Last(info.slices)
         IN Append(batches,
              [oldest EXCEPT !.data = DataOf(Reverse(info.slices)),
                             !.watermark = info.watermark,
                             !.sourceState = info.sourceState,
                             !.newCheckpoint = info.newCheckpoint])

Or(a, b) == IF a # 0 THEN a ELSE b

(* Upper bounds are those of the newest events that have them, events      *)
(* without data included.                                                  *)
WithUpperBounds(info, b) ==
  [info EXCEPT !.watermark = Or(@, b.watermark),
               !.sourceState = Or(@, b.sourceState),
               !.newCheckpoint = Or(@, b.newCheckpoint)]

(* gather_chain_info, one block of the walk. *)
GatherData(g, b) ==
  LET full == g.records + Len(b.data) > MaxSliceRecords
      base == IF full /\ g.info.slices # <<>> THEN EmptyBatch ELSE g.info
  IN [batches |-> IF full THEN append_add_data_batch(g.batches, g.info) ELSE g.batches,
      info    |-> WithUpperBounds([base EXCEPT !.slices =
                                     IF full THEN <<b>> ELSE Append(@, b)], b),
      records |-> IF full THEN Len(b.data) ELSE g.records + Len(b.data)]

GatherOther(g, b) ==
  [g EXCEPT !.batches = Append(append_add_data_batch(g.batches, g.info), b),
            !.info = IF @.slices # <<>> THEN EmptyBatch ELSE @]

GatherBlock(g, b, keepMetadataOnly) ==
  CASE b.type = "AddData" ->
         IF keepMetadataOnly \/ b.data = <<>>
         THEN [g EXCEPT !.info = WithUpperBounds(@, b)]
         ELSE GatherData(g, b)
    [] b.type \in {"Seed", "ExecuteTransform"} -> g
    [] OTHER -> GatherOther(g, b)

(* The events of the new chain after the Seed, newest first. *)
gather_chain_info(c, keepMetadataOnly) ==
  LET walk[n \in 0..Len(c)] ==
        IF n = 0 THEN [batches |-> <<>>, info |-> EmptyBatch, records |-> 0]
        ELSE GatherBlock(walk[n - 1], Reverse(c)[n], keepMetadataOnly)
  IN walk[Len(c)].batches

NothingToDo(c, keepMetadataOnly) ==
  Len(gather_chain_info(c, keepMetadataOnly)) + 1 = Len(c)

(* commit_new_blocks: every event is committed again, at the time now. *)
Compacted(c, keepMetadataOnly, now) ==
  <<c[1]>> \o [i \in DOMAIN gather_chain_info(c, keepMetadataOnly) |->
                 [Reverse(gather_chain_info(c, keepMetadataOnly))[i] EXCEPT !.time = now]]

(* Each of these commits is validated: the first that is not ends the      *)
(* compaction with an error.                                               *)
CompactionAccepted(c, keepMetadataOnly, now) ==
  LET new == Compacted(c, keepMetadataOnly, now)
  IN \A i \in 2..Len(new) : ValidBlock(SubSeq(new, 1, i - 1), new[i])

=============================================================================
