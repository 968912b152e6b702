----------------------------- MODULE DataWriter ------------------------------
(***************************************************************************)
(* The data writer of root datasets: how new rows are merged with what the *)
(* dataset has, and the events in which they are committed.                *)
(*                                                                         *)
(* A row is [key, val, time], where key stands for the primary key, val    *)
(* for the other columns and time for the event time; 0 is null.  A record *)
(* is a row with the operation op.                                         *)
(***************************************************************************)
EXTENDS MetadataChain, SequencesExt

(* OperationType: +A, -R, -C, +C. *)
Append_ == 0
Retract == 1
CorrectFrom == 2
CorrectTo == 3

Record(op, row) == [op |-> op, key |-> row.key, val |-> row.val, time |-> row.time]
Row(rec) == [key |-> rec.key, val |-> rec.val, time |-> rec.time]

(* MergeStrategySnapshot::project: of each key the last record, unless it  *)
(* is a retraction.                                                        *)
project(ledger) ==
  {Row(ledger[i]) : i \in {j \in DOMAIN ledger :
     /\ ledger[j].op \in {Append_, CorrectTo}
     /\ \A k \in (j + 1)..Len(ledger) : ledger[k].key # ledger[j].key}}

(* get_cdc_filter: a null event time is no change. *)
AnyChange(old, new) == old.val # new.val \/ old.time # new.time

Changed(old, new) == old.val # new.val \/ (new.time # 0 /\ old.time # new.time)

(* The side of a full join that has no row. *)
NullRow == [val |-> 0, time |-> 0]

Unmatched(rows, others) == {r \in rows : \A o \in others : o.key # r.key}

DiffByRightJoin(old, new) ==
  LET pairs == {p \in old \X new : p[1].key = p[2].key /\ Changed(p[1], p[2])}
  IN {Record(Append_, n) : n \in {n \in Unmatched(new, old) : Changed(NullRow, n)}}
       \cup {Record(CorrectFrom, p[1]) : p \in pairs}
       \cup {Record(CorrectTo, p[2]) : p \in pairs}

(* cdc_diff: the full join of old and new by key, filtered. *)
cdc_diff(old, new) ==
  LET pairs == {p \in old \X new : p[1].key = p[2].key /\ Changed(p[1], p[2])}
  IN {Record(Append_, n) : n \in {n \in Unmatched(new, old) : Changed(NullRow, n)}}
       \cup {Record(Retract, o) : o \in {o \in Unmatched(old, new) : Changed(o, NullRow)}}
       \cup {Record(CorrectFrom, p[1]) : p \in pairs}
       \cup {Record(CorrectTo, p[2]) : p \in pairs}

AllNew(ledger, new) == new

(* LeftAnti join of the new rows with the ledger by key. *)
NotSeen(ledger, new) == {n \in new : \A i \in DOMAIN ledger : ledger[i].key # n.key}

merge(strategy, ledger, new) ==
  CASE strategy = "append"   -> {Record(Append_, n) : n \in new}
    [] strategy = "ledger"   -> {Record(Append_, n) : n \in NotSeen(ledger, new)}
    [] strategy = "snapshot" -> cdc_diff(project(ledger), new)

(* sort_order: the order of rows that it leaves open is that of the keys.  *)
sort_order(strategy, a, b) ==
  IF strategy = "snapshot"
  THEN a.key < b.key \/ (a.key = b.key /\ a.op < b.op)
  ELSE a.time < b.time \/ (a.time = b.time /\ a.key < b.key)

(* with_system_columns: null event times get the time of the source, and   *)
(* the records are numbered in their order.                                *)
with_system_columns(strategy, records, fallback) ==
  SetToSortSeq({IF r.time = 0 THEN [r EXCEPT !.time = fallback] ELSE r : r \in records},
               LAMBDA a, b : sort_order(strategy, a, b))

-----------------------------------------------------------------------------
(* Events on top of the state that was scanned from the chain c.           *)

(* The schema is committed before the first data. *)
WithSchema(c, time, events) ==
  (IF Has(c, "SetDataSchema") THEN <<>> ELSE <<Block("SetDataSchema", time)>>) \o events

(* An AddData with no change but the source state, which is not carried. *)
NextAddData(c, time) ==
  [Block("AddData", time) EXCEPT !.prevOffset = LastOffset(LastEvent(c, "AddData")),
                                 !.prevCheckpoint = LastEvent(c, "AddData").newCheckpoint,
                                 !.watermark = LastEvent(c, "AddData").watermark]

(* stage: the events for records whose latest event time is given, none if *)
(* there is nothing to commit.                                             *)
stage(c, records, latest, newState, time) ==
  LET prev  == LastEvent(c, "AddData")
      event == [NextAddData(c, time) EXCEPT !.sourceState = newState]
      data  == [event EXCEPT !.start = LastOffset(prev) + 1,
                             !.data = records,
                             !.watermark = IF @ < latest THEN latest ELSE @]
  IN WithSchema(c, time,
       CASE records # <<>> -> <<data>>
         [] records = <<>> /\ newState # prev.sourceState -> <<event>>
         [] OTHER -> <<>>)

=============================================================================
