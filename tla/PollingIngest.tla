--------------------------- MODULE PollingIngest -----------------------------
(***************************************************************************)
(* Polling ingest of one root dataset: workers fetch what the source has   *)
(* beyond the source state of the last commit, keep it in a savepoint,     *)
(* merge it with the ledger and commit it.                                 *)
(*                                                                         *)
(* The source publishes versions of its rows, one after the other.  Kinds  *)
(* of sources: "http" gives the rows of the current version with an ETag   *)
(* of its own, "hashed" with an ETag that equal versions share,            *)
(* "stateless" without one; "file" gives a path that is read later, with   *)
(* its modification time; and for "glob" each version is one more file.    *)
(* The source state is the number of a version, 0 if there is none.        *)
(***************************************************************************)
EXTENDS DataWriter

CONSTANTS
  Workers,
  Forcing,        \* the workers that pull with the option fetch_uncacheable
  Sources,        \* the <<kind, strategy>> that a polling source may have
  Histories,      \* the sequences of versions that it may publish
  MaxFaults       \* bound: failures and resets

ASSUME PollingIngestAssumption ==
  /\ MaxFaults \in Nat
  /\ \A h \in Histories : \A i \in DOMAIN h : \A r, s \in h[i] : r.key = s.key => r = s

VARIABLES
  polling,      \* <<kind, strategy>> of the SetPollingSource event
  history,      \* the versions of the source
  published,    \* the number of those it has published
  head,         \* the chain of the dataset
  savepoints,   \* by the source state they continue, or NoSavepoint
  op,           \* what each worker is doing
  faults        \* failures and resets so far

vars == <<polling, history, published, head, savepoints, op, faults>>

kind == polling[1]
strategy == polling[2]
versions == SubSeq(history, 1, published)

Idle == [step |-> "idle"]
NoSavepoint == [state |-> -1]

Init ==
  /\ polling \in Sources
  /\ history \in Histories
  /\ published = 0
  /\ head = <<Block("Seed", 0), Block("SetPollingSource", 0)>>
  /\ savepoints = [s \in 0..Len(history) |-> NoSavepoint]
  /\ op = [w \in Workers |-> Idle]
  /\ faults = 0

(* The source is not part of the system. *)
Publish ==
  /\ published < Len(history)
  /\ published' = published + 1
  /\ UNCHANGED <<polling, history, head, savepoints, op, faults>>

-----------------------------------------------------------------------------
prev_source_state(c) == LastEvent(c, "AddData").sourceState

Uncacheable(c) == LastOffset(LastEvent(c, "AddData")) # -1 /\ prev_source_state(c) = 0

(* ingest_loop scans the chain once. *)
IngestLoop(w) ==
  /\ op[w] = Idle
  /\ Has(head, "SetPollingSource")
  /\ op' = [op EXCEPT ![w] = [step |-> "fetch", base |-> head]]
  /\ UNCHANGED <<polling, history, published, head, savepoints, faults>>

(* The state a source gives for version n. *)
SourceState(n) ==
  CASE kind = "stateless" -> 0
    [] kind = "hashed"    -> CHOOSE i \in 1..n : /\ versions[i] = versions[n]
                                                /\ \A j \in 1..(i - 1) : versions[j] # versions[n]
    [] OTHER              -> n

(* FetchService: what the source has beyond state prev, or NoSavepoint. *)
FetchResult(prev) ==
  LET next == IF kind = "glob" THEN prev + 1 ELSE Len(versions)
  IN IF next > Len(versions) \/ (prev # 0 /\ SourceState(next) = prev)
     THEN NoSavepoint
     ELSE [state |-> SourceState(next),
           file  |-> next,
           more  |-> kind = "glob" /\ next < Len(versions)]

(* get_savepoint_path: a savepoint is named by the state it continues. *)
OneSavepoint(prev) == 0

SavepointPath(prev) == prev

(* A savepoint is used, unless the source cannot be cached and is to be    *)
(* fetched.                                                                *)
ResumeAlways(w, prev) == savepoints[SavepointPath(prev)] # NoSavepoint

Resume(w, prev) ==
  /\ savepoints[SavepointPath(prev)] # NoSavepoint
  /\ ~(prev = 0 /\ w \in Forcing)

(* ingest_iteration_inner up to the end of fetch.  A source without any    *)
(* version is an error.                                                    *)
Fetch(w) ==
  LET o     == op[w]
      prev  == prev_source_state(o.base)
      found == Resume(w, prev)
      sp    == IF found THEN savepoints[SavepointPath(prev)] ELSE FetchResult(prev)
      skip  == Uncacheable(o.base) /\ w \notin Forcing
  IN /\ o.step = "fetch"
     /\ op' = [op EXCEPT ![w] =
                 IF skip \/ (~found /\ versions = <<>>) \/ sp = NoSavepoint THEN Idle
                 ELSE [step |-> "stage", base |-> o.base, sp |-> sp]]
     /\ savepoints' = IF skip \/ found \/ versions = <<>> \/ sp = NoSavepoint THEN savepoints
                      ELSE [savepoints EXCEPT ![SavepointPath(prev)] = sp]
     /\ UNCHANGED <<polling, history, published, head, faults>>

(* The rows a savepoint leads to: a path is read only now. *)
FetchedRows(sp) == IF kind = "file" THEN versions[Len(versions)] ELSE versions[sp.file]

Ledger(c) == DataOf(c)

(* MetadataChain::append of the next event, up to the comparison. *)
Checked(o) ==
  IF ValidBlock(o.base, o.events[1]) /\ head = o.base THEN [o EXCEPT !.step = "append"]
                                                     ELSE Idle

(* prepare, read and stage, and the check of the first event. *)
Merged(ledger, sp) ==
  with_system_columns(strategy, merge(strategy, ledger, FetchedRows(sp)), sp.file)

Stage(w) ==
  LET o == op[w] IN
  /\ o.step = "stage"
  /\ \E ledger \in {Ledger(o.base)} : \E records \in {Merged(ledger, o.sp)} :
     \E events \in {stage(o.base, records, Max({r.time : r \in Range(records)} \cup {0}),
                         o.sp.state, 0)} :
       op' = [op EXCEPT ![w] =
                IF events = <<>> THEN Idle
                ELSE Checked([step |-> "commit", base |-> o.base,
                              more |-> o.sp.more, events |-> events])]
  /\ UNCHANGED <<polling, history, published, head, savepoints, faults>>

CheckAppend(w) ==
  /\ op[w].step = "commit"
  /\ op' = [op EXCEPT ![w] = Checked(@)]
  /\ UNCHANGED <<polling, history, published, head, savepoints, faults>>

(* Its rest.  The loop goes on while the source has more, with the writer  *)
(* in the state after its own commit.                                      *)
InsertBlock(w) ==
  LET o   == op[w]
      new == Append(o.base, o.events[1])
  IN /\ o.step = "append"
     /\ head' = new
     /\ op' = [op EXCEPT ![w] =
                 CASE Len(o.events) > 1 -> [o EXCEPT !.step = "commit", !.base = new,
                                                     !.events = Tail(@)]
                   [] Len(o.events) <= 1 /\ o.more -> [step |-> "fetch", base |-> new]
                   [] OTHER -> Idle]
     /\ UNCHANGED <<polling, history, published, savepoints, faults>>

Fault == faults < MaxFaults /\ faults' = faults + 1

(* Any step may fail, and the process may stop: savepoints and blocks      *)
(* remain.  Without one of them it is the same as not to begin.            *)
Fail(w) ==
  /\ op[w].step \in {"stage", "commit"}
  /\ op' = [op EXCEPT ![w] = Idle]
  /\ Fault
  /\ UNCHANGED <<polling, history, published, head, savepoints>>

(* ResetService, to a block after the SetPollingSource. *)
Reset(i) ==
  /\ head' = SubSeq(head, 1, i)
  /\ Fault
  /\ UNCHANGED <<polling, history, published, savepoints, op>>

Work(w) == Fetch(w) \/ Stage(w) \/ CheckAppend(w) \/ InsertBlock(w)

Next ==
  \/ Publish
  \/ \E i \in 2..(Len(head) - 1) : Reset(i)
  \/ \E w \in Workers :
       IngestLoop(w) \/ Work(w) \/ Fail(w)

Spec == Init /\ [][Next]_vars

(* An ingest that was started goes on, and the dataset is pulled again and *)
(* again with the option to fetch sources that cannot be cached.           *)
FairSpec ==
  /\ Spec
  /\ \A w \in Workers : WF_vars(Work(w))
  /\ \A w \in Forcing : WF_vars(IngestLoop(w))

-----------------------------------------------------------------------------
TypeOK ==
  /\ polling \in Sources
  /\ history \in Histories /\ published \in 0..Len(history)
  /\ Len(head) >= 2
  /\ \A s \in DOMAIN savepoints :
       savepoints[s] # NoSavepoint => savepoints[s].file \in 1..Len(versions)
  /\ \A w \in Workers : op[w].step = "commit" => op[w].events # <<>>
  /\ faults \in 0..MaxFaults

(* A set of rows holds those of version n, with the event times the source *)
(* gave.                                                                   *)
Reflects(rows, n) ==
  /\ Cardinality(rows) = Cardinality(versions[n])
  /\ \A v \in versions[n] : \E r \in rows :
       r.key = v.key /\ r.val = v.val /\ (v.time # 0 => r.time = v.time)

AddDataBlocks == {i \in DOMAIN head : head[i].type = "AddData"}

(* At each AddData of a dataset that is merged as snapshots, the state     *)
(* projected from all records so far is what the source had in the version *)
(* of the recorded source state: whatever failed, was resumed from a       *)
(* savepoint, raced or was reset in between.  A file is read after its     *)
(* modification time, and may be newer.                                    *)
SnapshotReflectsState ==
  strategy = "snapshot" =>
    \A i \in AddDataBlocks :
      \E n \in (IF kind = "file" THEN head[i].sourceState..Len(versions)
                ELSE IF kind = "stateless" THEN 1..Len(versions)
                ELSE {head[i].sourceState}) :
        Reflects(project(Ledger(SubSeq(head, 1, i))), n)

(* A snapshot ledger replays: a key is appended only when it is absent,    *)
(* retracted and corrected only from the row it has, and a correction is   *)
(* two records side by side, made for a change and not for a missing event *)
(* time.  With the ledger strategy a key is recorded once and never        *)
(* corrected.                                                              *)
LedgerReplays ==
  LET l == Ledger(head)
      Before(i) == project(SubSeq(l, 1, i - 1))
  IN strategy # "append" =>
       \A i \in DOMAIN l :
         /\ strategy = "ledger" => l[i].op = Append_
         /\ CASE l[i].op = Append_ -> \A r \in Before(i) : r.key # l[i].key
              [] l[i].op \in {Retract, CorrectFrom} -> Row(l[i]) \in Before(i)
              [] l[i].op = CorrectTo ->
                   /\ i > 1 /\ l[i - 1].op = CorrectFrom /\ l[i - 1].key = l[i].key
                   /\ \/ l[i - 1].val # l[i].val
                      \/ \E v \in UNION Range(versions) : v.time = l[i].time

(* Each file of a glob is ingested once and in order, with all its rows if *)
(* they are just appended.                                                 *)
FilesIngestedOnce ==
  kind = "glob" =>
    \A i \in AddDataBlocks :
      /\ head[i].sourceState = Cardinality({j \in AddDataBlocks : j <= i})
      /\ strategy = "append" => Reflects(Range(head[i].data), head[i].sourceState)

(* A version is ingested once: no more events are committed than there     *)
(* were versions to fetch.                                                 *)
OneIngestPerVersion == Cardinality(AddDataBlocks) <= published

(* Type invariant, and that nothing is ingested twice. *)
IngestInv == TypeOK /\ OneIngestPerVersion /\ FilesIngestedOnce

(* When the source stops changing, the dataset comes to hold its rows.     *)
HoldsSource ==
  LET n == Len(versions) IN
  n > 0 => \E l \in {Ledger(head)} :
    CASE strategy = "snapshot" -> \E rows \in {project(l)} : Reflects(rows, n)
      [] strategy = "ledger" -> \A v \in versions[n] : \E r \in Range(l) : r.key = v.key
      [] strategy = "append" -> LastEvent(head, "AddData").sourceState = n

IngestCatchesUp == <>[]HoldsSource

=============================================================================
