------------------------------ MODULE Workspace -------------------------------
(*****************************************************************************)
(* The datasets of a workspace on a local disk (DatasetRepositoryLocalFs,    *)
(* single- and multi-tenant), the use cases that create, rename and delete   *)
(* them and change their inputs, and the dependency graph, a best-effort     *)
(* consumer of the messages that the use cases post.                         *)
(*                                                                           *)
(* Dataset ids and names are numbers. A directory is named after the alias   *)
(* (single-tenant) or the id (multi-tenant, where a file in it has the       *)
(* alias). Of a chain the model keeps its length (0 without a head, 1 with   *)
(* the Seed only) and the inputs of its SetTransform. The transaction around *)
(* a use case is not modelled: when it is rolled back, neither the disk nor  *)
(* the graph is.                                                             *)
(*****************************************************************************)
EXTENDS DependencyGraph

CONSTANTS
  Tenancies,  \* which layouts: TRUE is multi-tenant
  Initial,    \* the workspaces to begin with, functions from dataset to inputs
  Workers,    \* who executes use cases
  Requests,   \* the use cases, records [op, alias, inputs, to]
  MaxOps,     \* bound on the use cases executed
  MaxFaults   \* bound on crashes and failures

ASSUME WorkspaceAssumption ==
  /\ Tenancies \subseteq BOOLEAN
  /\ MaxOps \in Nat /\ MaxFaults \in Nat
  /\ Requests \subseteq [op : {"create", "update", "delete", "rename"}, alias : Nat,
                         inputs : SUBSET Nat, to : Nat]
  /\ \A f \in Initial : /\ Max(DOMAIN f) \in Nat /\ DOMAIN f = 1..Max(DOMAIN f)
                       /\ \A d \in DOMAIN f : f[d] \subseteq DOMAIN f

VARIABLES
  multi,    \* the layout
  dirs,     \* the directories: path to [id, alias, len, inputs]
  graph,    \* the dependency graph service
  op,       \* what each worker does
  nextId,   \* the next dataset id
  ops,      \* use cases executed so far
  faults,   \* faults so far
  failed    \* history: datasets of use cases that failed, since the last start
vars == <<multi, dirs, graph, op, nextId, ops, faults, failed>>

None == 0
NoOp == [op |-> "none", phase |-> "none", id |-> None, alias |-> None,
         to |-> None, inputs |-> {}]
EmptyDir == [id |-> None, alias |-> None, len |-> 0, inputs |-> {}]

get_dataset_path(id, alias) == IF multi THEN id ELSE alias
Without(p) == [q \in DOMAIN dirs \ {p} |-> dirs[q]]
Put(p, dir) == [q \in DOMAIN dirs \cup {p} |-> IF q = p THEN dir ELSE dirs[q]]
HasHead(p) == p \in DOMAIN dirs /\ dirs[p].len > 0

\* The datasets that can be listed (get_all_datasets), and their inputs.
Listed == {p \in DOMAIN dirs : IF multi THEN dirs[p].alias # None ELSE HasHead(p)}
InputsById(paths) ==
  [d \in {dirs[p].id : p \in paths} |->
     (dirs[CHOOSE p \in paths : dirs[p].id = d]).inputs]

\* resolve_dataset_alias: the id, or None. The multi-tenant layout looks through
\* the directories in no particular order, and stops at one without an alias.
resolve_dataset_alias(alias) ==
  LET found == {p \in Listed : IF multi THEN dirs[p].alias = alias ELSE p = alias}
      stops == multi /\ \E p \in DOMAIN dirs : p \notin Listed
  IN  {dirs[p].id : p \in found} \cup (IF found = {} \/ stops THEN {None} ELSE {})

Init ==
  /\ multi \in Tenancies
  /\ \E inputs \in Initial :
       /\ dirs = [d \in DOMAIN inputs |->
                    [id |-> d, alias |-> d, len |-> 2, inputs |-> inputs[d]]]
       /\ nextId = Max(DOMAIN inputs) + 1
  /\ graph = EmptyGraph
  /\ op = [w \in Workers |-> NoOp]
  /\ ops = 0 /\ faults = 0 /\ failed = {}

Goto(w, phase) == op' = [op EXCEPT ![w].phase = phase]
Done(w) == op' = [op EXCEPT ![w] = NoOp]
Failed(w) == Done(w) /\ failed' = failed \cup {op[w].id}
Path(w) == get_dataset_path(op[w].id, op[w].alias)

\* Use cases that rename a dataset or change its inputs are assumed to have
\* the dataset for themselves.
Exclusive == {"rename", "update"}
Names(r) == {r.alias, r.to} \ {None}
MayBegin(r) ==
  \A w \in Workers :
    Names(op[w]) \cap Names(r) # {} => op[w].op \notin Exclusive /\ r.op \notin Exclusive

Begin(w, r, phase, id, inputs) ==
  /\ op[w] = NoOp /\ ops < MaxOps /\ MayBegin(r)
  /\ op' = [op EXCEPT ![w] = [op |-> r.op, phase |-> phase, id |-> id, alias |-> r.alias,
                              to |-> r.to, inputs |-> inputs]]
  /\ ops' = ops + 1

-----------------------------------------------------------------------------
(* CreateDatasetFromSnapshotUseCase.                                         *)

\* resolve_transform_inputs replaces the aliases of the inputs by ids; the
\* dataset gets an id.
BeginCreate(w, r) ==
  /\ r.op = "create"
  /\ \E ids \in [r.inputs -> 1..nextId] :
       /\ \A a \in r.inputs : ids[a] \in resolve_dataset_alias(a)
       /\ Begin(w, r, "alias", nextId, Range(ids))
  /\ nextId' = nextId + 1
  /\ UNCHANGED <<multi, dirs, graph, faults, failed>>

\* create_dataset: an alias that resolves to a dataset with a head is taken.
CheckAlias(w) ==
  /\ op[w].op = "create" /\ op[w].phase = "alias"
  /\ \E id \in resolve_dataset_alias(op[w].alias) :
       IF id # None /\ HasHead(get_dataset_path(id, op[w].alias))
       THEN Done(w)
       ELSE Goto(w, "layout")
  /\ UNCHANGED <<multi, dirs, graph, nextId, ops, faults, failed>>

\* The directory is made, or the one there is taken over.
CreateLayout(w) ==
  /\ op[w].phase = "layout"
  /\ dirs' = IF Path(w) \in DOMAIN dirs THEN dirs ELSE Put(Path(w), EmptyDir)
  /\ Goto(w, "seed")
  /\ UNCHANGED <<multi, graph, nextId, ops, faults, failed>>

\* The Seed is appended if there is no head yet, ...
CheckSeed(w) ==
  /\ op[w].phase = "seed"
  /\ IF HasHead(Path(w)) THEN Done(w) ELSE Goto(w, "set_seed")
  /\ UNCHANGED <<multi, dirs, graph, nextId, ops, faults, failed>>

\* ... and the head is set.
SetSeed(w) ==
  /\ op[w].phase = "set_seed"
  /\ IF Path(w) \in DOMAIN dirs
     THEN /\ dirs' = Put(Path(w), [EmptyDir EXCEPT !.id = op[w].id, !.len = 1])
          /\ Goto(w, IF multi THEN "save_alias" ELSE "check_ref")
     ELSE Done(w) /\ UNCHANGED dirs
  /\ UNCHANGED <<multi, graph, nextId, ops, faults, failed>>

\* handle_dataset_created of the multi-tenant layout.
SaveAlias(w) ==
  /\ op[w].phase = "save_alias"
  /\ dirs' = Put(Path(w), [dirs[Path(w)] EXCEPT !.alias = op[w].alias])
  /\ Goto(w, "check_ref")
  /\ UNCHANGED <<multi, graph, nextId, ops, faults, failed>>

\* The other events of the snapshot are appended. If one is not valid, the
\* dataset is deleted.
AppendFails(w) ==
  /\ op[w].phase = "check_ref" /\ faults < MaxFaults
  /\ dirs' = Without(Path(w))
  /\ Failed(w)
  /\ faults' = faults + 1
  /\ UNCHANGED <<multi, graph, nextId, ops>>

\* set_ref moves the head if it is still the Seed.
CheckRef(w) ==
  /\ op[w].phase = "check_ref"
  /\ IF HasHead(Path(w)) /\ dirs[Path(w)].id = op[w].id /\ dirs[Path(w)].len = 1
     THEN Goto(w, "set_ref") /\ UNCHANGED failed
     ELSE Failed(w)
  /\ UNCHANGED <<multi, dirs, graph, nextId, ops, faults>>

SetRef(w) ==
  /\ op[w].phase = "set_ref"
  /\ IF Path(w) \in DOMAIN dirs
     THEN /\ dirs' = Put(Path(w), [dirs[Path(w)] EXCEPT !.id = op[w].id, !.len = 2,
                                     !.inputs = op[w].inputs])
          /\ Goto(w, "created") /\ UNCHANGED failed
     ELSE Failed(w) /\ UNCHANGED dirs
  /\ UNCHANGED <<multi, graph, nextId, ops, faults>>

\* Posts Created ...
PostCreated(w) ==
  /\ op[w].phase = "created"
  /\ graph' = Created(graph, op[w].id)
  /\ IF op[w].inputs = {} THEN Done(w) ELSE Goto(w, "updated")
  /\ UNCHANGED <<multi, dirs, nextId, ops, faults, failed>>

\* ... and DependenciesUpdated, which also ends an update.
PostUpdated(w) ==
  /\ op[w].phase = "updated"
  /\ graph' = IF op[w].id \in graph.nodes
              THEN DependenciesUpdated(graph, op[w].id, op[w].inputs) ELSE graph
  /\ Done(w)
  /\ UNCHANGED <<multi, dirs, nextId, ops, faults, failed>>

-----------------------------------------------------------------------------
(* The other use cases.                                                      *)

\* CommitDatasetEventUseCase with a SetTransform.
BeginUpdate(w, r) ==
  /\ r.op = "update"
  /\ \E id \in resolve_dataset_alias(r.alias) \ {None} :
     \E ids \in [r.inputs -> 1..nextId] :
       /\ \A a \in r.inputs : ids[a] \in resolve_dataset_alias(a)
       /\ id \notin Range(ids)
       /\ Begin(w, r, "commit", id, Range(ids))
  /\ UNCHANGED <<multi, dirs, graph, nextId, faults, failed>>

CommitTransform(w) ==
  /\ op[w].phase = "commit"
  /\ dirs' = Put(Path(w), [dirs[Path(w)] EXCEPT !.len = 2, !.inputs = op[w].inputs])
  /\ Goto(w, "updated")
  /\ UNCHANGED <<multi, graph, nextId, ops, faults, failed>>

\* DeleteDatasetUseCase.
BeginDelete(w, r) ==
  /\ r.op = "delete"
  /\ \E id \in resolve_dataset_alias(r.alias) \ {None} : Begin(w, r, "check", id, {})
  /\ UNCHANGED <<multi, dirs, graph, nextId, faults, failed>>

\* A plausible bug: any dependency, not only a downstream one, is asked for.
UpstreamAsked(g, d) == Upstream(g, d) = {}
NoDownstream(g, d) == Downstream(g, d) = {}
ensure_no_dangling_references(w) ==
  /\ op[w].phase = "check"
  /\ LET g == ensure_datasets_initially_scanned(graph, InputsById(Listed))
     IN  /\ graph' = g
         /\ IF op[w].id \in g.nodes /\ NoDownstream(g, op[w].id)
            THEN Goto(w, "remove") ELSE Done(w)
  /\ UNCHANGED <<multi, dirs, nextId, ops, faults, failed>>

RemoveDir(w) ==
  /\ op[w].phase = "remove"
  /\ IF Path(w) \in DOMAIN dirs
     THEN dirs' = Without(Path(w)) /\ Goto(w, "deleted")
     ELSE Done(w) /\ UNCHANGED dirs
  /\ UNCHANGED <<multi, graph, nextId, ops, faults, failed>>

PostDeleted(w) ==
  /\ op[w].phase = "deleted"
  /\ graph' = IF op[w].id \in graph.nodes THEN Deleted(graph, op[w].id) ELSE graph
  /\ Done(w)
  /\ UNCHANGED <<multi, dirs, nextId, ops, faults, failed>>

\* RenameDatasetUseCase.
BeginRename(w, r) ==
  /\ r.op = "rename"
  /\ \E id \in resolve_dataset_alias(r.alias) \ {None} : Begin(w, r, "name", id, {})
  /\ UNCHANGED <<multi, dirs, graph, nextId, faults, failed>>

CheckName(w) ==
  /\ op[w].phase = "name"
  /\ \E id \in resolve_dataset_alias(op[w].to) :
       IF id # None THEN Done(w) ELSE Goto(w, "rename")
  /\ UNCHANGED <<multi, dirs, graph, nextId, ops, faults, failed>>

\* Single-tenant, the directory is moved, which fails when there is another
\* that is not empty; multi-tenant, the alias is written.
handle_dataset_renamed(w) ==
  /\ op[w].phase = "rename"
  /\ dirs' = IF multi THEN Put(Path(w), [dirs[Path(w)] EXCEPT !.alias = op[w].to])
             ELSE IF op[w].to \in DOMAIN dirs THEN dirs
             ELSE [p \in (DOMAIN dirs \ {op[w].alias}) \cup {op[w].to} |->
                     IF p = op[w].to THEN dirs[op[w].alias] ELSE dirs[p]]
  /\ Done(w)
  /\ UNCHANGED <<multi, graph, nextId, ops, faults, failed>>

-----------------------------------------------------------------------------
(* The environment.                                                          *)

\* A query of the graph scans the workspace if that has not been done. The scan
\* is one step: nothing is removed before a deletion has asked the graph.
Query ==
  /\ ~graph.scanned
  /\ graph' = ensure_datasets_initially_scanned(graph, InputsById(Listed))
  /\ UNCHANGED <<multi, dirs, op, nextId, ops, faults, failed>>

\* The transactional outbox, which comes first, fails: the message is lost and
\* the graph does not see it.
PostFails(w) ==
  /\ op[w].phase \in {"created", "updated", "deleted"} /\ faults < MaxFaults
  /\ Failed(w)
  /\ faults' = faults + 1
  /\ UNCHANGED <<multi, dirs, graph, nextId, ops>>

\* The process dies and is started again.
Crash ==
  /\ faults < MaxFaults
  /\ faults' = faults + 1
  /\ op' = [w \in Workers |-> NoOp]
  /\ graph' = EmptyGraph /\ failed' = {}
  /\ UNCHANGED <<multi, dirs, nextId, ops>>

Next ==
  \/ \E w \in Workers :
       \/ \E r \in Requests :
            BeginCreate(w, r) \/ BeginUpdate(w, r) \/ BeginDelete(w, r) \/ BeginRename(w, r)
       \/ CheckAlias(w) \/ CreateLayout(w) \/ CheckSeed(w) \/ SetSeed(w) \/ SaveAlias(w)
       \/ AppendFails(w) \/ CheckRef(w) \/ SetRef(w) \/ PostCreated(w) \/ PostUpdated(w)
       \/ CommitTransform(w) \/ ensure_no_dangling_references(w) \/ RemoveDir(w)
       \/ PostDeleted(w) \/ CheckName(w) \/ handle_dataset_renamed(w) \/ PostFails(w)
  \/ Query \/ Crash
Spec == Init /\ [][Next]_vars

-----------------------------------------------------------------------------
(* Properties.                                                               *)

Ids == 1..(nextId - 1)

\* Of the directories, the graph and the operations.
TypeOK ==
  /\ \A p \in DOMAIN dirs :
       /\ dirs[p].id \in Ids \cup {None} /\ dirs[p].inputs \subseteq Ids
       /\ dirs[p].len \in 0..2
  /\ graph.nodes \subseteq Ids
  /\ graph.edges \subseteq graph.nodes \X graph.nodes
  /\ \A w \in Workers : op[w].inputs \subseteq Ids

Settled(id) == \A w \in Workers : op[w].id # id
ListedIds == {dirs[p].id : p \in Listed}

\* Once scanned, the graph knows every dataset and all its inputs that exist,
\* whatever runs concurrently, but for the datasets an operation on which is
\* running or has failed since the last start. This is what keeps a deletion
\* from removing an input of a dataset, and a dataset from being impossible
\* to delete.
GraphCoversDatasets ==
  graph.scanned =>
    \A p \in Listed :
      LET d == dirs[p].id
      IN  Settled(d) /\ d \notin failed =>
            /\ d \in graph.nodes
            /\ \A i \in dirs[p].inputs \cap ListedIds : <<i, d>> \in graph.edges

WorkspaceInv == TypeOK /\ GraphCoversDatasets

\* A deletion that was allowed to go on does not remove an input of a dataset
\* that was there, and at rest, when the deletion asked for the dependents.
\* (Unless somebody else has removed it before.)
CheckedDeletionIsSafe ==
  [][\A w \in Workers :
       op[w].phase = "check" /\ op'[w].phase = "remove" /\ op[w].id \in ListedIds =>
         \A p \in Listed :
           Settled(dirs[p].id) /\ dirs[p].id \notin failed => op[w].id \notin dirs[p].inputs]_vars

-----------------------------------------------------------------------------
(* The inductive invariant of a multi-tenant workspace, where a directory is *)
(* named after the id, which no other dataset ever gets.                     *)

Dirs == [id : Ids \cup {None}, alias : Nat, len : 0..2, inputs : SUBSET Ids]
Early == {"alias", "layout", "seed", "set_seed", "save_alias"}
Late == {"check_ref", "set_ref", "created"}
Ops ==
  [op : {"create"}, phase : Early \cup Late \cup {"updated"}, id : Ids, alias : Nat,
   to : Nat, inputs : SUBSET Ids]
  \cup [op : {"update"}, phase : {"commit", "updated"}, id : Ids, alias : Nat \ {None},
        to : Nat, inputs : SUBSET Ids]
  \cup [op : {"delete"}, phase : {"check", "remove", "deleted"}, id : Ids, alias : Nat \ {None},
        to : Nat, inputs : SUBSET Ids]
  \cup [op : {"rename"}, phase : {"name", "rename"}, id : Ids, alias : Nat \ {None},
        to : Nat, inputs : SUBSET Ids]

GraphTyped ==
  /\ graph \in [nodes : SUBSET Ids, edges : SUBSET (Ids \X Ids), scanned : BOOLEAN]
  /\ graph.edges \subseteq graph.nodes \X graph.nodes

\* The types.
Typed ==
  /\ multi = TRUE /\ nextId \in Nat \ {0}
  /\ DOMAIN dirs \subseteq Ids /\ \A p \in DOMAIN dirs : dirs[p] \in Dirs
  /\ GraphTyped
  /\ op \in [Workers -> Ops \cup {NoOp}]

\* A directory that can be listed is that of its dataset.
DirsInv == \A p \in DOMAIN dirs : dirs[p].alias # None => dirs[p].id = p

\* Until it is listed, a dataset is known to the worker that creates it only.
\* Afterwards its directory has the name by which workers know it.  It never
\* comes back after it was removed.
OpInv(o) ==
  /\ o.phase \in {"alias", "layout"} => o.id \notin DOMAIN dirs
  /\ o.phase \in {"seed", "set_seed"} => o.id \in DOMAIN dirs /\ dirs[o.id] = EmptyDir
  /\ o.phase = "save_alias" =>
       o.id \in DOMAIN dirs /\ dirs[o.id] = [EmptyDir EXCEPT !.id = o.id, !.len = 1]
  /\ o.phase \notin Early /\ o.id \in DOMAIN dirs =>
       dirs[o.id].id = o.id /\ dirs[o.id].alias = o.alias
  /\ o.phase \in {"commit", "name", "rename"} => o.id \in DOMAIN dirs
  /\ o.phase = "deleted" => o.id \notin DOMAIN dirs
  /\ o.phase \in {"created", "updated"} /\ o.id \in DOMAIN dirs => dirs[o.id].inputs = o.inputs

\* Two workers at one dataset know it by one name, neither is at the start of its
\* creation, they do not both create it, and none changes its name or inputs.
OneAtATime ==
  \A v, w \in Workers : v # w /\ op[v] # NoOp /\ op[w] # NoOp =>
    /\ op[v].id = op[w].id =>
         /\ op[v].alias = op[w].alias
         /\ op[v].phase \notin Early
         /\ ~(op[v].op = "create" /\ op[w].op = "create")
    /\ op[v].op \in Exclusive => Names(op[v]) \cap Names(op[w]) = {}

\* A dataset that is being created is nobody's input before it can be listed.
NobodysInput ==
  \A w \in Workers : op[w].phase \in Early =>
    /\ \A p \in DOMAIN dirs : op[w].id \notin dirs[p].inputs
    /\ \A v \in Workers : op[w].id \notin op[v].inputs

Unposted(d) == \E w \in Workers : op[w].id = d /\ op[w].phase \in Late
Updating(d) == \E w \in Workers : op[w].id = d /\ op[w].phase = "updated"

\* The graph knows a dataset as soon as its creation was posted, and its inputs
\* unless a worker has still to post them.
Covered ==
  graph.scanned => \A d \in Listed \ failed : ~Unposted(d) =>
    /\ d \in graph.nodes
    /\ ~Updating(d) => \A i \in dirs[d].inputs \cap Listed : <<i, d>> \in graph.edges

TenantInv ==
  /\ Typed /\ DirsInv /\ (\A w \in Workers : OpInv(op[w]))
  /\ OneAtATime /\ NobodysInput /\ Covered

\* No two datasets have one name: create_dataset says that a dataset that
\* existed before makes it fail with a name collision.
NamesAreUnique ==
  \A p, q \in Listed : p # q => dirs[p].alias = None \/ dirs[p].alias # dirs[q].alias
=============================================================================
