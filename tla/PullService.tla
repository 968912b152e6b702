------------------------------ MODULE PullService -----------------------------
(*****************************************************************************)
(* PullService::pull_multi_ext: the plan of a pull of several datasets (what *)
(* to pull, in which order, from where) and its execution, batch by batch.   *)
(*                                                                           *)
(* Datasets are known by their names, which are numbers. The world outside   *)
(* (sources and remote repositories) is a version number; the version of a   *)
(* dataset is the newest one of which it reflects everything: a root or a    *)
(* synced dataset gets the current one, a derived dataset the oldest of its  *)
(* inputs.                                                                   *)
(*****************************************************************************)
EXTENDS Integers, FiniteSetsExt, SequencesExt

CONSTANTS
  Remotes,     \* the remote datasets
  NameOf,      \* the local name inferred from the reference to each of them
  Workspaces,  \* to begin with: [inputs, aliases], functions on the datasets
  Requests,    \* sequences of PullRequests [local, remote]
  Options,     \* PullMultiOptions [recursive, all, add_aliases, create]
  MaxVersion,  \* bound on the versions of the world
  MaxPulls     \* bound on the pulls

None == 0

ASSUME PullServiceAssumption ==
  /\ NameOf \in [Remotes -> Nat \ {None}]
  /\ MaxVersion \in Nat /\ MaxPulls \in Nat

VARIABLES
  inputs,   \* the datasets there are, and the inputs of each
  aliases,  \* the remotes each is to be pulled from
  version,  \* the version of each
  world,    \* the version of the world
  pull,     \* the pull in progress, or the last one
  pulls     \* the number of pulls so far
vars == <<inputs, aliases, version, world, pull, pulls>>

Dataset == DOMAIN inputs

NoPull == [phase |-> "none", options |-> CHOOSE o \in Options : TRUE, begun |-> 0,
           plan |-> <<>>, rest |-> <<>>, batch |-> <<>>, done |-> <<>>, created |-> {}]

Init ==
  /\ \E w \in Workspaces : inputs = w.inputs /\ aliases = w.aliases
  /\ version = [d \in Dataset |-> 0]
  /\ world = 0 /\ pull = NoPull /\ pulls = 0

\* The world is not part of the system.
Publish ==
  /\ world < MaxVersion /\ world' = world + 1
  /\ UNCHANGED <<inputs, aliases, version, pull, pulls>>

-----------------------------------------------------------------------------
(* The plan.                                                                 *)

\* try_inverse_lookup_dataset_by_pull_alias: the dataset that has the inferred
\* name, if it has the alias, else the first found that has it.
InverseLookups(r) ==
  LET found == {d \in Dataset : r \in aliases[d]}
  IN  IF NameOf[r] \in found THEN {NameOf[r]} ELSE IF found = {} THEN {None} ELSE found

\* The dataset a request is about, or None, and the name it has or will have.
\* lookup stands for the inverse lookups of the remotes.
LocalHandle(request, lookup) ==
  IF request.local = None THEN lookup[request.remote]
  ELSE IF request.local \in Dataset THEN request.local ELSE None

LocalAlias(request, lookup) ==
  CASE LocalHandle(request, lookup) # None -> LocalHandle(request, lookup)
    [] LocalHandle(request, lookup) = None /\ request.local # None -> request.local
    [] OTHER -> NameOf[request.remote]

\* Where it comes from: what the request says, or its pull aliases.
Sources(request, handle) ==
  IF request.remote # None THEN {request.remote} ELSE aliases[handle]

PullItem(local, depth, remote, explicit) ==
  [local |-> local, depth |-> depth, remote |-> remote, explicit |-> explicit]

\* What was visited so far, and the depth that a node has, -1 after an error.
Node(visited, depth) == [visited |-> visited, depth |-> depth, ok |-> TRUE]
Error(visited) == [visited |-> visited, depth |-> -1, ok |-> FALSE]

\* A plausible bug: a derived dataset gets the depth of its deepest input.
DepthOfInputs(depths) == IF depths = {} THEN 0 ELSE Max(depths)

\* One more than the deepest input.
DepthAbove(depths) == Max(depths \cup {-1}) + 1

RECURSIVE collect_pull_graph_depth_first(_, _, _, _, _)
collect_pull_graph_depth_first(request, explicit, o, lookup, visited) ==
  LET handle  == LocalHandle(request, lookup)
      alias   == LocalAlias(request, lookup)
      seen    == {i \in visited : i.local = alias}
      sources == Sources(request, handle)
      descend(acc, d) ==
        IF ~acc.ok THEN acc
        ELSE LET node == collect_pull_graph_depth_first(
                           [local |-> d, remote |-> None], FALSE, o, lookup, acc.visited)
             IN  [node EXCEPT !.depth = acc.depth \cup {@}]
      deps    == FoldLeft(descend, [visited |-> visited, depth |-> {}, ok |-> TRUE],
                          SetToSortSeq(inputs[handle], <))
      Found(i) == Node((visited \ seen) \cup
                         {[i EXCEPT !.explicit = @ \/ explicit]}, i.depth)
      Insert(base, depth, remote) ==
        Node(base \cup {PullItem(alias, depth, remote, explicit)}, depth)
  IN  IF handle = None /\ (request.remote = None \/ ~o.create) THEN Error(visited)
      ELSE IF seen # {} THEN Found(CHOOSE i \in seen : TRUE)
      ELSE IF Cardinality(sources) > 1 THEN Error(visited)     \* AmbiguousSource
      ELSE IF sources # {} THEN Insert(visited, 0, CHOOSE r \in sources : TRUE)
      ELSE IF ~deps.ok THEN Error(deps.visited)
      ELSE Insert(deps.visited, DepthAbove(deps.depth), None)

\* PullItem::cmp.
Before(i, j) ==
  \/ i.depth < j.depth
  \/ i.depth = j.depth /\ i.remote # None /\ j.remote = None
  \/ i.depth = j.depth /\ (i.remote = None <=> j.remote = None) /\ i.local < j.local

\* collect_pull_graph: the ordered items, none after an error.
collect_pull_graph(requests, o, lookup) ==
  LET collect(acc, r) ==
        LET node == collect_pull_graph_depth_first(r, TRUE, o, lookup, acc.visited)
        IN  [node EXCEPT !.ok = @ /\ acc.ok]
      all == FoldLeft(collect, Node({}, 0), requests)
  IN  IF all.ok THEN SetToSortSeq(all.visited, Before) ELSE <<>>

\* A plausible bug: a batch is what is of one kind, at any depth.
SliceByKind(items) ==
  LET first == Head(items)
  IN  Max({n \in 1..Len(items) : \A k \in 1..n :
             (items[k].remote = None) = (first.remote = None)})

\* slice: the length of the first batch.
slice(items) ==
  LET first == Head(items)
  IN  Max({n \in 1..Len(items) : \A k \in 1..n :
             /\ items[k].depth = first.depth
             /\ (items[k].remote = None) = (first.remote = None)})

-----------------------------------------------------------------------------
(* The execution.                                                            *)

WithBatch(p, items) ==
  [p EXCEPT !.phase = "run", !.batch = SubSeq(items, 1, slice(items)),
            !.rest = SubSeq(items, slice(items) + 1, Len(items))]

\* pull_multi_ext up to the first batch. With all, every dataset is asked for;
\* unless it is recursive, only what was asked for is retained.
AllRequests == [i \in 1..Cardinality(Dataset) |->
                  [local |-> SetToSortSeq(Dataset, <)[i], remote |-> None]]
Begin(requests, o) ==
  /\ pull.phase # "run" /\ pulls < MaxPulls
  /\ \E lookup \in [Remotes -> Dataset \cup {None}] :
       /\ \A r \in Remotes : lookup[r] \in InverseLookups(r)
       /\ LET plan == SelectSeq(collect_pull_graph(IF o.all THEN AllRequests ELSE requests,
                                                   o, lookup),
                                LAMBDA i : o.recursive \/ o.all \/ i.explicit)
          IN  /\ plan # <<>>
              /\ pull' = WithBatch([NoPull EXCEPT !.options = o, !.begun = world,
                                                  !.plan = plan], plan)
  /\ pulls' = pulls + 1
  /\ UNCHANGED <<inputs, aliases, version, world>>

\* Ingests and transforms of a batch run concurrently, syncs one by one.
MayRun(k) == pull.batch[k].remote # None => k = 1

Recorded(k, ok) ==
  [pull EXCEPT !.batch = RemoveAt(@, k),
               !.done = Append(@, [item |-> pull.batch[k], ok |-> ok])]

Set(f, d, x) == [e \in DOMAIN f \cup {d} |-> IF e = d THEN x ELSE f[e]]

\* An ingest, at depth 0.
Ingest(k) ==
  LET i == pull.batch[k] IN
  /\ i.depth = 0 /\ i.remote = None
  /\ version' = [version EXCEPT ![i.local] = world]
  /\ pull' = Recorded(k, TRUE)
  /\ UNCHANGED <<inputs, aliases, world, pulls>>

\* A sync, which may create the dataset.
Sync(k) ==
  LET i == pull.batch[k] IN
  /\ i.remote # None /\ MayRun(k)
  /\ version' = Set(version, i.local, world)
  /\ inputs' = IF i.local \in Dataset THEN inputs ELSE Set(inputs, i.local, {})
  /\ aliases' = IF i.local \in Dataset THEN aliases ELSE Set(aliases, i.local, {})
  /\ pull' = [Recorded(k, TRUE) EXCEPT !.created = IF i.local \in Dataset THEN @ ELSE @ \cup {i}]
  /\ UNCHANGED <<world, pulls>>

\* A transform.
Transform(k) ==
  LET i == pull.batch[k] IN
  /\ i.depth > 0
  /\ version' = [version EXCEPT ![i.local] = Min({version[d] : d \in inputs[i.local]})]
  /\ pull' = Recorded(k, TRUE)
  /\ UNCHANGED <<inputs, aliases, world, pulls>>

\* Any of them may fail, which leaves the others of the batch alone.
ItemFails(k) ==
  /\ MayRun(k)
  /\ pull' = Recorded(k, FALSE)
  /\ UNCHANGED <<inputs, aliases, version, world, pulls>>

\* A plausible bug: every synced dataset is associated with the remote.
AssociateSynced == {pull.done[n].item : n \in {m \in DOMAIN pull.done :
                      pull.done[m].ok /\ pull.done[m].item.remote # None}}

\* Newly-synced datasets are associated with their remotes.
Associate == pull.created

NewAliases ==
  {i \in Associate : pull.options.add_aliases /\ i.remote \notin aliases[i.local]}
AddAlias ==
  /\ pull.phase = "run" /\ pull.batch = <<>>
  /\ \E i \in NewAliases : aliases' = [aliases EXCEPT ![i.local] = @ \cup {i.remote}]
  /\ UNCHANGED <<inputs, version, world, pull, pulls>>

\* After an error in a batch the rest of the plan is dropped.
EndBatch ==
  /\ pull.phase = "run" /\ pull.batch = <<>> /\ NewAliases = {}
  /\ LET failed == \E n \in DOMAIN pull.done : ~pull.done[n].ok
     IN  pull' = IF failed THEN [pull EXCEPT !.phase = "failed"]
                 ELSE IF pull.rest = <<>> THEN [pull EXCEPT !.phase = "done"]
                 ELSE WithBatch(pull, pull.rest)
  /\ UNCHANGED <<inputs, aliases, version, world, pulls>>

\* The process ends.
Crash ==
  /\ pull.phase = "run"
  /\ pull' = NoPull
  /\ UNCHANGED <<inputs, aliases, version, world, pulls>>

Next ==
  \/ Publish
  \/ \E requests \in Requests, o \in Options : Begin(requests, o)
  \/ \E k \in DOMAIN pull.batch : Ingest(k) \/ Sync(k) \/ Transform(k) \/ ItemFails(k)
  \/ AddAlias \/ EndBatch \/ Crash
Spec == Init /\ [][Next]_vars

-----------------------------------------------------------------------------
(* Properties.                                                               *)

\* Every item of the plan is done, running or still to come.
TypeOK ==
  /\ DOMAIN aliases = Dataset /\ DOMAIN version = Dataset
  /\ \A d \in Dataset : inputs[d] \subseteq Dataset /\ version[d] \in 0..world
  /\ pull.phase \in {"none", "run", "done", "failed"}
  /\ Len(pull.done) + Len(pull.batch) + Len(pull.rest) = Len(pull.plan)

\* A derived dataset is transformed only after every input of it that is part
\* of the plan was pulled, and pulled successfully: batches are made of datasets
\* that do not depend on each other, and nothing is built on a failed input.
InputsPulledFirst ==
  LET planned == {pull.plan[n].local : n \in DOMAIN pull.plan}
  IN  \A n \in DOMAIN pull.done :
        pull.done[n].item.remote = None =>
          \A d \in inputs[pull.done[n].item.local] \cap planned :
            \E m \in 1..(n - 1) : pull.done[m].ok /\ pull.done[m].item.local = d

\* A recursive pull that succeeded leaves every dataset asked for, and all that
\* it is derived from, no older than the world was when the pull began.
RecursivePullIsFresh ==
  pull.phase = "done" /\ (pull.options.recursive \/ pull.options.all) =>
    \A n \in DOMAIN pull.plan : version[pull.plan[n].local] >= pull.begun

\* No sequence of pulls, from whatever remotes, gives a dataset two pull
\* aliases, after which it could not be pulled any more (AmbiguousSource).
NeverAmbiguous == \A d \in Dataset : Cardinality(aliases[d]) <= 1

\* The type invariant, and that every dataset can still be pulled.
PullInv == TypeOK /\ NeverAmbiguous
=============================================================================
