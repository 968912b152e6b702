---------------------------- MODULE WorkspaceProofs ---------------------------
(*****************************************************************************)
(* Proofs about Workspace, in the multi-tenant layout: what the dependency   *)
(* graph knows of the datasets, whatever runs concurrently, and that a       *)
(* deletion which asked the graph does not take away anybody's input.        *)
(*                                                                           *)
(* The argument is that of TenantInv: a directory is named after the id,     *)
(* which no other dataset ever gets, so that a dataset that is gone stays    *)
(* gone and a worker never meets the directory of another one's dataset.     *)
(*****************************************************************************)
EXTENDS Workspace, TLAPS

-----------------------------------------------------------------------------
(* The operations of the workers.                                            *)

\* The kind of an operation is told by its phase, but for the last message of
\* a creation, which is also that of an update.
LEMMA OpShape ==
  ASSUME NEW o \in Ops \cup {NoOp}
  PROVE  /\ o.phase \in Early \cup Late => o.op = "create"
         /\ o.phase = "updated" => o.op \in {"create", "update"}
         /\ o.phase = "commit" => o.op = "update"
         /\ o.phase \in {"check", "remove", "deleted"} => o.op = "delete"
         /\ o.phase \in {"name", "rename"} => o.op = "rename"
         /\ o.phase = "none" <=> o = NoOp
         /\ o.phase # "none" => o.id \in Ids /\ o \in Ops
         /\ o.op \in Exclusive \cup {"delete"} => o.alias # None
         /\ o.alias \in Nat /\ o.to \in Nat /\ o.inputs \subseteq Ids
<1>1. CASE o = NoOp
  BY <1>1 DEF NoOp, Early, Late, Exclusive, None, Ids
<1>2. CASE o \in Ops
  BY <1>2 DEF NoOp, Early, Late, Exclusive, None, Ops
<1> QED BY <1>1, <1>2

\* A worker may go on to any phase of its operation.
LEMMA NextPhase ==
  ASSUME NEW o \in Ops, NEW ph,
         \/ o.op = "create" /\ ph \in Early \cup Late \cup {"updated"}
         \/ o.op = "update" /\ ph \in {"commit", "updated"}
         \/ o.op = "delete" /\ ph \in {"check", "remove", "deleted"}
         \/ o.op = "rename" /\ ph \in {"name", "rename"}
  PROVE  [o EXCEPT !.phase = ph] \in Ops
BY DEF Ops

\* A worker goes on with its operation, or ends it.
Moved(w) ==
  /\ op' \in [Workers -> Ops \cup {NoOp}]
  /\ \A v \in Workers \ {w} : op'[v] = op[v]
  /\ \/ op'[w] = NoOp
     \/ /\ op[w] # NoOp /\ op'[w] = [op[w] EXCEPT !.phase = op'[w].phase]
        /\ op[w].phase \notin Early => op'[w].phase \notin Early

LEMMA DoneMoves ==
  ASSUME Typed, NEW w \in Workers, Done(w)
  PROVE  Moved(w) /\ op'[w] = NoOp
BY DEF Typed, Done, Moved

LEMMA GotoMoves ==
  ASSUME Typed, NEW w \in Workers, NEW ph, Goto(w, ph), op[w] # NoOp,
         [op[w] EXCEPT !.phase = ph] \in Ops,
         op[w].phase \notin Early => ph \notin Early
  PROVE  Moved(w) /\ op'[w] = [op[w] EXCEPT !.phase = ph] /\ op'[w].phase = ph
<1>1. op[w] \in Ops BY DEF Typed
<1>2. op' = [op EXCEPT ![w] = [op[w] EXCEPT !.phase = ph]]
  BY DEF Goto, Typed
<1>3. op'[w] = [op[w] EXCEPT !.phase = ph] /\ \A v \in Workers \ {w} : op'[v] = op[v]
  BY <1>2 DEF Typed
<1>4. [op[w] EXCEPT !.phase = ph].phase = ph
  BY <1>1 DEF Ops
<1>5. op' \in [Workers -> Ops \cup {NoOp}]
  BY <1>2 DEF Typed
<1> QED BY <1>3, <1>4, <1>5 DEF Moved

LEMMA MovedFields ==
  ASSUME Typed, NEW w \in Workers, Moved(w)
  PROVE  \A v \in Workers : op'[v] # NoOp =>
           /\ op[v] # NoOp /\ op'[v].id = op[v].id /\ op'[v].alias = op[v].alias
           /\ op'[v].op = op[v].op /\ op'[v].to = op[v].to /\ op'[v].inputs = op[v].inputs
           /\ op[v].phase \notin Early => op'[v].phase \notin Early
<1> SUFFICES ASSUME NEW v \in Workers, op'[v] # NoOp
             PROVE  /\ op[v] # NoOp /\ op'[v].id = op[v].id /\ op'[v].alias = op[v].alias
                    /\ op'[v].op = op[v].op /\ op'[v].to = op[v].to
                    /\ op'[v].inputs = op[v].inputs
                    /\ op[v].phase \notin Early => op'[v].phase \notin Early
  OBVIOUS
<1>1. CASE v # w BY <1>1 DEF Moved
<1>2. CASE v = w
  <2>1. op[w] \in Ops BY <1>2 DEF Moved, Typed
  <2>2. op'[w] = [op[w] EXCEPT !.phase = op'[w].phase] BY <1>2 DEF Moved
  <2>3. \A ph : LET o == [op[w] EXCEPT !.phase = ph]
                IN  /\ o.id = op[w].id /\ o.alias = op[w].alias /\ o.op = op[w].op
                    /\ o.to = op[w].to /\ o.inputs = op[w].inputs
    BY <2>1 DEF Ops
  <2>4. /\ op'[w].id = op[w].id /\ op'[w].alias = op[w].alias /\ op'[w].op = op[w].op
        /\ op'[w].to = op[w].to /\ op'[w].inputs = op[w].inputs
    BY <2>2, <2>3, Zenon
  <2> QED BY <1>2, <2>4 DEF Moved
<1> QED BY <1>1, <1>2

\* That does not disturb who may work on a dataset together.
LEMMA MovedOneAtATime ==
  ASSUME Typed, OneAtATime, NEW w \in Workers, Moved(w)
  PROVE  OneAtATime'
<1>1. \A v \in Workers : op'[v] # NoOp => Names(op'[v]) = Names(op[v])
  BY MovedFields DEF Names
<1> QED BY <1>1, MovedFields DEF OneAtATime

\* What is nobody's input stays so if no directory gets inputs other than those
\* of an operation.
LEMMA MovedNobodysInput ==
  ASSUME Typed, NobodysInput, NEW w \in Workers, Moved(w),
         \A p \in DOMAIN dirs' : \A i \in dirs'[p].inputs :
           \/ \E q \in DOMAIN dirs : i \in dirs[q].inputs
           \/ \E v \in Workers : i \in op[v].inputs
  PROVE  NobodysInput'
<1>1. NoOp.phase \notin Early /\ NoOp.inputs = {} BY DEF NoOp, Early
<1>2. \A v \in Workers : op'[v].phase \in Early => op[v].phase \in Early /\ op'[v].id = op[v].id
  BY <1>1, MovedFields
<1>3. \A v \in Workers : op'[v].inputs \subseteq op[v].inputs
  BY <1>1, MovedFields
<1> QED BY <1>2, <1>3 DEF NobodysInput

LEMMA NoOpInv ==
  ASSUME DOMAIN dirs' \subseteq Ids, NEW w \in Workers, op'[w] = NoOp
  PROVE  OpInv(op[w])'
BY DEF OpInv, NoOp, Early, Ids, None

\* What holds of a worker depends on the directory of its dataset only.
LEMMA OpInvFrame ==
  ASSUME NEW v \in Workers, OpInv(op[v]), op'[v] = op[v],
         op[v].id \in DOMAIN dirs' <=> op[v].id \in DOMAIN dirs,
         op[v].id \in DOMAIN dirs => dirs'[op[v].id] = dirs[op[v].id]
  PROVE  OpInv(op[v])'
BY DEF OpInv

LEMMA SameIds ==
  ASSUME nextId' = nextId
  PROVE  Ids' = Ids /\ Dirs' = Dirs /\ Ops' = Ops
<1>1. Ids' = Ids BY DEF Ids
<1> QED BY <1>1 DEF Dirs, Ops

LEMMA TypedStep ==
  ASSUME Typed, NEW w \in Workers, Moved(w), multi' = multi, nextId' = nextId,
         DOMAIN dirs' \subseteq Ids, \A p \in DOMAIN dirs' : dirs'[p] \in Dirs,
         GraphTyped'
  PROVE  Typed'
BY SameIds DEF Typed, Moved

LEMMA SameGraphTyped ==
  ASSUME Typed, graph' = graph, nextId' = nextId
  PROVE  GraphTyped'
BY SameIds DEF Typed, GraphTyped

\* What other datasets are waiting for does not change.
LEMMA OthersPosts ==
  ASSUME Typed, NEW w \in Workers, Moved(w), NEW d \in Nat, d # op[w].id
  PROVE  Unposted(d)' = Unposted(d) /\ Updating(d)' = Updating(d)
<1>1. \A v \in Workers : op'[v] = op[v] \/ op[v].id # d
  BY DEF Moved
<1>2. op'[w].id # d \/ op'[w].phase = "none"
  BY MovedFields DEF NoOp
<1>3. \A v \in Workers : op'[v] = op[v] \/ (op[v].id # d /\ (op'[v].id # d \/ op'[v].phase = "none"))
  BY <1>1, <1>2 DEF Moved
<1> QED BY <1>3 DEF Unposted, Updating, Late

LEMMA ListedFacts ==
  ASSUME Typed
  PROVE  Listed = {p \in DOMAIN dirs : dirs[p].alias # None} /\ Listed \subseteq Ids /\ Ids \subseteq Nat
BY DEF Typed, Listed, Ids

\* The graph stays the same: it covers what it covered.
LEMMA CoveredFrame ==
  ASSUME Typed, Typed', Covered, NEW w \in Workers, Moved(w), nextId' = nextId,
         graph' = graph, failed \subseteq failed',
         \A d \in Listed' : d # op[w].id => d \in Listed /\ dirs'[d].inputs = dirs[d].inputs,
         \A d \in Listed' : \A i \in dirs'[d].inputs \cap Listed' : i \in Listed,
         \A d \in Listed' \ failed' : d = op[w].id =>
               \/ Unposted(d)'
               \/ /\ d \in Listed /\ ~Unposted(d)
                  /\ Updating(d)' \/ (dirs'[d].inputs = dirs[d].inputs /\ ~Updating(d))
  PROVE  Covered'
<1> SUFFICES ASSUME graph'.scanned, NEW d \in Listed' \ failed', ~Unposted(d)'
             PROVE  /\ d \in graph'.nodes
                    /\ ~Updating(d)' => \A i \in dirs'[d].inputs \cap Listed' : <<i, d>> \in graph'.edges
  BY DEF Covered
<1>1. Listed' \subseteq Nat BY ListedFacts, SameIds DEF Typed, Listed, Ids
<1>2. d \notin failed /\ graph.scanned
  OBVIOUS
<1>3. CASE d # op[w].id
  <2>1. ~Unposted(d) /\ Updating(d)' = Updating(d) BY <1>1, <1>3, OthersPosts
  <2> QED BY <2>1, <1>2, <1>3 DEF Covered
<1>4. CASE d = op[w].id
  BY <1>2, <1>4 DEF Covered
<1> QED BY <1>3, <1>4

\* A step that only ends or advances an operation.
LEMMA OpStep ==
  ASSUME TenantInv, NEW w \in Workers, Moved(w), UNCHANGED <<multi, dirs, graph, nextId>>,
         failed \subseteq failed', OpInv(op[w])',
         op[w].phase \in Late \cup {"updated"} =>
           op[w].id \in failed' \/ (op[w].phase \in Late /\ op'[w].phase \in Late)
  PROVE  TenantInv'
<1> USE DEF TenantInv
<1>1. Typed' BY TypedStep, SameGraphTyped DEF Typed
<1>2. DirsInv' BY DEF DirsInv
<1>3. ASSUME NEW v \in Workers PROVE OpInv(op[v])'
  <2>1. CASE v = w BY <2>1
  <2>2. CASE v # w BY <2>2, OpInvFrame DEF Moved
  <2> QED BY <2>1, <2>2
<1>4. OneAtATime' BY MovedOneAtATime
<1>5. NobodysInput' BY MovedNobodysInput
<1>6. Covered'
  <2>1. Listed' = Listed BY DEF Listed, HasHead
  <2>2. ASSUME NEW d \in Listed \ failed', d = op[w].id, ~Unposted(d)'
        PROVE  ~Unposted(d) /\ (Updating(d) => Updating(d)')
    <3>1. \A v \in Workers \ {w} : op'[v] = op[v] BY DEF Moved
    <3>2. op[w].phase \in Late => op'[w].phase \in Late /\ op'[w].id = op[w].id
      <4>1. op[w].phase \in Late => op'[w].phase \in Late BY <2>2
      <4>2. op'[w].phase \in Late => op'[w] # NoOp BY DEF NoOp, Late
      <4> QED BY <4>1, <4>2, MovedFields
    <3>3. op[w].phase # "updated" BY <2>2 DEF Late
    <3> QED BY <2>2, <3>1, <3>2, <3>3 DEF Unposted, Updating
  <2>3. \A d \in Listed' \ failed' : d = op[w].id =>
               \/ Unposted(d)'
               \/ /\ d \in Listed /\ ~Unposted(d)
                  /\ Updating(d)' \/ (dirs'[d].inputs = dirs[d].inputs /\ ~Updating(d))
    BY <2>1, <2>2
  <2> QED BY <1>1, <2>1, <2>3, CoveredFrame
<1> QED BY <1>1, <1>2, <1>3, <1>4, <1>5, <1>6

-----------------------------------------------------------------------------
(* The steps that only end or advance an operation.                          *)

\* An operation that ends before it had something to post.
LEMMA DoneStep ==
  ASSUME TenantInv, NEW w \in Workers, Done(w), UNCHANGED <<multi, dirs, graph, nextId>>,
         failed \subseteq failed',
         op[w].phase \in Late \cup {"updated"} => op[w].id \in failed'
  PROVE  TenantInv'
<1>1. Moved(w) /\ op'[w] = NoOp BY DoneMoves DEF TenantInv
<1>2. DOMAIN dirs' \subseteq Ids BY DEF TenantInv, Typed
<1>3. OpInv(op[w])' BY <1>1, <1>2, NoOpInv
<1> QED BY <1>1, <1>3, OpStep

\* An operation that goes on.
LEMMA GotoStep ==
  ASSUME TenantInv, NEW w \in Workers, NEW ph, Goto(w, ph), op[w] # NoOp,
         UNCHANGED <<multi, dirs, graph, nextId, failed>>,
         \/ op[w].phase = "alias" /\ ph = "layout"
         \/ op[w].phase = "seed" /\ ph = "set_seed"
         \/ op[w].phase = "check_ref" /\ ph = "set_ref"
         \/ op[w].phase = "name" /\ ph = "rename"
  PROVE  TenantInv'
<1>1. op[w] \in Ops BY DEF TenantInv, Typed
<1>2. [op[w] EXCEPT !.phase = ph] \in Ops
  BY <1>1, NextPhase, OpShape DEF Early, Late
<1>3. Moved(w) /\ op'[w].phase = ph
  BY <1>1, <1>2, GotoMoves DEF TenantInv, Early
<1>4. op'[w].id = op[w].id /\ op'[w].alias = op[w].alias
  <2>1. op'[w] # NoOp BY <1>3 DEF NoOp
  <2> QED BY <1>3, <2>1, MovedFields DEF TenantInv
<1>5. OpInv(op[w])'
  BY <1>3, <1>4 DEF TenantInv, OpInv, Early
<1> QED BY <1>3, <1>5, OpStep DEF Late

LEMMA CheckAliasStep ==
  ASSUME TenantInv, NEW w \in Workers, CheckAlias(w)
  PROVE  TenantInv'
<1>1. op[w] # NoOp /\ op[w].phase \notin Late \cup {"updated"}
  BY DEF CheckAlias, NoOp, Late
<1>2. CASE Done(w) BY <1>1, <1>2, DoneStep DEF CheckAlias
<1>3. CASE Goto(w, "layout") BY <1>1, <1>3, GotoStep DEF CheckAlias
<1> QED BY <1>2, <1>3 DEF CheckAlias

LEMMA CheckSeedStep ==
  ASSUME TenantInv, NEW w \in Workers, CheckSeed(w)
  PROVE  TenantInv'
<1>1. op[w] # NoOp /\ op[w].phase \notin Late \cup {"updated"}
  BY DEF CheckSeed, NoOp, Late
<1>2. CASE Done(w) BY <1>1, <1>2, DoneStep DEF CheckSeed
<1>3. CASE Goto(w, "set_seed") BY <1>1, <1>3, GotoStep DEF CheckSeed
<1> QED BY <1>2, <1>3 DEF CheckSeed

LEMMA CheckRefStep ==
  ASSUME TenantInv, NEW w \in Workers, CheckRef(w)
  PROVE  TenantInv'
<1>1. op[w] # NoOp BY DEF CheckRef, NoOp
<1>2. CASE Failed(w) BY <1>1, <1>2, DoneStep DEF CheckRef, Failed
<1>3. CASE Goto(w, "set_ref") /\ UNCHANGED failed BY <1>1, <1>3, GotoStep DEF CheckRef
<1> QED BY <1>2, <1>3 DEF CheckRef

LEMMA CheckNameStep ==
  ASSUME TenantInv, NEW w \in Workers, CheckName(w)
  PROVE  TenantInv'
<1>1. op[w] # NoOp /\ op[w].phase \notin Late \cup {"updated"}
  BY DEF CheckName, NoOp, Late
<1>2. CASE Done(w) BY <1>1, <1>2, DoneStep DEF CheckName
<1>3. CASE Goto(w, "rename") BY <1>1, <1>3, GotoStep DEF CheckName
<1> QED BY <1>2, <1>3 DEF CheckName

LEMMA PostFailsStep ==
  ASSUME TenantInv, NEW w \in Workers, PostFails(w)
  PROVE  TenantInv'
BY DoneStep DEF PostFails, Failed

-----------------------------------------------------------------------------
(* The steps that change the directory of a dataset.                         *)

\* Nobody else works on a dataset at the start of its creation, or while its
\* name or its inputs are changed.
LEMMA Alone ==
  ASSUME Typed, OneAtATime, NEW w \in Workers, NEW v \in Workers, v # w, op[w] # NoOp,
         op[w].phase \in Early \/ op[w].op \in Exclusive
  PROVE  op[v].id # op[w].id
<1>1. op[w] \in Ops /\ op[w].id \in Ids BY OpShape DEF Typed
<1>2. CASE op[v] = NoOp
  BY <1>1, <1>2 DEF NoOp, None, Ids
<1>3. CASE op[v] # NoOp /\ op[w].phase \in Early
  BY <1>3 DEF OneAtATime
<1>4. CASE op[v] # NoOp /\ op[w].op \in Exclusive
  <2>1. op[w].alias # None BY <1>1, <1>4, OpShape
  <2>2. op[v].id = op[w].id => op[w].alias \in Names(op[v]) \cap Names(op[w])
    BY <1>4, <2>1 DEF OneAtATime, Names
  <2> QED BY <1>4, <2>2 DEF OneAtATime
<1> QED BY <1>2, <1>3, <1>4

LEMMA DirStep ==
  ASSUME TenantInv, NEW w \in Workers, Moved(w), NEW d, d = op[w].id,
         UNCHANGED <<multi, graph, nextId>>, failed \subseteq failed',
         DOMAIN dirs' \subseteq Ids, DOMAIN dirs' \ {d} \subseteq DOMAIN dirs,
         DOMAIN dirs \ {d} \subseteq DOMAIN dirs',
         \A p \in DOMAIN dirs \ {d} : dirs'[p] = dirs[p],
         d \in DOMAIN dirs' => /\ dirs'[d] \in Dirs
                               /\ dirs'[d].alias # None => dirs'[d].id = d
                               /\ \/ dirs'[d].inputs \subseteq op[w].inputs
                                  \/ d \in DOMAIN dirs /\ dirs'[d].inputs = dirs[d].inputs,
         OpInv(op[w])', \A v \in Workers \ {w} : op[v].id = d => OpInv(op[v])',
         d \in Listed' => d \in Listed \/ op[w].phase \in Early,
         d \in Listed' \ failed' =>
           \/ Unposted(d)'
           \/ /\ d \in Listed /\ ~Unposted(d)
              /\ Updating(d)' \/ (dirs'[d].inputs = dirs[d].inputs /\ ~Updating(d))
  PROVE  TenantInv'
<1> USE DEF TenantInv
<1>1. Typed'
  <2>1. \A p \in DOMAIN dirs' : dirs'[p] \in Dirs BY DEF Typed
  <2> QED BY <2>1, TypedStep, SameGraphTyped
<1>2. DirsInv' BY DEF DirsInv
<1>3. ASSUME NEW v \in Workers PROVE OpInv(op[v])'
  <2>1. CASE v = w BY <2>1
  <2>2. CASE v # w /\ op[v].id = d BY <2>2
  <2>3. CASE v # w /\ op[v].id # d BY <2>3, OpInvFrame DEF Moved
  <2> QED BY <2>1, <2>2, <2>3
<1>4. OneAtATime' BY MovedOneAtATime
<1>5. ASSUME NEW p \in DOMAIN dirs', NEW i \in dirs'[p].inputs
      PROVE  \/ \E q \in DOMAIN dirs : i \in dirs[q].inputs
             \/ \E v \in Workers : i \in op[v].inputs
  <2>1. CASE p # d BY <2>1
  <2>2. CASE p = d BY <2>2
  <2> QED BY <2>1, <2>2
<1>6. NobodysInput' BY <1>5, MovedNobodysInput
<1>7. \A q \in Listed' : q # d => q \in Listed /\ dirs'[q].inputs = dirs[q].inputs
  <2>1. multi = TRUE /\ multi' = TRUE BY DEF Typed
  <2> QED BY <2>1 DEF Listed
<1>8. ASSUME NEW q \in Listed', NEW i \in dirs'[q].inputs, i \in Listed'
      PROVE  i \in Listed
  <2>1. CASE i # d BY <2>1, <1>7, <1>8
  <2>2. CASE i = d /\ op[w].phase \in Early
    <3>1. q \in DOMAIN dirs' BY DEF Listed
    <3> QED BY <2>2, <3>1, <1>5 DEF NobodysInput
  <2>3. CASE i = d /\ op[w].phase \notin Early BY <2>3, <1>8
  <2> QED BY <2>1, <2>2, <2>3
<1>9. Covered' BY <1>1, <1>7, <1>8, CoveredFrame
<1> QED BY <1>1, <1>2, <1>3, <1>4, <1>6, <1>9

\* The directory of a dataset is named after its id.
LEMMA PathIsId ==
  ASSUME Typed, NEW w \in Workers, op[w] # NoOp
  PROVE  Path(w) = op[w].id /\ op[w].id \in Ids /\ op[w] \in Ops
BY OpShape DEF Typed, Path, get_dataset_path

\* The ways in which a directory is changed.
LEMMA DirAlias ==
  ASSUME NEW x \in Dirs, NEW a \in Nat
  PROVE  LET dir == [x EXCEPT !.alias = a]
         IN  dir \in Dirs /\ dir.alias = a /\ dir.id = x.id /\ dir.inputs = x.inputs
BY DEF Dirs

LEMMA DirInputs ==
  ASSUME NEW x \in Dirs, NEW I \in SUBSET Ids
  PROVE  LET dir == [x EXCEPT !.len = 2, !.inputs = I]
         IN  dir \in Dirs /\ dir.alias = x.alias /\ dir.id = x.id /\ dir.inputs = I
<1>1. \A y \in Dirs : [y EXCEPT !.len = 2] \in Dirs BY DEF Dirs
<1>2. \A y \in Dirs : [y EXCEPT !.inputs = I] \in Dirs BY DEF Dirs
<1>3. [x EXCEPT !.len = 2, !.inputs = I] = [[x EXCEPT !.len = 2] EXCEPT !.inputs = I] BY DEF Dirs
<1>4. LET dir == [x EXCEPT !.len = 2, !.inputs = I]
      IN  dir.alias = x.alias /\ dir.id = x.id /\ dir.inputs = I
  BY DEF Dirs
<1> QED BY <1>1, <1>2, <1>3, <1>4

LEMMA DirRef ==
  ASSUME NEW x \in Dirs, NEW I \in SUBSET Ids, NEW d \in Ids
  PROVE  LET dir == [x EXCEPT !.id = d, !.len = 2, !.inputs = I]
         IN  dir \in Dirs /\ dir.alias = x.alias /\ dir.id = d /\ dir.inputs = I
<1>1. [x EXCEPT !.id = d] \in Dirs BY DEF Dirs
<1>2. [x EXCEPT !.id = d, !.len = 2, !.inputs = I] = [[x EXCEPT !.id = d] EXCEPT !.len = 2, !.inputs = I]
  BY DEF Dirs
<1>3. LET dir == [x EXCEPT !.id = d, !.len = 2, !.inputs = I]
      IN  dir.alias = x.alias /\ dir.id = d /\ dir.inputs = I
  BY DEF Dirs
<1> QED BY <1>1, <1>2, <1>3, DirInputs

LEMMA NewDir ==
  ASSUME NEW d \in Ids
  PROVE  LET dir == [EmptyDir EXCEPT !.id = d, !.len = 1]
         IN  dir \in Dirs /\ dir.id = d /\ dir.alias = None /\ dir.inputs = {}
<1>1. EmptyDir \in Dirs BY DEF EmptyDir, Dirs, None
<1>2. \A x \in Dirs : [x EXCEPT !.id = d] \in Dirs BY DEF Dirs
<1>3. \A x \in Dirs : [x EXCEPT !.len = 1] \in Dirs BY DEF Dirs
<1>4. LET dir == [EmptyDir EXCEPT !.id = d, !.len = 1]
      IN  /\ dir.id = d /\ dir.alias = None /\ dir.inputs = {}
          /\ dir = [[EmptyDir EXCEPT !.id = d] EXCEPT !.len = 1]
  BY DEF EmptyDir
<1> QED BY <1>1, <1>2, <1>3, <1>4

\* A step that changes the directory of a dataset on which nobody else works.
LEMMA AloneDirStep ==
  ASSUME TenantInv, NEW w \in Workers, NEW d, d = op[w].id, op[w] # NoOp,
         op[w].phase \in Early \/ op[w].op \in Exclusive,
         Moved(w), UNCHANGED <<multi, graph, nextId, failed>>,
         NEW dir, dirs' = Put(d, dir), dir \in Dirs, dir.alias # None => dir.id = d,
         \/ dir.inputs \subseteq op[w].inputs
         \/ d \in DOMAIN dirs /\ dir.inputs = dirs[d].inputs,
         OpInv(op[w])',
         d \in Listed' => d \in Listed \/ op[w].phase \in Early,
         d \in Listed' \ failed =>
           \/ Unposted(d)'
           \/ /\ d \in Listed /\ ~Unposted(d)
              /\ Updating(d)' \/ (dir.inputs = dirs[d].inputs /\ ~Updating(d))
  PROVE  TenantInv'
<1>1. d \in Ids BY PathIsId DEF TenantInv
<1>2. \A v \in Workers \ {w} : op[v].id # d BY Alone DEF TenantInv
<1>3. DOMAIN dirs' = DOMAIN dirs \cup {d} /\ dirs'[d] = dir
      /\ \A q \in DOMAIN dirs \ {d} : dirs'[q] = dirs[q]
  BY DEF Put
<1>4. DOMAIN dirs' \subseteq Ids BY <1>1, <1>3 DEF TenantInv, Typed
<1> QED BY <1>2, <1>3, <1>4, DirStep

LEMMA CreateLayoutStep ==
  ASSUME TenantInv, NEW w \in Workers, CreateLayout(w)
  PROVE  TenantInv'
<1>1. op[w] # NoOp /\ op[w].phase \in Early BY DEF CreateLayout, NoOp, Early
<1>2. op[w] \in Ops /\ op[w].id \in Ids /\ Path(w) = op[w].id BY <1>1, PathIsId DEF TenantInv
<1>3. PICK d : d = op[w].id OBVIOUS
<1>4. d \notin DOMAIN dirs BY <1>3 DEF TenantInv, OpInv, CreateLayout
<1>5. dirs' = Put(d, EmptyDir) BY <1>2, <1>3, <1>4 DEF CreateLayout
<1>6. [op[w] EXCEPT !.phase = "seed"] \in Ops BY <1>1, <1>2, NextPhase, OpShape DEF Early
<1>7. Moved(w) /\ op'[w].phase = "seed"
  BY <1>1, <1>6, GotoMoves DEF CreateLayout, TenantInv
<1>8. op'[w].id = d BY <1>3, <1>7, MovedFields DEF NoOp, TenantInv
<1>9. EmptyDir \in Dirs /\ EmptyDir.alias = None /\ EmptyDir.inputs = {}
  BY DEF EmptyDir, Dirs, None
<1>10. dirs'[d] = EmptyDir /\ d \in DOMAIN dirs' BY <1>5 DEF Put
<1>11. OpInv(op[w])' BY <1>7, <1>8, <1>10 DEF OpInv, Early
<1>12. d \notin Listed' BY <1>9, <1>10 DEF Listed, TenantInv, Typed, CreateLayout
<1> QED BY <1>1, <1>3, <1>5, <1>7, <1>9, <1>11, <1>12, AloneDirStep DEF CreateLayout

LEMMA SetSeedStep ==
  ASSUME TenantInv, NEW w \in Workers, SetSeed(w)
  PROVE  TenantInv'
<1>1. op[w] # NoOp /\ op[w].phase \in Early BY DEF SetSeed, NoOp, Early
<1>2. op[w] \in Ops /\ op[w].id \in Ids /\ Path(w) = op[w].id BY <1>1, PathIsId DEF TenantInv
<1>3. PICK d : d = op[w].id OBVIOUS
<1>4. d \in DOMAIN dirs BY <1>3 DEF TenantInv, OpInv, SetSeed
<1> DEFINE dir == [EmptyDir EXCEPT !.id = d, !.len = 1]
<1>5. dirs' = Put(d, dir) /\ Goto(w, "save_alias")
  BY <1>2, <1>3, <1>4 DEF SetSeed, TenantInv, Typed
<1>6. [op[w] EXCEPT !.phase = "save_alias"] \in Ops BY <1>1, <1>2, NextPhase, OpShape DEF Early
<1>7. Moved(w) /\ op'[w].phase = "save_alias"
  BY <1>1, <1>5, <1>6, GotoMoves DEF TenantInv
<1>8. op'[w].id = d BY <1>3, <1>7, MovedFields DEF NoOp, TenantInv
<1>9. dir \in Dirs /\ dir.alias = None /\ dir.inputs = {}
  <2>1. d \in Ids BY <1>2, <1>3
  <2> QED BY <2>1, NewDir
<1>10. dirs'[d] = dir /\ d \in DOMAIN dirs' BY <1>5 DEF Put
<1>11. OpInv(op[w])' BY <1>7, <1>8, <1>10 DEF OpInv, Early
<1>12. d \notin Listed' BY <1>9, <1>10 DEF Listed, TenantInv, Typed, SetSeed
<1> HIDE DEF dir
<1> QED BY <1>1, <1>3, <1>5, <1>7, <1>9, <1>11, <1>12, AloneDirStep DEF SetSeed

LEMMA SaveAliasStep ==
  ASSUME TenantInv, NEW w \in Workers, SaveAlias(w)
  PROVE  TenantInv'
<1>1. op[w] # NoOp /\ op[w].phase \in Early BY DEF SaveAlias, NoOp, Early
<1>2. op[w] \in Ops /\ op[w].id \in Ids /\ Path(w) = op[w].id BY <1>1, PathIsId DEF TenantInv
<1>3. PICK d : d = op[w].id OBVIOUS
<1>4. d \in DOMAIN dirs /\ dirs[d] = [EmptyDir EXCEPT !.id = d, !.len = 1]
  BY <1>3 DEF TenantInv, OpInv, SaveAlias
<1> DEFINE dir == [dirs[d] EXCEPT !.alias = op[w].alias]
<1>5. dirs' = Put(d, dir) /\ Goto(w, "check_ref") BY <1>2, <1>3 DEF SaveAlias
<1>6. [op[w] EXCEPT !.phase = "check_ref"] \in Ops BY <1>1, <1>2, NextPhase, OpShape DEF Early, Late
<1>7. Moved(w) /\ op'[w].phase = "check_ref"
  BY <1>1, <1>5, <1>6, GotoMoves DEF TenantInv
<1>8. op'[w].id = d /\ op'[w].alias = op[w].alias BY <1>3, <1>7, MovedFields DEF NoOp, TenantInv
<1>9. dir \in Dirs /\ dir.alias = op[w].alias /\ dir.id = d /\ dir.inputs = {}
  <2>1. d \in Ids /\ op[w].alias \in Nat BY <1>2, <1>3, OpShape
  <2>2. dirs[d] \in Dirs /\ dirs[d].id = d /\ dirs[d].inputs = {} BY <1>4, <2>1, NewDir
  <2> QED BY <2>1, <2>2, DirAlias
<1> HIDE DEF dir
<1>10. dirs'[d] = dir /\ d \in DOMAIN dirs' BY <1>5 DEF Put
<1>11. OpInv(op[w])' BY <1>7, <1>8, <1>9, <1>10 DEF OpInv, Early
<1>12. Unposted(d)' BY <1>7, <1>8 DEF Unposted, Late
<1> QED BY <1>1, <1>3, <1>5, <1>7, <1>9, <1>11, <1>12, AloneDirStep DEF SaveAlias

\* Who else works on a dataset is not disturbed when its directory is removed.
LEMMA RemovedOthers ==
  ASSUME TenantInv, NEW w \in Workers, op[w] # NoOp, NEW v \in Workers \ {w},
         op[v].id = op[w].id, op'[v] = op[v], op[v].id \notin DOMAIN dirs'
  PROVE  OpInv(op[v])'
<1>1. op[w].id \in Ids BY PathIsId DEF TenantInv
<1>2. op[v] # NoOp BY <1>1 DEF NoOp, None, Ids
<1>3. op[v].phase \notin Early /\ op[v].op \notin Exclusive BY <1>2, Alone DEF TenantInv
<1>4. op[v].phase \notin {"commit", "name", "rename"}
  BY <1>3, OpShape DEF TenantInv, Typed, Exclusive
<1> QED BY <1>3, <1>4 DEF OpInv, Early

\* A directory is removed by a worker that knew it.
LEMMA RemoveStep ==
  ASSUME TenantInv, NEW w \in Workers, op[w] # NoOp, Moved(w),
         UNCHANGED <<multi, graph, nextId>>, failed \subseteq failed',
         dirs' = Without(op[w].id), OpInv(op[w])'
  PROVE  TenantInv'
<1>1. PICK d : d = op[w].id OBVIOUS
<1>2. DOMAIN dirs' = DOMAIN dirs \ {d} /\ \A p \in DOMAIN dirs \ {d} : dirs'[p] = dirs[p]
  BY <1>1 DEF Without
<1>3. \A v \in Workers \ {w} : op[v].id = d => OpInv(op[v])'
  BY <1>1, <1>2, RemovedOthers DEF Moved
<1>4. d \notin Listed' BY <1>2 DEF Listed
<1>5. DOMAIN dirs \subseteq Ids BY DEF TenantInv, Typed
<1> QED BY <1>1, <1>2, <1>3, <1>4, <1>5, DirStep

LEMMA AppendFailsStep ==
  ASSUME TenantInv, NEW w \in Workers, AppendFails(w)
  PROVE  TenantInv'
<1>1. op[w] # NoOp BY DEF AppendFails, NoOp
<1>2. Path(w) = op[w].id BY <1>1, PathIsId DEF TenantInv
<1>3. Moved(w) /\ op'[w] = NoOp BY DoneMoves DEF AppendFails, Failed, TenantInv
<1>4. DOMAIN dirs' \subseteq Ids BY DEF AppendFails, Without, TenantInv, Typed
<1>5. OpInv(op[w])' BY <1>3, <1>4, NoOpInv
<1> QED BY <1>1, <1>2, <1>3, <1>5, RemoveStep DEF AppendFails, Failed

LEMMA RemoveDirStep ==
  ASSUME TenantInv, NEW w \in Workers, RemoveDir(w)
  PROVE  TenantInv'
<1>1. op[w] # NoOp /\ op[w].phase \notin Early /\ op[w].phase \notin Late \cup {"updated"}
  BY DEF RemoveDir, NoOp, Early, Late
<1>2. Path(w) = op[w].id /\ op[w] \in Ops BY <1>1, PathIsId DEF TenantInv
<1>3. CASE Path(w) \notin DOMAIN dirs
  BY <1>1, <1>3, DoneStep DEF RemoveDir
<1>4. CASE Path(w) \in DOMAIN dirs
  <2>1. dirs' = Without(op[w].id) /\ Goto(w, "deleted") BY <1>2, <1>4 DEF RemoveDir
  <2>2. [op[w] EXCEPT !.phase = "deleted"] \in Ops
    BY <1>2, NextPhase, OpShape DEF RemoveDir
  <2>3. Moved(w) /\ op'[w].phase = "deleted"
    <3>1. "deleted" \notin Early BY DEF Early
    <3> QED BY <3>1, <1>1, <2>1, <2>2, GotoMoves DEF TenantInv
  <2>4. op'[w].id = op[w].id BY <2>3, MovedFields DEF NoOp, TenantInv
  <2>5. op'[w].id \notin DOMAIN dirs' BY <2>1, <2>4 DEF Without
  <2>6. OpInv(op[w])' BY <2>3, <2>5 DEF OpInv, Early
  <2> QED BY <1>1, <2>1, <2>3, <2>6, RemoveStep DEF RemoveDir
<1> QED BY <1>3, <1>4

LEMMA SetRefStep ==
  ASSUME TenantInv, NEW w \in Workers, SetRef(w)
  PROVE  TenantInv'
<1>1. op[w] # NoOp /\ op[w].phase \notin Early BY DEF SetRef, NoOp, Early
<1>2. op[w] \in Ops /\ op[w].id \in Ids /\ Path(w) = op[w].id BY <1>1, PathIsId DEF TenantInv
<1>3. PICK d : d = op[w].id OBVIOUS
<1>4. CASE d \notin DOMAIN dirs
  BY <1>2, <1>3, <1>4, DoneStep DEF SetRef, Failed
<1>5. CASE d \in DOMAIN dirs
  <2> DEFINE dir == [dirs[d] EXCEPT !.id = d, !.len = 2, !.inputs = op[w].inputs]
  <2>1. dirs' = Put(d, dir) /\ Goto(w, "created") /\ UNCHANGED failed
    BY <1>2, <1>3, <1>5 DEF SetRef
  <2>2. [op[w] EXCEPT !.phase = "created"] \in Ops
    BY <1>2, NextPhase, OpShape DEF SetRef, Late
  <2>3. Moved(w) /\ op'[w].phase = "created"
    <3>1. "created" \notin Early BY DEF Early
    <3> QED BY <3>1, <1>1, <2>1, <2>2, GotoMoves DEF TenantInv
  <2>4. op'[w].id = d /\ op'[w].alias = op[w].alias /\ op'[w].inputs = op[w].inputs
    BY <1>3, <2>3, MovedFields DEF NoOp, TenantInv
  <2>5. dirs[d].alias = op[w].alias BY <1>1, <1>3, <1>5 DEF TenantInv, OpInv
  <2>6. dir \in Dirs /\ dir.alias = dirs[d].alias /\ dir.id = d /\ dir.inputs = op[w].inputs
    <3>1. dirs[d] \in Dirs /\ op[w].inputs \in SUBSET Ids /\ d \in Ids
      BY <1>2, <1>3, <1>5, OpShape DEF TenantInv, Typed
    <3>2. dir \in Dirs BY <3>1, DirRef
    <3>3. dir.alias = dirs[d].alias /\ dir.id = d /\ dir.inputs = op[w].inputs BY <3>1 DEF Dirs
    <3> QED BY <3>2, <3>3
  <2> HIDE DEF dir
  <2>7. dirs'[d] = dir /\ DOMAIN dirs' = DOMAIN dirs
        /\ \A p \in DOMAIN dirs \ {d} : dirs'[p] = dirs[p]
    BY <2>1, <1>5 DEF Put
  <2>8. OpInv(op[w])' BY <2>3, <2>4, <2>5, <2>6, <2>7 DEF OpInv, Early
  <2>9. ASSUME NEW v \in Workers \ {w}, op[v].id = d PROVE OpInv(op[v])'
    <3>1. op[v] # NoOp BY <1>2, <1>3, <2>9 DEF NoOp, None, Ids
    <3>2. op[v].phase \notin Early /\ op[v].op \notin Exclusive
      BY <1>1, <1>3, <2>9, <3>1, Alone DEF TenantInv
    <3>3. op[v].op # "create"
      BY <1>1, <1>2, <1>3, <2>9, <3>1, OpShape DEF TenantInv, OneAtATime, SetRef, Late
    <3>4. op[v].phase \in {"check", "remove", "deleted"}
      BY <3>1, <3>2, <3>3 DEF TenantInv, Typed, Ops, Exclusive
    <3>5. OpInv(op[v]) /\ op'[v] = op[v] BY <2>3 DEF TenantInv, Moved
    <3> QED BY <1>5, <2>6, <2>7, <2>9, <3>2, <3>4, <3>5 DEF OpInv, Early
  <2>10. Unposted(d)' BY <2>3, <2>4 DEF Unposted, Late
  <2>11. DOMAIN dirs \subseteq Ids /\ multi = TRUE /\ multi' = TRUE BY DEF TenantInv, Typed, SetRef
  <2>12. d \in Listed' => d \in Listed BY <1>5, <2>6, <2>7, <2>11 DEF Listed
  <2>13. UNCHANGED <<multi, graph, nextId>> BY DEF SetRef
  <2> QED BY <1>3, <2>1, <2>3, <2>6, <2>7, <2>8, <2>9, <2>10, <2>11, <2>12, <2>13, DirStep
<1> QED BY <1>4, <1>5

\* Nothing is to be posted for a dataset whose only worker has not come to that.
LEMMA NothingToPost ==
  ASSUME TenantInv, NEW w \in Workers, op[w] # NoOp, op[w].op \in Exclusive,
         op[w].phase \notin Late \cup {"updated"}, NEW d, d = op[w].id
  PROVE  ~Unposted(d) /\ ~Updating(d)
<1>1. \A v \in Workers \ {w} : op[v].id # d BY Alone DEF TenantInv
<1> QED BY <1>1 DEF Unposted, Updating

LEMMA CommitTransformStep ==
  ASSUME TenantInv, NEW w \in Workers, CommitTransform(w)
  PROVE  TenantInv'
<1>1. op[w] # NoOp /\ op[w].phase \notin Early \cup Late \cup {"updated"}
  BY DEF CommitTransform, NoOp, Early, Late
<1>2. op[w] \in Ops /\ op[w].id \in Ids /\ Path(w) = op[w].id BY <1>1, PathIsId DEF TenantInv
<1>3. op[w].op = "update" /\ op[w].alias # None
  BY <1>2, OpShape DEF CommitTransform, Exclusive
<1>4. PICK d : d = op[w].id OBVIOUS
<1>5. d \in DOMAIN dirs /\ dirs[d].id = d /\ dirs[d].alias = op[w].alias
  BY <1>1, <1>4 DEF TenantInv, OpInv, CommitTransform
<1> DEFINE dir == [dirs[d] EXCEPT !.len = 2, !.inputs = op[w].inputs]
<1>6. dirs' = Put(d, dir) /\ Goto(w, "updated") BY <1>2, <1>4 DEF CommitTransform
<1>7. [op[w] EXCEPT !.phase = "updated"] \in Ops BY <1>2, <1>3, NextPhase
<1>8. Moved(w) /\ op'[w].phase = "updated"
  <2>1. "updated" \notin Early BY DEF Early
  <2> QED BY <2>1, <1>1, <1>6, <1>7, GotoMoves DEF TenantInv
<1>9. op'[w].id = d /\ op'[w].alias = op[w].alias /\ op'[w].inputs = op[w].inputs
  BY <1>4, <1>8, MovedFields DEF NoOp, TenantInv
<1>10. dir \in Dirs /\ dir.alias = op[w].alias /\ dir.id = d /\ dir.inputs = op[w].inputs
  <2>1. dirs[d] \in Dirs /\ op[w].inputs \in SUBSET Ids
    BY <1>2, <1>5, OpShape DEF TenantInv, Typed
  <2>2. dir \in Dirs BY <2>1, DirInputs
  <2>3. dir.alias = dirs[d].alias /\ dir.id = dirs[d].id /\ dir.inputs = op[w].inputs BY <2>1 DEF Dirs
  <2> QED BY <1>5, <2>2, <2>3
<1> HIDE DEF dir
<1>11. dirs'[d] = dir /\ d \in DOMAIN dirs' BY <1>6 DEF Put
<1>12. OpInv(op[w])' BY <1>8, <1>9, <1>10, <1>11 DEF OpInv, Early
<1>13. Updating(d)' BY <1>8, <1>9 DEF Updating
<1>14. ~Unposted(d) BY <1>1, <1>3, <1>4, NothingToPost DEF Exclusive
<1>15. d \in Listed BY <1>3, <1>5 DEF Listed, TenantInv, Typed
<1>16. op[w].op \in Exclusive BY <1>3 DEF Exclusive
<1>17. UNCHANGED <<multi, graph, nextId, failed>> BY DEF CommitTransform
<1> QED
  BY <1>1, <1>4, <1>6, <1>8, <1>10, <1>12, <1>13, <1>14, <1>15, <1>16, <1>17, AloneDirStep

LEMMA RenamedStep ==
  ASSUME TenantInv, NEW w \in Workers, handle_dataset_renamed(w)
  PROVE  TenantInv'
<1>1. op[w] # NoOp /\ op[w].phase \notin Early \cup Late \cup {"updated"}
  BY DEF handle_dataset_renamed, NoOp, Early, Late
<1>2. op[w] \in Ops /\ op[w].id \in Ids /\ Path(w) = op[w].id BY <1>1, PathIsId DEF TenantInv
<1>3. op[w].op = "rename" /\ op[w].alias # None /\ op[w].to \in Nat
  BY <1>2, OpShape DEF handle_dataset_renamed, Exclusive
<1>4. PICK d : d = op[w].id OBVIOUS
<1>5. d \in DOMAIN dirs /\ dirs[d].id = d /\ dirs[d].alias = op[w].alias
  BY <1>1, <1>4 DEF TenantInv, OpInv, handle_dataset_renamed
<1> DEFINE dir == [dirs[d] EXCEPT !.alias = op[w].to]
<1>6. dirs' = Put(d, dir) /\ Done(w)
  BY <1>2, <1>4 DEF handle_dataset_renamed, TenantInv, Typed
<1>7. Moved(w) /\ op'[w] = NoOp BY <1>6, DoneMoves DEF TenantInv
<1>8. dir \in Dirs /\ dir.id = d /\ dir.inputs = dirs[d].inputs
  <2>1. dirs[d] \in Dirs BY <1>5 DEF TenantInv, Typed
  <2>2. dir \in Dirs BY <1>3, <2>1, DirAlias
  <2>3. dir.id = dirs[d].id /\ dir.inputs = dirs[d].inputs BY <2>1 DEF Dirs
  <2> QED BY <1>5, <2>2, <2>3
<1> HIDE DEF dir
<1>9. DOMAIN dirs' \subseteq Ids BY <1>2, <1>4, <1>6 DEF Put, TenantInv, Typed
<1>10. OpInv(op[w])' BY <1>7, <1>9, NoOpInv
<1>11. ~Unposted(d) /\ ~Updating(d) BY <1>1, <1>3, <1>4, NothingToPost DEF Exclusive
<1>12. d \in Listed BY <1>3, <1>5 DEF Listed, TenantInv, Typed
<1>13. op[w].op \in Exclusive BY <1>3 DEF Exclusive
<1>14. UNCHANGED <<multi, graph, nextId, failed>> BY DEF handle_dataset_renamed
<1> QED
  BY <1>1, <1>4, <1>5, <1>6, <1>7, <1>8, <1>10, <1>11, <1>12, <1>13, <1>14, AloneDirStep

-----------------------------------------------------------------------------
(* The steps that change the graph.                                          *)

\* Of the invariant, such a step can disturb what concerns the graph only.
LEMMA GraphStep ==
  ASSUME TenantInv, NEW w \in Workers, Moved(w), UNCHANGED <<multi, dirs, nextId, failed>>,
         OpInv(op[w])', GraphTyped', Typed' => Covered'
  PROVE  TenantInv'
<1> USE DEF TenantInv
<1>1. Typed' BY TypedStep DEF Typed
<1>2. DirsInv' BY DEF DirsInv
<1>3. ASSUME NEW v \in Workers PROVE OpInv(op[v])'
  <2>1. CASE v = w BY <2>1
  <2>2. CASE v # w BY <2>2, OpInvFrame DEF Moved
  <2> QED BY <2>1, <2>2
<1>4. OneAtATime' BY MovedOneAtATime
<1>5. NobodysInput' BY MovedNobodysInput
<1> QED BY <1>1, <1>2, <1>3, <1>4, <1>5

\* What the messages do to the graph.
LEMMA CreatedFacts ==
  ASSUME GraphTyped, NEW d \in Ids
  PROVE  /\ Created(graph, d) = [graph EXCEPT !.nodes = graph.nodes \cup {d}]
         /\ Created(graph, d).nodes = graph.nodes \cup {d}
         /\ Created(graph, d).edges = graph.edges /\ Created(graph, d).scanned = graph.scanned
BY DEF GraphTyped, Created, get_or_create_dataset_node

LEMMA DeletedFacts ==
  ASSUME GraphTyped, NEW d \in Ids
  PROVE  /\ Deleted(graph, d) \in [nodes : SUBSET Ids, edges : SUBSET (Ids \X Ids), scanned : BOOLEAN]
         /\ Deleted(graph, d).nodes = graph.nodes \ {d}
         /\ Deleted(graph, d).edges = {e \in graph.edges : d \notin {e[1], e[2]}}
         /\ Deleted(graph, d).scanned = graph.scanned
<1> DEFINE E == {e \in graph.edges : d \notin {e[1], e[2]}}
<1>1. E \in SUBSET (Ids \X Ids) BY DEF GraphTyped
<1>2. Deleted(graph, d) = [graph EXCEPT !.nodes = graph.nodes \ {d}, !.edges = E]
  BY DEF Deleted, GraphTyped
<1> HIDE DEF E
<1>3. Deleted(graph, d).nodes = graph.nodes \ {d} /\ Deleted(graph, d).edges = E
      /\ Deleted(graph, d).scanned = graph.scanned
  BY <1>2 DEF GraphTyped
<1>4. Deleted(graph, d) \in [nodes : SUBSET Ids, edges : SUBSET (Ids \X Ids), scanned : BOOLEAN]
  BY <1>1, <1>2 DEF GraphTyped
<1> QED BY <1>3, <1>4 DEF E

LEMMA UpdatedFacts ==
  ASSUME GraphTyped, NEW d \in Ids, NEW ups \in SUBSET Ids
  PROVE  LET g == DependenciesUpdated(graph, d, ups)
             new == ups \ Upstream(graph, d)
         IN  /\ g \in [nodes : SUBSET Ids, edges : SUBSET (Ids \X Ids), scanned : BOOLEAN]
             /\ g.nodes = graph.nodes \cup new \cup {d}
             /\ g.edges = {e \in graph.edges : e[2] = d => e[1] \in ups} \cup (new \X {d})
             /\ g.scanned = graph.scanned
<1> DEFINE new == ups \ Upstream(graph, d)
           E == {e \in graph.edges : e[2] = d => e[1] \in ups}
           F == E \cup (new \X {d})
           N == graph.nodes \cup new \cup {d}
           h == [graph EXCEPT !.edges = E]
           g == DependenciesUpdated(graph, d, ups)
<1>1. E \in SUBSET (Ids \X Ids) /\ F \in SUBSET (Ids \X Ids) /\ N \in SUBSET Ids BY DEF GraphTyped
<1>2. g = add_dependencies(h, new, d) BY DEF DependenciesUpdated
<1> HIDE DEF new, E
<1>3. h \in [nodes : SUBSET Ids, edges : SUBSET (Ids \X Ids), scanned : BOOLEAN]
      /\ h.nodes = graph.nodes /\ h.edges = E /\ h.scanned = graph.scanned
  BY <1>1 DEF GraphTyped
<1> HIDE DEF h
<1>4. g = [h EXCEPT !.nodes = N, !.edges = F] BY <1>2, <1>3 DEF add_dependencies
<1> HIDE DEF N, F, g
<1>5. g.nodes = N /\ g.edges = F /\ g.scanned = graph.scanned BY <1>3, <1>4
<1>6. g \in [nodes : SUBSET Ids, edges : SUBSET (Ids \X Ids), scanned : BOOLEAN]
  BY <1>1, <1>3, <1>4
<1> QED BY <1>5, <1>6 DEF g, N, F, E, new

LEMMA PostCreatedStep ==
  ASSUME TenantInv, NEW w \in Workers, PostCreated(w)
  PROVE  TenantInv'
<1>1. op[w] # NoOp /\ op[w].phase \notin Early BY DEF PostCreated, NoOp, Early
<1>2. op[w] \in Ops /\ op[w].id \in Ids /\ op[w].op = "create"
  BY <1>1, PathIsId, OpShape DEF TenantInv, PostCreated, Late
<1>3. PICK d \in Ids : d = op[w].id BY <1>2
<1>4. Moved(w) /\ ((op'[w] = NoOp /\ op[w].inputs = {}) \/ op'[w].phase = "updated")
  <2>1. CASE op[w].inputs = {} BY <2>1, DoneMoves DEF PostCreated, TenantInv
  <2>2. CASE op[w].inputs # {}
    <3>1. [op[w] EXCEPT !.phase = "updated"] \in Ops BY <1>2, NextPhase
    <3>2. "updated" \notin Early BY DEF Early
    <3> QED BY <2>2, <3>1, <3>2, <1>1, GotoMoves DEF PostCreated, TenantInv
  <2> QED BY <2>1, <2>2
<1>5. op'[w] # NoOp => op'[w].id = d /\ op'[w].alias = op[w].alias /\ op'[w].inputs = op[w].inputs
  BY <1>3, <1>4, MovedFields DEF TenantInv
<1>6. UNCHANGED <<multi, dirs, nextId, failed>> BY DEF PostCreated
<1>7. GraphTyped BY DEF TenantInv, Typed
<1>8. graph'.nodes = graph.nodes \cup {d} /\ graph'.edges = graph.edges
      /\ graph'.scanned = graph.scanned /\ graph' = [graph EXCEPT !.nodes = graph.nodes \cup {d}]
  BY <1>3, <1>7, CreatedFacts DEF PostCreated
<1>9. GraphTyped'
  <2>1. graph' \in [nodes : SUBSET Ids, edges : SUBSET (Ids \X Ids), scanned : BOOLEAN]
    BY <1>7, <1>8 DEF GraphTyped
  <2> QED BY <1>6, <1>7, <1>8, <2>1, SameIds DEF GraphTyped
<1>10. OpInv(op[w])'
  <2>1. CASE op'[w] = NoOp
    BY <2>1, <1>6, NoOpInv DEF TenantInv, Typed
  <2>2. CASE op'[w] # NoOp
    BY <2>2, <1>1, <1>3, <1>4, <1>5, <1>6 DEF OpInv, Early, TenantInv, PostCreated
  <2> QED BY <2>1, <2>2
<1>11. ASSUME graph'.scanned, NEW q \in Listed' \ failed', ~Unposted(q)'
       PROVE  /\ q \in graph'.nodes
              /\ ~Updating(q)' => \A i \in dirs'[q].inputs \cap Listed' : <<i, q>> \in graph'.edges
  <2>1. Listed' = Listed /\ q \in Nat /\ q \in DOMAIN dirs
    BY <1>6, ListedFacts DEF Listed, HasHead, TenantInv
  <2>2. CASE q # d
    <3>1. Unposted(q)' = Unposted(q) /\ Updating(q)' = Updating(q)
      BY <1>3, <1>4, <2>1, <2>2, OthersPosts DEF TenantInv
    <3> QED BY <1>6, <1>8, <1>11, <2>1, <3>1 DEF TenantInv, Covered
  <2>3. CASE q = d
    <3>1. dirs[q].inputs = op[w].inputs BY <1>3, <2>1, <2>3 DEF TenantInv, OpInv, PostCreated
    <3>2. ~Updating(q)' => op[w].inputs = {} BY <1>4, <1>5, <2>3 DEF Updating, NoOp
    <3> QED BY <1>6, <1>8, <2>3, <3>1, <3>2
  <2> QED BY <2>2, <2>3
<1>12. Covered' BY <1>11 DEF Covered
<1> QED BY <1>4, <1>6, <1>9, <1>10, <1>12, GraphStep

LEMMA PostUpdatedStep ==
  ASSUME TenantInv, NEW w \in Workers, PostUpdated(w)
  PROVE  TenantInv'
<1>1. op[w] # NoOp /\ op[w].phase \notin Early BY DEF PostUpdated, NoOp, Early
<1>2. op[w] \in Ops /\ op[w].id \in Ids /\ op[w].inputs \in SUBSET Ids
  BY <1>1, PathIsId, OpShape DEF TenantInv
<1>3. PICK d \in Ids : d = op[w].id BY <1>2
<1>4. Moved(w) /\ op'[w] = NoOp BY DoneMoves DEF PostUpdated, TenantInv
<1>5. UNCHANGED <<multi, dirs, nextId, failed>> BY DEF PostUpdated
<1>6. GraphTyped BY DEF TenantInv, Typed
<1> DEFINE new == op[w].inputs \ Upstream(graph, d)
<1>7. d \in graph.nodes =>
        /\ graph' \in [nodes : SUBSET Ids, edges : SUBSET (Ids \X Ids), scanned : BOOLEAN]
        /\ graph'.nodes = graph.nodes \cup new
        /\ graph'.edges = {e \in graph.edges : e[2] = d => e[1] \in op[w].inputs} \cup (new \X {d})
        /\ graph'.scanned = graph.scanned
  <2> SUFFICES ASSUME d \in graph.nodes
               PROVE  /\ graph' \in [nodes : SUBSET Ids, edges : SUBSET (Ids \X Ids), scanned : BOOLEAN]
                      /\ graph'.nodes = graph.nodes \cup new
                      /\ graph'.edges = {e \in graph.edges : e[2] = d => e[1] \in op[w].inputs} \cup (new \X {d})
                      /\ graph'.scanned = graph.scanned
    OBVIOUS
  <2>1. graph' = DependenciesUpdated(graph, d, op[w].inputs) BY <1>3 DEF PostUpdated
  <2> QED BY <1>2, <1>6, <2>1, UpdatedFacts
<1>8. d \notin graph.nodes => graph' = graph BY <1>3 DEF PostUpdated
<1>9. GraphTyped'
  <2>1. CASE d \notin graph.nodes BY <1>5, <1>8, <2>1, SameGraphTyped DEF TenantInv
  <2>2. CASE d \in graph.nodes
    <3>1. graph'.edges \subseteq graph'.nodes \X graph'.nodes
      BY <1>6, <1>7, <2>2 DEF GraphTyped
    <3> QED BY <1>5, <1>7, <2>2, <3>1, SameIds DEF GraphTyped
  <2> QED BY <2>1, <2>2
<1>10. OpInv(op[w])'
  BY <1>4, <1>5, NoOpInv DEF TenantInv, Typed
<1>11. ASSUME graph'.scanned, NEW q \in Listed' \ failed', ~Unposted(q)'
       PROVE  /\ q \in graph'.nodes
              /\ ~Updating(q)' => \A i \in dirs'[q].inputs \cap Listed' : <<i, q>> \in graph'.edges
  <2>1. Listed' = Listed /\ q \in Nat /\ q \in DOMAIN dirs
    BY <1>5, ListedFacts DEF Listed, HasHead, TenantInv
  <2>2. graph.scanned BY <1>7, <1>8, <1>11
  <2>3. CASE q # d
    <3>1. Unposted(q)' = Unposted(q) /\ Updating(q)' = Updating(q)
      BY <1>3, <1>4, <2>1, <2>3, OthersPosts DEF TenantInv
    <3>2. q \in graph.nodes
          /\ (~Updating(q)' => \A i \in dirs'[q].inputs \cap Listed' : <<i, q>> \in graph.edges)
      BY <1>5, <1>11, <2>1, <2>2, <3>1 DEF TenantInv, Covered
    <3>3. \A i : <<i, q>> \in graph.edges => <<i, q>> \in graph'.edges
      BY <1>7, <1>8, <2>3
    <3> QED BY <1>7, <1>8, <3>2, <3>3
  <2>4. CASE q = d
    <3>1. dirs[q].inputs = op[w].inputs BY <1>3, <2>1, <2>4 DEF TenantInv, OpInv, PostUpdated
    <3>2. ~Unposted(q)
      <4>1. op[w].phase \notin Late BY DEF PostUpdated, Late
      <4> QED BY <4>1, <1>4, <1>11 DEF Unposted, Moved
    <3>3. q \in graph.nodes BY <1>5, <1>11, <2>1, <2>2, <3>2 DEF TenantInv, Covered
    <3>4. ASSUME NEW i \in op[w].inputs PROVE <<i, q>> \in graph'.edges
      <4>1. CASE i \in new BY <4>1, <1>7, <2>4, <3>3
      <4>2. CASE i \in Upstream(graph, d)
        <5>1. PICK e \in graph.edges : e[2] = d /\ e[1] = i BY <4>2 DEF Upstream
        <5>2. e = <<i, q>> BY <5>1, <1>6, <2>4 DEF GraphTyped
        <5> QED BY <5>1, <5>2, <1>7, <2>4, <3>3, <3>4
      <4> QED BY <4>1, <4>2
    <3> QED BY <1>5, <1>7, <2>4, <3>1, <3>3, <3>4
  <2> QED BY <2>3, <2>4
<1>12. Covered' BY <1>11 DEF Covered
<1> QED BY <1>4, <1>5, <1>9, <1>10, <1>12, GraphStep

LEMMA PostDeletedStep ==
  ASSUME TenantInv, NEW w \in Workers, PostDeleted(w)
  PROVE  TenantInv'
<1>1. op[w] # NoOp /\ op[w].phase \notin Late \cup {"updated"} BY DEF PostDeleted, NoOp, Late
<1>2. op[w].id \in Ids BY <1>1, PathIsId DEF TenantInv
<1>3. PICK d \in Ids : d = op[w].id BY <1>2
<1>4. Moved(w) /\ op'[w] = NoOp BY DoneMoves DEF PostDeleted, TenantInv
<1>5. UNCHANGED <<multi, dirs, nextId, failed>> BY DEF PostDeleted
<1>6. GraphTyped BY DEF TenantInv, Typed
<1>7. d \in graph.nodes =>
        /\ graph' \in [nodes : SUBSET Ids, edges : SUBSET (Ids \X Ids), scanned : BOOLEAN]
        /\ graph'.nodes = graph.nodes \ {d}
        /\ graph'.edges = {e \in graph.edges : d \notin {e[1], e[2]}}
        /\ graph'.scanned = graph.scanned
  BY <1>3, <1>6, DeletedFacts DEF PostDeleted
<1>8. d \notin graph.nodes => graph' = graph BY <1>3 DEF PostDeleted
<1>9. GraphTyped'
  <2>1. CASE d \notin graph.nodes BY <1>5, <1>8, <2>1, SameGraphTyped DEF TenantInv
  <2>2. CASE d \in graph.nodes
    <3>1. graph'.edges \subseteq graph'.nodes \X graph'.nodes
      BY <1>6, <1>7, <2>2 DEF GraphTyped
    <3> QED BY <1>5, <1>7, <2>2, <3>1, SameIds DEF GraphTyped
  <2> QED BY <2>1, <2>2
<1>10. OpInv(op[w])' BY <1>4, <1>5, NoOpInv DEF TenantInv, Typed
<1>11. d \notin Listed /\ Listed' = Listed
  <2>1. d \notin DOMAIN dirs BY <1>3 DEF TenantInv, OpInv, PostDeleted
  <2> QED BY <2>1, <1>5 DEF Listed, HasHead
<1>12. ASSUME graph'.scanned, NEW q \in Listed' \ failed', ~Unposted(q)'
       PROVE  /\ q \in graph'.nodes
              /\ ~Updating(q)' => \A i \in dirs'[q].inputs \cap Listed' : <<i, q>> \in graph'.edges
  <2>1. q # d /\ q \in Nat BY <1>11, ListedFacts DEF TenantInv
  <2>2. Unposted(q)' = Unposted(q) /\ Updating(q)' = Updating(q)
    BY <1>3, <1>4, <2>1, OthersPosts DEF TenantInv
  <2>3. graph.scanned BY <1>7, <1>8, <1>12
  <2>4. q \in graph.nodes
        /\ (~Updating(q)' => \A i \in dirs'[q].inputs \cap Listed' : <<i, q>> \in graph.edges)
    BY <1>5, <1>11, <1>12, <2>2, <2>3 DEF TenantInv, Covered
  <2>5. \A i \in Listed : <<i, q>> \in graph.edges => <<i, q>> \in graph'.edges
    BY <1>7, <1>8, <1>11, <2>1
  <2> QED BY <1>7, <1>8, <1>11, <2>1, <2>4, <2>5
<1>13. Covered' BY <1>12 DEF Covered
<1> QED BY <1>4, <1>5, <1>9, <1>10, <1>13, GraphStep

\* The first scan finds all that can be listed, with its inputs.
LEMMA ScanFacts ==
  ASSUME Typed, DirsInv
  PROVE  LET g == ensure_datasets_initially_scanned(graph, InputsById(Listed))
         IN  /\ g \in [nodes : SUBSET Ids, edges : SUBSET (Ids \X Ids), scanned : BOOLEAN]
             /\ g.edges \subseteq g.nodes \X g.nodes /\ g.scanned
             /\ graph.scanned => g = graph
             /\ ~graph.scanned => \A d \in Listed :
                  d \in g.nodes /\ \A i \in dirs[d].inputs : <<i, d>> \in g.edges
<1> DEFINE f == InputsById(Listed)
           g == ensure_datasets_initially_scanned(graph, f)
<1>1. CASE graph.scanned
  BY <1>1 DEF ensure_datasets_initially_scanned, Typed, GraphTyped
<1>2. CASE ~graph.scanned
  <2>1. Listed \subseteq DOMAIN dirs /\ Listed \subseteq Ids /\ \A p \in Listed : dirs[p].id = p
    BY ListedFacts DEF DirsInv
  <2>2. DOMAIN f = Listed
    <3>1. DOMAIN f = {dirs[p].id : p \in Listed} BY DEF InputsById
    <3> QED BY <2>1, <3>1
  <2>3. \A d \in Listed : f[d] = dirs[d].inputs
    <3> SUFFICES ASSUME NEW d \in Listed PROVE f[d] = dirs[d].inputs OBVIOUS
    <3>1. (CHOOSE p \in Listed : dirs[p].id = d) = d BY <2>1
    <3>2. d \in {dirs[p].id : p \in Listed} BY <2>1
    <3> QED BY <3>1, <3>2 DEF InputsById
  <2> DEFINE I == UNION {f[d] : d \in DOMAIN f}
             E == UNION {f[d] \X {d} : d \in DOMAIN f}
  <2>4. \A d \in Listed : f[d] \subseteq Ids BY <2>1, <2>3 DEF Typed, Dirs
  <2> HIDE DEF f
  <2>5. g = [nodes |-> graph.nodes \cup DOMAIN f \cup I, edges |-> graph.edges \cup E, scanned |-> TRUE]
    BY <1>2 DEF ensure_datasets_initially_scanned
  <2>6. I \subseteq Ids /\ E \subseteq (I \X Listed) BY <2>2, <2>4
  <2>7. \A d \in Listed : \A i \in f[d] : <<i, d>> \in E BY <2>2
  <2> HIDE DEF I, E
  <2>8. g.nodes = graph.nodes \cup Listed \cup I /\ g.edges = graph.edges \cup E /\ g.scanned = TRUE
    BY <2>2, <2>5
  <2>9. GraphTyped BY DEF Typed
  <2>10. g \in [nodes : SUBSET Ids, edges : SUBSET (Ids \X Ids), scanned : BOOLEAN]
    <3>1. graph.nodes \cup DOMAIN f \cup I \in SUBSET Ids BY <2>1, <2>2, <2>6, <2>9 DEF GraphTyped
    <3>2. graph.edges \cup E \in SUBSET (Ids \X Ids) BY <2>1, <2>6, <2>9 DEF GraphTyped
    <3> QED BY <2>5, <3>1, <3>2
  <2>11. g.edges \subseteq g.nodes \X g.nodes BY <2>6, <2>8, <2>9 DEF GraphTyped
  <2> HIDE DEF g
  <2> QED BY <1>2, <2>3, <2>7, <2>8, <2>10, <2>11 DEF g, f
<1> QED BY <1>1, <1>2

\* After a scan, or a step after which the scan was already done, the graph
\* covers the datasets.
LEMMA ScanCovers ==
  ASSUME TenantInv, UNCHANGED <<multi, dirs, nextId, failed>>,
         graph' = ensure_datasets_initially_scanned(graph, InputsById(Listed)),
         \A d \in Listed : Unposted(d)' = Unposted(d) /\ Updating(d)' = Updating(d)
  PROVE  GraphTyped' /\ Covered'
<1>1. GraphTyped' BY ScanFacts, SameIds DEF TenantInv, GraphTyped
<1>2. Listed' = Listed BY DEF Listed, HasHead
<1>3. CASE graph.scanned
  <2>1. graph' = graph BY <1>3, ScanFacts DEF TenantInv
  <2> QED BY <1>1, <1>2, <2>1 DEF TenantInv, Covered
<1>4. CASE ~graph.scanned
  <2>1. \A d \in Listed : d \in graph'.nodes /\ \A i \in dirs[d].inputs : <<i, d>> \in graph'.edges
    BY <1>4, ScanFacts DEF TenantInv
  <2> QED BY <1>1, <1>2, <2>1 DEF Covered
<1> QED BY <1>3, <1>4

LEMMA CheckStep ==
  ASSUME TenantInv, NEW w \in Workers, ensure_no_dangling_references(w)
  PROVE  TenantInv'
<1>1. op[w] # NoOp /\ op[w].phase \notin Early \cup Late \cup {"updated"}
  BY DEF ensure_no_dangling_references, NoOp, Early, Late
<1>2. op[w] \in Ops BY <1>1 DEF TenantInv, Typed
<1>3. UNCHANGED <<multi, dirs, nextId, failed>>
      /\ graph' = ensure_datasets_initially_scanned(graph, InputsById(Listed))
  BY DEF ensure_no_dangling_references
<1>4. Moved(w) /\ (op'[w] = NoOp \/ op'[w].phase = "remove")
  <2>1. CASE Done(w) BY <2>1, DoneMoves DEF TenantInv
  <2>2. CASE Goto(w, "remove")
    <3>1. [op[w] EXCEPT !.phase = "remove"] \in Ops
      BY <1>2, NextPhase, OpShape DEF ensure_no_dangling_references
    <3>2. "remove" \notin Early BY DEF Early
    <3> QED BY <2>2, <3>1, <3>2, <1>1, GotoMoves DEF TenantInv
  <2> QED BY <2>1, <2>2 DEF ensure_no_dangling_references
<1>5. OpInv(op[w])'
  <2>1. CASE op'[w] = NoOp BY <2>1, <1>3, NoOpInv DEF TenantInv, Typed
  <2>2. CASE op'[w] # NoOp
    <3>1. op'[w].id = op[w].id /\ op'[w].alias = op[w].alias
      BY <2>2, <1>4, MovedFields DEF TenantInv
    <3> QED BY <1>1, <1>3, <1>4, <2>2, <3>1 DEF OpInv, Early, TenantInv
  <2> QED BY <2>1, <2>2
<1>6. ASSUME NEW d \in Listed PROVE Unposted(d)' = Unposted(d) /\ Updating(d)' = Updating(d)
  <2>1. op'[w].phase \notin Late \cup {"updated"} BY <1>4 DEF NoOp, Late
  <2> QED BY <1>1, <1>4, <2>1 DEF Unposted, Updating, Moved
<1>7. GraphTyped' /\ Covered' BY <1>3, <1>6, ScanCovers
<1> QED BY <1>3, <1>4, <1>5, <1>7, GraphStep

LEMMA QueryStep ==
  ASSUME TenantInv, Query
  PROVE  TenantInv'
<1>1. UNCHANGED <<multi, dirs, op, nextId, failed>> BY DEF Query
<1>2. \A d : Unposted(d)' = Unposted(d) /\ Updating(d)' = Updating(d)
  BY <1>1 DEF Unposted, Updating
<1>3. GraphTyped' /\ Covered' BY <1>1, <1>2, ScanCovers DEF Query
<1>4. Typed' BY <1>1, <1>3, SameIds DEF TenantInv, Typed
<1>5. \A v \in Workers : OpInv(op[v])' BY <1>1, OpInvFrame DEF TenantInv
<1> QED BY <1>1, <1>3, <1>4, <1>5 DEF TenantInv, DirsInv, OneAtATime, NobodysInput

LEMMA CrashStep ==
  ASSUME TenantInv, Crash
  PROVE  TenantInv'
<1>1. UNCHANGED <<multi, dirs, nextId>> /\ \A v \in Workers : op'[v] = NoOp BY DEF Crash
<1>2. graph' = EmptyGraph BY DEF Crash
<1>3. GraphTyped' /\ ~graph'.scanned BY <1>2 DEF EmptyGraph, GraphTyped
<1>4. op' \in [Workers -> Ops \cup {NoOp}] BY DEF Crash
<1>5. Typed' BY <1>1, <1>3, <1>4, SameIds DEF TenantInv, Typed
<1>6. \A v \in Workers : OpInv(op[v])' BY <1>1, NoOpInv DEF TenantInv, Typed
<1>7. OneAtATime' BY <1>1 DEF OneAtATime
<1>8. NobodysInput' BY <1>1 DEF NobodysInput, NoOp, Early
<1>9. Covered' BY <1>3 DEF Covered
<1> QED BY <1>1, <1>5, <1>6, <1>7, <1>8, <1>9 DEF TenantInv, DirsInv

-----------------------------------------------------------------------------
(* The steps that begin an operation.                                        *)

\* A name is resolved to a dataset of that name.
LEMMA Resolves ==
  ASSUME Typed, DirsInv, NEW a, NEW id \in resolve_dataset_alias(a), id # None
  PROVE  id \in Listed /\ dirs[id].alias = a
<1>1. PICK p \in Listed : dirs[p].alias = a /\ dirs[p].id = id
  BY DEF resolve_dataset_alias, Typed
<1>2. p \in DOMAIN dirs /\ dirs[p].alias # None BY ListedFacts
<1>3. p = id BY <1>1, <1>2 DEF DirsInv
<1> QED BY <1>1, <1>3

\* The inputs of an operation are datasets that can be listed.
LEMMA ResolvedInputs ==
  ASSUME Typed, DirsInv, NEW S, NEW ids \in [S -> 1..nextId],
         \A a \in S : ids[a] \in resolve_dataset_alias(a)
  PROVE  Range(ids) \subseteq Listed
<1> SUFFICES ASSUME NEW a \in S PROVE ids[a] \in Listed
  BY DEF Range
<1>1. ids[a] # None BY DEF None, Typed
<1> QED BY <1>1, Resolves

\* More ids, more possible directories and operations.
LEMMA MoreIds ==
  ASSUME nextId \in Nat \ {0}, nextId' = nextId \/ nextId' = nextId + 1
  PROVE  /\ Ids \subseteq Ids' /\ Ids' \subseteq Ids \cup {nextId} /\ nextId \notin Ids
         /\ Dirs \subseteq Dirs' /\ Ops \subseteq Ops'
<1>1. Ids \subseteq Ids' /\ Ids' \subseteq Ids \cup {nextId} /\ nextId \notin Ids BY DEF Ids
<1>2. Dirs \subseteq Dirs' BY <1>1 DEF Dirs
<1>3. Ops \subseteq Ops' BY <1>1 DEF Ops
<1> QED BY <1>1, <1>2, <1>3

LEMMA BeginStep ==
  ASSUME TenantInv, NEW w \in Workers, NEW r \in Requests, NEW ph, NEW d, NEW I,
         Begin(w, r, ph, d, I), UNCHANGED <<multi, dirs, graph, failed>>,
         \/ r.op = "create" /\ ph = "alias" /\ d = nextId /\ nextId' = nextId + 1
         \/ /\ \/ r.op = "update" /\ ph = "commit"
               \/ r.op = "delete" /\ ph = "check"
               \/ r.op = "rename" /\ ph = "name"
            /\ d \in Listed /\ dirs[d].alias = r.alias /\ nextId' = nextId,
         I \subseteq Listed
  PROVE  TenantInv'
<1> USE DEF TenantInv
<1> DEFINE n == [op |-> r.op, phase |-> ph, id |-> d, alias |-> r.alias, to |-> r.to, inputs |-> I]
<1>1. op[w] = NoOp /\ MayBegin(r) /\ op' = [op EXCEPT ![w] = n] BY DEF Begin
<1>2. op'[w] = n /\ \A v \in Workers \ {w} : op'[v] = op[v] BY <1>1 DEF Typed
<1>3. nextId \in Nat \ {0} /\ Listed \subseteq Ids /\ Listed \subseteq DOMAIN dirs
  BY ListedFacts DEF Typed
<1>4. /\ Ids \subseteq Ids' /\ Ids' \subseteq Ids \cup {nextId} /\ nextId \notin Ids
      /\ Dirs \subseteq Dirs' /\ Ops \subseteq Ops'
  BY <1>3, MoreIds
<1>5. d \in Ids' BY <1>3, <1>4 DEF Ids
<1>6. r.alias \in Nat /\ r.to \in Nat /\ (r.op # "create" => r.alias # None)
  BY ListedFacts, WorkspaceAssumption
<1>7. n \in Ops'
  <2>1. I \in SUBSET Ids' BY <1>3, <1>4
  <2> QED BY <1>5, <1>6, <2>1 DEF Ops, Early, None
<1>8. n.phase = ph /\ n.id = d /\ n.alias = r.alias /\ n.op = r.op /\ n.to = r.to /\ n.inputs = I
  OBVIOUS
<1> HIDE DEF n
<1>9. Typed'
  <2>1. GraphTyped' BY <1>4 DEF Typed, GraphTyped
  <2>2. op' \in [Workers -> Ops' \cup {NoOp}] BY <1>1, <1>4, <1>7 DEF Typed
  <2>3. nextId' \in Nat \ {0} BY <1>3
  <2> QED BY <1>4, <2>1, <2>2, <2>3 DEF Typed
<1>10. DirsInv' BY DEF DirsInv
<1>11. OpInv(op[w])'
  <2>1. CASE ph = "alias"
    <3>1. d \notin DOMAIN dirs BY <2>1, <1>4 DEF Typed
    <3> QED BY <2>1, <3>1, <1>2, <1>8 DEF OpInv, Early
  <2>2. CASE ph # "alias"
    <3>1. d \in DOMAIN dirs /\ dirs[d].id = d /\ dirs[d].alias = r.alias
      BY <2>2, <1>3, <1>6 DEF DirsInv
    <3> QED BY <2>2, <3>1, <1>2, <1>8 DEF OpInv, Early
  <2> QED BY <2>1, <2>2
<1>12. \A v \in Workers : OpInv(op[v])'
  <2>1. ASSUME NEW v \in Workers \ {w} PROVE OpInv(op[v])' BY <1>2, OpInvFrame
  <2> QED BY <2>1, <1>11
<1>13. ASSUME NEW v \in Workers, op[v].phase \in Early PROVE op[v].id \notin Listed
  <2>1. OpInv(op[v]) /\ op[v].id \in Ids BY <1>13, OpShape DEF Typed, Early
  <2>2. op[v].id \in DOMAIN dirs => dirs[op[v].id].alias = None
    BY <1>13, <2>1, NewDir DEF OpInv, Early, EmptyDir
  <2> QED BY <2>2, ListedFacts
<1>14. ASSUME NEW v \in Workers \ {w}, op[v] # NoOp, op[v].id = d
       PROVE  /\ op[v].alias = r.alias /\ op[v].phase \notin Early /\ ph \notin Early
              /\ r.op # "create"
  <2>1. op[v].id \in Ids BY <1>14, OpShape DEF Typed
  <2>2. d # nextId BY <2>1, <1>4, <1>14
  <2>3. d \in Listed /\ dirs[d].alias = r.alias /\ r.op # "create" /\ ph \notin Early
    BY <2>2 DEF Early
  <2>4. op[v].phase \notin Early BY <1>13, <1>14, <2>3
  <2> QED BY <1>3, <1>14, <2>3, <2>4 DEF OpInv
<1>15. ASSUME NEW v \in Workers \ {w}
       PROVE  op[v].op \in Exclusive \/ r.op \in Exclusive => Names(op[v]) \cap Names(n) = {}
  BY <1>1, <1>8 DEF MayBegin, Names
<1>16. OneAtATime'
  <2> SUFFICES ASSUME NEW v \in Workers, NEW u \in Workers, v # u, op'[v] # NoOp, op'[u] # NoOp
               PROVE  /\ op'[v].id = op'[u].id =>
                           /\ op'[v].alias = op'[u].alias
                           /\ op'[v].phase \notin Early
                           /\ ~(op'[v].op = "create" /\ op'[u].op = "create")
                      /\ op'[v].op \in Exclusive => Names(op'[v]) \cap Names(op'[u]) = {}
    BY DEF OneAtATime
  <2>1. CASE v # w /\ u # w BY <2>1, <1>2 DEF OneAtATime
  <2>2. CASE v = w
    <3>1. op'[v] = n /\ op'[u] = op[u] /\ u \in Workers \ {w} BY <2>2, <1>2
    <3> QED BY <3>1, <1>8, <1>14, <1>15
  <2>3. CASE u = w
    <3>1. op'[u] = n /\ op'[v] = op[v] /\ v \in Workers \ {w} BY <2>3, <1>2
    <3> QED BY <3>1, <1>8, <1>14, <1>15
  <2> QED BY <2>1, <2>2, <2>3
<1>17. NobodysInput'
  <2>1. \A p \in DOMAIN dirs : dirs[p].inputs \subseteq Ids BY DEF Typed, Dirs
  <2>2. \A v \in Workers : op[v].inputs \subseteq Ids BY OpShape DEF Typed
  <2>3. \A v \in Workers : op'[v].inputs \subseteq op[v].inputs \cup Listed
    BY <1>2, <1>8
  <2>4. ASSUME NEW v \in Workers, op'[v].phase \in Early
        PROVE  /\ \A p \in DOMAIN dirs : op'[v].id \notin dirs[p].inputs
               /\ \A u \in Workers : op'[v].id \notin op'[u].inputs
    <3>1. CASE v = w
      <4>1. op'[v].id = nextId BY <2>4, <3>1, <1>2, <1>8 DEF Early
      <4> QED BY <4>1, <1>3, <1>4, <2>1, <2>2, <2>3
    <3>2. CASE v # w
      <4>1. op'[v] = op[v] BY <3>2, <1>2
      <4> QED BY <4>1, <2>3, <2>4, <1>13 DEF NobodysInput
    <3> QED BY <3>1, <3>2
  <2> QED BY <2>4 DEF NobodysInput
<1>18. Covered'
  <2>1. Listed' = Listed BY DEF Listed, HasHead
  <2>2. op[w].phase \notin Late \cup {"updated"} /\ op'[w].phase \notin Late \cup {"updated"}
    BY <1>1, <1>2, <1>8 DEF NoOp, Late
  <2>3. \A q : Unposted(q)' = Unposted(q) /\ Updating(q)' = Updating(q)
    BY <1>2, <2>2 DEF Unposted, Updating
  <2> QED BY <2>1, <2>3 DEF Covered
<1> QED BY <1>9, <1>10, <1>12, <1>16, <1>17, <1>18

LEMMA BeginCreateStep ==
  ASSUME TenantInv, NEW w \in Workers, NEW r \in Requests, BeginCreate(w, r)
  PROVE  TenantInv'
<1>1. PICK ids \in [r.inputs -> 1..nextId] :
        /\ \A a \in r.inputs : ids[a] \in resolve_dataset_alias(a)
        /\ Begin(w, r, "alias", nextId, Range(ids))
  BY DEF BeginCreate
<1>2. Range(ids) \subseteq Listed BY <1>1, ResolvedInputs DEF TenantInv
<1>3. r.op = "create" /\ nextId' = nextId + 1 /\ UNCHANGED <<multi, dirs, graph, failed>>
  BY DEF BeginCreate
<1> QED BY <1>1, <1>2, <1>3, BeginStep

LEMMA BeginUpdateStep ==
  ASSUME TenantInv, NEW w \in Workers, NEW r \in Requests, BeginUpdate(w, r)
  PROVE  TenantInv'
<1>1. PICK id \in resolve_dataset_alias(r.alias) \ {None} :
        \E ids \in [r.inputs -> 1..nextId] :
          /\ \A a \in r.inputs : ids[a] \in resolve_dataset_alias(a)
          /\ Begin(w, r, "commit", id, Range(ids))
  BY DEF BeginUpdate
<1>2. PICK ids \in [r.inputs -> 1..nextId] :
          /\ \A a \in r.inputs : ids[a] \in resolve_dataset_alias(a)
          /\ Begin(w, r, "commit", id, Range(ids))
  BY <1>1
<1>3. Range(ids) \subseteq Listed BY <1>2, ResolvedInputs DEF TenantInv
<1>4. id \in Listed /\ dirs[id].alias = r.alias BY Resolves DEF TenantInv
<1>5. r.op = "update" /\ UNCHANGED <<multi, dirs, graph, nextId, failed>> BY DEF BeginUpdate
<1> QED BY <1>2, <1>3, <1>4, <1>5, BeginStep

LEMMA BeginDeleteStep ==
  ASSUME TenantInv, NEW w \in Workers, NEW r \in Requests, BeginDelete(w, r)
  PROVE  TenantInv'
<1>1. PICK id \in resolve_dataset_alias(r.alias) \ {None} : Begin(w, r, "check", id, {})
  BY DEF BeginDelete
<1>2. id \in Listed /\ dirs[id].alias = r.alias BY Resolves DEF TenantInv
<1>3. r.op = "delete" /\ UNCHANGED <<multi, dirs, graph, nextId, failed>> BY DEF BeginDelete
<1> QED BY <1>1, <1>2, <1>3, BeginStep

LEMMA BeginRenameStep ==
  ASSUME TenantInv, NEW w \in Workers, NEW r \in Requests, BeginRename(w, r)
  PROVE  TenantInv'
<1>1. PICK id \in resolve_dataset_alias(r.alias) \ {None} : Begin(w, r, "name", id, {})
  BY DEF BeginRename
<1>2. id \in Listed /\ dirs[id].alias = r.alias BY Resolves DEF TenantInv
<1>3. r.op = "rename" /\ UNCHANGED <<multi, dirs, graph, nextId, failed>> BY DEF BeginRename
<1> QED BY <1>1, <1>2, <1>3, BeginStep

-----------------------------------------------------------------------------
(* The theorems.                                                             *)

LEMMA TenantInit ==
  ASSUME Init, multi
  PROVE  TenantInv
<1>1. multi = TRUE BY WorkspaceAssumption DEF Init
<1>2. PICK f \in Initial :
        /\ dirs = [d \in DOMAIN f |-> [id |-> d, alias |-> d, len |-> 2, inputs |-> f[d]]]
        /\ nextId = Max(DOMAIN f) + 1
  BY DEF Init
<1>3. PICK m \in Nat : nextId = m + 1 /\ DOMAIN f = 1..m /\ \A d \in 1..m : f[d] \subseteq 1..m
  BY <1>2, WorkspaceAssumption
<1>4. nextId \in Nat \ {0} /\ Ids = 1..m BY <1>3 DEF Ids
<1>5. DOMAIN dirs = 1..m /\ \A d \in 1..m : dirs[d] = [id |-> d, alias |-> d, len |-> 2, inputs |-> f[d]]
  BY <1>2, <1>3
<1>6. \A d \in 1..m : dirs[d] \in Dirs
  <2> SUFFICES ASSUME NEW d \in 1..m
               PROVE  [id |-> d, alias |-> d, len |-> 2, inputs |-> f[d]] \in Dirs
    BY <1>5
  <2> QED BY <1>3, <1>4 DEF Dirs
<1>7. \A v \in Workers : op[v] = NoOp BY DEF Init
<1>8. GraphTyped /\ ~graph.scanned BY DEF Init, EmptyGraph, GraphTyped
<1>9. Typed
  <2>1. op \in [Workers -> Ops \cup {NoOp}] BY DEF Init
  <2> QED BY <1>1, <1>4, <1>5, <1>6, <1>8, <2>1 DEF Typed
<1>10. DirsInv BY <1>5 DEF DirsInv
<1>11. \A v \in Workers : OpInv(op[v])
  <2>1. NoOp.id \notin DOMAIN dirs BY <1>5 DEF NoOp, None
  <2> QED BY <1>7, <2>1 DEF OpInv, NoOp, Early
<1>12. OneAtATime BY <1>7 DEF OneAtATime
<1>13. NobodysInput BY <1>7 DEF NobodysInput, NoOp, Early
<1>14. Covered BY <1>8 DEF Covered
<1> QED BY <1>9, <1>10, <1>11, <1>12, <1>13, <1>14 DEF TenantInv

LEMMA TenantNext ==
  ASSUME TenantInv, [Next]_vars
  PROVE  TenantInv'
<1>1. CASE UNCHANGED vars
  <2>1. UNCHANGED <<multi, dirs, graph, op, nextId, failed>> BY <1>1 DEF vars
  <2>2. Typed' BY <2>1, SameIds, SameGraphTyped DEF TenantInv, Typed
  <2>3. \A v \in Workers : OpInv(op[v])' BY <2>1, OpInvFrame DEF TenantInv
  <2>4. Covered' BY <2>1 DEF TenantInv, Covered, Unposted, Updating, Listed, HasHead
  <2> QED BY <2>1, <2>2, <2>3, <2>4 DEF TenantInv, DirsInv, OneAtATime, NobodysInput
<1>2. ASSUME NEW w \in Workers, NEW r \in Requests,
             BeginCreate(w, r) \/ BeginUpdate(w, r) \/ BeginDelete(w, r) \/ BeginRename(w, r)
      PROVE  TenantInv'
  BY <1>2, BeginCreateStep, BeginUpdateStep, BeginDeleteStep, BeginRenameStep
<1>3. ASSUME NEW w \in Workers,
             \/ CheckAlias(w) \/ CreateLayout(w) \/ CheckSeed(w) \/ SetSeed(w) \/ SaveAlias(w)
             \/ AppendFails(w) \/ CheckRef(w) \/ SetRef(w) \/ PostCreated(w) \/ PostUpdated(w)
             \/ CommitTransform(w) \/ ensure_no_dangling_references(w) \/ RemoveDir(w)
             \/ PostDeleted(w) \/ CheckName(w) \/ handle_dataset_renamed(w) \/ PostFails(w)
      PROVE  TenantInv'
  BY <1>3, CheckAliasStep, CreateLayoutStep, CheckSeedStep, SetSeedStep, SaveAliasStep,
     AppendFailsStep, CheckRefStep, SetRefStep, PostCreatedStep, PostUpdatedStep,
     CommitTransformStep, CheckStep, RemoveDirStep, PostDeletedStep, CheckNameStep,
     RenamedStep, PostFailsStep
<1>4. CASE Query BY <1>4, QueryStep
<1>5. CASE Crash BY <1>5, CrashStep
<1> QED BY <1>1, <1>2, <1>3, <1>4, <1>5 DEF Next

\* In a multi-tenant workspace the inductive invariant holds throughout: a
\* directory is that of the dataset it is named after, which never comes back
\* after it was removed, and the graph knows whatever has been posted.
THEOREM TenantSafety == Spec /\ multi => []TenantInv
<1>1. Init /\ multi => TenantInv BY TenantInit
<1>2. TenantInv /\ [Next]_vars => TenantInv' BY TenantNext
<1> QED BY <1>1, <1>2, PTL DEF Spec

LEMMA TenantCovers ==
  ASSUME TenantInv
  PROVE  WorkspaceInv
<1>1. TypeOK
  <2>1. \A p \in DOMAIN dirs :
          dirs[p].id \in Ids \cup {None} /\ dirs[p].inputs \subseteq Ids /\ dirs[p].len \in 0..2
    BY DEF TenantInv, Typed, Dirs, DirsInv
  <2> QED BY <2>1, OpShape DEF TypeOK, TenantInv, Typed, GraphTyped
<1>2. GraphCoversDatasets
  <2>1. \A p \in Listed : dirs[p].id = p BY ListedFacts DEF TenantInv, DirsInv
  <2>2. ListedIds = Listed BY <2>1 DEF ListedIds
  <2>3. \A d : Settled(d) => ~Unposted(d) /\ ~Updating(d) BY DEF Settled, Unposted, Updating
  <2> QED BY <2>1, <2>2, <2>3 DEF TenantInv, Covered, GraphCoversDatasets
<1> QED BY <1>1, <1>2 DEF WorkspaceInv

\* In a multi-tenant workspace the graph knows every dataset and all its inputs
\* that exist, whatever number of workers create, rename, change and delete
\* datasets concurrently.
THEOREM GraphIsComplete == Spec /\ multi => []WorkspaceInv
<1>1. TenantInv => WorkspaceInv BY TenantCovers
<1> QED BY <1>1, TenantSafety, PTL

\* Only the check of the dependents lets a deletion go on.
LEMMA OnlyTheCheck ==
  ASSUME TenantInv, [Next]_vars, NEW w \in Workers, op[w].phase = "check", op'[w].phase = "remove"
  PROVE  ensure_no_dangling_references(w)
<1>1. op'[w] # op[w] /\ op[w] # NoOp BY DEF NoOp
<1>2. \A v \in Workers \ {w} : \A ph : ~Done(v) /\ ~Failed(v) /\ ~Goto(v, ph)
  BY <1>1 DEF Done, Failed, Goto, TenantInv, Typed
<1>3. \A v \in Workers : \A r, ph, id, I : ~Begin(v, r, ph, id, I)
  <2> SUFFICES ASSUME NEW v \in Workers, NEW r, NEW ph, NEW id, NEW I, Begin(v, r, ph, id, I)
               PROVE  FALSE
    OBVIOUS
  <2>1. v # w BY <1>1 DEF Begin
  <2> QED BY <1>1, <2>1 DEF Begin, TenantInv, Typed
<1>4. ~UNCHANGED vars /\ ~Query BY <1>1 DEF vars, Query
<1>5. ~Crash BY DEF Crash, NoOp
<1>6. PICK v \in Workers :
             \/ \E r \in Requests :
                  BeginCreate(v, r) \/ BeginUpdate(v, r) \/ BeginDelete(v, r) \/ BeginRename(v, r)
             \/ CheckAlias(v) \/ CreateLayout(v) \/ CheckSeed(v) \/ SetSeed(v) \/ SaveAlias(v)
             \/ AppendFails(v) \/ CheckRef(v) \/ SetRef(v) \/ PostCreated(v) \/ PostUpdated(v)
             \/ CommitTransform(v) \/ ensure_no_dangling_references(v) \/ RemoveDir(v)
             \/ PostDeleted(v) \/ CheckName(v) \/ handle_dataset_renamed(v) \/ PostFails(v)
  BY <1>4, <1>5 DEF Next
<1>7. \A r \in Requests :
        ~BeginCreate(v, r) /\ ~BeginUpdate(v, r) /\ ~BeginDelete(v, r) /\ ~BeginRename(v, r)
  BY <1>3 DEF BeginCreate, BeginUpdate, BeginDelete, BeginRename
<1>8. CASE v = w
  <2>1. ~(\/ CheckAlias(w) \/ CreateLayout(w) \/ CheckSeed(w) \/ SetSeed(w) \/ SaveAlias(w)
          \/ AppendFails(w) \/ CheckRef(w) \/ SetRef(w) \/ PostCreated(w))
    BY DEF CheckAlias, CreateLayout, CheckSeed, SetSeed, SaveAlias, AppendFails, CheckRef,
           SetRef, PostCreated
  <2>2. ~(\/ PostUpdated(w) \/ CommitTransform(w) \/ RemoveDir(w) \/ PostDeleted(w)
          \/ CheckName(w) \/ handle_dataset_renamed(w) \/ PostFails(w))
    BY DEF PostUpdated, CommitTransform, RemoveDir, PostDeleted, CheckName,
           handle_dataset_renamed, PostFails
  <2> QED BY <1>6, <1>7, <1>8, <2>1, <2>2
<1>9. CASE v # w
  <2>1. ~(\/ CheckAlias(v) \/ CreateLayout(v) \/ CheckSeed(v) \/ SetSeed(v) \/ SaveAlias(v)
          \/ AppendFails(v) \/ CheckRef(v) \/ SetRef(v) \/ PostCreated(v))
    BY <1>2, <1>9 DEF CheckAlias, CreateLayout, CheckSeed, SetSeed, SaveAlias, AppendFails,
                      CheckRef, SetRef, PostCreated
  <2>2. ~(\/ PostUpdated(v) \/ CommitTransform(v) \/ RemoveDir(v) \/ PostDeleted(v)
          \/ CheckName(v) \/ handle_dataset_renamed(v) \/ PostFails(v)
          \/ ensure_no_dangling_references(v))
    BY <1>2, <1>9 DEF PostUpdated, CommitTransform, RemoveDir, PostDeleted, CheckName,
                      handle_dataset_renamed, PostFails, ensure_no_dangling_references
  <2> QED BY <1>6, <1>7, <2>1, <2>2
<1> QED BY <1>8, <1>9

\* The graph that allowed the deletion has an edge for every dataset at rest
\* that has the deleted one among its inputs.
LEMMA DeletionIsSafe ==
  ASSUME TenantInv, [Next]_vars, NEW w \in Workers, op[w].phase = "check", op'[w].phase = "remove",
         op[w].id \in ListedIds, NEW p \in Listed, Settled(dirs[p].id), dirs[p].id \notin failed
  PROVE  op[w].id \notin dirs[p].inputs
<1>1. ensure_no_dangling_references(w) BY OnlyTheCheck
<1>2. \A q \in Listed : dirs[q].id = q BY ListedFacts DEF TenantInv, DirsInv
<1>3. op[w].id \in Listed BY <1>2 DEF ListedIds
<1>4. TenantInv' BY <1>1, CheckStep
<1>5. UNCHANGED <<multi, dirs, failed>> /\ graph'.scanned
  BY <1>1, ScanFacts DEF ensure_no_dangling_references, TenantInv
<1>6. Listed' = Listed BY <1>5 DEF Listed, HasHead
<1>7. NoDownstream(graph', op[w].id)
  <2>1. ~Done(w)
    <3> SUFFICES ASSUME Done(w) PROVE FALSE OBVIOUS
    <3>1. op'[w] = NoOp BY DoneMoves DEF TenantInv
    <3> QED BY <3>1 DEF NoOp
  <2> QED BY <1>1, <2>1 DEF ensure_no_dangling_references
<1>8. ~Unposted(p)' /\ ~Updating(p)'
  <2>1. op'[w].phase \notin Late \cup {"updated"} BY DEF Late
  <2>2. \A v \in Workers \ {w} : op'[v] = op[v]
    BY <1>1 DEF ensure_no_dangling_references, Done, Goto, TenantInv, Typed
  <2> QED BY <1>2, <2>1, <2>2 DEF Settled, Unposted, Updating
<1>9. \A i \in dirs[p].inputs \cap Listed : <<i, p>> \in graph'.edges
  BY <1>2, <1>4, <1>5, <1>6, <1>8 DEF TenantInv, Covered
<1>10. \A i : <<i, p>> \in graph'.edges => p \in Downstream(graph', i)
  BY DEF Downstream
<1> QED BY <1>3, <1>7, <1>9, <1>10 DEF NoDownstream

\* In a multi-tenant workspace a deletion that goes on takes no input away from a
\* dataset that was at rest when ensure_no_dangling_references looked.
THEOREM DeletionTakesNoInput == Spec /\ multi => CheckedDeletionIsSafe
<1> DEFINE Safe ==
      \A w \in Workers :
        op[w].phase = "check" /\ op'[w].phase = "remove" /\ op[w].id \in ListedIds =>
          \A p \in Listed :
            Settled(dirs[p].id) /\ dirs[p].id \notin failed => op[w].id \notin dirs[p].inputs
<1>1. TenantInv /\ [Next]_vars => [Safe]_vars BY DeletionIsSafe
<1> QED BY <1>1, TenantSafety, PTL DEF Spec, CheckedDeletionIsSafe

=============================================================================
