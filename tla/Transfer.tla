------------------------------- MODULE Transfer -------------------------------
(*****************************************************************************)
(* Synchronisation of a destination dataset with a source dataset: the       *)
(* comparison of two metadata chains, the simple transfer protocol           *)
(* (SimpleTransferProtocol::sync) and the smart protocol's push and pull     *)
(* flows, with their client and their server.                                *)
(*                                                                           *)
(* A block is an identifier, and a chain is the sequence of its blocks, the  *)
(* Seed first, so a block's sequence number is its position minus one. A     *)
(* block's hash covers its predecessor, so a hash is a whole chain: head,    *)
(* prev_block_hash and the set of stored blocks are chains. Every block that *)
(* is not a Seed has one object, named as the block, that stands for its     *)
(* data slice and its checkpoint. Hash mismatches (a corrupted source) are   *)
(* not modelled.                                                             *)
(*****************************************************************************)
EXTENDS Integers, SequencesExt

CONSTANTS
  Sessions,    \* the syncs that may run, records [protocol, force]
  MaxRunning,  \* bound on the syncs that run at once
  MaxId,       \* bound on the blocks the two datasets ever get
  MaxFaults    \* bound on the aborts and the failed uploads

ASSUME TransferAssumption ==
  /\ Sessions \subseteq [protocol : {"simple", "push", "pull"}, force : BOOLEAN]
  /\ MaxRunning \in Nat /\ MaxFaults \in Nat
  /\ MaxId \in Nat /\ MaxId >= 3  \* the two Seeds and the source's first block

VARIABLES
  src,       \* the source's chain
  dst,       \* the destination's chain, NoHead when there is no such dataset
  stored,    \* the blocks in the destination's block repository
  objects,   \* the objects in the destination's data and checkpoint repositories
  session,   \* the state of each sync
  nextId,    \* the next block identifier
  faults,    \* faults so far
  lost       \* history: objects whose upload was given up
vars == <<src, dst, stored, objects, session, nextId, faults, lost>>

SrcSeed == 1
OtherSeed == 2
NoHead == <<>>
Prefix(c, n) == SubSeq(c, 1, n)
Blocks(c) == {Prefix(c, n) : n \in 1..Len(c)}
Objects(c) == Range(c) \ {SrcSeed, OtherSeed}

-----------------------------------------------------------------------------
(* MetadataChainComparator.                                                  *)

\* A plausible bug: a walk that does not meet the tail succeeds.
IntervalAlwaysValid(head, tail, ignore_missing_tail) == FALSE

\* MetadataChain::iter_blocks_interval, oldest block first. (A walk that does
\* not meet the tail fails, unless the missing tail is ignored.)
InvalidInterval(head, tail, ignore_missing_tail) ==
  ~ignore_missing_tail /\ ~IsPrefix(tail, head)
iter_blocks_interval(head, tail) ==
  LET from == IF IsPrefix(tail, head) THEN Len(tail) ELSE 0
  IN  [n \in 1..(Len(head) - from) |-> Prefix(head, from + n)]

\* Walks both chains down from a block with the same number until the hashes
\* are equal; 0 when not even the Seeds' are.
find_common_ancestor(lhs, rhs) ==
  LET walk[n \in Nat] ==
        IF n = 0 THEN 0 ELSE IF Prefix(lhs, n) = Prefix(rhs, n) THEN n ELSE walk[n - 1]
  IN  walk[IF Len(lhs) < Len(rhs) THEN Len(lhs) ELSE Len(rhs)]

describe_divergence(lhs, rhs, common) ==
  [kind |-> "Divergence", lhs |-> Len(lhs) - common, rhs |-> Len(rhs) - common]

\* A plausible bug: a chain that is ahead is taken for a continuation.
AheadIsContinuation(ahead, reference) == TRUE

\* The first of the blocks that one chain has more must follow the other's head.
check_expected_common_ancestor(ahead, reference) ==
  Prefix(ahead, Len(reference)) = reference

Ahead(kind, ahead, reference) ==
  [kind |-> kind, blocks |-> iter_blocks_interval(ahead, Prefix(ahead, Len(reference)))]

compare_chains(lhs, rhs) ==
  LET diverged == describe_divergence(lhs, rhs, find_common_ancestor(lhs, rhs))
  IN  CASE lhs = rhs -> [kind |-> "Equal"]
        [] rhs = NoHead -> Ahead("LhsAhead", lhs, NoHead)
        [] rhs # NoHead /\ Len(lhs) = Len(rhs) /\ lhs # rhs -> diverged
        [] rhs # NoHead /\ Len(lhs) > Len(rhs) ->
             IF check_expected_common_ancestor(lhs, rhs)
             THEN Ahead("LhsAhead", lhs, rhs) ELSE diverged
        [] Len(lhs) < Len(rhs) ->
             IF check_expected_common_ancestor(rhs, lhs)
             THEN Ahead("LhsBehind", rhs, lhs) ELSE diverged

-----------------------------------------------------------------------------
(* A sync. old_head is the destination's head it read at its beginning,      *)
(* new_head the head it will set, blocks what it has still to append,        *)
(* missing the objects it has still to transfer, check the head it compares  *)
(* the destination's with.                                                   *)
Idle == [phase |-> "idle", old_head |-> NoHead, new_head |-> NoHead,
         blocks |-> <<>>, missing |-> {}, check |-> NoHead]

\* A sync that has read a head, or both, and has still to read the blocks.
Loading(old_head, new_head) ==
  [phase |-> "load", old_head |-> old_head, new_head |-> new_head,
   blocks |-> <<>>, missing |-> {}, check |-> NoHead]

Init ==
  /\ src = <<SrcSeed, OtherSeed + 1>>
  /\ dst = NoHead
  /\ stored = {} /\ objects = {} /\ lost = {}
  /\ session = [s \in Sessions |-> Idle]
  /\ nextId = OtherSeed + 2
  /\ faults = 0

To(s, state) == session' = [session EXCEPT ![s] = state]
Finish(s) == To(s, Idle)

\* A plausible bug: the object of the newest block is forgotten.
AllButLastReference(s, blocks) ==
  {Last(b) : b \in Range(SubSeq(blocks, 1, Len(blocks) - 1))} \ {SrcSeed, OtherSeed}

\* Which objects to transfer: the simple protocol takes all, the smart one the
\* ones that are not there.
collect_object_references(s, blocks) ==
  LET references == {Last(b) : b \in Range(blocks)} \ {SrcSeed, OtherSeed}
  IN  IF s.protocol = "simple" THEN references ELSE references \ objects

\* What follows once the blocks are known: a destination that did not exist
\* when the sync began is created first.
Loaded(s, old_head, new_head, blocks) ==
  To(s, [phase |-> IF old_head = NoHead THEN "create" ELSE "objects",
         old_head |-> old_head, new_head |-> new_head, blocks |-> blocks,
         missing |-> collect_object_references(s, blocks), check |-> old_head])

\* SimpleTransferProtocol::sync to the point where it has the blocks: what is
\* ahead of the destination, or, forced, the whole chain, read once more.
StartSimple(s) ==
  /\ s.protocol = "simple" /\ session[s].phase = "idle"
  /\ LET comparison == compare_chains(src, dst)
     IN  \/ /\ comparison.kind = "LhsAhead"
            /\ Loaded(s, dst, src, comparison.blocks)
         \/ /\ comparison.kind \in {"LhsBehind", "Divergence"} /\ s.force
            /\ To(s, Loading(dst, src))
  /\ UNCHANGED <<src, dst, stored, objects, nextId, faults, lost>>

LoadSimple(s) ==
  /\ s.protocol = "simple" /\ session[s].phase = "load"
  /\ Loaded(s, session[s].old_head, session[s].new_head,
            iter_blocks_interval(src, NoHead))
  /\ UNCHANGED <<src, dst, stored, objects, nextId, faults, lost>>

\* sync_smart_push_transfer_protocol reads the destination's head.
StartPush(s) ==
  /\ s.protocol = "push" /\ session[s].phase = "idle"
  /\ To(s, Loading(dst, NoHead))
  /\ UNCHANGED <<src, dst, stored, objects, nextId, faults, lost>>

\* push_protocol_client_flow up to the metadata request. The sync ends here
\* when the interval is invalid, when it is empty, and when the server finds
\* that the destination's head is not the one the client sent.
LoadPush(s) ==
  LET old_head == session[s].old_head
      blocks == iter_blocks_interval(src, old_head)
  IN  /\ s.protocol = "push" /\ session[s].phase = "load"
      /\ IF InvalidInterval(src, old_head, s.force) \/ blocks = <<>> \/ dst # old_head
         THEN Finish(s)
         ELSE Loaded(s, old_head, src, blocks)
      /\ UNCHANGED <<src, dst, stored, objects, nextId, faults, lost>>

\* pull_protocol_client_flow: the server resolves its head once for the plan
\* and once more for the blocks it sends.
StartPull(s) ==
  /\ s.protocol = "pull" /\ session[s].phase = "idle"
  /\ ~InvalidInterval(src, dst, s.force)
  /\ iter_blocks_interval(src, dst) # <<>>
  /\ To(s, Loading(dst, NoHead))
  /\ UNCHANGED <<src, dst, stored, objects, nextId, faults, lost>>

LoadPull(s) ==
  LET old_head == session[s].old_head
  IN  /\ s.protocol = "pull" /\ session[s].phase = "load"
      /\ IF InvalidInterval(src, old_head, s.force)
         THEN Finish(s)
         ELSE Loaded(s, old_head, src, iter_blocks_interval(src, old_head))
      /\ UNCHANGED <<src, dst, stored, objects, nextId, faults, lost>>

\* The destination is created from the source's Seed, and has it as its head.
Create(s) ==
  /\ session[s].phase = "create"
  /\ \/ /\ dst = NoHead
        /\ LET seed == Head(session[s].blocks)
           IN  /\ dst' = seed
               /\ stored' = stored \cup {seed}
               /\ To(s, [session[s] EXCEPT !.phase = "objects",
                           !.blocks = Tail(@), !.check = seed])
     \/ /\ dst # NoHead  \* RefCollision
        /\ Finish(s)
        /\ UNCHANGED <<dst, stored>>
  /\ UNCHANGED <<src, objects, nextId, faults, lost>>

\* Objects are transferred concurrently, so in any order.
TransferObject(s) ==
  /\ session[s].phase = "objects"
  /\ \E object \in session[s].missing :
       /\ objects' = objects \cup {object}
       /\ To(s, [session[s] EXCEPT !.missing = @ \ {object}])
  /\ UNCHANGED <<src, dst, stored, nextId, faults, lost>>

\* export_group_of_object_files: a failed upload ends the export task, whose
\* result is ignored, and the push goes on.
FailUpload(s) ==
  /\ s.protocol = "push" /\ session[s].phase = "objects"
  /\ session[s].missing # {} /\ faults < MaxFaults
  /\ lost' = lost \cup session[s].missing
  /\ To(s, [session[s] EXCEPT !.missing = {}])
  /\ faults' = faults + 1
  /\ UNCHANGED <<src, dst, stored, objects, nextId>>

\* Appends the oldest block, leaving the head alone.
AppendBlock(s) ==
  LET blocks == session[s].blocks
  IN  /\ session[s].phase = "objects" /\ session[s].missing = {} /\ blocks # <<>>
      /\ stored' = stored \cup {Head(blocks)}
      /\ To(s, [session[s] EXCEPT !.blocks = Tail(@)])
      /\ UNCHANGED <<src, dst, objects, nextId, faults, lost>>

\* set_ref compares the head, unless a smart sync is forced. A smart sync with
\* nothing to append (the destination got the Seed only) ends before it.
HeadIsExpected(s) == (s.protocol # "simple" /\ s.force) \/ dst = session[s].check

NothingToSet(s) == s.protocol # "simple" /\ session[s].new_head = session[s].check
CheckHead(s) ==
  /\ session[s].phase = "objects" /\ session[s].missing = {} /\ session[s].blocks = <<>>
  /\ IF HeadIsExpected(s) /\ ~NothingToSet(s)
     THEN To(s, [session[s] EXCEPT !.phase = "set"])
     ELSE Finish(s)
  /\ UNCHANGED <<src, dst, stored, objects, nextId, faults, lost>>

\* A plausible bug: the head stops short of the newest block.
SetHeadBeforeLast(s) ==
  /\ session[s].phase = "set"
  /\ dst' = Front(session[s].new_head)
  /\ Finish(s)
  /\ UNCHANGED <<src, stored, objects, nextId, faults, lost>>

\* ... and writes it, in a step of its own.
SetHead(s) ==
  /\ session[s].phase = "set"
  /\ dst' = session[s].new_head
  /\ Finish(s)
  /\ UNCHANGED <<src, stored, objects, nextId, faults, lost>>

\* The process dies, or the connection does.
Abort(s) ==
  /\ session[s].phase # "idle" /\ faults < MaxFaults
  /\ Finish(s)
  /\ faults' = faults + 1
  /\ UNCHANGED <<src, dst, stored, objects, nextId, lost>>

-----------------------------------------------------------------------------
(* The other writers of the two datasets.                                    *)

SrcCommit ==
  /\ nextId <= MaxId
  /\ src' = Append(src, nextId) /\ nextId' = nextId + 1
  /\ UNCHANGED <<dst, stored, objects, session, faults, lost>>

\* Blocks stay in the source's repository, only its head moves. Assumed not to
\* happen between the two reads of a forced simple sync, which keeps the first
\* head and the second list of blocks.
SrcReset ==
  /\ Len(src) > 2
  /\ \A s \in Sessions : s.protocol = "simple" => session[s].phase # "load"
  /\ src' = Front(src)
  /\ UNCHANGED <<dst, stored, objects, session, nextId, faults, lost>>

DstCommit ==
  /\ dst # NoHead /\ nextId <= MaxId
  /\ dst' = Append(dst, nextId)
  /\ stored' = stored \cup {dst'} /\ objects' = objects \cup {nextId}
  /\ nextId' = nextId + 1
  /\ UNCHANGED <<src, session, faults, lost>>

\* Another dataset is created under the destination's name.
DstCreate ==
  /\ dst = NoHead /\ nextId <= MaxId
  /\ dst' = <<OtherSeed>> /\ stored' = stored \cup {dst'}
  /\ UNCHANGED <<src, objects, session, nextId, faults, lost>>

Step(s) ==
  \/ LoadSimple(s) \/ LoadPush(s) \/ LoadPull(s) \/ Create(s)
  \/ TransferObject(s) \/ AppendBlock(s) \/ CheckHead(s) \/ SetHead(s)
Start(s) ==
  /\ Cardinality({r \in Sessions : session[r].phase # "idle"}) < MaxRunning
  /\ StartSimple(s) \/ StartPush(s) \/ StartPull(s)
Next ==
  \/ \E s \in Sessions : Start(s) \/ Step(s) \/ FailUpload(s) \/ Abort(s)
  \/ SrcCommit \/ SrcReset \/ DstCommit \/ DstCreate
Spec == Init /\ [][Next]_vars

\* A running sync is executed to its end, and a forced sync is tried again as
\* long as the datasets differ.
Retry(s) == s.force /\ src # dst /\ Start(s)
Fairness ==
  /\ \A s \in Sessions : WF_vars(Step(s))
  /\ \A s \in Sessions : WF_vars(Retry(s))
FairSpec == Spec /\ Fairness

-----------------------------------------------------------------------------
(* Properties.                                                               *)

Chains == Seq(1..MaxId)
SessionStates ==
  [phase : {"idle", "load", "create", "objects", "set"}, old_head : Chains, new_head : Chains,
   blocks : Seq(Chains), missing : SUBSET (3..MaxId), check : Chains]

TypeOK ==
  /\ src \in Chains /\ dst \in Chains
  /\ stored \subseteq Chains
  /\ objects \subseteq 3..MaxId /\ lost \subseteq 3..MaxId
  /\ session \in [Sessions -> SessionStates]
  /\ nextId \in 4..(MaxId + 1)
  /\ faults \in 0..MaxFaults

\* Whatever the head of the destination is moved to, by whatever interleaving
\* of syncs, commits and aborts, every block behind it is stored, and so is
\* every object, but for the uploads that a push gave up: the head moves last.
DestinationComplete ==
  dst # NoHead =>
    /\ Blocks(dst) \subseteq stored
    /\ Objects(dst) \subseteq objects \cup lost

\* The tests of the push flow require that a push that succeeded leaves the
\* two datasets with the same data files. A failed upload breaks it.
PushedDataIsThere == Objects(dst) \subseteq objects

\* A sync that is not forced will set a head that continues the one it read,
\* and so never chooses to drop a block of the destination.
UnforcedContinues ==
  \A s \in Sessions :
    ~s.force /\ session[s].phase \in {"create", "objects", "set"}
      => IsPrefix(session[s].old_head, session[s].new_head)

\* The blocks a sync still has to append connect to what is stored: the batch
\* is contiguous, and it begins where the destination's blocks end.
BatchConnects ==
  \A s \in Sessions :
    LET blocks == session[s].blocks
    IN  /\ \A i \in 1..(Len(blocks) - 1) : Front(blocks[i + 1]) = blocks[i]
        /\ session[s].phase = "objects" /\ blocks # <<>>
             => Len(blocks[1]) = 1 \/ Front(blocks[1]) \in stored

\* The type invariant, and what a sync keeps to while it runs.
TransferInv == TypeOK /\ UnforcedContinues /\ BatchConnects

\* The comparison by sequence numbers tells what the longest common prefix of
\* the two chains tells.
Common(c, d) ==
  CHOOSE n \in 0..Len(c) :
    /\ n <= Len(d) /\ Prefix(c, n) = Prefix(d, n)
    /\ \A m \in (n + 1)..Len(c) : m > Len(d) \/ Prefix(c, m) # Prefix(d, m)
Comparison(c, d) ==
  LET n == Common(c, d)
      rest(chain) == [i \in 1..(Len(chain) - n) |-> Prefix(chain, n + i)]
  IN  IF c = d THEN [kind |-> "Equal"]
      ELSE IF n = Len(d) THEN [kind |-> "LhsAhead", blocks |-> rest(c)]
      ELSE IF n = Len(c) THEN [kind |-> "LhsBehind", blocks |-> rest(d)]
      ELSE [kind |-> "Divergence", lhs |-> Len(c) - n, rhs |-> Len(d) - n]
ComparatorIsExact ==
  /\ compare_chains(src, dst) = Comparison(src, dst)
  /\ dst # NoHead => compare_chains(dst, src) = Comparison(dst, src)

\* Forced syncs that are retried bring the destination to the source's head
\* for good, through aborts, collisions and concurrent writers (all bounded).
SyncReachesSource == <>[](dst = src)

-----------------------------------------------------------------------------
(* The inductive invariant.                                                  *)

\* What a head leads to is there, or its upload was given up.
Complete(c) == Blocks(c) \subseteq stored /\ Objects(c) \subseteq objects \cup lost

\* The source begins with its Seed, and keeps its first block.
SourceInv == Len(src) >= 2 /\ src[1] = SrcSeed

\* What the blocks a sync has to append are: a run of one chain, oldest first.
RunOfBlocks(blocks) ==
  /\ \A i \in 1..Len(blocks) : blocks[i] # <<>> /\ blocks[i][1] = SrcSeed
  /\ \A i \in 1..(Len(blocks) - 1) : Front(blocks[i + 1]) = blocks[i]

\* A sync whose blocks are known: what is behind the head that it will set is
\* there, or is among what it has still to append and to transfer.
BatchInv(s) ==
  LET state == session[s]
  IN  /\ RunOfBlocks(state.blocks)
      /\ Blocks(state.new_head) \subseteq stored \cup Range(state.blocks)
      /\ Objects(state.new_head) \subseteq objects \cup lost \cup state.missing
      /\ ~s.force => IsPrefix(state.old_head, state.new_head)
      /\ state.phase = "create" =>
           state.old_head = NoHead /\ state.blocks # <<>> /\ Len(state.blocks[1]) = 1
      /\ state.phase = "objects" /\ state.blocks # <<>> =>
           Len(state.blocks[1]) = 1 \/ Front(state.blocks[1]) \in stored
      /\ state.phase = "set" => state.blocks = <<>> /\ state.missing = {}

\* The head that a sync has read stays complete, and what a forced simple sync
\* has read first stays behind the source's head until the second read.
SessionInv(s) ==
  LET state == session[s]
  IN  /\ Complete(state.old_head)
      /\ state.phase \in {"idle", "load"} => state.blocks = <<>>
      /\ state.phase = "load" /\ s.protocol = "simple" =>
           s.force /\ IsPrefix(state.new_head, src)
      /\ state.phase \in {"create", "objects", "set"} => BatchInv(s)

SyncInv == TypeOK /\ SourceInv /\ Complete(dst) /\ \A s \in Sessions : SessionInv(s)
=============================================================================
