---------------------------- MODULE BlockManager ----------------------------
(***************************************************************************)
(* The block manager of the consensus core (consensus/core/src/            *)
(* block_manager.rs): received blocks are suspended until their causal     *)
(* history is in the DAG, then verified against their ancestors and        *)
(* accepted into the DAG (dag_state.rs), which buffers them until a flush  *)
(* writes them to the store.                                               *)
(*                                                                         *)
(* A block reference carries the block's digest, so the ancestors, the     *)
(* round and the timestamp of a reference never change: they are           *)
(* CONSTANTS.  Genesis references are ancestors that are always present.   *)
(***************************************************************************)
EXTENDS Naturals, FiniteSets, Sequences

CONSTANTS
    Blocks,        \* references of the blocks above the genesis round
    Genesis,       \* references of the genesis blocks
    Ancestors,     \* [Blocks -> Seq of references], in the order of the block
    Round,         \* [Blocks -> Nat]
    Timestamp,     \* [Blocks \cup Genesis -> Nat]
    MaxBatch,      \* bound on the blocks passed in one call
    MaxRestarts    \* bound on the number of restarts

AncestorsOf(b) == { Ancestors[b][i] : i \in DOMAIN Ancestors[b] }

ASSUME GenesisAssumption == Genesis \cap Blocks = {}

ASSUME BlocksAssumption ==
    /\ Ancestors \in [Blocks -> Seq(Blocks \cup Genesis)]
    /\ Round \in [Blocks -> Nat]
    /\ Timestamp \in [Blocks \cup Genesis -> Nat]

(* BlockVerifier::verify has already refused a block that names an ancestor *)
(* of its own round or above.                                               *)
ASSUME RoundAssumption ==
    \A b \in Blocks : \A a \in AncestorsOf(b) \cap Blocks : Round[a] < Round[b]

ASSUME BoundAssumption == MaxRestarts \in Nat

VARIABLES
    batch,              \* what is left of the blocks of the current call
    missing_returned,   \* the missing references the call will return
    suspended_blocks,   \* suspended block -> its missing_ancestors
    missing_ancestors,  \* missing reference -> the suspended blocks it holds up
    missing_blocks,     \* missing references that are not suspended themselves
    recent_blocks,      \* DagState: the accepted blocks
    blocks_to_write,    \* DagState: the accepted blocks that no flush has written
    rejected,           \* history: the blocks that failed check_ancestors
    panicked,           \* the process stopped at the missing-ancestor panic
    restarts

manager == <<suspended_blocks, missing_ancestors, missing_blocks>>
dag     == <<recent_blocks, blocks_to_write>>
vars    == <<batch, missing_returned, manager, dag, rejected, panicked, restarts>>

Suspended == DOMAIN suspended_blocks

(* DagState::contains_block: genesis, cached or stored. *)
InDag(a) == a \in Genesis \cup recent_blocks

TypeOK ==
    /\ batch \subseteq Blocks
    /\ missing_returned \subseteq Blocks
    /\ suspended_blocks \in [Suspended -> SUBSET Blocks]
    /\ Suspended \subseteq Blocks
    /\ missing_ancestors \in [DOMAIN missing_ancestors -> SUBSET Blocks]
    /\ DOMAIN missing_ancestors \subseteq Blocks
    /\ missing_blocks \subseteq Blocks
    /\ recent_blocks \subseteq Blocks
    /\ blocks_to_write \subseteq recent_blocks
    /\ rejected \subseteq Blocks
    /\ panicked \in BOOLEAN
    /\ restarts \in 0..MaxRestarts

Init ==
    /\ batch = {}
    /\ missing_returned = {}
    /\ suspended_blocks = <<>>
    /\ missing_ancestors = <<>>
    /\ missing_blocks = {}
    /\ recent_blocks = {}
    /\ blocks_to_write = {}
    /\ rejected = {}
    /\ panicked = FALSE
    /\ restarts = 0

-----------------------------------------------------------------------------
(* A call of try_accept_blocks.  The blocks are sorted by round and the loop *)
(* takes them one at a time; blocks of one round keep the order of the       *)
(* caller, which may be any.                                                 *)
StartBatch(S) ==
    /\ ~panicked
    /\ batch = {}
    /\ batch' = S
    /\ missing_returned' = {}
    /\ UNCHANGED <<manager, dag, rejected, panicked, restarts>>

(* Mutant: the batch is sorted from the highest round down. *)
HighestFirst(b) == b \in batch /\ \A c \in batch : Round[c] <= Round[b]

NextInBatch(b) == b \in batch /\ \A c \in batch : Round[b] <= Round[c]

(* Mutant: a block that others wait for counts as seen before. *)
ProcessedOrAwaited(b) == b \in Suspended \cup DOMAIN missing_ancestors \/ InDag(b)

(* try_accept_one_block, a block that was seen before. *)
Processed(b) == b \in Suspended \/ InDag(b)

SkipProcessed(b) ==
    /\ ~panicked
    /\ NextInBatch(b)
    /\ Processed(b)
    /\ batch' = batch \ {b}
    /\ UNCHANGED <<missing_returned, manager, dag, rejected, panicked, restarts>>

(* Mutant: genesis ancestors are looked up among the accepted blocks. *)
MissingOfCountsGenesis(b) == { a \in AncestorsOf(b) : a \notin recent_blocks }

(* Mutant: an ancestor that is suspended counts as present. *)
MissingOfSkipsSuspended(b) ==
    { a \in AncestorsOf(b) : ~InDag(a) /\ a \notin Suspended }

(* The ancestors that are not in the DAG. *)
MissingOf(b) == { a \in AncestorsOf(b) : ~InDag(a) }

WaitersOf(a) == IF a \in DOMAIN missing_ancestors THEN missing_ancestors[a] ELSE {}

(* try_accept_one_block, a block some of whose ancestors are missing. *)
SuspendBlock(b) ==
    /\ ~panicked
    /\ NextInBatch(b)
    /\ ~Processed(b)
    /\ MissingOf(b) # {}
    /\ missing_ancestors' =
         [a \in DOMAIN missing_ancestors \cup MissingOf(b) |->
             IF a \in MissingOf(b) THEN WaitersOf(a) \cup {b} ELSE WaitersOf(a)]
    /\ missing_blocks' = (missing_blocks \cup (MissingOf(b) \ Suspended)) \ {b}
    /\ suspended_blocks' =
         [c \in Suspended \cup {b} |->
             IF c = b THEN MissingOf(b) ELSE suspended_blocks[c]]
    /\ missing_returned' = missing_returned \cup (MissingOf(b) \ Suspended)
    /\ batch' = batch \ {b}
    /\ UNCHANGED <<dag, rejected, panicked, restarts>>

(* The worklist of try_unsuspend_children_blocks unsuspends a block when the *)
(* last of its missing ancestors has been processed.                         *)
UnsuspendClosed(b, S) ==
    \A c \in Suspended : suspended_blocks[c] \subseteq S \cup {b} => c \in S

(* The blocks that the worklist returns: the least closed set. *)
Unsuspended(b) ==
    { c \in Suspended : \A S \in SUBSET Suspended : UnsuspendClosed(b, S) => c \in S }

(* BlockVerifier::check_ancestors. *)
CheckAncestors(b) == \A a \in AncestorsOf(b) : Timestamp[a] <= Timestamp[b]

(* A block that fails the check, or has an ancestor rejected in the same     *)
(* pass, is rejected.                                                        *)
RejectClosed(U, S) ==
    \A c \in U : ~CheckAncestors(c) \/ AncestorsOf(c) \cap S # {} => c \in S

(* The pass goes over the blocks in causal order: it rejects the least       *)
(* closed set.                                                               *)
RejectedIn(U) ==
    { c \in U : \A S \in SUBSET U : RejectClosed(U, S) => c \in S }

(* Whether the worklist may get to c before it gets to a: c is unsuspended   *)
(* although a is not.                                                        *)
ReachedWithout(b, c, a) ==
    \A S \in SUBSET (Suspended \ {a}) :
        (\A d \in Suspended \ {a} : suspended_blocks[d] \subseteq S \cup {b} => d \in S)
            => c \in S

(* The ancestors of c that the pass finds nowhere, in its best order: those  *)
(* neither in the DAG nor among the blocks U it goes over.                   *)
NotFound(c, U) == { a \in AncestorsOf(c) : ~InDag(a) /\ a \notin U }

(* The ones it finds nowhere in some order: it takes the blocks as they were *)
(* unsuspended, and an ancestor that c does not wait for, because it was     *)
(* refused before and is suspended anew, may come after c.                   *)
MayBeNotFound(b, c, U) ==
    NotFound(c, U) \cup
        { a \in AncestorsOf(c) : ~InDag(a) /\ a # b /\ ReachedWithout(b, c, a) }

(* A lacking ancestor is the missing-ancestor panic, unless an ancestor      *)
(* before it was rejected.                                                   *)
Lacks(c, lacking, U) ==
    \E i \in DOMAIN Ancestors[c] :
        /\ Ancestors[c][i] \in lacking
        /\ \A j \in 1..(i - 1) : Ancestors[c][j] \notin RejectedIn(U)

(* A new block all of whose ancestors are in the DAG. *)
Connected(b) == ~Processed(b) /\ MissingOf(b) = {}

(* Mutant: a missing block that arrives and is accepted stays missing. *)
UnsuspendKeepsMissing(b, U) ==
    /\ suspended_blocks' = [c \in Suspended \ U |-> suspended_blocks[c] \ U]
    /\ missing_ancestors' =
         [a \in DOMAIN missing_ancestors \ U |-> missing_ancestors[a]]
    /\ missing_blocks' = missing_blocks

(* Mutant: every missing block is forgotten when one arrives. *)
UnsuspendClearsMissing(b, U) ==
    /\ suspended_blocks' = [c \in Suspended \ U |-> suspended_blocks[c] \ U]
    /\ missing_ancestors' =
         [a \in DOMAIN missing_ancestors \ U |-> missing_ancestors[a]]
    /\ missing_blocks' = {}

(* The processed blocks leave the maps whether or not they are rejected. *)
Unsuspend(b, U) ==
    /\ suspended_blocks' = [c \in Suspended \ U |-> suspended_blocks[c] \ U]
    /\ missing_ancestors' =
         [a \in DOMAIN missing_ancestors \ U |-> missing_ancestors[a]]
    /\ missing_blocks' = missing_blocks \ {b}

(* The rest of the loop body: the block and what it unsuspends are verified, *)
(* and DagState::accept_blocks adds those that pass to the cache and to the  *)
(* blocks to write.                                                          *)
AcceptBlock(b) ==
    LET U == {b} \cup Unsuspended(b) IN
    /\ ~panicked
    /\ NextInBatch(b)
    /\ Connected(b)
    /\ \A c \in U : ~Lacks(c, NotFound(c, U), U)
    /\ Unsuspend(b, U)
    /\ recent_blocks' = recent_blocks \cup (U \ RejectedIn(U))
    /\ blocks_to_write' = blocks_to_write \cup (U \ RejectedIn(U))
    /\ rejected' = rejected \cup RejectedIn(U)
    /\ batch' = batch \ {b}
    /\ UNCHANGED <<missing_returned, panicked, restarts>>

(* panic!("Unsuspended block {:?} has a missing ancestor! ...") *)
PanicOnMissingAncestor(b) ==
    LET U == {b} \cup Unsuspended(b) IN
    /\ ~panicked
    /\ NextInBatch(b)
    /\ Connected(b)
    /\ \E c \in U : Lacks(c, MayBeNotFound(b, c, U), U)
    /\ Unsuspend(b, U)
    /\ panicked' = TRUE
    /\ UNCHANGED <<batch, missing_returned, dag, rejected, restarts>>

-----------------------------------------------------------------------------
(* Mutant: the blocks are written one by one, in any order. *)
FlushOne ==
    /\ ~panicked
    /\ batch = {}
    /\ \E b \in blocks_to_write : blocks_to_write' = blocks_to_write \ {b}
    /\ UNCHANGED <<batch, missing_returned, manager, recent_blocks, rejected,
                   panicked, restarts>>

(* DagState::flush writes the whole buffer in one batch.  Core flushes after *)
(* proposing or committing, never inside try_accept_blocks.                  *)
Flush ==
    /\ ~panicked
    /\ batch = {}
    /\ blocks_to_write # {}
    /\ blocks_to_write' = {}
    /\ UNCHANGED <<batch, missing_returned, manager, recent_blocks, rejected,
                   panicked, restarts>>

(* The process stops at any point and starts again: BlockManager::new is     *)
(* empty, and DagState::new finds what the store holds.                      *)
Restart ==
    /\ restarts < MaxRestarts
    /\ restarts' = restarts + 1
    /\ batch' = {}
    /\ missing_returned' = {}
    /\ suspended_blocks' = <<>>
    /\ missing_ancestors' = <<>>
    /\ missing_blocks' = {}
    /\ recent_blocks' = recent_blocks \ blocks_to_write
    /\ blocks_to_write' = {}
    /\ panicked' = FALSE
    /\ UNCHANGED rejected

Receive ==
    \E S \in SUBSET Blocks : Cardinality(S) \in 1..MaxBatch /\ StartBatch(S)

Next ==
    \/ Receive
    \/ \E b \in Blocks : SkipProcessed(b)
    \/ \E b \in Blocks : SuspendBlock(b)
    \/ \E b \in Blocks : AcceptBlock(b)
    \/ \E b \in Blocks : PanicOnMissingAncestor(b)
    \/ Flush
    \/ Restart

Spec == Init /\ [][Next]_vars

(* The call's loop always ends; the synchronizer keeps asking for what is    *)
(* missing until it is sent (synchronizer.rs, start_fetch_missing_blocks_    *)
(* task), and the core thread serves its queue in order.                     *)
Fairness ==
    /\ WF_vars(\E b \in Blocks : \/ SkipProcessed(b)
                               \/ SuspendBlock(b)
                               \/ AcceptBlock(b)
                               \/ PanicOnMissingAncestor(b))
    /\ \A b \in Blocks : SF_vars(b \in missing_blocks /\ StartBatch({b}))

FairSpec == Spec /\ Fairness

-----------------------------------------------------------------------------
(* The DAG holds a block only with its whole causal history, and so does the *)
(* store at every flush: a restart at any point finds a closed DAG           *)
(* (BlockManager's documentation, block_manager.rs:39).                      *)
CausallyClosed ==
    /\ \A b \in recent_blocks : AncestorsOf(b) \subseteq recent_blocks \cup Genesis
    /\ \A b \in recent_blocks \ blocks_to_write :
          AncestorsOf(b) \subseteq (recent_blocks \ blocks_to_write) \cup Genesis

(* Timestamps never decrease along an edge of the DAG: no block that fails   *)
(* check_ancestors is ever accepted, at whichever step of an unsuspension it *)
(* is verified (block_verifier.rs, check_ancestors).                         *)
TimestampsMonotone ==
    \A b \in recent_blocks : \A a \in AncestorsOf(b) : Timestamp[a] <= Timestamp[b]

(* suspended_blocks and missing_ancestors are inverse to each other: this is *)
(* what the expect and the assert of try_unsuspend_block rely on.            *)
MissingMapsAgree ==
    \A a, b \in Blocks :
        (b \in WaitersOf(a)) <=> (b \in Suspended /\ a \in suspended_blocks[b])

(* missing_blocks is what the synchronizer fetches: exactly the keys of      *)
(* missing_ancestors that are not suspended (block_manager.rs:57).           *)
MissingBlocksExact == missing_blocks = DOMAIN missing_ancestors \ Suspended

(* A suspended block waits for something that really is absent: its last     *)
(* missing ancestor never goes by without it being unsuspended.              *)
SuspendedWaits ==
    \A b \in Suspended :
        /\ suspended_blocks[b] # {}
        /\ suspended_blocks[b] \subseteq AncestorsOf(b) \ recent_blocks
        /\ b \notin recent_blocks

(* The three maps of the block manager are views of one relation, in spite   *)
(* of the many functions that update them.                                   *)
MapsAgree == MissingMapsAgree /\ MissingBlocksExact /\ SuspendedWaits

(* Suspended blocks never wait for each other only: as long as there is one, *)
(* there is a block to fetch.                                                *)
SomethingToFetch == Suspended # {} => missing_blocks # {}

(* What a call returns as missing is neither still to come in the call, nor  *)
(* suspended, nor accepted: the sort by round at its start sees to it that a *)
(* block the call was given is not asked for again.  The exception is one    *)
(* that check_ancestors refused in the same call, which is then in none of   *)
(* these sets, and is asked for when a later block of the call names it.     *)
ReturnedAreAbsent ==
    missing_returned \cap (batch \cup Suspended \cup recent_blocks) = {}

(* The panic on a missing ancestor (block_manager.rs:138) needs a block that *)
(* check_ancestors refused: as long as all blocks are valid, whatever the    *)
(* order and the batches in which they come, no unsuspended block lacks one. *)
PanicOnlyAfterRejection == panicked => rejected # {}

(* "Unsuspended block {:?} has a missing ancestor!" (block_manager.rs:138)   *)
(* is unreachable.                                                           *)
NoMissingAncestorPanic == ~panicked

(* A block leaves the DAG only by a restart that loses what no flush had     *)
(* written; nothing that was written is ever lost.                           *)
StoredIsKept ==
    [][recent_blocks \ blocks_to_write \subseteq recent_blocks' \ blocks_to_write']_vars

(* After the last restart a suspended block is eventually accepted, or       *)
(* rejected by check_ancestors, when the blocks asked for keep being sent    *)
(* and the process does not panic: no cascade of unsuspensions leaves a      *)
(* block behind.                                                             *)
SuspendedIsAccepted ==
    \A b \in Blocks :
        (restarts = MaxRestarts /\ b \in Suspended)
            ~> (b \in recent_blocks \cup rejected \/ panicked)
=============================================================================
