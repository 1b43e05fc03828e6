-------------------------------- MODULE Core --------------------------------
(***************************************************************************)
(* The core thread of one authority (consensus/core/src/core.rs): accepted *)
(* blocks move the threshold clock (ThresholdClock), the clock and the     *)
(* leader timeout task (leader_timeout.rs) make it propose blocks, a       *)
(* proposed block is written to the store before it is broadcast, and      *)
(* Core::recover resumes from the store (dag_state.rs) after a crash.      *)
(*                                                                         *)
(* The core thread runs one command at a time.  A command is split into    *)
(* the steps between which a crash finds a different store: step says      *)
(* where it is.  What BlockManager holds back is module BlockManager; what *)
(* try_commit decides is module CommitRule, here only its flush is seen.   *)
(***************************************************************************)
EXTENDS ThresholdClock

CONSTANTS
    Own,          \* context.own_index
    Leader,       \* Leader[r]: the first leader of round r
    OtherBlocks,  \* the blocks that the other authorities make
    OtherParents, \* [OtherBlocks -> sets of blocks]: their ancestors
    MaxRestarts   \* bound on the number of crashes

\* The blocks that the others make have their signatures and passed
\* BlockVerifier::verify.
ASSUME BlocksAssumption ==
    /\ Own \in Authorities
    /\ IsFiniteSet(OtherBlocks)
    /\ OtherBlocks \subseteq [round : Nat, author : Authorities \ {Own}, digest : Nat]
    /\ \A b \in OtherBlocks : Verify(b, OtherParents[b])

ASSUME RestartsAssumption == MaxRestarts \in Nat

VARIABLES
    dag,              \* DagState: the accepted blocks
    stored,           \* the blocks in the store
    links,            \* the ancestors of every block this authority has made
    clock,            \* ThresholdClock: its round and its aggregator
    signal,           \* CoreSignals: the round last sent to new_round_sender
    last_proposed,    \* last_proposed_block
    last_included,    \* last_included_ancestors: their rounds, -1 for None
    step,             \* where the core thread is
    timer,            \* LeaderTimeoutTask: leader_round and what has timed out
    sent,             \* history: the blocks that were broadcast
    restarts

coreVars == <<dag, stored, links, clock, signal, last_proposed, last_included,
              step, timer, sent, restarts>>

memory == <<clock, signal, last_proposed, last_included>>

Genesis(a) == [round |-> 0, author |-> a, digest |-> 0]

OwnBlocks(S) == {b \in S : b.author = Own}

-----------------------------------------------------------------------------

\* The last block of an author below a round: the greatest reference.
LastBlock(S, a, end) ==
    LET below == {b \in S : b.author = a /\ b.round < end}
    IN  IF below = {} THEN Genesis(a)
        ELSE CHOOSE b \in below :
                 \A c \in below : c.round < b.round
                                  \/ (c.round = b.round /\ c.digest <= b.digest)

\* Core::new: the last block of this authority that the store has.
RecoveredProposed(S) == LastBlock(S, Own, HighestAcceptedRound(S) + 1)

IncludedRounds(P) ==
    [a \in Authorities |-> Max({-1} \cup {p.round : p \in {q \in P : q.author = a}})]

LinksOf(b) == IF b \in DOMAIN links THEN links[b] ELSE {}

Init ==
    /\ dag = {} /\ stored = {} /\ links = <<>> /\ sent = {} /\ restarts = 0
    /\ clock = ClockAddAll(0, GenesisBlocks)
    /\ signal = clock.round
    /\ last_proposed = Genesis(Own)
    /\ last_included = IncludedRounds({})
    /\ step = "recover"
    /\ timer = [round |-> signal, min |-> FALSE, max |-> FALSE]

-----------------------------------------------------------------------------

\* The ancestors of an accepted block.
ParentsOf(b) == IF b \in DOMAIN links THEN links[b] ELSE OtherParents[b]

\* Core::add_blocks: the blocks that BlockManager accepts, one after the other.
\* Besides blocks of others, peers may return any block that was broadcast to
\* them.  One that left by a stream before it was flushed, and was then lost in
\* a crash, may return too; it is in module Subscription and not here.
AddBlock(b) ==
    /\ step \in {"idle", "adding"}
    /\ b \in (OtherBlocks \cup sent) \ dag
    /\ ParentsOf(b) \subseteq dag \cup GenesisBlocks
    /\ dag' = dag \cup {b}
    /\ clock' = ClockAdd(clock, b)
    /\ step' = "adding"
    /\ UNCHANGED <<stored, links, signal, last_proposed, last_included, timer, sent, restarts>>

\* try_commit: a commit makes Linearizer::handle_commit flush the DAG state.
MayFlush == stored' \in {stored, dag}

\* The end of add_blocks' loop: the signal, the commit rule, then a proposal.
EndAdd ==
    /\ step = "adding"
    /\ signal' = clock.round
    /\ MayFlush
    /\ step' = "propose"
    /\ UNCHANGED <<dag, links, clock, last_proposed, last_included, timer, sent, restarts>>

\* Mutant: blocks of the round that is proposed are taken as ancestors.
AncestorsToProposeInclusive ==
    LET last == {LastBlock(dag, a, clock.round + 1) : a \in Authorities \ {Own}}
    IN  {last_proposed} \cup {b \in last : last_included[b.author] < b.round}

\* ancestors_to_propose: the last own block, and the last block of every other
\* authority below the clock's round that is newer than the one included last.
AncestorsToPropose ==
    LET last == {LastBlock(dag, a, clock.round) : a \in Authorities \ {Own}}
    IN  {last_proposed} \cup {b \in last : last_included[b.author] < b.round}

\* Neither a block of this round or a later one was made, nor is it forced to
\* wait: leaders_exist.  The minimum round delay may have passed or not.
MayPropose(force) ==
    /\ clock.round > last_proposed.round
    /\ \/ force
       \/ clock.round = 1
       \/ \E b \in dag : b.round = clock.round - 1 /\ b.author = Leader[clock.round - 1]

\* The digests of the blocks an authority makes differ, as their contents do.
NewRef == [round |-> clock.round, author |-> Own, digest |-> Cardinality(DOMAIN links)]

\* Mutant: only the new block is written.
TryNewBlockFlushOwn ==
    /\ links' = [b \in DOMAIN links \cup {NewRef} |->
                    IF b = NewRef THEN AncestorsToPropose ELSE links[b]]
    /\ dag' = dag \cup {NewRef}
    /\ clock' = ClockAdd(clock, NewRef)
    /\ signal' = clock'.round
    /\ stored' = stored \cup {NewRef}
    /\ last_proposed' = NewRef
    /\ last_included' = [a \in Authorities |->
                            Max({last_included[a], IncludedRounds(AncestorsToPropose)[a]})]

\* Mutant: the flush comes before the block is accepted.
TryNewBlockFlushFirst ==
    /\ links' = [b \in DOMAIN links \cup {NewRef} |->
                    IF b = NewRef THEN AncestorsToPropose ELSE links[b]]
    /\ dag' = dag \cup {NewRef}
    /\ clock' = ClockAdd(clock, NewRef)
    /\ signal' = clock'.round
    /\ stored' = dag
    /\ last_proposed' = NewRef
    /\ last_included' = [a \in Authorities |->
                            Max({last_included[a], IncludedRounds(AncestorsToPropose)[a]})]

\* try_new_block: the block is accepted, moves the clock and is flushed with
\* everything else that was not yet written.  A crash between the two leaves
\* the store as one before them does; what other threads may read from the
\* DAG state in between is in module Subscription.
TryNewBlock ==
    /\ links' = [b \in DOMAIN links \cup {NewRef} |->
                    IF b = NewRef THEN AncestorsToPropose ELSE links[b]]
    /\ dag' = dag \cup {NewRef}
    /\ clock' = ClockAdd(clock, NewRef)
    /\ signal' = clock'.round
    /\ stored' = dag'
    /\ last_proposed' = NewRef
    /\ last_included' = [a \in Authorities |->
                            Max({last_included[a], IncludedRounds(AncestorsToPropose)[a]})]

\* try_propose makes a block, which is then broadcast.
Propose ==
    /\ \/ step = "propose" /\ MayPropose(FALSE)
       \/ step \in {"force", "recover"} /\ MayPropose(TRUE)
    /\ TryNewBlock
    /\ step' = "broadcast"
    /\ UNCHANGED <<timer, sent, restarts>>

\* try_propose makes none: always when it may not, and while the minimum round
\* delay lasts if it is not forced.  recover then broadcasts the last one.
ProposeNothing ==
    /\ \/ step = "propose"
       \/ step \in {"force", "recover"} /\ ~MayPropose(TRUE)
    /\ step' = IF step = "recover" THEN "broadcast" ELSE "idle"
    /\ UNCHANGED <<dag, stored, links, memory, timer, sent, restarts>>

\* CoreSignals::new_block, and the commit rule after it.
Broadcast ==
    /\ step = "broadcast"
    /\ sent' = sent \cup {last_proposed}
    /\ MayFlush
    /\ step' = "idle"
    /\ UNCHANGED <<dag, links, memory, timer, restarts>>

\* Core::new_block, called with the round that the timer was set for.
NewBlock(force) ==
    step' = IF last_proposed.round < timer.round
            THEN (IF force THEN "force" ELSE "propose") ELSE "idle"

\* LeaderTimeoutTask::run: the minimum round delay is over.
MinTimeout ==
    /\ step = "idle"
    /\ ~timer.min
    /\ timer' = [timer EXCEPT !.min = TRUE]
    /\ NewBlock(FALSE)
    /\ UNCHANGED <<dag, stored, links, memory, sent, restarts>>

\* LeaderTimeoutTask::run: the leader timeout is over.
MaxTimeout ==
    /\ step = "idle"
    /\ ~timer.max
    /\ timer' = [timer EXCEPT !.max = TRUE]
    /\ NewBlock(TRUE)
    /\ UNCHANGED <<dag, stored, links, memory, sent, restarts>>

\* Mutant: the timeouts are not armed again.
NewRoundKeepsFlags ==
    /\ timer.round # signal
    /\ timer' = [timer EXCEPT !.round = signal]
    /\ UNCHANGED <<dag, stored, links, memory, step, sent, restarts>>

\* LeaderTimeoutTask::run: a new round was signalled; it may be more than one
\* round ahead, and the core may be in the middle of a command.
NewRound ==
    /\ timer.round # signal
    /\ timer' = [round |-> signal, min |-> FALSE, max |-> FALSE]
    /\ UNCHANGED <<dag, stored, links, memory, step, sent, restarts>>

\* Mutant: the last proposed block is not recovered.
RecoverForgets ==
    /\ last_proposed' = Genesis(Own)
    /\ last_included' = IncludedRounds({})
    /\ clock' = ClockAddAll(LastQuorumRound(stored), LastQuorum(stored))

\* Core::new and Core::recover: what is read from the store.
Recover ==
    /\ last_proposed' = RecoveredProposed(stored)
    /\ last_included' = IncludedRounds(LinksOf(last_proposed'))
    /\ clock' = ClockAddAll(LastQuorumRound(stored), LastQuorum(stored))

\* A crash at any point and a start: DagState::new, Core::new, recover and a new
\* LeaderTimeoutTask.
Restart ==
    /\ restarts < MaxRestarts
    /\ restarts' = restarts + 1
    /\ dag' = stored
    /\ Recover
    /\ signal' = clock'.round
    /\ step' = "recover"
    /\ timer' = [round |-> signal', min |-> FALSE, max |-> FALSE]
    /\ UNCHANGED <<stored, links, sent>>

Next ==
    \/ \E b \in OtherBlocks \cup sent : AddBlock(b)
    \/ EndAdd
    \/ Propose
    \/ ProposeNothing
    \/ Broadcast
    \/ MinTimeout
    \/ MaxTimeout
    \/ NewRound
    \/ Restart

Spec == Init /\ [][Next]_coreVars

\* The core thread finishes the command it is in, the leader timeout task sees
\* the new round, and its command gets through the queue of the core thread
\* although others do too.
Fairness ==
    /\ WF_coreVars(EndAdd \/ Propose \/ ProposeNothing \/ Broadcast)
    /\ WF_coreVars(NewRound)
    /\ SF_coreVars(MaxTimeout)

FairSpec == Spec /\ Fairness

-----------------------------------------------------------------------------

TypeOK ==
    /\ stored \subseteq dag
    /\ dag \subseteq OtherBlocks \cup DOMAIN links
    /\ sent \subseteq DOMAIN links
    /\ clock.round \in Nat /\ clock.votes \subseteq Authorities
    /\ signal \in 1..clock.round
    /\ timer \in [round : 1..signal, min : BOOLEAN, max : BOOLEAN]
    /\ step \in {"idle", "adding", "propose", "force", "recover", "broadcast"}
    /\ restarts \in 0..MaxRestarts

(***************************************************************************)
(* An authority never broadcasts two blocks of one round, whenever it      *)
(* crashes: "Ensure the new block and its ancestors are persisted, before  *)
(* broadcasting it." (core.rs:411).  This is said of what CoreSignals      *)
(* sends out (Broadcaster, and the streams that wait for it); what         *)
(* handle_subscribe_blocks reads from the DAG state is not covered, and    *)
(* OneBlockPerRound of module Subscription fails of it.                    *)
(***************************************************************************)
NoEquivocatingBroadcast ==
    \A b, c \in sent : b.round = c.round => b = c

(***************************************************************************)
(* DagState::accept_block does not reject a block of this authority        *)
(* ("Attempted to add block {block:#?} to own slot", dag_state.rs:207):    *)
(* the slot to propose for is free, also after a restart and although      *)
(* peers return what was broadcast to them.  A block that left before it   *)
(* was flushed is not among the blocks that return here.                   *)
(***************************************************************************)
OwnSlotIsFree ==
    clock.round > last_proposed.round => AtRound(OwnBlocks(dag), clock.round) = {}

(***************************************************************************)
(* "Unnecessary to verify own blocks." (core.rs:398): every block that the *)
(* core makes passes SignedBlockVerifier::verify at the other authorities, *)
(* among it the quorum that ancestors_to_propose asserts.                  *)
(***************************************************************************)
OwnBlocksVerify ==
    \A b \in DOMAIN links : Verify(b, links[b])

(***************************************************************************)
(* What an authority sends can be fetched from it, also after a crash: the *)
(* ancestors of a block are in the store before the block is broadcast.    *)
(***************************************************************************)
AncestorsAreStored ==
    \A b \in sent : links[b] \subseteq stored \cup GenesisBlocks

(***************************************************************************)
(* The clock is past every round of which a quorum is accepted: "We have   *)
(* seen 2f+1 blocks for current round, advance" (threshold_clock.rs), "to  *)
(* correctly advance the threshold clock" (core.rs:165).                   *)
(***************************************************************************)
QuorumAdvancesClock ==
    \A b \in dag : IsQuorum(AuthorsOf(AtRound(dag, b.round))) => clock.round > b.round

(***************************************************************************)
(* The authority has made a block of the clock's round, or of a later one, *)
(* in the end, although leaders are missing and timers are reset whenever  *)
(* the round changes.  It is said of the time after the last restart: one  *)
(* may set the clock back.                                                 *)
(***************************************************************************)
ProposesEveryRound ==
    \A r \in {b.round : b \in OtherBlocks} :
        (restarts = MaxRestarts /\ clock.round >= r) ~> (\E b \in sent : b.round >= r)
=============================================================================
