# The consensus core and the transaction manager in TLA+

This directory is a verification development of the DAG consensus under
`consensus/` (crates `consensus/core` and `consensus/config`) and of the
transaction manager of `crates/sui-core`. An authority of the committee makes
one block per round that names blocks of lower rounds as its ancestors. The
blocks form a DAG, and every authority reads the order of the transactions off
its copy of the DAG with a commit rule, without further votes. The ordered
transactions are executed as soon as their inputs are there.

The project consists of TLA+ modules for the parts of that system, TLC
configurations that check them on small instances, and TLAPS proofs of their
safety properties for every value of the constants. `PROJECT.json` lists the
parts, the runs with their mutants, the theorems, the hazards, the findings and
the source lines that each definition stands for.

    tlc -config Committing.cfg MCCommitting     one run
    tlapm CoreProofs.tla                        the proofs of one module

1. The system and its parts - 2. Modules - 3. Runs - 4. Theorems -
5. Findings - 6. What is only model-checked - 7. What is not modelled

## 1. The system and its parts

Paths are relative to `consensus/core/src/` unless they begin with a crate.

| Part | Source | Modules |
|---|---|---|
| committee, stake | `consensus/config/src/committee.rs`, `stake_aggregator.rs` | `Committee` |
| block verification | `block_verifier.rs` | `BlockVerifier`, `BlockManager` |
| block manager | `block_manager.rs` | `BlockManager` |
| DAG state | `dag_state.rs` | `BlockManager`, `ThresholdClock`, `Dag`, `Core`, `CommitPath`, `Subscription` |
| commit rule | `base_committer.rs`, `universal_committer.rs` | `CommitRule`, `Dag`, `CommitPath` |
| core, leader timeout | `core.rs`, `core_thread.rs`, `leader_timeout.rs` | `Core`, `CommitPath`, `BlockTime` |
| threshold clock | `threshold_clock.rs` | `ThresholdClock`, used by `Core` and `BlockTime` |
| leader schedule, scoring | `leader_schedule.rs`, `leader_scoring.rs`, `leader_scoring_strategy.rs` | `LeaderSchedule`, `CommitPath` |
| linearizer, commit observer | `linearizer.rs`, `commit_observer.rs`, `commit.rs` | `CommitPath`, `CommitLog` |
| commit syncer | `commit_syncer.rs` | `CommitSyncer` |
| synchronizer | `synchronizer.rs` | `Synchronizer` |
| authority service | `authority_service.rs` | `CommitSyncer`, `Synchronizer`, `Subscription`, `BlockTime` |
| transaction client and consumer | `transaction.rs` | `TransactionConsumer` |
| clock and timestamps | `context.rs` and its users | `BlockTime` |
| subscriber, broadcaster | `subscriber.rs`, `broadcaster.rs` | `Subscription`, `Broadcaster`, `BroadcastChannel`, `Dissemination` |
| transaction manager, execution driver | `crates/sui-core/src/transaction_manager.rs`, `execution_driver.rs` | `TransactionManager` |

How they interact. Blocks come from the network (streams that a peer subscribes
to, or pushes), are verified, held back until the time they bear, and passed to
the core thread, which owns the consensus state and runs one command at a time.
The block manager accepts those with a complete history into the DAG state and
reports what is missing; the synchronizer fetches that. The threshold clock
counts accepted blocks; the leader timeout task runs beside the core and forces
blocks. `try_commit` runs the commit rule over the DAG, turns each committed
leader into a commit (a sub-DAG), writes it and sends it to the consumer, and
changes the leader schedule every so many commits. A new own block takes
transactions from the consumer's channel, is written, and is then broadcast. An
authority that is far behind refuses blocks and catches up with the commit
syncer instead. Everything persistent is written by `DagState::flush`, in one
batch, so that a crash finds the store as one of the flushes left it.

## 2. Modules

`BlockVerifier` extends `Committee`; `CommitRule`, `ThresholdClock` and
`LeaderSchedule` extend `BlockVerifier`; `Dag` extends `CommitRule`; `Core` and
`BlockTime` extend `ThresholdClock`; `CommitPath` extends `LeaderSchedule` and
instantiates `CommitRule`. `Subscription` and `Broadcaster` extend
`BroadcastChannel`, and `Dissemination` composes the two.

The `MC` modules give the constants of an instance. Three of them hold several
modules that describe one side of an authority without sharing state; a
behaviour is one of the part it starts with (variable `part`):

| `MC` module | Parts |
|---|---|
| `MCBlockManager` | `BlockManager` |
| `MCProposing` | `Core`, `TransactionConsumer`, `BlockTime` |
| `MCCommitting` | `Dag`, `CommitPath` |
| `MCCommitSyncer` | `CommitSyncer` |
| `MCBlockExchange` | `Synchronizer`, `Dissemination` |
| `MCTransactionManager` | `TransactionManager` |

A module ending in `Proofs` extends the one it is about; `AgreementProofs`
continues `DagProofs`.

**BlockManager.** A block is a reference; it contains the digest, so its
ancestors, round and timestamp are constants. The variables have the names of
the fields. `Receive` is the entry of `try_accept_blocks`; each turn of its loop
is `SkipProcessed`, `SuspendBlock`, `AcceptBlock` or `PanicOnMissingAncestor`.
`AcceptBlock` includes the release of children
(`try_unsuspend_children_blocks`), their verification and the acceptance into
the DAG state; worklist and pass are modelled by their results, the least sets
closed under the rules that the loops apply. The pass finds an ancestor in the
DAG or among the blocks that came before it in the worklist; where the order of
the worklist is open, an ancestor that may come later may be found or not
(`MayBeNotFound`), and both outcomes are steps. `Flush` writes the buffer,
`Restart` loses all that is not written.

**CommitRule, Dag.** The rule is a function of a view (the blocks an authority
has accepted) and of the elected leaders. The core uses the pipelined committer
with one leader per round: the leader of round `r` has its votes in `r + 1` and
its decision in `r + 2`. `LeaderStatuses` is the loop of `try_decide`, from the
top round down; the status of a round depends on those above it only, so the
stop at the last decided slot is left to `CommitPath`. `find_supported_block`
recurses through the ancestors between the leader's round and the voter's; with
voters of round `r + 1` it never goes a second step, and `IsVote` is membership
of the leader in the ancestors. `Dag` adds verified blocks one at a time.
Correct authors make one block per round, which is what `Core` shows of them;
Byzantine ones make any number. A view is a causally closed subset, which is
what `BlockManager` shows of an authority's DAG.

**ThresholdClock.** The round and the aggregator, and what they are rebuilt from
at a start: the blocks of `last_quorum`, and no others.

**Core.** A command of the core thread is split into the steps between which a
crash finds a different store: `AddBlock`, `EndAdd`, `Propose` or
`ProposeNothing`, `Broadcast`. Peers send blocks of others and also return the
own blocks that were broadcast to them. `Propose` is one step from the choice of
ancestors to the flush, since what precedes the flush is in memory only. Other
threads can see the new block between acceptance (`core.rs:402`) and flush
(`core.rs:412`); that is in `Subscription`, and `sent` in `Core` is what is
broadcast through `CoreSignals`. A block that a stream showed before its flush,
that a crash lost and that a peer returns is not among the blocks `Core` adds.
Timers expire in any order. `try_commit` is seen through the flush that it may
make.

**LeaderSchedule, CommitPath.** The DAG there is in the end is a constant, and
the authority accepts it in batches (`AddBlocks`). The loop of `try_commit` is
`UpdateLeaderSchedule`, `Decide`, `Linearize`, `SendCommits`: the boundaries are
where a crash finds a different store or the consumer can run. `FlushOnPropose`
is the flush of a proposal. `Execute` and `Ignore` are the consumer
(`ConsensusHandler`), which ignores a commit whose leader round is not above the
last. `Restart` rebuilds the watermarks, the unscored sub-DAGs and the table
from the last commit info and the commits after it, and sends again what the
consumer has not processed. Seeded random choices are constant functions of the
seed. Scoring may be on or off, as the protocol configuration says.

**CommitLog** is the abstract specification: one sequence of commits, a log
that grows along it, and a delivery that goes through the log in order, without
a gap, and after a restart from the commit after the last executed one. It lets
the consumer pass over a commit; when it may is a property of its own
(`OnlyRepeatedIsIgnored`).

**CommitSyncer.** The vote monitor (`ReceiveBlock`), the schedule loop (`Tick`,
`Join`, `Send`, `EndDrain`), the fetch tasks with the pool of authorities
(`FetchStep`, `Elapse`), and the commits of the core itself
(`CommitReceived`, `CommitSynced`). A Byzantine peer answers anything of a given
set, with the votes it can get signed.

**Synchronizer.** A request is identified with its `BlocksGuard`. Live requests:
`FetchBlocks`, `StartRequest`, `Answer`, `Fail`, `ProcessLive`, `RetryLive`. The
scheduler: `StartFetchMissingBlocks`, `SendInitial`, `KeepResult`, `Unswap` and
`Relock` (the two critical sections of `swap_locks`), `ProcessResult`,
`FetcherTimeout`, `EndRun`. `Expected` is the check of what a peer returns: too
many blocks, or one that was neither asked for nor is an ancestor of one that
was, discard the whole answer. The call of `add_blocks` and the drop of the
guard are one step.

**TransactionConsumer.** Batches in a bounded channel, `HandleTxs` splits them
over blocks, acknowledgements follow the write, `Shutdown` drops the rest.

**BlockTime.** The clock does not go back in a process and is taken from the
system time at a start; three ways lead into the DAG (`HandleSendBlock`,
`FetchBlock`, `SyncCommit`), each with its own check against the clock. The two
panics on timestamps are states (`phase`) of their own.

**Subscription, Broadcaster, Dissemination.** The broadcast channel is the
sequence of all that was sent, with lag. `Subscription` has the sender's core
thread in its steps (`Accept`, `Flush`, `NewBlock`, `Commit`, `Recover`), the
stream (`ReadCached`, `Resubscribe`, `Yield...`) and the receiver's loop.
`Broadcaster` is a `push_blocks` task; what a peer refuses counts as delivered. `Dissemination` chooses one of them, as
`AuthorityNode::start` does.

**TransactionManager.** `enqueue` in its three critical parts (`CheckCache`,
`ReadStore`, `Enqueue`), by several threads; the driver (`Execute`); commit and
notice (`CommitOutputs`, `NotifyCommit`); the table of pending transactions
(`RemovePending`); `Reconfigure`; `Restart`. Effects are in the write-back cache
first and on disk once their checkpoint has been executed. `Reconfigure` is one
step from the clearing of the state to `transaction_manager.reconfigure`: the
execution lock is held in between.

## 3. Runs

| Run | Module, config | Question | Properties |
|---|---|---|---|
| `block_manager` | `MCBlockManager`, `BlockManager.cfg` | blocks in any order and in batches, a refused one, a crash | `TypeOK`, `CausallyClosed`, `SomethingToFetch`, `MapsAgree`, `ReturnedAreAbsent`, `PanicOnlyAfterRejection`, `SuspendedIsAccepted` |
| `proposing` | `MCProposing`, `Proposing.cfg` | the proposals of an authority with timeouts and a crash at any point; their transactions; their time | `NoEquivocatingBroadcast`, `OwnSlotIsFree`, `OwnBlocksVerify`, `AncestorsAreStored`, `ProposesEveryRound`; `AcknowledgedIsWritten`, `TransactionsAreKept`, `SubmittedIsAnswered`; `ClockPanicNeedsTwoChains` |
| `committing` | `MCCommitting`, `Committing.cfg` | one Byzantine authority in four: do all views agree, for good? One DAG in many batches, schedule changes, two crashes: one sequence of commits? | `OneCertifiedLeader`, `ViewsAgree`, `DecisionsAreFinal`, `EquivocatedLeaderGetsDecided`; `BlocksCommittedOnce`, `NoCorrectBlockIsPassedOver`, `ScoresCoverCommits`, `ScheduleFollowsCommits`, `ImplementsCommitLog`, `CommitsReachConsumer` |
| `commit_syncer` | `MCCommitSyncer`, `CommitSyncer.cfg` | partial, wrong and unordered answers | `NoCommitIsForgotten`, `SyncedWithoutGap`, `FetchedAreCertified`, `CatchesUp`, `AcceptsAgain` |
| `block_exchange` | `MCBlockExchange`, `BlockExchange.cfg` | live and scheduled requests over one map of locks; own blocks on their way to a peer | `LocksMatchGuards`, `MissingArrives`; `StreamHasNoGap`, `OwnBlocksArrive` |
| `transaction_manager` | `MCTransactionManager`, `TransactionManager.cfg` | concurrent `enqueue`, notices, epochs, crashes | `MapsAgree`, `ExecutingIsTracked`, `ReadyHasInputs`, `LostOnlyWhenLowered`, `SequencedIsExecuted` |

Six runs show that the code does not do what a comment of it says; TLC reports
the property as violated (section 5):

| Run | Module, config | Finding | Property |
|---|---|---|---|
| `block_manager_panic` | `MCBlockManager`, `BlockManagerPanic.cfg` | 1 | `NoMissingAncestorPanic` |
| `core_recover` | `MCProposing`, `CoreRecover.cfg` | 2 | `QuorumAdvancesClock` |
| `subscription_early` | `Subscription`, `SubscriptionEarly.cfg` | 3 | `OneBlockPerRound` |
| `clock_setback` | `MCProposing`, `ClockSetBack.cfg` | 4 | `AncestorsAreNotAhead` |
| `second_leader` | `MCCommitting`, `SecondLeader.cfg` | 5 | `OnlyRepeatedIsIgnored` |
| `lost_wakeup` | `MCTransactionManager`, `LostWakeup.cfg` | 6 | `NoLostWakeup` |

The first group of runs states what is left when these cases are set apart:
`block_manager` reaches the missing-ancestor panic, and shows that it needs a
refused block; `proposing` reaches the assertion on timestamps, and shows that
it needs a restart and an author of two chains; `committing` has the second
commit of a round, and shows that it is delivered as any other;
`transaction_manager` loses wakeups, and shows that this needs an eviction
followed by the notice of an older version.

Every property of a passing run has a mutant: a definition with a plausible bug
(its comment begins with "Mutant") that makes TLC report that property. The
properties are stated, with the code behaviour they are about, where they are
defined.

### Bounds

- `MCBlockManager`: six blocks, batches of at most two, one crash: a block with
  two missing ancestors that arrive separately, chains of suspended blocks, a
  batch with a block and its ancestor, weak links, a rejected block with a child
  and a grandchild.
- `MCProposing`. `Core`: four authorities of equal stake, two rounds of blocks of
  the others (three in `core_recover`), an equivocation, a leader that may be
  missing, one crash. `TransactionConsumer`: five batches (one split in the
  middle, one as large as a block, an empty one, one refused), a channel of two.
  `BlockTime`: times up to 2, a drift of 1, a setback of 2, one restart, an author
  of two chains, one block waiting or queued at a time (`MaxPending`).
- `MCCommitting`. `Dag`: four authorities of equal stake, one Byzantine, up to
  nine rounds. All DAGs are out of reach; there are three scenarios in which some
  blocks choose their links freely and the others link as when messages arrive in
  time: an equivocating leader, an equivocating voter, and a slot that is decided
  through anchors which are themselves skipped, undecided or committed later.
  `CommitPath`: nine rounds, a schedule of two commits, two crashes, with and
  without scoring; skipped leaders, a late and equivocating author, and a round
  that a change of the schedule gives a second leader. The correct authors link
  the whole previous round, so that links that skip rounds are few.
- `MCCommitSyncer`: four commits, batches of two, two tasks; a complete, a
  lagging and a Byzantine peer. Five commits with a failing correct peer
  (337,444 states) hold, too.
- `MCBlockExchange`. `Synchronizer`: four blocks and one that nobody needs, one
  block per fetch and at most one more in an answer, two peers, two per block and
  per run, one failure of a correct peer. With two peers the limit of two per
  block never binds; `LocksAlwaysMatchGuards` proves it for every number.
  `Dissemination`: a channel of one, one cached round, two rounds, two faults, two
  requests at a time, four broadcasts, two crashes. The safety of streams holds
  with three rounds (4.58 million states), too.
- `MCTransactionManager`: a chain of three transactions, a cache of one entry,
  two threads, two epochs, one crash, three submissions. A chain of four
  (282,445 states) holds, too.

`CHECK_DEADLOCK FALSE` is set in the configurations where the finite universe of
blocks, batches, commits or transactions runs out, or where a process that
panicked has no restart left. The weak and strong fairness below says what goes
on while there is something to do.

### Fairness

- `BlockManager`: the loop of a call goes on (weak), and a block in
  `missing_blocks` is sent sooner or later (strong): the synchronizer asks for it
  as long as it is missing, and the core thread serves its queue in order.
- `Dag`: correct authorities go on making blocks (weak): the leader timeout
  forces one in every round.
- `Core`: the core thread finishes its command and the timeout task sees a new
  round (weak); the command of an expired leader timeout is served although
  others are, too (strong): the queue is served in order.
- `TransactionConsumer`: own blocks are made again and again (weak), as `Core`
  shows.
- `BlockTime`: none, its properties are safety properties.
- `CommitPath`: the loop of `try_commit` goes on, the consumer receives, and
  each batch that is not accepted is delivered (weak).
- `CommitSyncer`: ticks, joins, tasks and delays go on, and the core commits
  what was synced (weak). Nothing is assumed of the blocks that others send.
- `Synchronizer`: every task goes on and every request ends, if only by its
  timeout (weak); for a chunk with a block, a correct peer that has it is drawn
  again and again (strong): the shuffle is random. `MissingArrives` supposes
  fewer Byzantine peers than the peers that may be asked for a block at a time.
- `Dissemination`: the core thread, the loops of both sides and the peer's
  flushes go on, and a request that is sent again and again is answered (weak).
- `TransactionManager`: each thread and the driver go on (weak).

## 4. Theorems

TLAPS checks all of them; nothing is taken on trust beyond the named
assumptions, which TLC evaluates on the runs of the modules that state them.

**Assumptions.** `Committee`: a finite committee with stake
(`CommitteeAssumption`), stake is additive (`StakeIsAdditive`, a fact about
finite sums that would need induction over sets) and less than a third of it is
Byzantine (`BftAssumption`). `BlockManager`: types, and ancestors are of lower
rounds, which `verify` ensures (`RoundAssumption`). `Core`: the blocks of the
others are verified and have other authors (`BlocksAssumption`). `Dag`: types.
`CommitSyncer`: correct authorities vote for one chain (`ChainAssumption`,
`AnswersAssumption`; the run `committing` checks that they make the same
commits), and what is left over of whole batches is within the tolerated lag
(`LagAssumption`). `Synchronizer`: types and limits that are not zero; nothing is
assumed of the number of peers. `TransactionManager`: one version per object among
the inputs of a transaction, and versions grow along dependencies
(`KeysAssumption`, `VersionsAssumption`). `LeaderSchedule`, which no theorem is
about: the threshold is at most 33, as `new_inner` requires.

**BlockManagerProofs.** The inductive invariant `IInv` is the conjunction of the
checked invariants with two more: every ancestor of a suspended block is in the
DAG, in its missing set, or was rejected (`AncestorsAccounted`), without which a
released block could not be shown to be connected; and what a call is to return
is of lower rounds than what is left of its batch (`ReturnedBelowBatch`), which
is why the batch is sorted. From it: `DagIsCausallyClosed`,
`AlwaysSomethingToFetch` (of the suspended blocks take one of lowest round: what
it waits for is not suspended), `PanicNeedsRejection`, `TimestampsAreMonotone`,
`MapsAlwaysAgree`, `TypesAreKept`, `ReturnedBlocksAreAbsent` (what a call returns
as missing is not waiting in its batch, not suspended and not in the DAG; a block
of the batch that was refused may be returned) and the action property
`StoredBlocksAreKept`.

**DagProofs.** `DagInvariant`: blocks are verified, histories are closed and
transitive, correct authors have one block per round. Two quorums meet in a
correct authority; this gives `OneCertifiedLeaderAlways`, `BlameIsFinal` and
`SupportIsInherited`.

**AgreementProofs.** `Agreement`: any two views of a reachable DAG agree on
every slot that both decide, whatever leaders a schedule elects; `AuthorsAgree`
is the case of the views of authors, `Finality` the action property that a
decision survives every step. The argument goes down from the top, as the loop
does: of all rounds whose decision is not kept in a larger view take the
highest. Its anchor is kept; what the anchor says is read off its history, which
both views contain, and cannot contradict a direct decision by the three facts
above. Two arbitrary views are compared with their union.

**CoreProofs.** `CoreInv`: the own blocks are written, one per round, and the last
is `last_proposed`; store and DAG are closed, every own block verifies, the clock
is founded on a quorum of the round below, and what was included is older than
the last proposal. From it: `BroadcastNeverEquivocates`, which speaks of what is
announced through `CoreSignals` and not of streams (finding 3);
`OwnSlotIsAlwaysFree`, for own blocks that are proposed or come back after their
broadcast, and not for one that a stream showed before its flush;
`OwnBlocksAlwaysVerify`, `AncestorsAreAlwaysStored`, `LastQuorumIsAlwaysFound`.

**TransactionManagerProofs.** `TMInv`: the maps are views of one relation; the
cache says what the store says except where a notice is due; what a call has
read between its locks stays covered by the cache or by a notice to come. From
it: `MapsAlwaysAgree`, `ExecutingIsAlwaysTracked`, `ReadyAlwaysHasInputs`,
`WakeupsAreLostOnlyWhenLowered`, with the exception that is finding 6.

**SynchronizerProofs.** `SyncInv`: locks and guards agree; what a guard holds is
an ancestor of a block at hand; with at least `MAX_PEERS` peers a run has a peer
for each chunk it has left. From it: `LocksAlwaysMatchGuards`,
`OnlyNeededBlocksArrive`, `EveryChunkAlwaysHasAPeer`. The last one supposes at
least `MAX_PEERS` (3) other authorities. In a smaller committee the `expect` of
`fetch_blocks_from_authorities` (`synchronizer.rs:716`) fails when there are more
chunks than peers.

**CommitSyncerProofs.** `SyncerInv`: the ranges are disjoint and cover what is
scheduled and not synced; a fetched range is part of the chain; an authority is
in the pool or with one task. From it: `CommitsAreNeverForgotten`,
`AlwaysSyncedWithoutGap`, `FetchedAreAlwaysCertified`,
`AuthoritiesAreAlwaysKept`.

## 5. Findings

1. `block_manager.rs:138`. A block is removed from the missing sets of its
   children (line 108) before it is verified against its ancestors (line 140).
   If it is rejected, nothing remembers it in later iterations: a child that
   waits for another ancestor is released when that arrives and reaches
   `panic!("Unsuspended block {:?} has a missing ancestor! ...")`. Within one
   pass the case is handled ("If an ancestor is already rejected, reject this
   block as well", line 133). `PanicNeedsRejection` proves that nothing else
   leads there.
2. `core.rs:165`. Recovery feeds the threshold clock with the blocks of the last
   quorum only. Blocks of the next round that are already in the DAG are not
   counted again, and the quorum that they complete with later blocks does not
   advance the clock. A further block of that round, or of a later one, does.
   `ProposesEveryRound` holds in the run `proposing` nevertheless.
3. `authority_service.rs:235`. A subscription is answered with cached own blocks,
   and `try_new_block` caches a new block (`core.rs:402`) before it flushes it
   (`core.rs:412`). A block sent in between is gone after a crash, and another
   one is made for its round, although "Ensure the new block and its ancestors
   are persisted, before broadcasting it" (`core.rs:411`).
   `NoEquivocatingBroadcast` is about the blocks that are announced through
   `CoreSignals`, for which it is proved.
4. `core.rs:149`. Recovery waits for the timestamp of the last block of each
   author, to "Ensure local time is after max ancestor timestamp" (line 145). The
   ancestors of a proposal are the last blocks below its round (line 559), and of
   an author of two chains that may be an earlier block with a later time. If the
   system time was set back between two runs, the assertion at line 361 stops the
   node. `ClockPanicNeedsTwoChains` checks that nothing else leads there, and that
   the panic of `accept_block` is not reached at all.
5. `universal_committer.rs:58`. The search stops at the slot of the last decided
   leader. After a change of the schedule that round may have another leader,
   whose slot is not the one to stop at, and which is then committed after the
   first. `consensus_handler.rs:236-246` compares rounds and ignores the second
   commit, with the comment "we can receive the same commit twice after restart":
   it is a new commit, whose blocks the linearizer marks as committed and no other
   commit brings. The sequence is still the same for all authorities
   (`ImplementsCommitLog`, `ScheduleFollowsCommits`), so that they all leave out
   the same blocks.
6. `transaction_manager.rs:133`. The cache answers for an object by the highest
   version it knows, which should not decrease ("This should not be possible
   unless bugs are introduced elsewhere in this module"). A notice of an older
   version that comes after the entry of the newer one was evicted lowers it, and
   a transaction then waits for a notice that was given. `LostOnlyWhenLowered` is
   proved: nothing else loses a wakeup.

What the models show besides, and no run states:

- `synchronizer.rs:613`. A live request that times out is tried again without
  being counted as a retry and keeps its locks. Two faulty peers that only time
  out can hold both locks of a block; `MissingArrives` leaves this out.
- `leader_schedule.rs:390`. A top scorer with more stake than the threshold leaves
  the list of good nodes empty, as lines 420-423 say, and the `expect` fails at
  the next bad leader. The instances have equal stakes. (Sui caps the voting power
  of a validator at a tenth, if there are enough of them, and sets the threshold
  to a fifth.)
- `transaction.rs:24` and `194`. A guard that is dropped is to mean that its
  transactions are in no block. When the node stops while a batch is half
  written, its first transactions are in a block all the same.
  `TransactionsAreKept` and `AcknowledgedIsWritten` speak of batches that wait or
  were acknowledged.

## 6. What is only model-checked

- Liveness, which is out of the prover's reach: `SuspendedIsAccepted`,
  `EquivocatedLeaderGetsDecided`, `ProposesEveryRound`, `CommitsReachConsumer`,
  `CatchesUp`, `AcceptsAgain`, `MissingArrives`, `SubmittedIsAnswered`,
  `OwnBlocksArrive`, `SequencedIsExecuted`.
- `BlocksCommittedOnce`, `NoCorrectBlockIsPassedOver`, `ScoresCoverCommits`,
  `ScheduleFollowsCommits` and the refinement `ImplementsCommitLog`: sub-dags,
  watermarks and scores are computed by folds, and what a fold computes for every
  DAG is out of the prover's reach. The sequence that the commits are compared
  with is computed from the complete DAG (`Canonical` in `MCCommitting`).
- `AcknowledgedIsWritten`, `TransactionsAreKept` (sequences split by folds),
  `ClockPanicNeedsTwoChains` and `StreamHasNoGap`: no theorem states them.

## 7. What is not modelled

Signatures, hashing, serialization, sizes of blocks and epochs in block
verification; transport and the storage engine (delay, loss and reordering are
in the modules, a flush is one atomic batch); metrics, configuration and errors;
the eviction of cached blocks of others, which are then read from the store; the
commit votes that an own block carries; scoring strategies other than the vote
strategy, which is the default; several leaders per round or a wave length other
than three, which the core does not configure; the order of shutdown; the
back-pressure statistics of the transaction manager and the driver's panic after
ten failed attempts. Of `sui-core`, only the rule by which `ConsensusHandler`
executes or ignores a commit and what the transaction manager needs of
`AuthorityState` and the write-back cache. Narwhal, the Move VM and execution
layer, the bridge, indexers, RPC, wallet and tools are out of scope.
