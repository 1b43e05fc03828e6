----------------------------- MODULE BlockTime -----------------------------
(***************************************************************************)
(* Timestamps and the clock of one authority (context.rs).  A block whose  *)
(* timestamp is ahead of the clock makes DagState::accept_block panic, and *)
(* an ancestor that is ahead fails an assertion in Core::try_new_block.    *)
(* Three ways lead into the DAG, and each holds back what is ahead:        *)
(* handle_send_block rejects or waits, the synchronizer drops, the commit  *)
(* syncer waits.  The clock does not go back while the program runs, but   *)
(* is taken from the system time at every start; Core::recover waits for   *)
(* it to pass the timestamps that were recovered.                          *)
(*                                                                         *)
(* A block is a record of its round, author, digest and timestamp.  What   *)
(* holds blocks back otherwise is in BlockManager, the rest of a proposal  *)
(* in Core.                                                                *)
(***************************************************************************)
EXTENDS ThresholdClock

CONSTANTS
    Own,           \* context.own_index
    OtherBlocks,   \* the blocks that the other authorities make
    OtherParents,  \* [OtherBlocks -> sets of blocks], genesis blocks left out
    Drift,         \* max_forward_time_drift
    Setback,       \* how far the system time may be set back at a restart
    MaxTime, MaxRestarts,  \* bounds
    MaxPending     \* bound: the blocks that come while others wait or are queued

VARIABLES
    now,        \* Clock::timestamp_utc_ms
    phase,      \* "recover", "run", or the panic that stopped the process:
                \* "refused" in accept_block, "failed" in try_new_block
    dag, stored,
    threshold,  \* ThresholdClock
    sleeping,   \* calls of handle_send_block that wait, with their end
    syncing,    \* the fetched blocks that the commit syncer waits for
    queued,     \* the blocks in add_blocks commands for the core thread
    included,   \* last_included_ancestors: their rounds, -1 for None
    links,      \* those of the last own block
    restarts

vars == <<now, phase, dag, stored, threshold, sleeping, syncing, queued, included, links,
          restarts>>

clock == <<now, phase, restarts>>
blocks == <<dag, stored, threshold>>
proposals == <<included, links>>

Genesis(a) == [round |-> 0, author |-> a, digest |-> 0, ts |-> 0]

NoneIncluded == [a \in Authorities |-> -1]

\* DagState::get_last_cached_block_per_authority: the last in order below a
\* round, the genesis block if there is none.
LastBlock(S, a, end) ==
    LET below == {b \in S \cup {Genesis(a)} : b.author = a /\ b.round < end}
    IN  CHOOSE b \in below :
            \A c \in below : \/ c.round < b.round
                             \/ c.round = b.round /\ c.digest <= b.digest

LastOwn == LastBlock(dag, Own, HighestAcceptedRound(dag) + 1)

Init ==
    /\ now = 0 /\ phase = "recover" /\ restarts = 0
    /\ dag = {} /\ stored = {} /\ threshold = ClockAddAll(0, GenesisBlocks)
    /\ sleeping = {} /\ syncing = {} /\ queued = {}
    /\ included = NoneIncluded /\ links = NoneIncluded

Tick ==
    /\ now < MaxTime
    /\ now' = now + 1
    /\ UNCHANGED <<phase, restarts, blocks, sleeping, syncing, queued, proposals>>

-----------------------------------------------------------------------------
(* The ways of a block to the core thread *)

MorePending == Cardinality(sleeping) + Cardinality(queued) < MaxPending

ForwardDrift(b) == IF b.ts > now THEN b.ts - now ELSE 0

\* Mutant: blocks within the drift are passed on without waiting.
HandleSendBlockAtOnce(b) ==
    /\ phase = "run" /\ MorePending
    /\ ForwardDrift(b) <= Drift
    /\ queued' = queued \cup {b}
    /\ UNCHANGED <<clock, blocks, sleeping, syncing, proposals>>

\* A block that is too far ahead is rejected; the others wait until the time
\* they bear.
HandleSendBlock(b) ==
    /\ phase = "run" /\ MorePending
    /\ ForwardDrift(b) <= Drift
    /\ sleeping' = sleeping \cup {[block |-> b, until |-> now + ForwardDrift(b)]}
    /\ UNCHANGED <<clock, blocks, syncing, queued, proposals>>

WakeUp(s) ==
    /\ phase = "run"
    /\ s.until <= now
    /\ sleeping' = sleeping \ {s}
    /\ queued' = queued \cup {s.block}
    /\ UNCHANGED <<clock, blocks, syncing, proposals>>

\* Synchronizer::verify_blocks leaves out a block that is ahead.
FetchBlock(b) ==
    /\ phase = "run" /\ MorePending
    /\ now >= b.ts
    /\ queued' = queued \cup {b}
    /\ UNCHANGED <<clock, blocks, sleeping, syncing, proposals>>

\* The commit syncer fetches the blocks of a certified commit: a block and
\* its ancestors.
SyncCommit(b) ==
    /\ phase = "run" /\ syncing = {} /\ MorePending
    /\ syncing' = {b} \cup OtherParents[b]
    /\ UNCHANGED <<clock, blocks, sleeping, queued, proposals>>

\* It waits for one after the other, however far ahead they are.
SyncWaited ==
    /\ phase = "run" /\ syncing # {}
    /\ \A b \in syncing : b.ts <= now
    /\ queued' = queued \cup syncing
    /\ syncing' = {}
    /\ UNCHANGED <<clock, blocks, sleeping, proposals>>

-----------------------------------------------------------------------------
(* The core thread *)

\* DagState::accept_block, once BlockManager has all the ancestors.
AcceptBlock(b) ==
    /\ phase = "run"
    /\ OtherParents[b] \subseteq dag
    /\ queued' = queued \ {b}
    /\ \/ b \in dag /\ UNCHANGED <<phase, dag, threshold>>
       \/ b \notin dag /\ b.ts > now /\ phase' = "refused" /\ UNCHANGED <<dag, threshold>>
       \/ /\ b \notin dag /\ b.ts <= now
          /\ dag' = dag \cup {b}
          /\ threshold' = ClockAdd(threshold, b)
          /\ UNCHANGED phase
    /\ UNCHANGED <<now, restarts, stored, sleeping, syncing, proposals>>

AncestorsToPropose ==
    {LastOwn} \cup {b \in {LastBlock(dag, a, threshold.round) : a \in Authorities \ {Own}} :
                        included[b.author] < b.round}

RoundsOf(P) == [a \in Authorities |-> Max({-1} \cup {p.round : p \in {q \in P : q.author = a}})]

NewBlock == [round |-> threshold.round, author |-> Own, digest |-> restarts, ts |-> now]

\* The rest of try_new_block, with its assertion on the ancestors and its
\* flush; the authority runs on, unless the assertion fails.
MakeBlock ==
    IF \E b \in AncestorsToPropose : b.ts > now
    THEN /\ phase' = "failed"
         /\ UNCHANGED <<blocks, proposals>>
    ELSE /\ dag' = dag \cup {NewBlock}
         /\ stored' = dag'
         /\ threshold' = ClockAdd(threshold, NewBlock)
         /\ links' = RoundsOf(AncestorsToPropose)
         /\ included' = [a \in Authorities |-> Max({included[a], links'[a]})]
         /\ phase' = "run"

\* After new blocks or a timeout.
TryNewBlock ==
    /\ phase = "run"
    /\ threshold.round > LastOwn.round
    /\ MakeBlock
    /\ UNCHANGED <<now, restarts, sleeping, syncing, queued>>

\* The flush of a commit.
Flush ==
    /\ phase = "run"
    /\ stored' = dag
    /\ UNCHANGED <<clock, dag, threshold, sleeping, syncing, queued, proposals>>

\* A crash, and the start of a new process with a clock of its own.
Restart ==
    /\ restarts < MaxRestarts
    /\ restarts' = restarts + 1
    /\ now' \in {t \in 0..now : t + Setback >= now}
    /\ phase' = "recover"
    /\ dag' = stored
    /\ threshold' = ClockAddAll(LastQuorumRound(stored), LastQuorum(stored))
    /\ sleeping' = {} /\ syncing' = {} /\ queued' = {}
    /\ included' = links
    /\ UNCHANGED <<stored, links>>

\* The timestamps of the last block of every authority.
RecoveredTimes == {LastBlock(dag, a, HighestAcceptedRound(dag) + 1).ts : a \in Authorities}

\* Core::recover waits until the clock has passed them, and makes a block if
\* there is none for the clock's round.
Recover ==
    /\ phase = "recover"
    /\ Max(RecoveredTimes) <= now
    /\ \/ threshold.round > LastOwn.round /\ MakeBlock
       \/ threshold.round <= LastOwn.round /\ phase' = "run" /\ UNCHANGED <<blocks, proposals>>
    /\ UNCHANGED <<now, restarts, sleeping, syncing, queued>>

Next ==
    \/ Tick \/ Restart \/ Recover
    \/ \E b \in OtherBlocks : HandleSendBlock(b) \/ FetchBlock(b) \/ SyncCommit(b)
    \/ \E s \in sleeping : WakeUp(s)
    \/ \E b \in queued : AcceptBlock(b)
    \/ SyncWaited \/ TryNewBlock \/ Flush

Spec == Init /\ [][Next]_vars

-----------------------------------------------------------------------------

\* A block that is followed by one of the same author with an earlier time, as
\* only an author of two chains can make them.
Overtaken(b) == \E c \in dag : c.author = b.author /\ c.round > b.round /\ c.ts < b.ts

\* The panic of accept_block ("cannot be accepted! Block timestamp is greater
\* than local timestamp") is not reached, whichever way blocks come and however
\* the system time is set back between two runs.  The assertion of try_new_block
\* ("Violation: ancestor block has timestamp greater than current timestamp")
\* fails at most after a restart, and of blocks only that recovery did not wait
\* for, since the last one of their author has an earlier time.
ClockPanicNeedsTwoChains ==
    /\ phase # "refused"
    /\ phase = "failed" =>
          restarts > 0 /\ \A b \in AncestorsToPropose : b.ts > now => Overtaken(b)

\* "Ensure local time is after max ancestor timestamp." (core.rs:145): after
\* recovery, as before, the assertion of try_new_block holds.
AncestorsAreNotAhead == phase # "failed"

=============================================================================
