---------------------------- MODULE Subscription ----------------------------
(***************************************************************************)
(* The stream of own blocks from one authority, the sender, to another.    *)
(* The receiver's subscription_loop (subscriber.rs) asks for a stream and  *)
(* asks again when it ends; the sender's handle_subscribe_blocks           *)
(* (authority_service.rs) answers with the blocks that DagState has in its *)
(* cache, followed by those announced on the broadcast channel; meanwhile  *)
(* the sender's core thread proposes (core.rs), flushes and evicts         *)
(* (dag_state.rs).                                                         *)
(*                                                                         *)
(* DagState is behind a lock: what takes it for writing excludes the       *)
(* reader.  A block is its round and the number of restarts of the sender  *)
(* when it was made: a block that is made again differs in its timestamp.  *)
(***************************************************************************)
EXTENDS BroadcastChannel, SequencesExt

CONSTANTS
    CachedRounds,      \* dag_state_cached_rounds
    MaxRound,          \* bound: the rounds of the own blocks
    MaxFaults          \* bound: crashes, failed and broken connections

VARIABLES
    cached,      \* the sender's recent_refs of its own blocks
    stored,      \* the own blocks in the sender's store
    committed,   \* last_committed_rounds of the sender itself
    step,        \* of Core: "idle", "accepted", "flushed" or "recover"
    log,         \* the broadcast channel
    restarts,    \* of the sender
    reader,      \* whether handle_subscribe_blocks holds the read lock
    missed,      \* missed_blocks: the rest of the cached blocks to yield
    pos,         \* broadcasted_blocks: its place in the channel
    seen,        \* history: the blocks that this stream yielded or lagged past
    subscription,       \* of subscription_loop: "retry", "asked", "reading" or "on"
    from,        \* last_received
    got,         \* the sender's blocks in the receiver's DagState
    kept,        \* those in the receiver's store
    rejected,    \* history: the blocks that handle_send_block refused
    sent,        \* history: the blocks that were yielded by any stream
    early,       \* history: those read from the cache before their flush
    faults

core == <<cached, stored, committed, step, log, restarts>>
stream == <<missed, pos, seen>>
loop == <<subscription, from>>
receiver == <<got, kept, rejected>>
history == <<sent, early>>
vars == <<core, reader, stream, loop, receiver, history, faults>>

Round(b) == b[1]
Rounds(S) == {Round(b) : b \in S}
HighestRound(S) == Max(Rounds(S) \cup {0})

Init ==
    /\ cached = {} /\ stored = {} /\ committed = 0 /\ step = "idle"
    /\ log = <<>> /\ restarts = 0 /\ reader = FALSE
    /\ missed = <<>> /\ pos = 0 /\ seen = {}
    /\ subscription = "retry" /\ from = 0
    /\ got = {} /\ kept = {} /\ rejected = {}
    /\ sent = {} /\ early = {} /\ faults = 0

Fault == faults < MaxFaults /\ faults' = faults + 1

-----------------------------------------------------------------------------
(* The sender's core thread *)

\* Mutant: the read lock is dropped once the cached blocks are collected.
CanWriteAnytime == TRUE

CanWrite == ~reader

\* What is left in the cache: DagState::eviction_round.
Unevicted(S, c) == {b \in S : Round(b) + CachedRounds > c}

\* try_new_block: the block is accepted into DagState.
Accept ==
    /\ step = "idle" /\ CanWrite
    /\ \E r \in (HighestRound(cached) + 1)..MaxRound :
        cached' = cached \cup {<<r, restarts>>}
    /\ step' = "accepted"
    /\ UNCHANGED <<stored, committed, log, restarts, reader, stream, loop, receiver,
                   history, faults>>

Flush ==
    /\ step = "accepted" /\ CanWrite
    /\ stored' = stored \cup cached
    /\ cached' = Unevicted(cached, committed)
    /\ step' = "flushed"
    /\ UNCHANGED <<committed, log, restarts, reader, stream, loop, receiver, history,
                   faults>>

\* CoreSignals::new_block, without the lock.
NewBlock ==
    /\ step = "flushed"
    /\ \E b \in cached : Round(b) = HighestRound(cached) /\ log' = Append(log, b)
    /\ step' = "idle"
    /\ UNCHANGED <<cached, stored, committed, restarts, reader, stream, loop, receiver,
                   history, faults>>

\* try_commit commits own blocks, and its flush evicts old ones.
Commit ==
    /\ step = "idle" /\ CanWrite
    /\ committed' \in {r \in Rounds(stored) : r > committed}
    /\ cached' = Unevicted(cached, committed')
    /\ UNCHANGED <<stored, step, log, restarts, reader, stream, loop, receiver, history,
                   faults>>

\* DagState::new, then Core::recover, before the service is installed: a new
\* block is made, or else the last one is announced again.
Recover ==
    /\ step = "recover"
    /\ LET loaded == Unevicted(stored, committed) IN
        \/ \E r \in (HighestRound(loaded) + 1)..MaxRound :
            /\ cached' = Unevicted(loaded \cup {<<r, restarts>>}, committed)
            /\ stored' = stored \cup {<<r, restarts>>}
            /\ log' = <<<<r, restarts>>>>
        \/ /\ loaded # {}
           /\ \E b \in loaded : Round(b) = HighestRound(loaded) /\ log' = <<b>>
           /\ cached' = loaded
           /\ UNCHANGED stored
    /\ step' = "idle"
    /\ UNCHANGED <<committed, restarts, reader, stream, loop, receiver, history, faults>>

-----------------------------------------------------------------------------
(* handle_subscribe_blocks and the stream it returns *)

\* get_cached_blocks(own_index, last_received + 1), with the lock held.
ReadCached ==
    /\ subscription = "asked" /\ step # "recover"
    /\ missed' = SetToSortSeq({b \in cached : Round(b) >= from + 1},
                              LAMBDA b, c : Round(b) < Round(c))
    /\ early' = early \cup (ToSet(missed') \ stored)
    /\ reader' = TRUE /\ subscription' = "reading"
    /\ UNCHANGED <<core, pos, seen, from, receiver, sent, faults>>

\* rx_block_broadcaster.resubscribe(); the lock is dropped on return.
Resubscribe ==
    /\ subscription = "reading"
    /\ pos' = Subscribed(log) /\ seen' = {}
    /\ reader' = FALSE /\ subscription' = "on"
    /\ UNCHANGED <<core, missed, from, receiver, history, faults>>

\* handle_send_block accepts the block, or does not (it rejects it, or Core
\* suspends it and fetches what it waits for); the stream goes on.
HandleBlock(b) ==
    /\ sent' = sent \cup {b} /\ seen' = seen \cup {b}
    /\ \/ got' = got \cup {b} /\ UNCHANGED rejected
       \/ rejected' = rejected \cup {b} /\ UNCHANGED got
    /\ UNCHANGED <<core, reader, subscription, from, kept, early, faults>>

YieldMissed ==
    /\ subscription = "on" /\ missed # <<>>
    /\ missed' = Tail(missed)
    /\ HandleBlock(Head(missed))
    /\ UNCHANGED pos

YieldNew ==
    /\ subscription = "on" /\ missed = <<>> /\ CanRead(log, pos)
    /\ pos' = pos + 1
    /\ HandleBlock(log[pos + 1])
    /\ UNCHANGED missed

\* BroadcastStream tolerates lag.
YieldLagged ==
    /\ subscription = "on" /\ missed = <<>> /\ Lagged(log, pos)
    /\ pos' = OldestKept(log)
    /\ seen' = seen \cup {log[i] : i \in (pos + 1)..pos'}
    /\ UNCHANGED <<core, reader, missed, loop, receiver, history, faults>>

-----------------------------------------------------------------------------
(* subscription_loop *)

\* Ask for a stream, after a while that grows with the number of retries;
\* time is not modelled, and the number is of no other use.
Attempt ==
    /\ subscription = "retry"
    /\ subscription' = "asked"
    /\ UNCHANGED <<core, reader, stream, from, receiver, history, faults>>

\* The request fails.
AttemptFails ==
    /\ subscription = "asked" /\ Fault
    /\ subscription' = "retry"
    /\ UNCHANGED <<core, reader, stream, from, receiver, history>>

\* The stream ends.
StreamEnds ==
    /\ subscription' = "retry"
    /\ missed' = <<>> /\ pos' = 0 /\ seen' = {}
    /\ UNCHANGED from

Disconnect ==
    /\ subscription = "on" /\ Fault
    /\ StreamEnds
    /\ UNCHANGED <<core, reader, receiver, history>>

-----------------------------------------------------------------------------
(* Flushes of the receiver, and crashes *)

PeerFlush ==
    /\ kept' = got
    /\ UNCHANGED <<core, reader, stream, loop, got, rejected, history, faults>>

\* After a restart, Subscriber::subscribe starts from the last block in the
\* recovered DagState.
PeerCrash ==
    /\ Fault
    /\ got' = kept
    /\ subscription' = "retry" /\ from' = HighestRound(kept) /\ reader' = FALSE
    /\ missed' = <<>> /\ pos' = 0 /\ seen' = {}
    /\ UNCHANGED <<core, kept, rejected, history>>

SenderCrash ==
    /\ Fault
    /\ cached' = {} /\ log' = <<>> /\ step' = "recover" /\ restarts' = restarts + 1
    /\ reader' = FALSE
    /\ StreamEnds
    /\ UNCHANGED <<stored, committed, receiver, history>>

Next ==
    \/ Accept \/ Flush \/ NewBlock \/ Commit \/ Recover
    \/ ReadCached \/ Resubscribe \/ YieldMissed \/ YieldNew \/ YieldLagged
    \/ Attempt \/ AttemptFails \/ Disconnect
    \/ PeerFlush \/ PeerCrash \/ SenderCrash

Spec == Init /\ [][Next]_vars

\* The tasks that go on as long as there is something for them to do.
CoreSteps == Flush \/ NewBlock \/ Recover
LoopSteps == Attempt \/ ReadCached \/ Resubscribe
StreamSteps == YieldMissed \/ YieldNew \/ YieldLagged

-----------------------------------------------------------------------------

\* Between the cached blocks and the broadcast ones nothing is lost: as long
\* as a stream is open, every newer own block in the cache was yielded (or
\* lagged past), is still to be yielded, or is yet to be announced.
StreamHasNoGap ==
    subscription = "on" => \A b \in cached :
        \/ Round(b) <= from
        \/ b \in seen \cup ToSet(missed)
        \/ \E i \in (pos + 1)..Len(log) : log[i] = b
        \/ step \in {"accepted", "flushed"} /\ Round(b) = HighestRound(cached)

\* What the same comment is for: an authority does not show a peer two blocks
\* of one round, whenever it crashes.
OneBlockPerRound == \A b, c \in sent : Round(b) = Round(c) => b = c

\* The receiver has a block of round r or later on disk, or refused one.
Arrived(r) == \E b \in kept \cup rejected : Round(b) >= r
=============================================================================
