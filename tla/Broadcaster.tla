---------------------------- MODULE Broadcaster ----------------------------
(***************************************************************************)
(* One push_blocks task of the Broadcaster (broadcaster.rs): it reads own  *)
(* blocks from the channel and sends them to one peer, at most Concurrency *)
(* at a time; a request that fails or times out is sent again, and while   *)
(* there is nothing else to send the last block is sent again from time to *)
(* time, since the peer may have crashed after it answered.                *)
(*                                                                         *)
(* Around it: Core writes a block to the store and then announces it       *)
(* (core.rs), announces the last one again when it recovers, and the peer  *)
(* keeps what it accepts in memory until its next flush.  A block is its   *)
(* round.  Timers are not modelled: a tick may come at any time.           *)
(***************************************************************************)
EXTENDS BroadcastChannel, FiniteSetsExt

CONSTANTS
    Concurrency,   \* BROADCAST_CONCURRENCY
    MaxRound,      \* bound: the rounds of the own blocks
    MaxCrashes     \* bound: the crashes of either authority

VARIABLES
    stored,        \* the own blocks in the store, in the order of rounds
    step,          \* of Core: "idle", "flushed" or "recover"
    log,           \* the broadcast channel
    pos,           \* rx_block_broadcast
    pushes,        \* requests: the blocks in flight
    last_block,    \* 0 for None
    got,           \* the blocks that the peer holds in memory
    kept,          \* the blocks in the peer's store
    acked,         \* history: the blocks that the peer answered for
    crashes

vars == <<stored, step, log, pos, pushes, last_block, got, kept, acked, crashes>>

core == <<stored, step, log>>
sender == <<pos, pushes, last_block, acked>>
peer == <<got, kept>>

LastProposed == Max(stored \cup {0})

Init ==
    /\ stored = {} /\ step = "idle" /\ log = <<>> /\ pos = 0
    /\ pushes = {} /\ last_block = 0
    /\ got = {} /\ kept = {} /\ acked = {} /\ crashes = 0

-----------------------------------------------------------------------------
(* Core::try_propose and Core::recover *)

Propose ==
    /\ step \in {"idle", "recover"}
    /\ \E r \in (LastProposed + 1)..MaxRound : stored' = stored \cup {r}
    /\ step' = "flushed"
    /\ UNCHANGED <<log, sender, peer, crashes>>

NewBlock ==
    /\ step = "flushed"
    /\ log' = Append(log, LastProposed)
    /\ step' = "idle"
    /\ UNCHANGED <<stored, sender, peer, crashes>>

\* No block could be made: the last one is announced again.
Recover ==
    /\ step = "recover"
    /\ stored # {}
    /\ log' = Append(log, LastProposed)
    /\ step' = "idle"
    /\ UNCHANGED <<stored, sender, peer, crashes>>

-----------------------------------------------------------------------------
(* push_blocks *)

RecvBlock ==
    /\ Cardinality(pushes) < Concurrency
    /\ CanRead(log, pos)
    /\ LET block == log[pos + 1] IN
        /\ pushes' = pushes \cup {block}
        /\ last_block' = IF last_block = 0 \/ last_block < block THEN block ELSE last_block
    /\ pos' = pos + 1
    /\ UNCHANGED <<core, acked, peer, crashes>>

RecvLagged ==
    /\ Cardinality(pushes) < Concurrency
    /\ Lagged(log, pos)
    /\ pos' = OldestKept(log)
    /\ UNCHANGED <<core, pushes, last_block, acked, peer, crashes>>

SendSucceeds(block) ==
    /\ block \in pushes
    /\ got' = got \cup {block}
    /\ pushes' = pushes \ {block}
    /\ acked' = acked \cup {block}
    /\ UNCHANGED <<core, pos, last_block, kept, crashes>>

\* An error or a timeout, whether or not the peer has got the block.
SendFails(block) ==
    /\ block \in pushes
    /\ got' \in {got, got \cup {block}}
    /\ pushes' = (pushes \ {block}) \cup {block}
    /\ UNCHANGED <<core, pos, last_block, acked, kept, crashes>>

\* Mutant: the last block is not sent again once the peer has answered.
RetryTickUnanswered ==
    /\ pushes = {}
    /\ last_block # 0 /\ last_block \notin acked
    /\ pushes' = {last_block}
    /\ UNCHANGED <<core, pos, last_block, acked, peer, crashes>>

RetryTick ==
    /\ pushes = {}
    /\ last_block # 0
    /\ pushes' = {last_block}
    /\ UNCHANGED <<core, pos, last_block, acked, peer, crashes>>

-----------------------------------------------------------------------------
(* The peer, and crashes *)

PeerFlush ==
    /\ kept' = got
    /\ UNCHANGED <<core, sender, got, crashes>>

PeerCrash ==
    /\ crashes < MaxCrashes
    /\ crashes' = crashes + 1
    /\ got' = kept
    /\ UNCHANGED <<core, sender, kept>>

\* The channel and the task are made anew, before Core recovers.
Crash ==
    /\ crashes < MaxCrashes
    /\ crashes' = crashes + 1
    /\ step' = "recover"
    /\ log' = <<>> /\ pos' = 0 /\ pushes' = {} /\ last_block' = 0 /\ acked' = {}
    /\ UNCHANGED <<stored, peer>>

Next ==
    \/ Propose \/ NewBlock \/ Recover
    \/ RecvBlock \/ RecvLagged \/ RetryTick
    \/ \E block \in pushes : SendSucceeds(block) \/ SendFails(block)
    \/ PeerFlush \/ PeerCrash \/ Crash

Spec == Init /\ [][Next]_vars

-----------------------------------------------------------------------------

\* The peer has a block of round r or later on disk.
Arrived(r) == \E b \in kept : b >= r
=============================================================================
