--------------------------- MODULE MCBlockExchange ---------------------------
(***************************************************************************)
(* Instances of Synchronizer and of Dissemination for TLC: a behaviour is  *)
(* one of the part that it starts with, and the other part stays in an     *)
(* initial state in which none of its fair actions is enabled.             *)
(*                                                                         *)
(* "fetch".  O runs, P has all blocks and Z is Byzantine.  Block 4 is      *)
(* broadcast; 9 is not in its history.                                     *)
(***************************************************************************)
EXTENDS Synchronizer, BroadcastChannel, TLC

CONSTANTS
    O, P, Z,                             \* the authorities of "fetch"
    CachedRounds, MaxRound, MaxFaults,   \* of Dissemination
    MaxPushes, MaxBroadcasts, MaxCrashes

VARIABLES
    part,                                \* "fetch" or "send": never changes
    \* of Dissemination
    streaming, stored, step, log, pos, got, kept,
    cached, committed, restarts, reader, missed, seen, subscription, from, rejected,
    sent, early, faults, pushes, last_block, acked, crashes

Sending == INSTANCE Dissemination WITH Concurrency <- MaxPushes

fetchVars == <<have, received, commands, locks, requests, phase, chunks, peers, failures>>
sendVars == <<streaming, stored, step, log, pos, got, kept, cached, committed, restarts,
              reader, missed, seen, subscription, from, rejected, sent, early, faults, pushes,
              last_block, acked, crashes>>

MCAuthorities == {O, P, Z}
MCByzantine == {Z}
MCStake == [a \in MCAuthorities |-> IF a = Z THEN 1 ELSE 2]

MCBlocks == 1..4 \cup {9}
MCAncestors == [b \in MCBlocks |-> CASE b = 4 -> {1, 2, 3} [] b = 2 -> {1} [] OTHER -> {}]
MCBroadcasts == {<<P, 4>>, <<Z, 4>>}
MCStores == (P :> MCBlocks)
MCByzantineAnswers == {{2}, {2, 9}, {1, 2, 3}}

-----------------------------------------------------------------------------
MCInit ==
    /\ Init
    /\ Sending!Init
    /\ part \in {"fetch", "send"}
    /\ part = "fetch" => ~streaming

Fetch == part = "fetch" /\ Next /\ UNCHANGED <<part, sendVars>>

Send == part = "send" /\ Sending!Next /\ UNCHANGED <<part, fetchVars>>

MCFairSpec ==
    /\ MCInit
    /\ [][Fetch \/ Send]_<<part, fetchVars, sendVars>>
    /\ Fairness
    /\ Sending!Fairness

\* While a stream of handle_subscribe_blocks is open, every newer own block in
\* the cache was yielded or lagged past, is still to be yielded, or is yet to be
\* announced (Dissemination).
StreamHasNoGap == Sending!StreamHasNoGap

\* Every own block that is stored is stored by the peer too in the end, or was
\* refused by it, or a later one is (Dissemination).
OwnBlocksArrive == Sending!OwnBlocksArrive
==============================================================================
