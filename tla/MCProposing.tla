---------------------------- MODULE MCProposing ----------------------------
(***************************************************************************)
(* How an authority makes its blocks, for TLC: the core thread with its    *)
(* clock, timers and recovery (Core), the transactions of an own block     *)
(* (TransactionConsumer) and its time (BlockTime).  The three have no      *)
(* state in common that matters to their properties, so a behaviour is one *)
(* of them, chosen by part.                                                *)
(*                                                                         *)
(* Core: four authorities of equal stake.  A runs the core; B, C and D     *)
(* make blocks of their own, on each other's; D makes two in round 2.  The *)
(* leader of round 1 is D, of which the core may have to do without.       *)
(*                                                                         *)
(* Transactions: a batch with a large transaction in the middle, one as    *)
(* large as a block, small ones, an empty batch and one that is refused.   *)
(* The size of a transaction is its number modulo 10.                      *)
(*                                                                         *)
(* Time: A is the authority that runs and B has twice the stake of the     *)
(* others.  D makes two blocks in round 1 and goes on from the older one.  *)
(***************************************************************************)
EXTENDS Core, SequencesExt

CONSTANTS
    A, B, C, D,   \* the authorities
    Rounds,       \* how many rounds the others go through
    Batches, Size, MaxTxSize, MaxBytes, MaxCount, Capacity,
    Drift, Setback, MaxTime, MaxPending

VARIABLES
    part,         \* "core", "transactions" or "time"
    queue, pending, tx_step, taken, acks, blocks, status,
    now, phase, known, written, threshold, sleeping, syncing, queued, included, linked,
    starts

MCAuthorities == {A, B, C, D}
MCByzantine == {D}
MCStake == [a \in MCAuthorities |-> 1]
MCLeader == <<D, B, C, A, D>>

Ref(r, a, d) == [round |-> r, author |-> a, digest |-> d]

MCOtherBlocks ==
    {Ref(r, a, 0) : r \in 1..Rounds, a \in {B, C, D}} \cup {Ref(2, D, 1)}

MCOtherParents ==
    [b \in MCOtherBlocks |->
        IF b.round = 1 THEN GenesisBlocks
        ELSE IF b.round = 3 /\ b.author = D
        THEN {Ref(2, B, 0), Ref(2, C, 0), Ref(2, D, 1)}
        ELSE {Ref(b.round - 1, a, 0) : a \in {B, C, D}}]

-----------------------------------------------------------------------------
MCBatches == <<<<12, 23, 31>>, <<44>>, <<51, 61, 71>>, <<>>, <<81, 95>>>>
MCSize == [t \in UNION {ToSet(b) : b \in ToSet(MCBatches)} |-> t % 10]

Tx == INSTANCE TransactionConsumer WITH step <- tx_step

ASSUME FitsAssumption == Tx!TransactionsFit

-----------------------------------------------------------------------------
Block(r, a, d, t) == [round |-> r, author |-> a, digest |-> d, ts |-> t]

TimeBlocks ==
    {Block(1, B, 0, 0), Block(1, D, 0, 1), Block(1, D, 1, 2), Block(2, D, 0, 1)}

TimeParents ==
    [b \in TimeBlocks |-> IF b.round = 1 THEN {}
                          ELSE {Block(1, B, 0, 0), Block(1, D, 0, 1)}]

Time == INSTANCE BlockTime
           WITH Authorities <- {A, B, D}, Byzantine <- {D},
                Stake <- [a \in {A, B, D} |-> IF a = B THEN 2 ELSE 1], Own <- A,
                OtherBlocks <- TimeBlocks, OtherParents <- TimeParents,
                dag <- known, stored <- written, links <- linked, restarts <- starts

-----------------------------------------------------------------------------
txVars == <<queue, pending, tx_step, taken, acks, blocks, status>>

timeVars == <<now, phase, known, written, threshold, sleeping, syncing, queued, included,
              linked, starts>>

mcVars == <<part, coreVars, txVars, timeVars>>

MCInit == part \in {"core", "transactions", "time"} /\ Init /\ Tx!Init /\ Time!Init

Proposes(Act) == part = "core" /\ Act /\ UNCHANGED <<part, txVars, timeVars>>
Transacts(Act) == part = "transactions" /\ Act /\ UNCHANGED <<part, coreVars, timeVars>>
Times(Act) == part = "time" /\ Act /\ UNCHANGED <<part, coreVars, txVars>>

MCNext == Proposes(Next) \/ Transacts(Tx!Next) \/ Times(Time!Next)

MCSpec == MCInit /\ [][MCNext]_mcVars

\* The fairness of Core and of TransactionConsumer.
MCFairSpec ==
    /\ MCSpec
    /\ WF_mcVars(Proposes(EndAdd \/ Propose \/ ProposeNothing \/ Broadcast))
    /\ WF_mcVars(Proposes(NewRound))
    /\ SF_mcVars(Proposes(MaxTimeout))
    /\ WF_mcVars(Transacts(Tx!TryNewBlock))

\* The behaviours of Core only, and those of BlockTime only.
CoreSpec == MCSpec /\ part = "core"
TimeSpec == MCSpec /\ part = "time"

-----------------------------------------------------------------------------
\* An acknowledgement means inclusion: all the transactions of the batch are in
\* own blocks that are written, however next() split it (TransactionConsumer).
AcknowledgedIsWritten == Tx!AcknowledgedIsWritten

\* No transaction is lost or proposed twice by next(), until its client has an
\* error (TransactionConsumer).
TransactionsAreKept == Tx!TransactionsAreKept

\* Every batch that is submitted is acknowledged in the end, unless consensus
\* shuts down (TransactionConsumer).
SubmittedIsAnswered == Tx!SubmittedIsAnswered

\* accept_block never panics on a timestamp, and the assertion of try_new_block
\* fails only of blocks that recovery did not wait for, since their author went
\* on with an earlier time (BlockTime).
ClockPanicNeedsTwoChains == Time!ClockPanicNeedsTwoChains

\* The assertion of try_new_block on the timestamps of the ancestors holds, as
\* recovery waits to "Ensure local time is after max ancestor timestamp."
\* (core.rs:145).
AncestorsAreNotAhead == Time!AncestorsAreNotAhead
=============================================================================
