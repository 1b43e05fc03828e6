------------------------ MODULE TransactionConsumer ------------------------
(***************************************************************************)
(* How transactions get into own blocks (transaction.rs, and their use in  *)
(* Core::try_new_block): clients submit batches to a bounded channel, each *)
(* proposal takes what fits into a block, a batch may be split over        *)
(* several blocks, and the client is told when the last part is written.   *)
(* On shutdown the batches that are left are dropped, and their clients    *)
(* get an error.                                                           *)
(***************************************************************************)
EXTENDS Naturals, FiniteSets, SequencesExt

CONSTANTS
    Batches,     \* Batches[c]: the transactions that client c submits at once
    Size,        \* Size[t]: the size of transaction t
    MaxTxSize,   \* max_transaction_size
    MaxBytes,    \* max_consumed_bytes_per_request
    MaxCount,    \* max_consumed_transactions_per_request
    Capacity     \* MAX_PENDING_TRANSACTIONS

\* The comment in next: a transaction can always fit.
TransactionsFit == MaxTxSize <= MaxBytes /\ MaxCount > 0

VARIABLES
    queue,    \* the channel of guards: a client and its transactions left
    pending,  \* pending_transactions, a sequence of at most one guard
    step,     \* of try_new_block: "idle", "taken" or "written"
    taken,    \* the transactions of the block being made
    acks,     \* the clients to be acknowledged for it
    blocks,   \* the transactions of the own blocks that are written
    status    \* what each client knows

vars == <<queue, pending, step, taken, acks, blocks, status>>

Clients == DOMAIN Batches

Guard(c, txs) == [client |-> c, txs |-> txs]

-----------------------------------------------------------------------------
\* Mutant: a block is never quite full.
TakeStrict(s, t) ==
    IF s.size + Size[t] >= MaxBytes \/ Len(s.txs) >= MaxCount
    THEN [s EXCEPT !.left = Append(@, t)]
    ELSE [s EXCEPT !.txs = Append(@, t), !.size = @ + Size[t]]

\* A transaction is taken if it fits, and left otherwise; those after it are
\* still tried.
Take(s, t) ==
    IF s.size + Size[t] > MaxBytes \/ Len(s.txs) >= MaxCount
    THEN [s EXCEPT !.left = Append(@, t)]
    ELSE [s EXCEPT !.txs = Append(@, t), !.size = @ + Size[t]]

\* Mutant: the client is acknowledged with the first part of a batch.
HandleTxsAtOnce(s, g) ==
    LET r == FoldLeft(Take, [s EXCEPT !.left = <<>>], g.txs)
    IN  [r EXCEPT !.acks = @ \cup {g.client},
                  !.pending = IF r.left = <<>> THEN @ ELSE <<Guard(g.client, r.left)>>]

\* Mutant: what does not fit is dropped.
HandleTxsOnce(s, g) ==
    LET r == FoldLeft(Take, [s EXCEPT !.left = <<>>], g.txs)
    IN  [r EXCEPT !.acks = @ \cup IF r.left = <<>> THEN {g.client} ELSE {}]

\* handle_txs: one batch; the client is acknowledged if nothing is left of it.
HandleTxs(s, g) ==
    LET r == FoldLeft(Take, [s EXCEPT !.left = <<>>], g.txs)
    IN  IF r.left = <<>> THEN [r EXCEPT !.acks = @ \cup {g.client}]
        ELSE [r EXCEPT !.pending = <<Guard(g.client, r.left)>>]

\* The next batch is taken from the channel unless a part of one is pending.
Pull(s, g) ==
    IF s.pending = <<>> THEN HandleTxs(s, g) ELSE [s EXCEPT !.queue = Append(@, g)]

\* next: first what is pending, then the channel.
NextTransactions ==
    FoldLeft(Pull, [txs |-> <<>>, size |-> 0, left |-> <<>>, acks |-> {},
                    pending |-> <<>>, queue |-> <<>>], pending \o queue)

-----------------------------------------------------------------------------
Init ==
    /\ queue = <<>>
    /\ pending = <<>>
    /\ step = "idle"
    /\ taken = <<>>
    /\ acks = {}
    /\ blocks = <<>>
    /\ status = [c \in Clients |-> "new"]

\* submit_no_wait: nothing of a batch with an oversized transaction is sent.
Submit(c) ==
    /\ status[c] = "new"
    /\ IF \/ \E t \in ToSet(Batches[c]) : Size[t] > MaxTxSize
          \/ step = "stopped"
       THEN /\ status' = [status EXCEPT ![c] = "refused"]
            /\ UNCHANGED queue
       ELSE /\ Len(queue) < Capacity
            /\ queue' = Append(queue, Guard(c, Batches[c]))
            /\ status' = [status EXCEPT ![c] = "submitted"]
    /\ UNCHANGED <<pending, step, taken, acks, blocks>>

\* try_new_block takes transactions, writes the block, and acknowledges.
TakeTransactions ==
    /\ step = "idle"
    /\ \E r \in {NextTransactions} :
          /\ taken' = r.txs
          /\ acks' = r.acks
          /\ pending' = r.pending
          /\ queue' = r.queue
    /\ step' = "taken"
    /\ UNCHANGED <<blocks, status>>

\* Blocks without transactions are not recorded.
WriteBlock ==
    /\ step = "taken"
    /\ blocks' = IF taken = <<>> THEN blocks ELSE Append(blocks, taken)
    /\ step' = "written"
    /\ UNCHANGED <<queue, pending, taken, acks, status>>

AckTransactions ==
    /\ step = "written"
    /\ status' = [c \in Clients |-> IF c \in acks THEN "included" ELSE status[c]]
    /\ step' = "idle"
    /\ taken' = <<>>
    /\ acks' = {}
    /\ UNCHANGED <<queue, pending, blocks>>

\* Consensus shuts down: the guards are dropped, and the channel is closed.
Shutdown ==
    /\ step = "idle"
    /\ step' = "stopped"
    /\ status' = [c \in Clients |-> IF status[c] = "submitted" THEN "failed" ELSE status[c]]
    /\ queue' = <<>>
    /\ pending' = <<>>
    /\ UNCHANGED <<taken, acks, blocks>>

TryNewBlock == TakeTransactions \/ WriteBlock \/ AckTransactions

Next ==
    \/ \E c \in Clients : Submit(c)
    \/ TryNewBlock
    \/ Shutdown

Spec == Init /\ [][Next]_vars

\* Blocks are made again and again: Core.ProposesEveryRound.
FairSpec == Spec /\ WF_vars(TryNewBlock)

-----------------------------------------------------------------------------
AllGuards == ToSet(pending \o queue)

Written(t) == \E k \in DOMAIN blocks : t \in ToSet(blocks[k])

(***************************************************************************)
(* An acknowledgement means inclusion: all the transactions of the batch   *)
(* are in own blocks that are written, however it was split.               *)
(***************************************************************************)
AcknowledgedIsWritten ==
    \A c \in Clients : status[c] = "included" => \A t \in ToSet(Batches[c]) : Written(t)

(***************************************************************************)
(* No transaction is lost or proposed twice: until its client has an       *)
(* error, each one is once in the channel, in what is pending, in the      *)
(* block being made or in one that is written.                             *)
(***************************************************************************)
TransactionsAreKept ==
    \A c \in Clients : status[c] \in {"submitted", "included"} =>
        \A t \in ToSet(Batches[c]) :
            Cardinality({g \in AllGuards : t \in ToSet(g.txs)})
                + (IF step = "taken" /\ t \in ToSet(taken) THEN 1 ELSE 0)
                + Cardinality({k \in DOMAIN blocks : t \in ToSet(blocks[k])}) = 1

(***************************************************************************)
(* Every batch that is submitted is acknowledged in the end, unless        *)
(* consensus shuts down: what is left of a split batch is not overtaken    *)
(* for ever.  (A client submits once and its answer is final, so from some *)
(* time on none of them waits.)                                            *)
(***************************************************************************)
SubmittedIsAnswered == <>[](\A c \in Clients : status[c] # "submitted")
=============================================================================
