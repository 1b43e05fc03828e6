-------------------------- MODULE BroadcastChannel --------------------------
(***************************************************************************)
(* The channel on which Core announces its own blocks: a tokio broadcast   *)
(* channel (made in core.rs, CoreSignals::new).  It is the sequence of all *)
(* that was sent; a receiver is the number of messages it has gone past.   *)
(* Only the newest Capacity messages are kept: a receiver that is further  *)
(* behind is told once that it lagged, and goes on from the oldest one     *)
(* that is kept.                                                           *)
(***************************************************************************)
EXTENDS Naturals, Sequences

CONSTANT Capacity    \* dag_state_cached_rounds

ASSUME CapacityAssumption == Capacity \in Nat \ {0}

\* The position of a receiver that is made now.
Subscribed(log) == Len(log)

\* The receiver lags: some messages that it has not read are gone.
Lagged(log, pos) == Len(log) - pos > Capacity

\* Where a receiver that lagged goes on.
OldestKept(log) == Len(log) - Capacity

\* There is a message to read, and it is still kept.
CanRead(log, pos) == pos < Len(log) /\ ~Lagged(log, pos)
=============================================================================
