--------------------------- MODULE Dissemination ---------------------------
(***************************************************************************)
(* How the own blocks of an authority get to a peer.  AuthorityNode::start *)
(* (authority_node.rs) looks at what the network can do: with streams      *)
(* (tonic) the peer's Subscriber asks for them (Subscription), and without *)
(* (anemo) the authority's Broadcaster pushes them (Broadcaster).  Either  *)
(* way there is a core thread that proposes, with its store and its        *)
(* broadcast channel, and a peer that holds blocks and flushes them: these *)
(* variables are shared by the two modules.                                *)
(***************************************************************************)
EXTENDS BroadcastChannel

CONSTANTS
    CachedRounds, MaxRound, MaxFaults,    \* of Subscription
    Concurrency, MaxBroadcasts, MaxCrashes  \* of Broadcaster

VARIABLES
    streaming,                          \* N::Client::SUPPORT_STREAMING
    stored, step, log, pos, got, kept,  \* of both
    cached, committed, restarts, reader, missed, seen, subscription, from, rejected,
    sent, early, faults,
    pushes, last_block, acked, crashes

S == INSTANCE Subscription
B == INSTANCE Broadcaster WITH MaxRound <- MaxBroadcasts

OnlyStreams == <<cached, committed, restarts, reader, missed, seen, subscription, from,
                 rejected, sent, early, faults>>
OnlyBroadcasts == <<pushes, last_block, acked, crashes>>

vars == <<streaming, stored, step, log, pos, got, kept, OnlyStreams, OnlyBroadcasts>>

Init == streaming \in BOOLEAN /\ S!Init /\ B!Init

\* A step of one or of the other.
Streams(A) == streaming /\ A /\ UNCHANGED <<streaming, OnlyBroadcasts>>
Pushes(A) == ~streaming /\ A /\ UNCHANGED <<streaming, OnlyStreams>>

Next == Streams(S!Next) \/ Pushes(B!Next)

\* The core thread, the loops of the two sides and the peer's flushes go on,
\* and a request that is sent again and again is answered at last.
Fairness ==
    /\ WF_vars(Streams(S!CoreSteps))
    /\ WF_vars(Streams(S!LoopSteps))
    /\ WF_vars(Streams(S!StreamSteps))
    /\ WF_vars(Streams(S!PeerFlush))
    /\ WF_vars(Pushes(B!NewBlock \/ B!Recover))
    /\ WF_vars(Pushes(B!RecvBlock \/ B!RecvLagged))
    /\ WF_vars(Pushes(B!RetryTick))
    /\ \A b \in 1..MaxBroadcasts : WF_vars(Pushes(B!SendSucceeds(b)))
    /\ WF_vars(Pushes(B!PeerFlush))

FairSpec == Init /\ [][Next]_vars /\ Fairness

-----------------------------------------------------------------------------

\* Between the cached blocks and the broadcast ones a stream loses nothing
\* (handle_subscribe_blocks).
StreamHasNoGap == streaming => S!StreamHasNoGap

IsStored(r) == IF streaming THEN r \in S!Rounds(stored) ELSE r \in stored
Arrived(r) == IF streaming THEN S!Arrived(r) ELSE B!Arrived(r)

\* The promise of both: once an own block is in the store, one that is as new
\* gets into the store of the peer (or is refused by it: what a peer refuses
\* counts as delivered), through crashes of both sides, lag, eviction, ended
\* streams and failed sends.  Neither store loses a block, so that it is enough
\* to say that again and again all that is stored has arrived.  "this call is
\* guaranteed to return at least some recent blocks, which will help with
\* liveness" (handle_subscribe_blocks); "to ensure liveness" (the retries of
\* push_blocks, the announcement in Core::recover).
OwnBlocksArrive == []<>(\A r \in 1..MaxBroadcasts : IsStored(r) => Arrived(r))
=============================================================================
