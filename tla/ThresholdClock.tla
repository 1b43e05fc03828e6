--------------------------- MODULE ThresholdClock ---------------------------
(***************************************************************************)
(* The threshold clock of an authority (threshold_clock.rs), and the       *)
(* blocks it is built from when the authority starts: those that           *)
(* DagState::last_quorum finds in the store, and no others.  Used by Core  *)
(* and by BlockTime.                                                       *)
(***************************************************************************)
EXTENDS BlockVerifier, FiniteSetsExt

\* ThresholdClock::add_block.
ClockAdd(c, b) ==
    CASE b.round < c.round -> c
      [] b.round > c.round -> [round |-> b.round, votes |-> {b.author}]
      [] b.round = c.round ->
            IF IsQuorum(c.votes \cup {b.author})
            THEN [round |-> b.round + 1, votes |-> {}]
            ELSE [c EXCEPT !.votes = @ \cup {b.author}]

\* ThresholdClock::add_blocks of a new clock, for the blocks S of round r and
\* in whatever order: the first block of a higher round than the clock's only
\* moves it there, the others also look for a quorum.
ClockAddAll(r, S) ==
    IF IsQuorum(AuthorsOf(S)) /\ (r = 0 \/ Cardinality(S) > 1)
    THEN [round |-> r + 1, votes |-> {}]
    ELSE [round |-> r, votes |-> AuthorsOf(S)]

HighestAcceptedRound(S) == Max({0} \cup {b.round : b \in S})

\* DagState::last_quorum: the blocks of the highest accepted round if they are
\* a quorum, otherwise those of the round before.
LastQuorumRound(S) ==
    LET top == HighestAcceptedRound(S)
    IN  IF top > 0 /\ ~IsQuorum(AuthorsOf(AtRound(S, top))) THEN top - 1 ELSE top

LastQuorum(S) ==
    IF LastQuorumRound(S) = 0 THEN GenesisBlocks ELSE AtRound(S, LastQuorumRound(S))
=============================================================================
