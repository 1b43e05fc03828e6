--------------------------- MODULE LeaderSchedule ---------------------------
(***************************************************************************)
(* Which authority leads a round: leader_schedule.rs, with the reputation  *)
(* scores of leader_scoring.rs and the vote strategy of                    *)
(* leader_scoring_strategy.rs, the one used unless an environment variable *)
(* selects another.                                                        *)
(*                                                                         *)
(* The code draws from generators seeded with a round or a commit index.   *)
(* What they return is the same at every authority and in every run, so    *)
(* that each of them is a constant function of its seed.                   *)
(***************************************************************************)
EXTENDS BlockVerifier, SequencesExt, FiniteSetsExt

CONSTANTS
    BaseLeader,     \* BaseLeader[r]: elect_leader_stake_based(r, 0)
    Shuffle,        \* Shuffle[i]: the authorities shuffled for commit index i
    Draw,           \* Draw[r]: the number drawn to choose a good node in round r
    SwapThreshold   \* consensus_bad_nodes_stake_threshold, in percent

\* new_inner refuses a threshold out of this range.
ASSUME SwapThresholdAssumption == SwapThreshold \in 0..33

(***************************************************************************)
(* VoteScoringStrategy over UnscoredSubdag: a block of the round above a   *)
(* committed leader that names it gives its author a point, if both are in *)
(* the commits that are scored.  links gives the ancestors of a block.     *)
(***************************************************************************)
VoteScores(links, subdags) ==
    LET blocks == UNION {subdags[i].blocks : i \in DOMAIN subdags}
        leaders == {subdags[i].leader : i \in DOMAIN subdags}
        votes == UNION {{<<l, v>> : v \in {b \in AtRound(blocks, l.round + 1) :
                                                l \in links[b]}} : l \in leaders}
    IN  [a \in Authorities |-> Cardinality({x \in votes : x[2].author = a})]

\* The authorities by descending score, in the shuffled order where it ties.
AuthoritiesByScore(index, scores) ==
    LET place(a) == CHOOSE i \in DOMAIN Shuffle[index] : Shuffle[index][i] = a
    IN  SortSeq(Shuffle[index],
                LAMBDA a, b : \/ scores[a] > scores[b]
                              \/ scores[a] = scores[b] /\ place(a) < place(b))

\* retrieve_first_nodes: as many of the first ones as the threshold allows.
RetrieveFirstNodes(authorities) ==
    LET fits == {n \in 0..Len(authorities) :
                    StakeOf(ToSet(SubSeq(authorities, 1, n)))
                        <= (SwapThreshold * TotalStake) \div 100}
    IN  SubSeq(authorities, 1, Max(fits))

\* LeaderSwapTable::default; a range is the commit indices start..end-1.
DefaultTable == [good |-> <<>>, bad |-> {}, start |-> 0, end |-> 0]

\* LeaderSwapTable::new_inner.
NewTable(index, scores, start, end) ==
    LET byScore == AuthoritiesByScore(index, scores)
    IN  [good  |-> RetrieveFirstNodes(byScore),
         bad   |-> ToSet(RetrieveFirstNodes(Reverse(byScore))),
         start |-> start,
         end   |-> end]

\* LeaderSwapTable::swap: one of the good nodes, drawn for the round.  Where
\* there is none, that is when the best authority alone is above the threshold,
\* its expect fails; the instances have no authority of such a stake.
Swap(table, r) == table.good[1 + (Draw[r] % Len(table.good))]

\* elect_leader: a good node takes the place of a bad leader.
ElectLeader(table, r) ==
    IF BaseLeader[r] \in table.bad THEN Swap(table, r) ELSE BaseLeader[r]
=============================================================================
