----------------------------- MODULE CommitRule -----------------------------
(***************************************************************************)
(* The commit rule of the DAG: BaseCommitter (base_committer.rs) and the   *)
(* pipelined UniversalCommitter over it (universal_committer.rs).          *)
(*                                                                         *)
(* The operators are functions of a view V, the set of blocks one          *)
(* authority has accepted.  parents gives the ancestors of every block     *)
(* there is, and past its causal history, the block included: the blocks   *)
(* that DagState::ancestors_at_round walks through.                        *)
(*                                                                         *)
(* UniversalCommitterBuilder makes one committer per round offset 0, 1, 2  *)
(* and one leader per round (NUM_LEADERS_PER_ROUND), so every round r has  *)
(* exactly one committer that elects a leader: wave_number(r) starts at r, *)
(* votes are the blocks of round r + 1 and the decision round is r + 2.    *)
(***************************************************************************)
EXTENDS BlockVerifier, FiniteSetsExt

CONSTANTS
    Leader,    \* Leader[r]: LeaderSchedule::elect_leader(r, 0)
    MaxRound   \* bound on the rounds of the instance

VARIABLES
    parents,   \* parents[b]: the ancestors named in block b
    past       \* past[b]: b and all the blocks it is linked to

Blocks == DOMAIN parents

\* DEFAULT_WAVE_LENGTH; the anchor of a leader is at least this far above it.
WaveLength == 3

VotingRound(r) == r + 1

DecisionRound(r) == r + WaveLength - 1

LeaderBlocks(V, r) == {b \in AtRound(V, r) : b.author = Leader[r]}

(***************************************************************************)
(* is_vote.  The block is an ancestor of one of the decision round, hence  *)
(* of round at most r + 1, so find_supported_block only meets ancestors at *)
(* or below the leader's round and never recurses: what it returns is the  *)
(* one ancestor (Verify) in the leader's slot.                             *)
(***************************************************************************)
IsVote(v, leader) == leader \in parents[v]

IsCertificate(c, leader) ==
    IsQuorum(AuthorsOf({v \in parents[c] : IsVote(v, leader)}))

\* enough_leader_blame: 2f+1 voting blocks without any ancestor of the leader.
EnoughLeaderBlame(V, r) ==
    IsQuorum(AuthorsOf({v \in AtRound(V, VotingRound(r)) :
                            \A p \in parents[v] : p.author # Leader[r]}))

\* enough_leader_support: 2f+1 certificates; the quick check on the stake of
\* the decision blocks only rejects what cannot reach a quorum.
EnoughLeaderSupport(V, leader) ==
    IsQuorum(AuthorsOf({c \in AtRound(V, DecisionRound(leader.round)) :
                            IsCertificate(c, leader)}))

\* LeaderStatus.
Commit(b) == [kind |-> "commit", block |-> b]
Skip == [kind |-> "skip"]
Undecided == [kind |-> "undecided"]

IsDecided(status) == status.kind # "undecided"

\* pop() of the at most one certified leader block, or else what is given.
CommitOr(S, otherwise) ==
    IF S = {} THEN otherwise ELSE Commit(CHOOSE b \in S : TRUE)

DirectlySupported(V, r) == {b \in LeaderBlocks(V, r) : EnoughLeaderSupport(V, b)}

TryDirectDecide(V, r) ==
    IF EnoughLeaderBlame(V, r) THEN Skip
    ELSE CommitOr(DirectlySupported(V, r), Undecided)

AncestorsAtRound(b, r) == AtRound(past[b], r)

\* The leader blocks with a certificate that is linked to the anchor.
CertifiedBy(V, anchor, r) ==
    {b \in LeaderBlocks(V, r) :
        \E c \in AncestorsAtRound(anchor, DecisionRound(r)) : IsCertificate(c, b)}

\* Mutant: a leader is committed when the anchor is linked to it.
DecideLeaderFromAnchorLinked(V, anchor, r) ==
    CommitOr(LeaderBlocks(V, r) \cap past[anchor], Skip)

DecideLeaderFromAnchor(V, anchor, r) == CommitOr(CertifiedBy(V, anchor, r), Skip)

\* Mutant: an undecided leader does not end the search for an anchor.
TryIndirectDecideFirstCommit(V, st, r, top) ==
    LET anchors == {q \in (r + WaveLength)..top : st[q].kind = "commit"}
    IN  IF anchors = {} THEN Undecided
        ELSE DecideLeaderFromAnchor(V, st[Min(anchors)].block, r)

(***************************************************************************)
(* try_indirect_decide: st holds the statuses of the rounds above r, up to *)
(* top.  The anchor is the first of them that is not skipped, from round   *)
(* r + wave_length on; an undecided one ends the search.                   *)
(***************************************************************************)
TryIndirectDecide(V, st, r, top) ==
    LET anchors == {q \in (r + WaveLength)..top : st[q].kind # "skip"}
    IN  IF anchors = {} \/ st[Min(anchors)].kind = "undecided"
        THEN Undecided
        ELSE DecideLeaderFromAnchor(V, st[Min(anchors)].block, r)

HighestRound(V) == Max({b.round : b \in V})

\* Mutant: one round too few is looked at.
TopRoundLow(V) == HighestRound(V) - 3

\* try_decide ends two rounds below the highest accepted one.
TopRound(V) == HighestRound(V) - 2

\* One turn of the loop of try_decide: the direct rule, or else the indirect.
DecideRound(V, st, r, top) ==
    LET direct == TryDirectDecide(V, r)
    IN  IF IsDecided(direct) THEN direct ELSE TryIndirectDecide(V, st, r, top)

(***************************************************************************)
(* The statuses that the loop of UniversalCommitter::try_decide pushes, of *)
(* the rounds above genesis.  It goes down from the top round, so that the *)
(* status of a round depends on those of higher rounds only; where it      *)
(* stops (last_decided) has no influence on the ones it computes.          *)
(***************************************************************************)
LeaderStatuses(V) ==
    LET st[r \in 1..TopRound(V)] == DecideRound(V, st, r, TopRound(V))
    IN  [r \in 1..TopRound(V) |-> st[r]]
=============================================================================
