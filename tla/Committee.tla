----------------------------- MODULE Committee -----------------------------
(***************************************************************************)
(* The consensus committee of an epoch (consensus/config/src/committee.rs) *)
(* and the counting of its stake (consensus/core/src/stake_aggregator.rs): *)
(* a StakeAggregator is the set of authorities that voted, its stake the   *)
(* sum of theirs, whatever the number of times each of them was added.     *)
(***************************************************************************)
EXTENDS Integers, FiniteSets, Functions

CONSTANTS
    Authorities,  \* the members of the committee
    Byzantine,    \* the members that may deviate from the code
    Stake         \* the voting power of each member

\* The stake of a set of authorities: StakeAggregator::stake, Committee::stake.
StakeTable == [S \in SUBSET Authorities |-> SumFunctionOnSet(Stake, S)]

StakeOf(S) == StakeTable[S]

TotalStake == StakeOf(Authorities)

\* quorum_threshold and validity_threshold of Committee::new.
QuorumThreshold == (2 * TotalStake) \div 3 + 1

ValidityThreshold == (TotalStake + 2) \div 3

\* Committee::reached_quorum of what a StakeAggregator<QuorumThreshold> holds.
IsQuorum(S) == StakeOf(S) >= QuorumThreshold

(***************************************************************************)
(* Committee::new asserts a committee that is not empty and has stake.     *)
(***************************************************************************)
ASSUME CommitteeAssumption ==
    /\ IsFiniteSet(Authorities)
    /\ Byzantine \subseteq Authorities
    /\ Stake \in [Authorities -> Nat]
    /\ TotalStake # 0

(***************************************************************************)
(* Stake is a sum over authorities: it is a number, and adds up.           *)
(***************************************************************************)
ASSUME StakeIsAdditive ==
    /\ StakeOf({}) = 0
    /\ \A S, T \in SUBSET Authorities :
           /\ StakeOf(S) \in Nat
           /\ StakeOf(S \cup T) + StakeOf(S \cap T) = StakeOf(S) + StakeOf(T)

(***************************************************************************)
(* The BFT assumption the comments of base_committer.rs refer to: less     *)
(* than a third of the stake is in Byzantine hands.                        *)
(***************************************************************************)
ASSUME BftAssumption == 3 * StakeOf(Byzantine) < TotalStake
============================================================================
