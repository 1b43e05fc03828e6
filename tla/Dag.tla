-------------------------------- MODULE Dag --------------------------------
(***************************************************************************)
(* The block DAG that the authorities of a committee build together, and   *)
(* the decisions that the commit rule takes on any view of it.             *)
(*                                                                         *)
(* A step adds one verified block.  Authorities that follow the code make  *)
(* one block per round; a Byzantine one may make several.  The state is    *)
(* the set of all blocks in the system; what an authority has accepted is  *)
(* a causally closed subset of it (module BlockManager).  Every such       *)
(* subset is also a state of its own, so the step from a DAG to a larger   *)
(* one covers the growth of one authority's DAG and the comparison of two. *)
(***************************************************************************)
EXTENDS CommitRule

CONSTANT Proposals   \* the blocks that may be made: records of a block and
                     \* its ancestors; a bound on the instance, not on the code

ASSUME ProposalsAssumption ==
    /\ MaxRound \in Nat
    /\ Leader \in [1..MaxRound -> Authorities]
    /\ \A p \in Proposals :
        /\ p.block.round \in 1..MaxRound
        /\ p.block.author \in Authorities

dagVars == <<parents, past>>

Init ==
    /\ parents = [g \in GenesisBlocks |-> {}]
    /\ past = [g \in GenesisBlocks |-> {g}]

\* Core::try_new_block makes one block per round; a Byzantine author any.
Equivocates(b) == \E c \in Blocks : c.round = b.round /\ c.author = b.author

\* A block that passed the verifier is accepted by an authority (accept_block).
AddBlock(b, P) ==
    /\ b \notin Blocks
    /\ P \subseteq Blocks
    /\ Verify(b, P)
    /\ Equivocates(b) => b.author \in Byzantine
    /\ parents' = [c \in Blocks \cup {b} |-> IF c = b THEN P ELSE parents[c]]
    /\ past' = [c \in Blocks \cup {b} |->
                    IF c = b THEN {b} \cup UNION {past[p] : p \in P} ELSE past[c]]

Next == \E p \in Proposals : AddBlock(p.block, p.parents)

Spec == Init /\ [][Next]_dagVars

-----------------------------------------------------------------------------

TypeOK ==
    /\ parents \in [Blocks -> SUBSET Blocks]
    /\ past \in [Blocks -> SUBSET Blocks]
    /\ \A b \in Blocks : b \in past[b] /\ parents[b] \subseteq past[b]

\* What an authority can have accepted: blocks with their causal history.
IsView(V) == V \subseteq Blocks /\ V # {} /\ \A b \in V : past[b] \subseteq V

\* Two views agree when no round is decided differently in them.
Agree(v, w) ==
    \A r \in DOMAIN v \cap DOMAIN w : IsDecided(v[r]) /\ IsDecided(w[r]) => v[r] = w[r]

(***************************************************************************)
(* No two authorities decide a leader slot differently: the view of the    *)
(* author of any block, when it made the block, agrees with the whole DAG. *)
(* "it means the BFT assumption is broken" otherwise (base_committer.rs).  *)
(***************************************************************************)
ViewsAgree ==
    LET all == LeaderStatuses(Blocks)
    IN  \A b \in Blocks : Agree(LeaderStatuses(past[b]), all)

(***************************************************************************)
(* A decision is final: when an authority accepts one more block, no slot  *)
(* it has already committed or skipped becomes undecided or changes.       *)
(***************************************************************************)
DecisionsAreFinal ==
    [][LET before == LeaderStatuses(Blocks)
           after  == LeaderStatuses(Blocks)'
       IN  \A r \in DOMAIN before : IsDecided(before[r]) => after[r] = before[r]]_dagVars

(***************************************************************************)
(* The two panics "More than one certified block" of base_committer.rs are *)
(* not reached: no two blocks of one leader slot have certificates.        *)
(***************************************************************************)
OneCertifiedLeader ==
    \A r \in 1..MaxRound :
        \A b1, b2 \in LeaderBlocks(Blocks, r) :
            \A c1, c2 \in AtRound(Blocks, DecisionRound(r)) :
                IsCertificate(c1, b1) /\ IsCertificate(c2, b2) => b1 = b2

(***************************************************************************)
(* What makes the indirect rule safe: once a leader has 2f+1 certificates, *)
(* every block above its decision round is linked to one of them, so no    *)
(* anchor can skip it.                                                     *)
(***************************************************************************)
CertificatesAreInherited ==
    \A r \in 1..MaxRound :
        \A leader \in DirectlySupported(Blocks, r) :
            \A b \in Blocks :
                b.round > DecisionRound(r)
                    => \E c \in AtRound(past[b], DecisionRound(r)) : IsCertificate(c, leader)

(***************************************************************************)
(* "2f+1 non-votes for that leader (which ensure there will never be a     *)
(* certificate for that leader)", base_committer.rs:82.                    *)
(***************************************************************************)
BlameExcludesCertificates ==
    \A r \in 1..MaxRound :
        EnoughLeaderBlame(Blocks, r)
            => \A b \in LeaderBlocks(Blocks, r) :
                   \A c \in AtRound(Blocks, DecisionRound(r)) : ~IsCertificate(c, b)

(***************************************************************************)
(* Every leader slot is decided, whatever the Byzantine authority did and  *)
(* although some slots have no block at all.  It becomes true once enough  *)
(* rounds follow in which the blocks of the others arrive in time.         *)
(***************************************************************************)
LeadersDecided ==
    LET st == LeaderStatuses(Blocks)
    IN  \A r \in 1..(MaxRound - 2) : r \in DOMAIN st /\ IsDecided(st[r])
============================================================================
