----------------------------- MODULE DagProofs -----------------------------
(***************************************************************************)
(* Proofs about Dag, for every committee with less than a third of its     *)
(* stake in Byzantine hands, every leader schedule and every DAG.          *)
(***************************************************************************)
EXTENDS Dag, TLAPS

(***************************************************************************)
(* A set of authorities weighs no more than one that contains it.          *)
(***************************************************************************)
LEMMA StakeIsMonotone ==
    ASSUME NEW S \in SUBSET Authorities, NEW T \in SUBSET Authorities, S \subseteq T
    PROVE  StakeOf(S) <= StakeOf(T)
<1>1. T = S \cup (T \ S) /\ S \cap (T \ S) = {}
    OBVIOUS
<1>2. T \ S \in SUBSET Authorities
    OBVIOUS
<1>3. StakeOf(S \cup (T \ S)) + StakeOf(S \cap (T \ S)) = StakeOf(S) + StakeOf(T \ S)
    BY <1>2, StakeIsAdditive
<1>4. StakeOf(T) + 0 = StakeOf(S) + StakeOf(T \ S)
    BY <1>1, <1>3, StakeIsAdditive
<1>5. StakeOf(S) \in Nat /\ StakeOf(T) \in Nat /\ StakeOf(T \ S) \in Nat
    BY <1>2, StakeIsAdditive
<1> QED
    BY <1>4, <1>5

(***************************************************************************)
(* Two quorums have an authority in common that follows the code.          *)
(***************************************************************************)
LEMMA QuorumIntersection ==
    ASSUME NEW Q \in SUBSET Authorities, NEW R \in SUBSET Authorities,
           IsQuorum(Q), IsQuorum(R)
    PROVE  \E a \in Q \cap R : a \notin Byzantine
<1> SUFFICES ASSUME Q \cap R \subseteq Byzantine PROVE FALSE
    OBVIOUS
<1>1. StakeOf(Q \cap R) <= StakeOf(Byzantine)
    BY StakeIsMonotone, CommitteeAssumption
<1>2. StakeOf(Q \cup R) <= TotalStake
    BY StakeIsMonotone DEF TotalStake
<1>3. StakeOf(Q \cup R) + StakeOf(Q \cap R) = StakeOf(Q) + StakeOf(R)
    BY StakeIsAdditive
<1>4. /\ StakeOf(Q) \in Nat /\ StakeOf(R) \in Nat /\ StakeOf(Q \cup R) \in Nat
      /\ StakeOf(Q \cap R) \in Nat /\ StakeOf(Byzantine) \in Nat /\ TotalStake \in Nat
    BY StakeIsAdditive, CommitteeAssumption DEF TotalStake
<1>5. StakeOf(Q) >= (2 * TotalStake) \div 3 + 1 /\ StakeOf(R) >= (2 * TotalStake) \div 3 + 1
    BY DEF IsQuorum, QuorumThreshold
<1>6. 3 * StakeOf(Byzantine) < TotalStake
    BY BftAssumption
<1> HIDE DEF TotalStake
<1> QED
    BY <1>1, <1>2, <1>3, <1>4, <1>5, <1>6

LEMMA QuorumNotEmpty ==
    ASSUME IsQuorum({}) PROVE FALSE
<1>1. \E a \in {} \cap {} : a \notin Byzantine
    BY QuorumIntersection
<1> QED
    BY <1>1

-----------------------------------------------------------------------------

\* The inductive invariant: what every block of the DAG has passed, one block
\* per round for those that follow the code, and histories that are closed and
\* leave out no round.
WellFormed ==
    /\ \A b \in Blocks : b.round \in 0..MaxRound /\ b.author \in Authorities
    /\ \A b \in Blocks : b.round > 0 => Verify(b, parents[b])
    /\ \A b \in Blocks : b.round = 0 => parents[b] = {}
    /\ \A b, c \in Blocks :
        b.round = c.round /\ b.author = c.author /\ b.author \notin Byzantine => b = c

HistoriesClosed ==
    /\ \A b \in Blocks : \A c \in past[b] : past[c] \subseteq past[b]
    /\ \A b \in Blocks : \A q \in 0..b.round : \E c \in past[b] : c.round = q

DagInv == TypeOK /\ WellFormed /\ HistoriesClosed

LEMMA InitDagInv == Init => DagInv
<1> SUFFICES ASSUME Init PROVE DagInv
    OBVIOUS
<1>1. Blocks = GenesisBlocks /\ parents = [g \in GenesisBlocks |-> {}]
        /\ past = [g \in GenesisBlocks |-> {g}]
    BY DEF Init, Blocks
<1>2. TypeOK
    BY <1>1 DEF TypeOK
<1>3. \A g \in GenesisBlocks : g.round = 0 /\ g.author \in Authorities
    BY DEF GenesisBlocks
<1> USE ProposalsAssumption
<1>4. \A g, h \in GenesisBlocks : g.author = h.author => g = h
    BY DEF GenesisBlocks
<1>5. WellFormed
    BY <1>1, <1>3, <1>4 DEF WellFormed
<1>6. HistoriesClosed
    BY <1>1, <1>3 DEF HistoriesClosed
<1> QED
    BY <1>2, <1>5, <1>6 DEF DagInv

LEMMA AddBlockDagInv ==
    ASSUME DagInv, NEW p \in Proposals, AddBlock(p.block, p.parents)
    PROVE  DagInv'
<1> DEFINE b == p.block
           P == p.parents
<1>1. /\ b.round \in 0..MaxRound /\ b.round > 0
      /\ b.author \in Authorities
    BY ProposalsAssumption
<1>2. b \notin Blocks /\ P \subseteq Blocks /\ Verify(b, P)
        /\ (Equivocates(b) => b.author \in Byzantine)
    BY DEF AddBlock
<1>3. Blocks' = Blocks \cup {b}
    BY DEF AddBlock, Blocks
<1>4. /\ parents' = [c \in Blocks' |-> IF c = b THEN P ELSE parents[c]]
      /\ past' = [c \in Blocks' |->
                    IF c = b THEN {b} \cup UNION {past[q] : q \in P} ELSE past[c]]
    BY <1>3 DEF AddBlock
<1> HIDE DEF b, P
<1>5. /\ parents \in [Blocks -> SUBSET Blocks]
      /\ past \in [Blocks -> SUBSET Blocks]
      /\ \A c \in Blocks : c \in past[c] /\ parents[c] \subseteq past[c]
    BY DEF DagInv, TypeOK
<1>6. /\ parents'[b] = P
      /\ past'[b] = {b} \cup UNION {past[q] : q \in P}
      /\ \A c \in Blocks : parents'[c] = parents[c] /\ past'[c] = past[c]
    BY <1>2, <1>3, <1>4
<1>7. TypeOK'
    <2>1. parents' \in [Blocks' -> SUBSET Blocks']
        BY <1>2, <1>3, <1>4, <1>5
    <2>2. past' \in [Blocks' -> SUBSET Blocks']
        BY <1>2, <1>3, <1>4, <1>5
    <2>3. \A c \in Blocks' : c \in past'[c] /\ parents'[c] \subseteq past'[c]
        BY <1>2, <1>3, <1>5, <1>6
    <2> QED
        BY <2>1, <2>2, <2>3 DEF TypeOK
<1>8. WellFormed'
    <2>1. \A c \in Blocks' : c.round \in 0..MaxRound /\ c.author \in Authorities
        BY <1>1, <1>3 DEF DagInv, WellFormed
    <2>2. /\ \A c \in Blocks' : c.round > 0 => Verify(c, parents'[c])
          /\ \A c \in Blocks' : c.round = 0 => parents'[c] = {}
        BY <1>1, <1>2, <1>3, <1>6 DEF DagInv, WellFormed
    <2>3. \A c, d \in Blocks' :
            c.round = d.round /\ c.author = d.author /\ c.author \notin Byzantine => c = d
        BY <1>2, <1>3 DEF DagInv, WellFormed, Equivocates
    <2> QED
        BY <2>1, <2>2, <2>3 DEF WellFormed, Verify
<1>9. HistoriesClosed'
    <2>1. \A c \in past'[b] : past'[c] \subseteq past'[b]
        <3> SUFFICES ASSUME NEW c \in past'[b], c # b PROVE past'[c] \subseteq past'[b]
            OBVIOUS
        <3>1. PICK q \in P : c \in past[q]
            BY <1>6
        <3>2. c \in Blocks /\ past[c] \subseteq past[q]
            BY <3>1, <1>2, <1>5 DEF DagInv, HistoriesClosed
        <3> QED
            BY <3>1, <3>2, <1>6
    <2>2. \A q \in 0..b.round : \E c \in past'[b] : c.round = q
        <3> SUFFICES ASSUME NEW q \in 0..b.round, q # b.round
                     PROVE  \E c \in past'[b] : c.round = q
            BY <1>6
        <3>1. IsQuorum(AuthorsOf(AtRound(P, b.round - 1)))
            BY <1>2 DEF Verify
        <3>2. AuthorsOf(AtRound(P, b.round - 1)) # {}
            BY <3>1, QuorumNotEmpty
        <3>3. PICK d \in P : d.round = b.round - 1
            BY <3>2 DEF AuthorsOf, AtRound
        <3>4. d \in Blocks /\ q \in 0..d.round
            BY <3>3, <1>1, <1>2
        <3>5. PICK c \in past[d] : c.round = q
            BY <3>4 DEF DagInv, HistoriesClosed
        <3> QED
            BY <3>3, <3>5, <1>6
    <2>3. \A d \in Blocks : /\ \A c \in past'[d] : past'[c] \subseteq past'[d]
                            /\ \A q \in 0..d.round : \E c \in past'[d] : c.round = q
        BY <1>5, <1>6 DEF DagInv, HistoriesClosed
    <2> QED
        BY <2>1, <2>2, <2>3, <1>3 DEF HistoriesClosed
<1> QED
    BY <1>7, <1>8, <1>9 DEF DagInv

(***************************************************************************)
(* Every DAG the authorities can build is well formed: the checks of       *)
(* SignedBlockVerifier and the one block per round of Core carry over to   *)
(* whole causal histories.                                                 *)
(***************************************************************************)
THEOREM DagInvariant == Spec => []DagInv
<1>1. DagInv /\ [Next]_dagVars => DagInv'
    <2> SUFFICES ASSUME DagInv, [Next]_dagVars PROVE DagInv'
        OBVIOUS
    <2>1. CASE Next
        BY <2>1, AddBlockDagInv DEF Next
    <2>2. CASE UNCHANGED dagVars
        BY <2>2 DEF dagVars, DagInv, TypeOK, WellFormed, HistoriesClosed, Blocks, Verify
    <2> QED
        BY <2>1, <2>2
<1> QED
    BY <1>1, InitDagInv, PTL DEF Spec

-----------------------------------------------------------------------------

\* A certificate names, for a quorum of authorities, blocks of the voting
\* round that have the leader block among their ancestors.
LEMMA CertificateVotes ==
    ASSUME DagInv, NEW r \in Nat, NEW c \in AtRound(Blocks, DecisionRound(r)),
           NEW leader \in AtRound(Blocks, r), IsCertificate(c, leader)
    PROVE  LET votes == {v \in parents[c] : IsVote(v, leader)}
           IN  /\ IsQuorum(AuthorsOf(votes))
               /\ AuthorsOf(votes) \in SUBSET Authorities
               /\ \A v \in votes :
                    v \in Blocks /\ v.round = VotingRound(r) /\ leader \in parents[v]
<1> DEFINE votes == {v \in parents[c] : IsVote(v, leader)}
<1>1. c \in Blocks /\ c.round = r + 2 /\ leader.round = r
    BY DEF AtRound, DecisionRound, WaveLength
<1>2. parents[c] \subseteq Blocks
    BY <1>1 DEF DagInv, TypeOK
<1>3. ASSUME NEW v \in votes
      PROVE  v \in Blocks /\ v.round = VotingRound(r) /\ leader \in parents[v]
    <2>1. v \in Blocks /\ leader \in parents[v] /\ v \in parents[c]
        BY <1>2 DEF IsVote
    <2>2. Verify(c, parents[c]) /\ Verify(v, parents[v])
        <3>1. c.round > 0
            BY <1>1
        <3>2. v.round \in Nat /\ v.round # 0
            BY <2>1 DEF DagInv, WellFormed
        <3> QED
            BY <2>1, <1>1, <3>1, <3>2 DEF DagInv, WellFormed
    <2>3. v.round < r + 2 /\ r < v.round
        BY <2>1, <2>2, <1>1 DEF Verify
    <2>4. v.round \in Nat
        BY <2>1 DEF DagInv, WellFormed
    <2> QED
        BY <2>1, <2>3, <2>4 DEF VotingRound
<1>4. AuthorsOf(votes) \in SUBSET Authorities
    BY <1>3 DEF AuthorsOf, DagInv, WellFormed
<1> QED
    BY <1>3, <1>4 DEF IsCertificate

\* Two blocks of one round with the same author, who follows the code.
LEMMA OneBlockPerRound ==
    ASSUME DagInv, NEW b \in Blocks, NEW c \in Blocks,
           b.round = c.round, b.author = c.author, b.author \notin Byzantine
    PROVE  b = c
    BY DEF DagInv, WellFormed

\* The ancestors of a block are of different authors.
LEMMA OneAncestorPerAuthor ==
    ASSUME DagInv, NEW b \in Blocks, NEW p \in parents[b], NEW q \in parents[b],
           p.author = q.author
    PROVE  p = q
    BY DEF DagInv, WellFormed, Verify

LEMMA OneCertified == DagInv => OneCertifiedLeader
<1> SUFFICES ASSUME DagInv, NEW r \in 1..MaxRound,
                    NEW b1 \in LeaderBlocks(Blocks, r), NEW b2 \in LeaderBlocks(Blocks, r),
                    NEW c1 \in AtRound(Blocks, DecisionRound(r)),
                    NEW c2 \in AtRound(Blocks, DecisionRound(r)),
                    IsCertificate(c1, b1), IsCertificate(c2, b2)
             PROVE  b1 = b2
    BY DEF OneCertifiedLeader
<1> DEFINE V1 == {v \in parents[c1] : IsVote(v, b1)}
           V2 == {v \in parents[c2] : IsVote(v, b2)}
<1>1. r \in Nat /\ b1 \in AtRound(Blocks, r) /\ b2 \in AtRound(Blocks, r)
        /\ b1.author = b2.author
    BY ProposalsAssumption DEF LeaderBlocks
<1>2. /\ IsQuorum(AuthorsOf(V1)) /\ AuthorsOf(V1) \in SUBSET Authorities
      /\ \A v \in V1 : v \in Blocks /\ v.round = VotingRound(r) /\ b1 \in parents[v]
    BY <1>1, CertificateVotes
<1>3. /\ IsQuorum(AuthorsOf(V2)) /\ AuthorsOf(V2) \in SUBSET Authorities
      /\ \A v \in V2 : v \in Blocks /\ v.round = VotingRound(r) /\ b2 \in parents[v]
    BY <1>1, CertificateVotes
<1> HIDE DEF V1, V2
<1>4. PICK a \in AuthorsOf(V1) \cap AuthorsOf(V2) : a \notin Byzantine
    BY <1>2, <1>3, QuorumIntersection
<1>5. PICK v1 \in V1, v2 \in V2 : v1.author = a /\ v2.author = a
    BY <1>4 DEF AuthorsOf
<1>6. v1 = v2
    BY <1>2, <1>3, <1>4, <1>5, OneBlockPerRound
<1> QED
    BY <1>1, <1>2, <1>3, <1>5, <1>6, OneAncestorPerAuthor

LEMMA BlameExcludes == DagInv => BlameExcludesCertificates
<1> SUFFICES ASSUME DagInv, NEW r \in 1..MaxRound, EnoughLeaderBlame(Blocks, r),
                    NEW b \in LeaderBlocks(Blocks, r),
                    NEW c \in AtRound(Blocks, DecisionRound(r)), IsCertificate(c, b)
             PROVE  FALSE
    BY DEF BlameExcludesCertificates
<1> DEFINE votes == {v \in parents[c] : IsVote(v, b)}
           blames == {v \in AtRound(Blocks, VotingRound(r)) :
                        \A p \in parents[v] : p.author # Leader[r]}
<1>1. r \in Nat /\ b \in AtRound(Blocks, r) /\ b.author = Leader[r]
    BY ProposalsAssumption DEF LeaderBlocks
<1>2. /\ IsQuorum(AuthorsOf(votes)) /\ AuthorsOf(votes) \in SUBSET Authorities
      /\ \A v \in votes : v \in Blocks /\ v.round = VotingRound(r) /\ b \in parents[v]
    BY <1>1, CertificateVotes
<1>3. IsQuorum(AuthorsOf(blames)) /\ AuthorsOf(blames) \in SUBSET Authorities
    BY DEF EnoughLeaderBlame, AuthorsOf, AtRound, DagInv, WellFormed
<1>4. \A v \in blames : v \in Blocks /\ v.round = VotingRound(r) /\ b \notin parents[v]
    BY <1>1 DEF AtRound
<1> HIDE DEF votes, blames
<1>5. PICK a \in AuthorsOf(votes) \cap AuthorsOf(blames) : a \notin Byzantine
    BY <1>2, <1>3, QuorumIntersection
<1>6. PICK v \in votes, w \in blames : v.author = a /\ w.author = a
    BY <1>5 DEF AuthorsOf
<1> QED
    BY <1>2, <1>4, <1>5, <1>6, OneBlockPerRound

LEMMA Inherited == DagInv => CertificatesAreInherited
<1> SUFFICES ASSUME DagInv, NEW r \in 1..MaxRound,
                    NEW leader \in DirectlySupported(Blocks, r),
                    NEW b \in Blocks, b.round > DecisionRound(r)
             PROVE  \E c \in AtRound(past[b], DecisionRound(r)) : IsCertificate(c, leader)
    BY DEF CertificatesAreInherited
<1> DEFINE certificates == {c \in AtRound(Blocks, DecisionRound(r)) : IsCertificate(c, leader)}
<1>1. r \in Nat /\ leader.round = r /\ DecisionRound(r) = r + 2 /\ b.round \in Nat
    BY ProposalsAssumption
       DEF DirectlySupported, LeaderBlocks, AtRound, DecisionRound, WaveLength, DagInv, WellFormed
<1>2. IsQuorum(AuthorsOf(certificates)) /\ AuthorsOf(certificates) \in SUBSET Authorities
    BY <1>1 DEF DirectlySupported, EnoughLeaderSupport, AuthorsOf, AtRound, DagInv, WellFormed
<1>3. \A c \in certificates :
        c \in Blocks /\ c.round = DecisionRound(r) /\ IsCertificate(c, leader)
    BY DEF AtRound
<1> HIDE DEF certificates
<1>4. PICK d \in past[b] : d.round = r + 3
    BY <1>1 DEF DagInv, HistoriesClosed
<1>5. d \in Blocks /\ parents[d] \subseteq past[b] /\ parents[d] \subseteq Blocks
    BY <1>4 DEF DagInv, TypeOK, HistoriesClosed
<1>6. Verify(d, parents[d])
    BY <1>1, <1>4, <1>5 DEF DagInv, WellFormed
<1>7. IsQuorum(AuthorsOf(AtRound(parents[d], DecisionRound(r))))
    <2>1. IsQuorum(AuthorsOf(AtRound(parents[d], d.round - 1)))
        BY <1>6 DEF Verify
    <2>2. d.round - 1 = DecisionRound(r)
        BY <1>1, <1>4
    <2> QED
        BY <2>1, <2>2
<1>8. AuthorsOf(AtRound(parents[d], DecisionRound(r))) \in SUBSET Authorities
    BY <1>5 DEF AuthorsOf, AtRound, DagInv, WellFormed
<1>9. PICK a \in AuthorsOf(certificates) \cap AuthorsOf(AtRound(parents[d], DecisionRound(r))) :
            a \notin Byzantine
    BY <1>2, <1>7, <1>8, QuorumIntersection
<1>10. PICK c \in certificates, e \in AtRound(parents[d], DecisionRound(r)) :
            c.author = a /\ e.author = a
    BY <1>9 DEF AuthorsOf
<1>11. c = e
    BY <1>3, <1>5, <1>9, <1>10, OneBlockPerRound DEF AtRound
<1> QED
    BY <1>3, <1>5, <1>10, <1>11 DEF AtRound

(***************************************************************************)
(* The panics "More than one certified block" of base_committer.rs are out *)
(* of reach in every DAG: one leader slot has one certified block at most. *)
(***************************************************************************)
THEOREM OneCertifiedLeaderAlways == Spec => []OneCertifiedLeader
    BY DagInvariant, OneCertified, PTL

(***************************************************************************)
(* A leader that enough_leader_blame skips never gets a certificate.       *)
(***************************************************************************)
THEOREM BlameIsFinal == Spec => []BlameExcludesCertificates
    BY DagInvariant, BlameExcludes, PTL

(***************************************************************************)
(* Once enough_leader_support holds of a leader block, every block above   *)
(* its decision round is linked to one of its certificates.                *)
(***************************************************************************)
THEOREM SupportIsInherited == Spec => []CertificatesAreInherited
    BY DagInvariant, Inherited, PTL
============================================================================
