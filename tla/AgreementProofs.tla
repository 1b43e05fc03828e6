-------------------------- MODULE AgreementProofs --------------------------
(***************************************************************************)
(* Agreement: any two views of a DAG decide every leader slot alike, and a *)
(* decision is kept as the view grows.                                     *)
(*                                                                         *)
(* The statuses of a view are computed from the top round down, so the     *)
(* argument goes down too: of all rounds whose decision is not kept in a   *)
(* larger view, take the highest.  The rounds above it are kept, hence the *)
(* anchor is; what the anchor says of the round cannot contradict a direct *)
(* decision (DagProofs), and is read off the history of the anchor, which  *)
(* both views contain.                                                     *)
(***************************************************************************)
EXTENDS DagProofs, WellFoundedInduction

\* A set of natural numbers that is not empty has a least element.
LEMMA MinOfNats ==
    ASSUME NEW S, S \subseteq Nat, S # {}
    PROVE  Min(S) \in S /\ \A y \in S : Min(S) <= y
<1>1. PICK x \in S : \A y \in S : ~(<<y, x>> \in OpToRel(<, Nat))
    BY WFMin, NatLessThanWellFounded
<1>2. ASSUME NEW y \in S PROVE x <= y
    <2>1. x \in Nat /\ y \in Nat
        OBVIOUS
    <2>2. ~(y < x)
        BY <1>1, <2>1 DEF OpToRel
    <2> QED
        BY <2>1, <2>2
<1> QED
    BY <1>2 DEF Min

\* And one that is bounded has a greatest.
LEMMA MaxOfNats ==
    ASSUME NEW n \in Nat, NEW S, S \subseteq 0..n, S # {}
    PROVE  Max(S) \in S /\ \A y \in S : Max(S) >= y
<1> DEFINE T == {n - x : x \in S}
<1>1. T \subseteq Nat
    OBVIOUS
<1>2. T # {}
    <2>1. PICK x \in S : TRUE
        OBVIOUS
    <2>2. n - x \in T
        BY <2>1
    <2> QED
        BY <2>2
<1>3. PICK m \in T : \A y \in T : m <= y
    BY <1>1, <1>2, MinOfNats
<1>4. PICK x \in S : m = n - x
    OBVIOUS
<1>5. \A y \in S : n - x <= n - y
    BY <1>3, <1>4
<1>6. \A y \in S : x >= y
    BY <1>5
<1> QED
    BY <1>6 DEF Max

-----------------------------------------------------------------------------

\* The status of a round depends on those of the rounds from the first
\* possible anchor on, and on no other.
LEMMA DecideRoundLooksUp ==
    ASSUME NEW V, NEW top \in Int, NEW r \in Nat, NEW f, NEW g,
           \A q \in (r + WaveLength)..top : f[q] = g[q]
    PROVE  DecideRound(V, f, r, top) = DecideRound(V, g, r, top)
<1> DEFINE F == {q \in (r + WaveLength)..top : f[q].kind # "skip"}
           G == {q \in (r + WaveLength)..top : g[q].kind # "skip"}
<1>1. F = G
    OBVIOUS
<1>2. F # {} => f[Min(F)] = g[Min(F)]
    <2> SUFFICES ASSUME F # {} PROVE f[Min(F)] = g[Min(F)]
        OBVIOUS
    <2>1. F \subseteq Nat
        BY DEF WaveLength
    <2>2. Min(F) \in F
        BY <2>1, MinOfNats
    <2> QED
        BY <2>2
<1>3. TryIndirectDecide(V, f, r, top) = TryIndirectDecide(V, g, r, top)
    BY <1>1, <1>2 DEF TryIndirectDecide
<1> QED
    BY <1>3 DEF DecideRound

\* Hence there are statuses that satisfy the rule in all rounds: they can be
\* chosen one by one, from the top round down.
LEMMA StatusesExist ==
    ASSUME NEW V, NEW top \in Int
    PROVE  \E st : st = [r \in 1..top |-> DecideRound(V, st, r, top)]
<1> DEFINE Upto(st, k) == /\ st = [r \in 1..top |-> st[r]]
                          /\ \A r \in 1..top :
                                r > top - k => st[r] = DecideRound(V, st, r, top)
           Bad == {k \in 0..top : ~ \E st : Upto(st, k)}
<1>1. CASE top < 0
    <2> DEFINE st == [r \in 1..top |-> 0]
    <2>1. 1..top = {}
        BY <1>1
    <2>2. st = [r \in 1..top |-> DecideRound(V, st, r, top)]
        BY <2>1
    <2> QED
        BY <2>2
<1>2. CASE top \in Nat
    <2>1. Bad = {}
        <3> SUFFICES ASSUME Bad # {} PROVE FALSE
            OBVIOUS
        <3>1. Bad \subseteq Nat
            OBVIOUS
        <3>2. PICK k \in Bad : \A j \in Bad : k <= j
            BY <3>1, MinOfNats
        <3>3. Upto([r \in 1..top |-> 0], 0)
            OBVIOUS
        <3>4. k # 0
            BY <3>2, <3>3
        <3>5. k - 1 \in 0..top /\ k - 1 \notin Bad
            BY <3>2, <3>4, <1>2
        <3>6. PICK old : Upto(old, k - 1)
            BY <3>5
        <3> DEFINE n == top - k + 1
                   new == [r \in 1..top |->
                              IF r = n THEN DecideRound(V, old, r, top) ELSE old[r]]
        <3>7. n \in 1..top
            BY <3>2, <3>4, <1>2
        <3>8. ASSUME NEW r \in 1..top, r > top - k
              PROVE  new[r] = DecideRound(V, new, r, top)
            <4>1. \A q \in (r + WaveLength)..top : new[q] = old[q]
                BY <3>2, <3>8, <1>2 DEF WaveLength
            <4>2. DecideRound(V, new, r, top) = DecideRound(V, old, r, top)
                <5> HIDE DEF new
                <5>1. r \in Nat
                    OBVIOUS
                <5> QED
                    BY <5>1, <4>1, DecideRoundLooksUp
            <4>3. CASE r = n
                BY <4>2, <4>3
            <4>4. CASE r # n
                <5>1. r > top - (k - 1)
                    BY <4>4, <3>2, <3>8, <1>2
                <5> QED
                    BY <5>1, <4>2, <4>4, <3>6
            <4> QED
                BY <4>3, <4>4
        <3>9. Upto(new, k)
            BY <3>8
        <3> QED
            BY <3>2, <3>9
    <2>2. PICK st : Upto(st, top)
        BY <2>1, <1>2
    <2>3. \A r \in 1..top : st[r] = DecideRound(V, st, r, top)
        BY <2>2, <1>2
    <2>4. st = [r \in 1..top |-> DecideRound(V, st, r, top)]
        BY <2>2, <2>3
    <2> QED
        BY <2>4
<1> QED
    BY <1>1, <1>2

\* LeaderStatuses satisfies its own recursion.
LEMMA StatusesUnfold ==
    ASSUME NEW V, TopRound(V) \in Int
    PROVE  LeaderStatuses(V)
            = [r \in 1..TopRound(V) |-> DecideRound(V, LeaderStatuses(V), r, TopRound(V))]
<1> DEFINE P(st) == st = [r \in 1..TopRound(V) |-> DecideRound(V, st, r, TopRound(V))]
       it == CHOOSE st : P(st)
<1>1. LeaderStatuses(V) = [r \in 1..TopRound(V) |-> it[r]]
    BY DEF LeaderStatuses
<1>2. \E st : P(st)
    BY StatusesExist
<1> HIDE DEF P
<1>3. P(it)
    BY <1>2
<1> HIDE DEF it
<1>4. LeaderStatuses(V) = it
    BY <1>1, <1>3 DEF P
<1>5. P(LeaderStatuses(V))
    BY <1>3, <1>4
<1> QED
    BY <1>5 DEF P

-----------------------------------------------------------------------------

LEMMA TopOfView ==
    ASSUME DagInv, NEW V, IsView(V)
    PROVE  /\ TopRound(V) \in Int
           /\ TopRound(V) <= MaxRound
           /\ \A b \in V : b.round - 2 <= TopRound(V)
           /\ \E b \in V : b.round - 2 = TopRound(V)
<1> DEFINE R == {b.round : b \in V}
<1>1. R \subseteq 0..MaxRound /\ R # {} /\ MaxRound \in Nat
    BY ProposalsAssumption DEF IsView, DagInv, WellFormed
<1>2. Max(R) \in R /\ \A y \in R : Max(R) >= y
    BY <1>1, MaxOfNats
<1>3. TopRound(V) = Max(R) - 2
    BY DEF TopRound, HighestRound
<1>4. Max(R) \in Nat
    BY <1>1, <1>2
<1> HIDE DEF R
<1>5. TopRound(V) \in Int /\ TopRound(V) <= MaxRound
    BY <1>1, <1>2, <1>3, <1>4
<1>6. \A b \in V : b.round \in Nat /\ b.round <= Max(R)
    BY <1>1, <1>2 DEF R
<1>7. \E b \in V : b.round = Max(R)
    BY <1>2 DEF R
<1> QED
    BY <1>3, <1>4, <1>5, <1>6, <1>7

LEMMA TopGrows ==
    ASSUME DagInv, NEW V, NEW W, IsView(V), IsView(W), V \subseteq W
    PROVE  TopRound(V) <= TopRound(W)
<1>1. PICK b \in V : b.round - 2 = TopRound(V)
    BY TopOfView
<1>2. b.round - 2 <= TopRound(W)
    BY TopOfView
<1> QED
    BY <1>1, <1>2

LEMMA StatusesOfView ==
    ASSUME DagInv, NEW V, IsView(V)
    PROVE  /\ DOMAIN LeaderStatuses(V) = 1..TopRound(V)
           /\ \A r \in 1..TopRound(V) :
                LeaderStatuses(V)[r] = DecideRound(V, LeaderStatuses(V), r, TopRound(V))
<1>1. TopRound(V) \in Int
    BY TopOfView
<1> DEFINE st == LeaderStatuses(V)
<1>2. st = [r \in 1..TopRound(V) |-> DecideRound(V, st, r, TopRound(V))]
    BY <1>1, StatusesUnfold
<1> HIDE DEF st
<1>3. DOMAIN st = 1..TopRound(V)
        /\ \A r \in 1..TopRound(V) : st[r] = DecideRound(V, st, r, TopRound(V))
    BY <1>2
<1> QED
    BY <1>3 DEF st

-----------------------------------------------------------------------------

LEMMA QuorumGrows ==
    ASSUME DagInv, NEW S, NEW T, S \subseteq T, T \subseteq Blocks, IsQuorum(AuthorsOf(S))
    PROVE  IsQuorum(AuthorsOf(T))
<1>1. /\ AuthorsOf(S) \in SUBSET Authorities /\ AuthorsOf(T) \in SUBSET Authorities
      /\ AuthorsOf(S) \subseteq AuthorsOf(T)
    BY DEF AuthorsOf, DagInv, WellFormed
<1>2. StakeOf(AuthorsOf(S)) <= StakeOf(AuthorsOf(T))
    BY <1>1, StakeIsMonotone
<1>3. StakeOf(AuthorsOf(S)) \in Nat /\ StakeOf(AuthorsOf(T)) \in Nat /\ TotalStake \in Nat
    BY <1>1, StakeIsAdditive DEF TotalStake
<1>4. QuorumThreshold \in Int
    BY <1>3 DEF QuorumThreshold
<1> QED
    BY <1>2, <1>3, <1>4 DEF IsQuorum

LEMMA BlameGrows ==
    ASSUME DagInv, NEW V, NEW W, V \subseteq W, W \subseteq Blocks, NEW r,
           EnoughLeaderBlame(V, r)
    PROVE  EnoughLeaderBlame(W, r)
<1> DEFINE B(X) == {v \in AtRound(X, VotingRound(r)) :
                        \A p \in parents[v] : p.author # Leader[r]}
<1>1. B(V) \subseteq B(W) /\ B(W) \subseteq Blocks
    BY DEF AtRound
<1>2. IsQuorum(AuthorsOf(B(V)))
    BY DEF EnoughLeaderBlame
<1> HIDE DEF B
<1>3. IsQuorum(AuthorsOf(B(W)))
    BY <1>1, <1>2, QuorumGrows
<1> QED
    BY <1>3 DEF B, EnoughLeaderBlame

LEMMA SupportGrows ==
    ASSUME DagInv, NEW V, NEW W, V \subseteq W, W \subseteq Blocks, NEW r
    PROVE  DirectlySupported(V, r) \subseteq DirectlySupported(W, r)
<1> SUFFICES ASSUME NEW b \in DirectlySupported(V, r) PROVE b \in DirectlySupported(W, r)
    OBVIOUS
<1> DEFINE C(X) == {c \in AtRound(X, DecisionRound(b.round)) : IsCertificate(c, b)}
<1>1. C(V) \subseteq C(W) /\ C(W) \subseteq Blocks
    BY DEF AtRound
<1>2. IsQuorum(AuthorsOf(C(V)))
    BY DEF DirectlySupported, EnoughLeaderSupport
<1> HIDE DEF C
<1>3. IsQuorum(AuthorsOf(C(W)))
    BY <1>1, <1>2, QuorumGrows
<1>4. EnoughLeaderSupport(W, b)
    BY <1>3 DEF C, EnoughLeaderSupport
<1> QED
    BY <1>4 DEF DirectlySupported, LeaderBlocks, AtRound

\* A leader block that is directly supported has a certificate.
LEMMA SupportedIsCertified ==
    ASSUME DagInv, NEW V, V \subseteq Blocks, NEW r, NEW b \in DirectlySupported(V, r)
    PROVE  \E c \in AtRound(Blocks, DecisionRound(r)) : IsCertificate(c, b)
<1> DEFINE C == {c \in AtRound(V, DecisionRound(b.round)) : IsCertificate(c, b)}
<1>1. IsQuorum(AuthorsOf(C)) /\ b.round = r
    BY DEF DirectlySupported, EnoughLeaderSupport, LeaderBlocks, AtRound
<1>2. AuthorsOf(C) # {}
    BY <1>1, QuorumNotEmpty
<1>3. PICK c \in C : TRUE
    BY <1>2 DEF AuthorsOf
<1> QED
    BY <1>1, <1>3 DEF AtRound

\* A leader block that a certificate in a view is about is in the view.
LEMMA CertifiedIsInView ==
    ASSUME DagInv, NEW V, IsView(V), NEW r \in Nat, NEW b \in AtRound(Blocks, r),
           NEW c \in AtRound(V, DecisionRound(r)), IsCertificate(c, b)
    PROVE  b \in V
<1> DEFINE votes == {v \in parents[c] : IsVote(v, b)}
<1>1. c \in V /\ c \in AtRound(Blocks, DecisionRound(r)) /\ c \in Blocks
    BY DEF AtRound, IsView
<1>2. IsQuorum(AuthorsOf(votes))
    BY DEF IsCertificate
<1>3. AuthorsOf(votes) # {}
    BY <1>2, QuorumNotEmpty
<1>4. PICK v \in parents[c] : b \in parents[v]
    BY <1>3 DEF AuthorsOf, IsVote
<1>5. v \in V
    BY <1>1, <1>4 DEF IsView, DagInv, TypeOK
<1>6. b \in past[v]
    BY <1>4, <1>5 DEF IsView, DagInv, TypeOK
<1> QED
    BY <1>5, <1>6 DEF IsView

\* The leader blocks that two certificates are about are the same.
LEMMA CertifiedAreEqual ==
    ASSUME DagInv, NEW r \in 1..MaxRound,
           NEW b1 \in LeaderBlocks(Blocks, r), NEW b2 \in LeaderBlocks(Blocks, r),
           \E c \in AtRound(Blocks, DecisionRound(r)) : IsCertificate(c, b1),
           \E c \in AtRound(Blocks, DecisionRound(r)) : IsCertificate(c, b2)
    PROVE  b1 = b2
    BY OneCertified DEF OneCertifiedLeader

\* What an anchor in a view certifies is the same for every view it is in.
LEMMA AnchorDecidesAlike ==
    ASSUME DagInv, NEW V, NEW W, IsView(V), IsView(W), V \subseteq W,
           NEW r \in Nat, NEW anchor \in V
    PROVE  CertifiedBy(V, anchor, r) = CertifiedBy(W, anchor, r)
<1> SUFFICES ASSUME NEW b \in CertifiedBy(W, anchor, r) PROVE b \in V
    BY DEF CertifiedBy, LeaderBlocks, AtRound
<1>1. PICK c \in AtRound(past[anchor], DecisionRound(r)) : IsCertificate(c, b)
    BY DEF CertifiedBy, AncestorsAtRound
<1>2. c \in AtRound(V, DecisionRound(r)) /\ b \in AtRound(Blocks, r)
    BY <1>1 DEF AtRound, IsView, CertifiedBy, LeaderBlocks
<1> QED
    BY <1>1, <1>2, CertifiedIsInView

-----------------------------------------------------------------------------

LEMMA Kinds ==
    /\ \A b : Commit(b).kind = "commit" /\ Commit(b).block = b /\ IsDecided(Commit(b))
    /\ Skip.kind = "skip" /\ IsDecided(Skip)
    /\ Undecided.kind = "undecided" /\ ~IsDecided(Undecided)
    BY DEF Commit, Skip, Undecided, IsDecided

LEMMA StatusKinds ==
    ASSUME DagInv, NEW V, IsView(V), NEW r \in 1..TopRound(V)
    PROVE  LeaderStatuses(V)[r].kind \in {"commit", "skip", "undecided"}
<1>1. LeaderStatuses(V)[r] = DecideRound(V, LeaderStatuses(V), r, TopRound(V))
    BY StatusesOfView
<1>2. \A S : CommitOr(S, Skip).kind \in {"commit", "skip", "undecided"}
                /\ CommitOr(S, Undecided).kind \in {"commit", "skip", "undecided"}
    BY Kinds DEF CommitOr
<1>3. TryDirectDecide(V, r).kind \in {"commit", "skip", "undecided"}
    BY <1>2, Kinds DEF TryDirectDecide
<1>4. TryIndirectDecide(V, LeaderStatuses(V), r, TopRound(V)).kind
            \in {"commit", "skip", "undecided"}
    BY <1>2, Kinds DEF TryIndirectDecide, DecideLeaderFromAnchor
<1> QED
    BY <1>1, <1>3, <1>4 DEF DecideRound

\* A committed leader is a block of the view, in the slot of the leader.
LEMMA CommittedIsInView ==
    ASSUME DagInv, NEW V, IsView(V), NEW r \in 1..TopRound(V),
           LeaderStatuses(V)[r].kind = "commit"
    PROVE  LeaderStatuses(V)[r].block \in LeaderBlocks(V, r)
<1> DEFINE st == LeaderStatuses(V)
           top == TopRound(V)
<1>1. st[r] = DecideRound(V, st, r, top)
    BY StatusesOfView
<1> HIDE DEF st, top
<1>2. \A S : S # {} => (CHOOSE b \in S : TRUE) \in S
    OBVIOUS
<1>3. CASE IsDecided(TryDirectDecide(V, r))
    <2>1. st[r] = CommitOr(DirectlySupported(V, r), Undecided) /\ DirectlySupported(V, r) # {}
        BY <1>1, <1>3, Kinds DEF DecideRound, TryDirectDecide, CommitOr, st
    <2>2. st[r].block \in DirectlySupported(V, r)
        BY <2>1, <1>2, Kinds DEF CommitOr
    <2> QED
        BY <2>2 DEF DirectlySupported, st
<1>4. CASE ~IsDecided(TryDirectDecide(V, r))
    <2>1. st[r] = TryIndirectDecide(V, st, r, top)
        BY <1>1, <1>4 DEF DecideRound
    <2>2. \E anchor : st[r] = CommitOr(CertifiedBy(V, anchor, r), Skip)
        BY <2>1, Kinds DEF TryIndirectDecide, DecideLeaderFromAnchor, st
    <2>3. PICK anchor : st[r] = CommitOr(CertifiedBy(V, anchor, r), Skip)
        BY <2>2
    <2>4. CertifiedBy(V, anchor, r) # {}
        BY <2>3, Kinds DEF CommitOr, st
    <2>5. st[r].block \in CertifiedBy(V, anchor, r)
        BY <2>3, <2>4, <1>2, Kinds DEF CommitOr
    <2> QED
        BY <2>5 DEF CertifiedBy, st
<1> QED
    BY <1>3, <1>4

\* What the two rules come to, for a round of a view.
LEMMA DecidedBy ==
    ASSUME DagInv, NEW V, IsView(V), NEW r \in 1..TopRound(V),
           IsDecided(LeaderStatuses(V)[r])
    PROVE  \/ /\ EnoughLeaderBlame(V, r)
              /\ LeaderStatuses(V)[r] = Skip
           \/ /\ ~EnoughLeaderBlame(V, r) /\ DirectlySupported(V, r) # {}
              /\ LeaderStatuses(V)[r] = Commit(CHOOSE b \in DirectlySupported(V, r) : TRUE)
           \/ \E q \in (r + WaveLength)..TopRound(V) :
                /\ LeaderStatuses(V)[q].kind = "commit"
                /\ \A p \in (r + WaveLength)..(q - 1) : LeaderStatuses(V)[p].kind = "skip"
                /\ LeaderStatuses(V)[r]
                    = CommitOr(CertifiedBy(V, LeaderStatuses(V)[q].block, r), Skip)
<1> DEFINE st == LeaderStatuses(V)
           top == TopRound(V)
           anchors == {q \in (r + WaveLength)..top : st[q].kind # "skip"}
<1>1. st[r] = DecideRound(V, st, r, top) /\ top \in Int
    BY StatusesOfView, TopOfView
<1>2. \A q \in 1..top : st[q].kind \in {"commit", "skip", "undecided"}
    BY StatusKinds
<1>3. IsDecided(st[r])
    OBVIOUS
<1> HIDE DEF st, top
<1>4. CASE IsDecided(TryDirectDecide(V, r))
    BY <1>1, <1>4, Kinds DEF DecideRound, TryDirectDecide, CommitOr, st
<1>5. CASE ~IsDecided(TryDirectDecide(V, r))
    <2>1. st[r] = TryIndirectDecide(V, st, r, top)
        BY <1>1, <1>5 DEF DecideRound
    <2>2. /\ anchors # {} /\ st[Min(anchors)].kind # "undecided"
          /\ st[r] = CommitOr(CertifiedBy(V, st[Min(anchors)].block, r), Skip)
        BY <2>1, <1>3, Kinds DEF TryIndirectDecide, DecideLeaderFromAnchor
    <2>3. anchors \subseteq Nat
        BY <1>1 DEF WaveLength
    <2> DEFINE q == Min(anchors)
    <2>4. q \in anchors /\ \A p \in anchors : q <= p
        BY <2>2, <2>3, MinOfNats
    <2> HIDE DEF q
    <2>5. q \in (r + WaveLength)..top /\ q \in 1..top /\ st[q].kind = "commit"
        BY <2>2, <2>4, <1>1, <1>2 DEF WaveLength, q
    <2>6. ASSUME NEW p \in (r + WaveLength)..(q - 1) PROVE st[p].kind = "skip"
        <3>1. p \in (r + WaveLength)..top /\ p < q
            BY <2>5, <1>1 DEF WaveLength
        <3> QED
            BY <3>1, <2>4, <2>5
    <2> QED
        BY <2>2, <2>5, <2>6 DEF st, top, q
<1> QED
    BY <1>4, <1>5

-----------------------------------------------------------------------------

\* In a larger view, the blame against a leader excludes what an anchor or a
\* direct decision commits, and the leader that is directly supported is the
\* one that any anchor certifies.
LEMMA DirectRuleIsStrong ==
    ASSUME DagInv, NEW W, IsView(W), NEW r \in 1..MaxRound
    PROVE  /\ EnoughLeaderBlame(W, r) => DirectlySupported(W, r) = {}
           /\ \A anchor \in W : EnoughLeaderBlame(W, r) => CertifiedBy(W, anchor, r) = {}
           /\ \A b1, b2 \in DirectlySupported(W, r) : b1 = b2
           /\ \A anchor \in W : \A b1 \in DirectlySupported(W, r) :
                anchor.round > DecisionRound(r) => CertifiedBy(W, anchor, r) = {b1}
<1> DEFINE certified(b) == \E c \in AtRound(Blocks, DecisionRound(r)) : IsCertificate(c, b)
<1>1. W \subseteq Blocks /\ Blocks \subseteq Blocks
    BY DEF IsView
<1>2. \A b \in DirectlySupported(W, r) : b \in LeaderBlocks(Blocks, r) /\ certified(b)
    BY <1>1, SupportedIsCertified DEF DirectlySupported, LeaderBlocks, AtRound
<1>3. \A anchor \in W : \A b \in CertifiedBy(W, anchor, r) :
            b \in LeaderBlocks(Blocks, r) /\ certified(b)
    BY <1>1 DEF IsView, CertifiedBy, AncestorsAtRound, LeaderBlocks, AtRound
<1>4. EnoughLeaderBlame(W, r) => \A b \in LeaderBlocks(Blocks, r) : ~certified(b)
    BY <1>1, BlameGrows, BlameExcludes DEF BlameExcludesCertificates
<1>5. \A b1, b2 \in LeaderBlocks(Blocks, r) : certified(b1) /\ certified(b2) => b1 = b2
    BY CertifiedAreEqual
<1>6. ASSUME NEW anchor \in W, NEW b \in DirectlySupported(W, r),
             anchor.round > DecisionRound(r)
      PROVE  b \in CertifiedBy(W, anchor, r)
    <2>1. b \in DirectlySupported(Blocks, r) /\ anchor \in Blocks
        BY <1>1, SupportGrows
    <2>2. \E c \in AtRound(past[anchor], DecisionRound(r)) : IsCertificate(c, b)
        BY <2>1, <1>6, Inherited DEF CertificatesAreInherited
    <2> QED
        BY <2>2 DEF CertifiedBy, AncestorsAtRound, DirectlySupported
<1> HIDE DEF certified
<1>7. EnoughLeaderBlame(W, r) => DirectlySupported(W, r) = {}
    BY <1>2, <1>4
<1>8. \A anchor \in W : EnoughLeaderBlame(W, r) => CertifiedBy(W, anchor, r) = {}
    BY <1>3, <1>4
<1>9. \A b1, b2 \in DirectlySupported(W, r) : b1 = b2
    BY <1>2, <1>5
<1>10. ASSUME NEW anchor \in W, NEW b1 \in DirectlySupported(W, r),
              anchor.round > DecisionRound(r)
       PROVE  CertifiedBy(W, anchor, r) = {b1}
    BY <1>2, <1>3, <1>5, <1>6, <1>10
<1> QED
    BY <1>7, <1>8, <1>9, <1>10

\* A round keeps its decision in a larger view if the rounds above it do.
LEMMA RoundIsKept ==
    ASSUME DagInv, NEW V, NEW W, IsView(V), IsView(W), V \subseteq W,
           NEW r \in 1..TopRound(V), IsDecided(LeaderStatuses(V)[r]),
           \A q \in 1..TopRound(V) :
                q > r /\ IsDecided(LeaderStatuses(V)[q])
                    => LeaderStatuses(W)[q] = LeaderStatuses(V)[q]
    PROVE  LeaderStatuses(W)[r] = LeaderStatuses(V)[r]
<1> DEFINE v == LeaderStatuses(V)
           w == LeaderStatuses(W)
           top == TopRound(W)
<1>1. /\ TopRound(V) \in Int /\ top \in Int /\ TopRound(V) <= top
      /\ TopRound(V) <= MaxRound /\ MaxRound \in Nat
    BY TopOfView, TopGrows, ProposalsAssumption
<1>2. r \in 1..top /\ r \in 1..MaxRound /\ r \in Nat
    BY <1>1
<1>3. w[r] = DecideRound(W, w, r, top)
    BY <1>2, StatusesOfView
<1>4. \A q \in 1..TopRound(V) : q > r /\ IsDecided(v[q]) => w[q] = v[q]
    OBVIOUS
<1>5. V \subseteq Blocks /\ W \subseteq Blocks
    BY DEF IsView
<1>6. /\ EnoughLeaderBlame(W, r) => DirectlySupported(W, r) = {}
      /\ \A anchor \in W : EnoughLeaderBlame(W, r) => CertifiedBy(W, anchor, r) = {}
      /\ \A b1, b2 \in DirectlySupported(W, r) : b1 = b2
      /\ \A anchor \in W : \A b1 \in DirectlySupported(W, r) :
            anchor.round > DecisionRound(r) => CertifiedBy(W, anchor, r) = {b1}
    BY <1>2, DirectRuleIsStrong
<1>7. EnoughLeaderBlame(W, r) => w[r] = Skip
    BY <1>3, Kinds DEF DecideRound, TryDirectDecide
<1>8. ~EnoughLeaderBlame(W, r) /\ DirectlySupported(W, r) # {}
        => w[r] = Commit(CHOOSE b \in DirectlySupported(W, r) : TRUE)
    BY <1>3, Kinds DEF DecideRound, TryDirectDecide, CommitOr
<1>9. ~EnoughLeaderBlame(W, r) /\ DirectlySupported(W, r) = {}
        => w[r] = TryIndirectDecide(W, w, r, top)
    BY <1>3, Kinds DEF DecideRound, TryDirectDecide, CommitOr
<1>10. CASE EnoughLeaderBlame(V, r) /\ v[r] = Skip
    BY <1>5, <1>7, <1>10, BlameGrows
<1>11. CASE /\ DirectlySupported(V, r) # {}
            /\ v[r] = Commit(CHOOSE b \in DirectlySupported(V, r) : TRUE)
    <2>1. DirectlySupported(V, r) \subseteq DirectlySupported(W, r)
        BY <1>5, SupportGrows
    <2>2. DirectlySupported(V, r) = DirectlySupported(W, r)
        BY <2>1, <1>6, <1>11
    <2> QED
        BY <2>2, <1>6, <1>8, <1>11
<1>12. ASSUME NEW q \in (r + WaveLength)..TopRound(V),
              v[q].kind = "commit",
              \A p \in (r + WaveLength)..(q - 1) : v[p].kind = "skip",
              v[r] = CommitOr(CertifiedBy(V, v[q].block, r), Skip)
       PROVE  w[r] = v[r]
    <2> DEFINE anchor == v[q].block
    <2>1. q \in 1..TopRound(V) /\ q > r /\ q \in Nat /\ q >= r + 3 /\ q <= top
        BY <1>1, <1>2 DEF WaveLength
    <2>2. anchor \in LeaderBlocks(V, q)
        BY <2>1, <1>12, CommittedIsInView
    <2>3. anchor \in V /\ anchor \in W /\ anchor.round = q /\ anchor.round > DecisionRound(r)
        BY <2>1, <2>2, <1>2 DEF LeaderBlocks, AtRound, DecisionRound, WaveLength
    <2>4. w[q] = v[q]
        BY <2>1, <1>4, <1>12 DEF IsDecided
    <2>5. \A p \in (r + WaveLength)..(q - 1) : w[p].kind = "skip"
        <3> SUFFICES ASSUME NEW p \in (r + WaveLength)..(q - 1) PROVE w[p].kind = "skip"
            OBVIOUS
        <3>1. p \in 1..TopRound(V) /\ p > r
            BY <2>1, <1>1, <1>2 DEF WaveLength
        <3>2. v[p].kind = "skip"
            BY <1>12
        <3> QED
            BY <3>1, <3>2, <1>4 DEF IsDecided
    <2> HIDE DEF v, w, top, anchor
    <2>6. CertifiedBy(V, anchor, r) = CertifiedBy(W, anchor, r)
        BY <2>3, <1>2, AnchorDecidesAlike
    <2>7. v[r] = CommitOr(CertifiedBy(W, anchor, r), Skip)
        BY <2>6, <1>12 DEF anchor
    <2>8. CASE EnoughLeaderBlame(W, r)
        BY <2>3, <2>7, <2>8, <1>6, <1>7 DEF CommitOr
    <2>9. CASE ~EnoughLeaderBlame(W, r) /\ DirectlySupported(W, r) # {}
        <3>1. PICK b \in DirectlySupported(W, r) : TRUE
            BY <2>9
        <3>2. CertifiedBy(W, anchor, r) = {b} /\ DirectlySupported(W, r) = {b}
            BY <3>1, <2>3, <1>6
        <3> QED
            BY <3>2, <2>7, <2>9, <1>8 DEF CommitOr
    <2>10. CASE ~EnoughLeaderBlame(W, r) /\ DirectlySupported(W, r) = {}
        <3> DEFINE anchors == {p \in (r + WaveLength)..top : w[p].kind # "skip"}
        <3>1. q \in anchors
            BY <2>1, <2>4, <1>1, <1>12 DEF WaveLength
        <3>2. anchors \subseteq Nat
            BY <1>1, <1>2 DEF WaveLength
        <3>3. Min(anchors) \in anchors /\ \A p \in anchors : Min(anchors) <= p
            BY <3>1, <3>2, MinOfNats
        <3>4. Min(anchors) = q
            <4> DEFINE m == Min(anchors)
            <4>1. m <= q /\ m \in Nat /\ m \in (r + WaveLength)..top /\ w[m].kind # "skip"
                BY <3>1, <3>2, <3>3
            <4> HIDE DEF m
            <4>2. ~(m < q)
                <5> SUFFICES ASSUME m < q PROVE FALSE
                    OBVIOUS
                <5>1. m \in (r + WaveLength)..(q - 1)
                    BY <4>1, <2>1, <1>1, <1>2 DEF WaveLength
                <5> QED
                    BY <5>1, <4>1, <2>5
            <4> QED
                BY <4>1, <4>2, <2>1 DEF m
        <3>5. TryIndirectDecide(W, w, r, top) = CommitOr(CertifiedBy(W, anchor, r), Skip)
            BY <3>1, <3>4, <2>4, <1>12 DEF TryIndirectDecide, DecideLeaderFromAnchor, anchor
        <3> QED
            BY <3>5, <2>7, <2>10, <1>9
    <2> QED
        BY <2>8, <2>9, <2>10
<1> QED
    BY <1>10, <1>11, <1>12, DecidedBy

\* What is decided in a view is decided alike in every larger one.
Kept(V, W) ==
    \A r \in 1..TopRound(V) :
        IsDecided(LeaderStatuses(V)[r]) => LeaderStatuses(W)[r] = LeaderStatuses(V)[r]

LEMMA DecisionsAreKept ==
    ASSUME DagInv, NEW V, NEW W, IsView(V), IsView(W), V \subseteq W
    PROVE  Kept(V, W)
<1> DEFINE bad == {r \in 1..TopRound(V) : /\ IsDecided(LeaderStatuses(V)[r])
                                          /\ LeaderStatuses(W)[r] # LeaderStatuses(V)[r]}
<1> SUFFICES ASSUME bad # {} PROVE FALSE
    BY DEF Kept
<1>1. bad \subseteq 0..MaxRound /\ MaxRound \in Nat
    BY TopOfView, ProposalsAssumption
<1>2. PICK r \in bad : \A q \in bad : r >= q
    BY <1>1, MaxOfNats
<1>3. r \in 1..TopRound(V) /\ TopRound(V) \in Int
    BY TopOfView
<1>4. \A q \in 1..TopRound(V) :
            q > r /\ IsDecided(LeaderStatuses(V)[q])
                => LeaderStatuses(W)[q] = LeaderStatuses(V)[q]
    BY <1>2, <1>3
<1> QED
    BY <1>2, <1>3, <1>4, RoundIsKept

(***************************************************************************)
(* Agreement: in every reachable DAG, no two views decide a leader slot    *)
(* differently, whatever two authorities have accepted.                    *)
(***************************************************************************)
AllViewsAgree ==
    \A V, W \in SUBSET Blocks :
        IsView(V) /\ IsView(W) => Agree(LeaderStatuses(V), LeaderStatuses(W))

LEMMA DagAgrees == DagInv => AllViewsAgree
<1> SUFFICES ASSUME DagInv, NEW V \in SUBSET Blocks, NEW W \in SUBSET Blocks,
                    IsView(V), IsView(W)
             PROVE  Agree(LeaderStatuses(V), LeaderStatuses(W))
    BY DEF AllViewsAgree
<1> DEFINE U == V \cup W
<1>1. IsView(U) /\ V \subseteq U /\ W \subseteq U
    BY DEF IsView
<1> HIDE DEF U
<1>2. Kept(V, U) /\ Kept(W, U)
    BY <1>1, DecisionsAreKept
<1>3. DOMAIN LeaderStatuses(V) = 1..TopRound(V) /\ DOMAIN LeaderStatuses(W) = 1..TopRound(W)
    BY StatusesOfView
<1> QED
    BY <1>2, <1>3 DEF Kept, Agree

THEOREM Agreement == Spec => []AllViewsAgree
    BY DagInvariant, DagAgrees, PTL

(***************************************************************************)
(* The same for the property that the model checker runs on: the view of   *)
(* the author of a block, when it made the block, and the whole DAG.       *)
(***************************************************************************)
LEMMA HistoriesAreViews ==
    ASSUME DagInv, NEW b \in Blocks
    PROVE  IsView(Blocks) /\ IsView(past[b])
<1>1. \A c \in Blocks : past[c] \subseteq Blocks /\ c \in past[c]
    BY DEF DagInv, TypeOK
<1>2. \A c \in past[b] : past[c] \subseteq past[b]
    BY DEF DagInv, HistoriesClosed
<1> QED
    BY <1>1, <1>2 DEF IsView

LEMMA HistoriesAgree == DagInv => ViewsAgree
<1> SUFFICES ASSUME DagInv, NEW b \in Blocks
             PROVE  Agree(LeaderStatuses(past[b]), LeaderStatuses(Blocks))
    BY DEF ViewsAgree
<1>1. IsView(Blocks) /\ IsView(past[b])
    BY HistoriesAreViews
<1>2. past[b] \in SUBSET Blocks /\ Blocks \in SUBSET Blocks
    BY <1>1 DEF IsView
<1> QED
    BY <1>1, <1>2, DagAgrees DEF AllViewsAgree

THEOREM AuthorsAgree == Spec => []ViewsAgree
    BY DagInvariant, HistoriesAgree, PTL

-----------------------------------------------------------------------------

\* The decisions taken in the views of one state, as formulas about that state
\* alone, to be used in the next state too.
ViewFacts ==
    /\ \A V, W : IsView(V) /\ IsView(W) /\ V \subseteq W => Kept(V, W)
    /\ \A V : IsView(V) =>
        /\ TopRound(V) \in Int /\ TopRound(V) <= MaxRound
        /\ DOMAIN LeaderStatuses(V) = 1..TopRound(V)
        /\ \A r \in 1..TopRound(V) :
            /\ LeaderStatuses(V)[r] = DecideRound(V, LeaderStatuses(V), r, TopRound(V))
            /\ LeaderStatuses(V)[r].kind = "commit"
                    => LeaderStatuses(V)[r].block \in V
    /\ \A V, top, r, f, g :
        /\ top \in Int /\ r \in Nat
        /\ \A q \in (r + WaveLength)..top : f[q] = g[q]
        => DecideRound(V, f, r, top) = DecideRound(V, g, r, top)

LEMMA DagHasViewFacts == DagInv => ViewFacts
<1> SUFFICES ASSUME DagInv PROVE ViewFacts
    OBVIOUS
<1>1. \A V, W : IsView(V) /\ IsView(W) /\ V \subseteq W => Kept(V, W)
    BY DecisionsAreKept
<1>2. ASSUME NEW V, IsView(V)
      PROVE  /\ TopRound(V) \in Int /\ TopRound(V) <= MaxRound
             /\ DOMAIN LeaderStatuses(V) = 1..TopRound(V)
             /\ \A r \in 1..TopRound(V) :
                /\ LeaderStatuses(V)[r] = DecideRound(V, LeaderStatuses(V), r, TopRound(V))
                /\ LeaderStatuses(V)[r].kind = "commit"
                        => LeaderStatuses(V)[r].block \in V
    BY <1>2, TopOfView, StatusesOfView, CommittedIsInView DEF LeaderBlocks, AtRound
<1>3. ASSUME NEW V, NEW top \in Int, NEW r \in Nat, NEW f, NEW g,
             \A q \in (r + WaveLength)..top : f[q] = g[q]
      PROVE  DecideRound(V, f, r, top) = DecideRound(V, g, r, top)
    BY <1>3, DecideRoundLooksUp
<1> QED
    BY <1>1, <1>2, <1>3 DEF ViewFacts

LEMMA NextDagHasViewFacts == DagInv' => ViewFacts'
    BY DagHasViewFacts, PTL

\* What the rule computes on old blocks is not affected by a new one.
LEMMA DecideRoundIsStable ==
    ASSUME DagInv, NEW X, IsView(X), NEW st, NEW r \in Nat, NEW top \in Int,
           \A b \in Blocks : parents'[b] = parents[b] /\ past'[b] = past[b],
           \A q \in (r + WaveLength)..top : st[q].kind = "commit" => st[q].block \in X,
           \A q \in (r + WaveLength)..top : st[q].kind \in {"commit", "skip", "undecided"}
    PROVE  DecideRound(X, st, r, top)' = DecideRound(X, st, r, top)
<1>1. /\ X \subseteq Blocks
      /\ \A b \in X : past[b] \subseteq X /\ parents[b] \subseteq X
      /\ \A b \in X : parents'[b] = parents[b] /\ past'[b] = past[b]
    BY DEF IsView, DagInv, TypeOK
<1>2. EnoughLeaderBlame(X, r)' = EnoughLeaderBlame(X, r)
    <2>1. {v \in AtRound(X, VotingRound(r)) : \A p \in parents'[v] : p.author # Leader[r]}
            = {v \in AtRound(X, VotingRound(r)) : \A p \in parents[v] : p.author # Leader[r]}
        BY <1>1 DEF AtRound
    <2> QED
        BY <2>1 DEF EnoughLeaderBlame
<1>3. \A c \in X : \A b \in X : IsCertificate(c, b)' = IsCertificate(c, b)
    <2> SUFFICES ASSUME NEW c \in X, NEW b \in X
                 PROVE  IsCertificate(c, b)' = IsCertificate(c, b)
        OBVIOUS
    <2>1. {v \in parents'[c] : b \in parents'[v]} = {v \in parents[c] : b \in parents[v]}
        BY <1>1
    <2> QED
        BY <2>1 DEF IsCertificate, IsVote
<1>4. DirectlySupported(X, r)' = DirectlySupported(X, r)
    <2>1. ASSUME NEW b \in LeaderBlocks(X, r)
          PROVE  EnoughLeaderSupport(X, b)' = EnoughLeaderSupport(X, b)
        <3>1. {c \in AtRound(X, DecisionRound(b.round)) : IsCertificate(c, b)'}
                = {c \in AtRound(X, DecisionRound(b.round)) : IsCertificate(c, b)}
            BY <1>3 DEF AtRound, LeaderBlocks
        <3> QED
            BY <3>1 DEF EnoughLeaderSupport
    <2> QED
        BY <2>1 DEF DirectlySupported
<1>5. TryDirectDecide(X, r)' = TryDirectDecide(X, r)
    BY <1>2, <1>4 DEF TryDirectDecide
<1>6. ASSUME NEW anchor \in X
      PROVE  DecideLeaderFromAnchor(X, anchor, r)' = DecideLeaderFromAnchor(X, anchor, r)
    <2>1. CertifiedBy(X, anchor, r)' = CertifiedBy(X, anchor, r)
        BY <1>1, <1>3 DEF CertifiedBy, AncestorsAtRound, AtRound, LeaderBlocks
    <2> QED
        BY <2>1 DEF DecideLeaderFromAnchor
<1>7. TryIndirectDecide(X, st, r, top)' = TryIndirectDecide(X, st, r, top)
    <2> DEFINE anchors == {q \in (r + WaveLength)..top : st[q].kind # "skip"}
    <2>1. CASE anchors = {} \/ st[Min(anchors)].kind = "undecided"
        BY <2>1 DEF TryIndirectDecide
    <2>2. CASE anchors # {} /\ st[Min(anchors)].kind # "undecided"
        <3>1. anchors \subseteq Nat
            BY DEF WaveLength
        <3>2. Min(anchors) \in anchors
            BY <2>2, <3>1, MinOfNats
        <3>3. st[Min(anchors)].block \in X
            BY <2>2, <3>2
        <3> DEFINE anchor == st[Min(anchors)].block
        <3> HIDE DEF anchors
        <3>4. DecideLeaderFromAnchor(X, anchor, r)' = DecideLeaderFromAnchor(X, anchor, r)
            BY <1>6, <3>3
        <3> QED
            BY <2>2, <3>4 DEF TryIndirectDecide, anchors
    <2> QED
        BY <2>1, <2>2
<1> QED
    BY <1>5, <1>7 DEF DecideRound

LEMMA StatusesAreStable ==
    ASSUME DagInv, DagInv', NEW X, IsView(X), IsView(X)',
           \A b \in Blocks : parents'[b] = parents[b] /\ past'[b] = past[b]
    PROVE  \A r \in 1..TopRound(X) : LeaderStatuses(X)'[r] = LeaderStatuses(X)[r]
<1>1. ViewFacts /\ ViewFacts'
    BY DagHasViewFacts, NextDagHasViewFacts
<1>2. PICK top : top = TopRound(X)
    OBVIOUS
<1>3. PICK v : v = LeaderStatuses(X)
    OBVIOUS
<1>4. PICK w : w = LeaderStatuses(X)'
    OBVIOUS
<1>5. TopRound(X)' = top
    BY <1>2 DEF TopRound, HighestRound
<1>6. top \in Int /\ top <= MaxRound /\ MaxRound \in Nat
    BY <1>1, <1>2, ProposalsAssumption DEF ViewFacts
<1>7. \A r \in 1..top : /\ v[r] = DecideRound(X, v, r, top)
                        /\ v[r].kind = "commit" => v[r].block \in X
                        /\ v[r].kind \in {"commit", "skip", "undecided"}
    BY <1>1, <1>2, <1>3, StatusKinds DEF ViewFacts
<1>8. \A r \in 1..top : w[r] = DecideRound(X, w, r, top)'
    <2>1. \A r \in 1..TopRound(X)' :
            LeaderStatuses(X)'[r] = DecideRound(X, LeaderStatuses(X), r, TopRound(X))'
        BY <1>1 DEF ViewFacts
    <2> QED
        BY <2>1, <1>4, <1>5
<1> DEFINE bad == {r \in 1..top : w[r] # v[r]}
<1>9. SUFFICES ASSUME bad # {} PROVE FALSE
    BY <1>2, <1>3, <1>4
<1>10. bad \subseteq 0..MaxRound
    BY <1>6
<1>11. PICK r \in bad : \A q \in bad : r >= q
    BY <1>6, <1>9, <1>10, MaxOfNats
<1>12. r \in 1..top /\ r \in Nat
    BY <1>6, <1>11
<1>13. \A q \in (r + WaveLength)..top : q \in 1..top /\ q > r
    BY <1>6, <1>12 DEF WaveLength
<1>14. \A q \in (r + WaveLength)..top : w[q] = v[q]
    BY <1>11, <1>12, <1>13
<1>15. DecideRound(X, w, r, top)' = DecideRound(X, v, r, top)'
    BY <1>1, <1>6, <1>12, <1>14 DEF ViewFacts
<1>16. DecideRound(X, v, r, top)' = DecideRound(X, v, r, top)
    <2>1. \A q \in (r + WaveLength)..top :
            /\ v[q].kind = "commit" => v[q].block \in X
            /\ v[q].kind \in {"commit", "skip", "undecided"}
        BY <1>7, <1>13
    <2> QED
        BY <2>1, <1>6, <1>12, DecideRoundIsStable
<1> QED
    BY <1>7, <1>8, <1>11, <1>12, <1>15, <1>16

(***************************************************************************)
(* A decision is final: what the leader statuses of the DAG say of a slot  *)
(* never changes once they say commit or skip, whatever block comes next.  *)
(***************************************************************************)
LEMMA StepsKeepDecisions ==
    ASSUME DagInv, DagInv', Next
    PROVE  \A r \in DOMAIN LeaderStatuses(Blocks) :
            IsDecided(LeaderStatuses(Blocks)[r])
                => LeaderStatuses(Blocks)'[r] = LeaderStatuses(Blocks)[r]
<1>1. PICK p \in Proposals : AddBlock(p.block, p.parents)
    BY DEF Next
<1>2. /\ Blocks' = Blocks \cup {p.block}
      /\ Blocks # {}
      /\ \A b \in Blocks : parents'[b] = parents[b] /\ past'[b] = past[b]
    BY <1>1 DEF AddBlock, Blocks, Verify, AuthorsOf
<1>3. PICK X : X = Blocks
    OBVIOUS
<1>4. PICK Y : Y = Blocks'
    OBVIOUS
<1>5. \A b \in Blocks : past[b] \subseteq Blocks
    BY DEF DagInv, TypeOK
<1>6. \A b \in Blocks' : past'[b] \subseteq Blocks'
    BY DEF DagInv, TypeOK
<1>7. IsView(X) /\ IsView(X)'
    BY <1>2, <1>3, <1>5 DEF IsView
<1>8. IsView(Y)' /\ X \subseteq Y
    BY <1>2, <1>3, <1>4, <1>6 DEF IsView
<1>9. \A r \in 1..TopRound(X) : LeaderStatuses(X)'[r] = LeaderStatuses(X)[r]
    BY <1>2, <1>7, StatusesAreStable
<1>10. \A r \in 1..TopRound(X)' :
            IsDecided(LeaderStatuses(X)'[r]) => LeaderStatuses(Y)'[r] = LeaderStatuses(X)'[r]
    BY <1>7, <1>8, NextDagHasViewFacts DEF ViewFacts, Kept, IsDecided
<1>11. TopRound(X)' = TopRound(X) /\ DOMAIN LeaderStatuses(X) = 1..TopRound(X)
    <2>1. TopRound(X)' = TopRound(X)
        BY DEF TopRound, HighestRound
    <2> QED
        BY <2>1, <1>7, StatusesOfView
<1>12. LeaderStatuses(Blocks)' = LeaderStatuses(Y)' /\ LeaderStatuses(Blocks) = LeaderStatuses(X)
    BY <1>3, <1>4
<1> QED
    BY <1>9, <1>10, <1>11, <1>12

THEOREM Finality == Spec => DecisionsAreFinal
<1> DEFINE Keeps == \A r \in DOMAIN LeaderStatuses(Blocks) :
                        IsDecided(LeaderStatuses(Blocks)[r])
                            => LeaderStatuses(Blocks)'[r] = LeaderStatuses(Blocks)[r]
<1>1. DagInv /\ DagInv' /\ [Next]_dagVars => [Keeps]_dagVars
    BY StepsKeepDecisions
<1>2. [Keeps]_dagVars => [LET before == LeaderStatuses(Blocks)
                             after  == LeaderStatuses(Blocks)'
                         IN  \A r \in DOMAIN before :
                                IsDecided(before[r]) => after[r] = before[r]]_dagVars
    OBVIOUS
<1> QED
    BY <1>1, <1>2, DagInvariant, PTL DEF Spec, DecisionsAreFinal
============================================================================
