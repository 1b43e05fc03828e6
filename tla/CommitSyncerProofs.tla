------------------------- MODULE CommitSyncerProofs -------------------------
(***************************************************************************)
(* Proofs about CommitSyncer, for every chain of commits, every batch size *)
(* and parallelism, and whatever the Byzantine peers answer.               *)
(***************************************************************************)
EXTENDS CommitSyncer, FiniteSetTheorems, WellFoundedInduction, TLAPS

Apart(r, q) == r[2] < q[1] \/ q[2] < r[1]

AreRanges(S, top) ==
    /\ \A r \in S : /\ r \in Nat \X Nat /\ r = <<r[1], r[2]>>
                    /\ 1 <= r[1] /\ r[1] <= r[2] /\ r[2] <= top
    /\ \A r, q \in S : r = q \/ Apart(r, q)

AreAfter(S, low) == \A r \in S : low < r[1]

AreSplit(P, I, F) == P \cap I = {} /\ P \cap F = {} /\ I \cap F = {}

CoverFrom(S, low, top) ==
    \A i \in Nat : low < i /\ i <= top => \E r \in S : r[1] <= i /\ i <= r[2]

\* The commits are those of the correct authorities, from start to end.
IsPartOfChain(start, end, commits) ==
    end \in DOMAIN Chain /\ start <= end /\ commits = SubSeq(Chain, start, end)

TypesRight ==
    /\ votes \in [Authorities -> Nat] /\ local \in Nat /\ synced \in Nat /\ scheduled \in Nat

RangesRight ==
    /\ AreRanges(Ranged, scheduled)
    /\ AreSplit(pending, DOMAIN inflight, DOMAIN fetched)
    /\ CoverFrom(Ranged, synced, scheduled)

TasksRight ==
    \A r \in DOMAIN inflight : inflight[r].step \in {"blocks", "done"} =>
        \E end \in Nat : end <= r[2] /\ IsPartOfChain(r[1], end, inflight[r].commits)

FetchedRight == \A r \in DOMAIN fetched : IsPartOfChain(r[1], r[2], fetched[r])

\* A pool: every peer that is not taken is in one of its places.
IsPool(r, p, taken) ==
    /\ r \in Seq(Peers) /\ p \in Seq(Peers) /\ IsInjective(r) /\ IsInjective(p)
    /\ Range(r) \cap Range(p) = {} /\ Range(r) \cap taken = {} /\ Range(p) \cap taken = {}
    /\ Range(r) \cup Range(p) \cup taken = Peers

Taken == {inflight[r].authority : r \in Taking}

PoolRight ==
    /\ IsPool(ready, penalised, Taken)
    /\ \A r, q \in Taking : inflight[r].authority = inflight[q].authority => r = q

SyncerInv ==
    TypesRight /\ RangesRight /\ TasksRight /\ FetchedRight /\ SyncedWithoutGap /\ PoolRight

-----------------------------------------------------------------------------
(* Numbers *)

LEMMA MaxOfTwo ==
    ASSUME NEW m \in Nat, NEW n \in Nat
    PROVE  Max({m, n}) = IF m < n THEN n ELSE m
<1>1. CASE m < n
    <2>1. n \in {m, n} /\ \A y \in {m, n} : n >= y
        BY <1>1
    <2>2. \A x \in {m, n} : (\A y \in {m, n} : x >= y) => x = n
        BY <1>1
    <2> QED
        BY <1>1, <2>1, <2>2 DEF Max
<1>2. CASE ~(m < n)
    <2>1. m \in {m, n} /\ \A y \in {m, n} : m >= y
        BY <1>2
    <2>2. \A x \in {m, n} : (\A y \in {m, n} : x >= y) => x = m
        BY <1>2
    <2> QED
        BY <1>2, <2>1, <2>2 DEF Max
<1> QED
    BY <1>1, <1>2

\* A set of numbers has a least element.
LEMMA HasLeast ==
    ASSUME NEW S \in SUBSET Nat, S # {}
    PROVE  /\ \E m \in S : \A k \in S : m <= k
           /\ Min(S) \in S /\ \A k \in S : Min(S) <= k
<1>1. PICK m \in S : \A k \in S : ~(<<k, m>> \in OpToRel(<, Nat))
    BY NatLessThanWellFounded, WFMin
<1>2. \A k \in S : ~(k < m)
    BY Zenon, <1>1 DEF OpToRel
<1>3. \A k \in S : m <= k
    BY <1>2
<1> QED
    BY Zenon, <1>3 DEF Min

\* A finite set of numbers has a greatest element.
LEMMA FiniteHasMax ==
    ASSUME NEW S \in SUBSET Nat, IsFiniteSet(S), S # {}
    PROVE  Max(S) \in S /\ \A y \in S : Max(S) >= y
<1> DEFINE Bounded(T) == \E x \in T : \A y \in T : x >= y
           K == {n \in Nat : \E T \in SUBSET Nat : /\ IsFiniteSet(T) /\ T # {} /\ Cardinality(T) = n
                                                   /\ ~Bounded(T)}
<1>1. K = {}
    <2> SUFFICES ASSUME K # {} PROVE FALSE
        OBVIOUS
    <2>1. K \in SUBSET Nat
        OBVIOUS
    <2>2. PICK n \in K : \A k \in K : n <= k
        <3> HIDE DEF K
        <3> QED
            BY <2>1, HasLeast
    <2>3. PICK T \in SUBSET Nat : /\ IsFiniteSet(T) /\ T # {} /\ Cardinality(T) = n
                                  /\ ~Bounded(T)
        OBVIOUS
    <2>4. PICK x \in T : TRUE
        BY Zenon, <2>3
    <2> DEFINE U == T \ {x}
    <2>5. IsFiniteSet(U) /\ Cardinality(U) = n - 1 /\ n \in Nat /\ n - 1 \in Nat
        <3>1. IsFiniteSet(U) /\ Cardinality(U) = n - 1
            BY <2>3, <2>4, FS_RemoveElement
        <3>2. Cardinality(U) \in Nat
            BY <3>1, FS_CardinalityType
        <3> QED
            BY <3>1, <3>2
    <2>6. U # {}
        <3>1. U = {} => Bounded(T)
            BY <2>4
        <3> QED
            BY <2>3, <3>1
    <2>7. n - 1 \notin K
        BY <2>2, <2>5
    <2>8. Bounded(U)
        BY Zenon, <2>5, <2>6, <2>7
    <2>9. PICK m \in U : \A y \in U : m >= y
        BY <2>8
    <2>10. CASE x >= m
        <3>1. \A y \in T : x >= y
            BY <2>4, <2>9, <2>10
        <3> QED
            BY <2>3, <2>4, <3>1
    <2>11. CASE ~(x >= m)
        <3>1. \A y \in T : m >= y
            BY <2>4, <2>9, <2>11
        <3> QED
            BY <2>3, <2>9, <3>1
    <2> QED
        BY <2>10, <2>11
<1>2. Bounded(S)
    BY <1>1, FS_CardinalityType
<1> QED
    BY Zenon, <1>2 DEF Max

LEMMA QuorumCommitIndexType ==
    ASSUME NEW v \in [Authorities -> Nat]
    PROVE  QuorumCommitIndex(v) \in Nat
<1> DEFINE V == {v[a] : a \in Authorities}
           W == {i \in V : IsQuorum({a \in Authorities : v[a] >= i})}
<1>1. IsFiniteSet(V)
    <2>1. v \in Surjection(Authorities, V)
        BY DEF Surjection
    <2> QED
        BY <2>1, CommitteeAssumption, FS_Surjection DEF ExistsSurjection
<1>2. V \subseteq Nat /\ W \subseteq V
    OBVIOUS
<1> HIDE DEF V, W
<1>5. IsFiniteSet(W) /\ W \subseteq Nat
    BY Zenon, <1>1, <1>2, FS_Subset
<1>3. IsFiniteSet({0} \cup W) /\ {0} \cup W \subseteq Nat /\ {0} \cup W # {}
    <2>1. IsFiniteSet({0})
        BY Zenon, FS_Singleton
    <2>2. IsFiniteSet({0} \cup W)
        BY Zenon, <1>5, <2>1, FS_Union
    <2> QED
        BY <1>5, <2>2
<1>4. Max({0} \cup W) \in Nat
    BY <1>3, FiniteHasMax
<1> QED
    BY <1>4 DEF QuorumCommitIndex, V, W

LEMMA NewBatchesType ==
    ASSUME NEW after \in Nat, NEW quorum \in Nat
    PROVE  NewBatches(after, quorum) \in Nat
    BY BatchSizeAssumption DEF NewBatches

-----------------------------------------------------------------------------
(* Ranges *)

(***************************************************************************)
(* The new ranges are consecutive, and cover what follows.                 *)
(***************************************************************************)
LEMMA NewRangesFacts ==
    ASSUME NEW after \in Nat, NEW n \in Nat
    PROVE  /\ AreRanges(NewRanges(after, n), after + n * BatchSize)
           /\ AreAfter(NewRanges(after, n), after)
           /\ CoverFrom(NewRanges(after, n), after, after + n * BatchSize)
<1> DEFINE R(k) == <<after + k * BatchSize + 1, after + (k + 1) * BatchSize>>
<1>0. BatchSize \in Nat /\ BatchSize > 0
    BY BatchSizeAssumption
<1>1. \A k \in 0..(n - 1) : R(k) \in NewRanges(after, n)
    BY DEF NewRanges
<1>2. \A r \in NewRanges(after, n) : \E k \in 0..(n - 1) : r = R(k)
    BY DEF NewRanges
<1>3. ASSUME NEW k \in 0..(n - 1)
      PROVE  /\ R(k) \in Nat \X Nat /\ R(k) = <<R(k)[1], R(k)[2]>>
             /\ after < R(k)[1] /\ R(k)[1] <= R(k)[2] /\ R(k)[2] <= after + n * BatchSize
    <2>1. k * BatchSize \in Nat /\ (k + 1) * BatchSize = k * BatchSize + BatchSize
        BY <1>0
    <2>2. (k + 1) * BatchSize <= n * BatchSize
        BY <1>0
    <2>3. n * BatchSize \in Nat
        BY <1>0
    <2> QED
        BY <1>0, <2>1, <2>2, <2>3
<1>4. ASSUME NEW k \in 0..(n - 1), NEW j \in 0..(n - 1), k < j
      PROVE  Apart(R(k), R(j))
    <2>1. (k + 1) * BatchSize <= j * BatchSize
        BY <1>0, <1>4
    <2>2. (k + 1) * BatchSize \in Nat /\ j * BatchSize \in Nat
        BY <1>0
    <2>3. R(k)[2] < R(j)[1]
        BY <2>1, <2>2
    <2> QED
        BY <2>3 DEF Apart
<1>5. ASSUME NEW r \in NewRanges(after, n), NEW q \in NewRanges(after, n)
      PROVE  r = q \/ Apart(r, q)
    <2>1. PICK k \in 0..(n - 1) : r = R(k)
        BY <1>2
    <2>2. PICK j \in 0..(n - 1) : q = R(j)
        BY <1>2
    <2>3. k = j \/ k < j \/ j < k
        OBVIOUS
    <2>4. k < j => Apart(R(k), R(j))
        BY <1>4
    <2>5. j < k => Apart(R(j), R(k))
        BY <1>4
    <2> HIDE DEF R
    <2> QED
        BY <2>1, <2>2, <2>3, <2>4, <2>5 DEF Apart
<1>6. ASSUME NEW i \in Nat, after < i, i <= after + n * BatchSize
      PROVE  \E r \in NewRanges(after, n) : r[1] <= i /\ i <= r[2]
    <2> DEFINE m == i - after - 1
               k == m \div BatchSize
               l == m % BatchSize
    <2>1. m \in Nat /\ n * BatchSize \in Nat /\ m < n * BatchSize
        BY <1>0, <1>6
    <2>2. k \in Int /\ l \in 0..(BatchSize - 1) /\ m = BatchSize * k + l
        BY <1>0, <2>1
    <2> HIDE DEF k, l
    <2>3. k >= 0
        <3>1. SUFFICES ASSUME k <= -1 PROVE FALSE
            BY <2>2
        <3>2. BatchSize * k <= BatchSize * (-1)
            BY <1>0, <2>2, <3>1
        <3> QED
            BY <1>0, <2>1, <2>2, <3>2
    <2>4. k <= n - 1
        <3>1. SUFFICES ASSUME k >= n PROVE FALSE
            BY <2>2
        <3>2. BatchSize * k >= n * BatchSize
            BY <1>0, <2>2, <3>1
        <3> QED
            BY <1>0, <2>1, <2>2, <3>2
    <2>5. k * BatchSize = BatchSize * k /\ (k + 1) * BatchSize = BatchSize * k + BatchSize
          /\ BatchSize * k \in Int
        BY <1>0, <2>2
    <2>6. R(k)[1] <= i /\ i <= R(k)[2]
        <3> DEFINE x == BatchSize * k
        <3>1. R(k)[1] = after + x + 1 /\ R(k)[2] = after + x + BatchSize
            BY <1>0, <2>5
        <3>2. x \in Int /\ i - after - 1 = x + l
            BY <2>2, <2>5
        <3> HIDE DEF x, R
        <3> QED
            BY <1>0, <2>2, <3>1, <3>2
    <2>7. R(k) \in NewRanges(after, n)
        BY <1>1, <2>2, <2>3, <2>4
    <2> HIDE DEF R
    <2> QED
        BY <2>6, <2>7
<1>7. AreRanges(NewRanges(after, n), after + n * BatchSize)
    <2>1. ASSUME NEW r \in NewRanges(after, n)
          PROVE  /\ r \in Nat \X Nat /\ r = <<r[1], r[2]>>
                 /\ 1 <= r[1] /\ r[1] <= r[2] /\ r[2] <= after + n * BatchSize
        <3>1. PICK k \in 0..(n - 1) : r = R(k)
            BY <1>2
        <3>2. /\ r \in Nat \X Nat /\ r = <<r[1], r[2]>>
              /\ after < r[1] /\ r[1] <= r[2] /\ r[2] <= after + n * BatchSize
            BY <1>3, <3>1
        <3> QED
            BY <3>2
    <2> QED
        BY <1>5, <2>1 DEF AreRanges
<1>8. AreAfter(NewRanges(after, n), after)
    BY <1>2, <1>3 DEF AreAfter
<1> QED
    BY <1>6, <1>7, <1>8 DEF CoverFrom

\* Ranges above all others may be added.
LEMMA AddRanges ==
    ASSUME NEW S, NEW N, NEW top \in Nat, NEW after \in Nat, NEW most \in Nat,
           AreRanges(S, top), AreRanges(N, most), top <= after, after <= most,
           AreAfter(N, after)
    PROVE  AreRanges(S \cup N, most) /\ S \cap N = {}
<1>1. \A r \in S, q \in N : r[2] < q[1]
    BY DEF AreRanges, AreAfter
<1>2. \A r \in S : r[1] <= r[2] /\ r[1] \in Nat /\ r[2] \in Nat
    BY DEF AreRanges
<1>3. \A r \in N : r[1] <= r[2] /\ r[1] \in Nat /\ r[2] \in Nat
    BY DEF AreRanges
<1>4. S \cap N = {}
    BY <1>1, <1>2
<1>5. \A r, q \in S \cup N : r = q \/ Apart(r, q)
    BY <1>1 DEF AreRanges, Apart
<1>6. \A r \in S \cup N : /\ r \in Nat \X Nat /\ r = <<r[1], r[2]>>
                          /\ 1 <= r[1] /\ r[1] <= r[2] /\ r[2] <= most
    <2>1. \A r \in S : /\ r \in Nat \X Nat /\ r = <<r[1], r[2]>>
                       /\ 1 <= r[1] /\ r[1] <= r[2] /\ r[2] <= top
        BY DEF AreRanges
    <2>2. \A r \in N : /\ r \in Nat \X Nat /\ r = <<r[1], r[2]>>
                       /\ 1 <= r[1] /\ r[1] <= r[2] /\ r[2] <= most
        BY DEF AreRanges
    <2> QED
        BY <1>2, <2>1, <2>2
<1> QED
    BY <1>4, <1>5, <1>6 DEF AreRanges

\* A range may be cut in two, and the parts dropped or kept.
LEMMA CutRange ==
    ASSUME NEW S, NEW top \in Nat, AreRanges(S, top), NEW r \in S, NEW e \in Nat, r[1] <= e, e <= r[2],
           NEW X, \A q \in X : q = <<r[1], e>> \/ (q = <<e + 1, r[2]>> /\ e < r[2])
    PROVE  AreRanges((S \ {r}) \cup X, top) /\ (S \ {r}) \cap X = {}
<1>1. /\ r \in Nat \X Nat /\ r = <<r[1], r[2]>> /\ r[1] \in Nat /\ r[2] \in Nat
      /\ 1 <= r[1] /\ r[1] <= r[2] /\ r[2] <= top
    BY DEF AreRanges
<1>2. \A q \in X : /\ q \in Nat \X Nat /\ q = <<q[1], q[2]>> /\ q[1] \in Nat /\ q[2] \in Nat
                   /\ r[1] <= q[1] /\ q[1] <= q[2] /\ q[2] <= r[2]
    BY <1>1
<1>3. \A q \in S : q[1] \in Nat /\ q[2] \in Nat /\ q[1] <= q[2]
    BY DEF AreRanges
<1>4. \A p \in S \ {r}, q \in X : Apart(p, q)
    <2>1. \A p \in S \ {r} : Apart(p, r)
        BY DEF AreRanges
    <2> QED
        BY <1>1, <1>2, <1>3, <2>1 DEF Apart
<1>5. \A p, q \in X : p = q \/ Apart(p, q)
    BY <1>1 DEF Apart
<1>6. (S \ {r}) \cap X = {}
    BY <1>2, <1>4 DEF Apart
<1>7. \A p, q \in (S \ {r}) \cup X : p = q \/ Apart(p, q)
    <2>1. \A p, q \in S : p = q \/ Apart(p, q)
        BY DEF AreRanges
    <2>2. \A q \in X, p \in S \ {r} : Apart(q, p)
        BY <1>4 DEF Apart
    <2> QED
        BY <1>4, <1>5, <2>1, <2>2
<1>8. \A q \in (S \ {r}) \cup X : /\ q \in Nat \X Nat /\ q = <<q[1], q[2]>>
                                 /\ 1 <= q[1] /\ q[1] <= q[2] /\ q[2] <= top
    <2>1. \A q \in S : /\ q \in Nat \X Nat /\ q = <<q[1], q[2]>>
                       /\ 1 <= q[1] /\ q[1] <= q[2] /\ q[2] <= top
        BY DEF AreRanges
    <2>2. \A q \in X : 1 <= q[1] /\ q[2] <= top
        BY <1>1, <1>2
    <2> QED
        BY <1>2, <2>1, <2>2
<1> QED
    BY <1>6, <1>7, <1>8 DEF AreRanges

-----------------------------------------------------------------------------
(* Verification *)

\* A quorum has a correct member.
LEMMA QuorumHasCorrect ==
    ASSUME NEW Q \in SUBSET Authorities, IsQuorum(Q)
    PROVE  \E a \in Q : a \notin Byzantine
<1> SUFFICES ASSUME Q \subseteq Byzantine PROVE FALSE
    OBVIOUS
<1> DEFINE R == Byzantine \ Q
<1>1. Q \cup R = Byzantine /\ Q \cap R = {} /\ R \in SUBSET Authorities
    BY CommitteeAssumption
<1>2. StakeOf(Q \cup R) + StakeOf(Q \cap R) = StakeOf(Q) + StakeOf(R)
    BY <1>1, StakeIsAdditive
<1>3. StakeOf(Byzantine) + 0 = StakeOf(Q) + StakeOf(R) /\ StakeOf(Byzantine) \in Nat
    BY Zenon, <1>1, <1>2, StakeIsAdditive, CommitteeAssumption
<1>4. StakeOf(Q) \in Nat /\ StakeOf(R) \in Nat /\ TotalStake \in Nat
    BY Zenon, <1>1, StakeIsAdditive DEF TotalStake
<1> HIDE DEF R
<1>5. StakeOf(Q) >= (2 * TotalStake) \div 3 + 1
    BY DEF IsQuorum, QuorumThreshold
<1>6. 3 * ((2 * TotalStake) \div 3) + 2 >= 2 * TotalStake
    BY <1>4
<1>7. 3 * StakeOf(Byzantine) < TotalStake
    BY BftAssumption
<1> QED
    BY <1>3, <1>4, <1>5, <1>6, <1>7

\* Commits that correct authorities vote for are in the chain.
IsResponse(response) ==
    /\ response.commits \in Seq(Commits)
    /\ \A a \in Authorities \ Byzantine, c \in Commits :
          <<a, c>> \in response.votes => \E i \in DOMAIN Chain : c = Chain[i]

(***************************************************************************)
(* What verify_commits lets through is a part of the chain: the votes      *)
(* certify the last commit, and the digests the earlier ones.              *)
(***************************************************************************)
LEMMA VerifiedIsPartOfChain ==
    ASSUME NEW start \in Nat, start >= 1, NEW end \in Nat, NEW response,
           IsResponse(response), VerifyCommits(start, end, response) # <<>>
    PROVE  \E e \in Nat : e <= end /\ IsPartOfChain(start, e, VerifyCommits(start, end, response))
<1> DEFINE cs == response.commits
           past == {k \in DOMAIN cs : Index[cs[k]] > end}
           n == IF past = {} THEN Len(cs) ELSE Min(past) - 1
           chained(k) == IF k = 1 THEN Index[cs[k]] = start
                         ELSE /\ Index[cs[k]] = Index[cs[k - 1]] + 1
                              /\ Previous[cs[k]] = cs[k - 1]
           Q == {a \in Authorities : <<a, cs[n]>> \in response.votes}
<1>1. /\ n > 0 /\ (\A k \in DOMAIN cs : k <= n + 1 => chained(k)) /\ IsQuorum(Q)
      /\ VerifyCommits(start, end, response) = SubSeq(cs, 1, n)
    BY Zenon DEF VerifyCommits
<1>2. cs \in Seq(Commits) /\ \A k \in 1..Len(cs) : Index[cs[k]] \in Nat
    BY ChainAssumption DEF IsResponse
<1>3. n \in 0..Len(cs) /\ \A k \in 1..n : Index[cs[k]] <= end
    <2>1. CASE past = {}
        BY <1>2, <2>1
    <2>2. CASE past # {}
        <3>1. past \in SUBSET Nat
            BY <1>2
        <3>2. Min(past) \in past /\ \A k \in past : Min(past) <= k
            <4> HIDE DEF past
            <4> QED
                BY <2>2, <3>1, HasLeast
        <3> DEFINE m == Min(past)
        <3>3. m \in past /\ \A k \in past : m <= k
            BY <3>2
        <3>4. n = m - 1
            BY <2>2
        <3> HIDE DEF m, n
        <3>5. m \in 1..Len(cs)
            BY <1>2, <3>3
        <3>6. \A k \in 1..(m - 1) : k \notin past /\ k \in 1..Len(cs)
            <4> HIDE DEF past
            <4> QED
                BY <1>2, <3>1, <3>3, <3>5
        <3>7. \A k \in 1..(m - 1) : Index[cs[k]] <= end
            BY <1>2, <3>6
        <3> QED
            BY <3>4, <3>5, <3>7
    <2> QED
        BY Zenon, <2>1, <2>2
<1> HIDE DEF n
<1>4. \A k \in 1..n : k \in DOMAIN cs /\ chained(k)
    <2>1. \A k \in 1..n : k \in DOMAIN cs /\ k <= n + 1
        BY <1>2, <1>3
    <2> HIDE DEF chained, cs
    <2> QED
        BY <1>1, <2>1
<1>5. \A k \in 1..n : Index[cs[k]] = start + k - 1
    <2> DEFINE D == {k \in 1..n : Index[cs[k]] # start + k - 1}
    <2> SUFFICES ASSUME D # {} PROVE FALSE
        OBVIOUS
    <2>1. D \in SUBSET Nat
        BY <1>3
    <2>3. PICK k \in D : \A j \in D : k <= j
        <3> HIDE DEF D
        <3> QED
            BY Zenon, <2>1, HasLeast
    <2>4. k # 1
        BY <1>4
    <2>5. k - 1 \in 1..n /\ k - 1 \notin D /\ k \in 1..n
        BY <1>3, <2>3, <2>4
    <2>6. Index[cs[k - 1]] = start + k - 2
        BY <2>5
    <2>7. Index[cs[k]] = Index[cs[k - 1]] + 1
        BY <1>4, <2>4, <2>5
    <2> QED
        BY <2>5, <2>6, <2>7
<1>6. n \in Nat /\ n >= 1 /\ cs[n] \in Commits
    BY <1>1, <1>2, <1>3
<1>7. cs[n] = Chain[start + n - 1] /\ start + n - 1 \in DOMAIN Chain
    <2>1. PICK a \in Q : a \notin Byzantine
        BY <1>1, QuorumHasCorrect
    <2>2. PICK i \in DOMAIN Chain : cs[n] = Chain[i]
        BY <1>6, <2>1 DEF IsResponse
    <2>3. i = Index[cs[n]]
        BY <2>2, ChainAssumption
    <2> QED
        BY <1>5, <1>6, <2>2, <2>3
<1>8. DOMAIN Chain = 1..Len(Chain) /\ Len(Chain) \in Nat
    BY ChainAssumption
<1>9. \A k \in 1..n : cs[k] = Chain[start + k - 1]
    <2> DEFINE D == {d \in 0..(n - 1) : cs[n - d] # Chain[start + (n - d) - 1]}
    <2>1. D = {}
        <3> SUFFICES ASSUME D # {} PROVE FALSE
            OBVIOUS
        <3>1. D \in SUBSET Nat
            BY <1>6
        <3>3. PICK d \in D : \A j \in D : d <= j
            <4> HIDE DEF D
            <4> QED
                BY Zenon, <3>1, HasLeast
        <3>4. d # 0
            <4>1. d = 0 => n - d = n
                BY <1>6
            <4> QED
                BY <1>7, <4>1
        <3> DEFINE k == n - d
        <3>5. k \in 1..(n - 1) /\ d - 1 \in 0..(n - 1) /\ d - 1 \notin D /\ n - (d - 1) = k + 1
            <4>1. d \in 0..(n - 1)
                BY <3>3
            <4>2. d - 1 < d /\ d - 1 \in Nat
                BY <3>4, <4>1
            <4>3. d - 1 \notin D
                <5> HIDE DEF D
                <5> QED
                    BY <3>3, <4>1, <4>2
            <4> QED
                BY <1>6, <3>4, <4>1, <4>3
        <3>6. cs[k + 1] = Chain[start + (k + 1) - 1]
            BY <3>5
        <3>7. start + (k + 1) - 1 = start + k /\ start + k - 1 = (start + k) - 1
            BY <3>5
        <3>8. Previous[cs[k + 1]] = cs[(k + 1) - 1] /\ (k + 1) - 1 = k
            <4>1. k + 1 \in 1..n /\ k + 1 # 1 /\ (k + 1) - 1 = k
                BY <1>6, <3>5
            <4> HIDE DEF k
            <4> QED
                BY <1>4, <4>1
        <3>9. start + k \in DOMAIN Chain /\ start + k > 1
            <4> HIDE DEF k
            <4> QED
                BY <1>6, <1>7, <1>8, <3>5
        <3>10. Previous[Chain[start + k]] = Chain[(start + k) - 1]
            BY <3>9, ChainAssumption
        <3>11. cs[k] # Chain[start + k - 1]
            OBVIOUS
        <3> QED
            BY <3>6, <3>7, <3>8, <3>10, <3>11
    <2>2. \A k \in 1..n : n - k \in 0..(n - 1) /\ n - (n - k) = k
        BY <1>6
    <2> QED
        BY <2>1, <2>2
<1> DEFINE e == start + n - 1
<1>10. SubSeq(cs, 1, n) = SubSeq(Chain, start, e)
    <2>1. SubSeq(cs, 1, n) = [k \in 1..n |-> cs[k]]
        BY <1>2, <1>3, <1>6
    <2>2. SubSeq(Chain, start, e) = [k \in 1..n |-> Chain[start + k - 1]]
        BY <1>6, <1>7, <1>8, ChainAssumption
    <2> QED
        BY Zenon, <1>9, <2>1, <2>2
<1>11. e \in Nat /\ start <= e /\ e <= end
    BY <1>3, <1>5, <1>6
<1> QED
    BY Zenon, <1>1, <1>7, <1>10, <1>11 DEF IsPartOfChain

LEMMA ResponsesAreResponses ==
    ASSUME NEW a \in Authorities, NEW start \in Nat, start >= 1, NEW end \in Nat,
           NEW response \in Responses(a, start, end)
    PROVE  IsResponse(response)
<1>1. CASE a \in Byzantine
    BY <1>1, AnswersAssumption DEF Responses, IsResponse
<1>2. CASE a \notin Byzantine
    <2> DEFINE three == {end, start + BatchSize - 1, Certified[a]}
               last == Min(three)
    <2>1. Certified[a] \in 0..Len(Chain) /\ Len(Chain) \in Nat /\ Chain \in Seq(Commits)
        BY AnswersAssumption, ChainAssumption
    <2>2. \E x \in three : \A y \in three : x <= y
        BY <2>1, BatchSizeAssumption
    <2>3. last \in three /\ \A y \in three : last <= y
        <3> HIDE DEF three
        <3> QED
            BY <2>2 DEF Min
    <2>4. last \in Nat /\ last <= Len(Chain)
        BY <2>1, <2>3, BatchSizeAssumption
    <2>5. /\ response.commits = SubSeq(Chain, start, last)
          /\ response.votes = IF last < start THEN {}
                              ELSE {<<b, Chain[last]>> : b \in Peers \ Byzantine}
        <3>1. response = HandleFetchCommits(a, start, end)
            BY <1>2 DEF Responses
        <3> QED
            BY Zenon, <3>1 DEF HandleFetchCommits
    <2> HIDE DEF last, three
    <2>6. response.commits \in Seq(Commits)
        BY <2>1, <2>4, <2>5
    <2>7. ASSUME NEW b \in Authorities \ Byzantine, NEW c \in Commits, <<b, c>> \in response.votes
          PROVE  \E i \in DOMAIN Chain : c = Chain[i]
        <3>1. ~(last < start) /\ c = Chain[last]
            BY <2>5, <2>7
        <3>2. last \in DOMAIN Chain
            BY <2>1, <2>4, <3>1
        <3> QED
            BY <3>1, <3>2
    <2> QED
        BY <2>6, <2>7 DEF IsResponse
<1> QED
    BY <1>1, <1>2

-----------------------------------------------------------------------------
(* The pool of authorities *)

LEMMA TakeFirst ==
    ASSUME NEW s \in Seq(Peers), s # <<>>, IsInjective(s)
    PROVE  /\ Tail(s) \in Seq(Peers) /\ IsInjective(Tail(s))
           /\ Head(s) \in Range(s) /\ Range(Tail(s)) = Range(s) \ {Head(s)}
<1> DEFINE t == Tail(s)
           n == Len(s)
<1>1. /\ n \in Nat /\ n >= 1 /\ DOMAIN s = 1..n /\ t \in Seq(Peers) /\ DOMAIN t = 1..(n - 1)
      /\ Head(s) = s[1] /\ \A k \in 1..(n - 1) : t[k] = s[k + 1]
    OBVIOUS
<1> HIDE DEF n, t
<1>2. \A j, k \in 1..n : s[j] = s[k] => j = k
    BY Zenon, <1>1 DEF IsInjective
<1>3. IsInjective(t)
    <2> SUFFICES ASSUME NEW j \in 1..(n - 1), NEW k \in 1..(n - 1), t[j] = t[k] PROVE j = k
        BY <1>1 DEF IsInjective
    <2>1. j + 1 \in 1..n /\ k + 1 \in 1..n /\ s[j + 1] = s[k + 1]
        BY <1>1
    <2>2. j + 1 = k + 1
        BY <1>2, <2>1
    <2> QED
        BY <2>2
<1>4. 1 \in DOMAIN s
    BY <1>1
<1>5. s[1] \in Range(s)
    BY <1>4 DEF Range
<1>6. ASSUME NEW x \in Range(t) PROVE x \in Range(s) \ {s[1]}
    <2>1. PICK k \in DOMAIN t : x = t[k]
        BY DEF Range
    <2>2. k + 1 \in 1..n /\ x = s[k + 1] /\ k + 1 # 1 /\ 1 \in 1..n
        BY <1>1, <2>1
    <2>3. x # s[1]
        BY <1>2, <2>2
    <2>4. k + 1 \in DOMAIN s
        BY <1>1, <2>2
    <2> QED
        BY <2>2, <2>3, <2>4 DEF Range
<1>7. ASSUME NEW x \in Range(s), x # s[1] PROVE x \in Range(t)
    <2>1. PICK k \in DOMAIN s : x = s[k]
        BY DEF Range
    <2>2. k - 1 \in 1..(n - 1) /\ (k - 1) + 1 = k
        BY <1>1, <1>7, <2>1
    <2>3. x = t[k - 1] /\ k - 1 \in DOMAIN t
        BY <1>1, <2>1, <2>2
    <2> QED
        BY <2>3 DEF Range
<1>8. Range(t) = Range(s) \ {s[1]}
    BY <1>6, <1>7
<1> QED
    BY <1>1, <1>3, <1>5, <1>8 DEF t

LEMMA PutAt ==
    ASSUME NEW s \in Seq(Peers), IsInjective(s), NEW a \in Peers, a \notin Range(s),
           NEW i \in 1..(Len(s) + 1), NEW t, t \in Seq(Peers), Len(t) = Len(s) + 1,
           \A k \in 1..Len(t) : t[k] = IF k < i THEN s[k] ELSE IF k = i THEN a ELSE s[k - 1]
    PROVE  IsInjective(t) /\ Range(t) = Range(s) \cup {a}
<1> DEFINE n == Len(s)
<1>1. n \in Nat /\ DOMAIN s = 1..n /\ DOMAIN t = 1..(n + 1) /\ i \in 1..(n + 1)
    OBVIOUS
<1>2. \A k \in 1..(n + 1) : t[k] = IF k < i THEN s[k] ELSE IF k = i THEN a ELSE s[k - 1]
    BY <1>1
<1> HIDE DEF n
<1>3. \A k \in 1..n : s[k] # a
    BY Zenon, <1>1 DEF Range
<1>4. \A j, k \in 1..n : s[j] = s[k] => j = k
    BY Zenon, <1>1 DEF IsInjective
<1>5. IsInjective(t)
    <2> SUFFICES ASSUME NEW j \in 1..(n + 1), NEW k \in 1..(n + 1), t[j] = t[k], j < k PROVE FALSE
        BY <1>1 DEF IsInjective
    <2>1. CASE k < i
        <3>1. j \in 1..n /\ k \in 1..n /\ t[j] = s[j] /\ t[k] = s[k]
            BY <1>1, <1>2, <2>1
        <3>2. j = k
            BY Zenon, <1>4, <3>1
        <3> QED
            BY <3>2
    <2>2. CASE k = i
        <3>1. j \in 1..n /\ t[j] = s[j] /\ t[k] = a
            BY <1>1, <1>2, <2>2
        <3> QED
            BY Zenon, <1>3, <3>1
    <2>3. CASE k > i /\ j < i
        <3>1. j \in 1..n /\ k - 1 \in 1..n /\ t[j] = s[j] /\ t[k] = s[k - 1]
            BY <1>1, <1>2, <2>3
        <3>2. j = k - 1
            BY Zenon, <1>4, <3>1
        <3> QED
            BY <2>3, <3>2, <1>1
    <2>4. CASE k > i /\ j = i
        <3>1. k - 1 \in 1..n /\ t[j] = a /\ t[k] = s[k - 1]
            BY <1>1, <1>2, <2>4
        <3> QED
            BY Zenon, <1>3, <3>1
    <2>5. CASE j > i
        <3>1. j - 1 \in 1..n /\ k - 1 \in 1..n /\ t[j] = s[j - 1] /\ t[k] = s[k - 1]
            BY <1>1, <1>2, <2>5
        <3>2. j - 1 = k - 1
            BY Zenon, <1>4, <3>1
        <3> QED
            BY <3>2
    <2> QED
        BY <1>1, <2>1, <2>2, <2>3, <2>4, <2>5
<1>6. ASSUME NEW x \in Range(t) PROVE x \in Range(s) \cup {a}
    <2>1. PICK k \in DOMAIN t : x = t[k]
        BY DEF Range
    <2>2. CASE k < i
        <3>1. k \in DOMAIN s /\ x = s[k]
            BY <1>1, <1>2, <2>1, <2>2
        <3> QED
            BY <3>1 DEF Range
    <2>3. CASE k = i
        BY <1>1, <1>2, <2>1, <2>3
    <2>4. CASE k > i
        <3>1. k - 1 \in DOMAIN s /\ x = s[k - 1]
            BY <1>1, <1>2, <2>1, <2>4
        <3> QED
            BY <3>1 DEF Range
    <2> QED
        BY <1>1, <2>2, <2>3, <2>4
<1>7. ASSUME NEW x \in Range(s) PROVE x \in Range(t)
    <2>1. PICK k \in DOMAIN s : x = s[k]
        BY DEF Range
    <2>2. CASE k < i
        <3>1. k \in DOMAIN t /\ x = t[k]
            BY <1>1, <1>2, <2>1, <2>2
        <3> QED
            BY <3>1 DEF Range
    <2>3. CASE ~(k < i)
        <3>1. k + 1 \in DOMAIN t /\ x = t[k + 1]
            BY <1>1, <1>2, <2>1, <2>3
        <3> QED
            BY <3>1 DEF Range
    <2> QED
        BY <2>2, <2>3
<1>8. a \in Range(t)
    <2>1. i \in DOMAIN t /\ a = t[i]
        BY <1>1, <1>2
    <2> QED
        BY <2>1 DEF Range
<1>9. Range(t) = Range(s) \cup {a}
    BY <1>6, <1>7, <1>8
<1> QED
    BY <1>5, <1>9

LEMMA PutLast ==
    ASSUME NEW s \in Seq(Peers), IsInjective(s), NEW a \in Peers, a \notin Range(s)
    PROVE  /\ Append(s, a) \in Seq(Peers) /\ IsInjective(Append(s, a))
           /\ Range(Append(s, a)) = Range(s) \cup {a}
<1> DEFINE t == Append(s, a)
           i == Len(s) + 1
<1>1. t \in Seq(Peers) /\ Len(t) = Len(s) + 1 /\ i \in 1..(Len(s) + 1)
    OBVIOUS
<1>2. \A k \in 1..Len(t) : t[k] = IF k < i THEN s[k] ELSE IF k = i THEN a ELSE s[k - 1]
    OBVIOUS
<1> HIDE DEF t, i
<1>3. IsInjective(t) /\ Range(t) = Range(s) \cup {a}
    BY ZenonT(30), <1>1, <1>2, PutAt
<1> QED
    BY <1>1, <1>3 DEF t

LEMMA Joined ==
    ASSUME NEW S, NEW u \in Seq(S), NEW v \in Seq(S)
    PROVE  u \o v \in Seq(S) /\ Len(u \o v) = Len(u) + Len(v)
OBVIOUS

LEMMA PutInside ==
    ASSUME NEW s \in Seq(Peers), IsInjective(s), NEW a \in Peers, a \notin Range(s),
           NEW i \in 1..(Len(s) + 1)
    PROVE  /\ PutBetween(s, i, a) \in Seq(Peers) /\ IsInjective(PutBetween(s, i, a))
           /\ Range(PutBetween(s, i, a)) = Range(s) \cup {a}
<1> DEFINE t == PutBetween(s, i, a)
           u == SubSeq(s, 1, i - 1)
           v == SubSeq(s, i, Len(s))
<1>1. /\ u \in Seq(Peers) /\ Len(u) = i - 1 /\ \A k \in 1..(i - 1) : u[k] = s[k]
      /\ v \in Seq(Peers) /\ Len(v) = Len(s) - i + 1
      /\ \A k \in 1..(Len(s) - i + 1) : v[k] = s[i + k - 1]
    BY SMTT(30)
<1>2. t = u \o <<a>> \o v
    BY Zenon DEF PutBetween
<1> HIDE DEF t, u, v
<1>6. u \o <<a>> \in Seq(Peers) /\ Len(u \o <<a>>) = i
    <2>1. <<a>> \in Seq(Peers) /\ Len(<<a>>) = 1
        BY SMTT(30)
    <2>2. \A w \in Seq(Peers) : u \o w \in Seq(Peers) /\ Len(u \o w) = Len(u) + Len(w)
        BY Zenon, <1>1, Joined
    <2>3. Len(u) + 1 = i
        BY SMTT(30), <1>1
    <2> QED
        BY Zenon, <2>1, <2>2, <2>3
<1>3. t \in Seq(Peers) /\ Len(t) = Len(s) + 1
    <2> DEFINE w == u \o <<a>>
    <2> HIDE DEF w
    <2>1. t = w \o v /\ w \in Seq(Peers) /\ Len(w) = i
        BY Zenon, <1>2, <1>6 DEF w
    <2>2. w \o v \in Seq(Peers) /\ Len(w \o v) = Len(w) + Len(v)
        BY Zenon, <1>1, <2>1, Joined
    <2> QED
        BY SMTT(30), <1>1, <2>1, <2>2
<1>4. ASSUME NEW k \in 1..Len(t)
      PROVE  t[k] = IF k < i THEN s[k] ELSE IF k = i THEN a ELSE s[k - 1]
    <2>1. CASE k < i
        BY SMTT(30), <1>1, <1>2, <1>3, <2>1
    <2>2. CASE k = i
        BY SMTT(30), <1>1, <1>2, <1>3, <2>2
    <2>3. CASE k > i
        <3>1. t[k] = v[k - i] /\ k - i \in 1..(Len(s) - i + 1)
            <4> DEFINE w == u \o <<a>>
            <4>1. w \in Seq(Peers) /\ Len(w) = i
                BY Zenon, <1>6
            <4>2. t = w \o v
                BY Zenon, <1>2
            <4>3. k - i \in 1..Len(v) /\ Len(v) = Len(s) - i + 1
                BY SMTT(30), <1>1, <1>3, <2>3
            <4>4. k \in 1..(Len(w) + Len(v)) /\ ~(k <= Len(w))
                BY SMTT(30), <1>1, <1>3, <2>3, <4>1
            <4> HIDE DEF w
            <4>5. (w \o v)[k] = v[k - Len(w)]
                BY SMTT(30), <1>1, <4>1, <4>4
            <4> QED
                BY Zenon, <4>1, <4>2, <4>3, <4>5
        <3>2. i + (k - i) - 1 = k - 1
            BY SMTT(30)
        <3> QED
            BY SMTT(30), <1>1, <2>3, <3>1, <3>2
    <2> QED
        BY SMTT(30), <1>3, <2>1, <2>2, <2>3
<1>5. IsInjective(t) /\ Range(t) = Range(s) \cup {a}
    BY ZenonT(30), <1>3, <1>4, PutAt
<1> QED
    BY Zenon, <1>3, <1>5 DEF t

-----------------------------------------------------------------------------
(* The steps *)

LEMMA InitSyncerInv == Init => SyncerInv
<1> SUFFICES ASSUME Init PROVE SyncerInv
    BY Zenon
<1>1. pending = {} /\ DOMAIN inflight = {} /\ DOMAIN fetched = {} /\ synced = 0 /\ scheduled = 0
    BY SMTT(30) DEF Init
<1>2. TypesRight
    BY Zenon DEF Init, TypesRight
<1>3. RangesRight
    BY SMTT(30), <1>1 DEF RangesRight, Ranged, AreRanges, AreSplit, CoverFrom
<1>4. TasksRight /\ FetchedRight
    BY Zenon, <1>1 DEF TasksRight, FetchedRight
<1>5. SyncedWithoutGap
    BY SMTT(30), <1>1 DEF SyncedWithoutGap
<1>6. PoolRight
    <2> DEFINE n == Cardinality(Peers)
    <2>1. IsFiniteSet(Peers) /\ n \in Nat
        BY Zenon, CommitteeAssumption, FS_Subset, FS_CardinalityType DEF Peers
    <2>2. /\ ready \in [1..n -> Peers] /\ IsInjective(ready)
          /\ \A a \in Peers : \E k \in 1..n : ready[k] = a
        BY Zenon DEF Init, Bijection, Injection, Surjection
    <2> HIDE DEF n
    <2>6. ready \in Seq(Peers) /\ IsInjective(ready)
        BY SMTT(30), <2>1, <2>2
    <2>7. Range(ready) = Peers
        BY Zenon, <2>2 DEF Range
    <2>8. penalised = <<>> /\ penalised \in Seq(Peers) /\ Range(penalised) = {} /\ IsInjective(penalised)
        BY SMTT(30) DEF Init, Range, IsInjective
    <2>9. Taking = {} /\ Taken = {}
        BY Zenon, <1>1 DEF Taking, Taken
    <2> QED
        BY Zenon, <2>6, <2>7, <2>8, <2>9 DEF PoolRight, IsPool
<1> QED
    BY Zenon, <1>2, <1>3, <1>4, <1>5, <1>6 DEF SyncerInv

\* Steps that leave the pool alone.
LEMMA SamePool ==
    ASSUME PoolRight, UNCHANGED <<ready, penalised>>, Taking' = Taking,
           \A r \in Taking : inflight'[r] = inflight[r]
    PROVE  PoolRight'
<1>1. Taken' = Taken
    BY Zenon DEF Taken
<1>2. IsPool(ready', penalised', Taken')
    BY Zenon, <1>1 DEF PoolRight
<1>3. \A r, q \in Taking' : inflight'[r].authority = inflight'[q].authority => r = q
    BY SMTT(30) DEF PoolRight
<1> QED
    BY Zenon, <1>2, <1>3 DEF PoolRight, IsPool

\* A task takes an authority.
LEMMA TakePool ==
    ASSUME PoolRight, NEW r, r \notin Taking, Taking' = Taking \cup {r}, NEW a,
           inflight'[r].authority = a, \A q \in Taking : inflight'[q] = inflight[q],
           a \notin Taken, IsPool(ready', penalised', Taken \cup {a})
    PROVE  PoolRight'
<1>1. Taken' = Taken \cup {a}
    BY Zenon DEF Taken
<1>2. IsPool(ready', penalised', Taken')
    BY Zenon, <1>1
<1>3. \A q \in Taking : inflight[q].authority # a
    BY Zenon DEF Taken
<1>4. \A p, q \in Taking' : inflight'[p].authority = inflight'[q].authority => p = q
    BY SMTT(30), <1>3 DEF PoolRight
<1> QED
    BY Zenon, <1>2, <1>4 DEF PoolRight, IsPool

\* A task puts an authority back.
LEMMA GivePool ==
    ASSUME PoolRight, NEW r \in Taking, Taking' = Taking \ {r},
           \A q \in Taking' : inflight'[q] = inflight[q],
           IsPool(ready', penalised', Taken \ {inflight[r].authority})
    PROVE  PoolRight'
<1>1. \A q \in Taking : inflight[q].authority = inflight[r].authority => q = r
    BY Zenon DEF PoolRight
<1>2. Taken' = Taken \ {inflight[r].authority}
    BY Zenon, <1>1 DEF Taken
<1>3. IsPool(ready', penalised', Taken')
    BY Zenon, <1>2
<1>4. \A p, q \in Taking' : inflight'[p].authority = inflight'[q].authority => p = q
    BY SMTT(30) DEF PoolRight
<1> QED
    BY Zenon, <1>3, <1>4 DEF PoolRight, IsPool

(***************************************************************************)
(* New tasks take ranges from the pending ones.                            *)
(***************************************************************************)
LEMMA StartFetchesMoves ==
    ASSUME NEW waiting, NEW todo, AreSplit(todo, DOMAIN inflight, DOMAIN fetched),
           StartFetches(waiting, inflight, todo), TasksRight, PoolRight,
           UNCHANGED <<fetched, ready, penalised>>
    PROVE  /\ Ranged' = todo \cup DOMAIN inflight \cup DOMAIN fetched
           /\ AreSplit(pending', DOMAIN inflight', DOMAIN fetched')
           /\ TasksRight' /\ PoolRight'
<1>1. PICK first \in SUBSET todo :
          /\ pending' = todo \ first
          /\ inflight' = [r \in DOMAIN inflight \cup first |->
                              IF r \in DOMAIN inflight THEN inflight[r] ELSE NewTask]
    BY Zenon DEF StartFetches
<1>2. DOMAIN inflight' = DOMAIN inflight \cup first
    BY Zenon, <1>1
<1>3. Ranged' = todo \cup DOMAIN inflight \cup DOMAIN fetched
    BY Zenon, <1>1, <1>2 DEF Ranged
<1>4. AreSplit(pending', DOMAIN inflight', DOMAIN fetched')
    BY Zenon, <1>1, <1>2 DEF AreSplit
<1>5. ASSUME NEW r \in DOMAIN inflight', inflight'[r].step \in {"blocks", "done"}
      PROVE  r \in DOMAIN inflight /\ inflight'[r] = inflight[r]
    BY Zenon, <1>1, <1>2, <1>5 DEF NewTask
<1>6. TasksRight'
    BY Zenon, <1>5 DEF TasksRight
<1>7. PoolRight'
    <2>1. \A r \in DOMAIN inflight : r \in DOMAIN inflight' /\ inflight'[r] = inflight[r]
        BY Zenon, <1>1, <1>2
    <2>2. \A r \in DOMAIN inflight' \ DOMAIN inflight : inflight'[r].step = "start"
        BY Zenon, <1>1, <1>2 DEF NewTask
    <2>3. Taking' = Taking
        BY Zenon, <1>2, <2>1, <2>2 DEF Taking
    <2> QED
        BY Zenon, <2>1, <2>3, SamePool DEF Taking
<1> QED
    BY Zenon, <1>3, <1>4, <1>6, <1>7

\* Steps that leave the ranges alone.
LEMMA SameRanges ==
    ASSUME RangesRight, pending' = pending, DOMAIN inflight' = DOMAIN inflight,
           DOMAIN fetched' = DOMAIN fetched, synced' = synced, scheduled' = scheduled
    PROVE  RangesRight'
    BY Zenon DEF RangesRight, Ranged, AreSplit, AreRanges, CoverFrom

LEMMA CoreSyncerInv ==
    ASSUME SyncerInv,
           \/ \E b \in BlockVotes : ReceiveBlock(b[1], b[2])
           \/ CommitReceived \/ CommitSynced \/ Elapse
    PROVE  SyncerInv'
<1>1. /\ UNCHANGED <<synced, scheduled, pending, fetched, inflight, sent>>
      /\ local' = local \/ local' = local + 1
    BY Zenon DEF ReceiveBlock, CommitReceived, CommitSynced, CommitNext, Elapse, loop_vars, core_vars
<1>2. votes' \in [Authorities -> Nat]
    <2>1. CASE \E b \in BlockVotes : ReceiveBlock(b[1], b[2])
        <3>1. PICK b \in BlockVotes : ReceiveBlock(b[1], b[2])
            BY Zenon, <2>1
        <3>2. b[1] \in Authorities /\ b[2] \in Nat /\ votes[b[1]] \in Nat
            BY Zenon, AnswersAssumption DEF SyncerInv, TypesRight
        <3>3. Max({votes[b[1]], b[2]}) \in Nat
            BY Zenon, <3>2, MaxOfTwo
        <3> QED
            BY Zenon, <3>1, <3>2, <3>3 DEF ReceiveBlock, SyncerInv, TypesRight
    <2>2. CASE CommitReceived \/ CommitSynced \/ Elapse
        BY Zenon, <2>2 DEF CommitReceived, CommitSynced, CommitNext, Elapse, core_vars, SyncerInv, TypesRight
    <2> QED
        BY Zenon, <2>1, <2>2
<1>3. TypesRight'
    BY SMTT(30), <1>1, <1>2 DEF SyncerInv, TypesRight
<1>4. RangesRight'
    BY Zenon, <1>1, SameRanges DEF SyncerInv
<1>5. TasksRight' /\ FetchedRight'
    BY Zenon, <1>1 DEF SyncerInv, TasksRight, FetchedRight
<1>6. SyncedWithoutGap'
    BY SMTT(30), <1>1 DEF SyncerInv, TypesRight, SyncedWithoutGap
<1>7. PoolRight'
    <2>1. CASE ~Elapse
        BY Zenon, <1>1, <2>1, SamePool DEF SyncerInv, Taking, ReceiveBlock, CommitReceived, CommitSynced,
           CommitNext, task_vars
    <2>2. CASE Elapse
        <3>1. /\ penalised # <<>> /\ ready' = Append(ready, Head(penalised))
              /\ penalised' = Tail(penalised)
            BY Zenon, <2>2 DEF Elapse
        <3>2. /\ ready \in Seq(Peers) /\ penalised \in Seq(Peers)
              /\ IsInjective(ready) /\ IsInjective(penalised)
              /\ Range(ready) \cap Range(penalised) = {} /\ Range(ready) \cap Taken = {}
              /\ Range(penalised) \cap Taken = {} /\ Range(ready) \cup Range(penalised) \cup Taken = Peers
            BY Zenon DEF SyncerInv, PoolRight, IsPool
        <3> DEFINE a == Head(penalised)
        <3>3. /\ penalised' \in Seq(Peers) /\ IsInjective(penalised')
              /\ a \in Range(penalised) /\ Range(penalised') = Range(penalised) \ {a}
            BY Zenon, <3>1, <3>2, TakeFirst
        <3> HIDE DEF a
        <3>4. a \in Peers /\ a \notin Range(ready)
            BY Zenon, <3>2, <3>3
        <3>5. ready' \in Seq(Peers) /\ IsInjective(ready') /\ Range(ready') = Range(ready) \cup {a}
            BY Zenon, <3>1, <3>2, <3>4, PutLast DEF a
        <3>6. IsPool(ready', penalised', Taken)
            BY Zenon, <3>2, <3>3, <3>5 DEF IsPool
        <3>7. Taking' = Taking /\ Taken' = Taken
            BY Zenon, <1>1 DEF Taking, Taken
        <3>8. IsPool(ready', penalised', Taken')
            BY Zenon, <3>6, <3>7
        <3> QED
            BY Zenon, <1>1, <3>7, <3>8 DEF SyncerInv, PoolRight, IsPool
    <2> QED
        BY Zenon, <2>1, <2>2
<1> QED
    BY Zenon, <1>3, <1>4, <1>5, <1>6, <1>7 DEF SyncerInv

LEMMA TickSyncerInv ==
    ASSUME SyncerInv, Tick
    PROVE  SyncerInv'
<1> DEFINE after == Max({synced', scheduled})
           n == NewBatches(after, QuorumCommitIndex(votes))
           N == NewRanges(after, n)
           top == after + n * BatchSize
<1>1. /\ synced' = Max({synced, local})
      /\ scheduled' = IF n = 0 THEN scheduled ELSE top
      /\ StartFetches(Cardinality(DOMAIN fetched), inflight, pending \cup N)
      /\ UNCHANGED <<votes, local, sent, fetched, ready, penalised>>
    BY Zenon DEF Tick, core_vars, task_vars
<1>2. /\ votes \in [Authorities -> Nat] /\ local \in Nat /\ synced \in Nat /\ scheduled \in Nat
    BY Zenon DEF SyncerInv, TypesRight
<1>3. synced' \in Nat /\ synced <= synced' /\ (synced' = synced \/ synced' = local)
    BY SMTT(30), <1>1, <1>2, MaxOfTwo
<1>4. after \in Nat /\ synced' <= after /\ scheduled <= after /\ (after = synced' \/ after = scheduled)
    BY SMTT(30), <1>2, <1>3, MaxOfTwo
<1> HIDE DEF after
<1>5. n \in Nat
    BY Zenon, <1>2, <1>4, QuorumCommitIndexType, NewBatchesType
<1> HIDE DEF n
<1>6. top \in Nat /\ after <= top /\ (n = 0 => top = after)
    BY SMTT(30), <1>4, <1>5, BatchSizeAssumption
<1>7. AreRanges(N, top) /\ AreAfter(N, after) /\ CoverFrom(N, after, top)
    BY Zenon, <1>4, <1>5, NewRangesFacts
<1>8. n = 0 => N = {}
    BY SMTT(30) DEF NewRanges
<1> HIDE DEF N, top
<1>9. AreRanges(Ranged \cup N, top) /\ Ranged \cap N = {}
    <2>1. AreRanges(Ranged, scheduled)
        BY Zenon DEF SyncerInv, RangesRight
    <2> QED
        BY Zenon, <1>2, <1>4, <1>6, <1>7, <2>1, AddRanges
<1>10. AreSplit(pending \cup N, DOMAIN inflight, DOMAIN fetched)
    BY Zenon, <1>9 DEF SyncerInv, RangesRight, AreSplit, Ranged
<1>11. /\ Ranged' = (pending \cup N) \cup DOMAIN inflight \cup DOMAIN fetched
       /\ AreSplit(pending', DOMAIN inflight', DOMAIN fetched')
       /\ TasksRight' /\ PoolRight'
    BY Zenon, <1>1, <1>10, StartFetchesMoves DEF SyncerInv
<1>12. Ranged' = Ranged \cup N
    BY Zenon, <1>11 DEF Ranged
<1>13. scheduled' \in Nat /\ AreRanges(Ranged', scheduled')
    <2>1. CASE n = 0
        BY Zenon, <1>1, <1>2, <1>8, <1>12, <2>1 DEF SyncerInv, RangesRight
    <2>2. CASE n # 0
        BY Zenon, <1>1, <1>6, <1>9, <1>12, <2>2
    <2> QED
        BY Zenon, <2>1, <2>2
<1>14. CoverFrom(Ranged', synced', scheduled')
    <2> SUFFICES ASSUME NEW i \in Nat, synced' < i, i <= scheduled'
                 PROVE  \E r \in Ranged' : r[1] <= i /\ i <= r[2]
        BY Zenon DEF CoverFrom
    <2>1. CASE i <= scheduled
        <3>1. synced < i
            BY SMTT(30), <1>2, <1>3
        <3> QED
            BY Zenon, <1>12, <2>1, <3>1 DEF SyncerInv, RangesRight, CoverFrom
    <2>2. CASE ~(i <= scheduled)
        <3>1. after < i
            BY SMTT(30), <1>2, <1>3, <1>4, <2>2
        <3>2. i <= top
            BY Zenon, <1>1, <1>2, <1>6, <2>2
        <3> QED
            BY Zenon, <1>7, <1>12, <3>1, <3>2 DEF CoverFrom
    <2> QED
        BY Zenon, <2>1, <2>2
<1>15. RangesRight'
    BY Zenon, <1>11, <1>13, <1>14 DEF RangesRight
<1>16. TypesRight' /\ FetchedRight'
    BY Zenon, <1>1, <1>3, <1>13 DEF SyncerInv, TypesRight, FetchedRight
<1>17. SyncedWithoutGap'
    BY Zenon, <1>1, <1>2, <1>3 DEF SyncerInv, SyncedWithoutGap
<1> QED
    BY Zenon, <1>11, <1>15, <1>16, <1>17 DEF SyncerInv

LEMMA JoinSyncerInv ==
    ASSUME SyncerInv, NEW r, Join(r)
    PROVE  SyncerInv'
<1> DEFINE commits == inflight[r].commits
           end == Index[commits[Len(commits)]]
<1>1. /\ r \in DOMAIN inflight /\ inflight[r].step = "done"
      /\ pending' = pending \cup Remainder(r, end) /\ synced' = Max({synced, local})
      /\ fetched' = IF synced' < end THEN Insert(<<r[1], end>>, commits) ELSE fetched
      /\ inflight' = [q \in DOMAIN inflight \ {r} |-> inflight[q]]
      /\ UNCHANGED <<votes, local, sent, scheduled, ready, penalised>>
    BY Zenon DEF Join, core_vars, task_vars
<1>2. /\ local \in Nat /\ synced \in Nat /\ scheduled \in Nat
    BY Zenon DEF SyncerInv, TypesRight
<1>3. synced' \in Nat /\ synced <= synced' /\ (synced' = synced \/ synced' = local)
    <2>1. synced' = IF synced < local THEN local ELSE synced
        <3>1. synced' = Max({synced, local})
            BY Zenon, <1>1
        <3> QED
            BY Zenon, <1>2, <3>1, MaxOfTwo
    <2> QED
        BY SMTT(30), <1>2, <2>1
<1>4. r \in Ranged /\ AreRanges(Ranged, scheduled)
    BY Zenon, <1>1 DEF SyncerInv, RangesRight, Ranged
<1>5. r = <<r[1], r[2]>> /\ r[1] \in Nat /\ r[2] \in Nat /\ 1 <= r[1] /\ r[1] <= r[2]
    BY Zenon, <1>4 DEF AreRanges
<1>6. PICK e \in Nat : e <= r[2] /\ IsPartOfChain(r[1], e, commits)
    BY Zenon, <1>1 DEF SyncerInv, TasksRight
<1>7. end = e
    <2>1. e \in DOMAIN Chain /\ r[1] <= e /\ commits = SubSeq(Chain, r[1], e) /\ Chain \in Seq(Commits)
        BY Zenon, <1>6, ChainAssumption DEF IsPartOfChain
    <2>2. Len(commits) = e - r[1] + 1 /\ commits[Len(commits)] = Chain[e]
        BY SMTT(30), <1>5, <2>1
    <2> QED
        BY Zenon, <2>1, <2>2, ChainAssumption
<1>8. r[1] <= e
    BY Zenon, <1>6 DEF IsPartOfChain
<1> HIDE DEF end
<1> DEFINE A == IF synced' < end THEN {<<r[1], end>>} ELSE {}
           X == Remainder(r, end) \cup A
<1>9. /\ DOMAIN inflight' = DOMAIN inflight \ {r}
      /\ DOMAIN fetched' = DOMAIN fetched \cup A
    BY Zenon, <1>1 DEF Insert
<1>10. /\ \A q \in Remainder(r, end) : q = <<e + 1, r[2]>> /\ e < r[2]
       /\ \A q \in A : q = <<r[1], e>>
    BY Zenon, <1>7 DEF Remainder
<1>11. Remainder(r, end) \cap A = {}
    BY SMTT(30), <1>5, <1>6, <1>8, <1>10
<1>12. r \notin pending /\ r \notin DOMAIN fetched
    BY Zenon, <1>1 DEF SyncerInv, RangesRight, AreSplit
<1>13. Ranged' = (Ranged \ {r}) \cup X
    <2>1. Ranged' = (pending \cup Remainder(r, end)) \cup (DOMAIN inflight \ {r}) \cup (DOMAIN fetched \cup A)
        BY Zenon, <1>1, <1>9 DEF Ranged
    <2> HIDE DEF A
    <2> QED
        BY Zenon, <1>12, <2>1 DEF Ranged
<1>14. \A q \in X : q = <<r[1], e>> \/ (q = <<e + 1, r[2]>> /\ e < r[2])
    BY Zenon, <1>10
<1> HIDE DEF X, A
<1>15. AreRanges(Ranged', scheduled') /\ (Ranged \ {r}) \cap X = {}
    BY <1>1, <1>2, <1>4, <1>6, <1>8, <1>13, <1>14, CutRange, SMTT(30)
<1>16. AreSplit(pending', DOMAIN inflight', DOMAIN fetched')
    <2>1. /\ pending \cap DOMAIN inflight = {} /\ pending \cap DOMAIN fetched = {}
          /\ DOMAIN inflight \cap DOMAIN fetched = {}
        BY Zenon DEF SyncerInv, RangesRight, AreSplit
    <2>2. /\ pending \cap X = {} /\ (DOMAIN inflight \ {r}) \cap X = {} /\ DOMAIN fetched \cap X = {}
        BY Zenon, <1>12, <1>15 DEF Ranged
    <2> QED
        BY Zenon, <1>1, <1>9, <1>11, <2>1, <2>2 DEF AreSplit, X
<1>17. CoverFrom(Ranged', synced', scheduled')
    <2> SUFFICES ASSUME NEW i \in Nat, synced' < i, i <= scheduled'
                 PROVE  \E q \in Ranged' : q[1] <= i /\ i <= q[2]
        BY Zenon DEF CoverFrom
    <2>1. PICK q \in Ranged : q[1] <= i /\ i <= q[2]
        BY SMTT(30), <1>1, <1>2, <1>3 DEF SyncerInv, RangesRight, CoverFrom
    <2>2. CASE q # r
        BY Zenon, <1>13, <2>1, <2>2
    <2>3. CASE q = r /\ i <= e
        <3>1. <<r[1], e>> \in X
            BY SMTT(30), <1>3, <1>7, <2>3 DEF X, A
        <3> QED
            BY SMTT(30), <1>13, <2>1, <2>3, <3>1
    <2>4. CASE q = r /\ ~(i <= e)
        <3>1. e < r[2] /\ e + 1 <= i
            BY SMTT(30), <1>5, <2>1, <2>4
        <3>2. <<e + 1, r[2]>> \in X
            BY Zenon, <1>7, <3>1 DEF X, Remainder
        <3> QED
            BY SMTT(30), <1>13, <2>1, <2>4, <3>1, <3>2
    <2> QED
        BY Zenon, <2>2, <2>3, <2>4
<1>18. RangesRight'
    BY Zenon, <1>15, <1>16, <1>17 DEF RangesRight
<1>19. TypesRight'
    BY Zenon, <1>1, <1>3 DEF SyncerInv, TypesRight
<1>20. TasksRight'
    BY Zenon, <1>1, <1>9 DEF SyncerInv, TasksRight
<1>21. FetchedRight'
    <2>1. CASE synced' < end
        <3>1. fetched' = Insert(<<r[1], e>>, commits)
            BY Zenon, <1>1, <1>7, <2>1
        <3>2. IsPartOfChain(r[1], e, commits)
            BY Zenon, <1>6
        <3> HIDE DEF commits
        <3> QED
            BY SMTT(30), <3>1, <3>2 DEF SyncerInv, FetchedRight, Insert
    <2>2. CASE ~(synced' < end)
        BY Zenon, <1>1, <2>2 DEF SyncerInv, FetchedRight
    <2> QED
        BY Zenon, <2>1, <2>2
<1>22. SyncedWithoutGap'
    BY Zenon, <1>1, <1>2, <1>3 DEF SyncerInv, SyncedWithoutGap
<1>23. PoolRight'
    <2>1. Taking' = Taking /\ \A q \in Taking : inflight'[q] = inflight[q]
        BY Zenon, <1>1, <1>9 DEF Taking
    <2> QED
        BY Zenon, <1>1, <2>1, SamePool DEF SyncerInv
<1> QED
    BY Zenon, <1>18, <1>19, <1>20, <1>21, <1>22, <1>23 DEF SyncerInv

LEMMA SendSyncerInv ==
    ASSUME SyncerInv, NEW r, Send(r)
    PROVE  SyncerInv'
<1>1. /\ r \in DOMAIN fetched /\ r[1] <= synced + 1
      /\ fetched' = [q \in DOMAIN fetched \ {r} |-> fetched[q]]
      /\ sent' = IF r[2] <= synced THEN sent ELSE sent \cup {Index[c] : c \in Range(fetched[r])}
      /\ synced' = Max({synced, r[2]})
      /\ UNCHANGED <<votes, local, scheduled, pending, inflight, ready, penalised>>
    BY Zenon DEF Send, IsFirstFetched, NoGapBefore, task_vars
<1>2. synced \in Nat /\ scheduled \in Nat
    BY Zenon DEF SyncerInv, TypesRight
<1>3. r \in Ranged /\ AreRanges(Ranged, scheduled)
    BY Zenon, <1>1 DEF SyncerInv, RangesRight, Ranged
<1>4. r[1] \in Nat /\ r[2] \in Nat /\ 1 <= r[1] /\ r[1] <= r[2]
    BY Zenon, <1>3 DEF AreRanges
<1>5. synced' = IF synced < r[2] THEN r[2] ELSE synced
    BY Zenon, <1>1, <1>2, <1>4, MaxOfTwo
<1>6. DOMAIN fetched' = DOMAIN fetched \ {r}
    BY Zenon, <1>1
<1>7. Ranged' = Ranged \ {r}
    BY Zenon, <1>1, <1>6 DEF SyncerInv, RangesRight, AreSplit, Ranged
<1>8. RangesRight'
    <2>1. AreRanges(Ranged', scheduled')
        BY Zenon, <1>1, <1>3, <1>7 DEF AreRanges
    <2>2. AreSplit(pending', DOMAIN inflight', DOMAIN fetched')
        BY Zenon, <1>1, <1>6 DEF SyncerInv, RangesRight, AreSplit
    <2>3. ASSUME NEW i \in Nat, synced' < i, i <= scheduled'
          PROVE  \E q \in Ranged' : q[1] <= i /\ i <= q[2]
        <3>1. synced < i /\ ~(i <= r[2])
            BY SMTT(30), <1>2, <1>4, <1>5, <2>3
        <3>2. PICK q \in Ranged : q[1] <= i /\ i <= q[2]
            BY Zenon, <1>1, <2>3, <3>1 DEF SyncerInv, RangesRight, CoverFrom
        <3> QED
            BY Zenon, <1>7, <3>1, <3>2
    <2> QED
        BY Zenon, <2>1, <2>2, <2>3 DEF RangesRight, CoverFrom
<1>9. TypesRight' /\ TasksRight' /\ FetchedRight'
    BY Zenon, <1>1, <1>4, <1>5, <1>6 DEF SyncerInv, TypesRight, TasksRight, FetchedRight
<1>10. SyncedWithoutGap'
    <2>1. CASE r[2] <= synced
        BY SMTT(30), <1>1, <1>2, <1>4, <1>5, <2>1 DEF SyncerInv, SyncedWithoutGap
    <2>2. CASE ~(r[2] <= synced)
        <3>1. /\ r[2] \in DOMAIN Chain /\ fetched[r] = SubSeq(Chain, r[1], r[2])
              /\ Chain \in Seq(Commits)
            BY Zenon, <1>1, ChainAssumption DEF SyncerInv, FetchedRight, IsPartOfChain
        <3>2. ASSUME NEW i \in r[1]..r[2] PROVE i \in sent'
            <4>1. /\ i - r[1] + 1 \in DOMAIN fetched[r] /\ fetched[r][i - r[1] + 1] = Chain[i]
                  /\ i \in DOMAIN Chain
                <5> DEFINE first == r[1]
                           last == r[2]
                           part == SubSeq(Chain, first, last)
                <5>1. first \in Nat /\ last \in Nat /\ 1 <= first /\ last <= Len(Chain) /\ i \in first..last
                    BY SMTT(30), <1>4, <3>1
                <5>2. fetched[r] = part
                    BY Zenon, <3>1
                <5> HIDE DEF first, last
                <5>3. /\ i - first + 1 \in DOMAIN part /\ part[i - first + 1] = Chain[i]
                      /\ i \in DOMAIN Chain
                    <6>1. DOMAIN part = 1..(last - first + 1)
                        BY SMTT(30), <3>1, <5>1
                    <6>2. \A j \in 1..(last - first + 1) : part[j] = Chain[first + j - 1]
                        BY SMTT(30), <3>1, <5>1
                    <6>3. i - first + 1 \in 1..(last - first + 1) /\ first + (i - first + 1) - 1 = i
                        BY SMTT(30), <5>1
                    <6>4. i \in DOMAIN Chain
                        BY SMTT(30), <3>1, <5>1
                    <6> HIDE DEF part
                    <6> QED
                        BY Zenon, <6>1, <6>2, <6>3, <6>4
                <5> QED
                    BY Zenon, <5>2, <5>3 DEF first
            <4>2. Chain[i] \in Range(fetched[r]) /\ Index[Chain[i]] = i
                <5>1. \E j \in DOMAIN fetched[r] : Chain[i] = fetched[r][j]
                    BY Zenon, <4>1
                <5>2. Chain[i] \in Range(fetched[r])
                    BY Zenon, <5>1 DEF Range
                <5>3. Index[Chain[i]] = i
                    BY Zenon, <4>1, ChainAssumption
                <5> QED
                    BY Zenon, <5>2, <5>3
            <4> QED
                BY Zenon, <1>1, <2>2, <4>2
        <3>3. sent \subseteq sent' /\ synced' = r[2] /\ local' = local
            <4>1. synced' = r[2]
                BY SMTT(30), <1>2, <1>4, <1>5, <2>2
            <4>2. sent \subseteq sent' /\ local' = local
                BY Zenon, <1>1
            <4> QED
                BY Zenon, <4>1, <4>2
        <3>4. \A i \in 1..r[2] : i \in 1..synced \/ i \in r[1]..r[2]
            BY SMTT(30), <1>1, <1>2, <1>4
        <3> QED
            BY Zenon, <3>2, <3>3, <3>4 DEF SyncerInv, SyncedWithoutGap
    <2> QED
        BY Zenon, <2>1, <2>2
<1>11. PoolRight'
    BY Zenon, <1>1, SamePool DEF SyncerInv, Taking
<1> QED
    BY Zenon, <1>8, <1>9, <1>10, <1>11 DEF SyncerInv

LEMMA EndDrainSyncerInv ==
    ASSUME SyncerInv, EndDrain
    PROVE  SyncerInv'
<1>1. /\ StartFetches(Cardinality(DOMAIN fetched), inflight, pending)
      /\ UNCHANGED <<votes, local, sent, synced, scheduled, fetched, ready, penalised>>
    BY Zenon DEF EndDrain, core_vars, task_vars
<1>2. /\ Ranged' = pending \cup DOMAIN inflight \cup DOMAIN fetched
      /\ AreSplit(pending', DOMAIN inflight', DOMAIN fetched')
      /\ TasksRight' /\ PoolRight'
    BY Zenon, <1>1, StartFetchesMoves DEF SyncerInv, RangesRight
<1>3. Ranged' = Ranged
    BY Zenon, <1>2 DEF Ranged
<1>4. RangesRight'
    BY Zenon, <1>1, <1>2, <1>3 DEF SyncerInv, RangesRight
<1>5. TypesRight' /\ FetchedRight' /\ SyncedWithoutGap'
    BY Zenon, <1>1 DEF SyncerInv, TypesRight, FetchedRight, SyncedWithoutGap
<1> QED
    BY Zenon, <1>2, <1>4, <1>5 DEF SyncerInv

\* A step of a task that neither takes an authority nor puts one back.
LEMMA TaskKeepsPool ==
    ASSUME PoolRight, NEW r \in DOMAIN inflight, inflight[r].step # "commits",
           NEW step, step # "commits", NEW a, NEW commits, SetTask(r, step, a, commits),
           UNCHANGED <<ready, penalised>>
    PROVE  PoolRight'
<1> DEFINE task == [step |-> step, authority |-> a, commits |-> commits]
<1>1. inflight' = [inflight EXCEPT ![r] = task] /\ task.step = step
    BY Zenon DEF SetTask
<1> HIDE DEF task
<1>2. Taking' = Taking /\ \A q \in Taking : inflight'[q] = inflight[q]
    BY Zenon, <1>1 DEF Taking
<1> QED
    BY Zenon, <1>2, SamePool

(***************************************************************************)
(* A task takes an authority out of the pool, and puts it back once.       *)
(***************************************************************************)
LEMMA TaskPool ==
    ASSUME SyncerInv, NEW r \in DOMAIN inflight, FetchStep(r)
    PROVE  PoolRight'
<1>0. PoolRight
    BY Zenon DEF SyncerInv
<1>1. /\ ready \in Seq(Peers) /\ penalised \in Seq(Peers)
      /\ IsInjective(ready) /\ IsInjective(penalised)
      /\ Range(ready) \cap Range(penalised) = {} /\ Range(ready) \cap Taken = {}
      /\ Range(penalised) \cap Taken = {} /\ Range(ready) \cup Range(penalised) \cup Taken = Peers
    BY Zenon, <1>0 DEF PoolRight, IsPool
<1>2. CASE TakeAuthority(r)
    <2>1. inflight[r].step = "start"
        BY Zenon, <1>2 DEF TakeAuthority, InStep
    <2>2. PICK a : /\ SetTask(r, "commits", a, <<>>)
                   /\ \/ ready # <<>> /\ a = Head(ready) /\ ready' = Tail(ready) /\ UNCHANGED penalised
                      \/ /\ penalised # <<>> /\ a = Head(penalised) /\ penalised' = Tail(penalised)
                         /\ UNCHANGED ready
        BY Zenon, <1>2 DEF TakeAuthority
    <2> DEFINE task == [step |-> "commits", authority |-> a, commits |-> <<>>]
    <2>3. inflight' = [inflight EXCEPT ![r] = task] /\ task.step = "commits" /\ task.authority = a
        BY Zenon, <2>2 DEF SetTask
    <2> HIDE DEF task
    <2>4. /\ r \notin Taking /\ Taking' = Taking \cup {r} /\ inflight'[r].authority = a
          /\ \A q \in Taking : inflight'[q] = inflight[q]
        BY Zenon, <2>1, <2>3 DEF Taking
    <2>5. a \notin Taken /\ IsPool(ready', penalised', Taken \cup {a})
        <3>1. CASE ready # <<>> /\ a = Head(ready) /\ ready' = Tail(ready) /\ UNCHANGED penalised
            <4>1. /\ ready' \in Seq(Peers) /\ IsInjective(ready')
                  /\ a \in Range(ready) /\ Range(ready') = Range(ready) \ {a}
                BY Zenon, <1>1, <3>1, TakeFirst
            <4>2. penalised' = penalised
                BY Zenon, <3>1
            <4> QED
                BY Zenon, <1>1, <4>1, <4>2 DEF IsPool
        <3>2. CASE /\ penalised # <<>> /\ a = Head(penalised) /\ penalised' = Tail(penalised)
                   /\ UNCHANGED ready
            <4>1. /\ penalised' \in Seq(Peers) /\ IsInjective(penalised')
                  /\ a \in Range(penalised) /\ Range(penalised') = Range(penalised) \ {a}
                BY Zenon, <1>1, <3>2, TakeFirst
            <4>2. ready' = ready
                BY Zenon, <3>2
            <4> QED
                BY Zenon, <1>1, <4>1, <4>2 DEF IsPool
        <3> QED
            BY Zenon, <2>2, <3>1, <3>2
    <2> QED
        BY Zenon, <1>0, <2>4, <2>5, TakePool
<1>3. CASE AnswerCommits(r) \/ FailCommits(r)
    <2> DEFINE a == inflight[r].authority
    <2>1. r \in Taking
        BY Zenon, <1>3 DEF AnswerCommits, FailCommits, InStep, Taking
    <2>2. PICK step, b, commits : step # "commits" /\ SetTask(r, step, b, commits)
        BY Zenon, <1>3 DEF AnswerCommits, FailCommits, Restarted
    <2> DEFINE task == [step |-> step, authority |-> b, commits |-> commits]
    <2>3. inflight' = [inflight EXCEPT ![r] = task] /\ task.step # "commits"
        BY Zenon, <2>2 DEF SetTask
    <2> HIDE DEF task
    <2>4. Taking' = Taking \ {r} /\ \A q \in Taking' : inflight'[q] = inflight[q]
        BY Zenon, <2>1, <2>3 DEF Taking
    <2>5. a \in Taken
        BY Zenon, <2>1 DEF Taken
    <2>6. \/ ready' = Append(ready, a) /\ UNCHANGED penalised
          \/ /\ \E i \in 1..(Len(penalised) + 1) : penalised' = PutBetween(penalised, i, a)
             /\ UNCHANGED ready
        BY Zenon, <1>3 DEF AnswerCommits, FailCommits, PutBack
    <2> HIDE DEF a
    <2>7. a \in Peers /\ a \notin Range(ready) /\ a \notin Range(penalised)
        BY Zenon, <1>1, <2>5
    <2>8. IsPool(ready', penalised', Taken \ {a})
        <3>1. CASE ready' = Append(ready, a) /\ UNCHANGED penalised
            <4>1. ready' \in Seq(Peers) /\ IsInjective(ready') /\ Range(ready') = Range(ready) \cup {a}
                BY Zenon, <1>1, <2>7, <3>1, PutLast
            <4>2. penalised' = penalised
                BY Zenon, <3>1
            <4> QED
                BY Zenon, <1>1, <2>5, <2>7, <4>1, <4>2 DEF IsPool
        <3>2. CASE /\ \E i \in 1..(Len(penalised) + 1) : penalised' = PutBetween(penalised, i, a)
                   /\ UNCHANGED ready
            <4>1. /\ penalised' \in Seq(Peers) /\ IsInjective(penalised')
                  /\ Range(penalised') = Range(penalised) \cup {a}
                BY SMTT(30), <1>1, <2>7, <3>2, PutInside
            <4>2. ready' = ready
                BY Zenon, <3>2
            <4> QED
                BY Zenon, <1>1, <2>5, <2>7, <4>1, <4>2 DEF IsPool
        <3> QED
            BY Zenon, <2>6, <3>1, <3>2
    <2> QED
        BY Zenon, <1>0, <2>1, <2>4, <2>8, GivePool DEF a
<1>4. CASE AnswerBlocks(r) \/ FailBlocks(r)
    <2>1. /\ inflight[r].step = "blocks" /\ UNCHANGED <<ready, penalised>>
          /\ \E step, a, commits : step # "commits" /\ SetTask(r, step, a, commits)
        BY Zenon, <1>4 DEF AnswerBlocks, FailBlocks, InStep, Restarted, task_vars
    <2> QED
        BY Zenon, <1>0, <2>1, TaskKeepsPool
<1> QED
    BY Zenon, <1>2, <1>3, <1>4 DEF FetchStep

(***************************************************************************)
(* A step of a task: its commits, if any, are part of the chain.           *)
(***************************************************************************)
LEMMA TaskSyncerInv ==
    ASSUME SyncerInv, NEW r \in DOMAIN inflight, FetchStep(r)
    PROVE  SyncerInv'
<1>1. UNCHANGED <<core_vars, loop_vars>>
    BY Zenon DEF FetchStep, TakeAuthority, AnswerCommits, FailCommits, AnswerBlocks, FailBlocks
<1>2. PICK step, a, commits :
          /\ SetTask(r, step, a, commits)
          /\ step \in {"blocks", "done"} =>
                \E end \in Nat : end <= r[2] /\ IsPartOfChain(r[1], end, commits)
    <2>1. CASE TakeAuthority(r)
        <3>1. \E a : SetTask(r, "commits", a, <<>>)
            BY Zenon, <2>1 DEF TakeAuthority
        <3> QED
            BY SMTT(30), <3>1
    <2>2. CASE AnswerCommits(r)
        <3> DEFINE a == inflight[r].authority
        <3>1. PICK response \in Responses(a, r[1], r[2]) :
                  IF VerifyCommits(r[1], r[2], response) = <<>> THEN Restarted(r)
                  ELSE SetTask(r, "blocks", a, VerifyCommits(r[1], r[2], response))
            BY Zenon, <2>2 DEF AnswerCommits
        <3>2. r[1] \in Nat /\ r[2] \in Nat /\ r[1] >= 1
            BY SMTT(30) DEF SyncerInv, RangesRight, AreRanges, Ranged
        <3>3. CASE VerifyCommits(r[1], r[2], response) = <<>>
            BY SMTT(30), <3>1, <3>3 DEF Restarted
        <3>4. CASE VerifyCommits(r[1], r[2], response) # <<>>
            <4>1. IsResponse(response)
                <5>1. a \in Taken
                    BY Zenon, <2>2 DEF AnswerCommits, InStep, Taking, Taken
                <5>2. a \in Authorities
                    BY Zenon, <5>1 DEF SyncerInv, PoolRight, IsPool, Peers
                <5> HIDE DEF a
                <5> QED
                    BY Zenon, <3>1, <3>2, <5>2, ResponsesAreResponses
            <4>2. \E end \in Nat : /\ end <= r[2]
                                   /\ IsPartOfChain(r[1], end, VerifyCommits(r[1], r[2], response))
                BY Zenon, <3>2, <3>4, <4>1, VerifiedIsPartOfChain
            <4> QED
                BY Zenon, <3>1, <3>4, <4>2
        <3> QED
            BY Zenon, <3>3, <3>4
    <2>3. CASE FailCommits(r) \/ FailBlocks(r)
        <3>1. SetTask(r, "start", Own, <<>>)
            BY Zenon, <2>3 DEF FailCommits, FailBlocks, Restarted
        <3>2. "start" \notin {"blocks", "done"}
            BY Zenon
        <3> QED
            BY Zenon, <3>1, <3>2
    <2>4. CASE AnswerBlocks(r)
        <3>1. inflight[r].step = "blocks" /\ SetTask(r, "done", Own, inflight[r].commits)
            BY Zenon, <2>4 DEF AnswerBlocks, InStep
        <3>2. \E end \in Nat : end <= r[2] /\ IsPartOfChain(r[1], end, inflight[r].commits)
            BY Zenon, <3>1 DEF SyncerInv, TasksRight
        <3> QED
            BY Zenon, <3>1, <3>2
    <2> QED
        BY Zenon, <2>1, <2>2, <2>3, <2>4 DEF FetchStep
<1> DEFINE task == [step |-> step, authority |-> a, commits |-> commits]
<1>3. task.step = step /\ task.commits = commits
    BY Zenon
<1>4. inflight' = [inflight EXCEPT ![r] = task]
    BY Zenon, <1>2 DEF SetTask
<1> HIDE DEF task
<1>5. TasksRight'
    BY Zenon, <1>2, <1>3, <1>4 DEF SyncerInv, TasksRight
<1>6. RangesRight'
    <2>1. DOMAIN inflight' = DOMAIN inflight
        BY Zenon, <1>4
    <2> QED
        BY Zenon, <1>1, <2>1, SameRanges DEF SyncerInv, loop_vars
<1>7. TypesRight' /\ FetchedRight' /\ SyncedWithoutGap'
    BY Zenon, <1>1 DEF SyncerInv, TypesRight, FetchedRight, SyncedWithoutGap, core_vars, loop_vars
<1> QED
    BY Zenon, <1>5, <1>6, <1>7, TaskPool DEF SyncerInv

(***************************************************************************)
(* SyncerInv is an inductive invariant of the commit syncer.               *)
(***************************************************************************)
THEOREM CommitSyncerInvariant == Spec => []SyncerInv
<1>1. ASSUME SyncerInv, [Next]_vars PROVE SyncerInv'
    <2>1. CASE UNCHANGED vars
        <3>1. UNCHANGED <<votes, local, sent, synced, scheduled, pending, inflight, fetched>>
            BY Zenon, <2>1 DEF vars, core_vars, loop_vars
        <3>2. RangesRight'
            BY Zenon, <1>1, <3>1, SameRanges DEF SyncerInv
        <3>4. PoolRight'
            <4>1. UNCHANGED <<ready, penalised>>
                BY Zenon, <2>1 DEF vars, task_vars
            <4> QED
                BY Zenon, <1>1, <3>1, <4>1, SamePool DEF SyncerInv, Taking
        <3>3. TypesRight' /\ TasksRight' /\ FetchedRight' /\ SyncedWithoutGap'
            BY Zenon, <1>1, <3>1 DEF SyncerInv, TypesRight, TasksRight, FetchedRight, SyncedWithoutGap
        <3> QED
            BY Zenon, <3>2, <3>3, <3>4 DEF SyncerInv
    <2>2. CASE Next
        BY Zenon, <1>1, <2>2, CoreSyncerInv, TickSyncerInv, JoinSyncerInv, TaskSyncerInv, SendSyncerInv,
           EndDrainSyncerInv DEF Next
    <2> QED
        BY Zenon, <1>1, <2>1, <2>2
<1> QED
    BY <1>1, InitSyncerInv, PTL DEF Spec

(***************************************************************************)
(* Every commit that the schedule loop has scheduled and not handed to the *)
(* core is in exactly one range of pending_fetches, inflight_fetches and   *)
(* fetched_blocks, with partial results joined in whatever order.          *)
(***************************************************************************)
THEOREM CommitsAreNeverForgotten == Spec => []NoCommitIsForgotten
<1>1. SyncerInv => NoCommitIsForgotten
    <2> SUFFICES ASSUME SyncerInv PROVE NoCommitIsForgotten
        BY Zenon
    <2>1. synced \in Nat /\ scheduled \in Nat
        BY Zenon DEF SyncerInv, TypesRight
    <2>2. AreRanges(Ranged, scheduled)
        BY Zenon DEF SyncerInv, RangesRight
    <2>3. \A r \in Ranged : r[1] \in Nat /\ r[2] \in Nat
        BY Zenon, <2>2 DEF AreRanges
    <2>4. \A i \in (synced + 1)..scheduled : \E r \in Ranged : i \in Covers(r)
        BY SMTT(30), <2>1, <2>3 DEF SyncerInv, RangesRight, CoverFrom, Covers
    <2>5. \A r, q \in Ranged : Covers(r) \cap Covers(q) # {} => r = q
        BY SMTT(30), <2>2, <2>3 DEF AreRanges, Apart, Covers
    <2>6. pending \cap DOMAIN inflight = {} /\ (pending \cup DOMAIN inflight) \cap DOMAIN fetched = {}
        BY Zenon DEF SyncerInv, RangesRight, AreSplit
    <2> QED
        BY Zenon, <2>4, <2>5, <2>6 DEF NoCommitIsForgotten
<1> QED
    BY <1>1, CommitSyncerInvariant, PTL

(***************************************************************************)
(* The comment on synced_commit_index in schedule_loop: the blocks of all  *)
(* commits up to it went to the core, which needs them without gaps.       *)
(***************************************************************************)
THEOREM AlwaysSyncedWithoutGap == Spec => []SyncedWithoutGap
<1>1. SyncerInv => SyncedWithoutGap
    BY Zenon DEF SyncerInv
<1> QED
    BY <1>1, CommitSyncerInvariant, PTL

(***************************************************************************)
(* What passed verify_commits are the commits of the correct authorities,  *)
(* whatever Byzantine peers answer: a quorum of votes for the last commit  *)
(* certifies the earlier ones through their digests.                       *)
(***************************************************************************)
THEOREM FetchedAreAlwaysCertified == Spec => []FetchedAreCertified
<1>1. SyncerInv => FetchedAreCertified
    BY Zenon DEF SyncerInv, FetchedRight, IsPartOfChain, FetchedAreCertified
<1> QED
    BY <1>1, CommitSyncerInvariant, PTL

(***************************************************************************)
(* No authority is lost from available_authorities, or in it twice, across *)
(* the tasks that take them out and put them back, with or without delay.  *)
(***************************************************************************)
THEOREM AuthoritiesAreAlwaysKept == Spec => []AuthoritiesAreKept
<1>1. SyncerInv => AuthoritiesAreKept
    <2> SUFFICES ASSUME SyncerInv PROVE AuthoritiesAreKept
        BY Zenon
    <2>1. /\ IsPool(ready, penalised, Taken)
          /\ \A r, q \in Taking : inflight[r].authority = inflight[q].authority => r = q
        BY Zenon DEF SyncerInv, PoolRight
    <2> QED
        BY Zenon, <2>1 DEF AuthoritiesAreKept, IsPool, Taken
<1> QED
    BY <1>1, CommitSyncerInvariant, PTL

=============================================================================
