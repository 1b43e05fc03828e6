----------------------------- MODULE CoreProofs -----------------------------
(***************************************************************************)
(* Proofs about Core, for every committee, every finite set of blocks of   *)
(* the other authorities and every number of crashes.                      *)
(***************************************************************************)
EXTENDS Core, FiniteSetTheorems, WellFoundedInduction, TLAPS

Refs == [round : Nat, author : Authorities, digest : Nat]

\* The order in which DagState keeps the blocks of an author.
NotAfter(b, c) == b.round < c.round \/ (b.round = c.round /\ b.digest <= c.digest)

Known(S) == S \cup GenesisBlocks

\* What is accepted or written comes with its causal history.
Closed(S) == \A b \in S : ParentsOf(b) \subseteq Known(S)

\* The blocks that this authority has made: all of them are written, one per
\* round, and last_proposed is the highest of them.
OwnChain ==
    /\ DOMAIN links \subseteq stored
    /\ IsFiniteSet(DOMAIN links)
    /\ \A b \in DOMAIN links : b \in Refs /\ b.author = Own /\ b.round <= last_proposed.round
    /\ \A b, c \in DOMAIN links : b.round = c.round => b = c
    /\ last_proposed \in DOMAIN links \cup {Genesis(Own)}
    /\ sent \subseteq DOMAIN links
    /\ step = "broadcast" => last_proposed \in DOMAIN links

\* The clock is in the round after an accepted quorum, and has counted blocks
\* that are accepted.
Founded(c, S) ==
    /\ c \in [round : Nat \ {0}, votes : SUBSET Authorities]
    /\ c.votes \subseteq AuthorsOf(AtRound(Known(S), c.round))
    /\ IsQuorum(AuthorsOf(AtRound(Known(S), c.round - 1)))

ClockIsFounded == Founded(clock, dag)

\* What the last proposed block includes is older than it.
IncludedIsOlder ==
    /\ last_included \in [Authorities -> Int]
    /\ \A a \in Authorities : last_included[a] < last_proposed.round

\* The inductive invariant.
CoreInv ==
    /\ TypeOK
    /\ OwnChain
    /\ Closed(dag)
    /\ Closed(stored)
    /\ OwnBlocksVerify
    /\ ClockIsFounded
    /\ IncludedIsOlder

-----------------------------------------------------------------------------

(***************************************************************************)
(* A quorum stays one when authorities are added to it.                    *)
(***************************************************************************)
LEMMA QuorumIsMonotone ==
    ASSUME NEW S \in SUBSET Authorities, NEW T \in SUBSET Authorities, S \subseteq T,
           IsQuorum(S)
    PROVE  IsQuorum(T)
<1>1. T = S \cup (T \ S) /\ S \cap (T \ S) = {} /\ T \ S \in SUBSET Authorities
    OBVIOUS
<1>2. StakeOf(S \cup (T \ S)) + StakeOf(S \cap (T \ S)) = StakeOf(S) + StakeOf(T \ S)
    BY Zenon, <1>1, StakeIsAdditive
<1>3. StakeOf(T) + 0 = StakeOf(S) + StakeOf(T \ S)
    BY <1>1, <1>2, StakeIsAdditive
<1>4. StakeOf(S) \in Nat /\ StakeOf(T) \in Nat /\ StakeOf(T \ S) \in Nat
    BY Zenon, <1>1, StakeIsAdditive
<1>5. TotalStake \in Nat
    BY Zenon, StakeIsAdditive DEF TotalStake
<1>6. QuorumThreshold \in Nat
    BY <1>5 DEF QuorumThreshold
<1> QED
    BY <1>3, <1>4, <1>6 DEF IsQuorum

(***************************************************************************)
(* The whole committee is a quorum, and no authority at all is none.       *)
(***************************************************************************)
LEMMA QuorumBounds == IsQuorum(Authorities) /\ ~IsQuorum({})
<1>1. TotalStake \in Nat /\ TotalStake # 0 /\ StakeOf({}) = 0
    BY Zenon, StakeIsAdditive, CommitteeAssumption DEF TotalStake
<1>2. StakeOf(Authorities) = TotalStake
    BY DEF TotalStake
<1> HIDE DEF TotalStake
<1> QED
    BY <1>1, <1>2 DEF IsQuorum, QuorumThreshold

LEMMA GenesisTypes ==
    /\ GenesisBlocks \subseteq Refs
    /\ \A g \in GenesisBlocks : g.round = 0 /\ g = Genesis(g.author)
    /\ AuthorsOf(GenesisBlocks) = Authorities
    /\ AtRound(GenesisBlocks, 0) = GenesisBlocks
    /\ \A a \in Authorities : Genesis(a) \in GenesisBlocks
<1>1. \A a \in Authorities : Genesis(a) \in GenesisBlocks /\ Genesis(a).author = a
    BY DEF GenesisBlocks, Genesis
<1>2. \A g \in GenesisBlocks : /\ g \in Refs /\ g.round = 0
                               /\ g.author \in Authorities /\ g = Genesis(g.author)
    BY DEF GenesisBlocks, Refs, Genesis
<1>3. AuthorsOf(GenesisBlocks) = Authorities
    BY <1>1, <1>2 DEF AuthorsOf
<1>4. AtRound(GenesisBlocks, 0) = GenesisBlocks
    BY <1>2 DEF AtRound
<1> QED
    BY <1>1, <1>2, <1>3, <1>4

(***************************************************************************)
(* A finite set of blocks has a greatest one.                              *)
(***************************************************************************)
LEMMA GreatestExists ==
    ASSUME NEW S \in SUBSET Refs, IsFiniteSet(S), S # {}
    PROVE  \E b \in S : \A c \in S : NotAfter(c, b)
<1> DEFINE Has(T) == \E b \in T : \A c \in T : NotAfter(c, b)
           Bad == {T \in FiniteSubsetsOf(S) : T # {} /\ ~Has(T)}
<1> SUFFICES ASSUME S \in Bad PROVE FALSE
    BY DEF FiniteSubsetsOf
<1>1. PICK T \in Bad : \A U \in Bad : ~(<<U, T>> \in StrictSubsetOrdering(S))
    BY Zenon, FS_StrictSubsetOrderingWellFounded, WFMin
<1>2. PICK x \in T : TRUE
    OBVIOUS
<1>3. T \ {x} \in FiniteSubsetsOf(S)
    BY FS_Subset DEF FiniteSubsetsOf
<1>4. T \ {x} \notin Bad
    <2>1. T \in SUBSET S /\ T \ {x} \in SUBSET S
        BY DEF FiniteSubsetsOf
    <2>2. T \ {x} \subseteq T /\ T \ {x} # T
        BY <1>2
    <2>3. <<T \ {x}, T>> \in StrictSubsetOrdering(S)
        <3> HIDE DEF Bad
        <3> QED
            BY <2>1, <2>2 DEF StrictSubsetOrdering
    <2> QED
        BY Zenon, <1>1, <2>3
<1>5. T \subseteq Refs /\ T # {} /\ ~Has(T)
    BY DEF FiniteSubsetsOf
<1>6. CASE T = {x}
    <2>1. NotAfter(x, x)
        BY <1>2, <1>5 DEF NotAfter, Refs
    <2> QED
        BY <1>5, <1>6, <2>1
<1>7. CASE T \ {x} # {}
    <2>1. PICK b \in T \ {x} : \A c \in T \ {x} : NotAfter(c, b)
        BY <1>3, <1>4, <1>7
    <2>2. b \in Refs /\ x \in Refs
        BY <1>2, <1>5
    <2>3. CASE NotAfter(x, b)
        BY <1>5, <2>1, <2>3
    <2>4. CASE ~NotAfter(x, b)
        <3>1. \A c \in T : NotAfter(c, x)
            BY <1>5, <2>1, <2>2, <2>4 DEF NotAfter, Refs
        <3> QED
            BY <1>2, <1>5, <3>1
    <2> QED
        BY <2>3, <2>4
<1> QED
    BY <1>2, <1>6, <1>7

(***************************************************************************)
(* What LastBlock returns: the genesis block when there is no other, and   *)
(* otherwise a block that no other one is after.                           *)
(***************************************************************************)
LEMMA LastBlockIsLast ==
    ASSUME NEW S \in SUBSET Refs, IsFiniteSet(S), NEW a \in Authorities, NEW end \in Nat
    PROVE  LET below == {b \in S : b.author = a /\ b.round < end}
               last  == LastBlock(S, a, end)
           IN  /\ below = {} => last = Genesis(a)
               /\ below # {} => last \in below /\ \A c \in below : c.round <= last.round
<1> DEFINE below == {b \in S : b.author = a /\ b.round < end}
<1>1. CASE below = {}
    BY <1>1 DEF LastBlock
<1>2. CASE below # {}
    <2>1. below \in SUBSET Refs /\ IsFiniteSet(below)
        BY FS_Subset
    <2>2. \E b \in below : \A c \in below : NotAfter(c, b)
        BY <1>2, <2>1, GreatestExists
    <2>3. /\ LastBlock(S, a, end) \in below
          /\ \A c \in below : NotAfter(c, LastBlock(S, a, end))
        BY <1>2, <2>2 DEF LastBlock, NotAfter
    <2> QED
        BY <1>2, <2>1, <2>3 DEF NotAfter, Refs
<1> QED
    BY <1>1, <1>2

(***************************************************************************)
(* HighestAcceptedRound is the round of a block, and none is above it.     *)
(***************************************************************************)
LEMMA HighestIsHighest ==
    ASSUME NEW S \in SUBSET Refs, IsFiniteSet(S)
    PROVE  LET top == HighestAcceptedRound(S)
           IN  /\ top \in Nat
               /\ \A b \in S : b.round <= top
               /\ top = 0 \/ \E b \in S : b.round = top
<1> DEFINE R == {0} \cup {b.round : b \in S}
<1>1. \E x \in R : \A y \in R : x >= y
    <2>1. CASE S = {}
        BY <2>1
    <2>2. CASE S # {}
        <3>1. PICK b \in S : \A c \in S : NotAfter(c, b)
            BY <2>2, GreatestExists
        <3>2. b.round \in R /\ \A y \in R : b.round >= y
            BY <3>1 DEF NotAfter, Refs
        <3> QED
            BY Zenon, <3>2
    <2> QED
        BY <2>1, <2>2
<1>2. Max(R) \in R /\ \A y \in R : Max(R) >= y
    BY Zenon, <1>1 DEF Max
<1>3. R \subseteq Nat
    BY DEF Refs
<1> QED
    BY Zenon, <1>2, <1>3 DEF HighestAcceptedRound

(***************************************************************************)
(* The rounds that IncludedRounds gives are -1 and those of the blocks,    *)
(* when no author has two of them.                                         *)
(***************************************************************************)
LEMMA IncludedRoundsAreBelow ==
    ASSUME NEW P \in SUBSET Refs, NEW r \in Nat, \A p \in P : p.round < r,
           \A p, q \in P : p.author = q.author => p = q
    PROVE  /\ IncludedRounds(P) \in [Authorities -> Int]
           /\ \A a \in Authorities : IncludedRounds(P)[a] < r
<1> SUFFICES ASSUME NEW a \in Authorities
             PROVE  LET m == Max({-1} \cup {p.round : p \in {q \in P : q.author = a}})
                    IN  m \in Int /\ m < r
    BY DEF IncludedRounds
<1> DEFINE R == {-1} \cup {p.round : p \in {q \in P : q.author = a}}
<1>1. \A x \in R : x \in Int /\ x < r
    BY DEF Refs
<1>2. \E x \in R : \A y \in R : x >= y
    <2>1. CASE \E p \in P : p.author = a
        <3>1. PICK p \in P : p.author = a
            BY <2>1
        <3>2. R = {-1, p.round} /\ p.round \in Nat
            BY <3>1 DEF Refs
        <3> QED
            BY <3>2
    <2>2. CASE ~\E p \in P : p.author = a
        <3>1. R = {-1}
            BY <2>2
        <3> QED
            BY <3>1
    <2> QED
        BY <2>1, <2>2
<1>3. Max(R) \in R
    BY <1>2 DEF Max
<1> QED
    BY Zenon, <1>1, <1>3

(***************************************************************************)
(* Facts about the state that every step uses.                             *)
(***************************************************************************)
LEMMA StateTypes ==
    ASSUME CoreInv
    PROVE  /\ dag \in SUBSET Refs /\ IsFiniteSet(dag)
           /\ stored \in SUBSET Refs /\ IsFiniteSet(stored)
           /\ last_proposed \in Refs /\ last_proposed.author = Own
           /\ Known(dag) \subseteq Refs /\ Known(stored) \subseteq Refs
           /\ \A b \in dag : b.round > 0 /\ Verify(b, ParentsOf(b))
           /\ \A b \in dag : b.author = Own <=> b \in DOMAIN links
           /\ DOMAIN links = {} => last_proposed = Genesis(Own)
           /\ DOMAIN links # {} => last_proposed \in DOMAIN links
<1> USE BlocksAssumption
<1>1. OtherBlocks \in SUBSET Refs /\ \A b \in OtherBlocks : b.author # Own
    BY DEF Refs
<1>2. DOMAIN links \in SUBSET Refs /\ \A b \in DOMAIN links : b.author = Own
    BY DEF CoreInv, OwnChain
<1>3. /\ dag \in SUBSET Refs
      /\ stored \in SUBSET Refs
      /\ \A b \in dag : b.author = Own <=> b \in DOMAIN links
    BY <1>1, <1>2 DEF CoreInv, TypeOK, OwnChain
<1>4. IsFiniteSet(OtherBlocks \cup DOMAIN links)
    BY Zenon, FS_Union DEF CoreInv, OwnChain
<1>5. IsFiniteSet(dag) /\ IsFiniteSet(stored)
    BY <1>4, FS_Subset DEF CoreInv, TypeOK
<1>6. last_proposed \in Refs /\ last_proposed.author = Own
    BY <1>2, GenesisTypes DEF CoreInv, OwnChain, Genesis
<1>7. Known(dag) \subseteq Refs /\ Known(stored) \subseteq Refs
    BY <1>3, GenesisTypes DEF Known
<1>8. \A b \in dag : Verify(b, ParentsOf(b))
    BY <1>1, <1>2 DEF CoreInv, TypeOK, OwnBlocksVerify, ParentsOf
<1>9. \A b \in dag : b.round > 0
    BY <1>8 DEF Verify
<1>10. DOMAIN links # {} => last_proposed \in DOMAIN links
    <2> SUFFICES ASSUME NEW b \in DOMAIN links, last_proposed = Genesis(Own) PROVE FALSE
        BY DEF CoreInv, OwnChain
    <2>1. b.round \in Nat /\ b.round <= 0
        BY <1>2 DEF CoreInv, OwnChain, Genesis, Refs
    <2>2. b \in dag
        BY DEF CoreInv, OwnChain, TypeOK
    <2> QED
        BY <1>9, <2>1, <2>2
<1> QED
    BY <1>3, <1>5, <1>6, <1>7, <1>8, <1>9, <1>10 DEF CoreInv, OwnChain

(***************************************************************************)
(* The authors of a round of accepted blocks are authorities.              *)
(***************************************************************************)
LEMMA AuthorsAreAuthorities ==
    ASSUME NEW S \in SUBSET Refs, NEW r
    PROVE  AuthorsOf(AtRound(S, r)) \in SUBSET Authorities
BY DEF AuthorsOf, AtRound, Refs

(***************************************************************************)
(* The block that ancestors_to_propose makes passes verify: its quorum are *)
(* the blocks that moved the clock, none of which was included before.     *)
(***************************************************************************)
LEMMA AncestorsVerify ==
    ASSUME CoreInv, clock.round > last_proposed.round
    PROVE  /\ AncestorsToPropose \subseteq Known(dag)
           /\ Verify(NewRef, AncestorsToPropose)
<1> DEFINE r == clock.round
           P == AncestorsToPropose
           LB(a) == LastBlock(dag, a, r)
<1>1. r \in Nat /\ r > 0 /\ last_proposed.round \in Nat /\ last_proposed.round < r
    BY StateTypes DEF CoreInv, ClockIsFounded, Founded, Refs
<1>2. ASSUME NEW a \in Authorities
      PROVE  /\ LB(a) \in Known(dag) /\ LB(a).author = a /\ LB(a).round < r
             /\ LB(a).round \in Nat
             /\ \A c \in Known(dag) : c.author = a /\ c.round = r - 1 => LB(a).round = r - 1
    <2> DEFINE below == {b \in dag : b.author = a /\ b.round < r}
    <2>1. /\ below = {} => LB(a) = Genesis(a)
          /\ below # {} => LB(a) \in below /\ \A c \in below : c.round <= LB(a).round
        BY <1>1, StateTypes, LastBlockIsLast
    <2>2. Genesis(a) \in GenesisBlocks /\ Genesis(a).author = a /\ Genesis(a).round = 0
        BY GenesisTypes DEF Genesis
    <2>3. /\ LB(a) \in Known(dag) /\ LB(a).author = a /\ LB(a).round < r
          /\ LB(a).round \in Nat
        BY <1>1, <2>1, <2>2, StateTypes DEF Known, Refs
    <2>4. ASSUME NEW c \in Known(dag), c.author = a, c.round = r - 1
          PROVE  LB(a).round = r - 1
        <3>1. CASE c \in dag
            <4>1. c \in below
                BY <1>1, <2>4, <3>1
            <4>2. c.round <= LB(a).round
                BY <2>1, <4>1
            <4> QED
                BY <1>1, <2>3, <2>4, <4>2
        <3>2. CASE c \in GenesisBlocks
            BY <1>1, <2>3, <2>4, <3>2, GenesisTypes
        <3> QED
            BY <3>1, <3>2 DEF Known
    <2> QED
        BY <2>3, <2>4
<1>3. P = {last_proposed} \cup
            {b \in {LB(a) : a \in Authorities \ {Own}} : last_included[b.author] < b.round}
    BY DEF AncestorsToPropose
<1>4. last_proposed \in Known(dag) /\ last_proposed.author = Own
    BY StateTypes, GenesisTypes, BlocksAssumption DEF CoreInv, OwnChain, TypeOK, Known
<1> HIDE DEF P, LB
<1>5. P \subseteq Known(dag)
    BY <1>2, <1>3, <1>4
<1>6. \A p \in P : p.round < r
    BY <1>1, <1>2, <1>3
<1>7. \A p \in P : p = last_proposed \/ (p.author # Own /\ p = LB(p.author))
    BY <1>2, <1>3
<1>8. \A p, q \in P : p.author = q.author => p = q
    BY <1>4, <1>7
<1>9. Own \in AuthorsOf(P)
    BY <1>3, <1>4 DEF AuthorsOf
<1>10. IsQuorum(AuthorsOf(AtRound(P, r - 1)))
    <2>1. IsQuorum(AuthorsOf(AtRound(Known(dag), r - 1)))
        BY DEF CoreInv, ClockIsFounded, Founded
    <2>2. ASSUME NEW c \in Known(dag), c.round = r - 1
          PROVE  c.author \in AuthorsOf(AtRound(P, r - 1))
        <3>1. c.author \in Authorities
            BY StateTypes DEF Refs
        <3>2. CASE c.author = Own
            <4>1. c.round <= last_proposed.round
                <5>1. CASE c \in dag
                    BY <3>2, <5>1, StateTypes DEF CoreInv, OwnChain
                <5>2. CASE c \in GenesisBlocks
                    BY <1>1, <5>2, GenesisTypes
                <5> QED
                    BY <5>1, <5>2 DEF Known
            <4>2. last_proposed.round = r - 1
                BY <1>1, <2>2, <4>1
            <4> QED
                BY <1>3, <1>4, <3>2, <4>2 DEF AuthorsOf, AtRound
        <3>3. CASE c.author # Own
            <4>1. LB(c.author).round = r - 1 /\ LB(c.author).author = c.author
                BY <1>2, <2>2, <3>1
            <4>2. last_included[c.author] \in Int /\ last_included[c.author] < last_proposed.round
                BY <3>1 DEF CoreInv, IncludedIsOlder
            <4>3. last_included[c.author] < r - 1
                BY <1>1, <4>2
            <4>4. LB(c.author) \in P
                BY <1>3, <3>1, <3>3, <4>1, <4>3
            <4> QED
                BY <4>1, <4>4 DEF AuthorsOf, AtRound
        <3> QED
            BY <3>2, <3>3
    <2>3. AuthorsOf(AtRound(Known(dag), r - 1)) \subseteq AuthorsOf(AtRound(P, r - 1))
        BY <2>2 DEF AuthorsOf, AtRound
    <2>4. /\ AuthorsOf(AtRound(Known(dag), r - 1)) \in SUBSET Authorities
          /\ AuthorsOf(AtRound(P, r - 1)) \in SUBSET Authorities
        BY <1>5, StateTypes, AuthorsAreAuthorities
    <2> QED
        BY <2>1, <2>3, <2>4, QuorumIsMonotone
<1>11. NewRef.round = r /\ NewRef.author = Own
    BY DEF NewRef
<1> QED
    BY <1>1, <1>5, <1>6, <1>8, <1>9, <1>10, <1>11 DEF Verify, P

(***************************************************************************)
(* ThresholdClock::add_block keeps the clock in the round after a quorum.  *)
(***************************************************************************)
LEMMA ClockAddIsFounded ==
    ASSUME NEW S \in SUBSET Refs, NEW c, Founded(c, S), NEW b \in Refs, b.round > 0,
           b.round > c.round => IsQuorum(AuthorsOf(AtRound(Known(S), b.round - 1)))
    PROVE  /\ Founded(ClockAdd(c, b), S \cup {b})
           /\ ClockAdd(c, b).round >= c.round
<1> DEFINE T == S \cup {b}
           At(X, r) == AuthorsOf(AtRound(Known(X), r))
<1>1. /\ c.round \in Nat \ {0} /\ c.votes \subseteq Authorities
      /\ c.votes \subseteq At(S, c.round) /\ IsQuorum(At(S, c.round - 1))
    BY DEF Founded
<1>2. b.round \in Nat \ {0} /\ b.author \in Authorities
    BY DEF Refs
<1>3. Known(S) \in SUBSET Refs /\ Known(T) \in SUBSET Refs /\ Known(S) \subseteq Known(T)
    BY GenesisTypes DEF Known
<1>4. \A r : /\ At(S, r) \subseteq At(T, r)
             /\ At(S, r) \in SUBSET Authorities /\ At(T, r) \in SUBSET Authorities
    BY Zenon, <1>3, AuthorsAreAuthorities DEF AuthorsOf, AtRound
<1>5. b.author \in At(T, b.round)
    BY DEF AuthorsOf, AtRound, Known
<1>6. ASSUME NEW r, IsQuorum(At(S, r)) PROVE IsQuorum(At(T, r))
    BY <1>4, <1>6, QuorumIsMonotone
<1> HIDE DEF At
<1>7. CASE b.round < c.round
    <2>1. ClockAdd(c, b) = c
        BY <1>1, <1>2, <1>7 DEF ClockAdd
    <2>2. c.votes \subseteq At(T, c.round) /\ IsQuorum(At(T, c.round - 1))
        BY Zenon, <1>1, <1>4, <1>6
    <2>3. Founded(c, T)
        BY Zenon, <2>2 DEF Founded, At
    <2> QED
        BY <1>1, <2>1, <2>3
<1>8. CASE b.round > c.round
    <2>1. ClockAdd(c, b) = [round |-> b.round, votes |-> {b.author}]
        BY <1>1, <1>2, <1>8 DEF ClockAdd
    <2>2. IsQuorum(At(T, b.round - 1))
        BY <1>6, <1>8 DEF At
    <2> QED
        BY <1>1, <1>2, <1>5, <1>8, <2>1, <2>2 DEF Founded, At
<1>9. CASE b.round = c.round
    <2> DEFINE V == c.votes \cup {b.author}
    <2>1. V \subseteq At(T, c.round) /\ V \in SUBSET Authorities
        BY <1>1, <1>2, <1>4, <1>5, <1>9
    <2>2. CASE IsQuorum(V)
        <3>1. ClockAdd(c, b) = [round |-> c.round + 1, votes |-> {}]
            BY <1>1, <1>2, <1>9, <2>2 DEF ClockAdd
        <3>2. IsQuorum(At(T, c.round))
            BY <1>4, <2>1, <2>2, QuorumIsMonotone
        <3>3. (c.round + 1) - 1 = c.round
            BY <1>1
        <3> QED
            BY <1>1, <3>1, <3>2, <3>3 DEF Founded, At
    <2>3. CASE ~IsQuorum(V)
        <3>1. ClockAdd(c, b) = [c EXCEPT !.votes = V]
            BY <1>1, <1>2, <1>9, <2>3 DEF ClockAdd
        <3>2. /\ [c EXCEPT !.votes = V] \in [round : Nat \ {0}, votes : SUBSET Authorities]
              /\ [c EXCEPT !.votes = V].round = c.round
              /\ [c EXCEPT !.votes = V].votes = V
            BY <2>1 DEF Founded
        <3> QED
            BY <1>1, <1>6, <2>1, <3>1, <3>2 DEF Founded, At
    <2> QED
        BY <2>2, <2>3
<1> QED
    BY <1>1, <1>2, <1>7, <1>8, <1>9

(***************************************************************************)
(* The clock that recover rebuilds from a closed store is founded, too.    *)
(***************************************************************************)
LEMMA RecoveredClockIsFounded ==
    ASSUME NEW S \in SUBSET Refs, IsFiniteSet(S), Closed(S),
           \A b \in S : b.round > 0 /\ Verify(b, ParentsOf(b))
    PROVE  /\ Founded(ClockAddAll(LastQuorumRound(S), LastQuorum(S)), S)
           /\ IsQuorum(AuthorsOf(LastQuorum(S)))
<1> DEFINE At(r) == AuthorsOf(AtRound(Known(S), r))
           top == HighestAcceptedRound(S)
           at == LastQuorumRound(S)
           Q == LastQuorum(S)
<1>1. top \in Nat /\ (\A b \in S : b.round <= top) /\ (top = 0 \/ \E b \in S : b.round = top)
    BY HighestIsHighest
<1>2. Known(S) \in SUBSET Refs
    BY GenesisTypes DEF Known
<1>3. ASSUME NEW b \in S PROVE IsQuorum(At(b.round - 1))
    <2>1. ParentsOf(b) \subseteq Known(S) /\ IsQuorum(AuthorsOf(AtRound(ParentsOf(b), b.round - 1)))
        BY DEF Closed, Verify
    <2>2. AuthorsOf(AtRound(ParentsOf(b), b.round - 1)) \subseteq At(b.round - 1)
        BY <2>1 DEF AuthorsOf, AtRound
    <2>3. /\ AuthorsOf(AtRound(ParentsOf(b), b.round - 1)) \in SUBSET Authorities
          /\ At(b.round - 1) \in SUBSET Authorities
        BY <1>2, <2>1, AuthorsAreAuthorities
    <2> QED
        BY <2>1, <2>2, <2>3, QuorumIsMonotone
<1>4. At(0) = Authorities
    <2>1. AtRound(Known(S), 0) = GenesisBlocks
        BY GenesisTypes DEF AtRound, Known
    <2> QED
        BY <2>1, GenesisTypes
<1>5. \A r \in Nat \ {0} : At(r) = AuthorsOf(AtRound(S, r))
    <2> SUFFICES ASSUME NEW r \in Nat \ {0} PROVE AtRound(Known(S), r) = AtRound(S, r)
        OBVIOUS
    <2> QED
        BY GenesisTypes DEF AtRound, Known
<1>6. at \in Nat /\ AuthorsOf(Q) = At(at) /\ IsQuorum(At(at)) /\ At(at) \in SUBSET Authorities
    <2>1. CASE top > 0 /\ ~IsQuorum(AuthorsOf(AtRound(S, top)))
        <3>1. at = top - 1
            BY <2>1 DEF LastQuorumRound
        <3>2. IsQuorum(At(at))
            BY <1>1, <1>3, <2>1, <3>1
        <3>3. at = 0 => Q = GenesisBlocks /\ AuthorsOf(Q) = At(at)
            BY <1>4, GenesisTypes DEF LastQuorum
        <3>4. at # 0 => AuthorsOf(Q) = At(at)
            BY <1>1, <1>5, <2>1, <3>1 DEF LastQuorum
        <3> QED
            BY <1>1, <1>2, <2>1, <3>1, <3>2, <3>3, <3>4, AuthorsAreAuthorities
    <2>2. CASE top > 0 /\ IsQuorum(AuthorsOf(AtRound(S, top)))
        <3>1. at = top
            BY <2>2 DEF LastQuorumRound
        <3>2. AuthorsOf(Q) = At(at) /\ IsQuorum(At(at))
            BY <1>1, <1>5, <2>2, <3>1 DEF LastQuorum
        <3> QED
            BY <1>1, <1>2, <3>1, <3>2, AuthorsAreAuthorities
    <2>3. CASE top = 0
        <3>1. at = 0
            BY <2>3 DEF LastQuorumRound
        <3>2. Q = GenesisBlocks
            BY <3>1 DEF LastQuorum
        <3> QED
            BY <1>4, <3>1, <3>2, GenesisTypes, QuorumBounds
    <2> QED
        BY <1>1, <2>1, <2>2, <2>3
<1> HIDE DEF At, at, Q
<1>7. CASE at = 0 \/ Cardinality(Q) > 1
    <2>1. ClockAddAll(at, Q) = [round |-> at + 1, votes |-> {}]
        BY <1>6, <1>7 DEF ClockAddAll
    <2>2. (at + 1) - 1 = at /\ at + 1 \in Nat \ {0}
        BY <1>6
    <2> QED
        BY <1>6, <2>1, <2>2 DEF Founded, At, at, Q
<1>8. CASE at # 0 /\ ~(Cardinality(Q) > 1)
    <2>1. ClockAddAll(at, Q) = [round |-> at, votes |-> At(at)]
        BY <1>6, <1>8 DEF ClockAddAll
    <2>2. PICK b \in S : b.round = at
        <3>1. At(at) # {}
            BY <1>6, QuorumBounds
        <3>2. AuthorsOf(AtRound(S, at)) # {}
            BY <1>5, <1>6, <1>8, <3>1
        <3> QED
            BY <3>2 DEF AuthorsOf, AtRound
    <2>3. IsQuorum(At(at - 1))
        BY <1>3, <2>2
    <2> QED
        BY <1>6, <1>8, <2>1, <2>3 DEF Founded, At, at, Q
<1> QED
    BY <1>6, <1>7, <1>8 DEF at, Q

-----------------------------------------------------------------------------

(***************************************************************************)
(* The first start.                                                        *)
(***************************************************************************)
LEMMA InitCoreInv == Init => CoreInv
<1> SUFFICES ASSUME Init PROVE CoreInv
    OBVIOUS
<1> USE DEF Init
<1>1. DOMAIN links = {} /\ dag = {} /\ stored = {} /\ sent = {}
    OBVIOUS
<1>2. clock = [round |-> 1, votes |-> {}]
    BY GenesisTypes, QuorumBounds DEF ClockAddAll
<1>3. TypeOK
    BY <1>1, <1>2, RestartsAssumption DEF TypeOK
<1>4. last_proposed.round = 0
    BY DEF Genesis
<1>5. OwnChain
    BY <1>1, FS_EmptySet DEF OwnChain
<1>6. Closed(dag) /\ Closed(stored) /\ OwnBlocksVerify
    BY <1>1 DEF Closed, OwnBlocksVerify
<1>7. ClockIsFounded
    <2>1. AtRound(Known(dag), 0) = GenesisBlocks
        BY <1>1, GenesisTypes DEF Known
    <2>2. IsQuorum(AuthorsOf(AtRound(Known(dag), 1 - 1)))
        BY <2>1, GenesisTypes, QuorumBounds
    <2> QED
        BY <1>2, <2>2 DEF ClockIsFounded, Founded
<1>8. IncludedIsOlder
    BY <1>4, IncludedRoundsAreBelow DEF IncludedIsOlder
<1> QED
    BY <1>3, <1>5, <1>6, <1>7, <1>8 DEF CoreInv

(***************************************************************************)
(* A received block is accepted: it is one of another authority, as every  *)
(* block that was broadcast is still in the DAG.                           *)
(***************************************************************************)
LEMMA AddBlockCoreInv ==
    ASSUME CoreInv, NEW b, AddBlock(b)
    PROVE  CoreInv'
<1> USE DEF AddBlock
<1>1. b \in OtherBlocks /\ b \notin DOMAIN links
    BY DEF CoreInv, TypeOK, OwnChain
<1>2. /\ b \in Refs /\ b.author # Own /\ Verify(b, OtherParents[b]) /\ b.round > 0
      /\ OtherParents[b] \subseteq Known(dag)
    BY <1>1, BlocksAssumption DEF Refs, Verify, Known, ParentsOf
<1>3. IsQuorum(AuthorsOf(AtRound(Known(dag), b.round - 1)))
    <2>1. AuthorsOf(AtRound(OtherParents[b], b.round - 1))
            \subseteq AuthorsOf(AtRound(Known(dag), b.round - 1))
        BY <1>2 DEF AuthorsOf, AtRound
    <2>2. AuthorsOf(AtRound(Known(dag), b.round - 1)) \in SUBSET Authorities
        BY StateTypes, AuthorsAreAuthorities
    <2> QED
        BY <1>2, <2>1, <2>2, QuorumIsMonotone DEF Verify
<1>4. Founded(clock', dag') /\ clock'.round >= clock.round
    BY Zenon, <1>2, <1>3, StateTypes, ClockAddIsFounded DEF CoreInv, ClockIsFounded
<1>5. TypeOK'
    BY <1>1, <1>4 DEF CoreInv, TypeOK, ClockIsFounded, Founded
<1>6. OwnChain'
    BY DEF CoreInv, OwnChain
<1>7. Closed(dag)' /\ Closed(stored)'
    BY <1>1, <1>2 DEF CoreInv, Closed, ParentsOf, Known
<1> QED
    BY <1>4, <1>5, <1>6, <1>7
       DEF CoreInv, OwnBlocksVerify, ClockIsFounded, IncludedIsOlder

(***************************************************************************)
(* A new block is made, accepted and flushed.                              *)
(***************************************************************************)
LEMMA ProposeCoreInv ==
    ASSUME CoreInv, Propose
    PROVE  CoreInv'
<1> DEFINE n == NewRef
           P == AncestorsToPropose
<1>1. /\ clock.round > last_proposed.round
      /\ clock.round \in Nat \ {0} /\ last_proposed.round \in Nat
    BY StateTypes DEF Propose, MayPropose, CoreInv, ClockIsFounded, Founded, Refs
<1>2. P \subseteq Known(dag) /\ Verify(n, P)
    BY <1>1, AncestorsVerify
<1>3. n \in Refs /\ n.author = Own /\ n.round = clock.round
    <2>1. Cardinality(DOMAIN links) \in Nat
        BY FS_CardinalityType DEF CoreInv, OwnChain
    <2> QED
        BY <1>1, <2>1, BlocksAssumption DEF NewRef, Refs
<1>4. n \notin DOMAIN links /\ \A b \in DOMAIN links : b.round < n.round
    BY <1>1, <1>3 DEF CoreInv, OwnChain, Refs
<1>5. /\ links' = [b \in DOMAIN links \cup {n} |-> IF b = n THEN P ELSE links[b]]
      /\ dag' = dag \cup {n} /\ stored' = dag'
      /\ clock' = ClockAdd(clock, n) /\ signal' = clock'.round
      /\ last_proposed' = n /\ step' = "broadcast"
      /\ last_included' = [a \in Authorities |-> Max({last_included[a], IncludedRounds(P)[a]})]
      /\ UNCHANGED <<timer, sent, restarts>>
    BY DEF Propose, TryNewBlock
<1> HIDE DEF n, P
<1>6. DOMAIN links' = DOMAIN links \cup {n} /\ links'[n] = P
        /\ \A b \in DOMAIN links : links'[b] = links[b]
    BY <1>4, <1>5
<1>7. Founded(clock', dag') /\ clock'.round >= clock.round
    <2>1. /\ dag \in SUBSET Refs /\ Founded(clock, dag) /\ n.round > 0
          /\ ~(n.round > clock.round)
        BY <1>1, <1>3, StateTypes DEF CoreInv, ClockIsFounded
    <2>2. Founded(ClockAdd(clock, n), dag \cup {n}) /\ ClockAdd(clock, n).round >= clock.round
        BY <1>3, <2>1, ClockAddIsFounded
    <2> QED
        BY <1>5, <2>2
<1>8. TypeOK'
    BY <1>1, <1>5, <1>6, <1>7 DEF CoreInv, TypeOK, Founded
<1>9. OwnChain'
    <2>1. DOMAIN links' \subseteq stored'
        BY <1>5, <1>6 DEF CoreInv, OwnChain, TypeOK
    <2>2. IsFiniteSet(DOMAIN links')
        BY <1>6, FS_AddElement DEF CoreInv, OwnChain
    <2>3. \A b \in DOMAIN links' : b \in Refs /\ b.author = Own /\ b.round <= n.round
        BY <1>1, <1>3, <1>4, <1>6 DEF CoreInv, OwnChain, Refs
    <2>4. \A b, c \in DOMAIN links' : b.round = c.round => b = c
        <3>1. \A b, c \in DOMAIN links : b.round = c.round => b = c
            BY DEF CoreInv, OwnChain
        <3>2. \A b \in DOMAIN links : b.round # n.round
            BY <1>1, <1>3, <1>4 DEF CoreInv, OwnChain, Refs
        <3> QED
            BY <1>6, <3>1, <3>2
    <2> QED
        BY <1>5, <1>6, <2>1, <2>2, <2>3, <2>4 DEF CoreInv, OwnChain
<1>10. Closed(dag)' /\ Closed(stored)'
    <2>1. ASSUME NEW b \in dag'
          PROVE  ParentsOf(b)' \subseteq Known(dag')
        <3>1. CASE b = n
            BY <1>2, <1>5, <1>6, <3>1 DEF ParentsOf, Known
        <3>2. CASE b \in dag /\ b # n
            <4>1. ParentsOf(b)' = ParentsOf(b)
                BY <1>6, <3>2 DEF ParentsOf
            <4> QED
                BY <1>5, <3>2, <4>1 DEF CoreInv, Closed, Known
        <3> QED
            BY <1>5, <2>1, <3>1, <3>2
    <2> QED
        BY Zenon, <1>5, <2>1 DEF Closed
<1>11. OwnBlocksVerify'
    BY <1>2, <1>4, <1>6 DEF CoreInv, OwnBlocksVerify
<1>12. IncludedIsOlder'
    <2>1. IncludedRounds(P) \in [Authorities -> Int] /\ \A a \in Authorities : IncludedRounds(P)[a] < n.round
        <3>1. /\ P \in SUBSET Refs /\ n.round \in Nat /\ \A p \in P : p.round < n.round
              /\ \A p, q \in P : p.author = q.author => p = q
            BY <1>1, <1>2, <1>3, StateTypes DEF Verify
        <3> QED
            BY <3>1, IncludedRoundsAreBelow
    <2>2. ASSUME NEW a \in Authorities
          PROVE  LET m == Max({last_included[a], IncludedRounds(P)[a]})
                 IN  m \in Int /\ m < n.round
        <3> DEFINE x == last_included[a]
                   y == IncludedRounds(P)[a]
        <3>1. x \in Int /\ x < n.round /\ y \in Int /\ y < n.round
            BY <1>1, <1>3, <2>1 DEF CoreInv, IncludedIsOlder
        <3> HIDE DEF x, y
        <3>2. \E m \in {x, y} : \A z \in {x, y} : m >= z
            BY <3>1
        <3>3. Max({x, y}) \in {x, y}
            BY <3>2 DEF Max
        <3> QED
            BY <3>1, <3>3 DEF x, y
    <2> QED
        BY <1>5, <2>2 DEF IncludedIsOlder
<1> QED
    BY <1>5, <1>7, <1>8, <1>9, <1>10, <1>11, <1>12 DEF CoreInv, ClockIsFounded

(***************************************************************************)
(* Core::new finds the last block that this authority has proposed.        *)
(***************************************************************************)
LEMMA RecoveredIsLast ==
    ASSUME CoreInv
    PROVE  RecoveredProposed(stored) = last_proposed
<1> DEFINE end == HighestAcceptedRound(stored) + 1
           below == {b \in stored : b.author = Own /\ b.round < end}
<1>1. HighestAcceptedRound(stored) \in Nat /\ \A b \in stored : b.round <= HighestAcceptedRound(stored)
    BY StateTypes, HighestIsHighest
<1>2. below = DOMAIN links
    <2>1. \A b \in stored : b.round < end
        BY <1>1, StateTypes DEF Refs
    <2>2. stored \subseteq dag /\ DOMAIN links \subseteq stored
        BY DEF CoreInv, TypeOK, OwnChain
    <2> QED
        BY Zenon, <2>1, <2>2, StateTypes
<1>3. /\ below = {} => LastBlock(stored, Own, end) = Genesis(Own)
      /\ below # {} => /\ LastBlock(stored, Own, end) \in below
                       /\ \A c \in below : c.round <= LastBlock(stored, Own, end).round
    BY <1>1, StateTypes, BlocksAssumption, LastBlockIsLast
<1> DEFINE l == LastBlock(stored, Own, end)
<1> HIDE DEF l, below
<1>4. CASE DOMAIN links = {}
    BY <1>2, <1>3, <1>4, StateTypes DEF RecoveredProposed, l
<1>5. CASE DOMAIN links # {}
    <2>1. l \in DOMAIN links /\ last_proposed \in DOMAIN links
        BY <1>2, <1>3, <1>5, StateTypes DEF l
    <2>2. last_proposed.round <= l.round
        BY <1>2, <1>3, <1>5, <2>1 DEF l
    <2>3. l.round <= last_proposed.round /\ l \in Refs /\ last_proposed \in Refs
        BY <2>1 DEF CoreInv, OwnChain
    <2>4. l.round = last_proposed.round
        BY <2>2, <2>3 DEF Refs
    <2>5. l = last_proposed
        BY <2>1, <2>4 DEF CoreInv, OwnChain
    <2> QED
        BY <2>5 DEF RecoveredProposed, l
<1> QED
    BY Zenon, <1>4, <1>5

(***************************************************************************)
(* A crash and a start from the store.                                     *)
(***************************************************************************)
LEMMA RestartCoreInv ==
    ASSUME CoreInv, Restart
    PROVE  CoreInv'
<1> USE DEF Restart
<1>1. last_proposed' = last_proposed /\ UNCHANGED <<stored, links, sent>> /\ dag' = stored
    BY RecoveredIsLast DEF Recover
<1>2. Founded(clock', dag')
    <2>1. \A b \in stored : b.round > 0 /\ Verify(b, ParentsOf(b))
        BY StateTypes DEF CoreInv, TypeOK
    <2>2. Founded(ClockAddAll(LastQuorumRound(stored), LastQuorum(stored)), stored)
        BY <2>1, StateTypes, RecoveredClockIsFounded DEF CoreInv
    <2> QED
        BY <1>1, <2>2 DEF Recover
<1>3. clock'.round \in Nat \ {0} /\ clock'.votes \subseteq Authorities
    BY <1>2 DEF Founded
<1>4. TypeOK'
    <2>1. stored \subseteq OtherBlocks \cup DOMAIN links /\ sent \subseteq DOMAIN links
        BY DEF CoreInv, TypeOK
    <2>2. restarts' \in 0..MaxRestarts
        BY RestartsAssumption DEF CoreInv, TypeOK
    <2> QED
        BY <1>1, <1>3, <2>1, <2>2 DEF TypeOK
<1>5. OwnChain'
    BY <1>1 DEF CoreInv, OwnChain
<1>6. Closed(dag)' /\ Closed(stored)' /\ OwnBlocksVerify'
    BY <1>1 DEF CoreInv, Closed, ParentsOf, Known, OwnBlocksVerify
<1>7. IncludedIsOlder'
    <2> DEFINE P == LinksOf(last_proposed)
    <2>1. P \in SUBSET Refs /\ last_proposed.round \in Nat /\ (\A p \in P : p.round < last_proposed.round)
            /\ \A p, q \in P : p.author = q.author => p = q
        <3>1. CASE last_proposed \in DOMAIN links
            <4>1. P = links[last_proposed] /\ last_proposed \in dag
                BY <3>1 DEF LinksOf, CoreInv, OwnChain, TypeOK
            <4>2. P \subseteq Known(dag)
                BY <3>1, <4>1 DEF CoreInv, Closed, ParentsOf
            <4>3. Verify(last_proposed, P)
                BY <3>1, <4>1 DEF CoreInv, OwnBlocksVerify
            <4> QED
                BY <4>2, <4>3, StateTypes DEF Verify, Refs
        <3>2. CASE last_proposed \notin DOMAIN links
            BY <3>2, StateTypes DEF LinksOf, Refs
        <3> QED
            BY <3>1, <3>2
    <2>2. /\ IncludedRounds(P) \in [Authorities -> Int]
          /\ \A a \in Authorities : IncludedRounds(P)[a] < last_proposed.round
        BY <2>1, IncludedRoundsAreBelow
    <2>3. last_included' = IncludedRounds(P)
        BY <1>1 DEF Recover, LinksOf
    <2> QED
        BY <1>1, <2>2, <2>3 DEF IncludedIsOlder
<1> QED
    BY <1>2, <1>4, <1>5, <1>6, <1>7 DEF CoreInv, ClockIsFounded

(***************************************************************************)
(* The other steps: commits that flush, the end of a command, the timers.  *)
(***************************************************************************)
LEMMA OtherStepsCoreInv ==
    ASSUME CoreInv,
           \/ EndAdd \/ ProposeNothing \/ Broadcast \/ MinTimeout \/ MaxTimeout \/ NewRound
           \/ UNCHANGED coreVars
    PROVE  CoreInv'
<1>1. UNCHANGED <<dag, links, clock, last_proposed, last_included, restarts>>
    BY Zenon DEF EndAdd, ProposeNothing, Broadcast, MinTimeout, MaxTimeout, NewRound, coreVars, memory
<1>2. stored' = stored \/ stored' = dag
    BY Zenon DEF EndAdd, ProposeNothing, Broadcast, MinTimeout, MaxTimeout, NewRound, MayFlush, coreVars
<1>3. sent' = sent \/ (step = "broadcast" /\ sent' = sent \cup {last_proposed})
    BY Zenon DEF EndAdd, ProposeNothing, Broadcast, MinTimeout, MaxTimeout, NewRound, coreVars
<1>4. clock.round \in Nat \ {0}
    BY DEF CoreInv, ClockIsFounded, Founded
<1>5. TypeOK'
    <2>1. stored' \subseteq dag' /\ sent' \subseteq DOMAIN links'
        BY <1>1, <1>2, <1>3 DEF CoreInv, TypeOK, OwnChain
    <2>2. signal \in 1..clock.round /\ timer \in [round : 1..signal, min : BOOLEAN, max : BOOLEAN]
        BY DEF CoreInv, TypeOK
    <2>3. signal' \in {signal, clock.round}
        BY Zenon DEF EndAdd, ProposeNothing, Broadcast, MinTimeout, MaxTimeout, NewRound, coreVars, memory
    <2>4. signal' \in 1..clock.round /\ 1..signal \subseteq 1..signal'
        BY <1>4, <2>2, <2>3
    <2>6. timer' \in [round : 1..signal', min : BOOLEAN, max : BOOLEAN]
        <3>1. CASE NewRound
            BY <2>2, <3>1 DEF NewRound, memory
        <3>2. CASE MinTimeout
            BY Zenon, <2>2, <3>2 DEF MinTimeout, memory
        <3>3. CASE MaxTimeout
            BY Zenon, <2>2, <3>3 DEF MaxTimeout, memory
        <3>4. CASE timer' = timer
            BY <2>2, <2>4, <3>4
        <3> QED
            BY Zenon, <3>1, <3>2, <3>3, <3>4 DEF EndAdd, ProposeNothing, Broadcast, coreVars
    <2>5. step' \in {"idle", "adding", "propose", "force", "recover", "broadcast"}
        BY Zenon DEF CoreInv, TypeOK, EndAdd, ProposeNothing, Broadcast, MinTimeout, MaxTimeout,
               NewRound, NewBlock, coreVars
    <2> QED
        BY <1>1, <2>1, <2>4, <2>5, <2>6 DEF CoreInv, TypeOK
<1>6. OwnChain'
    <2>1. DOMAIN links' \subseteq stored' /\ sent' \subseteq DOMAIN links'
        BY <1>1, <1>2, <1>3 DEF CoreInv, TypeOK, OwnChain
    <2>2. ASSUME step' = "broadcast" PROVE last_proposed \in DOMAIN links
        <3>1. CASE ProposeNothing
            <4>1. step = "recover" /\ ~(clock.round > last_proposed.round)
                BY <2>2, <3>1 DEF ProposeNothing, MayPropose
            <4>2. last_proposed.round # 0
                BY <1>4, <4>1
            <4> QED
                BY <4>2 DEF CoreInv, OwnChain, Genesis
        <3>2. CASE ~ProposeNothing
            BY <2>2, <3>2 DEF CoreInv, OwnChain, EndAdd, Broadcast, MinTimeout, MaxTimeout,
                              NewRound, NewBlock, coreVars
        <3> QED
            BY <3>1, <3>2
    <2> QED
        BY <1>1, <2>1, <2>2 DEF CoreInv, OwnChain
<1>7. Closed(dag)' /\ Closed(stored)' /\ OwnBlocksVerify' /\ ClockIsFounded' /\ IncludedIsOlder'
    BY <1>1, <1>2 DEF CoreInv, Closed, ParentsOf, Known, OwnBlocksVerify, ClockIsFounded, Founded,
                      IncludedIsOlder
<1> QED
    BY <1>5, <1>6, <1>7 DEF CoreInv

(***************************************************************************)
(* The inductive invariant of the core holds in every reachable state, for *)
(* every committee, all blocks of the others and any number of crashes.    *)
(***************************************************************************)
THEOREM CoreInvariant == Spec => []CoreInv
<1>1. CoreInv /\ [Next]_coreVars => CoreInv'
    <2> SUFFICES ASSUME CoreInv, [Next]_coreVars PROVE CoreInv'
        OBVIOUS
    <2> QED
        BY AddBlockCoreInv, ProposeCoreInv, RestartCoreInv, OtherStepsCoreInv DEF Next
<1> QED
    BY <1>1, InitCoreInv, PTL DEF Spec

(***************************************************************************)
(* "Ensure the new block and its ancestors are persisted, before           *)
(* broadcasting it." (core.rs:411): CoreSignals broadcasts one block per   *)
(* round, however often the authority crashes.                             *)
(***************************************************************************)
THEOREM BroadcastNeverEquivocates == Spec => []NoEquivocatingBroadcast
<1>1. CoreInv => NoEquivocatingBroadcast
    BY DEF CoreInv, OwnChain, NoEquivocatingBroadcast
<1> QED
    BY <1>1, CoreInvariant, PTL

(***************************************************************************)
(* accept_block never finds the own slot of a new block occupied, whatever *)
(* the others send and although peers return what was broadcast to them;   *)
(* of the blocks that a stream showed before they were flushed (finding of *)
(* module Subscription) nothing is said.                                   *)
(***************************************************************************)
THEOREM OwnSlotIsAlwaysFree == Spec => []OwnSlotIsFree
<1>1. CoreInv => OwnSlotIsFree
    <2> SUFFICES ASSUME CoreInv, clock.round > last_proposed.round,
                        NEW b \in dag, b.author = Own, b.round = clock.round
                 PROVE  FALSE
        BY DEF OwnSlotIsFree, AtRound, OwnBlocks
    <2>1. b.round <= last_proposed.round /\ b.round \in Nat /\ last_proposed.round \in Nat
        BY StateTypes DEF CoreInv, OwnChain, Refs
    <2> QED
        BY <2>1
<1> QED
    BY <1>1, CoreInvariant, PTL

(***************************************************************************)
(* Every block that the core makes passes SignedBlockVerifier::verify, the *)
(* quorum of ancestors included, also when the clock was rebuilt.          *)
(***************************************************************************)
THEOREM OwnBlocksAlwaysVerify == Spec => []OwnBlocksVerify
<1>1. CoreInv => OwnBlocksVerify
    BY DEF CoreInv
<1> QED
    BY <1>1, CoreInvariant, PTL

(***************************************************************************)
(* What was sent can be served after a crash, with its ancestors.          *)
(***************************************************************************)
THEOREM AncestorsAreAlwaysStored == Spec => []AncestorsAreStored
<1>1. CoreInv => AncestorsAreStored
    BY DEF CoreInv, OwnChain, Closed, ParentsOf, Known, AncestorsAreStored
<1> QED
    BY <1>1, CoreInvariant, PTL

(***************************************************************************)
(* "Fatal error, no quorum has been detected in our DAG on the last two    *)
(* rounds." (dag_state.rs:789): whenever it crashes, last_quorum finds one *)
(* in the store.                                                           *)
(***************************************************************************)
LastQuorumIsFound == IsQuorum(AuthorsOf(LastQuorum(stored)))

\* DagState::last_quorum does not panic when the core recovers.
THEOREM LastQuorumIsAlwaysFound == Spec => []LastQuorumIsFound
<1>1. CoreInv => LastQuorumIsFound
    <2> SUFFICES ASSUME CoreInv PROVE LastQuorumIsFound
        OBVIOUS
    <2>1. \A b \in stored : b.round > 0 /\ Verify(b, ParentsOf(b))
        BY StateTypes DEF CoreInv, TypeOK
    <2> QED
        BY <2>1, StateTypes, RecoveredClockIsFounded DEF CoreInv, LastQuorumIsFound
<1> QED
    BY <1>1, CoreInvariant, PTL

=============================================================================
