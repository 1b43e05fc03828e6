------------------------- MODULE SynchronizerProofs -------------------------
(***************************************************************************)
(* Proofs about Synchronizer, for every committee, DAG and set of          *)
(* broadcasts, and whatever the peers answer.                              *)
(***************************************************************************)
EXTENDS Synchronizer, FiniteSetTheorems, SequenceTheorems, WellFoundedInduction, TLAPS

\* The lock map and the guards say the same.
LocksRight ==
    /\ \A b \in DOMAIN locks : /\ locks[b] # {} /\ IsFiniteSet(locks[b])
                               /\ Cardinality(locks[b]) <= MaxPerBlock
    /\ \A b \in DOMAIN locks : \A p \in locks[b] : \E g \in Guards : g.peer = p /\ b \in g.refs
    /\ \A g \in Guards : \A b \in g.refs : b \in DOMAIN locks /\ g.peer \in locks[b]
    /\ \A g, h \in Guards : \A b \in g.refs : b \in h.refs /\ g.peer = h.peer => g = h

\* The ancestors of the blocks at hand: all that is ever asked for.
Asked == UNION {Ancestors[b] : b \in have}

RefsRight ==
    /\ have \subseteq Blocks
    /\ \A c \in commands : c.refs \subseteq Asked
    /\ \A g \in requests : g.refs \subseteq Asked /\ g.refs # {}
    /\ \A k \in DOMAIN chunks : chunks[k] \subseteq Asked

\* A run sends its chunks to peers it has left.
RunRight ==
    /\ chunks \in Seq(SUBSET Blocks)
    /\ peers \subseteq Peers
    /\ phase = "sending" <=> chunks # <<>>
    /\ EveryChunkHasAPeer

SyncInv == LocksRight /\ RefsRight /\ OnlyNeededBlocks /\ RunRight

-----------------------------------------------------------------------------
(* The lock map *)

(***************************************************************************)
(* lock_blocks for a new guard g.                                          *)
(***************************************************************************)
LEMMA LockStep ==
    ASSUME LocksRight, NEW S, NEW g, g.refs = Free(S, g.peer),
           LockBlocks(g.refs, g.peer),
           Guards' = Guards \cup (IF g.refs = {} THEN {} ELSE {g})
    PROVE  LocksRight'
<1> DEFINE refs == g.refs
           p == g.peer
           old(b) == IF b \in DOMAIN locks THEN locks[b] ELSE {}
<1>1. /\ DOMAIN locks' = DOMAIN locks \cup refs
      /\ \A b \in DOMAIN locks' : locks'[b] = old(b) \cup (IF b \in refs THEN {p} ELSE {})
    BY DEF LockBlocks, LocksOf
<1>2. \A b \in refs : Cardinality(old(b)) < MaxPerBlock /\ p \notin old(b)
    BY DEF Free, LocksOf
<1>3. \A b : IsFiniteSet(old(b)) /\ (b \in DOMAIN locks => old(b) # {})
    BY FS_EmptySet DEF LocksRight
<1>4. \A h \in Guards : \A b \in h.refs : b \in refs => h.peer # p
    BY <1>2 DEF LocksRight
<1> HIDE DEF refs, p
<1>5. ASSUME NEW b \in DOMAIN locks'
      PROVE  /\ locks'[b] # {} /\ IsFiniteSet(locks'[b]) /\ Cardinality(locks'[b]) <= MaxPerBlock
             /\ \A q \in locks'[b] : \E h \in Guards' : h.peer = q /\ b \in h.refs
    <2>1. CASE b \in refs
        <3>1. locks'[b] = old(b) \cup {p}
            BY <1>1, <2>1
        <3>2. IsFiniteSet(locks'[b]) /\ Cardinality(locks'[b]) = Cardinality(old(b)) + 1
            <4>1. IsFiniteSet(old(b)) /\ p \notin old(b)
                BY <1>2, <1>3, <2>1
            <4> HIDE DEF old
            <4> QED
                BY <3>1, <4>1, FS_AddElement
        <3>3. Cardinality(old(b)) \in Nat
            BY <1>3, FS_CardinalityType
        <3>4. Cardinality(locks'[b]) <= MaxPerBlock
            BY <1>2, <2>1, <3>2, <3>3, LimitsAssumption
        <3>5. g \in Guards'
            BY <2>1 DEF refs
        <3>6. \A q \in locks'[b] : \E h \in Guards' : h.peer = q /\ b \in h.refs
            BY <2>1, <3>1, <3>5 DEF LocksRight, refs, p
        <3> QED
            BY <3>1, <3>2, <3>4, <3>6
    <2>2. CASE b \notin refs
        <3>1. b \in DOMAIN locks /\ locks'[b] = locks[b]
            BY Zenon, <1>1, <2>2
        <3> QED
            BY <3>1 DEF LocksRight
    <2> QED
        BY <2>1, <2>2
<1>6. ASSUME NEW h \in Guards', NEW b \in h.refs PROVE b \in DOMAIN locks' /\ h.peer \in locks'[b]
    <2>1. CASE h \in Guards
        BY <1>1, <2>1 DEF LocksRight
    <2>2. CASE h = g
        BY <1>1, <2>2 DEF refs, p
    <2> QED
        BY <2>1, <2>2
<1>7. ASSUME NEW h \in Guards', NEW k \in Guards', NEW b \in h.refs, b \in k.refs, h.peer = k.peer
      PROVE  h = k
    <2>1. CASE h \in Guards /\ k \in Guards
        BY <1>7, <2>1 DEF LocksRight
    <2>2. CASE h = g \/ k = g
        BY <1>4, <1>7, <2>2 DEF refs, p
    <2> QED
        BY <2>1, <2>2
<1> QED
    BY <1>5, <1>6, <1>7 DEF LocksRight

(***************************************************************************)
(* unlock_blocks for the guards of D.                                      *)
(***************************************************************************)
LEMMA UnlockStep ==
    ASSUME LocksRight, NEW D, D \subseteq Guards, UnlockBlocks(D), Guards' = Guards \ D
    PROVE  LocksRight'
<1> DEFINE gone(b) == {g.peer : g \in {h \in D : b \in h.refs}}
<1>1. /\ DOMAIN locks' = {b \in DOMAIN locks : locks[b] \ gone(b) # {}}
      /\ \A b \in DOMAIN locks' : locks'[b] = locks[b] \ gone(b)
    BY DEF UnlockBlocks
<1>2. ASSUME NEW b, NEW p PROVE p \in gone(b) <=> \E g \in D : b \in g.refs /\ g.peer = p
    OBVIOUS
<1> HIDE DEF gone
<1>3. ASSUME NEW b \in DOMAIN locks'
      PROVE  /\ locks'[b] # {} /\ IsFiniteSet(locks'[b]) /\ Cardinality(locks'[b]) <= MaxPerBlock
             /\ \A q \in locks'[b] : \E h \in Guards' : h.peer = q /\ b \in h.refs
    <2>1. b \in DOMAIN locks /\ locks'[b] = locks[b] \ gone(b) /\ locks'[b] # {}
        BY <1>1
    <2>2. IsFiniteSet(locks[b]) /\ Cardinality(locks[b]) <= MaxPerBlock
        BY <2>1 DEF LocksRight
    <2>3. locks'[b] \subseteq locks[b]
        BY <2>1
    <2>4. IsFiniteSet(locks'[b]) /\ Cardinality(locks'[b]) <= Cardinality(locks[b])
        BY <2>2, <2>3, FS_Subset
    <2>5. Cardinality(locks'[b]) \in Nat /\ Cardinality(locks[b]) \in Nat
        BY <2>2, <2>4, FS_CardinalityType
    <2>6. ASSUME NEW q \in locks'[b] PROVE \E h \in Guards' : h.peer = q /\ b \in h.refs
        <3>1. q \in locks[b] /\ q \notin gone(b)
            BY <2>1
        <3>2. PICK h \in Guards : h.peer = q /\ b \in h.refs
            BY <2>1, <3>1 DEF LocksRight
        <3>3. h \notin D
            BY <1>2, <3>1, <3>2
        <3> QED
            BY <3>2, <3>3
    <2> QED
        BY <2>1, <2>2, <2>4, <2>5, <2>6, LimitsAssumption
<1>4. ASSUME NEW h \in Guards', NEW b \in h.refs PROVE b \in DOMAIN locks' /\ h.peer \in locks'[b]
    <2>1. b \in DOMAIN locks /\ h.peer \in locks[b]
        BY DEF LocksRight
    <2>2. h.peer \notin gone(b)
        <3>1. SUFFICES ASSUME NEW g \in D, b \in g.refs, g.peer = h.peer PROVE FALSE
            BY <1>2
        <3> QED
            BY <3>1 DEF LocksRight
    <2> QED
        BY <1>1, <2>1, <2>2
<1>5. \A h, k \in Guards' : \A b \in h.refs : b \in k.refs /\ h.peer = k.peer => h = k
    BY DEF LocksRight
<1> QED
    BY <1>3, <1>4, <1>5 DEF LocksRight

(***************************************************************************)
(* A request goes on with its guard.                                       *)
(***************************************************************************)
LEMMA KeepStep ==
    ASSUME LocksRight, NEW g \in Guards, NEW h, h.peer = g.peer, h.refs = g.refs,
           locks' = locks, Guards' = (Guards \ {g}) \cup {h}
    PROVE  LocksRight'
<1>1. \A b \in DOMAIN locks : \A p \in locks[b] : \E k \in Guards' : k.peer = p /\ b \in k.refs
    <2> SUFFICES ASSUME NEW b \in DOMAIN locks, NEW p \in locks[b]
                 PROVE  \E k \in Guards' : k.peer = p /\ b \in k.refs
        OBVIOUS
    <2>1. PICK k \in Guards : k.peer = p /\ b \in k.refs
        BY DEF LocksRight
    <2> QED
        BY <2>1
<1>2. \A k \in Guards' : \A b \in k.refs : b \in DOMAIN locks /\ k.peer \in locks[b]
    BY DEF LocksRight
<1>3. ASSUME NEW k \in Guards', NEW j \in Guards', NEW b \in k.refs, b \in j.refs, k.peer = j.peer
      PROVE  k = j
    BY <1>3 DEF LocksRight
<1> QED
    BY <1>1, <1>2, <1>3 DEF LocksRight

LEMMA SameLocks ==
    ASSUME LocksRight, locks' = locks, Guards' = Guards
    PROVE  LocksRight'
BY DEF LocksRight
-----------------------------------------------------------------------------
(* The blocks that are asked for *)

LEMMA AskedGrows ==
    ASSUME have \subseteq have'
    PROVE  Asked \subseteq Asked'
BY DEF Asked

(***************************************************************************)
(* Steps that take no block, whatever becomes of the requests, as long as  *)
(* they are for blocks that may be asked for.                              *)
(***************************************************************************)
LEMMA SameHave ==
    ASSUME RefsRight, OnlyNeededBlocks, UNCHANGED <<have, received>>, commands' \subseteq commands,
           \A g \in requests' : g \in requests \/ (g.refs \subseteq Asked /\ g.refs # {}),
           \A k \in DOMAIN chunks' : chunks'[k] \subseteq Asked
    PROVE  RefsRight' /\ OnlyNeededBlocks'
<1>1. Asked' = Asked
    BY DEF Asked
<1>2. RefsRight'
    BY <1>1 DEF RefsRight
<1>3. OnlyNeededBlocks'
    BY DEF OnlyNeededBlocks
<1> QED
    BY <1>2, <1>3

(***************************************************************************)
(* A request goes on to its next step.                                     *)
(***************************************************************************)
LEMMA MoveStep ==
    ASSUME SyncInv, NEW g \in requests, g.step # "swapping",
           NEW step, step # "swapping", NEW n, NEW blocks,
           Replace(g, At(step, g, n, blocks)), UNCHANGED <<core_vars, commands, locks, chunks>>
    PROVE  LocksRight' /\ RefsRight' /\ OnlyNeededBlocks'
<1> DEFINE h == At(step, g, n, blocks)
<1>1. h.peer = g.peer /\ h.refs = g.refs /\ h.step = step
    BY DEF At, Request
<1>2. requests' = (requests \ {g}) \cup {h}
    BY DEF Replace
<1> HIDE DEF h
<1>3. g \in Guards /\ Guards' = (Guards \ {g}) \cup {h}
    BY <1>1, <1>2 DEF Guards
<1>4. LocksRight'
    BY <1>1, <1>3, KeepStep DEF SyncInv
<1>5. RefsRight' /\ OnlyNeededBlocks'
    <2>1. \A k \in requests' : k \in requests \/ (k.refs \subseteq Asked /\ k.refs # {})
        BY <1>1, <1>2 DEF SyncInv, RefsRight
    <2>2. \A k \in DOMAIN chunks' : chunks'[k] \subseteq Asked
        BY DEF SyncInv, RefsRight
    <2> QED
        BY <2>1, <2>2, SameHave DEF SyncInv, core_vars
<1> QED
    BY <1>4, <1>5

(***************************************************************************)
(* Guards are dropped.                                                     *)
(***************************************************************************)
LEMMA DropStep ==
    ASSUME SyncInv, NEW D, D \subseteq Guards, UnlockBlocks(D), requests' = requests \ D
    PROVE  LocksRight'
<1>1. Guards' = Guards \ D
    BY DEF Guards
<1> QED
    BY <1>1, UnlockStep DEF SyncInv

LEMMA DropRefs ==
    ASSUME SyncInv, requests' \subseteq requests, UNCHANGED <<core_vars, chunks>>,
           commands' \subseteq commands
    PROVE  RefsRight' /\ OnlyNeededBlocks'
<1>1. \A k \in DOMAIN chunks' : chunks'[k] \subseteq Asked
    BY DEF SyncInv, RefsRight
<1> QED
    BY <1>1, SameHave DEF SyncInv, core_vars

(***************************************************************************)
(* process_fetched_blocks lets through only blocks that were asked for,    *)
(* and ancestors of those of them that came.                               *)
(***************************************************************************)
LEMMA ProcessStep ==
    ASSUME SyncInv, NEW g \in Guards, ProcessFetchedBlocks(g), UNCHANGED chunks
    PROVE  LocksRight' /\ RefsRight' /\ OnlyNeededBlocks'
<1>1. /\ have' = IF Expected(g.refs, g.blocks) THEN have \cup g.blocks ELSE have
      /\ UnlockBlocks({g}) /\ requests' = requests \ {g} /\ UNCHANGED <<received, commands>>
    BY DEF ProcessFetchedBlocks, Drop
<1>2. LocksRight'
    BY <1>1, DropStep
<1>3. /\ have \subseteq Blocks /\ g.refs \subseteq Asked /\ g \in requests
      /\ Asked \subseteq Blocks /\ \A b \in Blocks : Ancestors[b] \subseteq Blocks
    BY BlocksAssumption DEF SyncInv, RefsRight, Guards, Asked
<1>4. ASSUME NEW b \in have', b \notin have
      PROVE  b \in Blocks /\ \E c \in have' : b \in Ancestors[c]
    <2>1. /\ have' = have \cup g.blocks /\ b \in g.blocks
          /\ b \in g.refs \cup UNION {Ancestors[c] : c \in g.refs \cap g.blocks}
        BY <1>1, <1>4 DEF Expected
    <2>2. CASE b \in g.refs
        BY <1>3, <2>1, <2>2 DEF Asked
    <2>3. CASE b \in UNION {Ancestors[c] : c \in g.refs \cap g.blocks}
        BY <1>3, <2>1, <2>3
    <2> QED
        BY <2>1, <2>2, <2>3
<1>5. have \subseteq have' /\ Asked \subseteq Asked'
    BY <1>1, AskedGrows
<1>6. RefsRight'
    BY <1>1, <1>3, <1>4, <1>5 DEF SyncInv, RefsRight
<1>7. OnlyNeededBlocks'
    BY <1>1, <1>4, <1>5 DEF SyncInv, OnlyNeededBlocks
<1> QED
    BY <1>2, <1>6, <1>7

LEMMA SameRun ==
    ASSUME RunRight, UNCHANGED task_vars
    PROVE  RunRight'
BY DEF RunRight, EveryChunkHasAPeer, task_vars

-----------------------------------------------------------------------------
(* The chunks of a run *)

\* m things in portions of size are at most n portions, if they fit into them.
LEMMA Portions ==
    ASSUME NEW m \in Nat, NEW n \in Nat, NEW size \in Nat \ {0}, m <= n * size
    PROVE  /\ (m + size - 1) \div size \in Nat
           /\ (m + size - 1) \div size <= n
           /\ m > 0 => (m + size - 1) \div size > 0
<1> DEFINE q == (m + size - 1) \div size
           r == (m + size - 1) % size
<1>1. q \in Int /\ r \in 0..(size - 1) /\ m + size - 1 = size * q + r
    OBVIOUS
<1> HIDE DEF q, r
<1>2. q >= 0
    <2>1. SUFFICES ASSUME q <= -1 PROVE FALSE
        BY <1>1
    <2>2. size * q <= size * (-1)
        BY <1>1, <2>1
    <2> QED
        BY <1>1, <2>2
<1>3. q <= n
    <2>1. SUFFICES ASSUME q >= n + 1 PROVE FALSE
        BY <1>1
    <2>2. size * q >= size * (n + 1)
        BY <1>1, <2>1
    <2>3. size * (n + 1) = n * size + size
        OBVIOUS
    <2> QED
        BY <1>1, <2>2, <2>3
<1>4. m > 0 => q > 0
    <2>1. SUFFICES ASSUME m > 0, q = 0 PROVE FALSE
        BY <1>1, <1>2
    <2>2. size * q = 0
        BY <2>1
    <2> QED
        BY <1>1, <2>1, <2>2
<1> QED
    BY <1>1, <1>2, <1>3, <1>4 DEF q

(***************************************************************************)
(* The first n of a finite set of numbers are at most n.                   *)
(***************************************************************************)
LEMMA FirstAreFew ==
    ASSUME NEW S \in SUBSET Nat, IsFiniteSet(S), NEW n \in Nat
    PROVE  /\ FirstOf(S, n) \subseteq S /\ IsFiniteSet(FirstOf(S, n))
           /\ Cardinality(FirstOf(S, n)) <= n
           /\ S # {} /\ n > 0 => FirstOf(S, n) # {}
<1> DEFINE F == FirstOf(S, n)
           below(b) == {c \in S : c < b}
           rank == [b \in F |-> Rank(S, b)]
<1>1. F \subseteq S /\ IsFiniteSet(F)
    BY FS_Subset DEF FirstOf
<1>2. \A b \in S : IsFiniteSet(below(b)) /\ Cardinality(below(b)) \in Nat
    BY FS_Subset, FS_CardinalityType
<1>3. (\A b \in S : Rank(S, b) \in Nat) /\ rank \in [F -> 0..(n - 1)]
    <2>1. \A b \in S : Rank(S, b) = Cardinality(below(b))
        BY DEF Rank
    <2>2. \A b \in S : Rank(S, b) \in Nat
        BY Zenon, <1>2, <2>1
    <2>3. \A b \in F : Rank(S, b) < n
        BY DEF FirstOf
    <2>4. \A b \in F : b \in S
        BY <1>1
    <2> HIDE DEF F
    <2>5. ASSUME NEW b \in F PROVE Rank(S, b) \in 0..(n - 1)
        <3>1. Rank(S, b) \in Nat /\ Rank(S, b) < n
            BY Zenon, <2>2, <2>3, <2>4
        <3> QED
            BY <3>1
    <2> QED
        BY <2>2, <2>5
<1>4. ASSUME NEW b \in S, NEW c \in S, b < c PROVE Rank(S, b) < Rank(S, c)
    <2>1. \A d \in S : d < b => d < c
        BY <1>4
    <2>2. b \in below(c) /\ b \notin below(b)
        BY <1>4
    <2>3. below(b) \subseteq below(c) /\ below(b) # below(c)
        BY Zenon, <2>1, <2>2
    <2>4. Rank(S, b) = Cardinality(below(b)) /\ Rank(S, c) = Cardinality(below(c))
        BY DEF Rank
    <2> HIDE DEF below
    <2>5. Cardinality(below(b)) <= Cardinality(below(c)) /\ Cardinality(below(b)) # Cardinality(below(c))
        BY <1>2, <2>3, FS_Subset
    <2> QED
        BY <1>2, <2>4, <2>5
<1>5. IsFiniteSet(0..(n - 1)) /\ Cardinality(0..(n - 1)) = n
    BY FS_Interval
<1>6. Cardinality(F) \in Nat
    BY <1>1, FS_CardinalityType
<1>7. ~(n < Cardinality(F))
    <2>1. SUFFICES ASSUME n < Cardinality(F) PROVE FALSE
        OBVIOUS
    <2> HIDE DEF F, rank
    <2>2. Cardinality(0..(n - 1)) < Cardinality(F)
        BY <1>5, <2>1
    <2>3. PICK b, c \in F : b # c /\ rank[b] = rank[c]
        BY Zenon, <1>1, <1>3, <1>5, <2>2, FS_PigeonHole
    <2>4. Rank(S, b) = Rank(S, c) /\ b \in S /\ c \in S
        BY <1>1, <2>3 DEF rank
    <2>5. b < c \/ c < b
        BY <2>3, <2>4
    <2>6. Rank(S, b) \in Nat /\ Rank(S, c) \in Nat
        BY <1>3, <2>4
    <2> QED
        BY <1>4, <2>4, <2>5, <2>6
<1>8. S # {} /\ n > 0 => F # {}
    <2> SUFFICES ASSUME S # {}, n > 0 PROVE F # {}
        OBVIOUS
    <2>1. PICK b \in S : \A c \in S : ~(c < b)
        <3>1. PICK b \in S : \A c \in S : ~(<<c, b>> \in OpToRel(<, Nat))
            BY NatLessThanWellFounded, WFMin
        <3>2. \A c \in S : ~(c < b)
            BY Zenon, <3>1 DEF OpToRel
        <3> QED
            BY <3>2
    <2>2. below(b) = {}
        BY Zenon, <2>1
    <2>3. Rank(S, b) = 0
        BY <2>2, FS_EmptySet DEF Rank
    <2> QED
        BY <2>3 DEF FirstOf
<1> QED
    BY <1>1, <1>6, <1>7, <1>8

(***************************************************************************)
(* There are no more chunks than peers, and at least one.                  *)
(***************************************************************************)
LEMMA ChunksFacts ==
    ASSUME NEW missing \in SUBSET Blocks
    PROVE  /\ Chunks(missing) \in Seq(SUBSET Blocks)
           /\ \A k \in DOMAIN Chunks(missing) : Chunks(missing)[k] \subseteq missing
           /\ Len(Chunks(missing)) <= MaxPeers
           /\ missing # {} /\ MaxPeers > 0 => Chunks(missing) # <<>>
<1> DEFINE most == MaxPeers * MaxPerFetch
           first == FirstOf(missing, most)
           n == (Cardinality(first) + MaxPerFetch - 1) \div MaxPerFetch
           chunk(k) == {b \in first : Rank(first, b) \div MaxPerFetch = k - 1}
<1>1. MaxPeers \in Nat /\ MaxPerFetch \in Nat \ {0} /\ most \in Nat
    BY LimitsAssumption
<1>2. missing \in SUBSET Nat /\ IsFiniteSet(missing)
    BY Zenon, BlocksAssumption, FS_Subset
<1>3. most > 0 <=> MaxPeers > 0
    BY <1>1
<1> HIDE DEF most
<1>4. /\ first \subseteq missing /\ IsFiniteSet(first) /\ Cardinality(first) <= most
      /\ missing # {} /\ most > 0 => first # {}
    BY <1>1, <1>2, FirstAreFew
<1>5. Cardinality(first) \in Nat /\ (first # {} => Cardinality(first) > 0)
    BY <1>4, FS_CardinalityType, FS_EmptySet
<1>6. Chunks(missing) = [k \in 1..n |-> chunk(k)]
    BY DEF Chunks, most
<1> HIDE DEF first
<1>7. n \in Nat /\ n <= MaxPeers /\ (Cardinality(first) > 0 => n > 0)
    BY <1>1, <1>4, <1>5, Portions DEF most
<1> HIDE DEF n
<1>8. \A k \in 1..n : chunk(k) \subseteq missing
    BY <1>4
<1> HIDE DEF chunk
<1>9. Chunks(missing) \in Seq(SUBSET Blocks) /\ Len(Chunks(missing)) = n
    BY <1>6, <1>7, <1>8
<1> QED
    BY <1>3, <1>4, <1>5, <1>6, <1>7, <1>8, <1>9

-----------------------------------------------------------------------------
(* The steps *)

LEMMA InitSyncInv == Init => SyncInv
<1> SUFFICES ASSUME Init PROVE SyncInv
    OBVIOUS
<1>1. Guards = {} /\ DOMAIN locks = {} /\ DOMAIN chunks = {}
    BY DEF Init, Guards
<1>2. LocksRight
    BY <1>1 DEF LocksRight
<1>3. RefsRight
    BY <1>1 DEF RefsRight, Init
<1>4. RunRight
    BY FS_EmptySet DEF RunRight, EveryChunkHasAPeer, Init
<1> QED
    BY <1>2, <1>3, <1>4 DEF SyncInv, Init, OnlyNeededBlocks

LEMMA ReceiveBlockSyncInv ==
    ASSUME SyncInv, NEW p, NEW b, ReceiveBlock(p, b)
    PROVE  SyncInv'
<1>1. /\ <<p, b>> \in Broadcasts /\ received' = received \cup {<<p, b>>} /\ have' = have \cup {b}
      /\ UNCHANGED <<locks, requests, task_vars>>
      /\ \A c \in commands' : c \in commands \/ c.refs \subseteq Ancestors[b]
    BY DEF ReceiveBlock
<1>2. b \in Blocks
    BY <1>1, BlocksAssumption
<1>3. Asked \subseteq Asked' /\ Ancestors[b] \subseteq Asked'
    BY <1>1, AskedGrows DEF Asked
<1>4. LocksRight'
    BY <1>1, SameLocks DEF SyncInv, Guards
<1>5. RefsRight'
    BY <1>1, <1>2, <1>3 DEF SyncInv, RefsRight, task_vars
<1>6. OnlyNeededBlocks'
    <2>1. \E m \in received' : m[2] = b
        BY <1>1
    <2> QED
        BY <1>1, <2>1 DEF SyncInv, OnlyNeededBlocks
<1> QED
    BY <1>1, <1>4, <1>5, <1>6, SameRun DEF SyncInv

\* A new guard for the blocks of S that are free.
LEMMA NewGuard ==
    ASSUME SyncInv, NEW S, S \subseteq Asked, NEW kind, NEW step, step # "swapping", NEW p, NEW n,
           LockBlocks(Free(S, p), p),
           NEW R, R \subseteq requests, \A k \in requests \ R : k.step = "swapping",
           requests' = R \cup (IF Free(S, p) = {} THEN {}
                               ELSE {Request(kind, step, p, Free(S, p), n, {})})
    PROVE  /\ LocksRight'
           /\ \A g \in requests' : g \in requests \/ (g.refs \subseteq Asked /\ g.refs # {})
<1> DEFINE g == Request(kind, step, p, Free(S, p), n, {})
<1>1. g.peer = p /\ g.refs = Free(S, p) /\ g.step = step
    BY DEF Request
<1>2. Free(S, p) \subseteq S
    BY DEF Free
<1> HIDE DEF g
<1>3. Guards' = Guards \cup (IF g.refs = {} THEN {} ELSE {g})
    BY <1>1 DEF Guards, g
<1>4. LocksRight'
    BY <1>1, <1>3, LockStep DEF SyncInv
<1>5. \A h \in requests' : h \in requests \/ (h.refs \subseteq Asked /\ h.refs # {})
    BY <1>1, <1>2 DEF g
<1> QED
    BY <1>4, <1>5

LEMMA FetchBlocksSyncInv ==
    ASSUME SyncInv, NEW c, FetchBlocks(c)
    PROVE  SyncInv'
<1> DEFINE S == FirstOf(c.refs, MaxPerFetch)
<1>1. c \in commands /\ commands' = commands \ {c} /\ UNCHANGED <<core_vars, task_vars>>
    BY DEF FetchBlocks
<1>2. S \subseteq Asked
    BY <1>1 DEF FirstOf, SyncInv, RefsRight
<1>3. \/ /\ LockBlocks(Free(S, c.peer), c.peer) /\ Free(S, c.peer) # {}
         /\ requests' = requests \cup {Request("live", "queued", c.peer, Free(S, c.peer), 0, {})}
      \/ UNCHANGED <<locks, requests>>
    BY DEF FetchBlocks
<1> HIDE DEF S
<1>4. /\ LocksRight'
      /\ \A g \in requests' : g \in requests \/ (g.refs \subseteq Asked /\ g.refs # {})
    <2>1. CASE UNCHANGED <<locks, requests>>
        BY <2>1, SameLocks DEF SyncInv, Guards
    <2>2. CASE /\ LockBlocks(Free(S, c.peer), c.peer) /\ Free(S, c.peer) # {}
               /\ requests' = requests \cup
                     {Request("live", "queued", c.peer, Free(S, c.peer), 0, {})}
        BY Zenon, <1>2, <2>2, NewGuard
    <2> QED
        BY <1>3, <2>1, <2>2
<1>5. \A k \in DOMAIN chunks' : chunks'[k] \subseteq Asked
    BY <1>1 DEF SyncInv, RefsRight, task_vars
<1>6. RefsRight' /\ OnlyNeededBlocks'
    BY <1>1, <1>4, <1>5, SameHave DEF SyncInv, core_vars
<1> QED
    BY <1>1, <1>4, <1>6, SameRun DEF SyncInv

LEMMA LiveSyncInv ==
    ASSUME SyncInv, NEW g \in requests,
           StartRequest(g) \/ Answer(g) \/ Fail(g) \/ ProcessLive(g) \/ RetryLive(g)
    PROVE  SyncInv'
<1>1. UNCHANGED task_vars
    BY DEF StartRequest, Answer, Fail, ProcessLive, RetryLive
<1>2. LocksRight' /\ RefsRight' /\ OnlyNeededBlocks'
    <2>1. CASE StartRequest(g)
        BY <1>1, <2>1, MoveStep DEF StartRequest, task_vars
    <2>2. CASE Answer(g)
        BY <1>1, <2>2, MoveStep DEF Answer, task_vars
    <2>3. CASE Fail(g)
        BY <1>1, <2>3, MoveStep DEF Fail, task_vars
    <2>4. CASE ProcessLive(g)
        <3>1. g \in Guards /\ ProcessFetchedBlocks(g) /\ UNCHANGED chunks
            BY <1>1, <2>4 DEF ProcessLive, Guards, task_vars
        <3> QED
            BY <3>1, ProcessStep
    <2>5. CASE RetryLive(g)
        <3>1. g \in Guards /\ UNCHANGED <<core_vars, commands, chunks>>
            BY <1>1, <2>5 DEF RetryLive, Guards, task_vars
        <3>2. CASE Replace(g, At("sent", g, g.retries, {})) /\ UNCHANGED locks
            BY <2>5, <3>1, <3>2, MoveStep DEF RetryLive
        <3>3. CASE Drop({g})
            BY <3>1, <3>3, DropStep, DropRefs DEF Drop
        <3> QED
            BY <2>5, <3>2, <3>3 DEF RetryLive
    <2> QED
        BY <2>1, <2>2, <2>3, <2>4, <2>5
<1> QED
    BY <1>1, <1>2, SameRun DEF SyncInv

LEMMA StartRunSyncInv ==
    ASSUME SyncInv, StartFetchMissingBlocks
    PROVE  SyncInv'
<1> DEFINE missing == Missing(have)
<1>1. /\ missing # {} /\ phase' = "sending" /\ chunks' = Chunks(missing) /\ peers' = Peers
      /\ UNCHANGED <<core_vars, commands, locks, requests>>
    BY DEF StartFetchMissingBlocks
<1>2. missing \subseteq Asked /\ missing \subseteq Blocks
    BY BlocksAssumption DEF Missing, Asked, SyncInv, RefsRight
<1> HIDE DEF missing
<1>3. LocksRight'
    BY <1>1, SameLocks DEF SyncInv, Guards
<1>4. \A k \in DOMAIN chunks' : chunks'[k] \subseteq Asked
    BY <1>1, <1>2, ChunksFacts
<1>5. RefsRight' /\ OnlyNeededBlocks'
    BY <1>1, <1>4, SameHave DEF SyncInv, core_vars
<1>6. RunRight'
    <2>1. IsFiniteSet(Peers) /\ Cardinality(Peers) \in Nat
        BY CommitteeAssumption, FS_Subset, FS_CardinalityType DEF Peers
    <2>2. /\ chunks' \in Seq(SUBSET Blocks) /\ Len(chunks') <= MaxPeers /\ chunks' # <<>>
        BY <1>1, <1>2, ChunksFacts, LimitsAssumption
    <2>3. EveryChunkHasAPeer'
        BY <1>1, <2>1, <2>2, LimitsAssumption DEF EveryChunkHasAPeer
    <2> QED
        BY <1>1, <2>2, <2>3 DEF RunRight
<1> QED
    BY <1>3, <1>5, <1>6 DEF SyncInv

LEMMA SendInitialSyncInv ==
    ASSUME SyncInv, NEW p, SendInitial(p)
    PROVE  SyncInv'
<1> DEFINE S == Head(chunks)
<1>1. /\ phase = "sending" /\ p \in peers /\ chunks' = Tail(chunks) /\ peers' = peers \ {p}
      /\ phase' = IF Len(chunks) = 1 THEN "fetching" ELSE "sending"
      /\ UNCHANGED <<core_vars, commands>>
    BY DEF SendInitial
<1>2. chunks \in Seq(SUBSET Blocks) /\ chunks # <<>> /\ EveryChunkHasAPeer
    BY <1>1 DEF SyncInv, RunRight
<1>3. S \subseteq Asked /\ \A k \in DOMAIN chunks' : chunks'[k] \subseteq Asked
    <2>1. S = chunks[1] /\ 1 \in DOMAIN chunks
        BY <1>2
    <2>2. \A k \in DOMAIN chunks' : k + 1 \in DOMAIN chunks /\ chunks'[k] = chunks[k + 1]
        BY <1>1, <1>2
    <2> QED
        BY <2>1, <2>2 DEF SyncInv, RefsRight
<1>4. /\ LockBlocks(Free(S, p), p)
      /\ requests' = requests \cup (IF Free(S, p) = {} THEN {}
                                    ELSE {Request("scheduled", "sent", p, Free(S, p), 1, {})})
    BY DEF SendInitial
<1> HIDE DEF S
<1>5. /\ LocksRight'
      /\ \A g \in requests' : g \in requests \/ (g.refs \subseteq Asked /\ g.refs # {})
    BY Zenon, <1>3, <1>4, NewGuard
<1>6. RefsRight' /\ OnlyNeededBlocks'
    BY <1>1, <1>3, <1>5, SameHave DEF SyncInv, core_vars
<1>7. RunRight'
    <2>1. peers \subseteq Peers /\ IsFiniteSet(peers)
        BY CommitteeAssumption, FS_Subset DEF SyncInv, RunRight, Peers
    <2>2. Cardinality(peers) \in Nat /\ Cardinality(peers') = Cardinality(peers) - 1
        BY <1>1, <2>1, FS_CardinalityType, FS_RemoveElement
    <2>3. /\ chunks' \in Seq(SUBSET Blocks) /\ Len(chunks') = Len(chunks) - 1
          /\ (chunks' = <<>>) <=> (Len(chunks) = 1)
        <3>1. chunks' \in Seq(SUBSET Blocks) /\ Len(chunks') = Len(chunks) - 1
            BY <1>1, <1>2, HeadTailProperties
        <3>2. (chunks' = <<>>) <=> (Len(chunks') = 0)
            BY Zenon, <3>1, EmptySeq
        <3> QED
            BY <1>2, <3>1, <3>2, LenProperties
    <2>4. EveryChunkHasAPeer'
        BY <1>2, <2>2, <2>3 DEF EveryChunkHasAPeer
    <2> QED
        BY <1>1, <1>2, <2>1, <2>3, <2>4 DEF RunRight
<1> QED
    BY <1>5, <1>6, <1>7 DEF SyncInv

LEMMA RunSyncInv ==
    ASSUME SyncInv, NEW g \in requests,
           KeepResult(g) \/ Unswap(g) \/ Relock(g) \/ ProcessResult(g)
    PROVE  SyncInv'
<1>1. CASE KeepResult(g)
    <2>1. LocksRight' /\ RefsRight' /\ OnlyNeededBlocks'
        <3>1. g.step = "answered"
            BY <1>1 DEF KeepResult, Scheduled
        <3> QED
            BY <1>1, <3>1, MoveStep DEF KeepResult
    <2>2. RunRight'
        BY <1>1 DEF KeepResult, Selects, SyncInv, RunRight, EveryChunkHasAPeer
    <2> QED
        BY <2>1, <2>2 DEF SyncInv
<1>2. CASE Unswap(g)
    <2>1. /\ g.step = "failed" /\ phase = "fetching" /\ UnlockBlocks({g})
          /\ UNCHANGED <<core_vars, commands, phase, chunks>> /\ peers' \subseteq peers
          /\ \/ requests' = requests \ {g}
             \/ \E p \in peers : Replace(g, Request("scheduled", "swapping", p, g.refs, 1, {}))
        BY <1>2 DEF Unswap, Selects, Scheduled
    <2>2. g \in Guards
        BY <2>1 DEF Guards
    <2>3. /\ Guards' = Guards \ {g}
          /\ \A h \in requests' : h \in requests \/ h.refs = g.refs
        <3>1. CASE requests' = requests \ {g}
            BY <3>1 DEF Guards
        <3>2. CASE \E p \in peers : Replace(g, Request("scheduled", "swapping", p, g.refs, 1, {}))
            <4>1. PICK p \in peers : Replace(g, Request("scheduled", "swapping", p, g.refs, 1, {}))
                BY <3>2
            <4> DEFINE h == Request("scheduled", "swapping", p, g.refs, 1, {})
            <4>2. h.step = "swapping" /\ h.refs = g.refs
                BY DEF Request
            <4>3. requests' = (requests \ {g}) \cup {h}
                BY <4>1 DEF Replace
            <4> HIDE DEF h
            <4> QED
                BY <4>2, <4>3 DEF Guards
        <3> QED
            BY <2>1, <3>1, <3>2
    <2>4. LocksRight'
        BY <2>1, <2>2, <2>3, UnlockStep DEF SyncInv
    <2>5. RefsRight' /\ OnlyNeededBlocks'
        <3>1. \A h \in requests' : h \in requests \/ (h.refs \subseteq Asked /\ h.refs # {})
            BY <2>3 DEF SyncInv, RefsRight
        <3>2. \A k \in DOMAIN chunks' : chunks'[k] \subseteq Asked
            BY <2>1 DEF SyncInv, RefsRight
        <3> QED
            BY <2>1, <3>1, <3>2, SameHave DEF SyncInv, core_vars
    <2>6. RunRight'
        <3>1. chunks' = <<>> /\ phase' # "sending"
            BY <2>1 DEF SyncInv, RunRight
        <3>2. peers' \subseteq Peers /\ Cardinality(peers') \in Nat
            BY <2>1, CommitteeAssumption, FS_Subset, FS_CardinalityType DEF SyncInv, RunRight, Peers
        <3> QED
            BY <3>1, <3>2 DEF RunRight, EveryChunkHasAPeer
    <2> QED
        BY <2>4, <2>5, <2>6 DEF SyncInv
<1>3. CASE Relock(g)
    <2> DEFINE refs == Free(g.refs, g.peer)
    <2>1. /\ g.step = "swapping" /\ LockBlocks(refs, g.peer)
          /\ requests' = (requests \ {g}) \cup
                (IF refs = {} THEN {} ELSE {Request(g.kind, "sent", g.peer, refs, 1, {})})
          /\ UNCHANGED <<core_vars, commands, task_vars>>
        BY <1>3 DEF Relock, Scheduled
    <2>2. g.refs \subseteq Asked
        BY DEF SyncInv, RefsRight
    <2>3. /\ LocksRight'
          /\ \A h \in requests' : h \in requests \/ (h.refs \subseteq Asked /\ h.refs # {})
        <3> DEFINE R == requests \ {g}
        <3>1. R \subseteq requests /\ \A k \in requests \ R : k.step = "swapping"
            BY <2>1
        <3>2. requests' = R \cup (IF Free(g.refs, g.peer) = {} THEN {}
                ELSE {Request(g.kind, "sent", g.peer, Free(g.refs, g.peer), 1, {})})
            BY <2>1
        <3>3. LockBlocks(Free(g.refs, g.peer), g.peer)
            BY <2>1
        <3> HIDE DEF R
        <3> QED
            BY Zenon, <2>2, <3>1, <3>2, <3>3, NewGuard
    <2>4. \A k \in DOMAIN chunks' : chunks'[k] \subseteq Asked
        BY <2>1 DEF SyncInv, RefsRight, task_vars
    <2>5. RefsRight' /\ OnlyNeededBlocks'
        BY <2>1, <2>3, <2>4, SameHave DEF SyncInv, core_vars
    <2> QED
        BY <2>1, <2>3, <2>5, SameRun DEF SyncInv
<1>4. CASE ProcessResult(g)
    <2>1. g \in Guards /\ ProcessFetchedBlocks(g) /\ UNCHANGED task_vars
        BY <1>4 DEF ProcessResult, Scheduled, Guards
    <2> QED
        BY <2>1, ProcessStep, SameRun DEF SyncInv, task_vars
<1> QED
    BY <1>1, <1>2, <1>3, <1>4

LEMMA EndRunSyncInv ==
    ASSUME SyncInv, FetcherTimeout \/ EndRun
    PROVE  SyncInv'
<1>1. CASE FetcherTimeout
    <2> DEFINE late == Scheduled({"sent", "answered", "failed"})
    <2>1. /\ phase = "fetching" /\ phase' = "processing" /\ Drop(late)
          /\ UNCHANGED <<core_vars, commands, chunks, peers>>
        BY <1>1 DEF FetcherTimeout, Selects
    <2>2. late \subseteq Guards
        BY DEF Scheduled, Guards
    <2> HIDE DEF late
    <2>3. LocksRight' /\ RefsRight' /\ OnlyNeededBlocks'
        BY <2>1, <2>2, DropStep, DropRefs DEF Drop
    <2>4. RunRight'
        BY <2>1 DEF SyncInv, RunRight, EveryChunkHasAPeer
    <2> QED
        BY <2>3, <2>4 DEF SyncInv
<1>2. CASE EndRun
    <2>1. /\ phase = "processing" /\ phase' = "idle" /\ peers' = {}
          /\ UNCHANGED <<core_vars, commands, locks, requests, chunks>>
        BY <1>2 DEF EndRun
    <2>2. LocksRight'
        BY <2>1, SameLocks DEF SyncInv, Guards
    <2>3. RefsRight' /\ OnlyNeededBlocks'
        BY <2>1, DropRefs
    <2>4. RunRight'
        BY <2>1, FS_EmptySet DEF SyncInv, RunRight, EveryChunkHasAPeer
    <2> QED
        BY <2>2, <2>3, <2>4 DEF SyncInv
<1> QED
    BY <1>1, <1>2

(***************************************************************************)
(* SyncInv is an inductive invariant of the synchronizer, for every        *)
(* committee, every DAG of blocks, every choice of the limits and every    *)
(* interleaving of the live tasks with the run of the scheduler.           *)
(***************************************************************************)
THEOREM SynchronizerInvariant == Spec => []SyncInv
<1>1. ASSUME SyncInv, [Next]_vars PROVE SyncInv'
    <2>1. CASE UNCHANGED vars
        <3>1. UNCHANGED <<have, received, commands, locks, requests, phase, chunks, peers>>
            BY <2>1 DEF vars, core_vars, task_vars
        <3>2. LocksRight' /\ RefsRight' /\ OnlyNeededBlocks'
            BY <1>1, <3>1 DEF SyncInv, LocksRight, RefsRight, OnlyNeededBlocks, Guards, Asked
        <3>3. RunRight'
            BY <1>1, <3>1 DEF SyncInv, RunRight, EveryChunkHasAPeer
        <3> QED
            BY <3>2, <3>3 DEF SyncInv
    <2>2. CASE Next
        BY <1>1, <2>2, ReceiveBlockSyncInv, FetchBlocksSyncInv, LiveSyncInv, StartRunSyncInv,
           SendInitialSyncInv, RunSyncInv, EndRunSyncInv DEF Next
    <2> QED
        BY <1>1, <2>1, <2>2
<1> QED
    BY <1>1, InitSyncInv, PTL DEF Spec

(***************************************************************************)
(* The locks of the InflightBlocksMap are those of the live BlocksGuards:  *)
(* no swap, retry, abort or timeout leaks a lock or frees one that another *)
(* guard holds.                                                            *)
(***************************************************************************)
THEOREM LocksAlwaysMatchGuards == Spec => []LocksMatchGuards
<1>1. SyncInv => LocksMatchGuards
    <2> SUFFICES ASSUME SyncInv PROVE LocksMatchGuards
        OBVIOUS
    <2>1. LocksRight
        BY DEF SyncInv
    <2>2. ASSUME NEW b \in Blocks
          PROVE  LocksOf(b) = {g.peer : g \in {h \in Guards : b \in h.refs}}
        <3>1. \A p : p \in LocksOf(b) <=> \E g \in Guards : b \in g.refs /\ p = g.peer
            BY <2>1 DEF LocksRight, LocksOf
        <3> QED
            BY <3>1
    <2>3. ASSUME NEW b \in DOMAIN locks PROVE Cardinality(locks[b]) \in 1..MaxPerBlock
        <3>1. Cardinality(locks[b]) \in Nat /\ Cardinality(locks[b]) # 0
            BY <2>1, FS_CardinalityType, FS_EmptySet DEF LocksRight
        <3> QED
            BY <2>1, <3>1, LimitsAssumption DEF LocksRight
    <2>4. \A g, h \in Guards : g.peer = h.peer /\ g.refs \cap h.refs # {} => g = h
        BY <2>1 DEF LocksRight
    <2> QED
        BY <2>2, <2>3, <2>4 DEF LocksMatchGuards
<1> QED
    BY <1>1, SynchronizerInvariant, PTL

(***************************************************************************)
(* The synchronizer only fetches what a block received from a peer, or one *)
(* fetched on its behalf, names: add_block is never fed anything else.     *)
(***************************************************************************)
THEOREM OnlyNeededBlocksArrive == Spec => []OnlyNeededBlocks
<1>1. SyncInv => OnlyNeededBlocks
    BY DEF SyncInv
<1> QED
    BY <1>1, SynchronizerInvariant, PTL

(***************************************************************************)
(* In a committee with at least MAX_PEERS peers, a run of the scheduler    *)
(* that has a chunk left to send has a peer left to send it to: the expect *)
(* of fetch_blocks_from_authorities never fails.  In a smaller committee   *)
(* it can.                                                                 *)
(***************************************************************************)
THEOREM EveryChunkAlwaysHasAPeer == Spec => []EveryChunkHasAPeer
<1>1. SyncInv => EveryChunkHasAPeer
    BY DEF SyncInv, RunRight
<1> QED
    BY <1>1, SynchronizerInvariant, PTL

=============================================================================
