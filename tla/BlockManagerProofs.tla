------------------------- MODULE BlockManagerProofs -------------------------
(***************************************************************************)
(* Proofs about BlockManager, for every DAG of blocks, every batch size    *)
(* and every number of restarts.                                           *)
(***************************************************************************)
EXTENDS BlockManager, WellFoundedInduction, TLAPS

(* What suspended_blocks does not list as missing is in the DAG, or was     *)
(* rejected after it had been taken off the list.                           *)
AncestorsAccounted ==
    ~panicked => \A b \in Suspended :
        AncestorsOf(b) \subseteq
            suspended_blocks[b] \cup recent_blocks \cup Genesis \cup rejected

(* The missing references of the current call lie below what is left of it. *)
ReturnedBelowBatch ==
    \A a \in missing_returned : \A c \in batch : Round[a] < Round[c]

(* The inductive invariant. *)
IInv ==
    /\ TypeOK
    /\ CausallyClosed
    /\ TimestampsMonotone
    /\ MissingMapsAgree
    /\ MissingBlocksExact
    /\ SuspendedWaits
    /\ AncestorsAccounted
    /\ ReturnedAreAbsent
    /\ ReturnedBelowBatch

-----------------------------------------------------------------------------
(* The ancestors of a block are references. *)
LEMMA AncestorsType ==
    ASSUME NEW b \in Blocks
    PROVE  AncestorsOf(b) \subseteq Blocks \cup Genesis
BY BlocksAssumption DEF AncestorsOf

(* The worklist of try_unsuspend_children_blocks leaves nothing behind. *)
LEMMA UnsuspendedIsClosed ==
    ASSUME NEW b
    PROVE  UnsuspendClosed(b, Unsuspended(b))
<1> SUFFICES ASSUME NEW c \in Suspended,
                    suspended_blocks[c] \subseteq Unsuspended(b) \cup {b},
                    NEW S \in SUBSET Suspended,
                    UnsuspendClosed(b, S)
             PROVE  c \in S
    BY DEF UnsuspendClosed, Unsuspended
<1>1. Unsuspended(b) \subseteq S
    BY DEF Unsuspended
<1> QED
    BY <1>1 DEF UnsuspendClosed

(* A block is unsuspended only when all it was missing has been processed. *)
LEMMA UnsuspendedMissNothing ==
    ASSUME NEW b, NEW c \in Unsuspended(b)
    PROVE  suspended_blocks[c] \subseteq Unsuspended(b) \cup {b}
<1> DEFINE S == { d \in Unsuspended(b) :
                    suspended_blocks[d] \subseteq Unsuspended(b) \cup {b} }
<1>1. S \in SUBSET Suspended
    BY DEF Unsuspended
<1>2. UnsuspendClosed(b, S)
    <2> SUFFICES ASSUME NEW d \in Suspended,
                        suspended_blocks[d] \subseteq S \cup {b}
                 PROVE  d \in S
        BY DEF UnsuspendClosed
    <2>1. suspended_blocks[d] \subseteq Unsuspended(b) \cup {b}
        OBVIOUS
    <2>2. d \in Unsuspended(b)
        BY <2>1, UnsuspendedIsClosed DEF UnsuspendClosed
    <2> QED
        BY <2>1, <2>2
<1>3. c \in S
    BY <1>1, <1>2 DEF Unsuspended
<1> QED
    BY <1>3

(* A block that fails the check, or has a rejected ancestor, is rejected. *)
LEMMA RejectedIsClosed ==
    ASSUME NEW U
    PROVE  RejectClosed(U, RejectedIn(U))
<1> SUFFICES ASSUME NEW c \in U,
                    ~CheckAncestors(c) \/ AncestorsOf(c) \cap RejectedIn(U) # {},
                    NEW S \in SUBSET U,
                    RejectClosed(U, S)
             PROVE  c \in S
    BY DEF RejectClosed, RejectedIn
<1>1. RejectedIn(U) \subseteq S
    BY DEF RejectedIn
<1> QED
    BY <1>1 DEF RejectClosed

-----------------------------------------------------------------------------
(* What an accepting step does to the maps and to the DAG, without the       *)
(* fixed points.                                                             *)
LEMMA AcceptEffect ==
    ASSUME TypeOK, SuspendedWaits, NEW b \in Blocks, Connected(b)
    PROVE  LET U == {b} \cup Unsuspended(b)
           IN  /\ U \subseteq Blocks
               /\ U \cap recent_blocks = {}
               /\ b \notin Suspended
               /\ U \subseteq Suspended \cup {b}
               /\ RejectedIn(U) \subseteq U
               /\ \A c \in U \cap Suspended : suspended_blocks[c] \subseteq U
               /\ \A c \in Suspended \ U : suspended_blocks[c] \ U # {}
<1> DEFINE U == {b} \cup Unsuspended(b)
<1>1. b \notin Suspended /\ b \notin recent_blocks
    BY DEF Connected, Processed, InDag
<1>2. Unsuspended(b) \subseteq Suspended
    BY DEF Unsuspended
<1>3. U \subseteq Blocks /\ U \cap recent_blocks = {}
    BY <1>1, <1>2 DEF TypeOK, SuspendedWaits
<1>4. RejectedIn(U) \subseteq U
    BY DEF RejectedIn
<1>5. \A c \in U \cap Suspended : suspended_blocks[c] \subseteq U
    BY <1>1, UnsuspendedMissNothing
<1>6. \A c \in Suspended \ U : suspended_blocks[c] \ U # {}
    BY UnsuspendedIsClosed DEF UnsuspendClosed
<1> QED
    BY <1>1, <1>2, <1>3, <1>4, <1>5, <1>6

(* The blocks accepted by a step have their ancestors in the DAG after it,   *)
(* and pass check_ancestors.                                                 *)
LEMMA AcceptedAreConnected ==
    ASSUME NEW U \in SUBSET Blocks,
           \A c \in U : ~Lacks(c, NotFound(c, U), U),
           NEW c \in U \ RejectedIn(U)
    PROVE  /\ AncestorsOf(c) \subseteq Genesis \cup recent_blocks \cup (U \ RejectedIn(U))
           /\ CheckAncestors(c)
<1>1. CheckAncestors(c) /\ AncestorsOf(c) \cap RejectedIn(U) = {}
    BY RejectedIsClosed DEF RejectClosed
<1>2. ASSUME NEW i \in DOMAIN Ancestors[c]
      PROVE  Ancestors[c][i] \in Genesis \cup recent_blocks \cup (U \ RejectedIn(U))
    <2>1. \A j \in DOMAIN Ancestors[c] : Ancestors[c][j] \notin RejectedIn(U)
        BY <1>1 DEF AncestorsOf
    <2>2. \A j \in 1..(i - 1) : j \in DOMAIN Ancestors[c]
        <3>1. Ancestors[c] \in Seq(Blocks \cup Genesis)
            BY BlocksAssumption
        <3> QED
            BY <3>1
    <2>3. InDag(Ancestors[c][i]) \/ Ancestors[c][i] \in U
        BY <2>1, <2>2 DEF Lacks, NotFound, AncestorsOf
    <2> QED
        BY <2>1, <2>3 DEF InDag
<1> QED
    BY <1>1, <1>2 DEF AncestorsOf

-----------------------------------------------------------------------------
LEMMA InitIInv == Init => IInv
<1> SUFFICES ASSUME Init PROVE IInv
    OBVIOUS
<1> USE DEF Init, Suspended
<1>1. Suspended = {} /\ DOMAIN missing_ancestors = {}
    OBVIOUS
<1>2. TypeOK
    <2>1. /\ suspended_blocks \in [Suspended -> SUBSET Blocks]
          /\ missing_ancestors \in [DOMAIN missing_ancestors -> SUBSET Blocks]
        BY <1>1
    <2>2. restarts \in 0..MaxRestarts
        BY BoundAssumption
    <2>3. panicked \in BOOLEAN
        OBVIOUS
    <2> QED
        BY <1>1, <2>1, <2>2, <2>3 DEF TypeOK
<1>3. CausallyClosed /\ TimestampsMonotone
    BY DEF CausallyClosed, TimestampsMonotone
<1>4. MissingMapsAgree
    BY <1>1 DEF MissingMapsAgree, WaitersOf
<1>5. MissingBlocksExact /\ SuspendedWaits /\ AncestorsAccounted
    BY <1>1 DEF MissingBlocksExact, SuspendedWaits, AncestorsAccounted
<1>6. ReturnedAreAbsent /\ ReturnedBelowBatch
    BY DEF ReturnedAreAbsent, ReturnedBelowBatch
<1> QED
    BY <1>2, <1>3, <1>4, <1>5, <1>6 DEF IInv

(* Suspending a block preserves the invariant. *)
LEMMA SuspendStep ==
    ASSUME IInv, NEW b \in Blocks, SuspendBlock(b)
    PROVE  IInv'
<1> USE DEF Suspended
<1> DEFINE M == MissingOf(b)
<1>1. /\ M \subseteq Blocks /\ M \subseteq AncestorsOf(b)
      /\ M \cap recent_blocks = {}
      /\ AncestorsOf(b) \subseteq M \cup recent_blocks \cup Genesis
    BY AncestorsType DEF MissingOf, InDag
<1>2. b \notin Suspended /\ b \notin recent_blocks /\ b \notin M
    <2>1. b \notin M
        BY <1>1, RoundAssumption, BlocksAssumption
    <2> QED
        BY <2>1 DEF SuspendBlock, Processed, InDag
<1>3. /\ Suspended' = Suspended \cup {b}
      /\ suspended_blocks'[b] = M
      /\ \A c \in Suspended : suspended_blocks'[c] = suspended_blocks[c]
    BY <1>2 DEF SuspendBlock
<1>4. /\ DOMAIN missing_ancestors' = DOMAIN missing_ancestors \cup M
      /\ \A a \in M : missing_ancestors'[a] = WaitersOf(a) \cup {b}
      /\ \A a \in DOMAIN missing_ancestors \ M : missing_ancestors'[a] = missing_ancestors[a]
    BY DEF SuspendBlock, WaitersOf
<1>5. UNCHANGED <<recent_blocks, blocks_to_write, rejected, panicked, restarts>>
    BY DEF SuspendBlock, dag
<1>6. TypeOK'
    <2>1. /\ batch' \subseteq Blocks /\ missing_returned' \subseteq Blocks
          /\ missing_blocks' \subseteq Blocks
        BY <1>1 DEF SuspendBlock, IInv, TypeOK
    <2>2. suspended_blocks' \in [Suspended' -> SUBSET Blocks] /\ Suspended' \subseteq Blocks
        BY <1>1, <1>2 DEF SuspendBlock, IInv, TypeOK
    <2>3. \A a \in Blocks : WaitersOf(a) \subseteq Blocks
        BY DEF WaitersOf, IInv, TypeOK
    <2>4. /\ missing_ancestors' \in [DOMAIN missing_ancestors' -> SUBSET Blocks]
          /\ DOMAIN missing_ancestors' \subseteq Blocks
        BY <1>1, <2>3 DEF SuspendBlock, IInv, TypeOK
    <2> QED
        BY <1>5, <2>1, <2>2, <2>4 DEF TypeOK, IInv
<1>7. CausallyClosed' /\ TimestampsMonotone'
    BY <1>5 DEF IInv, CausallyClosed, TimestampsMonotone
<1>8. MissingMapsAgree'
    <2> SUFFICES ASSUME NEW a \in Blocks, NEW c \in Blocks
                 PROVE  (c \in WaitersOf(a)') <=> (c \in Suspended' /\ a \in suspended_blocks'[c])
        BY DEF MissingMapsAgree
    <2>1. (c \in WaitersOf(a)) <=> (c \in Suspended /\ a \in suspended_blocks[c])
        BY DEF IInv, MissingMapsAgree
    <2>2. WaitersOf(a)' = IF a \in M THEN WaitersOf(a) \cup {b} ELSE WaitersOf(a)
        BY <1>4 DEF WaitersOf
    <2> QED
        BY <1>2, <1>3, <2>1, <2>2
<1>9. MissingBlocksExact'
    BY <1>2, <1>3, <1>4 DEF SuspendBlock, IInv, MissingBlocksExact
<1>10. SuspendedWaits'
    BY <1>1, <1>2, <1>3, <1>5 DEF SuspendBlock, IInv, SuspendedWaits
<1>11. AncestorsAccounted'
    BY <1>1, <1>3, <1>5 DEF SuspendBlock, IInv, AncestorsAccounted
<1>12. \A c \in batch : Round[b] <= Round[c]
    BY DEF SuspendBlock, NextInBatch
<1>13. \A a \in M : Round[a] < Round[b]
    BY <1>1, RoundAssumption
<1>14. missing_returned' = missing_returned \cup (M \ Suspended) /\ batch' = batch \ {b}
    BY DEF SuspendBlock
<1>15. b \in batch
    BY DEF SuspendBlock, NextInBatch
<1>16. ReturnedAreAbsent'
    <2>1. b \notin missing_returned
        BY <1>15, BlocksAssumption DEF IInv, ReturnedBelowBatch
    <2>2. M \cap batch = {}
        BY <1>1, <1>12, <1>13, BlocksAssumption DEF IInv, TypeOK
    <2> QED
        BY <1>1, <1>2, <1>3, <1>5, <1>14, <2>1, <2>2 DEF IInv, ReturnedAreAbsent
<1>17. ReturnedBelowBatch'
    <2> SUFFICES ASSUME NEW a \in M, NEW c \in batch
                 PROVE  Round[a] < Round[c]
        BY <1>14 DEF IInv, ReturnedBelowBatch
    <2>1. Round[a] \in Nat /\ Round[b] \in Nat /\ Round[c] \in Nat
        BY <1>1, BlocksAssumption DEF IInv, TypeOK
    <2> QED
        BY <1>12, <1>13, <2>1
<1> QED
    BY <1>6, <1>7, <1>8, <1>9, <1>10, <1>11, <1>16, <1>17 DEF IInv

(* Taking processed blocks out of the maps preserves what the maps say of    *)
(* each other, whether the blocks are accepted, rejected or never verified.  *)
LEMMA UnsuspendMaps ==
    ASSUME IInv, NEW b \in Blocks, Connected(b),
           NEW U, U = {b} \cup Unsuspended(b), Unsuspend(b, U)
    PROVE  /\ Suspended' = Suspended \ U
           /\ \A c \in Suspended \ U : suspended_blocks'[c] = suspended_blocks[c] \ U
           /\ suspended_blocks' \in [Suspended' -> SUBSET Blocks]
           /\ missing_ancestors' \in [DOMAIN missing_ancestors' -> SUBSET Blocks]
           /\ DOMAIN missing_ancestors' \subseteq Blocks
           /\ missing_blocks' \subseteq Blocks
           /\ MissingMapsAgree'
           /\ MissingBlocksExact'
<1> USE DEF Suspended
<1>1. /\ U \subseteq Suspended \cup {b} /\ b \notin Suspended /\ b \in U
      /\ \A c \in U \cap Suspended : suspended_blocks[c] \subseteq U
    BY AcceptEffect DEF IInv
<1>2. /\ Suspended' = Suspended \ U
      /\ \A c \in Suspended \ U : suspended_blocks'[c] = suspended_blocks[c] \ U
      /\ suspended_blocks' \in [Suspended' -> SUBSET Blocks]
    BY DEF Unsuspend, IInv, TypeOK
<1>3. /\ DOMAIN missing_ancestors' = DOMAIN missing_ancestors \ U
      /\ \A a \in DOMAIN missing_ancestors \ U : missing_ancestors'[a] = missing_ancestors[a]
      /\ missing_ancestors' \in [DOMAIN missing_ancestors' -> SUBSET Blocks]
      /\ DOMAIN missing_ancestors' \subseteq Blocks
    BY DEF Unsuspend, IInv, TypeOK
<1>4. missing_blocks' \subseteq Blocks
    BY DEF Unsuspend, IInv, TypeOK
<1>5. MissingMapsAgree'
    <2> SUFFICES ASSUME NEW a \in Blocks, NEW c \in Blocks
                 PROVE  (c \in WaitersOf(a)') <=> (c \in Suspended' /\ a \in suspended_blocks'[c])
        BY DEF MissingMapsAgree
    <2>1. (c \in WaitersOf(a)) <=> (c \in Suspended /\ a \in suspended_blocks[c])
        BY DEF IInv, MissingMapsAgree
    <2>2. WaitersOf(a)' = IF a \in U THEN {} ELSE WaitersOf(a)
        BY <1>3 DEF WaitersOf
    <2> QED
        BY <1>1, <1>2, <2>1, <2>2
<1>6. MissingBlocksExact'
    BY <1>1, <1>2, <1>3 DEF Unsuspend, IInv, MissingBlocksExact
<1> QED
    BY <1>2, <1>3, <1>4, <1>5, <1>6

(* Accepting a block and what it unsuspends preserves the invariant. *)
LEMMA AcceptStep ==
    ASSUME IInv, NEW b \in Blocks, AcceptBlock(b)
    PROVE  IInv'
<1> DEFINE U == {b} \cup Unsuspended(b)
<1> DEFINE R == RejectedIn(U)
<1>1. /\ U \subseteq Blocks /\ U \cap recent_blocks = {} /\ b \notin Suspended
      /\ U \subseteq Suspended \cup {b}
      /\ R \subseteq U
      /\ \A c \in Suspended \ U : suspended_blocks[c] \ U # {}
    BY AcceptEffect DEF IInv, AcceptBlock
<1>2. /\ Suspended' = Suspended \ U
      /\ \A c \in Suspended \ U : suspended_blocks'[c] = suspended_blocks[c] \ U
      /\ suspended_blocks' \in [Suspended' -> SUBSET Blocks]
      /\ missing_ancestors' \in [DOMAIN missing_ancestors' -> SUBSET Blocks]
      /\ DOMAIN missing_ancestors' \subseteq Blocks
      /\ missing_blocks' \subseteq Blocks
      /\ MissingMapsAgree'
      /\ MissingBlocksExact'
    BY UnsuspendMaps DEF AcceptBlock
<1>3. /\ recent_blocks' = recent_blocks \cup (U \ R)
      /\ blocks_to_write' = blocks_to_write \cup (U \ R)
      /\ rejected' = rejected \cup R
      /\ batch' = batch \ {b}
      /\ UNCHANGED <<missing_returned, panicked, restarts>>
    BY DEF AcceptBlock
<1>4. \A c \in U \ R :
         /\ AncestorsOf(c) \subseteq Genesis \cup recent_blocks \cup (U \ R)
         /\ CheckAncestors(c)
    BY <1>1, AcceptedAreConnected DEF AcceptBlock
<1> HIDE DEF U, R
<1>5. TypeOK'
    BY <1>1, <1>2, <1>3 DEF IInv, TypeOK
<1>6. CausallyClosed'
    <2>1. recent_blocks' \ blocks_to_write' = recent_blocks \ blocks_to_write
        BY <1>1, <1>3
    <2>2. ASSUME NEW c \in recent_blocks'
          PROVE  AncestorsOf(c) \subseteq recent_blocks' \cup Genesis
        BY <1>3, <1>4 DEF IInv, CausallyClosed
    <2> QED
        BY <2>1, <2>2 DEF IInv, CausallyClosed
<1>7. TimestampsMonotone'
    BY <1>3, <1>4 DEF IInv, TimestampsMonotone, CheckAncestors
<1>8. SuspendedWaits'
    BY <1>1, <1>2, <1>3 DEF IInv, SuspendedWaits
<1>9. AncestorsAccounted'
    <2>1. ~panicked
        BY DEF AcceptBlock
    <2> QED
        BY <1>2, <1>3, <2>1 DEF IInv, AncestorsAccounted
<1>10. b \in batch
    BY DEF AcceptBlock, NextInBatch
<1>11. b \notin missing_returned
    BY <1>10, BlocksAssumption DEF IInv, ReturnedBelowBatch
<1>12. ReturnedAreAbsent'
    BY <1>1, <1>2, <1>3, <1>11 DEF IInv, ReturnedAreAbsent
<1>13. ReturnedBelowBatch'
    BY <1>3 DEF IInv, ReturnedBelowBatch
<1> QED
    BY <1>2, <1>5, <1>6, <1>7, <1>8, <1>9, <1>12, <1>13 DEF IInv

(* The panic leaves the maps as the unsuspension made them. *)
LEMMA PanicStep ==
    ASSUME NEW b \in Blocks, IInv, PanicOnMissingAncestor(b)
    PROVE  IInv'
<1> DEFINE U == {b} \cup Unsuspended(b)
<1>1. /\ U \subseteq Suspended \cup {b}
      /\ \A c \in Suspended \ U : suspended_blocks[c] \ U # {}
    BY AcceptEffect DEF IInv, PanicOnMissingAncestor
<1>2. /\ Suspended' = Suspended \ U
      /\ \A c \in Suspended \ U : suspended_blocks'[c] = suspended_blocks[c] \ U
      /\ suspended_blocks' \in [Suspended' -> SUBSET Blocks]
      /\ missing_ancestors' \in [DOMAIN missing_ancestors' -> SUBSET Blocks]
      /\ DOMAIN missing_ancestors' \subseteq Blocks
      /\ missing_blocks' \subseteq Blocks
      /\ MissingMapsAgree'
      /\ MissingBlocksExact'
    BY UnsuspendMaps DEF PanicOnMissingAncestor
<1>3. /\ panicked' = TRUE
      /\ UNCHANGED <<batch, missing_returned, recent_blocks, blocks_to_write, rejected, restarts>>
    BY DEF PanicOnMissingAncestor, dag
<1> HIDE DEF U
<1>4. TypeOK'
    BY <1>1, <1>2, <1>3 DEF IInv, TypeOK
<1>5. CausallyClosed' /\ TimestampsMonotone'
    BY <1>3 DEF IInv, CausallyClosed, TimestampsMonotone
<1>6. SuspendedWaits'
    BY <1>1, <1>2, <1>3 DEF IInv, SuspendedWaits
<1>7. AncestorsAccounted'
    BY <1>3 DEF AncestorsAccounted
<1>8. ReturnedAreAbsent' /\ ReturnedBelowBatch'
    BY <1>2, <1>3 DEF IInv, ReturnedAreAbsent, ReturnedBelowBatch
<1> QED
    BY <1>2, <1>4, <1>5, <1>6, <1>7, <1>8 DEF IInv

(* The steps that leave the maps alone or empty them. *)
LEMMA OtherSteps ==
    ASSUME IInv,
           \/ \E S \in SUBSET Blocks : StartBatch(S)
           \/ \E b \in Blocks : SkipProcessed(b)
           \/ Flush
           \/ Restart
           \/ UNCHANGED vars
    PROVE  IInv'
<1> USE DEF IInv, Suspended, manager, dag
<1>1. CASE \E S \in SUBSET Blocks : StartBatch(S)
    BY <1>1 DEF StartBatch, TypeOK, CausallyClosed, TimestampsMonotone,
                MissingMapsAgree, WaitersOf, MissingBlocksExact, SuspendedWaits,
                AncestorsAccounted, ReturnedAreAbsent, ReturnedBelowBatch
<1>2. CASE \E b \in Blocks : SkipProcessed(b)
    BY <1>2 DEF SkipProcessed, TypeOK, CausallyClosed, TimestampsMonotone,
                MissingMapsAgree, WaitersOf, MissingBlocksExact, SuspendedWaits,
                AncestorsAccounted, ReturnedAreAbsent, ReturnedBelowBatch
<1>3. CASE Flush
    BY <1>3 DEF Flush, TypeOK, CausallyClosed, TimestampsMonotone,
                MissingMapsAgree, WaitersOf, MissingBlocksExact, SuspendedWaits,
                AncestorsAccounted, ReturnedAreAbsent, ReturnedBelowBatch
<1>4. CASE Restart
    <2> USE <1>4 DEF Restart
    <2>1. Suspended' = {} /\ DOMAIN missing_ancestors' = {}
        OBVIOUS
    <2>2. TypeOK'
        <3>1. /\ suspended_blocks' \in [Suspended' -> SUBSET Blocks]
              /\ missing_ancestors' \in [(DOMAIN missing_ancestors)' -> SUBSET Blocks]
            BY <2>1
        <3>2. restarts' \in 0..MaxRestarts
            BY BoundAssumption DEF TypeOK
        <3>3. panicked' \in BOOLEAN
            OBVIOUS
        <3> QED
            BY <2>1, <3>1, <3>2, <3>3 DEF TypeOK
    <2>3. CausallyClosed' /\ TimestampsMonotone'
        BY DEF CausallyClosed, TimestampsMonotone
    <2>4. MissingMapsAgree'
        BY <2>1 DEF MissingMapsAgree, WaitersOf
    <2>5. MissingBlocksExact' /\ SuspendedWaits' /\ AncestorsAccounted'
        BY <2>1 DEF MissingBlocksExact, SuspendedWaits, AncestorsAccounted
    <2>6. ReturnedAreAbsent' /\ ReturnedBelowBatch'
        BY DEF ReturnedAreAbsent, ReturnedBelowBatch
    <2> QED
        BY <2>2, <2>3, <2>4, <2>5, <2>6
<1>5. CASE UNCHANGED vars
    BY <1>5 DEF vars, TypeOK, CausallyClosed, TimestampsMonotone,
                MissingMapsAgree, WaitersOf, MissingBlocksExact, SuspendedWaits,
                AncestorsAccounted, ReturnedAreAbsent, ReturnedBelowBatch
<1> QED
    BY <1>1, <1>2, <1>3, <1>4, <1>5

LEMMA NextIInv == IInv /\ [Next]_vars => IInv'
<1> SUFFICES ASSUME IInv, [Next]_vars PROVE IInv'
    OBVIOUS
<1>1. CASE \E b \in Blocks : SuspendBlock(b)
    BY <1>1, SuspendStep
<1>2. CASE \E b \in Blocks : AcceptBlock(b)
    BY <1>2, AcceptStep
<1>3. CASE \E b \in Blocks : PanicOnMissingAncestor(b)
    BY <1>3, PanicStep
<1>4. CASE Receive \/ (\E b \in Blocks : SkipProcessed(b)) \/ Flush \/ Restart
           \/ UNCHANGED vars
    BY <1>4, OtherSteps DEF Receive
<1> QED
    BY <1>1, <1>2, <1>3, <1>4 DEF Next

(* The inductive invariant holds in every reachable state: the block         *)
(* manager's two maps and its missing set stay consistent whatever arrives,  *)
(* in whatever order, and across restarts.                                   *)
THEOREM BlockManagerInvariant == Spec => []IInv
BY InitIInv, NextIInv, PTL DEF Spec

(* Every accepted block has its causal history in the DAG, and every stored  *)
(* block in the store (try_accept_blocks).                                   *)
THEOREM DagIsCausallyClosed == Spec => []CausallyClosed
<1>1. IInv => CausallyClosed
    BY DEF IInv
<1> QED
    BY <1>1, BlockManagerInvariant, PTL

(* Suspended blocks never wait for each other only: the one of the lowest    *)
(* round misses a block that is not suspended.                               *)
THEOREM AlwaysSomethingToFetch == Spec => []SomethingToFetch
<1>1. ASSUME IInv PROVE SomethingToFetch
    <2> SUFFICES ASSUME Suspended # {} PROVE missing_blocks # {}
        BY DEF SomethingToFetch
    <2> DEFINE Rounds == { Round[b] : b \in Suspended }
    <2>1. Rounds \subseteq Nat /\ Rounds # {}
        BY <1>1, BlocksAssumption DEF IInv, TypeOK
    <2>2. PICK r \in Rounds : \A q \in Rounds : ~(<<q, r>> \in OpToRel(<, Nat))
        BY <2>1, NatLessThanWellFounded, WFMin
    <2>3. PICK b \in Suspended : r = Round[b]
        OBVIOUS
    <2>4. PICK a \in suspended_blocks[b] : TRUE
        BY <1>1 DEF IInv, SuspendedWaits
    <2>5. a \in Blocks /\ b \in Blocks /\ a \in AncestorsOf(b)
        BY <1>1 DEF IInv, SuspendedWaits, TypeOK
    <2>6. Round[a] < Round[b]
        BY <2>5, RoundAssumption
    <2>7. a \notin Suspended
        BY <2>1, <2>2, <2>3, <2>5, <2>6, BlocksAssumption DEF OpToRel
    <2>8. b \in WaitersOf(a)
        BY <1>1, <2>5 DEF IInv, MissingMapsAgree
    <2>9. a \in DOMAIN missing_ancestors
        BY <2>8 DEF WaitersOf
    <2> QED
        BY <1>1, <2>7, <2>9 DEF IInv, MissingBlocksExact
<1> QED
    BY <1>1, BlockManagerInvariant, PTL

(* The missing-ancestor panic of try_accept_blocks needs a block that        *)
(* check_ancestors refused before: without one, every ancestor that left the *)
(* map of a suspended block is in the DAG.                                   *)
THEOREM PanicNeedsRejection == Spec => []PanicOnlyAfterRejection
<1>1. Init => PanicOnlyAfterRejection
    BY DEF Init, PanicOnlyAfterRejection
<1>2. IInv /\ PanicOnlyAfterRejection /\ [Next]_vars => PanicOnlyAfterRejection'
    <2> SUFFICES ASSUME IInv, PanicOnlyAfterRejection, [Next]_vars
                 PROVE  PanicOnlyAfterRejection'
        OBVIOUS
    <2> USE DEF PanicOnlyAfterRejection
    <2>1. ASSUME NEW b \in Blocks, PanicOnMissingAncestor(b), rejected = {}
          PROVE  FALSE
        <3> DEFINE U == {b} \cup Unsuspended(b)
        <3>1. /\ U \subseteq Suspended \cup {b}
              /\ \A c \in U \cap Suspended : suspended_blocks[c] \subseteq U
            BY <2>1, AcceptEffect DEF IInv, PanicOnMissingAncestor
        <3>2. PICK c \in U : Lacks(c, MayBeNotFound(b, c, U), U)
            BY <2>1 DEF PanicOnMissingAncestor
        <3>3. PICK a \in AncestorsOf(c) :
                 /\ ~InDag(a)
                 /\ a \notin U \/ (a # b /\ ReachedWithout(b, c, a))
            BY <3>2 DEF Lacks, MayBeNotFound, NotFound, AncestorsOf
        <3>4. CASE c = b
            BY <2>1, <3>3, <3>4 DEF PanicOnMissingAncestor, Connected, MissingOf
        <3>5. CASE c \in Suspended
            <4>1. a \in suspended_blocks[c]
                BY <2>1, <3>3, <3>5
                   DEF IInv, AncestorsAccounted, InDag, PanicOnMissingAncestor
            <4>2. a # b /\ ReachedWithout(b, c, a)
                BY <3>1, <3>3, <3>5, <4>1
            <4> DEFINE S == Suspended \ {a, c}
            <4>3. \A d \in Suspended \ {a} :
                     suspended_blocks[d] \subseteq S \cup {b} => d \in S
                BY <4>1, <4>2
            <4> QED
                BY <4>2, <4>3 DEF ReachedWithout
        <3> QED
            BY <3>1, <3>4, <3>5
    <2>2. CASE \E b \in Blocks : AcceptBlock(b)
        BY <2>2 DEF AcceptBlock
    <2>3. CASE \E b \in Blocks : PanicOnMissingAncestor(b)
        BY <2>1, <2>3 DEF PanicOnMissingAncestor
    <2>4. CASE Receive
        BY <2>4 DEF Receive, StartBatch
    <2>5. CASE \E b \in Blocks : SkipProcessed(b) \/ SuspendBlock(b)
        BY <2>5 DEF SkipProcessed, SuspendBlock
    <2>6. CASE Flush \/ Restart \/ UNCHANGED vars
        BY <2>6 DEF Flush, Restart, vars
    <2> QED
        BY <2>2, <2>3, <2>4, <2>5, <2>6 DEF Next
<1> QED
    BY <1>1, <1>2, BlockManagerInvariant, PTL DEF Spec

(* The variables keep their types: references of real blocks everywhere, and *)
(* nothing to write that is not accepted.                                    *)
THEOREM TypesAreKept == Spec => []TypeOK
<1>1. IInv => TypeOK
    BY DEF IInv
<1> QED
    BY <1>1, BlockManagerInvariant, PTL

(* No block that fails check_ancestors gets into the DAG, at whichever step  *)
(* of an unsuspension it is verified.                                        *)
THEOREM TimestampsAreMonotone == Spec => []TimestampsMonotone
<1>1. IInv => TimestampsMonotone
    BY DEF IInv
<1> QED
    BY <1>1, BlockManagerInvariant, PTL

(* The three maps stay views of one relation: the expect and the assert of   *)
(* try_unsuspend_block never fail, the synchronizer is asked for exactly     *)
(* what is missing, and a suspended block waits for an absent ancestor.      *)
THEOREM MapsAlwaysAgree == Spec => []MapsAgree
<1>1. IInv => MapsAgree
    BY DEF IInv, MapsAgree
<1> QED
    BY <1>1, BlockManagerInvariant, PTL

(* What a call returns as missing is not a block that is left in the call,   *)
(* suspended or accepted, in whatever order and batches the blocks come: of  *)
(* the blocks it was given, only a refused one can be among them.            *)
THEOREM ReturnedBlocksAreAbsent == Spec => []ReturnedAreAbsent
<1>1. IInv => ReturnedAreAbsent
    BY DEF IInv
<1> QED
    BY <1>1, BlockManagerInvariant, PTL

(* Nothing that a flush has written ever leaves the DAG. *)
THEOREM StoredBlocksAreKept == Spec => StoredIsKept
<1>1. ASSUME IInv, [Next]_vars
      PROVE  [recent_blocks \ blocks_to_write \subseteq recent_blocks' \ blocks_to_write']_vars
    <2>1. CASE \E b \in Blocks : AcceptBlock(b)
        <3> PICK b \in Blocks : AcceptBlock(b)
            BY <2>1
        <3>1. ({b} \cup Unsuspended(b)) \cap recent_blocks = {}
            BY <1>1, AcceptEffect DEF IInv, AcceptBlock
        <3> QED
            BY <3>1 DEF AcceptBlock
    <2>2. CASE \E b \in Blocks : PanicOnMissingAncestor(b)
        BY <2>2 DEF PanicOnMissingAncestor, dag
    <2>3. CASE Receive
        BY <2>3 DEF Receive, StartBatch, dag
    <2>4. CASE \E b \in Blocks : SkipProcessed(b) \/ SuspendBlock(b)
        BY <2>4 DEF SkipProcessed, SuspendBlock, dag
    <2>5. CASE Flush \/ Restart
        BY <2>5 DEF Flush, Restart
    <2>6. CASE UNCHANGED vars
        BY <2>6
    <2> QED
        BY <1>1, <2>1, <2>2, <2>3, <2>4, <2>5, <2>6 DEF Next
<1> QED
    BY <1>1, BlockManagerInvariant, PTL DEF Spec, StoredIsKept

=============================================================================
