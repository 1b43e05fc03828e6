---------------------- MODULE TransactionManagerProofs ----------------------
(***************************************************************************)
(* Proofs about TransactionManager, for every set of transactions, inputs  *)
(* and outputs, every size of the cache, any number of threads, epochs and *)
(* crashes.                                                                *)
(***************************************************************************)
EXTENDS TransactionManager, FiniteSetTheorems, TLAPS

\* The threads that have looked at the cache and have not got the lock again.
Looking == {i \in Threads : calls[i].at \in {"read", "lock"}}

IsMap(f) == f = [x \in DOMAIN f |-> f[x]]

Types ==
    /\ executed \subseteq Txs /\ durable \subseteq executed /\ table \subseteq Txs
    /\ DOMAIN pending \subseteq Txs /\ executing \subseteq Txs
    /\ ready \subseteq Txs /\ committed \subseteq executed
    /\ epoch \in Nat
    /\ IsMap(versions) /\ IsMap(pending)
    /\ DOMAIN calls = Threads /\ IsMap(calls)
    /\ \A i \in Threads :
        /\ calls[i] = Call(calls[i].at, calls[i].txs, calls[i].known, calls[i].found)
        /\ calls[i].at \in {"idle", "start", "read", "lock"}
        /\ calls[i].txs \subseteq Txs
    /\ unbounded = Cardinality(Looking)

\* Where a transaction of this epoch is: it waits, is with the driver or is
\* committed; those of earlier epochs stay with the driver.
Places ==
    /\ \A t \in DOMAIN pending \cup executing : EpochOf[t] = epoch /\ t \in Txs
    /\ \A t \in ready : /\ EpochOf[t] <= epoch
                        /\ EpochOf[t] = epoch => t \in executing /\ t \notin executed
    /\ committed \subseteq executing
    /\ executing \subseteq ready \cup committed
    /\ DOMAIN pending \cap executing = {}
    /\ DOMAIN pending \cap executed = {}

\* Who waits for what, by what is waited for.
View(D, P) == [k \in UNION {P[t] : t \in D} |-> {t \in D : k \in P[t]}]

PendingIds == [t \in DOMAIN pending |-> IdsOf(pending[t])]

\* missing_inputs and input_objects are what pending_certificates says.
Views ==
    /\ \A t \in DOMAIN pending : pending[t] # {} /\ pending[t] \subseteq Inputs[t]
    /\ missing_inputs = View(DOMAIN pending, pending)
    /\ input_objects = View(DOMAIN pending, PendingIds)

\* What is executed has its inputs.
Complete(S) == \A t \in S : Inputs[t] \subseteq ObjectsOf(S)

\* The notice of a commit is still to come, or the object is one of those that
\* LostOnlyWhenLowered excepts.
Excused ==
    {k \in AllKeys : \/ \E s \in committed : k \in Outputs[s] /\ EpochOf[s] = epoch
                    \/ k.id \in lowered}

\* The keys that the cache has, and those that it denies.
Available == {k \in AllKeys : Cached(k) /\ CacheSays(k)}
Denied == {k \in AllKeys : Cached(k) /\ ~CacheSays(k)}

\* What the cache has is in the store, and it has the newest version unless the
\* notice is on its way.
CacheIsRight ==
    /\ \A i \in DOMAIN versions : \E k \in Store : /\ k.id = i /\ k.version = versions[i]
                                                   /\ ~IsPackage(k)
    /\ \A p \in packages : \E k \in Store : k.id = p /\ IsPackage(k)
    /\ Store \cap Denied \subseteq Excused

\* What a call found available is in the store; what it did not is not there, or
\* it will find it in the cache, or its notice is on its way.
CallsAreRight ==
    \A i \in Looking :
        /\ calls[i].known \subseteq KeysOf(calls[i].txs)
        /\ calls[i].at = "lock" => calls[i].known = KeysOf(calls[i].txs)
        /\ calls[i].found \subseteq Store /\ calls[i].found \subseteq calls[i].known
        /\ (calls[i].known \ calls[i].found) \cap Store \subseteq Excused \cup Available

\* What a pending transaction does not wait for is there; what it waits for is
\* not, or the notice is on its way.
PendingIsRight ==
    \A t \in DOMAIN pending : /\ Inputs[t] \ pending[t] \subseteq Store
                             /\ pending[t] \cap Store \subseteq Excused

\* The inductive invariant.
TMInv ==
    /\ Types
    /\ Places
    /\ Views
    /\ Complete(executed)
    /\ Complete(durable)
    /\ ReadyHasInputs
    /\ CacheIsRight
    /\ CallsAreRight
    /\ PendingIsRight

-----------------------------------------------------------------------------
(***************************************************************************)
(* The keys of inputs and of objects.                                      *)
(***************************************************************************)
LEMMA KeyTypes ==
    /\ \A S \in SUBSET Txs : ObjectsOf(S) \subseteq AllKeys /\ KeysOf(S) \subseteq AllKeys
    /\ \A t \in Txs : Inputs[t] \subseteq AllKeys /\ Outputs[t] \subseteq AllKeys
    /\ \A k \in AllKeys : k.version \in Int
    /\ \A j, k \in AllKeys : j.id = k.id /\ j.version = k.version => j = k
<1>1. \A t \in Txs : Inputs[t] \subseteq AllKeys /\ Outputs[t] \subseteq AllKeys
    BY DEF AllKeys, ObjectsOf
<1>2. \A S \in SUBSET Txs : ObjectsOf(S) \subseteq AllKeys /\ KeysOf(S) \subseteq AllKeys
    BY DEF AllKeys, ObjectsOf, KeysOf
<1>3. AllKeys \subseteq [id : {k.id : k \in AllKeys}, version : Int]
    BY KeysAssumption
<1> HIDE DEF AllKeys
<1> QED
    BY <1>1, <1>2, <1>3

(***************************************************************************)
(* More executed transactions leave more objects.                          *)
(***************************************************************************)
LEMMA ObjectsGrow ==
    \A S, T : S \subseteq T => ObjectsOf(S) \subseteq ObjectsOf(T)
BY DEF ObjectsOf

(***************************************************************************)
(* Once an object is in the cache, it and its earlier versions are in the  *)
(* store.                                                                  *)
(***************************************************************************)
LEMMA AvailableIsStored ==
    ASSUME TMInv, NEW k \in Available
    PROVE  k \in Store
<1>1. executed \in SUBSET Txs /\ Store \subseteq AllKeys /\ k \in AllKeys
    BY KeyTypes DEF TMInv, Types, Store, Available
<1>2. CASE IsPackage(k)
    <2>1. PICK j \in Store : j.id = k.id /\ IsPackage(j)
        BY <1>2 DEF Available, Cached, TMInv, CacheIsRight
    <2> QED
        BY <1>1, <1>2, <2>1, KeyTypes DEF IsPackage
<1>3. CASE ~IsPackage(k)
    <2>1. k.id \in DOMAIN versions /\ versions[k.id] >= k.version
        BY <1>3 DEF Available, Cached, CacheSays
    <2>2. PICK j \in Store : j.id = k.id /\ j.version = versions[k.id]
        BY <2>1 DEF TMInv, CacheIsRight
    <2>3. j.version \in Int /\ k.version \in Int /\ k.version <= j.version
        BY <1>1, <2>1, <2>2, KeyTypes
    <2>4. \A t \in executed : Inputs[t] \subseteq ObjectsOf(executed)
        BY DEF TMInv, Complete
    <2> QED
        BY <1>1, <1>3, <2>2, <2>3, <2>4, VersionsAssumption DEF Store
<1> QED
    BY <1>2, <1>3

(***************************************************************************)
(* The number of calls that keep the cache from shrinking.                 *)
(***************************************************************************)
LEMMA LookingCount ==
    ASSUME NEW S \in SUBSET Threads, NEW i \in Threads
    PROVE  /\ Cardinality(S) \in Nat
           /\ i \notin S => Cardinality(S \cup {i}) = Cardinality(S) + 1
           /\ i \in S => Cardinality(S) > 0 /\ Cardinality(S \ {i}) = Cardinality(S) - 1
<1>1. IsFiniteSet(S)
    BY ThreadsAssumption, FS_Subset
<1>2. Cardinality(S) \in Nat
    BY <1>1, FS_CardinalityType
<1>3. i \notin S => Cardinality(S \cup {i}) = Cardinality(S) + 1
    BY <1>1, FS_AddElement
<1>4. i \in S => Cardinality(S \ {i}) = Cardinality(S) - 1
    BY <1>1, FS_RemoveElement
<1>5. i \in S => Cardinality(S) # 0
    BY <1>1, FS_EmptySet
<1> QED
    BY <1>2, <1>3, <1>4, <1>5

LEMMA EmptyMapIsMap == IsMap(EmptyMap)
<1>1. EmptyMap = [x \in {} |-> EmptyMap[x]] /\ DOMAIN EmptyMap = {}
    BY DEF EmptyMap
<1> QED
    BY <1>1 DEF IsMap

LEMMA InitTMInv == Init => TMInv
<1> SUFFICES ASSUME Init PROVE TMInv
    OBVIOUS
<1> USE DEF Init, EmptyMap
<1>1. /\ executed = {} /\ durable = {} /\ DOMAIN pending = {} /\ DOMAIN versions = {}
      /\ \A i \in Threads : calls[i] = Idle
    OBVIOUS
<1>2. Looking = {}
    BY <1>1 DEF Looking, Idle, Call
<1>3. Types
    <2>1. unbounded = Cardinality(Looking)
        BY <1>2, FS_EmptySet
    <2>3. IsMap(versions) /\ IsMap(pending)
        BY EmptyMapIsMap
    <2>4. DOMAIN calls = Threads /\ IsMap(calls)
        BY DEF IsMap
    <2>5. \A i \in Threads :
            /\ calls[i] = Call(calls[i].at, calls[i].txs, calls[i].known, calls[i].found)
            /\ calls[i].at \in {"idle", "start", "read", "lock"}
            /\ calls[i].txs \subseteq Txs
        BY <1>1 DEF Idle, Call
    <2> QED
        BY <1>1, <2>1, <2>3, <2>4, <2>5 DEF Types
<1>4. Places /\ Complete(executed) /\ Complete(durable) /\ ReadyHasInputs
      /\ PendingIsRight
    BY <1>1 DEF Places, Complete, ReadyHasInputs, PendingIsRight
<1>5. Views
    <2>1. View({}, pending) = EmptyMap /\ View({}, PendingIds) = EmptyMap
        BY DEF View
    <2> QED
        BY <1>1, <2>1 DEF Views
<1>6. CacheIsRight
    BY <1>1 DEF CacheIsRight, Denied, Cached
<1>7. CallsAreRight
    BY <1>2 DEF CallsAreRight
<1> QED
    BY <1>3, <1>4, <1>5, <1>6, <1>7 DEF TMInv

-----------------------------------------------------------------------------
(* The steps of enqueue_impl before it has the lock for the second time. *)

rest == <<executed, durable, epoch, missing_inputs, input_objects, pending, executing, versions,
          packages, lowered, ready, committed>>

(***************************************************************************)
(* A step of one thread changes the rest of the invariant only where it    *)
(* speaks of that thread.                                                  *)
(***************************************************************************)
LEMMA CallSteps ==
    ASSUME TMInv, UNCHANGED rest, table' \subseteq Txs,
           NEW i \in Threads, NEW c,
           calls' = [calls EXCEPT ![i] = c],
           c = Call(c.at, c.txs, c.known, c.found),
           c.at \in {"idle", "start", "read", "lock"}, c.txs \subseteq Txs,
           unbounded' = IF c.at \in {"read", "lock"} /\ i \notin Looking THEN unbounded + 1 ELSE unbounded,
           i \in Looking => c.at \in {"read", "lock"},
           c.at \in {"read", "lock"} =>
               /\ c.known \subseteq KeysOf(c.txs)
               /\ c.at = "lock" => c.known = KeysOf(c.txs)
               /\ c.found \subseteq Store /\ c.found \subseteq c.known
               /\ (c.known \ c.found) \cap Store \subseteq Excused \cup Available
    PROVE  TMInv'
<1>1. /\ DOMAIN calls = Threads /\ IsMap(calls) /\ unbounded = Cardinality(Looking)
      /\ Looking \in SUBSET Threads
    BY DEF TMInv, Types, Looking
<1>2. /\ DOMAIN calls' = Threads /\ IsMap(calls') /\ calls'[i] = c
      /\ \A j \in Threads : j # i => calls'[j] = calls[j]
    BY Zenon, <1>1 DEF IsMap
<1>3. unbounded' = Cardinality(Looking')
    <2>1. CASE c.at \in {"read", "lock"} /\ i \notin Looking
        <3>1. Looking' = Looking \cup {i}
            BY <1>2, <2>1 DEF Looking
        <3>2. Cardinality(Looking \cup {i}) = Cardinality(Looking) + 1
            BY <1>1, <2>1, LookingCount
        <3> QED
            BY <1>1, <2>1, <3>1, <3>2
    <2>2. CASE ~(c.at \in {"read", "lock"} /\ i \notin Looking)
        <3>1. Looking' = Looking
            BY <1>2, <2>2 DEF Looking
        <3> QED
            BY <1>1, <2>2, <3>1
    <2> QED
        BY <2>1, <2>2
<1>4. Types'
    <2>1. \A j \in Threads :
            /\ calls'[j] = Call(calls'[j].at, calls'[j].txs, calls'[j].known, calls'[j].found)
            /\ calls'[j].at \in {"idle", "start", "read", "lock"}
            /\ calls'[j].txs \subseteq Txs
        BY <1>2 DEF TMInv, Types
    <2>2. IsMap(versions)' /\ IsMap(pending)'
        BY DEF TMInv, Types, rest, IsMap
    <2>3. IsMap(calls)'
        BY <1>2 DEF IsMap
    <2> QED
        BY <1>2, <1>3, <2>1, <2>2, <2>3 DEF TMInv, Types, rest
<1>5. CallsAreRight'
    <2>1. Store' = Store /\ Excused' = Excused /\ Available' = Available
        BY DEF rest, Store, Excused, Available, Cached, CacheSays
    <2>2. \A j \in Looking' : j = i \/ (j \in Looking /\ calls'[j] = calls[j])
        BY <1>2 DEF Looking
    <2>3. i \in Looking' => c.at \in {"read", "lock"}
        BY <1>2 DEF Looking
    <2> QED
        BY <1>2, <2>1, <2>2, <2>3 DEF TMInv, CallsAreRight
<1>6. Places' /\ Views' /\ Complete(executed)' /\ Complete(durable)' /\ ReadyHasInputs'
      /\ CacheIsRight' /\ PendingIsRight'
    BY DEF TMInv, rest, Places, Views, PendingIds, Complete, ReadyHasInputs, Store, CacheIsRight,
           Denied, Cached, CacheSays, Excused, PendingIsRight
<1> QED
    BY <1>4, <1>5, <1>6 DEF TMInv

LEMMA SubmitTMInv ==
    ASSUME TMInv, NEW i \in Threads, NEW t \in Txs, NEW b \in BOOLEAN, Submit(i, t, b)
    PROVE  TMInv'
<1> DEFINE c == Call("start", {t} \ executed, {}, {})
<1>1. UNCHANGED rest /\ unbounded' = unbounded /\ table' \subseteq Txs
    BY DEF Submit, inner, cache, rest, TMInv, Types
<1>2. calls' = [calls EXCEPT ![i] = c] /\ i \notin Looking
    BY DEF Submit, Looking
<1>3. /\ c = Call(c.at, c.txs, c.known, c.found)
      /\ c.at = "start" /\ c.txs \subseteq Txs
    BY DEF Call
<1> HIDE DEF c
<1> QED
    BY Zenon, <1>1, <1>2, <1>3, CallSteps

LEMMA CheckCacheTMInv ==
    ASSUME TMInv, NEW i \in Threads, CheckCache(i)
    PROVE  TMInv'
<1> DEFINE keys == KeysOf(calls[i].txs)
           known == {k \in keys : Cached(k)}
           found == {k \in keys : Cached(k) /\ CacheSays(k)}
           c == Call("read", calls[i].txs, known, found)
<1>1. UNCHANGED rest /\ unbounded' = unbounded + 1 /\ table' \subseteq Txs
    BY DEF CheckCache, storage, cache, rest, TMInv, Types
<1>2. calls[i].txs \subseteq Txs /\ i \notin Looking /\ keys \subseteq AllKeys
    BY KeyTypes DEF TMInv, Types, CheckCache, Looking
<1>3. calls' = [calls EXCEPT ![i] = c]
    BY DEF CheckCache, TMInv, Types
<1>4. found \subseteq Store /\ (known \ found) \cap Store \subseteq Excused /\ known \subseteq keys
      /\ found \subseteq known
    <2>1. found \subseteq Available /\ known \ found \subseteq Denied
        BY <1>2 DEF Available, Denied
    <2> QED
        BY <2>1, AvailableIsStored DEF TMInv, CacheIsRight
<1> HIDE DEF keys, known, found
<1>5. /\ c = Call(c.at, c.txs, c.known, c.found)
      /\ c.at = "read" /\ c.txs = calls[i].txs /\ c.known = known /\ c.found = found
    BY DEF Call
<1> HIDE DEF c
<1> QED
    BY Zenon, <1>1, <1>2, <1>3, <1>4, <1>5, CallSteps DEF keys

LEMMA ReadStoreTMInv ==
    ASSUME TMInv, NEW i \in Threads, ReadStore(i)
    PROVE  TMInv'
<1> DEFINE keys == KeysOf(calls[i].txs)
           found == calls[i].found \cup ((keys \ calls[i].known) \cap Store)
           c == Call("lock", calls[i].txs, keys, found)
<1>1. UNCHANGED rest /\ unbounded' = unbounded /\ table' \subseteq Txs
    BY DEF ReadStore, storage, inner, cache, rest, TMInv, Types
<1>2. calls[i].txs \subseteq Txs /\ i \in Looking
    BY DEF TMInv, Types, ReadStore, Looking
<1>3. calls' = [calls EXCEPT ![i] = c]
    BY DEF ReadStore, TMInv, Types
<1>4. /\ found \subseteq Store /\ found \subseteq keys
      /\ (keys \ found) \cap Store \subseteq Excused \cup Available
    BY <1>2 DEF TMInv, CallsAreRight
<1> HIDE DEF keys, found
<1>5. /\ c = Call(c.at, c.txs, c.known, c.found)
      /\ c.at = "lock" /\ c.txs = calls[i].txs /\ c.known = keys /\ c.found = found
    BY DEF Call
<1> HIDE DEF c
<1> QED
    BY Zenon, <1>1, <1>2, <1>3, <1>4, <1>5, CallSteps DEF keys

-----------------------------------------------------------------------------
(* The cache *)

(***************************************************************************)
(* An entry is an old one, which is not below an inserted version, or an   *)
(* inserted one; whatever shrink drops.                                    *)
(***************************************************************************)
LEMMA InsertFacts ==
    ASSUME TMInv, NEW keys \in SUBSET AllKeys,
           \A j, k \in keys : j.id = k.id => j = k,
           InsertAll(keys)
    PROVE  /\ IsMap(versions')
           /\ \A i \in DOMAIN versions' :
                \/ /\ i \in DOMAIN versions /\ versions'[i] = versions[i]
                   /\ \A k \in keys : k.id = i /\ ~IsPackage(k) => versions[i] > k.version
                \/ \E k \in keys : ~IsPackage(k) /\ k.id = i /\ versions'[i] = k.version
           /\ \A p \in packages' :
                p \in packages \/ \E k \in keys : IsPackage(k) /\ k.id = p
           /\ unbounded > 0 =>
                /\ DOMAIN versions \subseteq DOMAIN versions' /\ packages \subseteq packages'
                /\ \A i \in DOMAIN versions : versions'[i] >= versions[i]
                /\ \A k \in keys :
                    /\ IsPackage(k) => k.id \in packages'
                    /\ ~IsPackage(k) => k.id \in DOMAIN versions' /\ versions'[k.id] >= k.version
           /\ unbounded > 0 /\ (\A k \in keys : IsPackage(k)) => versions' = versions
<1> DEFINE vs == {k \in keys : ~IsPackage(k)}
           new == IdsOf(vs)
           all == DOMAIN versions \cup new
           ps == IdsOf({k \in keys : IsPackage(k)})
           Made(i) == VersionIn(vs, i)
<1>1. PICK R \in Shrunk(all, new), E \in SUBSET new :
        /\ versions' = [i \in R |-> Entry(vs, E, i)]
        /\ unbounded > 0 => E = {}
    <2>1. InsertVersions(vs)
        BY DEF InsertAll
    <2>2. PICK R \in Shrunk(all, new), E \in IF Shrunk(all, {}) = {all} THEN {{}} ELSE SUBSET new :
            versions' = [i \in R |-> Entry(vs, E, i)]
        BY Zenon, <2>1 DEF InsertVersions
    <2>3. unbounded > 0 => E = {}
        BY <2>2 DEF Shrunk
    <2>4. E \in SUBSET new
        BY <2>2
    <2> QED
        BY Zenon, <2>2, <2>3, <2>4
<1>2. R \subseteq all /\ (unbounded > 0 => R = all)
    BY <1>1 DEF Shrunk
<1>3. packages' \subseteq packages \cup ps /\ (unbounded > 0 => packages' = packages \cup ps)
    BY DEF InsertAll, InsertPackages, Shrunk
<1>4. \A k \in vs : Made(k.id) = k.version
    <2> SUFFICES ASSUME NEW k \in vs PROVE Made(k.id) = k.version
        OBVIOUS
    <2>1. (CHOOSE j \in vs : j.id = k.id) \in vs /\ (CHOOSE j \in vs : j.id = k.id).id = k.id
        OBVIOUS
    <2> QED
        BY <2>1 DEF VersionIn
<1>5. \A i : i \in new <=> \E k \in vs : k.id = i
    BY DEF IdsOf
<1>6. \A i : i \in ps <=> \E k \in keys : IsPackage(k) /\ k.id = i
    BY DEF IdsOf
<1>7. /\ \A i \in DOMAIN versions : versions[i] \in Int
      /\ \A k \in keys : k.version \in Int
    <2>1. Store \subseteq AllKeys
        BY KeyTypes DEF TMInv, Types, Store
    <2> QED
        BY <2>1, KeyTypes DEF TMInv, CacheIsRight
<1>8. \A k \in keys : k \in vs <=> ~IsPackage(k)
    OBVIOUS
<1>9. IsMap(versions) /\ vs \subseteq keys
    BY DEF TMInv, Types
<1>10. /\ DOMAIN versions' = R
       /\ \A i \in R : versions'[i] = IF \/ i \notin new
                                         \/ i \in DOMAIN versions \ E /\ versions[i] > Made(i)
                                      THEN versions[i] ELSE Made(i)
    BY <1>1 DEF Entry
<1>11. IsMap(versions')
    BY <1>1 DEF IsMap
<1> HIDE DEF vs, new, ps, Made
<1>12. ASSUME NEW i \in R
       PROVE  \/ /\ i \in DOMAIN versions /\ versions'[i] = versions[i]
                 /\ \A k \in keys : k.id = i /\ ~IsPackage(k) => versions[i] > k.version
              \/ \E k \in keys : ~IsPackage(k) /\ k.id = i /\ versions'[i] = k.version
    <2>1. CASE i \notin new
        BY <1>2, <1>5, <1>8, <1>10, <2>1
    <2>2. CASE i \in new /\ i \in DOMAIN versions \ E /\ versions[i] > Made(i)
        BY <1>4, <1>8, <1>10, <2>2
    <2>3. CASE i \in new /\ ~(i \in DOMAIN versions \ E /\ versions[i] > Made(i))
        <3>1. versions'[i] = Made(i)
            BY <1>10, <2>3
        <3> QED
            BY <1>4, <1>5, <1>8, <1>9, <2>3, <3>1
    <2> QED
        BY <2>1, <2>2, <2>3
<1>13. ASSUME unbounded > 0
       PROVE  /\ DOMAIN versions \subseteq DOMAIN versions' /\ packages \subseteq packages'
              /\ \A i \in DOMAIN versions : versions'[i] >= versions[i]
              /\ \A k \in keys :
                    /\ IsPackage(k) => k.id \in packages'
                    /\ ~IsPackage(k) => k.id \in DOMAIN versions' /\ versions'[k.id] >= k.version
    <2>1. DOMAIN versions' = all /\ packages' = packages \cup ps /\ E = {}
        BY <1>1, <1>2, <1>3, <1>10, <1>13
    <2>2. \A k \in keys : /\ IsPackage(k) => k.id \in packages'
                          /\ ~IsPackage(k) => k.id \in new
        BY <1>5, <1>6, <1>8, <2>1
    <2>3. ASSUME NEW k \in vs PROVE versions'[k.id] >= k.version
        <3>1. k.id \in new /\ k.id \in R /\ Made(k.id) = k.version /\ k.version \in Int
            BY <1>4, <1>5, <1>7, <1>9, <1>10, <2>1
        <3> QED
            BY <1>7, <1>10, <3>1
    <2>4. ASSUME NEW i \in DOMAIN versions PROVE versions'[i] >= versions[i]
        <3>1. CASE i \notin new
            BY <1>7, <1>10, <2>1, <3>1
        <3>2. CASE i \in new
            <4>1. PICK k \in vs : k.id = i
                BY <1>5, <3>2
            <4>2. Made(i) = k.version /\ k.version \in Int /\ versions[i] \in Int
                BY <1>4, <1>7, <1>9, <4>1
            <4>3. versions'[i] = IF versions[i] > Made(i) THEN versions[i] ELSE Made(i)
                BY <1>10, <2>1, <3>2
            <4> QED
                BY <4>2, <4>3
        <3> QED
            BY <3>1, <3>2
    <2> QED
        BY <1>8, <2>1, <2>2, <2>3, <2>4
<1>14. ASSUME unbounded > 0, \A k \in keys : IsPackage(k) PROVE versions' = versions
    <2>1. new = {} /\ R = DOMAIN versions
        BY <1>2, <1>5, <1>8, <1>9, <1>14
    <2>2. versions' = [i \in DOMAIN versions |-> versions[i]]
        BY <1>10, <1>11, <2>1 DEF IsMap
    <2> QED
        BY <1>9, <2>2 DEF IsMap
<1> QED
    BY <1>3, <1>6, <1>10, <1>11, <1>12, <1>13, <1>14

-----------------------------------------------------------------------------
(* enqueue_impl with the lock *)

AgreeOn(D, P, Q) == \A t \in D : Q[t] = P[t]

\* Every <<t, k>> where t is in W and k in Q[t].
ArePairsOf(pairs, W, Q) ==
    /\ \A p \in pairs : p = <<p[1], p[2]>>
    /\ \A t, k : <<t, k>> \in pairs <=> t \in W /\ k \in Q[t]

(***************************************************************************)
(* Adding the waits of new transactions to the map adds them to its view.  *)
(***************************************************************************)
LEMMA AddAllView ==
    ASSUME NEW D, NEW W, NEW P, NEW Q, NEW pairs,
           W \cap D = {}, AgreeOn(D, P, Q), ArePairsOf(pairs, W, Q)
    PROVE  AddAll(View(D, P), pairs) = View(D \cup W, Q)
<1> USE DEF AgreeOn, ArePairsOf
<1> DEFINE f == View(D, P)
           g == AddAll(f, pairs)
           h == View(D \cup W, Q)
           H(k) == {t \in D \cup W : k \in Q[t]}
           G(k) == (IF k \in DOMAIN f THEN f[k] ELSE {}) \cup {p[1] : p \in {q \in pairs : q[2] = k}}
<1>1. /\ DOMAIN f = UNION {P[t] : t \in D}
      /\ \A k \in DOMAIN f : f[k] = {t \in D : k \in P[t]}
    BY DEF View
<1>2. DOMAIN f \cup {p[2] : p \in pairs} = UNION {Q[t] : t \in D \cup W}
    <2>1. ASSUME NEW k \in DOMAIN f PROVE k \in UNION {Q[t] : t \in D \cup W}
        <3>1. PICK t \in D : k \in P[t]
            BY <1>1
        <3> QED
            BY <3>1
    <2>2. ASSUME NEW p \in pairs PROVE p[2] \in UNION {Q[t] : t \in D \cup W}
        <3>1. <<p[1], p[2]>> \in pairs
            OBVIOUS
        <3>2. p[1] \in W /\ p[2] \in Q[p[1]]
            BY <3>1
        <3> QED
            BY <3>2
    <2>3. ASSUME NEW t \in D \cup W, NEW k \in Q[t] PROVE k \in DOMAIN f \cup {p[2] : p \in pairs}
        <3>1. CASE t \in D
            BY <1>1, <3>1
        <3>2. CASE t \in W
            <4>1. <<t, k>> \in pairs /\ <<t, k>>[2] = k
                BY <3>2
            <4> QED
                BY <4>1
        <3> QED
            BY <3>1, <3>2
    <2> QED
        BY <2>1, <2>2, <2>3
<1>3. \A k \in UNION {Q[t] : t \in D \cup W} : G(k) = H(k)
    <2> SUFFICES ASSUME NEW k \in UNION {Q[t] : t \in D \cup W}, NEW t
                 PROVE  t \in G(k) <=> t \in H(k)
        OBVIOUS
    <2>1. t \in (IF k \in DOMAIN f THEN f[k] ELSE {}) <=> t \in D /\ k \in Q[t]
        BY <1>1
    <2>2. t \in {p[1] : p \in {q \in pairs : q[2] = k}} <=> t \in W /\ k \in Q[t]
        <3>1. ASSUME t \in {p[1] : p \in {q \in pairs : q[2] = k}} PROVE <<t, k>> \in pairs
            BY <3>1
        <3>2. ASSUME <<t, k>> \in pairs PROVE t \in {p[1] : p \in {q \in pairs : q[2] = k}}
            <4>1. <<t, k>>[1] = t /\ <<t, k>>[2] = k
                OBVIOUS
            <4> QED
                BY <3>2, <4>1
        <3> QED
            BY <3>1, <3>2
    <2> QED
        BY <2>1, <2>2
<1>4. g = [k \in DOMAIN f \cup {p[2] : p \in pairs} |-> G(k)]
    BY DEF AddAll
<1>5. h = [k \in UNION {Q[t] : t \in D \cup W} |-> H(k)]
    BY Zenon DEF View
<1> HIDE DEF f, g, h, G, H
<1>6. g = h
    BY Zenon, <1>2, <1>3, <1>4, <1>5
<1> QED
    BY Zenon, <1>6 DEF f, g, h

LEMMA EnqueueTMInv ==
    ASSUME TMInv, NEW i \in Threads, Enqueue(i)
    PROVE  TMInv'
<1> DEFINE c == calls[i]
           new == Accepted(i)
           missing == FoundMissing(i)
           waits == {t \in new : Inputs[t] \cap missing # {}}
           pairs == {p \in waits \X missing : p[2] \in Inputs[p[1]]}
           D == DOMAIN pending
<1>1. /\ c.at = "lock" /\ i \in Looking
      /\ InsertAll(PackagesFound(i)) /\ unbounded' = unbounded - 1
      /\ pending' = [t \in D \cup waits |-> IF t \in waits THEN Inputs[t] \cap missing ELSE pending[t]]
      /\ missing_inputs' = AddAll(missing_inputs, pairs)
      /\ input_objects' = AddAll(input_objects, {<<p[1], p[2].id>> : p \in pairs})
      /\ executing' = executing \cup (new \ waits)
      /\ ready' = ready \cup (new \ waits)
      /\ calls' = [calls EXCEPT ![i] = Idle]
      /\ UNCHANGED <<executed, durable, table, epoch, lowered, committed>>
    BY SMTT(30) DEF Enqueue, DisableUnbounded, Looking, storage
<1>2. /\ c.txs \subseteq Txs /\ c.known = KeysOf(c.txs) /\ KeysOf(c.txs) \subseteq AllKeys
      /\ c.found \subseteq Store /\ c.found \subseteq c.known
      /\ (c.known \ c.found) \cap Store \subseteq Excused \cup Available
    BY Zenon, <1>1, KeyTypes DEF TMInv, Types, CallsAreRight
<1>3. /\ new \subseteq Txs /\ new \subseteq c.txs
      /\ \A t \in new : EpochOf[t] = epoch /\ t \notin D /\ t \notin executing /\ t \notin executed
    BY Zenon, <1>2 DEF Accepted
<1>4. ASSUME NEW t \in new
      PROVE  Inputs[t] \ missing \subseteq Store /\ Inputs[t] \cap missing \cap Store \subseteq Excused
    <2>1. Inputs[t] \subseteq c.known
        BY Zenon, <1>2, <1>3 DEF KeysOf
    <2>2. missing = (c.known \ c.found) \ Available
        BY Zenon, <1>2 DEF FoundMissing, Available
    <2> QED
        BY Zenon, <1>2, <2>1, <2>2, AvailableIsStored
<1>5. /\ versions' = versions /\ packages \subseteq packages'
      /\ \A p \in packages' : p \in packages \/ \E k \in Store : IsPackage(k) /\ k.id = p
    <2>1. unbounded > 0
        <3>1. Looking \in SUBSET Threads
            BY Zenon DEF Looking
        <3> QED
            BY Zenon, <1>1, <3>1, LookingCount DEF TMInv, Types
    <2>2. /\ PackagesFound(i) \in SUBSET AllKeys
          /\ \A k \in PackagesFound(i) : IsPackage(k) /\ k \in Store
        BY Zenon, <1>2 DEF PackagesFound
    <2>3. \A j, k \in PackagesFound(i) : j.id = k.id => j = k
        BY Zenon, <2>2, KeyTypes DEF IsPackage
    <2> QED
        BY SMTT(30), <1>1, <2>1, <2>2, <2>3, InsertFacts
<1>6. Store' = Store /\ Excused' = Excused /\ Available \subseteq Available' /\ Denied' = Denied
    BY Zenon, <1>1, <1>5 DEF Store, Excused, Available, Denied, Cached, CacheSays
<1>7. /\ D' = D \cup waits /\ \A t \in waits : pending'[t] = Inputs[t] \cap missing
      /\ \A t \in D : pending'[t] = pending[t] /\ t \notin waits
    BY Zenon, <1>1, <1>3
<1>17. /\ DOMAIN calls' = Threads /\ IsMap(calls') /\ calls'[i] = Idle
       /\ \A j \in Threads : j # i => calls'[j] = calls[j]
       /\ Looking' = Looking \ {i}
    <2>1. DOMAIN calls = Threads
        BY Zenon DEF TMInv, Types
    <2>2. /\ DOMAIN calls' = Threads /\ IsMap(calls') /\ calls'[i] = Idle
          /\ \A j \in Threads : j # i => calls'[j] = calls[j]
        BY Zenon, <1>1, <2>1 DEF IsMap
    <2> QED
        BY SMTT(30), <2>2 DEF Looking, Idle, Call
<1>8. Types'
    <2>1. unbounded' = Cardinality(Looking')
        <3>1. Looking \in SUBSET Threads
            BY Zenon DEF Looking
        <3>2. Cardinality(Looking \ {i}) = Cardinality(Looking) - 1
            BY Zenon, <1>1, <3>1, LookingCount
        <3> QED
            BY Zenon, <1>1, <1>17, <3>2 DEF TMInv, Types
    <2>2. \A j \in Threads :
            /\ calls'[j] = Call(calls'[j].at, calls'[j].txs, calls'[j].known, calls'[j].found)
            /\ calls'[j].at \in {"idle", "start", "read", "lock"}
            /\ calls'[j].txs \subseteq Txs
        BY SMTT(30), <1>17 DEF TMInv, Types, Idle, Call
    <2>3. IsMap(versions)' /\ IsMap(pending)' /\ IsMap(calls)'
        BY SMTT(30), <1>1, <1>5, <1>17 DEF TMInv, Types, IsMap
    <2> QED
        BY Zenon, <1>1, <1>3, <1>7, <1>17, <2>1, <2>2, <2>3 DEF TMInv, Types
<1>9. Places'
    BY SMTT(30), <1>1, <1>3, <1>7, BoundsAssumption DEF TMInv, Types, Places
<1>10. Views'
    <2>1. \A t \in D' : pending'[t] # {} /\ pending'[t] \subseteq Inputs[t]
        BY Zenon, <1>7 DEF TMInv, Views
    <2>2. \A p \in pairs : p = <<p[1], p[2]>>
        BY SMTT(30)
    <2>3. \A t, k : <<t, k>> \in pairs <=> t \in waits /\ k \in pending'[t]
        BY SMTT(30), <1>7
    <2>4. waits \cap D = {} /\ \A t \in D : pending'[t] = pending[t]
        BY Zenon, <1>7
    <2>5. missing_inputs = View(D, pending) /\ input_objects = View(D, PendingIds)
        BY Zenon DEF TMInv, Views
    <2> DEFINE ids == {<<p[1], p[2].id>> : p \in pairs}
    <2>6. ids = {<<p[1], p[2].id>> : p \in pairs}
        BY Zenon
    <2>7. \A t \in D' : PendingIds'[t] = IdsOf(pending'[t])
        BY Zenon DEF PendingIds
    <2>8. \A t \in D : PendingIds[t] = IdsOf(pending[t])
        BY Zenon DEF PendingIds
    <2> HIDE DEF pairs, waits, ids, D
    <2>9. missing_inputs' = View(D', pending')
        <3>1. AddAll(View(D, pending), pairs) = View(D \cup waits, pending')
            <4>1. ArePairsOf(pairs, waits, pending') /\ AgreeOn(D, pending, pending')
                BY Zenon, <2>2, <2>3, <2>4 DEF ArePairsOf, AgreeOn
            <4> QED
                BY SMTT(30), <2>4, <4>1, AddAllView
        <3> QED
            BY Zenon, <1>1, <1>7, <2>5, <3>1
    <2>10. input_objects' = View(D', PendingIds')
        <3>1. \A p \in ids : p = <<p[1], p[2]>>
            BY SMTT(30), <2>6
        <3>2. \A t \in D : PendingIds'[t] = PendingIds[t]
            BY Zenon, <1>7, <2>7, <2>8
        <3>3. ASSUME NEW t, NEW o PROVE <<t, o>> \in ids <=> t \in waits /\ o \in PendingIds'[t]
            <4>1. ASSUME <<t, o>> \in ids PROVE t \in waits /\ o \in PendingIds'[t]
                <5>1. PICK p \in pairs : <<t, o>> = <<p[1], p[2].id>>
                    BY Zenon, <2>6, <4>1
                <5>2. t = p[1] /\ o = p[2].id /\ <<p[1], p[2]>> \in pairs
                    BY Zenon, <2>2, <5>1
                <5>3. t \in waits /\ p[2] \in pending'[t]
                    BY Zenon, <2>3, <5>2
                <5> QED
                    BY SMTT(30), <1>7, <2>7, <5>2, <5>3 DEF IdsOf
            <4>2. ASSUME t \in waits, o \in PendingIds'[t] PROVE <<t, o>> \in ids
                <5>1. PICK k \in pending'[t] : o = k.id
                    BY SMTT(30), <1>7, <2>7, <4>2 DEF IdsOf
                <5>2. <<t, k>> \in pairs /\ <<t, k>>[1] = t /\ <<t, k>>[2] = k
                    BY Zenon, <2>3, <4>2, <5>1
                <5> QED
                    BY Zenon, <2>6, <5>1, <5>2
            <4> QED
                BY Zenon, <4>1, <4>2
        <3>4. AddAll(View(D, PendingIds), ids) = View(D \cup waits, PendingIds')
            <4>1. ArePairsOf(ids, waits, PendingIds') /\ AgreeOn(D, PendingIds, PendingIds')
                BY Zenon, <3>1, <3>2, <3>3 DEF ArePairsOf, AgreeOn
            <4> QED
                BY SMTT(30), <2>4, <4>1, AddAllView
        <3> QED
            BY Zenon, <1>1, <1>7, <2>5, <2>6, <3>4
    <2> QED
        BY Zenon, <2>1, <2>9, <2>10 DEF Views, D
<1>11. Complete(executed)' /\ Complete(durable)'
    BY Zenon, <1>1 DEF TMInv, Complete
<1>12. ReadyHasInputs'
    BY Zenon, <1>1, <1>4, <1>6 DEF TMInv, ReadyHasInputs
<1>13. CacheIsRight'
    BY Zenon, <1>5, <1>6 DEF TMInv, CacheIsRight
<1>14. CallsAreRight'
    BY Zenon, <1>6, <1>17 DEF TMInv, CallsAreRight, Looking
<1>15. PendingIsRight'
    BY Zenon, <1>4, <1>6, <1>7 DEF TMInv, PendingIsRight
<1> QED
    BY Zenon, <1>8, <1>9, <1>10, <1>11, <1>12, <1>13, <1>14, <1>15 DEF TMInv

-----------------------------------------------------------------------------
(* The driver and the checkpoint executor *)

LEMMA ExecuteTMInv ==
    ASSUME TMInv, NEW t \in Txs, Execute(t)
    PROVE  TMInv'
<1>1. /\ t \in ready /\ EpochOf[t] = epoch /\ t \in executing /\ t \notin executed
      /\ t \notin DOMAIN pending
    BY Zenon DEF Execute, TMInv, Places
<1>2. /\ ready' = ready \ {t} /\ executed' = executed \cup {t} /\ committed' = committed \cup {t}
      /\ UNCHANGED <<durable, table, epoch, missing_inputs, input_objects, pending, executing,
                     versions, packages, unbounded, lowered, calls>>
    BY Zenon, <1>1 DEF Execute, inner, cache
<1>3. Inputs[t] \subseteq Store
    BY Zenon, <1>1 DEF TMInv, ReadyHasInputs
<1>4. Store' = Store \cup Outputs[t]
    BY Zenon, <1>2 DEF Store, ObjectsOf
<1>5. Excused \subseteq Excused' /\ Outputs[t] \subseteq Excused'
    <2>1. Outputs[t] \subseteq AllKeys
        BY Zenon, KeyTypes
    <2> QED
        BY Zenon, <1>1, <1>2, <2>1 DEF Excused
<1>6. Available' = Available /\ Denied' = Denied /\ Looking' = Looking
    BY Zenon, <1>2 DEF Available, Denied, Cached, CacheSays, Looking
<1>7. Types'
    BY Zenon, <1>2, <1>6 DEF TMInv, Types, IsMap
<1>8. Places'
    BY Zenon, <1>1, <1>2 DEF TMInv, Places
<1>9. Views'
    BY Zenon, <1>2 DEF TMInv, Views, PendingIds
<1>10. Complete(executed)'
    BY Zenon, <1>2, <1>3, <1>4 DEF TMInv, Complete, Store
<1>11. Complete(durable)'
    BY Zenon, <1>2 DEF TMInv, Complete
<1>12. ReadyHasInputs'
    BY Zenon, <1>2, <1>4 DEF TMInv, ReadyHasInputs
<1>13. CacheIsRight'
    BY Zenon, <1>2, <1>4, <1>5, <1>6 DEF TMInv, CacheIsRight
<1>14. CallsAreRight'
    BY Zenon, <1>2, <1>4, <1>5, <1>6 DEF TMInv, CallsAreRight
<1>15. PendingIsRight'
    BY Zenon, <1>2, <1>4, <1>5 DEF TMInv, PendingIsRight
<1> QED
    BY Zenon, <1>7, <1>8, <1>9, <1>10, <1>11, <1>12, <1>13, <1>14, <1>15 DEF TMInv

(***************************************************************************)
(* What is written to disk stays complete: CommitOutputs waits for the     *)
(* inputs.                                                                 *)
(***************************************************************************)
LEMMA CheckpointTMInv ==
    ASSUME TMInv,
           (\E t \in Txs : CommitOutputs(t) \/ RemovePending(t)) \/ UNCHANGED vars
    PROVE  TMInv'
<1>1. /\ UNCHANGED <<executed, epoch, missing_inputs, input_objects, pending, executing, versions,
                     packages, unbounded, lowered, calls, ready, committed>>
      /\ table' \subseteq table
    BY Zenon DEF CommitOutputs, RemovePending, vars, storage, inner, cache
<1>2. \/ durable' = durable
      \/ \E t \in executed : durable' = durable \cup {t} /\ Inputs[t] \subseteq ObjectsOf(durable)
    BY Zenon DEF CommitOutputs, RemovePending, vars, storage
<1>3. Complete(durable)'
    <2>1. ObjectsOf(durable) \subseteq ObjectsOf(durable')
        BY Zenon, <1>2, ObjectsGrow
    <2> QED
        BY Zenon, <1>2, <2>1 DEF TMInv, Complete
<1>4. Types'
    <2>1. Looking' = Looking
        BY Zenon, <1>1 DEF Looking
    <2> QED
        BY Zenon, <1>1, <1>2, <2>1 DEF TMInv, Types, IsMap
<1>5. /\ Store' = Store /\ Excused' = Excused /\ Available' = Available /\ Denied' = Denied
      /\ Looking' = Looking
    BY Zenon, <1>1 DEF Store, Excused, Available, Denied, Cached, CacheSays, Looking
<1>6. Places' /\ Views' /\ Complete(executed)' /\ ReadyHasInputs'
    BY Zenon, <1>1, <1>5 DEF TMInv, Places, Views, PendingIds, Complete, ReadyHasInputs
<1>7. CacheIsRight' /\ CallsAreRight' /\ PendingIsRight'
    BY Zenon, <1>1, <1>5 DEF TMInv, CacheIsRight, CallsAreRight, PendingIsRight
<1> QED
    BY Zenon, <1>3, <1>4, <1>6, <1>7 DEF TMInv

-----------------------------------------------------------------------------
(* The end of an epoch and a crash *)

LEMMA NewInnerTMInv ==
    ASSUME TMInv, Reconfigure \/ Restart
    PROVE  TMInv'
<1> USE DEF Reconfigure, Restart, NewInner
<1>1. /\ executed' = durable /\ durable' = durable /\ table' = table
      /\ pending' = EmptyMap /\ missing_inputs' = EmptyMap /\ input_objects' = EmptyMap
      /\ executing' = {} /\ versions' = EmptyMap /\ packages' = {} /\ unbounded' = 0
      /\ committed' = {} /\ ready' \subseteq ready
    BY Zenon
<1>2. epoch' \in Nat /\ \A t \in ready' : EpochOf[t] < epoch'
    <2>1. epoch \in Nat /\ \A t \in ready : EpochOf[t] \in Nat /\ EpochOf[t] <= epoch
        BY Zenon, BoundsAssumption DEF TMInv, Types, Places
    <2>2. CASE Reconfigure
        BY SMTT(30), <2>1, <2>2
    <2>3. CASE Restart
        BY Zenon, <2>1, <2>3
    <2> QED
        BY Zenon, <2>2, <2>3
<1>3. /\ DOMAIN calls' = Threads /\ IsMap(calls')
      /\ \A i \in Threads :
            /\ calls'[i] = Call(calls'[i].at, calls'[i].txs, calls'[i].known, calls'[i].found)
            /\ calls'[i].at \in {"idle", "start"} /\ calls'[i].txs \subseteq Txs
    <2>1. CASE Reconfigure
        BY SMTT(30), <2>1 DEF TMInv, Types, IsMap
    <2>2. CASE Restart
        <3>1. calls' = [i \in Threads |->
                    IF i = Recovery
                    THEN Call("start", {t \in table \ durable : EpochOf[t] = epoch}, {}, {})
                    ELSE Idle]
            BY Zenon, <2>2
        <3> QED
            BY Zenon, <3>1 DEF TMInv, Types, IsMap, Idle, Call
    <2> QED
        BY Zenon, <2>1, <2>2
<1>4. Looking' = {} /\ DOMAIN pending' = {} /\ DOMAIN versions' = {}
    BY SMTT(30), <1>1, <1>3 DEF Looking, EmptyMap
<1>5. Types'
    <2>1. IsMap(versions)' /\ IsMap(pending)'
        BY Zenon, <1>1, EmptyMapIsMap
    <2> QED
        BY Zenon, <1>1, <1>2, <1>3, <1>4, <2>1, FS_EmptySet DEF TMInv, Types
<1>6. Places' /\ ReadyHasInputs' /\ PendingIsRight'
    BY SMTT(30), <1>1, <1>2, <1>4, BoundsAssumption DEF Places, ReadyHasInputs, PendingIsRight, TMInv, Types
<1>7. Views'
    <2>1. View({}, pending') = EmptyMap /\ View({}, PendingIds') = EmptyMap
        BY SMTT(30) DEF View, EmptyMap
    <2> QED
        BY Zenon, <1>1, <1>4, <2>1 DEF Views
<1>8. Complete(executed)' /\ Complete(durable)'
    BY Zenon, <1>1 DEF TMInv, Complete
<1>9. CacheIsRight' /\ CallsAreRight'
    BY Zenon, <1>1, <1>4 DEF CacheIsRight, Denied, Cached, CallsAreRight
<1> QED
    BY Zenon, <1>5, <1>6, <1>7, <1>8, <1>9 DEF TMInv

-----------------------------------------------------------------------------
(* notify_commit *)

Remaining(D, P, O) == {t \in D : P[t] \ O # {}}

\* Q is P without the keys of O, where something remains.
LeftIn(Q, D, P, O) == \A t \in Remaining(D, P, O) : Q[t] = P[t] \ O

OneKeyPerId(D, P) == \A t \in D : \A j, k \in P[t] : j.id = k.id => j = k

AreIdsOf(I, D, P) == \A t \in D : I[t] = IdsOf(P[t])

(***************************************************************************)
(* missing_inputs without the keys that became available.                  *)
(***************************************************************************)
LEMMA RemoveKeysView ==
    ASSUME NEW D, NEW P, NEW Q, NEW O, LeftIn(Q, D, P, O)
    PROVE  Without(View(D, P), O \cap DOMAIN View(D, P)) = View(Remaining(D, P, O), Q)
<1> USE DEF LeftIn
<1> DEFINE f == View(D, P)
           E == Remaining(D, P, O)
           U == UNION {Q[t] : t \in E}
<1>1. /\ DOMAIN f = UNION {P[t] : t \in D}
      /\ \A k \in DOMAIN f : f[k] = {t \in D : k \in P[t]}
    BY Zenon DEF View
<1>2. DOMAIN f \ (O \cap DOMAIN f) = U
    <2>1. ASSUME NEW k \in DOMAIN f, k \notin O PROVE k \in U
        <3>1. PICK t \in D : k \in P[t]
            BY SMTT(30), <1>1
        <3>2. t \in E /\ k \in Q[t]
            BY Zenon, <2>1, <3>1 DEF Remaining
        <3> QED
            BY Zenon, <3>2
    <2>2. ASSUME NEW t \in E, NEW k \in Q[t] PROVE k \in DOMAIN f /\ k \notin O
        <3>1. t \in D /\ k \in P[t] /\ k \notin O
            BY Zenon, <2>2 DEF Remaining
        <3> QED
            BY Zenon, <1>1, <3>1
    <2> QED
        BY Zenon, <2>1, <2>2
<1>3. \A k \in U : f[k] = {t \in E : k \in Q[t]}
    <2> SUFFICES ASSUME NEW k \in U, NEW t PROVE t \in f[k] <=> t \in E /\ k \in Q[t]
        BY Zenon
    <2>1. k \in DOMAIN f /\ k \notin O
        BY Zenon, <1>2
    <2> QED
        BY SMTT(30), <1>1, <2>1 DEF Remaining
<1>4. Without(f, O \cap DOMAIN f) = [k \in U |-> f[k]]
    BY Zenon, <1>2 DEF Without
<1>5. View(E, Q) = [k \in U |-> {t \in E : k \in Q[t]}]
    BY Zenon DEF View
<1> HIDE DEF f, E, U
<1>6. Without(f, O \cap DOMAIN f) = View(E, Q)
    BY Zenon, <1>3, <1>4, <1>5
<1> QED
    BY Zenon, <1>6 DEF f, E

(***************************************************************************)
(* input_objects without those that waited for one of the keys: each has   *)
(* one version of an object among its inputs.                              *)
(***************************************************************************)
LEMMA RemoveWaitersView ==
    ASSUME NEW D, NEW P, NEW Q, NEW O, NEW I, NEW J,
           missing_inputs = View(D, P), OneKeyPerId(D, P), AreIdsOf(I, D, P),
           LeftIn(Q, D, P, O), AreIdsOf(J, Remaining(D, P, O), Q)
    PROVE  WithoutWaiters(View(D, I), O \cap DOMAIN View(D, P)) = View(Remaining(D, P, O), J)
<1> USE DEF LeftIn, OneKeyPerId, AreIdsOf
<1> DEFINE keys == O \cap DOMAIN View(D, P)
           f == View(D, I)
           E == Remaining(D, P, O)
           U == UNION {J[t] : t \in E}
           gone(o) == UNION {missing_inputs[k] : k \in {j \in keys : j.id = o}}
           left == [o \in DOMAIN f |-> f[o] \ gone(o)]
           empty == {o \in IdsOf(keys) : left[o] = {}}
<1>1. /\ DOMAIN f = UNION {I[t] : t \in D}
      /\ \A o \in DOMAIN f : f[o] = {t \in D : o \in I[t]}
    BY Zenon DEF View
<1>2. /\ DOMAIN missing_inputs = UNION {P[t] : t \in D}
      /\ \A k \in DOMAIN missing_inputs : missing_inputs[k] = {t \in D : k \in P[t]}
    BY Zenon DEF View
<1>3. ASSUME NEW o, NEW t PROVE t \in gone(o) <=> t \in D /\ \E k \in P[t] \cap O : k.id = o
    <2>1. ASSUME t \in gone(o) PROVE t \in D /\ \E k \in P[t] \cap O : k.id = o
        <3>1. PICK k \in keys : k.id = o /\ t \in missing_inputs[k]
            BY Zenon, <2>1
        <3> QED
            BY SMTT(30), <1>2, <3>1
    <2>2. ASSUME t \in D, NEW k \in P[t] \cap O, k.id = o PROVE t \in gone(o)
        <3>1. k \in keys /\ t \in missing_inputs[k]
            BY SMTT(30), <1>2, <2>2
        <3> QED
            BY Zenon, <2>2, <3>1
    <2> QED
        BY Zenon, <2>1, <2>2
<1>4. ASSUME NEW o \in DOMAIN f, NEW t PROVE t \in left[o] <=> t \in E /\ o \in J[t]
    <2>1. t \in left[o] <=> t \in D /\ o \in I[t] /\ t \notin gone(o)
        BY SMTT(30), <1>1
    <2> HIDE DEF left, gone, f
    <2>2. t \in left[o] <=> /\ t \in D /\ (\E k \in P[t] : k.id = o)
                            /\ ~\E k \in P[t] \cap O : k.id = o
        BY SMTT(30), <1>3, <2>1 DEF IdsOf
    <2>3. ASSUME t \in E PROVE o \in J[t] <=> \E k \in P[t] \ O : k.id = o
        BY SMTT(30), <2>3 DEF IdsOf
    <2>4. t \in E <=> t \in D /\ P[t] \ O # {}
        BY Zenon DEF Remaining
    <2> HIDE DEF E
    <2>5. ASSUME t \in D
          PROVE  (\E k \in P[t] \ O : k.id = o) <=> (\E k \in P[t] : k.id = o) /\ ~\E k \in P[t] \cap O : k.id = o
        BY Zenon, <2>5
    <2> QED
        BY Zenon, <2>2, <2>3, <2>4, <2>5
<1>5. DOMAIN f \ empty = U
    <2>1. ASSUME NEW o \in DOMAIN f, o \notin empty PROVE o \in U
        <3>1. PICK t \in D : o \in I[t]
            BY SMTT(30), <1>1
        <3>2. PICK s : s \in left[o]
            <4>1. CASE o \in IdsOf(keys)
                BY Zenon, <2>1, <4>1
            <4>2. CASE o \notin IdsOf(keys)
                <5>1. gone(o) = {}
                    BY Zenon, <4>2 DEF IdsOf
                <5> QED
                    BY SMTT(30), <1>1, <3>1, <5>1
            <4> QED
                BY Zenon, <4>1, <4>2
        <3> QED
            BY SMTT(30), <1>4, <3>2
    <2>2. ASSUME NEW t \in E, NEW o \in J[t] PROVE o \in DOMAIN f /\ o \notin empty
        <3>1. t \in D /\ o \in I[t]
            <4>1. t \in D /\ Q[t] = P[t] \ O /\ J[t] = IdsOf(Q[t]) /\ I[t] = IdsOf(P[t])
                BY Zenon DEF Remaining
            <4> QED
                BY Zenon, <4>1 DEF IdsOf
        <3>2. o \in DOMAIN f
            BY Zenon, <1>1, <3>1
        <3>3. t \in left[o]
            BY Zenon, <1>4, <3>2
        <3> QED
            BY Zenon, <3>2, <3>3
    <2>3. ASSUME NEW o \in U PROVE \E t \in E : o \in J[t]
        BY Zenon
    <2> HIDE DEF f, left, empty, gone, keys, E, U
    <2> QED
        BY Zenon, <2>1, <2>2, <2>3
<1>6. WithoutWaiters(f, keys) = [o \in DOMAIN f \ empty |-> left[o]]
    BY Zenon DEF WithoutWaiters, Without
<1>7. View(E, J) = [o \in U |-> {t \in E : o \in J[t]}]
    BY Zenon DEF View
<1>8. \A o \in U : left[o] = {t \in E : o \in J[t]}
    <2> SUFFICES ASSUME NEW o \in U PROVE left[o] = {t \in E : o \in J[t]}
        BY Zenon
    <2>1. o \in DOMAIN f
        BY Zenon, <1>5
    <2> HIDE DEF f, left, E, U, empty
    <2> QED
        BY Zenon, <1>4, <2>1
<1> HIDE DEF f, E, U, keys, left, empty
<1>9. WithoutWaiters(f, keys) = View(E, J)
    BY SMTT(30), <1>5, <1>6, <1>7, <1>8
<1> QED
    BY Zenon, <1>9 DEF f, E, keys

LEMMA NotifyCommitTMInv ==
    ASSUME TMInv, NEW t \in Txs, NotifyCommit(t)
    PROVE  TMInv'
<1> DEFINE O == Outputs[t]
           D == DOMAIN pending
           keys == O \cap DOMAIN missing_inputs
           left == [s \in D |-> pending[s] \ O]
           found == {s \in D : left[s] = {}}
           E == Remaining(D, pending, O)
<1>1. /\ t \in committed /\ t \in executed /\ t \in executing /\ EpochOf[t] = epoch
      /\ t \notin ready /\ O \subseteq Store /\ O \subseteq AllKeys
    <2>1. t \in committed /\ t \in executed /\ t \in executing /\ EpochOf[t] = epoch
        BY Zenon DEF NotifyCommit, TMInv, Types, Places
    <2>2. t \notin ready
        BY Zenon, <2>1 DEF TMInv, Places
    <2>3. O \subseteq Store /\ O \subseteq AllKeys
        BY Zenon, <2>1, KeyTypes DEF Store, ObjectsOf
    <2> QED
        BY Zenon, <2>1, <2>2, <2>3
<1>2. /\ InsertAll(O) /\ lowered' = lowered \cup TooOld(t)
      /\ missing_inputs' = Without(missing_inputs, keys)
      /\ input_objects' = WithoutWaiters(input_objects, keys)
      /\ pending' = Without(left, found)
      /\ executing' = (executing \cup found) \ {t}
      /\ ready' = ready \cup found
      /\ committed' = committed \ {t}
      /\ UNCHANGED <<executed, durable, table, epoch, unbounded, calls>>
    BY Zenon, <1>1 DEF NotifyCommit, storage
<1>3. /\ pending' = [s \in E |-> pending[s] \ O] /\ DOMAIN pending' = E
      /\ \A s \in E : s \in D /\ pending'[s] = pending[s] \ O /\ pending'[s] # {}
      /\ found = D \ E
    <2>1. found = D \ E
        BY Zenon DEF Remaining
    <2>2. pending' = [s \in E |-> pending[s] \ O]
        BY Zenon, <1>2, <2>1 DEF Without, Remaining
    <2> QED
        BY Zenon, <2>1, <2>2 DEF Remaining
<1>4. /\ IsMap(versions')
      /\ \A i \in DOMAIN versions' :
            \/ /\ i \in DOMAIN versions /\ versions'[i] = versions[i]
               /\ \A k \in O : k.id = i /\ ~IsPackage(k) => versions[i] > k.version
            \/ \E k \in O : ~IsPackage(k) /\ k.id = i /\ versions'[i] = k.version
      /\ \A p \in packages' : p \in packages \/ \E k \in O : IsPackage(k) /\ k.id = p
      /\ unbounded > 0 =>
            /\ DOMAIN versions \subseteq DOMAIN versions' /\ packages \subseteq packages'
            /\ \A i \in DOMAIN versions : versions'[i] >= versions[i]
            /\ \A k \in O :
                /\ IsPackage(k) => k.id \in packages'
                /\ ~IsPackage(k) => k.id \in DOMAIN versions' /\ versions'[k.id] >= k.version
    BY Zenon, <1>1, <1>2, InsertFacts, KeysAssumption
<1>5. Store' = Store /\ Looking' = Looking /\ Excused \ O \subseteq Excused'
    BY Zenon, <1>2 DEF Store, Looking, Excused
<1>6. Types'
    <2>1. IsMap(pending')
        BY Zenon, <1>3 DEF IsMap
    <2>2. IsMap(calls)'
        BY Zenon, <1>2 DEF TMInv, Types
    <2>3. found \subseteq Txs /\ E \subseteq Txs
        BY Zenon, <1>3 DEF TMInv, Types, Remaining
    <2> HIDE DEF found, E
    <2> QED
        BY Zenon, <1>2, <1>3, <1>4, <1>5, <2>1, <2>2, <2>3 DEF TMInv, Types
<1>7. Places'
    <2>1. /\ DOMAIN pending' = E /\ E \subseteq D /\ found \subseteq D /\ E \cap found = {}
        BY Zenon, <1>3 DEF Remaining
    <2> HIDE DEF found, E
    <2>2. \A s \in DOMAIN pending' \cup executing' : EpochOf[s] = epoch' /\ s \in Txs
        BY Zenon, <1>2, <2>1 DEF TMInv, Places
    <2>3. \A s \in found : s \notin executed /\ s # t /\ EpochOf[s] = epoch /\ s \notin executing
        BY Zenon, <1>1, <2>1 DEF TMInv, Places
    <2>4. \A s \in ready' : /\ EpochOf[s] <= epoch'
                            /\ EpochOf[s] = epoch' => s \in executing' /\ s \notin executed'
        <3>1. epoch <= epoch
            BY SMTT(30) DEF TMInv, Types
        <3> QED
            BY Zenon, <1>1, <1>2, <2>3, <3>1 DEF TMInv, Places
    <2>5. committed' \subseteq executing' /\ executing' \subseteq ready' \cup committed'
        BY Zenon, <1>2 DEF TMInv, Places
    <2>6. DOMAIN pending' \cap executing' = {} /\ DOMAIN pending' \cap executed' = {}
        BY Zenon, <1>2, <2>1 DEF TMInv, Places
    <2> QED
        BY Zenon, <2>2, <2>4, <2>5, <2>6 DEF Places
<1>8. Views'
    <2>1. missing_inputs = View(D, pending) /\ input_objects = View(D, PendingIds)
        BY Zenon DEF TMInv, Views
    <2>2. OneKeyPerId(D, pending)
        BY Zenon, KeysAssumption DEF TMInv, Types, Views, OneKeyPerId
    <2>3. AreIdsOf(PendingIds, D, pending)
        BY Zenon DEF PendingIds, AreIdsOf
    <2>4. LeftIn(pending', D, pending, O)
        BY Zenon, <1>3 DEF LeftIn
    <2>5. AreIdsOf(PendingIds', E, pending')
        BY Zenon, <1>3 DEF PendingIds, AreIdsOf
    <2> HIDE DEF D, O
    <2>6. missing_inputs' = View(E, pending')
        <3>1. missing_inputs' = Without(View(D, pending), O \cap DOMAIN View(D, pending))
            BY Zenon, <1>2, <2>1
        <3> QED
            BY SMTT(30), <2>4, <3>1, RemoveKeysView
    <2>7. input_objects' = View(E, PendingIds')
        <3>1. input_objects' = WithoutWaiters(View(D, PendingIds), O \cap DOMAIN View(D, pending))
            BY Zenon, <1>2, <2>1
        <3>2. WithoutWaiters(View(D, PendingIds), O \cap DOMAIN View(D, pending))
                = View(Remaining(D, pending, O), PendingIds')
            BY SMTT(30), <2>1, <2>2, <2>3, <2>4, <2>5, RemoveWaitersView
        <3> QED
            BY Zenon, <3>1, <3>2
    <2> QED
        BY Zenon, <1>3, <2>6, <2>7 DEF TMInv, Views, D
<1>9. Complete(executed)' /\ Complete(durable)'
    BY Zenon, <1>2 DEF TMInv, Complete
<1>10. ReadyHasInputs'
    <2>1. \A s \in found : Inputs[s] \subseteq Store
        BY Zenon, <1>1 DEF TMInv, PendingIsRight
    <2> QED
        BY Zenon, <1>2, <1>5, <2>1 DEF TMInv, ReadyHasInputs
<1>11. CacheIsRight'
    <2>1. \A i \in DOMAIN versions' : \E k \in Store : /\ k.id = i /\ k.version = versions'[i]
                                                       /\ ~IsPackage(k)
        BY Zenon, <1>1, <1>4 DEF TMInv, CacheIsRight
    <2>2. \A p \in packages' : \E k \in Store : k.id = p /\ IsPackage(k)
        BY Zenon, <1>1, <1>4 DEF TMInv, CacheIsRight
    <2>3. Store \cap Denied' \subseteq Excused'
        <3>1. SUFFICES ASSUME NEW k \in Store, k \in Denied' PROVE k \in Excused'
            BY Zenon
        <3>2. /\ k \in AllKeys /\ ~IsPackage(k) /\ k.id \in DOMAIN versions'
              /\ ~(versions'[k.id] >= k.version)
            BY Zenon, <3>1 DEF Denied, Cached, CacheSays
        <3>3. CASE /\ k.id \in DOMAIN versions /\ versions'[k.id] = versions[k.id]
                   /\ \A j \in O : j.id = k.id /\ ~IsPackage(j) => versions[k.id] > j.version
            <4>1. k \in Denied
                BY Zenon, <3>2, <3>3 DEF Denied, Cached, CacheSays
            <4>2. k \in Excused
                BY Zenon, <4>1 DEF TMInv, CacheIsRight
            <4>3. k \notin O
                <5>1. versions[k.id] \in Int /\ k.version \in Int
                    <6>1. Store \subseteq AllKeys
                        BY Zenon, KeyTypes DEF TMInv, Types, Store
                    <6> QED
                        BY Zenon, <3>2, <3>3, <6>1, KeyTypes DEF TMInv, CacheIsRight
                <5> QED
                    BY SMTT(30), <3>2, <3>3, <5>1
            <4> QED
                BY Zenon, <1>5, <4>2, <4>3
        <3>4. CASE \E j \in O : ~IsPackage(j) /\ j.id = k.id /\ versions'[k.id] = j.version
            <4>1. PICK j \in O : ~IsPackage(j) /\ j.id = k.id /\ versions'[k.id] = j.version
                BY Zenon, <3>4
            <4>2. j.version \in Int /\ k.version \in Int /\ k.version > j.version
                BY SMTT(30), <1>1, <3>2, <4>1, KeyTypes
            <4>3. k \notin Genesis
                BY SMTT(30), <3>2, <4>1, <4>2, VersionsAssumption
            <4>4. PICK s \in executed : k \in Outputs[s]
                BY Zenon, <4>3 DEF Store, ObjectsOf
            <4>5. s # t
                BY SMTT(30), <4>1, <4>2, <4>4, KeysAssumption
            <4>6. CASE s \in committed
                <5>1. s \in committed' /\ EpochOf[s] = epoch'
                    BY Zenon, <1>2, <4>5, <4>6 DEF TMInv, Places
                <5> QED
                    BY Zenon, <3>2, <4>4, <5>1 DEF Excused
            <4>7. CASE s \notin committed
                <5>1. k.id \in TooOld(t)
                    BY Zenon, <3>2, <4>1, <4>2, <4>4, <4>7 DEF TooOld
                <5> QED
                    BY Zenon, <1>2, <3>2, <5>1 DEF Excused
            <4> QED
                BY Zenon, <4>6, <4>7
        <3> QED
            BY Zenon, <1>4, <3>2, <3>3, <3>4
    <2> QED
        BY Zenon, <1>5, <2>1, <2>2, <2>3 DEF CacheIsRight
<1>12. CallsAreRight'
    <2>1. ASSUME unbounded > 0 PROVE Excused \cup Available \subseteq Excused' \cup Available'
        <3>1. O \subseteq Available'
            BY Zenon, <1>1, <1>4, <2>1 DEF Available, Cached, CacheSays
        <3>2. Available \subseteq Available'
            <4>1. SUFFICES ASSUME NEW k \in Available PROVE k \in Available'
                BY Zenon
            <4>2. k \in AllKeys /\ k.version \in Int
                BY Zenon, KeyTypes DEF Available
            <4>3. CASE IsPackage(k)
                BY Zenon, <1>4, <2>1, <4>3 DEF Available, Cached, CacheSays
            <4>4. CASE ~IsPackage(k)
                <5>1. /\ k.id \in DOMAIN versions /\ versions[k.id] >= k.version
                      /\ k.id \in DOMAIN versions' /\ versions'[k.id] >= versions[k.id]
                    BY Zenon, <1>4, <2>1, <4>4 DEF Available, Cached, CacheSays
                <5>2. versions[k.id] \in Int /\ versions'[k.id] \in Int
                    <6>1. Store \subseteq AllKeys
                        BY Zenon, KeyTypes DEF TMInv, Types, Store
                    <6>2. CacheIsRight /\ CacheIsRight'
                        BY Zenon, <1>11 DEF TMInv
                    <6> QED
                        BY Zenon, <1>5, <5>1, <6>1, <6>2, KeyTypes DEF CacheIsRight
                <5>3. versions'[k.id] >= k.version
                    BY SMTT(30), <4>2, <5>1, <5>2
                <5> QED
                    BY Zenon, <4>2, <4>4, <5>1, <5>3 DEF Available, Cached, CacheSays
            <4> QED
                BY Zenon, <4>3, <4>4
        <3> QED
            BY Zenon, <1>5, <3>1, <3>2
    <2>2. ASSUME NEW i \in Looking PROVE unbounded > 0
        <3>1. Looking \in SUBSET Threads /\ i \in Threads
            BY Zenon DEF Looking
        <3> QED
            BY Zenon, <3>1, LookingCount DEF TMInv, Types
    <2> QED
        BY Zenon, <1>2, <1>5, <2>1, <2>2 DEF TMInv, CallsAreRight
<1>13. PendingIsRight'
    BY Zenon, <1>1, <1>3, <1>5 DEF TMInv, PendingIsRight
<1> QED
    BY Zenon, <1>6, <1>7, <1>8, <1>9, <1>10, <1>11, <1>12, <1>13 DEF TMInv

-----------------------------------------------------------------------------

(***************************************************************************)
(* The inductive invariant of the transaction manager holds in every       *)
(* reachable state.                                                        *)
(***************************************************************************)
THEOREM TransactionManagerInvariant == Spec => []TMInv
<1>1. TMInv /\ [Next]_vars => TMInv'
    <2> SUFFICES ASSUME TMInv, [Next]_vars PROVE TMInv'
        BY Zenon
    <2>1. CASE \E i \in Threads : \/ \E t \in Txs, b \in BOOLEAN : Submit(i, t, b)
                                 \/ CheckCache(i) \/ ReadStore(i) \/ Enqueue(i)
        BY Zenon, <2>1, SubmitTMInv, CheckCacheTMInv, ReadStoreTMInv, EnqueueTMInv
    <2>2. CASE \E t \in Txs : \/ Execute(t) \/ NotifyCommit(t) \/ CommitOutputs(t)
                              \/ RemovePending(t)
        BY Zenon, <2>2, ExecuteTMInv, NotifyCommitTMInv, CheckpointTMInv
    <2>3. CASE Reconfigure \/ Restart
        BY Zenon, <2>3, NewInnerTMInv
    <2>4. CASE UNCHANGED vars
        BY Zenon, <2>4, CheckpointTMInv
    <2> QED
        BY Zenon, <2>1, <2>2, <2>3, <2>4 DEF Next
<1> QED
    BY <1>1, InitTMInv, PTL DEF Spec

(***************************************************************************)
(* The maps agree, so that the assertions of find_ready_transactions hold  *)
(* whatever the order of calls, notices, epochs and crashes.               *)
(***************************************************************************)
THEOREM MapsAlwaysAgree == Spec => []MapsAgree
<1>1. TMInv => MapsAgree
    <2> SUFFICES ASSUME TMInv PROVE MapsAgree
        BY Zenon
    <2> DEFINE D == DOMAIN pending
    <2>1. /\ DOMAIN missing_inputs = UNION {pending[t] : t \in D}
          /\ \A k \in DOMAIN missing_inputs : missing_inputs[k] = {t \in D : k \in pending[t]}
        BY Zenon DEF TMInv, Views, View
    <2>2. /\ DOMAIN input_objects = UNION {PendingIds[t] : t \in D}
          /\ \A o \in DOMAIN input_objects : input_objects[o] = {t \in D : o \in PendingIds[t]}
        BY Zenon DEF TMInv, Views, View
    <2>3. \A t \in D : PendingIds[t] = IdsOf(pending[t]) /\ pending[t] # {}
        BY Zenon DEF PendingIds, TMInv, Views
    <2>4. ASSUME NEW t \in D PROVE pending[t] \subseteq DOMAIN missing_inputs
        BY Zenon, <2>1
    <2>5. ASSUME NEW o \in DOMAIN input_objects PROVE input_objects[o] # {}
        <3>1. PICK t \in D : o \in PendingIds[t]
            BY Zenon, <2>2
        <3> QED
            BY Zenon, <2>2, <3>1
    <2>6. ASSUME NEW k \in DOMAIN missing_inputs PROVE k.id \in DOMAIN input_objects
        <3>1. PICK t \in D : k \in pending[t]
            BY Zenon, <2>1
        <3>2. k.id \in PendingIds[t]
            BY Zenon, <2>3, <3>1 DEF IdsOf
        <3> QED
            BY Zenon, <2>2, <3>2
    <2>7. ASSUME NEW o \in DOMAIN input_objects
          PROVE  input_objects[o] =
                    UNION {missing_inputs[k] : k \in {j \in DOMAIN missing_inputs : j.id = o}}
        <3> DEFINE W == UNION {missing_inputs[k] : k \in {j \in DOMAIN missing_inputs : j.id = o}}
        <3>1. ASSUME NEW t \in input_objects[o] PROVE t \in W
            <4>1. t \in D /\ o \in IdsOf(pending[t])
                BY SMTT(30), <2>2, <2>3
            <4>2. PICK k \in pending[t] : k.id = o
                BY Zenon, <4>1 DEF IdsOf
            <4>3. k \in DOMAIN missing_inputs /\ t \in missing_inputs[k]
                BY Zenon, <2>1, <4>1, <4>2
            <4> QED
                BY Zenon, <4>2, <4>3
        <3>2. ASSUME NEW t \in W PROVE t \in input_objects[o]
            <4>1. PICK k \in DOMAIN missing_inputs : k.id = o /\ t \in missing_inputs[k]
                BY Zenon
            <4>2. t \in D /\ k \in pending[t]
                BY Zenon, <2>1, <4>1
            <4>3. o \in PendingIds[t]
                BY Zenon, <2>3, <4>1, <4>2 DEF IdsOf
            <4> QED
                BY Zenon, <2>2, <4>2, <4>3
        <3> QED
            BY Zenon, <3>1, <3>2
    <2> QED
        BY SMTT(30), <2>1, <2>3, <2>4, <2>5, <2>6, <2>7 DEF MapsAgree
<1> QED
    BY <1>1, TransactionManagerInvariant, PTL

(***************************************************************************)
(* No entry of executing_certificates is left behind.                      *)
(***************************************************************************)
THEOREM ExecutingIsAlwaysTracked == Spec => []ExecutingIsTracked
<1>1. TMInv => ExecutingIsTracked
    BY Zenon DEF TMInv, Places, ExecutingIsTracked
<1> QED
    BY <1>1, TransactionManagerInvariant, PTL

(***************************************************************************)
(* A transaction that is sent to the execution driver has all its inputs,  *)
(* although what enqueue_impl read may be out of date.                     *)
(***************************************************************************)
THEOREM ReadyAlwaysHasInputs == Spec => []ReadyHasInputs
<1>1. TMInv => ReadyHasInputs
    BY Zenon DEF TMInv
<1> QED
    BY <1>1, TransactionManagerInvariant, PTL

(***************************************************************************)
(* A commit between the two times that enqueue_impl has the lock is not    *)
(* missed, whatever the transactions, the threads and the size of the      *)
(* cache: a transaction waits in vain only for an object of which the      *)
(* cache was told of an older version last, after an eviction.             *)
(***************************************************************************)
THEOREM WakeupsAreLostOnlyWhenLowered == Spec => []LostOnlyWhenLowered
<1>1. TMInv => LostOnlyWhenLowered
    BY Zenon DEF TMInv, PendingIsRight, Excused, LostOnlyWhenLowered
<1> QED
    BY <1>1, TransactionManagerInvariant, PTL

=============================================================================
