------------------------- MODULE TransactionManager -------------------------
(***************************************************************************)
(* TransactionManager of a validator (crates/sui-core/src/                 *)
(* transaction_manager.rs) and the execution driver (execution_driver.rs): *)
(* a certified transaction waits until all its inputs are available, is    *)
(* sent to the driver, and when it has been executed and its outputs are   *)
(* committed (AuthorityState::commit_certificate), those that wait for the *)
(* outputs are found.                                                      *)
(*                                                                         *)
(* enqueue asks a cache which inputs are available, then the store without *)
(* holding the lock, then the cache again.  The store, and the notice that *)
(* follows a commit, change in between.                                    *)
(*                                                                         *)
(* Effects and objects are in the write-back cache first and on disk when  *)
(* the checkpoint of their transaction has been executed: a crash, or the  *)
(* end of the epoch, takes back what is not on disk.                       *)
(*                                                                         *)
(* A key is the id of an object and a version; NoVersion is that of a      *)
(* package.  Inputs that are available at once, those of cancelled         *)
(* transactions, are not among the inputs.                                 *)
(***************************************************************************)
EXTENDS Integers, FiniteSets

CONSTANTS
    Txs,          \* the transactions
    Inputs,       \* [Txs -> sets of keys]
    Outputs,      \* [Txs -> sets of keys]
    EpochOf,      \* [Txs -> epochs]
    Genesis,      \* the keys that are in the store at first
    CacheSize,    \* max_size of the caches
    Threads,      \* the threads that enqueue
    Recovery,     \* the one of them that starts TransactionManager
    MaxEpoch, MaxRestarts, MaxSubmits   \* bounds

ASSUME ThreadsAssumption == IsFiniteSet(Threads) /\ Recovery \in Threads

VARIABLES
    executed,        \* the transactions that have effects
    durable,         \* those of which the effects are on disk
    table,           \* pending_execution of the epoch store
    epoch,
    missing_inputs,  \* the transactions that wait for each key
    input_objects,   \* the transactions that wait for each object
    pending,         \* pending_certificates: the keys they wait for
    executing,       \* executing_certificates
    versions,        \* versioned_cache
    packages,        \* unversioned_cache
    unbounded,       \* unbounded_cache_enabled
    calls,           \* where each thread is in enqueue_impl
    ready,           \* tx_ready_certificates, and the tasks of the driver
    committed,       \* committed transactions, before notify_commit
    lowered,         \* history: the objects of which the cache has too old a version
    submits, restarts

storage == <<executed, durable, table>>
cache == <<versions, packages>>
inner == <<epoch, missing_inputs, input_objects, pending, executing, cache, unbounded,
           lowered>>
bounds == <<submits, restarts>>
vars == <<storage, inner, calls, ready, committed, bounds>>

NoVersion == -1
IsPackage(k) == k.version = NoVersion

EmptyMap == <<>>

\* Adds, for every <<x, k>> of pairs, x to the set that a map of sets has for k.
AddAll(f, pairs) ==
    [k \in DOMAIN f \cup {p[2] : p \in pairs} |->
        (IF k \in DOMAIN f THEN f[k] ELSE {}) \cup {p[1] : p \in {q \in pairs : q[2] = k}}]

Without(f, S) == [j \in DOMAIN f \ S |-> f[j]]

\* The objects that the transactions of S leave.
ObjectsOf(S) == Genesis \cup UNION {Outputs[t] : t \in S}
Store == ObjectsOf(executed)

AllKeys == ObjectsOf(Txs) \cup UNION {Inputs[t] : t \in Txs}

\* A transaction has one version of an object among its inputs ("Duplicated
\* input objects"), and leaves one.
ASSUME KeysAssumption ==
    /\ AllKeys \subseteq [id : {k.id : k \in AllKeys}, version : Int]
    /\ \A t \in Txs : \A j, k \in Inputs[t] : j.id = k.id => j = k
    /\ \A t \in Txs : \A j, k \in Outputs[t] : j.id = k.id => j = k

\* Versions are assigned so that whoever makes one of an object follows, maybe
\* through other objects, those who made the earlier ones.
ASSUME VersionsAssumption ==
    /\ \A g \in Genesis, t \in Txs : \A k \in Outputs[t] :
        k.id = g.id /\ ~IsPackage(g) => k.version > g.version
    /\ \A S \in SUBSET Txs :
        (\A t \in S : Inputs[t] \subseteq ObjectsOf(S)) =>
            \A k \in ObjectsOf(S), j \in AllKeys :
                k.id = j.id /\ ~IsPackage(j) /\ j.version <= k.version => j \in ObjectsOf(S)

ASSUME BoundsAssumption ==
    /\ EpochOf \in [Txs -> Nat]
    /\ MaxEpoch \in Nat /\ MaxRestarts \in Nat /\ MaxSubmits \in Nat

\* A thread in enqueue_impl: where it is, its transactions, and object_availability:
\* the keys that it knows something of and those it found available.
Call(at, txs, known, found) == [at |-> at, txs |-> txs, known |-> known, found |-> found]
Idle == Call("idle", {}, {}, {})

Init ==
    /\ executed = {} /\ durable = {} /\ table = {} /\ epoch = 0
    /\ missing_inputs = EmptyMap /\ input_objects = EmptyMap /\ pending = EmptyMap
    /\ executing = {} /\ versions = EmptyMap /\ packages = {} /\ unbounded = 0
    /\ lowered = {}
    /\ calls = [i \in Threads |-> Idle]
    /\ ready = {} /\ committed = {} /\ submits = 0 /\ restarts = 0

-----------------------------------------------------------------------------
(* AvailableObjectsCache.  What is least recently used is not modelled:    *)
(* shrink leaves any CacheSize entries, those that were just inserted      *)
(* before others.                                                          *)

\* The subsets of S that shrink may leave after the inserts of those in new.
Shrunk(S, new) ==
    IF unbounded > 0 \/ Cardinality(S) <= CacheSize THEN {S}
    ELSE {R \in SUBSET S : Cardinality(R) = CacheSize /\ (new \subseteq R \/ R \subseteq new)}

IdsOf(keys) == {k.id : k \in keys}

VersionIn(keys, i) == (CHOOSE k \in keys : k.id = i).version

\* insert of one of the keys: a version in the cache does not decrease, unless
\* it is among those, gone, that were dropped before.
Entry(keys, gone, i) ==
    IF i \notin IdsOf(keys) \/ (i \in DOMAIN versions \ gone /\ versions[i] > VersionIn(keys, i))
    THEN versions[i]
    ELSE VersionIn(keys, i)

\* The inserts of versions, each followed by shrink.
InsertVersions(keys) ==
    LET all == DOMAIN versions \cup IdsOf(keys)
    IN  \E R \in Shrunk(all, IdsOf(keys)),
           gone \in IF Shrunk(all, {}) = {all} THEN {{}} ELSE SUBSET IdsOf(keys) :
            versions' = [i \in R |-> Entry(keys, gone, i)]

InsertPackages(keys) ==
    packages' \in Shrunk(packages \cup IdsOf(keys), IdsOf(keys))

InsertAll(keys) ==
    /\ InsertVersions({k \in keys : ~IsPackage(k)})
    /\ InsertPackages({k \in keys : IsPackage(k)})

\* is_object_available: whether the cache knows, and what it says.
Cached(k) == IF IsPackage(k) THEN k.id \in packages ELSE k.id \in DOMAIN versions

\* Mutant: any version in the cache will do.
CacheSaysAny(k) == TRUE

CacheSays(k) == IsPackage(k) \/ versions[k.id] >= k.version

-----------------------------------------------------------------------------
(* enqueue_impl *)

KeysOf(S) == UNION {Inputs[t] : t \in S}

\* Consensus hands over a transaction, which is in the table of pending ones
\* from then on, or a client does; those already executed are left out.
Submit(i, t, fromConsensus) ==
    /\ calls[i].at = "idle" /\ submits < MaxSubmits
    /\ submits' = submits + 1
    /\ table' = IF fromConsensus /\ EpochOf[t] = epoch THEN table \cup {t} ELSE table
    /\ calls' = [calls EXCEPT ![i] = Call("start", {t} \ executed, {}, {})]
    /\ UNCHANGED <<executed, durable, inner, ready, committed, restarts>>

\* The first time with the lock: what the cache says of each key.
CheckCache(i) ==
    /\ calls[i].at = "start"
    /\ calls' = [calls EXCEPT ![i] =
                    Call("read", @.txs,
                         {k \in KeysOf(@.txs) : Cached(k)},
                         {k \in KeysOf(@.txs) : Cached(k) /\ CacheSays(k)})]
    /\ unbounded' = unbounded + 1
    /\ UNCHANGED <<storage, epoch, missing_inputs, input_objects, pending, executing, cache,
                   lowered, ready, committed, bounds>>

\* Without the lock: the store is asked for what the cache does not know.
ReadStore(i) ==
    /\ calls[i].at = "read"
    /\ calls' = [calls EXCEPT ![i] =
                    Call("lock", @.txs, KeysOf(@.txs),
                         @.found \cup ((KeysOf(@.txs) \ @.known) \cap Store))]
    /\ UNCHANGED <<storage, inner, ready, committed, bounds>>

\* Mutant: what was found is not looked up again.
FoundMissingOnce(i) == calls[i].known \ calls[i].found

\* The keys that were missing and are not in the cache by now.
FoundMissing(i) ==
    {k \in calls[i].known \ calls[i].found : ~(Cached(k) /\ CacheSays(k))}

\* Mutant: it is not checked again whether a transaction has been executed.
AcceptedUnchecked(i) ==
    {t \in calls[i].txs :
        EpochOf[t] = epoch /\ t \notin DOMAIN pending /\ t \notin executing}

\* The transactions that are not skipped.
Accepted(i) ==
    {t \in calls[i].txs :
        /\ EpochOf[t] = epoch
        /\ t \notin DOMAIN pending /\ t \notin executing /\ t \notin executed}

\* Packages that were found in the store are put into the cache.
PackagesFound(i) == {k \in calls[i].found : IsPackage(k)}

DisableUnbounded == unbounded' = unbounded - 1

\* The second time with the lock, for all the transactions of the call.
Enqueue(i) ==
    /\ calls[i].at = "lock"
    /\ InsertAll(PackagesFound(i))
    /\ DisableUnbounded
    /\ \E new \in {Accepted(i)}, missing \in {FoundMissing(i)} :
        LET waits == {t \in new : Inputs[t] \cap missing # {}}
            pairs == {p \in waits \X missing : p[2] \in Inputs[p[1]]}
        IN  /\ pending' = [t \in DOMAIN pending \cup waits |->
                              IF t \in waits THEN Inputs[t] \cap missing ELSE pending[t]]
            /\ missing_inputs' = AddAll(missing_inputs, pairs)
            /\ input_objects' = AddAll(input_objects, {<<p[1], p[2].id>> : p \in pairs})
            /\ executing' = executing \cup (new \ waits)
            /\ ready' = ready \cup (new \ waits)
    /\ calls' = [calls EXCEPT ![i] = Idle]
    /\ UNCHANGED <<storage, epoch, lowered, committed, bounds>>

-----------------------------------------------------------------------------
(* The driver and notify_commit *)

\* A task executes a certificate unless that was done; it fails, and tries
\* again, unless the certificate is of this epoch.  The panic after ten failures
\* of one of this epoch is left out.  The outputs and the effects are visible at
\* once: no property tells apart the order in which they are written.
Execute(t) ==
    /\ t \in ready /\ EpochOf[t] = epoch
    /\ ready' = ready \ {t}
    /\ IF t \in executed
       THEN UNCHANGED <<executed, committed>>
       ELSE /\ executed' = executed \cup {t}
            /\ committed' = committed \cup {t}
    /\ UNCHANGED <<durable, table, inner, calls, bounds>>

\* Mutant: the object is forgotten with the first of its transactions.
WithoutWaitersAll(f, keys) == Without(f, IdsOf(keys))

\* input_objects without those that waited for one of the keys.
WithoutWaiters(f, keys) ==
    LET left == [o \in DOMAIN f |->
                    f[o] \ UNION {missing_inputs[k] : k \in {j \in keys : j.id = o}}]
    IN  Without(left, {o \in IdsOf(keys) : left[o] = {}})

\* The objects for which a notice of t comes after that of a newer version, and
\* finds the entry gone that would have told.
TooOld(t) ==
    {k.id : k \in {j \in Outputs[t] :
        /\ j.id \in DOMAIN versions' /\ versions'[j.id] = j.version
        /\ \E s \in executed \ committed : \E o \in Outputs[s] :
               o.id = j.id /\ o.version > j.version}}

\* notify_commit: find_ready_transactions for every output, and the end of
\* the execution.
NotifyCommit(t) ==
    /\ t \in committed
    /\ committed' = committed \ {t}
    /\ IF EpochOf[t] # epoch
       THEN UNCHANGED <<inner, ready>>
       ELSE LET keys  == Outputs[t] \cap DOMAIN missing_inputs
                left  == [s \in DOMAIN pending |-> pending[s] \ Outputs[t]]
                found == {s \in DOMAIN pending : left[s] = {}}
            IN  /\ InsertAll(Outputs[t])
                /\ lowered' = lowered \cup TooOld(t)
                /\ missing_inputs' = Without(missing_inputs, keys)
                /\ input_objects' = WithoutWaiters(input_objects, keys)
                /\ pending' = Without(left, found)
                /\ executing' = (executing \cup found) \ {t}
                /\ ready' = ready \cup found
                /\ UNCHANGED <<epoch, unbounded>>
    /\ UNCHANGED <<storage, calls, bounds>>

-----------------------------------------------------------------------------
(* The checkpoint executor *)

\* The outputs of an executed transaction are written to disk, after those
\* of the transactions it depends on.
CommitOutputs(t) ==
    /\ t \in executed \ durable /\ Inputs[t] \subseteq ObjectsOf(durable)
    /\ durable' = durable \cup {t}
    /\ UNCHANGED <<executed, table, inner, calls, ready, committed, bounds>>

\* Mutant: what is executed is removed, on disk or not.
RemoveExecuted(t) ==
    /\ t \in table \cap executed
    /\ table' = table \ {t}
    /\ UNCHANGED <<executed, durable, inner, calls, ready, committed, bounds>>

\* multi_remove_pending_execution
RemovePending(t) ==
    /\ t \in table \cap durable
    /\ table' = table \ {t}
    /\ UNCHANGED <<executed, durable, inner, calls, ready, committed, bounds>>

-----------------------------------------------------------------------------

NewInner ==
    /\ missing_inputs' = EmptyMap /\ input_objects' = EmptyMap /\ pending' = EmptyMap
    /\ executing' = {} /\ versions' = EmptyMap /\ packages' = {} /\ unbounded' = 0
    /\ lowered' = {}

\* reconfigure: the outer lock waits for all calls, and the execution lock
\* for what has been committed.  It is held from the time that what is not on
\* disk is taken back to the time that TransactionManager is told.
Reconfigure ==
    /\ epoch < MaxEpoch
    /\ \A i \in Threads : calls[i].at = "idle"
    /\ committed = {}
    /\ epoch' = epoch + 1
    /\ NewInner
    /\ executed' = durable
    /\ UNCHANGED <<durable, table, calls, ready, committed, bounds>>

\* A crash; the new TransactionManager enqueues what is in the table.
Restart ==
    /\ restarts < MaxRestarts
    /\ restarts' = restarts + 1
    /\ NewInner
    /\ ready' = {} /\ committed' = {}
    /\ calls' = [i \in Threads |->
                    IF i = Recovery
                    THEN Call("start", {t \in table \ durable : EpochOf[t] = epoch}, {}, {})
                    ELSE Idle]
    /\ executed' = durable
    /\ UNCHANGED <<durable, table, epoch, submits>>

Next ==
    \/ \E i \in Threads :
        \/ \E t \in Txs, b \in BOOLEAN : Submit(i, t, b)
        \/ CheckCache(i) \/ ReadStore(i) \/ Enqueue(i)
    \/ \E t \in Txs :
        Execute(t) \/ NotifyCommit(t) \/ CommitOutputs(t) \/ RemovePending(t)
    \/ Reconfigure \/ Restart

Spec == Init /\ [][Next]_vars

Fairness ==
    /\ \A i \in Threads : WF_vars(CheckCache(i) \/ ReadStore(i) \/ Enqueue(i))
    /\ WF_vars(\E t \in Txs : Execute(t) \/ NotifyCommit(t) \/ CommitOutputs(t))

FairSpec == Spec /\ Fairness

-----------------------------------------------------------------------------

\* The three maps describe the same waits, so that no assertion of
\* find_ready_transactions ("Pending certificate must exist", "The digest of
\* the transaction must be inside the map", "# of transactions waiting on
\* object cannot be 0") fails.
MapsAgree ==
    /\ \A k \in DOMAIN missing_inputs :
        missing_inputs[k] = {t \in DOMAIN pending : k \in pending[t]}
    /\ \A t \in DOMAIN pending :
        pending[t] # {} /\ pending[t] \subseteq DOMAIN missing_inputs
    /\ \A o \in DOMAIN input_objects : input_objects[o] # {}
    /\ \A o \in {k.id : k \in DOMAIN missing_inputs} :
        /\ o \in DOMAIN input_objects
        /\ input_objects[o] =
               UNION {missing_inputs[k] : k \in {j \in DOMAIN missing_inputs : j.id = o}}

\* A transaction waits or executes, not both, and what executes is on its way
\* through the driver: no entry is left behind when it is done.
ExecutingIsTracked ==
    /\ executing \cap DOMAIN pending = {}
    /\ executing \subseteq ready \cup committed

\* "Once all of the input objects are available locally for a certificate,
\* the certified transaction will be sent to execution driver", and not
\* before.
ReadyHasInputs ==
    \A t \in ready : EpochOf[t] = epoch => Inputs[t] \subseteq Store

\* No wakeup is lost: what a transaction waits for is not in the store, or
\* the notice of its commit is still to come.  It rests on the versions in the
\* cache: "do not allow highest known version to decrease.  This should not be
\* possible unless bugs are introduced elsewhere in this module."
\* (CacheInner::insert).
NoLostWakeup ==
    \A t \in DOMAIN pending : \A k \in pending[t] :
        k \in Store => \E s \in committed : k \in Outputs[s] /\ EpochOf[s] = epoch

\* The one way in which a wakeup is lost: the notice of an older version of the
\* object came late, when the entry of the newer one had been evicted, so that
\* the cache denies the newer one.  A commit between the two times that enqueue
\* has the lock is not missed.
LostOnlyWhenLowered ==
    \A t \in DOMAIN pending : \A k \in pending[t] :
        k \in Store => \/ \E s \in committed : k \in Outputs[s] /\ EpochOf[s] = epoch
                       \/ k.id \in lowered

\* A transaction from consensus whose inputs are on disk is executed and gets
\* there too, through crashes, unless its epoch ends, and with the exception of
\* LostOnlyWhenLowered.
SequencedIsExecuted ==
    \A t \in Txs :
        t \in table /\ Inputs[t] \subseteq ObjectsOf(durable)
            ~> \/ t \in durable
               \/ epoch # EpochOf[t]
               \/ \E k \in Inputs[t] : k.id \in lowered
=============================================================================
