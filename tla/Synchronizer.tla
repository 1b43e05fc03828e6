---------------------------- MODULE Synchronizer ----------------------------
(***************************************************************************)
(* How an authority fetches the missing ancestors of its blocks            *)
(* (synchronizer.rs):                                                      *)
(*   - "live" requests to the peer that sent a block with missing          *)
(*     ancestors, each in the hands of the task for that peer, and tried   *)
(*     again when they fail;                                               *)
(*   - the scheduler, one run at a time, which asks for all that is        *)
(*     missing in chunks, at random peers, and goes on to the next peer    *)
(*     when one fails;                                                     *)
(*   - the locks of InflightBlocksMap, which limit the peers that are      *)
(*     asked for a block at the same time.                                 *)
(* A block is identified with its reference, in the order of references.   *)
(* A request is identified with its BlocksGuard: it locks its blocks for   *)
(* its peer until it is dropped.                                           *)
(***************************************************************************)
EXTENDS Committee, Sequences

CONSTANTS
    Own,              \* the authority that runs the synchronizer
    Blocks,           \* the blocks, numbered in the order of their references
    Ancestors,        \* Ancestors[b]: the ancestors of b, without genesis blocks
    Broadcasts,       \* the blocks that peers send: pairs of a peer and a block
    Stores,           \* Stores[p]: the blocks that peer p has
    ByzantineAnswers, \* the sets of blocks that a Byzantine peer may answer with
    MaxPerFetch,      \* max_blocks_per_fetch
    MaxPerBlock,      \* MAX_AUTHORITIES_TO_FETCH_PER_BLOCK
    Concurrency,      \* FETCH_BLOCKS_CONCURRENCY
    MaxRetries,       \* MAX_RETRIES
    MaxPeers,         \* MAX_PEERS
    MaxAdditional,    \* MAX_ADDITIONAL_BLOCKS
    MaxFailures       \* bound on the failures of correct peers

Peers == Authorities \ {Own}

ASSUME BlocksAssumption ==
    /\ Blocks \subseteq Nat /\ IsFiniteSet(Blocks)
    /\ Ancestors \in [Blocks -> SUBSET Blocks]
    /\ \A m \in Broadcasts : m[1] \in Peers /\ m[2] \in Blocks

ASSUME LimitsAssumption ==
    MaxPerFetch \in Nat \ {0} /\ MaxPerBlock \in Nat \ {0} /\ MaxPeers \in Nat \ {0}

VARIABLES
    have,        \* the blocks that the core has, suspended or accepted
    received,    \* the broadcasts received so far
    commands,    \* the FetchBlocks commands on their way to the loop of run
    locks,       \* InflightBlocksMap
    requests,    \* the requests, that is the existing guards
    phase,       \* where the task of the scheduler is
    chunks,      \* the chunks of missing blocks that are not yet requested
    peers,       \* what is left of the shuffled peers of the run
    failures     \* the number of failures of correct peers so far

core_vars == <<have, received>>
task_vars == <<phase, chunks, peers>>
vars == <<core_vars, commands, locks, requests, task_vars, failures>>

\* get_missing_blocks: the ancestors of blocks at hand that are not.
Missing(blocks) == UNION {Ancestors[b] : b \in blocks} \ blocks

\* The place of b in the order of S, from 0, and the first n of S.
Rank(S, b) == Cardinality({c \in S : c < b})

FirstOf(S, n) == {b \in S : Rank(S, b) < n}

-----------------------------------------------------------------------------
LocksOf(b) == IF b \in DOMAIN locks THEN locks[b] ELSE {}

\* Mutant: a peer that is asked for a block may be asked for it again.
FreeForAny(refs, p) == {b \in refs : Cardinality(LocksOf(b)) < MaxPerBlock}

\* Mutant: a block is fetched from one peer at a time.
FreeOne(refs, p) == {b \in refs : LocksOf(b) = {}}

\* lock_blocks: the blocks that peer p may be asked for.
Free(refs, p) ==
    {b \in refs : Cardinality(LocksOf(b)) < MaxPerBlock /\ p \notin LocksOf(b)}

LockBlocks(refs, p) ==
    locks' = [b \in DOMAIN locks \cup refs |->
                 LocksOf(b) \cup (IF b \in refs THEN {p} ELSE {})]

\* unlock_blocks for the guards that are dropped; empty entries are removed.
UnlockBlocks(guards) ==
    LET left(b) == locks[b] \ {g.peer : g \in {h \in guards : b \in h.refs}}
    IN  locks' = [b \in {x \in DOMAIN locks : left(x) # {}} |-> left(b)]

Request(kind, step, p, refs, retries, blocks) ==
    [kind |-> kind, step |-> step, peer |-> p, refs |-> refs, retries |-> retries,
     blocks |-> blocks]

\* Request g in another step.
At(step, g, retries, blocks) == Request(g.kind, step, g.peer, g.refs, retries, blocks)

Replace(g, h) == requests' = (requests \ {g}) \cup {h}

\* The guards that exist: between the two halves of swap_locks there is none.
Guards == {g \in requests : g.step # "swapping"}

Drop(guards) == UnlockBlocks(guards) /\ requests' = requests \ guards

-----------------------------------------------------------------------------
Init ==
    /\ have = {}
    /\ received = {}
    /\ commands = {}
    /\ locks = <<>>
    /\ requests = {}
    /\ phase = "idle"
    /\ chunks = <<>>
    /\ peers = {}
    /\ failures = 0

(***************************************************************************)
(* handle_send_block: the block is added, and if ancestors are missing the *)
(* peer is to be asked for them.                                           *)
(***************************************************************************)
ReceiveBlock(p, b) ==
    /\ <<p, b>> \in Broadcasts \ received
    /\ received' = received \cup {<<p, b>>}
    /\ have' = have \cup {b}
    /\ LET missing == IF b \in have THEN {} ELSE Ancestors[b] \ have'
       IN  commands' = commands \cup (IF missing = {} THEN {}
                                      ELSE {[peer |-> p, refs |-> missing]})
    /\ UNCHANGED <<locks, requests, task_vars, failures>>

Count(p, step) == Cardinality({g \in requests : g.kind = "live" /\ g.peer = p /\ g.step = step})

(***************************************************************************)
(* The command FetchBlocks in run.  Without a lock there is nothing to do; *)
(* when the channel to the peer's task is full, the guard is dropped.      *)
(***************************************************************************)
FetchBlocks(c) ==
    /\ c \in commands
    /\ commands' = commands \ {c}
    /\ LET refs == Free(FirstOf(c.refs, MaxPerFetch), c.peer)
       IN  IF refs # {} /\ Count(c.peer, "queued") < Concurrency
           THEN /\ LockBlocks(refs, c.peer)
                /\ requests' = requests \cup {Request("live", "queued", c.peer, refs, 0, {})}
           ELSE UNCHANGED <<locks, requests>>
    /\ UNCHANGED <<core_vars, task_vars, failures>>

\* fetch_blocks_from_authority takes the next guard from the channel.
StartRequest(g) ==
    /\ g \in requests /\ g.kind = "live" /\ g.step = "queued"
    /\ Count(g.peer, "sent") + Count(g.peer, "answered") + Count(g.peer, "failed") < Concurrency
    /\ Replace(g, At("sent", g, 1, {}))
    /\ UNCHANGED <<core_vars, commands, locks, task_vars, failures>>

CountFailure(p) ==
    /\ p \notin Byzantine => failures < MaxFailures
    /\ failures' = IF p \in Byzantine THEN failures ELSE failures + 1

\* handle_fetch_blocks at a correct peer: the blocks that it has, and perhaps
\* some of their ancestors.
HandleFetchBlocks(p, refs) ==
    LET found == refs \cap Stores[p]
    IN  {found, found \cup (UNION {Ancestors[b] : b \in found} \cap Stores[p])}

\* fetch_blocks_request returns blocks.  Those of a correct peer may all be
\* dropped, for a timestamp in the future.
Answer(g) ==
    /\ g \in requests /\ g.step = "sent"
    /\ \/ /\ \E blocks \in IF g.peer \in Byzantine THEN ByzantineAnswers
                           ELSE HandleFetchBlocks(g.peer, g.refs) :
                Replace(g, At("answered", g, g.retries, blocks))
          /\ UNCHANGED failures
       \/ /\ Replace(g, At("answered", g, g.retries, {}))
          /\ CountFailure(g.peer)
    /\ UNCHANGED <<core_vars, commands, locks, task_vars>>

\* It returns an error: one of the network, which counts as a retry, or a
\* timeout.  The scheduler does not look at the number of retries.
Fail(g) ==
    /\ g \in requests /\ g.step = "sent"
    /\ CountFailure(g.peer)
    /\ \E n \in IF g.kind = "live" THEN {0, 1} ELSE {0} :
          Replace(g, At("failed", g, g.retries + n, {}))
    /\ UNCHANGED <<core_vars, commands, locks, task_vars>>

\* There are not too many blocks, and every one of them was requested, or is an
\* ancestor of one that was.
Expected(refs, blocks) ==
    /\ Cardinality(blocks) <= Cardinality(refs) + MaxAdditional
    /\ blocks \subseteq refs \cup UNION {Ancestors[b] : b \in refs \cap blocks}

(***************************************************************************)
(* process_fetched_blocks: the blocks go to the core, unless they are too  *)
(* many or one of them is not expected.  The guard is dropped in either    *)
(* case; it is dropped after add_blocks returns, which is the same step:   *)
(* until then the guard only keeps its peer from being asked again.        *)
(***************************************************************************)
ProcessFetchedBlocks(g) ==
    /\ have' = IF Expected(g.refs, g.blocks) THEN have \cup g.blocks ELSE have
    /\ Drop({g})
    /\ UNCHANGED <<received, commands, failures>>

ProcessLive(g) ==
    /\ g \in requests /\ g.kind = "live" /\ g.step = "answered"
    /\ ProcessFetchedBlocks(g)
    /\ UNCHANGED task_vars

\* A failed request is sent again to the same peer, while it has retries left.
RetryLive(g) ==
    /\ g \in requests /\ g.kind = "live" /\ g.step = "failed"
    /\ IF g.retries <= MaxRetries
       THEN Replace(g, At("sent", g, g.retries, {})) /\ UNCHANGED locks
       ELSE Drop({g})
    /\ UNCHANGED <<core_vars, commands, task_vars, failures>>

-----------------------------------------------------------------------------
\* The first missing blocks, in chunks.
Chunks(missing) ==
    LET first == FirstOf(missing, MaxPeers * MaxPerFetch)
    IN  [k \in 1..((Cardinality(first) + MaxPerFetch - 1) \div MaxPerFetch) |->
            {b \in first : Rank(first, b) \div MaxPerFetch = k - 1}]

\* The timeout of the scheduler starts a run, if there is none and it has work.
StartFetchMissingBlocks ==
    /\ phase = "idle"
    /\ Missing(have) # {}
    /\ phase' = "sending"
    /\ chunks' = Chunks(Missing(have))
    /\ peers' = Peers
    /\ UNCHANGED <<core_vars, commands, locks, requests, failures>>

\* The initial request for the next chunk goes to the next peer, p, for the
\* blocks that can be locked.  There is no step if no peer is left: the expect
\* fails (see EveryChunkHasAPeer).
SendInitial(p) ==
    /\ phase = "sending"
    /\ p \in peers
    /\ LET refs == Free(Head(chunks), p)
       IN  /\ LockBlocks(refs, p)
           /\ requests' = requests \cup
                 (IF refs = {} THEN {} ELSE {Request("scheduled", "sent", p, refs, 1, {})})
    /\ chunks' = Tail(chunks)
    /\ peers' = peers \ {p}
    /\ phase' = IF Len(chunks) = 1 THEN "fetching" ELSE "sending"
    /\ UNCHANGED <<core_vars, commands, failures>>

Scheduled(steps) == {g \in requests : g.kind = "scheduled" /\ g.step \in steps}

\* The task is at the select of fetch_blocks_from_authorities.
Selects == phase = "fetching" /\ Scheduled({"swapping"}) = {}

\* A response is kept; after the last one, they are processed.
KeepResult(g) ==
    /\ Selects
    /\ g \in Scheduled({"answered"})
    /\ Replace(g, At("result", g, g.retries, g.blocks))
    /\ phase' = IF Scheduled({"sent", "answered", "failed"}) = {g} THEN "processing" ELSE phase
    /\ UNCHANGED <<core_vars, commands, locks, chunks, peers, failures>>

\* swap_locks, in two steps: the guard of a failed request is dropped, and the
\* next peer is asked for what can then be locked, if there is a peer.
Unswap(g) ==
    /\ Selects
    /\ g \in Scheduled({"failed"})
    /\ UnlockBlocks({g})
    /\ \/ peers = {} /\ requests' = requests \ {g} /\ UNCHANGED peers
       \/ \E p \in peers : /\ Replace(g, Request("scheduled", "swapping", p, g.refs, 1, {}))
                           /\ peers' = peers \ {p}
    /\ UNCHANGED <<core_vars, commands, phase, chunks, failures>>

Relock(g) ==
    /\ g \in Scheduled({"swapping"})
    /\ LET refs == Free(g.refs, g.peer)
       IN  /\ LockBlocks(refs, g.peer)
           /\ requests' = (requests \ {g}) \cup
                 (IF refs = {} THEN {} ELSE {Request(g.kind, "sent", g.peer, refs, 1, {})})
    /\ UNCHANGED <<core_vars, commands, task_vars, failures>>

\* FETCH_FROM_PEERS_TIMEOUT: the requests without a response are dropped.
FetcherTimeout ==
    /\ Selects
    /\ LET late == Scheduled({"sent", "answered", "failed"})
       IN  /\ Drop(late)
           /\ failures' = failures + Cardinality({g \in late : g.peer \notin Byzantine})
           /\ failures' <= MaxFailures
    /\ phase' = "processing"
    /\ UNCHANGED <<core_vars, commands, chunks, peers>>

ProcessResult(g) ==
    /\ phase = "processing"
    /\ g \in Scheduled({"result"})
    /\ ProcessFetchedBlocks(g)
    /\ UNCHANGED task_vars

EndRun ==
    /\ phase = "processing"
    /\ Scheduled({"result"}) = {}
    /\ phase' = "idle"
    /\ peers' = {}
    /\ UNCHANGED <<core_vars, commands, locks, requests, chunks, failures>>

-----------------------------------------------------------------------------
Next ==
    \/ \E m \in Broadcasts : ReceiveBlock(m[1], m[2])
    \/ \E c \in commands : FetchBlocks(c)
    \/ \E g \in requests :
          \/ StartRequest(g) \/ Answer(g) \/ Fail(g) \/ ProcessLive(g) \/ RetryLive(g)
          \/ KeepResult(g) \/ Unswap(g) \/ Relock(g) \/ ProcessResult(g)
    \/ StartFetchMissingBlocks
    \/ \E p \in Peers : SendInitial(p)
    \/ FetcherTimeout
    \/ EndRun

Spec == Init /\ [][Next]_vars

\* Requests of a kind to a peer.
Of(kind, p) == {g \in requests : g.kind = kind /\ g.peer = p}

(***************************************************************************)
(* Every task goes on, every request has a response in time, if only the   *)
(* timeout, and the run of the scheduler ends.  The shuffle is random: for *)
(* a chunk with a block a correct peer that has it comes first again and   *)
(* again.                                                                  *)
(***************************************************************************)
Fairness ==
    /\ WF_vars(\E c \in commands : FetchBlocks(c))
    /\ \A p \in Peers :
          /\ WF_vars(\E g \in Of("live", p) : StartRequest(g) \/ ProcessLive(g) \/ RetryLive(g))
          /\ WF_vars(\E g \in Of("live", p) : Answer(g) \/ Fail(g))
          /\ WF_vars(\E g \in Of("scheduled", p) : Answer(g) \/ Fail(g))
    /\ WF_vars(StartFetchMissingBlocks)
    /\ WF_vars(\E p \in Peers : SendInitial(p))
    /\ \A b \in UNION {Ancestors[c] : c \in Blocks} :
          SF_vars(\E p \in Peers \ Byzantine :
                     SendInitial(p) /\ b \in Head(chunks) \cap Stores[p])
    /\ WF_vars(\E g \in Scheduled({"answered", "failed", "swapping", "result"}) :
                  KeepResult(g) \/ Unswap(g) \/ Relock(g) \/ ProcessResult(g))
    /\ WF_vars(FetcherTimeout \/ EndRun)

FairSpec == Spec /\ Fairness

-----------------------------------------------------------------------------
(***************************************************************************)
(* The assertions of unlock_blocks and the count of locked blocks: the map *)
(* says exactly which peers hold a guard for a block, there is one guard   *)
(* for a block and a peer, no entry is empty, and none is over the limit.  *)
(***************************************************************************)
LocksMatchGuards ==
    /\ \A b \in Blocks : LocksOf(b) = {g.peer : g \in {h \in Guards : b \in h.refs}}
    /\ \A b \in DOMAIN locks : Cardinality(locks[b]) \in 1..MaxPerBlock
    /\ \A g, h \in Guards : g.peer = h.peer /\ g.refs \cap h.refs # {} => g = h

(***************************************************************************)
(* The check on unexpected blocks: only what a peer broadcast and what is  *)
(* in the history of such a block enters the core.                         *)
(***************************************************************************)
OnlyNeededBlocks ==
    \A b \in have : \/ \E m \in received : m[2] = b
                    \/ \E c \in have : b \in Ancestors[c]

(***************************************************************************)
(* The expectation in fetch_blocks_from_authorities ("Possible             *)
(* misconfiguration as a peer should be found"): in a committee with at    *)
(* least MAX_PEERS peers there is a peer for every chunk.  A smaller one,  *)
(* which nothing in the code excludes, has more chunks than peers as soon  *)
(* as enough blocks are missing.                                           *)
(***************************************************************************)
EveryChunkHasAPeer == MaxPeers <= Cardinality(Peers) => Len(chunks) <= Cardinality(peers)

(***************************************************************************)
(* The documentation of Synchronizer: retrieval goes on while gaps         *)
(* persist.  There is again and again a time when nothing is missing: as   *)
(* blocks are never dropped, every missing block arrives in the end.  This *)
(* is so if fewer peers are faulty than may hold the locks of a block: a   *)
(* request that times out is sent again without end, its peer keeps its    *)
(* lock, and MaxPerBlock such peers keep every other peer from being asked *)
(* for the block.                                                          *)
(***************************************************************************)
MissingArrives == Cardinality(Byzantine) < MaxPerBlock => []<>(Missing(have) = {})
=============================================================================
