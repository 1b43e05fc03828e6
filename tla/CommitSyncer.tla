---------------------------- MODULE CommitSyncer ----------------------------
(***************************************************************************)
(* How an authority that fell behind catches up (commit_syncer.rs):        *)
(*   - CommitVoteMonitor, fed with the votes in the blocks that            *)
(*     AuthorityService::handle_send_block receives;                       *)
(*   - the schedule loop, which splits what is missing into ranges of      *)
(*     commits, fetches several at a time, and hands the fetched blocks to *)
(*     the core without gaps;                                              *)
(*   - the fetch tasks, which retry at one peer after another until a      *)
(*     prefix of their range is fetched and certified;                     *)
(*   - handle_fetch_commits at the peers;                                  *)
(*   - the rejection of blocks while the authority lags too far behind.    *)
(* A range is a pair <<start, end>>, both inclusive.  A commit is          *)
(* identified with its digest.                                             *)
(***************************************************************************)
EXTENDS Committee, Sequences, FiniteSetsExt

CONSTANTS
    Own,               \* the authority that catches up
    Commits,           \* all the commits that a peer may name
    Index,             \* Index[c]: the index of commit c
    Previous,          \* Previous[c]: the commit that c names as the previous one
    Chain,             \* Chain[i]: the commit of index i of the correct authorities
    Certified,         \* Certified[a]: up to where peer a stores a quorum of votes
    ByzantineAnswers,  \* the responses that a Byzantine peer may give
    BlockVotes,        \* the received blocks: pairs of an author and the index it votes for
    BatchSize,         \* commit_sync_batch_size
    ParallelFetches,   \* commit_sync_parallel_fetches
    BatchesAhead,      \* commit_sync_batches_ahead
    LagMultiplier,     \* COMMIT_LAG_MULTIPLIER
    Trail,             \* how many later commits hold the blocks that decide one
    MaxFailures        \* bound on the failed requests to correct peers

ASSUME BatchSizeAssumption == BatchSize \in Nat \ {0}

\* The commits that are left out of whole batches, and those whose decision is
\* with them, are within the lag that is tolerated (100 and 5 by default).
ASSUME LagAssumption == BatchSize - 1 + Trail <= BatchSize * LagMultiplier

ASSUME ChainAssumption ==
    /\ Index \in [Commits -> Nat] /\ Previous \in [Commits -> Commits]
    /\ Chain \in Seq(Commits)
    /\ \A i \in DOMAIN Chain : Index[Chain[i]] = i
    /\ \A i \in DOMAIN Chain : i > 1 => Previous[Chain[i]] = Chain[i - 1]

\* Correct authorities vote for the commits of the chain only, and votes are signed.
ASSUME AnswersAssumption ==
    /\ Certified \in [Authorities -> 0..Len(Chain)]
    /\ \A response \in ByzantineAnswers :
          /\ response.commits \in Seq(Commits)
          /\ \A a \in Authorities \ Byzantine, c \in Commits :
                <<a, c>> \in response.votes => \E i \in DOMAIN Chain : c = Chain[i]
    /\ \A b \in BlockVotes : b[1] \in Authorities /\ b[2] \in Nat

VARIABLES
    votes,      \* highest_voted_commits
    local,      \* last_commit_index of DagState
    received,   \* the highest vote in an accepted block: its history is accepted, too
    sent,       \* the commits whose blocks the syncer handed to the core
    synced,     \* synced_commit_index
    scheduled,  \* highest_scheduled_index, 0 for None
    pending,    \* pending_fetches
    inflight,   \* inflight_fetches: a task for every range being fetched
    fetched,    \* fetched_blocks, as a function from ranges to commits
    draining,   \* TRUE while the loop over fetched_blocks runs
    ready,      \* available_authorities whose time has come, in order of time
    penalised,  \* the other available_authorities, in order of time
    retried,    \* the authorities with failures since their last answer
    failures    \* the number of failed requests to correct peers so far

core_vars == <<votes, local, received, sent>>
loop_vars == <<synced, scheduled, pending, fetched, draining>>
task_vars == <<ready, penalised, retried, failures>>
vars == <<core_vars, loop_vars, inflight, task_vars>>

Peers == Authorities \ {Own}

-----------------------------------------------------------------------------
(***************************************************************************)
(* quorum_commit_index: down the votes in descending order until their     *)
(* stake is a quorum, that is the highest index that a quorum has reached. *)
(***************************************************************************)
QuorumCommitIndex(v) ==
    Max({0} \cup {i \in {v[a] : a \in Authorities} :
                     IsQuorum({a \in Authorities : v[a] >= i})})

\* Mutant: any response of the right shape will do.
VerifyCommitsUnvoted(start, end, response) ==
    SelectSeq(response.commits, LAMBDA c : Index[c] \in start..end)

(***************************************************************************)
(* verify_commits: the verified commits, <<>> for an error.  The commits   *)
(* start at the start of the range and are chained by digest, those past   *)
(* the end are cut off, and the last one has the votes of a quorum.        *)
(***************************************************************************)
VerifyCommits(start, end, response) ==
    LET cs == response.commits
        past == {k \in DOMAIN cs : Index[cs[k]] > end}
        n == IF past = {} THEN Len(cs) ELSE Min(past) - 1
        chained(k) == IF k = 1 THEN Index[cs[k]] = start
                      ELSE /\ Index[cs[k]] = Index[cs[k - 1]] + 1
                           /\ Previous[cs[k]] = cs[k - 1]
    IN  IF /\ n > 0
           /\ \A k \in DOMAIN cs : k <= n + 1 => chained(k)
           /\ IsQuorum({a \in Authorities : <<a, cs[n]>> \in response.votes})
        THEN SubSeq(cs, 1, n)
        ELSE <<>>

(***************************************************************************)
(* handle_fetch_commits at a correct peer: the stored commits of the range *)
(* up to the last one with a quorum of votes, and the votes for it.        *)
(***************************************************************************)
HandleFetchCommits(a, start, end) ==
    LET last == Min({end, start + BatchSize - 1, Certified[a]})
    IN  [commits |-> SubSeq(Chain, start, last),
         votes   |-> IF last < start THEN {}
                     ELSE {<<b, Chain[last]>> : b \in Peers \ Byzantine}]

Responses(a, start, end) ==
    IF a \in Byzantine THEN ByzantineAnswers ELSE {HandleFetchCommits(a, start, end)}

-----------------------------------------------------------------------------
\* The number of whole batches after the commit index, up to the quorum's.
NewBatches(after, quorum) ==
    IF quorum <= after THEN 0 ELSE (quorum - after) \div BatchSize

\* The ranges of these batches.
NewRanges(after, n) ==
    {<<after + k * BatchSize + 1, after + (k + 1) * BatchSize>> : k \in 0..(n - 1)}

\* target_parallel_fetches, for a number of fetched ranges that wait.
TargetParallelFetches(waiting) ==
    Max({1, Min({ParallelFetches, (Cardinality(Authorities) * 2) \div 3,
                 BatchesAhead - waiting})})

\* The order of ranges in a BTreeSet.
Before(q, r) == q[1] < r[1] \/ (q[1] = r[1] /\ q[2] < r[2])

NewTask == [step |-> "start", authority |-> Own, commits |-> <<>>]

(***************************************************************************)
(* The end of each turn of the schedule loop: tasks are started for the    *)
(* first of the pending ranges, as long as there are slots.                *)
(***************************************************************************)
StartFetches(waiting, tasks, todo) ==
    LET slots == TargetParallelFetches(waiting) - Cardinality(DOMAIN tasks)
        first == {r \in todo : Cardinality({q \in todo : Before(q, r)}) < slots}
    IN  /\ pending' = todo \ first
        /\ inflight' = [r \in DOMAIN tasks \cup first |->
                            IF r \in DOMAIN tasks THEN tasks[r] ELSE NewTask]

-----------------------------------------------------------------------------
Init ==
    /\ votes = [a \in Authorities |-> 0]
    /\ local = 0
    /\ received = 0
    /\ sent = {}
    /\ synced = 0
    /\ scheduled = 0
    /\ pending = {}
    /\ inflight = <<>>
    /\ fetched = <<>>
    /\ draining = FALSE
    /\ ready \in Bijection(1..Cardinality(Peers), Peers)
    /\ penalised = <<>>
    /\ retried = {}
    /\ failures = 0

\* Mutant: blocks are refused as soon as one batch is missing.
LagsBehindBatch(quorum) == local + BatchSize <= quorum

LagsBehind(quorum) == local + BatchSize * LagMultiplier < quorum

(***************************************************************************)
(* handle_send_block: the votes of the block are observed, and the block   *)
(* is rejected if the authority lags too far behind.  A block with a vote  *)
(* for a commit has the blocks that decide it in its history, which the    *)
(* synchronizer completes.                                                 *)
(***************************************************************************)
ReceiveBlock(a, i) ==
    /\ votes' = [votes EXCEPT ![a] = Max({@, i})]
    /\ received' = IF LagsBehind(QuorumCommitIndex(votes')) THEN received
                   ELSE Max({received, i})
    /\ UNCHANGED <<local, sent, loop_vars, inflight, task_vars>>

\* The core makes the next commit, when it has the blocks that decide it.
CommitNext ==
    /\ local' = local + 1
    /\ UNCHANGED <<votes, received, sent, loop_vars, inflight, task_vars>>

\* They came with the blocks of others.
CommitReceived == local < received /\ CommitNext

\* They came from the commit syncer.
CommitSynced == (local + 1)..(local + 1 + Trail) \subseteq sent /\ CommitNext

\* The interval tick of the schedule loop.
Tick ==
    /\ ~draining
    /\ synced' = Max({synced, local})
    /\ LET after == Max({synced', scheduled})
           n == NewBatches(after, QuorumCommitIndex(votes))
       IN  /\ scheduled' = IF n = 0 THEN scheduled ELSE after + n * BatchSize
           /\ StartFetches(Cardinality(DOMAIN fetched), inflight,
                           pending \cup NewRanges(after, n))
    /\ UNCHANGED <<core_vars, fetched, draining, task_vars>>

\* Mutant: the part of a range that did not come is forgotten.
RemainderNone(r, end) == {}

\* What is left of a range of which a prefix was fetched.
Remainder(r, end) == IF end < r[2] THEN {<<end + 1, r[2]>>} ELSE {}

Insert(r, commits) ==
    [q \in DOMAIN fetched \cup {r} |-> IF q = r THEN commits ELSE fetched[q]]

\* A fetch task is joined: its commits are kept unless they are all synced.
Join(r) ==
    /\ ~draining
    /\ r \in DOMAIN inflight
    /\ inflight[r].step = "done"
    /\ LET commits == inflight[r].commits
           end == Index[commits[Len(commits)]]
       IN  /\ pending' = pending \cup Remainder(r, end)
           /\ synced' = Max({synced, local})
           /\ fetched' = IF synced' < end THEN Insert(<<r[1], end>>, commits)
                         ELSE fetched
    /\ inflight' = [q \in DOMAIN inflight \ {r} |-> inflight[q]]
    /\ draining' = TRUE
    /\ UNCHANGED <<core_vars, scheduled, task_vars>>

IsFirstFetched(r) == r \in DOMAIN fetched /\ \A q \in DOMAIN fetched : q = r \/ Before(r, q)

\* Mutant: the first range is sent whether or not there is a gap before it.
NoGapBeforeAny(r) == TRUE

NoGapBefore(r) == r[1] <= synced + 1

\* The first fetched range leaves the map; its blocks go to the core, unless
\* they are all synced.  The core answers before the loop goes on.
Send(r) ==
    /\ draining
    /\ IsFirstFetched(r)
    /\ NoGapBefore(r)
    /\ fetched' = [q \in DOMAIN fetched \ {r} |-> fetched[q]]
    /\ sent' = IF r[2] <= synced THEN sent ELSE sent \cup {Index[c] : c \in Range(fetched[r])}
    /\ synced' = Max({synced, r[2]})
    /\ UNCHANGED <<votes, local, received, scheduled, pending, draining, inflight, task_vars>>

\* Nothing more can be sent: the turn of the loop ends.
EndDrain ==
    /\ draining
    /\ ~\E r \in DOMAIN fetched : IsFirstFetched(r) /\ NoGapBefore(r)
    /\ draining' = FALSE
    /\ StartFetches(Cardinality(DOMAIN fetched), inflight, pending)
    /\ UNCHANGED <<core_vars, synced, scheduled, fetched, task_vars>>

-----------------------------------------------------------------------------
SetTask(r, step, a, commits) ==
    inflight' = [inflight EXCEPT ![r] = [step |-> step, authority |-> a, commits |-> commits]]

Restarted(r) == SetTask(r, "start", Own, <<>>)

InStep(r, step) == r \in DOMAIN inflight /\ inflight[r].step = step

(***************************************************************************)
(* fetch_once, step 1: the authority that is available first is taken, and *)
(* waited for if its time has not come.  Without any, the task tries again *)
(* later.                                                                  *)
(***************************************************************************)
TakeAuthority(r) ==
    /\ InStep(r, "start")
    /\ \/ /\ ready # <<>>
          /\ SetTask(r, "commits", Head(ready), <<>>)
          /\ ready' = Tail(ready)
          /\ UNCHANGED penalised
       \/ /\ ready = <<>> /\ penalised # <<>>
          /\ SetTask(r, "commits", Head(penalised), <<>>)
          /\ penalised' = Tail(penalised)
          /\ UNCHANGED ready
    /\ UNCHANGED <<core_vars, loop_vars, retried, failures>>

\* The time of a penalised authority has come.
Elapse ==
    /\ penalised # <<>>
    /\ ready' = Append(ready, Head(penalised))
    /\ penalised' = Tail(penalised)
    /\ UNCHANGED <<core_vars, loop_vars, inflight, retried, failures>>

\* Mutant: an authority keeps its place in the order of time.
PutBackFirst(a, valid) == ready' = <<a>> \o ready

PutBack(a, valid) == ready' = Append(ready, a)

\* Steps 2 and 3: the authority answers, is available again at once, and its
\* answer is verified.
AnswerCommits(r) ==
    /\ InStep(r, "commits")
    /\ LET a == inflight[r].authority
       IN  /\ \E response \in Responses(a, r[1], r[2]) :
                 LET commits == VerifyCommits(r[1], r[2], response)
                 IN  /\ PutBack(a, commits # <<>>)
                     /\ IF commits = <<>> THEN Restarted(r)
                        ELSE SetTask(r, "blocks", a, commits)
           /\ retried' = retried \ {a}
    /\ UNCHANGED <<core_vars, loop_vars, penalised, failures>>

\* Correct peers fail a bounded number of times.
CountFailure(a) ==
    /\ a \notin Byzantine => failures < MaxFailures
    /\ failures' = IF a \in Byzantine THEN failures ELSE failures + 1

\* The queue with `a` at place i of the order of time.
PutBetween(queue, i, a) == SubSeq(queue, 1, i - 1) \o <<a>> \o SubSeq(queue, i, Len(queue))

\* Step 2 fails: the authority is put back, with a delay if it failed before.
FailCommits(r) ==
    /\ InStep(r, "commits")
    /\ LET a == inflight[r].authority
       IN  /\ CountFailure(a)
           /\ retried' = retried \cup {a}
           /\ IF a \in retried
              THEN /\ \E i \in 1..(Len(penalised) + 1) : penalised' = PutBetween(penalised, i, a)
                   /\ UNCHANGED ready
              ELSE ready' = Append(ready, a) /\ UNCHANGED penalised
    /\ Restarted(r)
    /\ UNCHANGED <<core_vars, loop_vars>>

\* Steps 4 to 8: the blocks of the commits come from the same authority.
AnswerBlocks(r) ==
    /\ InStep(r, "blocks")
    /\ SetTask(r, "done", Own, inflight[r].commits)
    /\ UNCHANGED <<core_vars, loop_vars, task_vars>>

\* A block request fails, or does not return what was asked for.
FailBlocks(r) ==
    /\ InStep(r, "blocks")
    /\ CountFailure(inflight[r].authority)
    /\ Restarted(r)
    /\ UNCHANGED <<core_vars, loop_vars, ready, penalised, retried>>

\* A range of commits that is fetched by one task.
Ranges == {r \in (DOMAIN Chain) \X (DOMAIN Chain) : r[1] <= r[2] /\ r[2] < r[1] + BatchSize}

FetchStep(r) ==
    \/ TakeAuthority(r)
    \/ AnswerCommits(r)
    \/ FailCommits(r)
    \/ AnswerBlocks(r)
    \/ FailBlocks(r)

Next ==
    \/ \E b \in BlockVotes : ReceiveBlock(b[1], b[2])
    \/ CommitReceived
    \/ CommitSynced
    \/ Tick
    \/ \E r \in DOMAIN inflight : Join(r) \/ FetchStep(r)
    \/ \E r \in DOMAIN fetched : Send(r)
    \/ EndDrain
    \/ Elapse

Spec == Init /\ [][Next]_vars

(***************************************************************************)
(* The schedule loop ticks and joins, the tasks go on, delays end, and the *)
(* core commits what was synced.  Nothing is assumed of the blocks that    *)
(* the others send: the syncer does not need them.                         *)
(***************************************************************************)
Fairness ==
    /\ WF_vars(Tick)
    /\ WF_vars(\E r \in DOMAIN inflight : Join(r))
    /\ WF_vars(EndDrain \/ \E r \in DOMAIN fetched : Send(r))
    /\ \A r \in Ranges : WF_vars(FetchStep(r))
    /\ WF_vars(Elapse) /\ WF_vars(CommitSynced)

FairSpec == Spec /\ Fairness

-----------------------------------------------------------------------------
\* The indices of a range.
Covers(r) == r[1]..r[2]

\* The ranges that are yet to be handed to the core.
Ranged == pending \cup DOMAIN inflight \cup DOMAIN fetched

(***************************************************************************)
(* No commit is forgotten or fetched twice: each one that is scheduled and *)
(* not synced is in exactly one range of the pending, inflight or fetched  *)
(* ones, however partial the results are and in whatever order they come.  *)
(***************************************************************************)
NoCommitIsForgotten ==
    /\ \A i \in (synced + 1)..scheduled : \E r \in Ranged : i \in Covers(r)
    /\ \A r, q \in Ranged : Covers(r) \cap Covers(q) # {} => r = q
    /\ pending \cap DOMAIN inflight = {}
    /\ (pending \cup DOMAIN inflight) \cap DOMAIN fetched = {}

(***************************************************************************)
(* The comment on synced_commit_index: the blocks of every commit up to it *)
(* were handed to the core, or it has committed them, without a gap.       *)
(***************************************************************************)
SyncedWithoutGap == 1..synced \subseteq sent \cup 1..local

(***************************************************************************)
(* verify_commits lets only certified commits through: what is fetched for *)
(* a range are the commits of the correct authorities at its indices.      *)
(***************************************************************************)
FetchedAreCertified ==
    \A r \in DOMAIN fetched : fetched[r] = SubSeq(Chain, r[1], r[2])

\* The tasks that hold an authority.
Taking == {r \in DOMAIN inflight : inflight[r].step = "commits"}

(***************************************************************************)
(* No authority is lost from available_authorities or in it twice: each    *)
(* one is available, or taken by one task.                                 *)
(***************************************************************************)
AuthoritiesAreKept ==
    LET taken == {inflight[r].authority : r \in Taking}
    IN  /\ IsInjective(ready) /\ IsInjective(penalised)
        /\ \A r, q \in Taking : inflight[r].authority = inflight[q].authority => r = q
        /\ Range(ready) \cap Range(penalised) = {}
        /\ (Range(ready) \cup Range(penalised)) \cap taken = {}
        /\ Range(ready) \cup Range(penalised) \cup taken = Peers

(***************************************************************************)
(* The syncer catches up by itself: what is a whole batch behind a quorum  *)
(* is handed to the core or committed in the end, whatever the Byzantine   *)
(* peers answer and with peers that lag.                                   *)
(***************************************************************************)
CatchesUp ==
    \A i \in {b[2] : b \in BlockVotes} :
        QuorumCommitIndex(votes) >= i ~> synced > i - BatchSize

(***************************************************************************)
(* handle_send_block does not refuse blocks forever: an authority that     *)
(* lags too far behind gets near enough to the quorum without them.        *)
(***************************************************************************)
AcceptsAgain == LagsBehind(QuorumCommitIndex(votes)) ~> ~LagsBehind(QuorumCommitIndex(votes))
=============================================================================
