----------------------------- MODULE CommitPath -----------------------------
(***************************************************************************)
(* From accepted blocks to executed commits at one authority:              *)
(*   - Core::try_commit, with UniversalCommitter::try_decide over the      *)
(*     commit rule of module CommitRule;                                   *)
(*   - LeaderSchedule::update_leader_schedule, every CommitsPerSchedule    *)
(*     commits;                                                            *)
(*   - Linearizer and CommitObserver, which turn a committed leader into a *)
(*     sub-dag, persist it and send it to the consumer;                    *)
(*   - the parts of DagState that they read and write, and the recovery of *)
(*     all of them from the store after a crash;                           *)
(*   - the consumer, ConsensusHandler of sui-core, as far as it decides    *)
(*     which commits are executed.                                         *)
(*                                                                         *)
(* The DAG there is in the end is a constant: Parents gives the ancestors  *)
(* of every block, Past its causal history.  The authority accepts it in   *)
(* batches that arrive in any causal order (module BlockManager).          *)
(***************************************************************************)
EXTENDS LeaderSchedule

CONSTANTS
    Parents,              \* Parents[b]: the ancestors of block b
    Past,                 \* Past[b]: b and all the blocks it is linked to
    Timestamp,            \* Timestamp[b]: the time written in block b
    Batches,              \* the sets of blocks that may be accepted together
    CommitsPerSchedule,   \* num_commits_per_schedule
    FirstAuthority,       \* the authority of index 0
    MaxRound,             \* the highest round of the instance
    MaxRestarts           \* bound on the number of crashes

VARIABLES
    accepted,       \* the blocks of DagState
    to_write,       \* blocks_to_write: those not yet in the store
    last_decided,   \* last_decided_leader of Core: a round and an author
    commits,        \* the commits made so far, up to last_commit
    rounds,         \* last_committed_rounds
    unscored,       \* unscored_committed_subdags: indices into commits
    table,          \* the LeaderSwapTable
    commit_info,    \* commit_info_to_write
    committing,     \* TRUE while the loop of try_commit runs
    to_commit,      \* the sequenced leaders that the linearizer still has to take
    store,          \* the durable blocks, commits and commit infos
    channel,        \* the indices of the commits on the way to the consumer
    consumer,       \* the durable state of the consumer
    restarts,       \* the number of crashes so far
    scoring         \* mysticeti_leader_scoring_and_schedule of the epoch: never changes

mem_vars == <<accepted, to_write, last_decided, commits, rounds, unscored,
              table, commit_info, committing, to_commit>>
vars == <<mem_vars, store, channel, consumer, restarts, scoring>>

Rule(leader) == INSTANCE CommitRule WITH
    Leader <- leader, parents <- Parents, past <- Past

Leaders(t) == [r \in 1..MaxRound |-> ElectLeader(t, r)]

\* The statuses computed by the loop of try_decide under a swap table.
Statuses(t, V) ==
    [l \in {Leaders(t)} |-> Rule(l)!LeaderStatuses(V)][Leaders(t)]

IsDecided(status) == status.kind # "undecided"

SlotOf(b) == [round |-> b.round, author |-> b.author]

GenesisSlot == [round |-> 0, author |-> FirstAuthority]

\* DagState::last_commit_leader, last_commit_timestamp_ms.
LastCommitLeader(cs) == IF cs = <<>> THEN GenesisSlot ELSE SlotOf(Last(cs).leader)

LastCommitTimestamp(cs) == IF cs = <<>> THEN 0 ELSE Last(cs).timestamp

-----------------------------------------------------------------------------
(***************************************************************************)
(* The lowest round of the loop of try_decide: the range begins at the     *)
(* round of the last decided slot, and the loop ends at that slot if it is *)
(* still the elected one.  Genesis slots are dropped from the result.      *)
(***************************************************************************)
FirstRound(t, last) ==
    IF last.round = 0 \/ ElectLeader(t, last.round) = last.author
    THEN last.round + 1
    ELSE last.round

\* try_decide: the longest decided prefix of the statuses from there on.
TryDecide(t, V, last) ==
    LET st == Statuses(t, V)
        low == FirstRound(t, last)
        open == {r \in DOMAIN st : r >= low /\ ~IsDecided(st[r])}
    IN  IF DOMAIN st = {} THEN <<>>
        ELSE SubSeq(st, low, Min({Cardinality(DOMAIN st) + 1} \cup open) - 1)

\* The indices m..n, as a sequence.
Indices(m, n) == [i \in 1..(n - m + 1) |-> m + i - 1]

\* Mutant: an ancestor at the last committed round of its author is taken.
CollectSubDagInclusive(leader, marks) ==
    FoldLeft(LAMBDA taken, i :
                taken \cup {p \in UNION {Parents[b] : b \in taken} :
                                p.round = leader.round - i /\ p.round >= marks[p.author]},
             {leader}, Indices(1, leader.round))

(***************************************************************************)
(* The traversal of collect_sub_dag_and_commit, by descending rounds: an   *)
(* ancestor at or below the last committed round of its author is not      *)
(* taken, and what only it links to is not reached.                        *)
(***************************************************************************)
CollectSubDag(leader, marks) ==
    FoldLeft(LAMBDA taken, i :
                taken \cup {p \in UNION {Parents[b] : b \in taken} :
                                p.round = leader.round - i /\ p.round > marks[p.author]},
             {leader}, Indices(1, leader.round))

\* Mutant: one committed round for all the authors.
RaiseRoundsOfAll(marks, S) ==
    [a \in Authorities |-> Max({marks[a]} \cup {b.round : b \in S})]

\* The watermarks after a commit of the blocks S: add_commit, DagState::new.
RaiseRounds(marks, S) ==
    [a \in Authorities |-> Max({marks[a]} \cup {b.round : b \in {x \in S : x.author = a}})]

\* collect_sub_dag_and_commit; the index of a commit is its place.
NewCommit(cs, marks, leader) ==
    [leader    |-> leader,
     blocks    |-> CollectSubDag(leader, marks),
     timestamp |-> Max({Timestamp[leader], LastCommitTimestamp(cs)})]

NoScores == [a \in {} |-> 0]

\* The commit infos that a flush writes.
InfosToWrite ==
    IF scoring THEN commit_info
    ELSE IF Len(commits) = Len(store.commits) THEN <<>>
    ELSE <<[index |-> Len(commits), rounds |-> rounds, scores |-> NoScores,
            start |-> 0, end |-> 0]>>

\* DagState::flush: one atomic write of the blocks, commits and infos.
Flush ==
    /\ store' = [blocks  |-> store.blocks \cup to_write,
                 commits |-> commits,
                 infos   |-> store.infos \o InfosToWrite]
    /\ to_write' = {}
    /\ commit_info' = <<>>

\* Mutant: the scored commits are counted again.
RecoveryStartAtInfo(infos) == IF infos = <<>> THEN 1 ELSE Last(infos).index

\* DagState::new: the first commit after the last commit info, and the
\* watermarks of that info.
RecoveryStart(infos) == IF infos = <<>> THEN 1 ELSE Last(infos).index + 1

RecoveredRounds(infos) ==
    IF infos = <<>> THEN [a \in Authorities |-> 0] ELSE Last(infos).rounds

\* Mutant: the end of the scored range, not the commit index, picks the shuffle.
RecoveredTableByEnd(infos) ==
    IF infos = <<>> \/ Last(infos).scores = NoScores THEN DefaultTable
    ELSE LET info == Last(infos)
         IN  NewTable(info.end, info.scores, info.start, info.end)

\* LeaderSchedule::from_store.
RecoveredTable(infos) ==
    IF infos = <<>> \/ Last(infos).scores = NoScores THEN DefaultTable
    ELSE LET info == Last(infos)
         IN  NewTable(info.index, info.scores, info.start, info.end)

-----------------------------------------------------------------------------
Init ==
    /\ accepted = GenesisBlocks
    /\ to_write = {}
    /\ last_decided = GenesisSlot
    /\ commits = <<>>
    /\ rounds = [a \in Authorities |-> 0]
    /\ unscored = <<>>
    /\ table = DefaultTable
    /\ commit_info = <<>>
    /\ committing = FALSE
    /\ to_commit = <<>>
    /\ store = [blocks |-> {}, commits |-> <<>>, infos |-> <<>>]
    /\ channel = <<>>
    /\ consumer = [index |-> 0, round |-> 0, executed |-> <<>>]
    /\ restarts = 0
    /\ scoring \in BOOLEAN

\* Core::add_blocks: the accepted blocks, then try_commit.
AddBlocks(S) ==
    /\ ~committing
    /\ S \cap accepted = {}
    /\ UNION {Parents[b] : b \in S} \subseteq accepted \cup S
    /\ accepted' = accepted \cup S
    /\ to_write' = to_write \cup S
    /\ committing' = TRUE
    /\ UNCHANGED <<last_decided, commits, rounds, unscored, table, commit_info,
                   to_commit, store, channel, consumer, restarts, scoring>>

\* try_new_block: accepting the own new block ends in a flush.  The block
\* itself is one of those accepted by AddBlocks.
FlushOnPropose ==
    /\ ~committing
    /\ to_write # {}
    /\ Flush
    /\ UNCHANGED <<accepted, last_decided, commits, rounds, unscored, table,
                   committing, to_commit, channel, consumer, restarts, scoring>>

\* The head of the loop of try_commit: what was sequenced has been sent.
AtLoopHead == committing /\ to_commit = <<>> /\ Len(commits) = Len(store.commits)

\* update_leader_schedule, when no commit is left until the update.
UpdateLeaderSchedule ==
    /\ AtLoopHead /\ scoring
    /\ Len(unscored) = CommitsPerSchedule
    /\ \E scores \in {VoteScores(Parents, SubSeq(commits, Head(unscored), Last(unscored)))} :
       LET start == Head(unscored)
           end == Last(unscored) + 1
       IN  /\ table' = NewTable(Last(unscored), scores, start, end)
           /\ commit_info' = Append(commit_info,
                  [index |-> Len(commits), rounds |-> rounds, scores |-> scores,
                   start |-> start, end |-> end])
    /\ unscored' = <<>>
    /\ UNCHANGED <<accepted, to_write, last_decided, commits, rounds, committing,
                   to_commit, store, channel, consumer, restarts, scoring>>

\* into_committed_block of the decided leaders that are not skipped.
Sequenced(decided) ==
    LET committed == SelectSeq(decided, LAMBDA d : d.kind = "commit")
    IN  [i \in DOMAIN committed |-> committed[i].block]

\* The slot of the last of the decided leaders.
LastSlot(t, last, decided) ==
    LET r == FirstRound(t, last) + Len(decided) - 1
    IN  [round |-> r, author |-> ElectLeader(t, r)]

\* Whether the sequenced leaders reach the next change of the schedule.
Cut(leaders, until) == Len(leaders) >= until

(***************************************************************************)
(* A turn of the loop.  The leaders are cut off where the schedule         *)
(* changes, and then the last one of them is the last decided one; the     *)
(* others are decided anew, under the next schedule.  The loop ends when   *)
(* no leader is sequenced.  Without scoring there is no loop and no cut.   *)
(***************************************************************************)
Decide ==
    /\ AtLoopHead
    /\ scoring => Len(unscored) < CommitsPerSchedule
    /\ \E decided \in {TryDecide(table, accepted, last_decided)} :
       \E sequenced \in {Sequenced(decided)} :
           LET until == CommitsPerSchedule - Len(unscored)
               cut == scoring /\ Cut(sequenced, until)
           IN  /\ to_commit' = IF cut THEN SubSeq(sequenced, 1, until) ELSE sequenced
               /\ last_decided' = IF cut THEN SlotOf(sequenced[until])
                                  ELSE IF decided = <<>> THEN last_decided
                                  ELSE LastSlot(table, last_decided, decided)
               /\ committing' = (sequenced # <<>>)
    /\ UNCHANGED <<accepted, to_write, commits, rounds, unscored, table, commit_info,
                   store, channel, consumer, restarts, scoring>>

\* Linearizer::handle_commit for the next leader: collect, and add_commit.
Linearize ==
    /\ to_commit # <<>>
    /\ \E c \in {NewCommit(commits, rounds, Head(to_commit))} :
           /\ commits' = Append(commits, c)
           /\ rounds' = RaiseRounds(rounds, c.blocks)
    /\ to_commit' = Tail(to_commit)
    /\ UNCHANGED <<accepted, to_write, last_decided, unscored, table, commit_info,
                   committing, store, channel, consumer, restarts, scoring>>

\* Mutant: one turn for every call.
LoopsOnce == FALSE

\* With scoring, try_commit goes on until nothing is sequenced.
LoopsOn == scoring

\* The end of handle_commit: the flush, and then the commits are sent.
SendCommits ==
    /\ committing /\ to_commit = <<>>
    /\ Len(commits) > Len(store.commits)
    /\ Flush
    /\ LET new == Indices(Len(store.commits) + 1, Len(commits))
       IN  /\ channel' = channel \o new
           /\ unscored' = IF scoring THEN unscored \o new ELSE unscored
    /\ committing' = LoopsOn
    /\ UNCHANGED <<accepted, last_decided, commits, rounds, table, to_commit,
                   consumer, restarts, scoring>>

(***************************************************************************)
(* ConsensusHandler::handle_consensus_output_internal: the indices are     *)
(* written in one batch with the effects of the commit.                    *)
(***************************************************************************)
Execute ==
    /\ channel # <<>>
    /\ LET r == commits[Head(channel)].leader.round
       IN  /\ r # consumer.round
           /\ consumer' = [index    |-> Head(channel),
                           round    |-> r,
                           executed |-> Append(consumer.executed, Head(channel))]
    /\ channel' = Tail(channel)
    /\ UNCHANGED <<mem_vars, store, restarts, scoring>>

\* The commit is taken to be one that was executed before a restart; it may
\* also be the second one of its leader round.
Ignore ==
    /\ channel # <<>>
    /\ commits[Head(channel)].leader.round = consumer.round
    /\ channel' = Tail(channel)
    /\ UNCHANGED <<mem_vars, store, consumer, restarts, scoring>>

\* Mutant: the commits that were on their way are not sent again.
UnsentCommitsNone == <<>>

\* recover_and_send_commits: the stored commits after the last processed one.
UnsentCommits == Indices(consumer.index + 1, Len(store.commits))

(***************************************************************************)
(* A crash, and the restart: DagState::new, LeaderSchedule::from_store,    *)
(* Core::new and CommitObserver::recover_and_send_commits.                 *)
(***************************************************************************)
Restart ==
    /\ restarts < MaxRestarts
    /\ restarts' = restarts + 1
    /\ accepted' = GenesisBlocks \cup store.blocks
    /\ to_write' = {}
    /\ commits' = store.commits
    /\ last_decided' = LastCommitLeader(store.commits)
    /\ LET tail == Indices(RecoveryStart(store.infos), Len(store.commits))
       IN  /\ rounds' = FoldLeft(LAMBDA m, i : RaiseRounds(m, store.commits[i].blocks),
                                 RecoveredRounds(store.infos), tail)
           /\ unscored' = IF scoring THEN tail ELSE <<>>
    /\ table' = RecoveredTable(store.infos)
    /\ commit_info' = <<>>
    /\ committing' = TRUE
    /\ to_commit' = <<>>
    /\ channel' = UnsentCommits
    /\ UNCHANGED <<store, consumer, scoring>>

Next ==
    \/ \E S \in Batches : AddBlocks(S)
    \/ FlushOnPropose
    \/ UpdateLeaderSchedule
    \/ Decide
    \/ Linearize
    \/ SendCommits
    \/ Execute
    \/ Ignore
    \/ Restart

Spec == Init /\ [][Next]_vars

\* The steps of the core thread inside try_commit: one is enabled if committing.
TryCommit == UpdateLeaderSchedule \/ Decide \/ Linearize \/ SendCommits

-----------------------------------------------------------------------------
(***************************************************************************)
(* No block is in two commits: the watermarks that the linearizer and the  *)
(* recovery maintain exclude every committed block (linearizer.rs).        *)
(***************************************************************************)
BlocksCommittedOnce ==
    \A i, j \in DOMAIN commits : i # j => commits[i].blocks \cap commits[j].blocks = {}

(***************************************************************************)
(* The watermarks never pass over a block of a correct author, however     *)
(* late it is linked: the committed blocks of such an author are all its   *)
(* blocks up to its last committed round.                                  *)
(***************************************************************************)
NoCorrectBlockIsPassedOver ==
    \A b \in DOMAIN Parents :
        b.author \notin Byzantine /\ b.round \in 1..rounds[b.author] =>
            \E i \in DOMAIN commits : b \in commits[i].blocks

(***************************************************************************)
(* The scored commits and the unscored ones are all the commits, without   *)
(* gap or overlap, across flushes and restarts: the assertions of          *)
(* commits_until_leader_schedule_update, UnscoredSubdag::new and           *)
(* update_leader_swap_table (is_next_range).                               *)
(***************************************************************************)
ScoresCoverCommits ==
    scoring /\ AtLoopHead => LET scored == IF table.end = 0 THEN 0 ELSE table.end - 1
               IN  /\ unscored = Indices(scored + 1, Len(commits))
                   /\ Len(unscored) <= CommitsPerSchedule
                   /\ table.end - table.start \in {0, CommitsPerSchedule}

(***************************************************************************)
(* The leader schedule is a function of the commits: whenever it was       *)
(* updated or recovered from a commit info (from_store), the swap table is *)
(* the one made of the scores of the commits that were scored last, so     *)
(* that all the authorities with these commits elect the same leaders.     *)
(***************************************************************************)
ScheduleFollowsCommits ==
    scoring =>
        LET scored == Len(store.commits) - Len(unscored)
            first == scored - CommitsPerSchedule + 1
        IN  table = IF scored = 0 THEN DefaultTable
                    ELSE NewTable(scored,
                                  VoteScores(Parents, SubSeq(store.commits, first, scored)),
                                  first, scored + 1)

(***************************************************************************)
(* "we can receive the same commit twice after restart"                    *)
(* (consensus_handler.rs:238): the commits that the consumer ignores are   *)
(* those it executed before.                                               *)
(***************************************************************************)
OnlyRepeatedIsIgnored ==
    \A i \in 1..Min({1, Len(channel)}) :
        commits[channel[i]].leader.round = consumer.round
            => channel[i] \in ToSet(consumer.executed)
=============================================================================
