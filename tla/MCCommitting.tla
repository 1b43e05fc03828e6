----------------------------- MODULE MCCommitting -----------------------------
(***************************************************************************)
(* Instances of Dag and of CommitPath for TLC, one after the other: a      *)
(* behaviour is one of the part that it starts with.  There are four       *)
(* authorities of equal stake, of which D is Byzantine.                    *)
(*                                                                         *)
(* "dag".  The blocks in Free link to any set of blocks of the previous    *)
(* round that SignedBlockVerifier lets through; the other blocks of A, B   *)
(* and C link to the previous blocks of A, B and C, as when messages       *)
(* arrive in time.  The blocks of D may arrive at any time.  What D does   *)
(* is chosen once, by the variable scenario; every behaviour is one of     *)
(* Dag, with the proposals of the scenario only.                           *)
(*                                                                         *)
(* "path".  The DAG is fixed: D makes two blocks in rounds 2 and 4, is     *)
(* silent from round 6 on, is skipped as leader of rounds 3 and 6, and     *)
(* gets to lead round 4 after B was committed there.                       *)
(***************************************************************************)
EXTENDS Dag, LeaderSchedule

CONSTANTS
    A, B, C, D,           \* the authorities
    Parents, Past, Timestamp, Batches, CommitsPerSchedule, FirstAuthority,
    MaxRestarts           \* of CommitPath

VARIABLES
    part,                 \* "dag" or "path": never changes
    scenario,             \* what D does in the DAG:
                          \*   "leader": makes two blocks as leader of round 4;
                          \*   "voter": makes two voting blocks in round 2;
                          \*   "anchor": misses the certificate in its block of round 4
    sequence,             \* the sequence of commits of the complete DAG: never changes
    \* of CommitPath
    accepted, to_write, last_decided, commits, rounds, unscored, table, commit_info,
    committing, to_commit, store, channel, consumer, restarts, scoring

pathVars == <<accepted, to_write, last_decided, commits, rounds, unscored, table,
              commit_info, committing, to_commit, store, channel, consumer,
              restarts, scoring>>
mcVars == <<part, scenario, sequence, parents, past, pathVars>>

Path == INSTANCE CommitPath

Ref(r, a, d) == [round |-> r, author |-> a, digest |-> d]

At(r, S) == {Ref(r, a, 0) : a \in S}

-----------------------------------------------------------------------------
MCAuthorities == {A, B, C, D}
MCByzantine == {D}
MCStake == [a \in MCAuthorities |-> 1]
MCLeader == <<A, B, B, D, C, B, A, B, C>>

Scenarios == {"leader", "voter", "anchor"}

LastRound == [leader |-> 9, voter |-> 7, anchor |-> 9]

\* How many ancestors a block in Free names at most, and whose it names at least.
MaxParents == [leader |-> 5, voter |-> 3, anchor |-> 3]
MinParents == [leader |-> {A, B, C}, voter |-> {}, anchor |-> {}]

Free ==
    [leader |-> {<<5, A>>, <<5, B>>, <<5, C>>},
     voter |-> {<<2, B>>, <<2, C>>, <<3, B>>, <<4, A>>},
     anchor |-> {<<2, B>>, <<3, C>>, <<5, A>>, <<5, B>>, <<6, A>>}]

Honest == {A, B, C}

\* The blocks of D, with their ancestors.
ByzantineParents ==
    [leader |-> {<<Ref(4, D, d), At(3, Honest) \cup At(0, {D})>> : d \in {0, 1}},
     voter |-> {<<Ref(1, D, 0), GenesisBlocks>>,
                <<Ref(2, D, 0), At(1, {D, A, B})>>,
                <<Ref(2, D, 1), At(1, {D, B, C})>>,
                <<Ref(3, D, 0), At(2, {D, A, B})>>},
     anchor |-> {<<Ref(1, D, 0), GenesisBlocks>>}
                    \cup {<<Ref(r, D, 0), At(r - 1, {D, A, B})>> : r \in 2..5}]

BlocksAt(s, r) == At(r, Honest) \cup AtRound({bp[1] : bp \in ByzantineParents[s]}, r)

ParentsFor(s, b) ==
    IF b.round = 1 THEN {GenesisBlocks}
    ELSE IF <<b.round, b.author>> \in Free[s]
    THEN {P \in SUBSET BlocksAt(s, b.round - 1) :
              /\ Verify(b, P)
              /\ Cardinality(P) <= MaxParents[s]
              /\ MinParents[s] \subseteq AuthorsOf(P)}
    ELSE {At(b.round - 1, Honest)}

ProposalsIn ==
    [s \in Scenarios |->
        {[block |-> bp[1], parents |-> bp[2]] : bp \in ByzantineParents[s]}
            \cup UNION {{[block |-> b, parents |-> P] : P \in ParentsFor(s, b)} :
                            b \in UNION {At(r, Honest) : r \in 1..LastRound[s]}}]

MCProposals == UNION {ProposalsIn[s] : s \in Scenarios}

-----------------------------------------------------------------------------
MCBaseLeader == <<A, B, D, D, C, D, B, A, C>>
MCShuffle == [i \in 1..MaxRound |-> IF i = 4 THEN <<A, D, B, C>> ELSE <<A, C, B, D>>]
MCDraw == [r \in 1..MaxRound |-> r]

\* The blocks that do not link to exactly the previous blocks of A, B and C.
Special ==
    (Ref(1, D, 0) :> GenesisBlocks) @@
    (Ref(2, D, 0) :> At(1, {A, B, D})) @@
    (Ref(2, D, 1) :> At(1, {B, C, D})) @@
    (Ref(3, D, 0) :> At(2, {A, B, D})) @@
    (Ref(4, D, 0) :> At(3, {A, B, C, D})) @@
    (Ref(5, D, 0) :> At(4, {A, B, C, D})) @@
    (Ref(2, B, 0) :> At(1, {A, B, C, D})) @@
    (Ref(2, C, 0) :> At(1, {A, B, C, D})) @@
    (Ref(3, A, 0) :> At(2, {A, B, C, D})) @@
    (Ref(3, C, 0) :> At(2, {A, B, C}) \cup {Ref(2, D, 1)}) @@
    (Ref(4, D, 1) :> At(3, {A, B, C, D})) @@
    (Ref(5, B, 0) :> At(4, {A, B, C}) \cup {Ref(4, D, 1)}) @@
    [b \in At(5, {A, C}) |-> At(4, {A, B, C, D})] @@
    [b \in At(6, {A, B}) |-> At(5, {A, B, C, D})]

MCParents ==
    [b \in GenesisBlocks |-> {}] @@ Special @@
    [b \in At(1, {A, B, C}) |-> GenesisBlocks] @@
    [b \in UNION {At(r, {A, B, C}) : r \in 2..MaxRound} |-> At(b.round - 1, {A, B, C})]

MCPast ==
    FoldLeft(LAMBDA back, r :
                back @@ [b \in AtRound(DOMAIN MCParents, r) |->
                            {b} \cup UNION {back[p] : p \in MCParents[b]}],
             [b \in GenesisBlocks |-> {b}], [r \in 1..MaxRound |-> r])

\* The clock of B is ahead, by less than a round.
MCTimestamp ==
    [b \in DOMAIN MCParents |-> 2 * b.round + IF b.author = B THEN 1 ELSE 0]

\* Rounds of blocks, or several rounds at once; the late blocks of D apart.
Late == {Ref(3, D, 0), Ref(4, D, 0), Ref(4, D, 1)}

Rounds(m, n) == UNION {AtRound(DOMAIN MCParents \ Late, r) : r \in m..n}

MCBatches ==
    {Rounds(1, 4), Rounds(1, 5), Rounds(4, 6), Rounds(5, 7), Rounds(6, MaxRound)}
        \cup {Rounds(r, r) : r \in 1..MaxRound} \cup {{b} : b \in Late}

\* The member of a singleton: in Only({f(x) : x \in {e}}), TLC evaluates e once.
Only(S) == CHOOSE x \in S : TRUE

(***************************************************************************)
(* The sequence of commits that the complete DAG determines, schedule by   *)
(* schedule: what an authority commits that has all of it from the start   *)
(* and never restarts.                                                     *)
(***************************************************************************)
CommitsOf(seg) ==
    LET all == Path!Sequenced(Path!TryDecide(seg.table, DOMAIN Parents, seg.last))
    IN  IF scoring THEN SubSeq(all, 1, Min({CommitsPerSchedule, Len(all)})) ELSE all

\* The commits made of the leaders, in order.
LinearizeAll(cs, marks, leaders) ==
    FoldLeft(LAMBDA acc, l :
                LET c == Path!NewCommit(acc.commits, acc.rounds, l)
                IN  [commits |-> Append(acc.commits, c),
                     rounds  |-> Path!RaiseRounds(acc.rounds, c.blocks)],
             [commits |-> cs, rounds |-> marks], leaders)

AfterCommits(seg, leaders, lin) ==
    LET first == Len(seg.commits) + 1
        full == scoring /\ Len(leaders) = CommitsPerSchedule
    IN  [commits |-> lin.commits,
         rounds  |-> lin.rounds,
         last    |-> IF leaders = <<>> THEN seg.last ELSE Path!SlotOf(Last(leaders)),
         table   |-> IF full
                     THEN NewTable(Len(lin.commits),
                              VoteScores(Parents, SubSeq(lin.commits, first, Len(lin.commits))),
                              first, Len(lin.commits) + 1)
                     ELSE seg.table,
         full    |-> full]

NextSegment(seg) ==
    Only(UNION {{AfterCommits(seg, leaders, lin) :
                     lin \in {LinearizeAll(seg.commits, seg.rounds, leaders)}} :
                 leaders \in {CommitsOf(seg)}})

Canonical ==
    FoldLeft(LAMBDA seg, k : Only({IF s.full THEN NextSegment(s) ELSE s : s \in {seg}}),
             [commits |-> <<>>, rounds |-> [a \in Authorities |-> 0],
              last |-> Path!GenesisSlot, table |-> DefaultTable, full |-> TRUE],
             Path!Indices(1, MaxRound)).commits

-----------------------------------------------------------------------------
DagInit == part = "dag" /\ scenario \in Scenarios /\ ~scoring /\ sequence = <<>>

PathInit == part = "path" /\ scenario = "none" /\ sequence = Canonical

MCInit == Init /\ Path!Init /\ (DagInit \/ PathInit)

HonestStep ==
    /\ part = "dag"
    /\ \E p \in ProposalsIn[scenario] :
          p.block.author \notin Byzantine /\ AddBlock(p.block, p.parents)
    /\ UNCHANGED <<part, scenario, sequence, pathVars>>

ByzantineStep ==
    /\ part = "dag"
    /\ \E p \in ProposalsIn[scenario] :
          p.block.author \in Byzantine /\ AddBlock(p.block, p.parents)
    /\ UNCHANGED <<part, scenario, sequence, pathVars>>

PathStep(action) ==
    /\ part = "path"
    /\ action
    /\ UNCHANGED <<part, scenario, sequence, parents, past>>

MCNext == HonestStep \/ ByzantineStep \/ PathStep(Path!Next)

MCSpec == MCInit /\ [][MCNext]_mcVars

PathSpec == MCInit /\ part = "path" /\ [][MCNext]_mcVars

(***************************************************************************)
(* The authorities that follow the code go on making blocks: in every      *)
(* round they get to, LeaderTimeoutTask forces one.  The core              *)
(* thread keeps running the loop of try_commit (weak fairness of           *)
(* TryCommit, with its enabledness written out), the consumer keeps        *)
(* receiving, and the batches not yet accepted are delivered, again after  *)
(* a restart (synchronizer and subscriptions).                             *)
(***************************************************************************)
MCFairSpec ==
    /\ MCSpec
    /\ WF_mcVars(HonestStep)
    /\ []<>~committing \/ []<><<PathStep(Path!TryCommit)>>_mcVars
    /\ WF_mcVars(PathStep(Path!Execute \/ Path!Ignore))
    /\ \A S \in Batches : WF_mcVars(PathStep(Path!AddBlocks(S)))

-----------------------------------------------------------------------------
\* Every leader slot, that of a leader that makes two blocks and then falls
\* silent among them, is decided in the end (LeadersDecided of Dag, in the
\* scenario that has enough rounds for it).
EquivocatedLeaderGetsDecided == <>(part = "dag" /\ scenario = "leader" => LeadersDecided)

\* No block is in two commits, across restarts that rebuild the watermarks of
\* Linearizer and changes of the schedule (CommitPath).
BlocksCommittedOnce == Path!BlocksCommittedOnce

\* The watermarks pass over no uncommitted block of an author that makes one
\* block per round (CommitPath).
NoCorrectBlockIsPassedOver == Path!NoCorrectBlockIsPassedOver

\* The unscored sub-dags are those of the commits since the last update of the
\* schedule, also when DagState::new has rebuilt them (CommitPath).
ScoresCoverCommits == Path!ScoresCoverCommits

\* The swap table is the one that the scored commits determine, whether it was
\* updated or read back by LeaderSchedule::from_store (CommitPath).
ScheduleFollowsCommits == Path!ScheduleFollowsCommits

\* What ConsensusHandler ignores it has executed before: "we can receive the same
\* commit twice after restart" (CommitPath).
OnlyRepeatedIsIgnored == Path!OnlyRepeatedIsIgnored

Log == INSTANCE CommitLog WITH
    log <- store.commits,
    next <- Len(store.commits) - Len(channel) + 1,
    executed <- consumer.executed

(***************************************************************************)
(* The commit path implements the commit log: in whatever batches the      *)
(* blocks arrive, wherever the schedule changes and whenever the authority *)
(* restarts, the durable commits are a prefix of the one sequence that the *)
(* DAG determines, they are never taken back, they get to the consumer in  *)
(* order and without a gap, and after a restart from the one after the     *)
(* last that was executed.                                                 *)
(***************************************************************************)
ImplementsCommitLog == Log!Spec

(***************************************************************************)
(* Once the crashes are over, the whole sequence is committed and reaches  *)
(* the consumer: no commit is lost between the store and the channel.  The *)
(* consumer executes each of them, the second ones of a leader round       *)
(* excepted (see OnlyRepeatedIsIgnored).                                   *)
(***************************************************************************)
CommitsReachConsumer ==
    <>[](part = "path" =>
            /\ commits = sequence
            /\ channel = <<>>
            /\ \A i \in DOMAIN commits :
                  \/ i \in ToSet(consumer.executed)
                  \/ i > 1 /\ commits[i].leader.round = commits[i - 1].leader.round)
===============================================================================
