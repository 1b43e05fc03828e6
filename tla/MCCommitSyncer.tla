--------------------------- MODULE MCCommitSyncer ---------------------------
(***************************************************************************)
(* An instance of CommitSyncer for TLC: authority P serves every commit, Q *)
(* only the first ones, Z is Byzantine.  P and Q are a quorum.             *)
(***************************************************************************)
EXTENDS CommitSyncer, TLC

CONSTANTS
    O, P, Q, Z,     \* the authorities
    MaxCommit,      \* the number of commits there are
    QServes         \* up to where Q can certify

MCAuthorities == {O, P, Q, Z}
MCByzantine == {Z}
MCStake == (O :> 1) @@ (P :> 3) @@ (Q :> 2) @@ (Z :> 1)

\* Commit 10 + i is not one of the correct authorities, but names one of them.
MCCommits == 0..MaxCommit \cup {10 + i : i \in 1..MaxCommit}
MCIndex == [c \in MCCommits |-> c % 10]
MCPrevious == [c \in MCCommits |-> IF c = 0 THEN 0 ELSE (c % 10) - 1]
MCChain == [i \in 1..MaxCommit |-> i]
MCCertified == [a \in MCAuthorities |-> IF a = Q THEN QServes ELSE MaxCommit]

MCBlockVotes == {<<P, MaxCommit>>, <<Q, MaxCommit>>}

\* One certified commit, perhaps not the first one asked for; one that only Z
\* votes for, after a correct one; and a chain with a gap.
MCByzantineAnswers ==
    {[commits |-> <<i>>, votes |-> {<<a, i>> : a \in {P, Q}}] : i \in 1..3}
        \cup {[commits |-> <<3, 14>>, votes |-> {<<Z, 14>>}],
              [commits |-> <<1, 3>>, votes |-> {<<a, 3>> : a \in {P, Q}}]}
=============================================================================
