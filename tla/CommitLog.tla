----------------------------- MODULE CommitLog -----------------------------
(***************************************************************************)
(* What the commit path of an authority promises to the execution of Sui:  *)
(* there is one sequence of commits, fixed by the DAG and not by the order *)
(* in which blocks arrive or by restarts; the log of the authority grows   *)
(* along it and is delivered in order, without a gap, and after a restart  *)
(* from the commit after the last executed one.  The consumer executes a   *)
(* commit when it is delivered, or passes over it: which ones it passes    *)
(* over is its own affair (OnlyRepeatedIsIgnored of CommitPath).           *)
(***************************************************************************)
EXTENDS Integers, SequencesExt

VARIABLES
    sequence,      \* the commits there will be, in order
    log,           \* the commits made by the authority
    next,          \* the index of the commit to deliver next
    executed       \* the indices of the executed commits, in order

LastExecuted == IF executed = <<>> THEN 0 ELSE Last(executed)

Init == log = <<>> /\ next = 1 /\ executed = <<>>

\* The authority makes the next commits of the sequence, one or several.
Extend ==
    /\ \E n \in (Len(log) + 1)..Len(sequence) : log' = SubSeq(sequence, 1, n)
    /\ UNCHANGED <<next, executed>>

\* The next commit of the log gets to the consumer.
Deliver ==
    /\ next <= Len(log)
    /\ next' = next + 1
    /\ executed' \in {executed, Append(executed, next)}
    /\ UNCHANGED log

\* What was delivered and not executed is delivered again.
Restart ==
    /\ next' = LastExecuted + 1
    /\ UNCHANGED <<log, executed>>

Next == (Extend \/ Deliver \/ Restart) /\ UNCHANGED sequence

Spec == Init /\ [][Next]_<<sequence, log, next, executed>>
============================================================================
