-------------------------- MODULE NodeJournalProps --------------------------
(***************************************************************************)
(* What the journal keeps over concurrent deliveries, crashes, torn tails  *)
(* and compactions.                                                        *)
(***************************************************************************)
EXTENDS NodeJournal

\* Every variable stays in its range.
TypeOK ==
    /\ late \subseteq Ops
    /\ file \in Seq(Pieces) /\ synced \in 0 .. Len(file) /\ stale \in BOOLEAN
    /\ index \in [Ops -> Results \cup {"absent"}]
    /\ since \in 0 .. Threshold - 1
    /\ boots \in 1 .. MaxBoots /\ alive \in BOOLEAN
    /\ pc \in [Tasks -> Pcs] /\ op \in [Tasks -> Ops \cup {NoOp}]
    /\ result \in [Tasks -> Results] /\ answer \in [Tasks -> Answers]
    /\ copy \in [Tasks -> [records : [Ops -> Results \cup {"absent"}], behind : BOOLEAN]]
    /\ runs \in [Ops -> Nat] /\ overlapped \subseteq Ops /\ damaged \in BOOLEAN

\* "never re-executed ... rather than started twice" (journal.rs): however often
\* a command is delivered, and whatever crashes between its steps, its work runs
\* once; except where two deliveries of it overlap (the look-ups and the
\* acceptance are not one step), or the file lost lines.
RunsOnce ==
    \A o \in Ops : runs[o] <= 1 \/ o \in overlapped \/ damaged

\* A task between the index and the end of its line.
Appending(t) == pc[t] \in {"line", "sync"}

\* "The in-memory index and the durable line move together": once nobody is
\* between the two, a load of the file finds exactly the records in memory.
FileMatchesIndex ==
    alive /\ ~damaged =>
        \A o \in Ops \ overlapped :
            (\A t \in Tasks : Appending(t) => op[t] # o) => Load(file)[o] = index[o]

\* "recorded in the journal before being returned": an answer other than failed
\* survives a crash that comes right now.
AnsweredIsDurable ==
    \A t \in Tasks :
        pc[t] = "report" /\ answer[t] \in Finished
            /\ op[t] \notin overlapped /\ ~damaged
            => Load(SubSeq(file, 1, synced))[op[t]] = answer[t]

\* Every delivery comes to an end: tasks and a compaction never wait for one
\* another for ever.
DeliveriesEnd == <>[](\A t \in Tasks : ~Running(t))
=============================================================================
