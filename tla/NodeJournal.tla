---------------------------- MODULE NodeJournal ----------------------------
(***************************************************************************)
(* The node agent's command journal: an append-only file of lines, its     *)
(* index in memory, and the tasks that execute delivered commands over it. *)
(*                                                                         *)
(* A delivery runs on a blocking thread of its own, so tasks interleave at *)
(* every lock. The file is a sequence of pieces, since a record's text and *)
(* its newline are written by two calls: a crash keeps what was synced and *)
(* any pieces of the rest. The executed work itself and  *)
(* the payload of a result are left out; a record is its operation and its *)
(* result, "none" for an acceptance.                                       *)
(***************************************************************************)
EXTENDS Naturals, Sequences, FiniteSets, SequencesExt

CONSTANTS
    Ops,            \* operations a command may be delivered for
    Unsupported,    \* those of a kind this build does not execute
    MaxDeliveries,  \* bound: deliveries over the life of the journal
    Threshold,      \* COMPACTION_THRESHOLD
    MaxBoots,       \* bound: starts of the process
    NoOp            \* a task that has no command yet

ASSUME NodeJournalAssumption ==
    /\ Unsupported \subseteq Ops /\ NoOp \notin Ops /\ MaxDeliveries \in Nat
    /\ Threshold \in Nat \ {0} /\ MaxBoots \in Nat \ {0}
    /\ IsFiniteSet(Ops)

\* One task per delivery, numbered as they arrive.
Tasks == 1 .. MaxDeliveries

VARIABLES
    late,           \* operations whose deadline was seen to have passed
    \* The file at the journal's path, how much of it is synced, whether the
    \* append handle still refers to the file a compaction replaced.
    file, synced, stale,
    index, since,   \* records in memory, appends since the last compaction
    boots, alive,
    \* Per task: where it is, its operation, the result it is to record, its
    \* answer, and the copy a compaction took (and whether the file moved on
    \* since).
    pc, op, result, answer, copy,
    \* History: how often an operation's work ran, operations that had two
    \* deliveries at once, and whether lines of the file were lost.
    runs, overlapped, damaged

disk == <<file, synced, stale>>
memory == <<index, since>>
process == <<boots, alive>>
tasks == <<pc, op, result, answer, copy>>
history == <<runs, overlapped, damaged>>
vars == <<late, disk, memory, process, tasks, history>>

Finished == {"succeeded", "timed_out", "rejected"}
Results == {"none"} \cup Finished
Answers == {"unanswered", "failed"} \cup Finished
Pcs == {"idle", "replay", "inflight", "insert", "line", "sync", "copy", "rename",
        "reopen", "work", "result", "report", "done"}
Running(t) == pc[t] \notin {"idle", "done"}

-----------------------------------------------------------------------------
(* The file: pieces, and what a load makes of them. *)

Record(o, r) == <<o, r>>
Newline == <<>>
Torn == <<"torn">>
Pieces == (Ops \X Results) \cup {Newline, Torn}

\* The pieces that `open` keeps: lines that are one whole record each, the last
\* with or without its newline. It stops at the first line that does not parse.
Kept(f) ==
    LET Parses(n) ==
            \A i \in 1 .. n :
                IF i % 2 = 0 THEN f[i] = Newline
                ELSE f[i] \in Ops \X Results /\ (i < Len(f) => f[i + 1] = Newline)
    IN  CHOOSE n \in 0 .. Len(f) :
            Parses(n) /\ \A m \in n + 1 .. Len(f) : ~Parses(m)

\* The records a load finds: the last one of each operation.
Load(f) ==
    [o \in Ops |->
        LET Mine == {i \in 1 .. Kept(f) : i % 2 = 1 /\ f[i][1] = o}
        IN  IF Mine = {} THEN "absent"
            ELSE f[CHOOSE i \in Mine : \A j \in Mine : j <= i][2]]

\* The file a compaction writes: the copied index, one line per operation.
Lines(records) ==
    LET known == SetToSeq({o \in Ops : records[o] # "absent"})
    IN  [i \in 1 .. 2 * Len(known) |->
            IF i % 2 = 0 THEN Newline
            ELSE LET o == known[(i + 1) \div 2] IN Record(o, records[o])]

NoCopy == [records |-> [o \in Ops |-> "absent"], behind |-> FALSE]

\* The copies, once the file has been written to: those not yet renamed are
\* behind it.
Behind ==
    [t \in Tasks |-> IF pc[t] = "rename" THEN [copy[t] EXCEPT !.behind = TRUE]
                     ELSE copy[t]]

Init ==
    /\ late = {}
    /\ file = <<>> /\ synced = 0 /\ stale = FALSE
    /\ index = [o \in Ops |-> "absent"] /\ since = 0
    /\ boots = 1 /\ alive = TRUE
    /\ pc = [t \in Tasks |-> "idle"] /\ op = [t \in Tasks |-> NoOp]
    /\ result = [t \in Tasks |-> "none"]
    /\ answer = [t \in Tasks |-> "unanswered"]
    /\ copy = [t \in Tasks |-> NoCopy]
    /\ runs = [o \in Ops |-> 0] /\ overlapped = {} /\ damaged = FALSE

-----------------------------------------------------------------------------
(* `execute`, on the task of one delivery. *)

\* A Command frame arrives and gets a task. Its kind and its deadline are judged
\* before anything is looked up; a refusal is journaled as an acceptance and a
\* result. Time may have passed the deadline at any moment, and does not go back.
Deliver(t, o) ==
    /\ alive /\ pc[t] = "idle" /\ \A u \in 1 .. t - 1 : pc[u] # "idle"
    /\ op' = [op EXCEPT ![t] = o]
    /\ overlapped' = IF \E u \in Tasks : Running(u) /\ op[u] = o
                     THEN overlapped \cup {o} ELSE overlapped
    /\ \/ /\ o \in Unsupported
          /\ answer' = [answer EXCEPT ![t] = "rejected"]
          /\ pc' = [pc EXCEPT ![t] = "insert"]
          /\ UNCHANGED late
       \/ /\ o \notin Unsupported
          /\ late' = late \cup {o}
          /\ answer' = [answer EXCEPT ![t] = "timed_out"]
          /\ pc' = [pc EXCEPT ![t] = "insert"]
       \/ /\ o \notin late \cup Unsupported
          /\ pc' = [pc EXCEPT ![t] = "replay"]
          /\ UNCHANGED <<late, answer>>
    /\ UNCHANGED <<disk, memory, process, result, copy, runs, damaged>>

\* `terminal_result`: a recorded result is the answer.
Replay(t) ==
    /\ pc[t] = "replay"
    /\ IF index[op[t]] \in Finished
       THEN /\ answer' = [answer EXCEPT ![t] = index[op[t]]]
            /\ pc' = [pc EXCEPT ![t] = "report"]
       ELSE /\ pc' = [pc EXCEPT ![t] = "inflight"]
            /\ UNCHANGED answer
    /\ UNCHANGED <<late, disk, memory, process, op, result, copy, history>>

\* Mutant: an acceptance without a result does not stop a redelivery.
RefuseNothing(t) ==
    /\ pc[t] = "inflight"
    /\ pc' = [pc EXCEPT ![t] = "insert"]
    /\ UNCHANGED <<late, disk, memory, process, op, result, answer, copy, history>>

\* `is_in_flight`: an acceptance without a result refuses the delivery, which is
\* answered as failed.
RefuseInFlight(t) ==
    /\ pc[t] = "inflight"
    /\ IF index[op[t]] = "none"
       THEN /\ answer' = [answer EXCEPT ![t] = "failed"]
            /\ pc' = [pc EXCEPT ![t] = "report"]
       ELSE /\ pc' = [pc EXCEPT ![t] = "insert"]
            /\ UNCHANGED answer
    /\ UNCHANGED <<late, disk, memory, process, op, result, copy, history>>

\* The work of the command; collecting an inventory may fail, and then nothing
\* more is recorded.
Work(t) ==
    /\ pc[t] = "work"
    /\ runs' = [runs EXCEPT ![op[t]] = @ + 1]
    /\ \/ /\ answer' = [answer EXCEPT ![t] = "succeeded"]
          /\ pc' = [pc EXCEPT ![t] = "result"]
       \/ /\ answer' = [answer EXCEPT ![t] = "failed"]
          /\ pc' = [pc EXCEPT ![t] = "report"]
    /\ UNCHANGED <<late, disk, memory, process, op, result, copy, overlapped,
                   damaged>>

\* `append_record` of an acceptance: the record in memory, before the line.
Accept(t) ==
    /\ pc[t] = "insert"
    /\ index' = [index EXCEPT ![op[t]] = "none"]
    /\ result' = [result EXCEPT ![t] = "none"]
    /\ pc' = [pc EXCEPT ![t] = "line"]
    /\ UNCHANGED <<late, disk, since, process, op, answer, copy, history>>

\* `record_result` gives the record in memory its result, and `append_record`
\* puts a copy of it back, before the line.
SetResult(t) ==
    /\ pc[t] = "result"
    /\ index' = [index EXCEPT ![op[t]] = answer[t]]
    /\ result' = [result EXCEPT ![t] = answer[t]]
    /\ pc' = [pc EXCEPT ![t] = "line"]
    /\ UNCHANGED <<late, disk, since, process, op, answer, copy, history>>

\* Mutant: the append lock is kept through the compaction an append fires.
LockFreeAfterCompaction ==
    \A t \in Tasks : pc[t] \notin {"sync", "copy", "rename", "reopen"}

\* The lock of the append handle.
LockFree == \A t \in Tasks : pc[t] # "sync"

\* `writeln!`: the record and the newline go to the file behind the handle, which
\* nobody reads once a compaction replaced it. Behind a line that a crash left
\* without its newline the record lands on that line.
WriteLine(t) ==
    /\ pc[t] = "line" /\ LockFree
    /\ file' = IF stale THEN file
               ELSE file \o <<Record(op[t], result[t]), Newline>>
    /\ damaged' = (damaged \/ stale \/ (file # <<>> /\ Last(file) # Newline))
    /\ pc' = [pc EXCEPT ![t] = "sync"]
    /\ copy' = Behind
    /\ UNCHANGED <<late, synced, stale, memory, process, op, result, answer,
                   runs, overlapped>>

\* Where `execute` goes on after an append: a refusal has its result to record,
\* an acceptance its work, and a result was the last thing.
AfterAppend(t) ==
    IF result[t] # "none" THEN "report"
    ELSE IF answer[t] # "unanswered" THEN "result" ELSE "work"

\* Mutant: only an acceptance is synced.
SyncAcceptance(t) ==
    /\ pc[t] = "sync"
    /\ synced' = IF result[t] = "none" THEN Len(file) ELSE synced
    /\ since' = since
    /\ pc' = [pc EXCEPT ![t] = AfterAppend(t)]
    /\ UNCHANGED <<late, file, stale, index, process, op, result, answer, copy,
                   history>>

\* `sync_all`, and the count that fires a compaction on this task.
Sync(t) ==
    /\ pc[t] = "sync"
    /\ synced' = Len(file)
    /\ IF since + 1 >= Threshold
       THEN since' = 0 /\ pc' = [pc EXCEPT ![t] = "copy"]
       ELSE since' = since + 1 /\ pc' = [pc EXCEPT ![t] = AfterAppend(t)]
    /\ UNCHANGED <<late, file, stale, index, process, op, result, answer, copy,
                   history>>

-----------------------------------------------------------------------------
(* `compact`, on the task whose append was one too many. *)

\* Mutant: acceptances without a result are taken for leftovers.
CopyFinished(t) ==
    /\ pc[t] = "copy"
    /\ copy' = [copy EXCEPT ![t] =
                  [records |-> [o \in Ops |-> IF index[o] = "none" THEN "absent"
                                              ELSE index[o]],
                   behind |-> FALSE]]
    /\ pc' = [pc EXCEPT ![t] = "rename"]
    /\ UNCHANGED <<late, disk, memory, process, op, result, answer, history>>

\* The records are copied under their lock.
Copy(t) ==
    /\ pc[t] = "copy"
    /\ copy' = [copy EXCEPT ![t] = [records |-> index, behind |-> FALSE]]
    /\ pc' = [pc EXCEPT ![t] = "rename"]
    /\ UNCHANGED <<late, disk, memory, process, op, result, answer, history>>

\* The temporary file, written and synced, takes the journal's name. What was
\* appended since the copy goes with the old file.
Rename(t) ==
    /\ pc[t] = "rename"
    /\ file' = Lines(copy[t].records)
    /\ synced' = Len(file')
    /\ stale' = TRUE
    /\ damaged' = (damaged \/ copy[t].behind)
    /\ pc' = [pc EXCEPT ![t] = "reopen"]
    /\ copy' = [Behind EXCEPT ![t] = NoCopy]
    /\ UNCHANGED <<late, memory, process, op, result, answer, runs, overlapped>>

\* The handle is opened anew and put in place under the append lock.
Reopen(t) ==
    /\ pc[t] = "reopen" /\ LockFree
    /\ stale' = FALSE
    /\ pc' = [pc EXCEPT ![t] = AfterAppend(t)]
    /\ UNCHANGED <<late, file, synced, memory, process, op, result, answer, copy,
                   history>>

\* Tasks are over, their locals forgotten.
Over(ended) ==
    /\ pc' = [t \in Tasks |-> IF t \in ended THEN "done" ELSE pc[t]]
    /\ op' = [t \in Tasks |-> IF t \in ended THEN NoOp ELSE op[t]]
    /\ result' = [t \in Tasks |-> IF t \in ended THEN "none" ELSE result[t]]
    /\ answer' = [t \in Tasks |-> IF t \in ended THEN "unanswered" ELSE answer[t]]
    /\ copy' = [t \in Tasks |-> IF t \in ended THEN NoCopy ELSE copy[t]]

\* The answer leaves, or the session it was for is gone.
Report(t) ==
    /\ pc[t] = "report"
    /\ Over({t})
    /\ UNCHANGED <<late, disk, memory, process, history>>

-----------------------------------------------------------------------------
(* Crashes and the next start. *)

\* The process and its machine stop. The file keeps all that was synced, any
\* pieces of the rest, and possibly a part of the next.
Crash ==
    /\ alive /\ boots < MaxBoots
    /\ alive' = FALSE
    /\ \E f \in {SubSeq(file, 1, n) : n \in synced .. Len(file)}
                \cup {Append(SubSeq(file, 1, n), Torn) : n \in synced .. Len(file) - 1} :
          file' = f /\ synced' = Len(f)
    /\ stale' = FALSE
    /\ Over({t \in Tasks : Running(t)})
    /\ UNCHANGED <<late, memory, boots, history>>

\* `open`: the kept lines are loaded and, when text follows them, the file is
\* written anew with the kept lines alone. A crash in the middle of that write
\* leaves a part of them.
Open ==
    /\ ~alive
    /\ boots' = boots + 1
    /\ \/ /\ alive' = TRUE
          /\ file' = SubSeq(file, 1, Kept(file))
          /\ damaged' = damaged
          /\ index' = Load(file) /\ since' = 0
       \/ /\ Kept(file) < Len(file) /\ boots + 1 < MaxBoots
          /\ \E n \in 0 .. Kept(file) : file' = SubSeq(file, 1, n)
          /\ damaged' = (damaged \/ file' # SubSeq(file, 1, Kept(file)))
          /\ UNCHANGED <<alive, memory>>
    /\ synced' = Len(file')
    /\ UNCHANGED <<late, stale, tasks, runs, overlapped>>

-----------------------------------------------------------------------------

Step(t) ==
    \/ Replay(t) \/ RefuseInFlight(t) \/ Work(t) \/ Accept(t) \/ SetResult(t)
    \/ WriteLine(t) \/ Sync(t) \/ Copy(t) \/ Rename(t) \/ Reopen(t) \/ Report(t)

Next ==
    \/ \E t \in Tasks : Step(t) \/ \E o \in Ops : Deliver(t, o)
    \/ Crash \/ Open

Spec == Init /\ [][Next]_vars

\* A spawned task runs; a process that went down is started again (the service
\* manager restarts it). No delivery and no crash need come.
Fairness == WF_vars(Open) /\ \A t \in Tasks : WF_vars(Step(t))

FairSpec == Spec /\ Fairness
=============================================================================
