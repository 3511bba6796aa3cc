---------------------------- MODULE DesiredSource ----------------------------
(***************************************************************************)
(* The desired source: commits of the configured remote are fetched as     *)
(* candidates, recorded with a snapshot when they are valid, and made the  *)
(* active revision by a person, by a rollback, or by the controller itself *)
(* when a candidate changes nothing but the Registry.                      *)
(*                                                                         *)
(* A fetch and a manual activation hold one mutex over the worktrees from  *)
(* end to end; a rollback, a change of the settings and the poller do not. *)
(* Every store write is a step, and so is every group of reads a decision  *)
(* rests on.  A claimed fetch that waits for the mutex is still "pending"  *)
(* here.  The content digest is a function of the commit, audit records    *)
(* are left out, and the poller's back-off is time, of which there is none.*)
(***************************************************************************)
EXTENDS Naturals, Sequences, SequencesExt

CONSTANTS Commits,      \* the commits of the remote
          Valid,        \* those whose documents validate
          Descends,     \* <<a, b>>: b descends from a
          RegistryFiles,    \* <<a, b>>: only files of Registry documents differ
          RegistryRecords,  \* <<a, b>>: the records differ, Registry kinds only
          HistoryLimit, \* how many recorded revisions the store hands out
          Fetches,      \* bound: fetch operations at once
          MaxFaults,    \* bound: failed calls and restarts
          None          \* no commit, no operation

ASSUME DesiredSourceAssumption ==
    /\ None \notin Commits \cup Fetches /\ Valid \subseteq Commits
    /\ HistoryLimit \in Nat /\ MaxFaults \in Nat

VARIABLES
    head,       \* the remote's head
    history,    \* source_revision_history, oldest first
    active,     \* source_active_revision
    auto, hold, \* registry.autoActivate and its hold
    fetch,      \* the source.fetch operations
    work,       \* what the holder of the worktree mutex is doing
    roll,       \* a rollback
    poller,     \* where the poller is, and the last fetch it queued
    faults,     \* failures so far
    rolledBack, \* a rollback has switched, and no manual activation since
    overlapped  \* that rollback met a manual activation between its two writes

store == <<history, active, auto, hold>>
ghosts == <<rolledBack, overlapped>>
vars == <<head, store, fetch, work, roll, poller, faults, ghosts>>

-----------------------------------------------------------------------------
InFlight == {"pending", "running"}
WorkPcs == {"free", "clone", "expect", "compare", "cas", "switch",
            "release", "clear"}
Free == [pc |-> "free", op |-> None, commit |-> None, expected |-> None]
NoFetch == [state |-> "none", commit |-> None]
NoRollback == [pc |-> "idle", commit |-> None]

Init ==
    /\ head \in Commits
    /\ history = <<>> /\ active = None /\ auto = TRUE /\ hold = FALSE
    /\ fetch = [f \in Fetches |-> NoFetch]
    /\ work = Free /\ roll = NoRollback
    /\ poller = [pc |-> "tick", last |-> None]
    /\ faults = 0 /\ rolledBack = FALSE /\ overlapped = FALSE

\* prior_revisions: the store hands out the newest rows only.
Known(c) ==
    \E i \in 1 .. Len(history) : i + HistoryLimit > Len(history) /\ history[i] = c

\* The poller alone looks at an operation that has ended.
Ended(f, state) ==
    IF f = poller.last THEN [fetch[f] EXCEPT !.state = state] ELSE NoFetch

Fault == faults < MaxFaults /\ faults' = faults + 1
Goto(pc) == work' = [work EXCEPT !.pc = pc]

\* A fetch operation ends, and its mutex guard is dropped.
Finish(state) ==
    /\ fetch' = [fetch EXCEPT ![work.op] = Ended(work.op, state)]
    /\ work' = Free

-----------------------------------------------------------------------------
(* The poller.                                                             *)

\* fetch_in_flight finds none, whoever may have queued it.
NoneInFlight == \A f \in Fetches : fetch[f].state \notin InFlight

PollLook ==
    /\ poller.pc = "tick" /\ NoneInFlight
    /\ poller' = [poller EXCEPT !.pc = "resolve"]
    /\ UNCHANGED <<head, store, fetch, work, roll, faults, ghosts>>

\* Mutant: a fetch of this head was queued once, whatever came of it.
QueuedOnce == poller.last # None /\ fetch[poller.last].commit = head

CaughtUp ==
    /\ poller.last # None
    /\ fetch[poller.last] = [state |-> "succeeded", commit |-> head]

\* The head is resolved; it is queued unless the last fetch of it succeeded.
PollQueue ==
    /\ poller.pc = "resolve"
    /\ IF CaughtUp
       THEN /\ poller' = [poller EXCEPT !.pc = "tick"]
            /\ UNCHANGED fetch
       ELSE \E f \in Fetches :
            /\ fetch[f].state \notin InFlight
            /\ fetch' = [g \in Fetches |->
                   IF g = f THEN [state |-> "pending", commit |-> head]
                   ELSE IF g = poller.last THEN NoFetch ELSE fetch[g]]
            /\ poller' = [pc |-> "tick", last |-> f]
    /\ UNCHANGED <<head, store, work, roll, faults, ghosts>>

PollFails ==
    /\ poller.pc = "resolve" /\ Fault
    /\ poller' = [poller EXCEPT !.pc = "tick"]
    /\ UNCHANGED <<head, store, fetch, work, roll, ghosts>>

-----------------------------------------------------------------------------
(* source.fetch.                                                           *)

\* Somebody asks for a commit by name.
AskFetch(f, c) ==
    /\ fetch[f].state \notin InFlight /\ poller.last # f
    /\ fetch' = [fetch EXCEPT ![f] = [state |-> "pending", commit |-> c]]
    /\ UNCHANGED <<head, store, work, roll, poller, faults, ghosts>>

FetchStart(f) ==
    /\ fetch[f].state = "pending" /\ work.pc = "free"
    /\ fetch' = [fetch EXCEPT ![f].state = "running"]
    /\ work' = [pc |-> "clone", op |-> f, commit |-> fetch[f].commit,
                expected |-> None]
    /\ UNCHANGED <<head, store, roll, poller, faults, ghosts>>

\* A transport failure, or a store error.
FetchFails ==
    /\ work.pc = "clone" /\ Fault /\ Finish("failed")
    /\ UNCHANGED <<head, store, roll, poller, ghosts>>

\* The commit is cloned, validated and handled, one step since nobody else
\* writes what the clone holds: an invalid candidate is forgotten; a revision
\* recorded before keeps its row, and its place.
FetchRecord ==
    /\ work.pc = "clone"
    /\ IF work.commit \in Valid
       THEN /\ history' = IF Contains(history, work.commit) THEN history
                          ELSE Append(history, work.commit)
            /\ Goto("expect") /\ UNCHANGED fetch
       ELSE Finish("succeeded") /\ UNCHANGED history
    /\ UNCHANGED <<head, active, auto, hold, roll, poller, faults, ghosts>>

-----------------------------------------------------------------------------
(* auto_activate, inside the fetch; a refusal or an error ends the fetch,  *)
(* which has succeeded.                                                    *)

AutoEnds == Finish("succeeded")

\* The settings and the revision the rest is decided against.
AutoExpect ==
    /\ work.pc = "expect"
    /\ IF auto /\ ~hold /\ active \notin {None, work.commit}
       THEN /\ work' = [work EXCEPT !.pc = "compare", !.expected = active]
            /\ UNCHANGED fetch
       ELSE AutoEnds
    /\ UNCHANGED <<head, store, roll, poller, faults, ghosts>>

\* Mutant: the records alone are compared.
QualifiesByRecords ==
    <<active, work.commit>> \in RegistryRecords /\ Known(work.commit)

\* The records are compared with those of the revision that is active by now,
\* the commits with the one expected; activate_as looks at the history again.
Qualifies ==
    /\ <<active, work.commit>> \in RegistryRecords
    /\ <<work.expected, work.commit>> \in Descends \cap RegistryFiles
    /\ Known(work.commit)

AutoCompare ==
    /\ work.pc = "compare"
    /\ IF Qualifies THEN Goto("cas") /\ UNCHANGED fetch ELSE AutoEnds
    /\ UNCHANGED <<head, store, roll, poller, faults, ghosts>>

\* activate_if_active, one transaction.
AutoSwitch ==
    /\ work.pc = "cas" /\ AutoEnds
    /\ active' = IF active = work.expected /\ auto /\ ~hold THEN work.commit
                                                          ELSE active
    /\ UNCHANGED <<head, history, auto, hold, roll, poller, faults, ghosts>>

AutoFails ==
    /\ work.pc \in {"expect", "compare", "cas"} /\ Fault /\ AutoEnds
    /\ UNCHANGED <<head, store, roll, poller, ghosts>>

-----------------------------------------------------------------------------
(* source.activate.                                                        *)

\* The candidate's directory is there and still validates, and the revision is
\* recorded.
ActivateStart(c) ==
    /\ work.pc = "free"
    /\ c \in Valid /\ Known(c)
    /\ work' = [Free EXCEPT !.pc = "switch", !.commit = c]
    /\ UNCHANGED <<head, store, fetch, roll, poller, faults, ghosts>>

ActivateSwitch ==
    /\ work.pc = "switch" /\ work' = [Free EXCEPT !.pc = "release"]
    /\ active' = work.commit
    /\ rolledBack' = FALSE /\ overlapped' = (roll.pc = "switch")
    /\ UNCHANGED <<head, history, auto, hold, fetch, roll, poller, faults>>

\* release_hold reads the hold, and writes it in a later statement.
ActivateRelease ==
    /\ work.pc = "release"
    /\ IF hold THEN Goto("clear") ELSE work' = Free
    /\ UNCHANGED <<head, store, fetch, roll, poller, faults, ghosts>>

ActivateClear ==
    /\ work.pc = "clear" /\ work' = Free
    /\ hold' = FALSE
    /\ UNCHANGED <<head, history, active, auto, fetch, roll, poller,
                   faults, ghosts>>

ActivateFails ==
    /\ work.pc \in {"switch", "release", "clear"} /\ Fault /\ work' = Free
    /\ UNCHANGED <<head, store, fetch, roll, poller, ghosts>>

-----------------------------------------------------------------------------
(* source.rollback, which needs no worktree and no mutex.                  *)

\* Mutant: the hold is not there when the switch is made.
RollbackStartUnheld(c) ==
    /\ roll.pc = "idle" /\ Known(c)
    /\ roll' = [pc |-> "switch", commit |-> c]
    /\ UNCHANGED <<head, store, fetch, work, poller, faults, ghosts>>

RollbackStart(c) ==
    /\ roll.pc = "idle" /\ Known(c)
    /\ roll' = [pc |-> "hold", commit |-> c]
    /\ UNCHANGED <<head, store, fetch, work, poller, faults, ghosts>>

RollbackHold ==
    /\ roll.pc = "hold" /\ roll' = [roll EXCEPT !.pc = "switch"]
    /\ hold' = TRUE
    /\ overlapped' = (work.pc \in {"release", "clear"})
    /\ UNCHANGED <<head, history, active, auto, fetch, work, poller,
                   faults, rolledBack>>

RollbackSwitch ==
    /\ roll.pc = "switch" /\ roll' = NoRollback
    /\ active' = roll.commit /\ rolledBack' = TRUE
    /\ UNCHANGED <<head, history, auto, hold, fetch, work, poller,
                   faults, overlapped>>

RollbackFails ==
    /\ roll.pc # "idle" /\ Fault /\ roll' = NoRollback
    /\ UNCHANGED <<head, store, fetch, work, poller, ghosts>>

-----------------------------------------------------------------------------
\* registry.autoActivate is changed.
UpdateSettings ==
    /\ auto' = ~auto
    /\ UNCHANGED <<head, history, active, hold, fetch, work, roll,
                   poller, faults, ghosts>>

\* Somebody pushes, or forces the branch back.
Push ==
    /\ head' \in Commits \ {head}
    /\ UNCHANGED <<store, fetch, work, roll, poller, faults, ghosts>>

\* The controller restarts: what was claimed fails, what was only queued is run
\* later, and the poller has forgotten its last fetch.
Restart ==
    /\ Fault
    /\ \E waiting \in SUBSET {f \in Fetches : fetch[f].state = "pending"} :
          fetch' = [f \in Fetches |-> IF f \in waiting THEN fetch[f] ELSE NoFetch]
    /\ work' = Free /\ roll' = NoRollback
    /\ poller' = [pc |-> "tick", last |-> None]
    /\ UNCHANGED <<head, store, ghosts>>

-----------------------------------------------------------------------------
Poll == PollLook \/ PollQueue
Working ==
    \/ FetchRecord \/ AutoExpect \/ AutoCompare \/ AutoSwitch
    \/ ActivateSwitch \/ ActivateRelease \/ ActivateClear
Rolling == RollbackHold \/ RollbackSwitch

Asked ==
    \/ \E f \in Fetches, c \in Commits : AskFetch(f, c)
    \/ \E c \in Commits : ActivateStart(c) \/ RollbackStart(c)
    \/ UpdateSettings \/ Push

Failing ==
    \/ PollFails \/ FetchFails \/ AutoFails \/ ActivateFails \/ RollbackFails
    \/ Restart

Next ==
    \/ Poll \/ Working \/ Rolling \/ Asked \/ Failing
    \/ \E f \in Fetches : FetchStart(f)

Spec == Init /\ [][Next]_vars
=============================================================================
