------------------------- MODULE DesiredSourceProofs -------------------------
(***************************************************************************)
(* Auto-activation only moves forward, and a rollback holds, for any       *)
(* remote, any number of fetches and any number of failures.               *)
(***************************************************************************)
EXTENDS DesiredSourceProps, TLAPS

\* What is about to be compared and set was compared.
Compared ==
    work.pc = "cas" =>
        <<work.expected, work.commit>> \in Descends \cap RegistryFiles

\* The hold is there and nobody is about to clear it, from the write of the
\* hold to the next manual activation.
Held ==
    ~overlapped /\ (rolledBack \/ roll.pc = "switch") =>
        hold /\ work.pc \notin {"release", "clear"}

IInv == TypeOK /\ Compared /\ Held

\* The free mutex has a row.
LEMMA FreeType == Free \in WorkRows
BY DEF Free, WorkRows, WorkPcs

\* The end of a fetch leaves rows.
LEMMA FinishType ==
    ASSUME TypeOK, NEW x \in {"succeeded", "failed"}, Finish(x)
    PROVE  fetch' \in [Fetches -> FetchRows] /\ work' \in WorkRows
<1>1. \A f \in Fetches : Ended(f, x) \in FetchRows
  BY DEF TypeOK, FetchRows, Ended, NoFetch
<1>2. QED
  BY <1>1, FreeType DEF TypeOK, Finish

\* Moving on leaves a row of the mutex's holder.
LEMMA GotoType ==
    ASSUME TypeOK, NEW pc \in WorkPcs, Goto(pc)
    PROVE  work' \in WorkRows
BY DEF TypeOK, Goto, WorkRows

\* A failure leaves the count within its bound.
LEMMA FaultType ==
    ASSUME TypeOK, Fault
    PROVE  faults' \in 0 .. MaxFaults
BY DesiredSourceAssumption DEF TypeOK, Fault

LEMMA InitIInv == Init => IInv
<1> SUFFICES ASSUME Init PROVE IInv
  OBVIOUS
<1>1. NoFetch \in FetchRows
  BY DEF NoFetch, FetchRows
<1>2. head \in Commits /\ history \in Seq(Valid)
  BY DEF Init
<1>3. faults \in 0 .. MaxFaults
  BY DesiredSourceAssumption DEF Init
<1>4. TypeOK
  BY <1>1, <1>2, <1>3, FreeType DEF Init, TypeOK, NoRollback
<1>5. Compared /\ Held
  BY DEF Init, Compared, Held, Free, NoRollback
<1>6. QED
  BY <1>4, <1>5 DEF IInv

\* Every action keeps the types.
LEMMA StepTypeOK == TypeOK /\ [Next]_vars => TypeOK'
<1> SUFFICES ASSUME TypeOK, [Next]_vars PROVE TypeOK'
  OBVIOUS
<1> USE DEF store, ghosts
<1>1. CASE PollLook
  BY <1>1 DEF PollLook, TypeOK
<1>2. CASE PollQueue
  <2>1. NoFetch \in FetchRows
        /\ [state |-> "pending", commit |-> head] \in FetchRows
    BY DEF TypeOK, NoFetch, FetchRows, InFlight
  <2>2. QED
    BY <1>2, <2>1 DEF PollQueue, TypeOK
<1>3. CASE PollFails
  BY <1>3, FaultType DEF PollFails, TypeOK
<1>4. CASE FetchRecord
  <2>1. CASE work.commit \in Valid
    <3>1. work' \in WorkRows
      BY <1>4, <2>1, GotoType DEF FetchRecord, WorkPcs
    <3>2. history' \in Seq(Valid)
      BY <1>4, <2>1 DEF FetchRecord, TypeOK
    <3>3. QED
      BY <1>4, <2>1, <3>1, <3>2 DEF FetchRecord, TypeOK
  <2>2. CASE work.commit \notin Valid
    BY <1>4, <2>2, FinishType DEF FetchRecord, TypeOK
  <2>3. QED
    BY <2>1, <2>2
<1>5. CASE AutoExpect
  <2>1. CASE auto /\ ~hold /\ active \notin {None, work.commit}
    BY <1>5, <2>1 DEF AutoExpect, TypeOK, WorkRows, WorkPcs
  <2>2. CASE ~(auto /\ ~hold /\ active \notin {None, work.commit})
    <3>1. Finish("succeeded")
      BY <1>5, <2>2 DEF AutoExpect, AutoEnds
    <3>2. QED
      BY <1>5, <3>1, FinishType DEF AutoExpect, TypeOK
  <2>3. QED
    BY <2>1, <2>2
<1>6. CASE AutoCompare
  <2>1. CASE Qualifies
    BY <1>6, <2>1, GotoType DEF AutoCompare, TypeOK, WorkPcs
  <2>2. CASE ~Qualifies
    BY <1>6, <2>2, FinishType DEF AutoCompare, AutoEnds, TypeOK
  <2>3. QED
    BY <2>1, <2>2
<1>7. CASE AutoSwitch
  <2>1. active' \in Commits \cup {None}
    BY <1>7 DEF AutoSwitch, TypeOK, WorkRows
  <2>2. QED
    BY <1>7, <2>1, FinishType DEF AutoSwitch, AutoEnds, TypeOK
<1>8. CASE ActivateSwitch
  <2>1. work' \in WorkRows /\ active' \in Commits \cup {None}
    BY <1>8, FreeType DEF ActivateSwitch, Free, TypeOK, WorkRows, WorkPcs
  <2>2. rolledBack' \in BOOLEAN /\ overlapped' \in BOOLEAN
    BY <1>8, Zenon DEF ActivateSwitch
  <2>3. QED
    BY <1>8, <2>1, <2>2 DEF ActivateSwitch, TypeOK
<1>9. CASE ActivateRelease \/ ActivateClear
  <2>1. work' \in WorkRows
    BY <1>9, FreeType, GotoType DEF ActivateRelease, ActivateClear, WorkPcs
  <2>2. QED
    BY <1>9, <2>1 DEF ActivateRelease, ActivateClear, TypeOK
<1>10. CASE RollbackHold
  <2>1. overlapped' \in BOOLEAN
    <3>1. overlapped' = (work.pc \in {"release", "clear"})
      BY <1>10, Zenon DEF RollbackHold
    <3>2. (work.pc \in {"release", "clear"}) \in BOOLEAN
      OBVIOUS
    <3>3. QED
      BY <3>1, <3>2, Zenon
  <2>2. QED
    BY <1>10, <2>1 DEF RollbackHold, TypeOK
<1>11. CASE RollbackSwitch
  BY <1>11 DEF RollbackSwitch, NoRollback, TypeOK
<1>12. ASSUME NEW f \in Fetches, NEW c \in Commits, AskFetch(f, c)
       PROVE  TypeOK'
  BY <1>12 DEF AskFetch, TypeOK, FetchRows, InFlight
<1>13. ASSUME NEW c \in Commits, ActivateStart(c)
       PROVE  TypeOK'
  <2>1. work' \in WorkRows
    BY <1>13, FreeType DEF ActivateStart, WorkRows, WorkPcs
  <2>2. QED
    BY <1>13, <2>1 DEF ActivateStart, TypeOK
<1>14. ASSUME NEW c \in Commits, RollbackStart(c)
       PROVE  TypeOK'
  BY <1>14 DEF RollbackStart, TypeOK
<1>15. CASE UpdateSettings \/ Push
  BY <1>15 DEF UpdateSettings, Push, TypeOK
<1>16. CASE FetchFails
  BY <1>16, FinishType, FaultType DEF FetchFails, TypeOK
<1>17. CASE AutoFails
  BY <1>17, FinishType, FaultType DEF AutoFails, AutoEnds, TypeOK
<1>18. CASE ActivateFails \/ RollbackFails
  BY <1>18, FaultType
     DEF ActivateFails, RollbackFails, Free, NoRollback, TypeOK, WorkRows, WorkPcs
<1>19. CASE Restart
  BY <1>19, FaultType
     DEF Restart, Free, NoRollback, NoFetch, TypeOK, WorkRows, WorkPcs, FetchRows
<1>20. ASSUME NEW f \in Fetches, FetchStart(f) PROVE TypeOK'
  BY <1>20 DEF FetchStart, TypeOK, FetchRows, WorkRows, WorkPcs, InFlight
<1>21. CASE UNCHANGED vars
  BY <1>21 DEF vars, TypeOK
<1>22. QED
  BY <1>1, <1>2, <1>3, <1>4, <1>5, <1>6, <1>7, <1>8, <1>10, <1>12, <1>13,
     <1>15, <1>16, <1>17, <1>18, <1>19, <1>20, <1>21, <1>9, <1>11, <1>14
     DEF Next, Poll, Working, Rolling, Asked, Failing

\* Every action keeps the comparison for the step that relies on it.
LEMMA StepCompared == TypeOK /\ Compared /\ [Next]_vars => Compared'
<1> SUFFICES ASSUME TypeOK, Compared, [Next]_vars PROVE Compared'
  OBVIOUS
<1> USE DEF Compared
<1>1. ASSUME work' = work \/ work' = Free PROVE Compared'
  BY <1>1 DEF Free
<1>2. CASE FetchRecord
  BY <1>2 DEF FetchRecord, Finish, Goto, Free, TypeOK, WorkRows
<1>3. CASE AutoExpect
  <2>1. CASE work' = [work EXCEPT !.pc = "compare", !.expected = active]
    BY <2>1 DEF TypeOK, WorkRows
  <2>2. QED
    BY <1>1, <1>3, <2>1 DEF AutoExpect, AutoEnds, Finish
<1>4. CASE AutoCompare
  <2>1. CASE Qualifies
    <3>1. work' = [work EXCEPT !.pc = "cas"]
      BY <1>4, <2>1 DEF AutoCompare, Goto
    <3>2. work'.expected = work.expected /\ work'.commit = work.commit
      BY <3>1 DEF TypeOK, WorkRows
    <3>3. QED
      BY <2>1, <3>2 DEF Qualifies
  <2>2. CASE ~Qualifies
    BY <1>1, <1>4, <2>2 DEF AutoCompare, AutoEnds, Finish
  <2>3. QED
    BY <2>1, <2>2
<1>5. CASE ActivateSwitch
  BY <1>5 DEF ActivateSwitch, Free
<1>6. CASE ActivateRelease
  BY <1>6 DEF ActivateRelease, Goto, Free, TypeOK, WorkRows
<1>7. ASSUME NEW c \in Commits, ActivateStart(c) PROVE Compared'
  BY <1>7 DEF ActivateStart, Free
<1>8. ASSUME NEW f \in Fetches, FetchStart(f) PROVE Compared'
  BY <1>8 DEF FetchStart
<1>9. CASE AutoSwitch \/ AutoFails \/ FetchFails \/ ActivateClear
             \/ ActivateFails \/ Restart
  BY <1>1, <1>9
     DEF AutoSwitch, AutoFails, FetchFails, ActivateClear, ActivateFails,
         Restart, AutoEnds, Finish
<1>10. QED
  BY <1>1, <1>2, <1>3, <1>4, <1>5, <1>6, <1>7, <1>8, <1>9
     DEF Next, Poll, PollLook, PollQueue, PollFails, Working, Rolling,
         RollbackHold, RollbackSwitch, RollbackFails, Asked, AskFetch,
         RollbackStart, UpdateSettings, Push, Failing, vars

\* Every action keeps the hold of a rollback, or a person activates.
LEMMA StepHeld == TypeOK /\ Held /\ [Next]_vars => Held'
<1> SUFFICES ASSUME TypeOK, Held, [Next]_vars PROVE Held'
  OBVIOUS
<1> USE DEF store, ghosts, TypeOK, WorkRows, Held
<1>1. CASE PollLook \/ PollQueue \/ PollFails
  BY <1>1 DEF PollLook, PollQueue, PollFails
<1>2. CASE FetchRecord \/ AutoExpect \/ AutoCompare
  BY <1>2 DEF FetchRecord, AutoExpect, AutoCompare, AutoEnds, Finish, Goto, Free
<1>3. CASE AutoSwitch \/ AutoFails \/ FetchFails
  BY <1>3 DEF AutoSwitch, AutoFails, FetchFails, AutoEnds, Finish, Free
<1>4. CASE ActivateSwitch
  BY <1>4 DEF ActivateSwitch, Free
<1>5. CASE ActivateRelease \/ ActivateClear \/ ActivateFails
  BY <1>5 DEF ActivateRelease, ActivateClear, ActivateFails, Goto, Free
<1>6. CASE RollbackHold
  BY <1>6 DEF RollbackHold
<1>7. CASE RollbackSwitch \/ RollbackFails
  BY <1>7 DEF RollbackSwitch, RollbackFails, NoRollback
<1>8. ASSUME NEW f \in Fetches, NEW c \in Commits, AskFetch(f, c)
      PROVE  Held'
  BY <1>8 DEF AskFetch
<1>9. ASSUME NEW c \in Commits, ActivateStart(c) PROVE Held'
  BY <1>9 DEF ActivateStart, Free
<1>13. ASSUME NEW c \in Commits, RollbackStart(c) PROVE Held'
  BY <1>13 DEF RollbackStart
<1>10. CASE UpdateSettings \/ Push \/ Restart
  BY <1>10 DEF UpdateSettings, Push, Restart, Free, NoRollback
<1>11. ASSUME NEW f \in Fetches, FetchStart(f) PROVE Held'
  BY <1>11 DEF FetchStart
<1>12. CASE UNCHANGED vars
  BY <1>12 DEF vars
<1>14. QED
  BY <1>1, <1>2, <1>3, <1>4, <1>5, <1>6, <1>7, <1>8, <1>9, <1>10, <1>11,
     <1>12, <1>13
     DEF Next, Poll, Working, Rolling, Asked, Failing

\* The invariant the theorems rest on.
THEOREM Inductive == Spec => []IInv
<1>1. IInv /\ [Next]_vars => IInv'
  BY StepTypeOK, StepCompared, StepHeld DEF IInv
<1>2. QED
  BY InitIInv, <1>1, PTL DEF Spec

\* Every variable of the desired source stays in its range.
THEOREM TypeCorrect == Spec => []TypeOK
<1>1. IInv => TypeOK
  BY DEF IInv
<1>2. QED
  BY <1>1, Inductive, PTL

\* Only the compare-and-set of a fetch is an activation nobody asked for.
LEMMA OnlySwitch ==
    ASSUME TypeOK, [Next]_vars, AutoActivates
    PROVE  AutoSwitch
<1> USE DEF AutoActivates, store
<1>1. \/ AutoSwitch \/ ActivateSwitch \/ RollbackSwitch
  BY DEF Next, Poll, PollLook, PollQueue, PollFails, Working, FetchRecord,
         AutoExpect, AutoCompare, AutoFails, ActivateRelease, ActivateClear,
         ActivateFails, Rolling, RollbackHold, RollbackFails, Asked, AskFetch,
         ActivateStart, RollbackStart, UpdateSettings, Push, Failing, FetchFails,
         Restart, FetchStart, vars
<1>2. QED
  BY <1>1 DEF ActivateSwitch, RollbackSwitch

\* The controller by itself only moves to a descendant of what is active that
\* changes nothing but the Registry.
THEOREM MovesForward == Spec => AutoMovesForward
<1>1. IInv /\ [Next]_vars =>
          [AutoActivates =>
             auto /\ <<active, active'>> \in Descends \cap RegistryFiles]_vars
  BY OnlySwitch DEF IInv, Compared, AutoSwitch, AutoActivates
<1>2. QED
  BY <1>1, Inductive, PTL DEF Spec, AutoMovesForward

\* After a rollback the controller activates nothing by itself.
THEOREM RollbackLasts == Spec => RollbackHolds
<1>1. IInv /\ [Next]_vars => [AutoActivates => ~rolledBack \/ overlapped]_vars
  BY OnlySwitch DEF IInv, Held, AutoSwitch, AutoActivates
<1>2. QED
  BY <1>1, Inductive, PTL DEF Spec, RollbackHolds
=============================================================================
