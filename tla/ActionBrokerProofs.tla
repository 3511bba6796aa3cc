------------------------- MODULE ActionBrokerProofs -------------------------
(***************************************************************************)
(* Machine-checked proofs about the action broker, for any number of       *)
(* requests, calls and approvers, any quota, grace, lifetime and number of *)
(* restarts.                                                               *)
(*                                                                         *)
(* A call works on what it read earlier. What keeps it from acting wrongly *)
(* is that a row only advances: the inductive invariant says, per place a  *)
(* call can be, which advances have already happened for good.             *)
(***************************************************************************)
EXTENDS ActionBrokerProps, FiniteSetTheorems, TLAPS

\* The states of a request that was approved, whatever came of it.
Begun == {"approved", "executing", "succeeded", "failed"}

\* What the process's policy and permissions let start.
MayOpen(r) ==
    /\ policy # "deny" /\ mayAsk
    /\ IF decidedBy[r] = PolicyAuto THEN policy # "approve" ELSE decidedBy[r] \in mayApprove

\* An operation belongs to an approved request, and a running request has one.
RowInv ==
    \A r \in Requests :
        /\ state[r] \in {"absent", "pending"} => decidedBy[r] = NoOne
        /\ op[r] # "none" => state[r] \in Begun
        /\ state[r] \in {"executing", "succeeded"} => op[r] # "none"

\* What a call has established by the time it is where it is.
Sound(c) ==
    /\ ~Busy(c, "idle") => (call[c].what \in {"approve", "deny"} => call[c].who \in Approvers)
    /\ Busy(c, "decide") => call[c].who \in Approvers
    /\ call[c].pc \in {"load", "made", "expire", "decide", "policy_deny"}
          => state[Req(c)] # "absent"
    /\ call[c].pc \in {"find", "recount", "open", "link", "fail"} => state[Req(c)] \in Begun
    /\ Busy(c, "recount") => policy # "deny" /\ mayAsk /\ decidedBy[Req(c)] = PolicyAuto
    /\ Busy(c, "open") => op[Req(c)] # "none" \/ MayOpen(Req(c))
    /\ Busy(c, "link") => op[Req(c)] # "none"

CallInv == \A c \in Calls : Sound(c)

IInv == TypeOK /\ RowInv /\ CallInv

\* A row only advances: it is decided once, and what has begun stays begun.
Advance ==
    \A r \in Requests :
        /\ state[r] # "absent" => state'[r] # "absent"
        /\ state[r] \in Begun => state'[r] \in Begun /\ decidedBy'[r] = decidedBy[r]
        /\ op[r] # "none" => op'[r] # "none"

-----------------------------------------------------------------------------
USE DEF config, columns

\* A broker that starts over an empty table satisfies the invariant.
LEMMA InitIInv == Init => IInv
BY BrokerAssumption
   DEF Init, IInv, TypeOK, RowInv, CallInv, Sound, Busy, Idle, Policies, RowState,
       RequestState, OpState, NoOne, Never, Deciders

\* A call that is somewhere holds all its locals.
LEMMA BusyCall ==
    ASSUME TypeOK, NEW c \in Calls, call[c].pc # "idle"
    PROVE  call[c] \in CallLocals
BY DEF TypeOK, Idle

\* A call that goes on keeps its locals, and no other call moves.
LEMMA GoCall ==
    ASSUME TypeOK, NEW c \in Calls, call[c].pc # "idle", NEW p \in Pcs \ {"idle"}, Go(c, p)
    PROVE  /\ call' \in [Calls -> {Idle} \cup CallLocals]
           /\ call'[c].pc = p /\ call'[c].what = call[c].what
           /\ call'[c].req = call[c].req /\ call'[c].who = call[c].who
           /\ \A d \in Calls \ {c} : call'[d] = call[d]
<1>1. call[c] \in CallLocals
  BY BusyCall
<1>2. call' = [call EXCEPT ![c] = [call[c] EXCEPT !.pc = p]]
  BY DEF Go
<1>3. [call[c] EXCEPT !.pc = p] \in CallLocals
  BY <1>1 DEF CallLocals
<1> QED
  BY <1>1, <1>2, <1>3 DEF TypeOK, CallLocals

\* A call that returns forgets its locals, and no other call moves.
LEMMA ReturnCall ==
    ASSUME TypeOK, NEW c \in Calls, Return(c)
    PROVE  /\ call' \in [Calls -> {Idle} \cup CallLocals]
           /\ call'[c] = Idle /\ call'[c].pc = "idle"
           /\ \A d \in Calls \ {c} : call'[d] = call[d]
BY DEF TypeOK, Return, Idle

\* Where `reconcile` sends a call.
LEMMA DuePlaces ==
    ASSUME NEW r \in Requests, NEW t
    PROVE  /\ Due(r, t) \in {"expire", "find", "operation", "idle"}
           /\ Due(r, t) = "find" => state[r] = "approved"
           /\ Due(r, t) = "expire" => state[r] = "pending"
BY DEF Due

\* One statement of the count leaves the call counting, or with its answer.
LEMMA TallyCall ==
    ASSUME NEW k \in CallLocals, k.pc \in {"count", "recount"}, NEW live \in Nat
    PROVE  /\ Tally(k, live) \in CallLocals
           /\ Tally(k, live).what = k.what
           /\ Tally(k, live).req = k.req /\ Tally(k, live).who = k.who
           /\ Tally(k, live).pc \in {k.pc} \cup
                (IF k.pc = "count" THEN {"insert"} ELSE {"open", "fail"})
           /\ (k.pc = "recount" /\ Tally(k, live).pc = "open")
                => policy \in {"unset", "auto"}
<1> DEFINE next == Tally(k, live)
<1>1. k.pc \in Pcs \ {"idle"} /\ k.step \in 1 .. 4
  BY DEF CallLocals
<1>2. CASE k.step < 4
  <2>1. next = [k EXCEPT !.step = k.step + 1, !.live = live]
    BY <1>2 DEF Tally
  <2>2. k.step + 1 \in 1 .. 4
    BY <1>1, <1>2
  <2>3. next \in CallLocals
    BY <2>1, <2>2 DEF CallLocals
  <2>4. next.pc = k.pc /\ next.what = k.what /\ next.req = k.req /\ next.who = k.who
    BY <2>1 DEF CallLocals
  <2> HIDE DEF next
  <2> QED
    BY <2>3, <2>4 DEF next
<1>3. CASE ~(k.step < 4) /\ k.pc = "count"
  <2>1. next = [k EXCEPT !.pc = "insert", !.step = 1, !.live = 0, !.auto = RunsAtOnce(live)]
    BY <1>3 DEF Tally
  <2>2. RunsAtOnce(live) \in BOOLEAN /\ "insert" \in Pcs \ {"idle"} /\ 1 \in 1 .. 4 /\ 0 \in Nat
    BY DEF RunsAtOnce, Pcs
  <2>3. next \in CallLocals
    BY <2>1, <2>2 DEF CallLocals
  <2>4. next.pc = "insert" /\ next.what = k.what /\ next.req = k.req /\ next.who = k.who
    BY <2>1 DEF CallLocals
  <2> HIDE DEF next
  <2> QED
    BY <1>3, <2>3, <2>4 DEF next
<1>4. CASE ~(k.step < 4) /\ k.pc = "recount"
  <2> DEFINE p == IF RunsAtOnce(live) THEN "open" ELSE "fail"
  <2>1. next = [k EXCEPT !.pc = p, !.step = 1, !.live = 0]
    BY <1>4 DEF Tally
  <2>2. p \in {"open", "fail"} /\ (p = "open" => policy \in {"unset", "auto"})
    BY DEF RunsAtOnce
  <2> HIDE DEF p
  <2>3. p \in Pcs \ {"idle"} /\ 1 \in 1 .. 4 /\ 0 \in Nat
    BY <2>2 DEF Pcs
  <2>4. next \in CallLocals
    BY <2>1, <2>3 DEF CallLocals
  <2>5. next.pc = p /\ next.what = k.what /\ next.req = k.req /\ next.who = k.who
    BY <2>1 DEF CallLocals
  <2> HIDE DEF next
  <2> QED
    BY <1>4, <2>2, <2>4, <2>5 DEF next
<1> QED
  BY <1>2, <1>3, <1>4

\* So does the step that runs it, and no other call moves.
LEMMA CountCall ==
    ASSUME TypeOK, NEW c \in Calls, Count(c)
    PROVE  /\ call' \in [Calls -> {Idle} \cup CallLocals]
           /\ call'[c].what = call[c].what
           /\ call'[c].req = call[c].req /\ call'[c].who = call[c].who
           /\ \A d \in Calls \ {c} : call'[d] = call[d]
           /\ call'[c].pc \in {call[c].pc} \cup
                (IF call[c].pc = "count" THEN {"insert"} ELSE {"open", "fail"})
           /\ (call[c].pc = "recount" /\ call'[c].pc = "open")
                => policy \in {"unset", "auto"}
<1>1. call[c].pc \in {"count", "recount"} /\ call[c] \in CallLocals
  BY BusyCall DEF Count, Busy
<1>2. PICK t \in At(c) .. now :
         call' = [call EXCEPT ![c] =
                     Tally(call[c], call[c].live + Cardinality(Counted(c, t)))]
  BY DEF Count
<1>3. call[c].live + Cardinality(Counted(c, t)) \in Nat
  <2>1. Counted(c, t) \subseteq Requests
    BY DEF Counted
  <2>2. Cardinality(Counted(c, t)) \in Nat
    BY <2>1, BrokerAssumption, FS_Subset, FS_CardinalityType
  <2> QED
    BY <1>1, <2>2 DEF CallLocals
<1> DEFINE next == Tally(call[c], call[c].live + Cardinality(Counted(c, t)))
<1>4. /\ next \in CallLocals /\ next.what = call[c].what
      /\ next.req = call[c].req /\ next.who = call[c].who
      /\ next.pc \in {call[c].pc} \cup
           (IF call[c].pc = "count" THEN {"insert"} ELSE {"open", "fail"})
      /\ (call[c].pc = "recount" /\ next.pc = "open") => policy \in {"unset", "auto"}
  BY <1>1, <1>3, TallyCall
<1>5. call' = [call EXCEPT ![c] = next]
  BY <1>2
<1> HIDE DEF next
<1> QED
  BY <1>4, <1>5 DEF TypeOK

-----------------------------------------------------------------------------
(* What each kind of statement does to the calls and to the rows.          *)

\* Call c is at p next, with the locals it had unless it is over.
Moves(c, p) ==
    /\ call' \in [Calls -> {Idle} \cup CallLocals]
    /\ call'[c].pc = p
    /\ p # "idle" => /\ call'[c].what = call[c].what
                     /\ call'[c].req = call[c].req /\ call'[c].who = call[c].who
    /\ \A d \in Calls \ {c} : call'[d] = call[d]

\* Both ways a call may leave a statement.
LEMMA MoveCall ==
    ASSUME TypeOK, NEW c \in Calls, call[c].pc # "idle", NEW p \in Pcs
    PROVE  /\ Go(c, p) /\ p # "idle" => Moves(c, p)
           /\ Return(c) => Moves(c, "idle")
           /\ Resume(c, p) => Moves(c, p)
<1>1. Go(c, p) /\ p # "idle" => Moves(c, p)
  BY GoCall DEF Moves
<1>2. Return(c) => Moves(c, "idle")
  BY ReturnCall DEF Moves
<1> QED
  BY <1>1, <1>2 DEF Resume

\* What a compare-and-set leaves of request r, and that it names r alone.
Sets(r, from, to, by) ==
    /\ state' \in [Requests -> RowState]
    /\ decidedBy' \in [Requests -> Deciders \cup {NoOne}]
    /\ decidedAt' \in [Requests -> (0 .. MaxTime) \cup {Never}]
    /\ \A q \in Requests \ {r} : state'[q] = state[q] /\ decidedBy'[q] = decidedBy[q]
    /\ state[r] = from => /\ state'[r] = to
                          /\ decidedBy'[r] = IF by = NoOne THEN decidedBy[r] ELSE by
    /\ state[r] # from => state'[r] = state[r] /\ decidedBy'[r] = decidedBy[r]

\* The store's transition does just that.
LEMMA TransitionSets ==
    ASSUME TypeOK, NEW r \in Requests, NEW from, NEW to \in RowState,
           NEW by \in Deciders \cup {NoOne}, NEW t \in 0 .. MaxTime,
           Transition(r, from, to, by, t)
    PROVE  Sets(r, from, to, by)
<1>1. CASE state[r] = from
  BY <1>1 DEF Transition, TypeOK, Sets
<1>2. CASE state[r] # from
  BY <1>2 DEF Transition, TypeOK, Sets
<1> QED
  BY <1>1, <1>2

\* A call that ends with a transition changes nothing else.
LEMMA SettleCall ==
    ASSUME TypeOK, NEW c \in Calls, call[c].pc # "idle", NEW from, NEW to \in RowState,
           NEW by \in Deciders \cup {NoOne}, Settle(c, from, to, by)
    PROVE  /\ Sets(call[c].req, from, to, by) /\ Moves(c, "idle")
           /\ TypeOK' /\ UNCHANGED <<config, op>>
<1>1. call[c] \in CallLocals
  BY BusyCall
<1>2. call[c].req \in Requests /\ call[c].at \in 0 .. MaxTime
  BY <1>1 DEF CallLocals
<1>3. Sets(call[c].req, from, to, by)
  BY <1>2, TransitionSets DEF Settle, Req, At
<1>4. Moves(c, "idle")
  BY MoveCall DEF Settle, Pcs
<1> QED
  BY <1>3, <1>4 DEF Settle, Sets, Moves, TypeOK

\* The transitions the broker makes keep the rows in order.
LEMMA SetsAdvance ==
    ASSUME TypeOK, RowInv, NEW r \in Requests, NEW from, NEW to, NEW by,
           Sets(r, from, to, by), UNCHANGED op,
           \/ from = "pending" /\ to \in {"approved", "denied", "expired"}
           \/ from = "approved" /\ to = "failed" /\ by = NoOne
           \/ from = "approved" /\ to = "executing" /\ by = NoOne /\ op[r] # "none"
           \/ from = "executing" /\ to \in {"succeeded", "failed"} /\ by = NoOne
    PROVE  RowInv' /\ Advance
<1>1. CASE state[r] = from
  BY <1>1 DEF Sets, RowInv, Advance, Begun
<1>2. CASE state[r] # from
  BY <1>2 DEF Sets, RowInv, Advance, Begun
<1> QED
  BY <1>1, <1>2

\* A statement that only reads leaves the rows as they are.
LEMMA ReadAdvance ==
    ASSUME RowInv, UNCHANGED <<columns, op>>
    PROVE  RowInv' /\ Advance
BY DEF RowInv, Advance, Begun

\* What a statement of call c keeps: the invariant of the rows, and its own.
Kept(c) ==
    /\ TypeOK' /\ RowInv' /\ Advance /\ Sound(c)' /\ UNCHANGED config
    /\ \A d \in Calls \ {c} : call'[d] = call[d]

\* A call that is over claims nothing.
LEMMA OverKept ==
    ASSUME NEW c \in Calls, Moves(c, "idle"), TypeOK', RowInv', Advance, UNCHANGED config
    PROVE  Kept(c)
BY DEF Moves, Kept, Sound, Busy

\* The same, for the calls that end with a transition.
LEMMA SettleKept ==
    ASSUME TypeOK, RowInv, NEW c \in Calls, call[c].pc # "idle",
           NEW from, NEW to \in RowState, NEW by \in Deciders \cup {NoOne},
           Settle(c, from, to, by),
           \/ from = "pending" /\ to \in {"approved", "denied", "expired"}
           \/ from = "approved" /\ to = "failed" /\ by = NoOne
           \/ from = "executing" /\ to \in {"succeeded", "failed"} /\ by = NoOne
    PROVE  Kept(c)
<1>1. call[c].req \in Requests
  BY BusyCall DEF CallLocals
<1>2. /\ Sets(call[c].req, from, to, by) /\ Moves(c, "idle")
      /\ TypeOK' /\ UNCHANGED <<config, op>>
  BY SettleCall
<1>3. RowInv' /\ Advance
  BY <1>1, <1>2, SetsAdvance
<1> QED
  BY <1>2, <1>3, OverKept

\* A call that reads and goes on to p, where it must be sound.
LEMMA ReadKept ==
    ASSUME TypeOK, RowInv, NEW c \in Calls, Sound(c), call[c].pc # "idle", NEW p \in Pcs,
           Moves(c, p), UNCHANGED <<now, boot, config, columns, op>>,
           LET r == call[c].req IN
           /\ p = "decide" => call[c].who \in Approvers
           /\ p \in {"load", "made", "expire", "decide", "policy_deny"} => state[r] # "absent"
           /\ p \in {"find", "recount", "open", "link", "fail"} => state[r] \in Begun
           /\ p = "recount" => policy # "deny" /\ mayAsk /\ decidedBy[r] = PolicyAuto
           /\ p = "open" => op[r] # "none" \/ MayOpen(r)
           /\ p = "link" => op[r] # "none"
    PROVE  Kept(c)
<1>1. RowInv' /\ Advance
  BY ReadAdvance
<1>2. TypeOK'
  BY DEF TypeOK, Moves
<1>3. CASE p = "idle"
  BY <1>1, <1>2, <1>3, OverKept
<1>4. CASE p # "idle"
  <2>1. /\ call'[c].pc = p /\ call'[c].what = call[c].what
        /\ call'[c].req = call[c].req /\ call'[c].who = call[c].who
    BY <1>4 DEF Moves
  <2>2. Sound(c)'
    BY <2>1 DEF Sound, Busy, Req, MayOpen
  <2> QED
    BY <1>1, <1>2, <2>2 DEF Kept, Moves
<1> QED
  BY <1>3, <1>4

-----------------------------------------------------------------------------
(* Every statement of a call keeps the invariant.                          *)

\* Whatever statement it is, the call had established what it relies on.
LEMMA CallStepKept ==
    ASSUME IInv, NEW c \in Calls, CallStep(c)
    PROVE  Kept(c)
<1> DEFINE r == call[c].req
<1> USE DEF Req, At, Busy
<1>1. TypeOK /\ RowInv /\ Sound(c)
  BY DEF IInv, CallInv
<1>2. call[c].pc # "idle"
  BY DEF CallStep, Lookup, Count, Insert, Abandon, Made, Expire, PolicyDeny, Fail, Succeed,
         End, Load, Decide, Find, Open, OpenFails, Link, Operation
<1>3. /\ call[c] \in CallLocals /\ r \in Requests /\ call[c].at \in 0 .. MaxTime
      /\ call[c].what \in Whats /\ call[c].who \in Approvers \cup {NoOne}
  BY <1>1, <1>2, BusyCall DEF CallLocals
<1> USE <1>1, <1>2, <1>3
<1>4. CASE Lookup(c)
  <2> DEFINE p == IF state[r] # "absent" THEN Due(r, call[c].at)
                  ELSE IF policy = "deny" THEN "idle" ELSE "count"
  <2>1. /\ p \in {"expire", "find", "operation", "idle", "count"}
        /\ p = "find" => state[r] = "approved"
        /\ p = "expire" => state[r] = "pending"
    BY DuePlaces
  <2>2. Moves(c, p)
    BY <1>4, <2>1, MoveCall DEF Lookup, r, Pcs
  <2> HIDE DEF p
  <2> QED
    BY <1>4, <2>1, <2>2, ReadKept DEF Lookup, r, Pcs, Begun
<1>5. CASE Count(c)
  <2>1. /\ call' \in [Calls -> {Idle} \cup CallLocals]
        /\ call'[c].what = call[c].what
        /\ call'[c].req = call[c].req /\ call'[c].who = call[c].who
        /\ \A d \in Calls \ {c} : call'[d] = call[d]
        /\ call'[c].pc \in {call[c].pc} \cup
             (IF call[c].pc = "count" THEN {"insert"} ELSE {"open", "fail"})
        /\ (call[c].pc = "recount" /\ call'[c].pc = "open") => policy \in {"unset", "auto"}
    BY <1>5, CountCall
  <2>2. Moves(c, call'[c].pc)
    BY <2>1 DEF Moves
  <2>3. call[c].pc \in {"count", "recount"}
    BY <1>5 DEF Count
  <2>4. CASE call[c].pc = "count"
    <3>1. call'[c].pc \in {"count", "insert"}
      BY <2>1, <2>4
    <3> QED
      BY <1>5, <2>2, <3>1, ReadKept DEF Count, Pcs
  <2>5. CASE call[c].pc = "recount"
    <3>1. call'[c].pc \in {"recount", "open", "fail"}
      BY <2>1, <2>5
    <3>2. state[r] \in Begun /\ policy # "deny" /\ mayAsk /\ decidedBy[r] = PolicyAuto
      BY <2>5 DEF Sound, r
    <3>3. call'[c].pc = "open" => MayOpen(r)
      BY <2>1, <2>5, <3>2 DEF MayOpen
    <3> QED
      BY <1>5, <2>2, <3>1, <3>2, <3>3, ReadKept DEF Count, Pcs, r
  <2> QED
    BY <2>3, <2>4, <2>5
<1>6. CASE Insert(c)
  <2>1. CASE state[r] # "absent"
    <3>1. Moves(c, "load")
      BY <1>6, <2>1, MoveCall DEF Insert, Pcs
    <3> QED
      BY <1>6, <2>1, <3>1, ReadKept DEF Insert, Pcs
  <2>2. CASE state[r] = "absent" /\ call[c].auto
    <3>1. /\ expiresAt' = [expiresAt EXCEPT ![r] = call[c].at + Ttl]
          /\ UNCHANGED linked /\ UNCHANGED <<now, boot, config, op>>
      BY <1>6, <2>2 DEF Insert
    <3>2. /\ state' = [state EXCEPT ![r] = "approved"]
          /\ decidedBy' = [decidedBy EXCEPT ![r] = PolicyAuto]
          /\ decidedAt' = [decidedAt EXCEPT ![r] = call[c].at]
          /\ Go(c, "find")
      BY <1>6, <2>2 DEF Insert
    <3>3. Moves(c, "find")
      BY <3>2, MoveCall DEF Pcs
    <3>4. /\ state' \in [Requests -> RowState]
          /\ decidedBy' \in [Requests -> Deciders \cup {NoOne}]
          /\ decidedAt' \in [Requests -> (0 .. MaxTime) \cup {Never}]
      BY <3>2 DEF TypeOK, RowState, RequestState, Deciders
    <3>5. expiresAt' \in [Requests -> (0 .. MaxTime + Ttl) \cup {Never}]
      BY <3>1, BrokerAssumption DEF TypeOK
    <3>6. TypeOK'
      BY <3>1, <3>3, <3>4, <3>5 DEF TypeOK, Moves
    <3>7. state'[r] = "approved"
      BY <3>2 DEF TypeOK
    <3>8. RowInv' /\ Advance
      BY <2>2, <3>1, <3>2 DEF TypeOK, RowInv, Advance, Begun
    <3>9. Sound(c)'
      BY <3>3, <3>7 DEF Moves, Sound, Begun
    <3> QED
      BY <3>1, <3>3, <3>6, <3>8, <3>9 DEF Kept, Moves
  <2>3. CASE state[r] = "absent" /\ ~call[c].auto
    <3>1. /\ state' = [state EXCEPT ![r] = "pending"]
          /\ expiresAt' = [expiresAt EXCEPT ![r] = call[c].at + Ttl]
          /\ Moves(c, "made")
          /\ UNCHANGED <<now, boot, config, decidedBy, decidedAt, linked, op>>
      BY <1>6, <2>3, MoveCall DEF Insert, Pcs
    <3>2. TypeOK'
      BY <3>1, BrokerAssumption DEF TypeOK, Moves, RowState, RequestState
    <3>3. RowInv' /\ Advance
      BY <2>3, <3>1 DEF TypeOK, RowInv, Advance, Begun
    <3>4. Sound(c)'
      BY <3>1 DEF Moves, Sound, TypeOK
    <3> QED
      BY <3>1, <3>2, <3>3, <3>4 DEF Kept, Moves
  <2> QED
    BY <2>1, <2>2, <2>3
<1>7. CASE Abandon(c)
  BY <1>7, SettleKept DEF Abandon, RowState, RequestState, Deciders
<1>8. CASE Made(c)
  BY <1>8, MoveCall, ReadKept DEF Made, Pcs
<1>9. CASE Expire(c)
  BY <1>9, SettleKept DEF Expire, RowState, RequestState, Deciders
<1>10. CASE PolicyDeny(c)
  BY <1>10, SettleKept DEF PolicyDeny, RowState, RequestState, Deciders
<1>11. CASE Fail(c)
  BY <1>11, SettleKept DEF Fail, RowState, RequestState
<1>12. CASE Succeed(c)
  BY <1>12, SettleKept DEF Succeed, RowState, RequestState
<1>13. CASE End(c)
  BY <1>13, SettleKept DEF End, RowState, RequestState
<1>14. CASE Load(c)
  <2> DEFINE due == Due(r, call[c].at)
  <2>1. /\ due \in {"expire", "find", "operation", "idle"}
        /\ due = "find" => state[r] = "approved"
    BY DuePlaces
  <2> HIDE DEF due
  <2>2. state[r] # "absent" /\ UNCHANGED <<now, boot, config, columns, op>>
    BY <1>14 DEF Load, Sound
  <2>3. \/ Return(c) \/ Resume(c, due)
        \/ call[c].what \notin {"create", "read"} /\ (Go(c, "policy_deny") \/ Go(c, "decide"))
    BY <1>14 DEF Load, due
  <2>4. \/ Moves(c, "idle") \/ Moves(c, due)
        \/ /\ call[c].what \notin {"create", "read"}
           /\ Moves(c, "policy_deny") \/ Moves(c, "decide")
    BY <2>1, <2>3, MoveCall DEF Pcs
  <2>5. call[c].what \notin {"create", "read"} => call[c].who \in Approvers
    BY DEF Sound, Whats
  <2>6. CASE Moves(c, "idle")
    BY <2>2, <2>6, ReadKept DEF Pcs
  <2>7. CASE Moves(c, due)
    BY <2>1, <2>2, <2>7, ReadKept DEF Pcs, Begun
  <2>8. CASE call[c].what \notin {"create", "read"} /\ Moves(c, "policy_deny")
    BY <2>2, <2>8, ReadKept DEF Pcs
  <2>9. CASE call[c].what \notin {"create", "read"} /\ Moves(c, "decide")
    BY <2>2, <2>5, <2>9, ReadKept DEF Pcs
  <2> QED
    BY <2>4, <2>6, <2>7, <2>8, <2>9
<1>15. CASE Decide(c)
  <2> DEFINE to == IF call[c].what = "approve" THEN "approved" ELSE "denied"
  <2>1. call[c].who \in Approvers /\ state[r] # "absent"
    BY <1>15 DEF Decide, Sound
  <2>2. call[c].who \in Deciders \cup {NoOne} /\ call[c].who # NoOne /\ to \in RowState
    BY <2>1, BrokerAssumption DEF Deciders, NoOne, RowState, RequestState
  <2>3. UNCHANGED <<now, boot, config, expiresAt, linked, op>>
    BY <1>15 DEF Decide
  <2>4. CASE state[r] = "pending" /\ expiresAt[r] > call[c].at
    <3>1. Transition(r, "pending", to, call[c].who, call[c].at)
      BY <1>15, <2>4 DEF Decide
    <3>2. Sets(r, "pending", to, call[c].who)
      BY <2>2, <3>1, TransitionSets
    <3>3. to \in {"approved", "denied"}
      OBVIOUS
    <3>4. RowInv' /\ Advance
      BY <2>3, <3>2, <3>3, SetsAdvance
    <3>5. \/ to = "approved" /\ Moves(c, "find")
          \/ Moves(c, "idle")
      BY <1>15, <2>4, MoveCall DEF Decide, Pcs
    <3>6. TypeOK'
      BY <2>3, <3>2, <3>5 DEF TypeOK, Sets, Moves
    <3>7. CASE Moves(c, "idle")
      BY <2>3, <3>4, <3>6, <3>7, OverKept
    <3>8. CASE to = "approved" /\ Moves(c, "find")
      <4>1. state'[r] = "approved"
        BY <2>4, <3>2, <3>8 DEF Sets
      <4>2. /\ call'[c].pc = "find" /\ call'[c].what = call[c].what
            /\ call'[c].req = r /\ call'[c].who = call[c].who
        BY <3>8 DEF Moves
      <4>3. Sound(c)'
        BY <2>1, <4>1, <4>2 DEF Sound, Begun
      <4> QED
        BY <2>3, <3>4, <3>6, <3>8, <4>3 DEF Kept, Moves
    <3> QED
      BY <3>5, <3>7, <3>8
  <2>5. CASE ~(state[r] = "pending" /\ expiresAt[r] > call[c].at)
    <3>1. Return(c) /\ UNCHANGED <<state, decidedBy, decidedAt>>
      BY <1>15, <2>5 DEF Decide
    <3>2. Moves(c, "idle")
      BY <3>1, MoveCall DEF Pcs
    <3> QED
      BY <2>3, <3>1, <3>2, ReadKept DEF Pcs
  <2> QED
    BY <2>4, <2>5
<1>16. CASE Find(c)
  <2> DEFINE p == IF op[r] = "none" THEN Recheck(r) ELSE "open"
  <2>1. state[r] \in Begun /\ UNCHANGED <<now, boot, config, columns, op>>
    BY <1>16 DEF Find, Sound
  <2>2. /\ p \in {"fail", "recount", "open"}
        /\ p = "recount" => policy # "deny" /\ mayAsk /\ decidedBy[r] = PolicyAuto
    BY Zenon DEF Recheck
  <2>3. p = "open" => op[r] # "none" \/ MayOpen(r)
    BY Zenon DEF Recheck, MayOpen
  <2>4. Go(c, p)
    BY <1>16 DEF Find
  <2> HIDE DEF p
  <2>5. Moves(c, p)
    BY <2>2, <2>4, MoveCall DEF Pcs
  <2> QED
    BY <2>1, <2>2, <2>3, <2>5, ReadKept DEF Pcs
<1>17. ASSUME Created(c), UNCHANGED <<now, boot, config, columns>>, call[c].pc = "open",
              Moves(c, "link") \/ Moves(c, "idle")
       PROVE  Kept(c)
  <2>1. state[r] \in Begun
    BY <1>17 DEF Sound
  <2>2. op' = [op EXCEPT ![r] = IF op[r] = "none" THEN "open" ELSE op[r]]
    BY <1>17 DEF Created
  <2>3. TypeOK'
    BY <1>17, <2>2 DEF TypeOK, OpState, Moves
  <2>4. RowInv' /\ Advance /\ op'[r] # "none"
    BY <1>17, <2>1, <2>2 DEF TypeOK, RowInv, Advance
  <2>5. CASE Moves(c, "idle")
    BY <1>17, <2>3, <2>4, <2>5, OverKept
  <2>6. CASE Moves(c, "link")
    <3>1. /\ call'[c].pc = "link" /\ call'[c].what = call[c].what
          /\ call'[c].req = r /\ call'[c].who = call[c].who
      BY <2>6 DEF Moves
    <3>2. Sound(c)'
      BY <1>17, <2>1, <2>4, <3>1 DEF Sound
    <3> QED
      BY <1>17, <2>3, <2>4, <2>6, <3>2 DEF Kept, Moves
  <2> QED
    BY <1>17, <2>5, <2>6
<1>18. CASE Open(c)
  <2>1. Moves(c, "link")
    BY <1>18, MoveCall DEF Open, Pcs
  <2> QED
    BY <1>17, <1>18, <2>1 DEF Open
<1>19. CASE OpenFails(c)
  <2>1. Moves(c, "idle")
    BY <1>19, MoveCall DEF OpenFails, Pcs
  <2>2. CASE Created(c)
    BY <1>17, <1>19, <2>1, <2>2 DEF OpenFails
  <2>3. CASE UNCHANGED op
    BY <1>19, <2>1, <2>3, ReadKept DEF OpenFails, Pcs
  <2> QED
    BY <1>19, <2>2, <2>3 DEF OpenFails
<1>20. CASE Link(c)
  <2>1. op[r] # "none" /\ UNCHANGED <<now, boot, config, expiresAt, op>>
    BY <1>20 DEF Link, Sound
  <2>2. Moves(c, "idle")
    BY <1>20, MoveCall DEF Link, Pcs
  <2>3. Sets(r, "approved", "executing", NoOne)
    BY <1>20, TransitionSets DEF Link, RowState, RequestState
  <2>4. RowInv' /\ Advance
    BY <2>1, <2>3, SetsAdvance
  <2>5. linked' \in [Requests -> BOOLEAN]
    BY <1>20 DEF Link, TypeOK
  <2>6. TypeOK'
    BY <2>1, <2>2, <2>3, <2>5 DEF TypeOK, Sets, Moves
  <2> QED
    BY <2>1, <2>2, <2>4, <2>6, OverKept
<1>21. CASE Operation(c)
  <2> DEFINE p == CASE op[r] = "succeeded" -> "succeed" [] op[r] = "ended" -> "end"
                    [] OTHER -> "idle"
  <2>1. p \in {"succeed", "end", "idle"}
    OBVIOUS
  <2>2. Resume(c, p) /\ UNCHANGED <<now, boot, config, columns, op>>
    BY <1>21 DEF Operation
  <2> HIDE DEF p
  <2>3. Moves(c, p)
    BY <2>1, <2>2, MoveCall DEF Pcs
  <2> QED
    BY <2>1, <2>2, <2>3, ReadKept DEF Pcs
<1> QED
  BY <1>4, <1>5, <1>6, <1>7, <1>8, <1>9, <1>10, <1>11, <1>12, <1>13, <1>14, <1>15, <1>16,
     <1>18, <1>19, <1>20, <1>21 DEF CallStep

-----------------------------------------------------------------------------
(* The invariant is inductive.                                             *)

\* What another call established stays so while the rows advance.
LEMMA SoundStays ==
    ASSUME TypeOK, NEW d \in Calls, Sound(d), Advance, UNCHANGED config, call'[d] = call[d]
    PROVE  Sound(d)'
<1>1. CASE call[d].pc = "idle"
  BY <1>1 DEF Sound, Busy
<1>2. CASE call[d].pc # "idle"
  <2>1. call[d].req \in Requests
    BY <1>2, BusyCall DEF CallLocals
  <2> QED
    BY <2>1 DEF Sound, Advance, Busy, Req, MayOpen
<1> QED
  BY <1>1, <1>2

\* A call that arrives has established nothing but who it is from.
LEMMA BeginKept ==
    ASSUME IInv, NEW c \in Calls, NEW what \in Whats, NEW r \in Requests,
           NEW who \in Approvers \cup {NoOne}, Begin(c, what, r, who)
    PROVE  Kept(c)
<1> DEFINE k == [pc |-> IF what = "create" THEN "lookup" ELSE "load", what |-> what,
                 req |-> r, who |-> who, at |-> now, step |-> 1, live |-> 0, auto |-> FALSE]
<1>1. /\ call' = [call EXCEPT ![c] = k] /\ UNCHANGED <<now, boot, config, columns, op>>
      /\ (who = NoOne) <=> (what \in {"create", "read"})
      /\ what # "create" => state[r] # "absent"
  BY DEF Begin
<1>2. TypeOK /\ RowInv
  BY DEF IInv
<1>3. k \in CallLocals
  BY <1>2 DEF CallLocals, Pcs, TypeOK
<1>4. /\ k.pc \in {"lookup", "load"} /\ k.what = what /\ k.req = r /\ k.who = who
      /\ k.pc = "load" => what # "create"
  OBVIOUS
<1> HIDE DEF k
<1>5. /\ call' \in [Calls -> {Idle} \cup CallLocals] /\ call'[c] = k
      /\ \A d \in Calls \ {c} : call'[d] = call[d]
  BY <1>1, <1>2, <1>3 DEF TypeOK
<1>6. TypeOK'
  BY <1>1, <1>2, <1>5 DEF TypeOK
<1>7. RowInv' /\ Advance
  BY <1>1, <1>2, ReadAdvance
<1>8. Sound(c)'
  BY <1>1, <1>4, <1>5 DEF Sound, Busy, Req
<1> QED
  BY <1>1, <1>5, <1>6, <1>7, <1>8 DEF Kept

\* Every step keeps the invariant, and the rows only advance.
LEMMA StepIInv == IInv /\ [Next]_vars => IInv' /\ Advance
<1> SUFFICES ASSUME IInv, [Next]_vars PROVE IInv' /\ Advance
  OBVIOUS
<1>1. TypeOK /\ RowInv /\ CallInv
  BY DEF IInv
<1>2. ASSUME NEW c \in Calls, Kept(c) PROVE IInv' /\ Advance
  <2>1. ASSUME NEW d \in Calls PROVE Sound(d)'
    BY <1>1, <1>2, SoundStays DEF Kept, CallInv
  <2> QED
    BY <1>2, <2>1 DEF Kept, IInv, CallInv
<1>3. ASSUME NEW c \in Calls, CallStep(c) PROVE IInv' /\ Advance
  BY <1>2, <1>3, CallStepKept
<1>4. ASSUME NEW c \in Calls, NEW what \in Whats, NEW r \in Requests,
             NEW who \in Approvers \cup {NoOne}, Begin(c, what, r, who)
      PROVE  IInv' /\ Advance
  BY <1>2, <1>4, BeginKept
<1>5. ASSUME NEW r \in Requests, OperationMoves(r) PROVE IInv' /\ Advance
  <2>1. PICK s \in OpState \ {"none"} : op' = [op EXCEPT ![r] = s]
    BY <1>5 DEF OperationMoves
  <2>2. op[r] # "none" /\ UNCHANGED <<now, boot, config, columns, call>>
    BY <1>5 DEF OperationMoves
  <2>3. TypeOK'
    BY <1>1, <2>1, <2>2 DEF TypeOK
  <2>4. RowInv' /\ Advance
    BY <1>1, <2>1, <2>2 DEF TypeOK, RowInv, Advance
  <2>5. ASSUME NEW d \in Calls PROVE Sound(d)'
    BY <1>1, <2>2, <2>4, SoundStays DEF CallInv
  <2> QED
    BY <2>3, <2>4, <2>5 DEF IInv, CallInv
<1>6. CASE Restart
  <2>1. /\ boot' \in 1 .. MaxBoots /\ policy' \in Policies /\ mayAsk' \in BOOLEAN
        /\ mayApprove' \in SUBSET Approvers /\ call' = [c \in Calls |-> Idle]
        /\ UNCHANGED <<now, columns, op>>
    BY <1>1, <1>6, BrokerAssumption DEF Restart, TypeOK
  <2>2. TypeOK'
    BY <1>1, <2>1 DEF TypeOK
  <2>3. RowInv' /\ Advance
    BY <1>1, <2>1, ReadAdvance
  <2>4. ASSUME NEW d \in Calls PROVE Sound(d)'
    BY <2>1 DEF Sound, Busy, Idle
  <2> QED
    BY <2>2, <2>3, <2>4 DEF IInv, CallInv
<1>7. CASE Tick
  <2>1. now' \in 0 .. MaxTime /\ UNCHANGED <<boot, config, columns, op, call>>
    BY <1>1, <1>7, BrokerAssumption DEF Tick, TypeOK
  <2>2. TypeOK'
    BY <1>1, <2>1 DEF TypeOK
  <2>3. RowInv' /\ Advance
    BY <1>1, <2>1, ReadAdvance
  <2>4. ASSUME NEW d \in Calls PROVE Sound(d)'
    BY <1>1, <2>1, <2>3, SoundStays DEF CallInv
  <2> QED
    BY <2>2, <2>3, <2>4 DEF IInv, CallInv
<1>8. CASE UNCHANGED vars
  <2>1. TypeOK' /\ RowInv' /\ Advance
    BY <1>1, <1>8, ReadAdvance DEF TypeOK, vars
  <2>2. ASSUME NEW d \in Calls PROVE Sound(d)'
    BY <1>1, <1>8, <2>1, SoundStays DEF CallInv, vars
  <2> QED
    BY <2>1, <2>2 DEF IInv, CallInv
<1> QED
  BY <1>3, <1>4, <1>5, <1>6, <1>7, <1>8 DEF Next

\* In every behaviour of the broker.
THEOREM Inductive == Spec => []IInv
<1>1. IInv /\ [Next]_vars => IInv'
  BY StepIInv
<1> QED
  BY InitIInv, <1>1, PTL DEF Spec

\* Every variable keeps its type, over any number of requests, calls, restarts.
THEOREM TypeCorrect == Spec => []TypeOK
<1>1. IInv => TypeOK
  BY DEF IInv
<1> QED
  BY Inductive, <1>1, PTL

-----------------------------------------------------------------------------
(* Operations are opened under the current policy.                         *)

\* Only the statement that creates operations gives a request its first one.
LEMMA OnlyOpen ==
    ASSUME TypeOK, [Next]_vars, NEW r \in Requests, op[r] = "none", op'[r] # "none"
    PROVE  \E c \in Calls : Busy(c, "open") /\ Req(c) = r /\ Created(c)
<1>1. ~UNCHANGED op
  OBVIOUS
<1>2. ASSUME NEW q \in Requests, OperationMoves(q) PROVE FALSE
  BY <1>2 DEF OperationMoves, TypeOK
<1>3. ASSUME NEW c \in Calls, CallStep(c)
      PROVE  Busy(c, "open") /\ Req(c) = r /\ Created(c)
  <2>1. Busy(c, "open") /\ Created(c)
    BY <1>1, <1>3 DEF CallStep, Lookup, Count, Insert, Abandon, Made, Expire, PolicyDeny,
       Fail, Succeed, End, Settle, Load, Decide, Find, Open, OpenFails, Link, Operation
  <2>2. Req(c) = r
    BY <2>1 DEF Created, TypeOK
  <2> QED
    BY <2>1, <2>2
<1>4. ~Tick /\ ~Restart /\ ~UNCHANGED vars
  BY <1>1 DEF Tick, Restart, vars
<1>5. \A c \in Calls, what \in Whats, q \in Requests, who \in Approvers \cup {NoOne} :
         ~Begin(c, what, q, who)
  BY <1>1 DEF Begin
<1> QED
  BY <1>2, <1>3, <1>4, <1>5 DEF Next

\* An operation is opened only under the policy and permissions its process
\* runs with, whatever was read before and however old the approval.
THEOREM PolicyIsCurrent == Spec => OpenedUnderCurrentPolicy
<1> DEFINE Current == \A r \in Requests : (op[r] = "none" /\ op'[r] # "none") =>
          /\ policy # "deny" /\ mayAsk
          /\ IF decidedBy[r] = PolicyAuto THEN policy # "approve"
                                          ELSE decidedBy[r] \in mayApprove
<1>1. IInv /\ [Next]_vars => Current
  <2> SUFFICES ASSUME IInv, [Next]_vars, NEW r \in Requests, op[r] = "none", op'[r] # "none"
               PROVE  MayOpen(r)
    BY DEF MayOpen
  <2>1. TypeOK /\ CallInv
    BY DEF IInv
  <2>2. PICK c \in Calls : Busy(c, "open") /\ Req(c) = r
    BY <2>1, OnlyOpen
  <2> QED
    BY <2>1, <2>2 DEF CallInv, Sound
<1>2. IInv /\ [Next]_vars => [Current]_vars
  BY <1>1
<1> QED
  BY <1>2, Inductive, PTL DEF Spec, OpenedUnderCurrentPolicy

-----------------------------------------------------------------------------
(* The quota. A count runs over four statements while other requests move, *)
(* and two counts may overlap; but a request only moves forward, in the    *)
(* order the statements look for it, so a count finds every contender that *)
(* was there when it began.                                                *)

\* A request the bounds approved, unless it has failed since; one that has, or
\* may be given, its operation; one that has or is about to have it.
Unasked(r) == decidedBy[r] = PolicyAuto /\ state[r] \in {"approved", "executing", "succeeded"}
Counting(c, r) == Busy(c, "recount") /\ Req(c) = r
Granted(r) == op[r] # "none" \/ \E c \in Calls : Busy(c, "open") /\ Req(c) = r
Contenders == {r \in Requests : Unasked(r) /\ (Granted(r) \/ \E c \in Calls : Counting(c, r))}

\* The statement of the count that finds a request in state s, and those of S
\* that statement k or a later one will find.
Place(s) == CASE s = "pending" -> 1 [] s = "approved" -> 2 [] s = "executing" -> 3
              [] s = "succeeded" -> 4 [] OTHER -> 0
Ahead(S, k) == {q \in S : Place(state[q]) >= k}

\* Every recount of r that is under way will find the quota taken by S.
Sees(c, S) == call[c].live + Cardinality(Ahead(S \ {Req(c)}, call[c].step)) >= Max
Refused(r, S) == ~Granted(r) /\ \A c \in Calls : Counting(c, r) => Sees(c, S)

\* Of any set of contenders that exceeds the quota, the one whose recount began
\* last finds all the others, so it will not be granted.
QuotaInv ==
    \A S \in SUBSET Contenders : Cardinality(S) > Max => \E r \in S : Refused(r, S)

\* A call that is not counting has its counter at the start.
LocalsInv ==
    \A c \in Calls : call[c].pc \notin {"idle", "count", "recount"} =>
        call[c].step = 1 /\ call[c].live = 0
CountInv == LocalsInv /\ QuotaInv

\* Where a statement looks, and that no contender is pending.
LEMMA Places ==
    /\ \A s \in RowState : Place(s) \in 0 .. 4
    /\ \A s \in RowState, k \in 1 .. 4 : Place(s) = k <=> s = QuotaStates[k]
    /\ \A r \in Requests : Unasked(r) => Place(state[r]) \in 2 .. 4 /\ state[r] # "pending"
<1>1. \A k \in 1 .. 4 : k \in {1, 2, 3, 4}
  OBVIOUS
<1> QED
  BY <1>1 DEF Place, QuotaStates, RowState, RequestState, Unasked

\* Sets of requests are finite, and larger ones count for more.
LEMMA Counts ==
    ASSUME NEW T, T \subseteq Requests, NEW S, S \subseteq T
    PROVE  /\ IsFiniteSet(S) /\ IsFiniteSet(T)
           /\ Cardinality(S) \in Nat /\ Cardinality(T) \in Nat
           /\ Cardinality(S) <= Cardinality(T)
<1>1. IsFiniteSet(T)
  BY BrokerAssumption, FS_Subset
<1> QED
  BY <1>1, FS_Subset, FS_CardinalityType

\* What one statement of a count does to the counter.
LEMMA TallyCounters ==
    ASSUME NEW k \in CallLocals, k.pc \in {"count", "recount"}, NEW live
    PROVE  /\ k.step < 4 => /\ Tally(k, live).pc = k.pc
                            /\ Tally(k, live).step = k.step + 1
                            /\ Tally(k, live).live = live
           /\ ~(k.step < 4) => /\ Tally(k, live).step = 1 /\ Tally(k, live).live = 0
                               /\ Tally(k, live).pc =
                                    IF k.pc = "count" THEN "insert"
                                    ELSE IF RunsAtOnce(live) THEN "open" ELSE "fail"
BY DEF Tally, CallLocals

\* A statement that is not part of a count leaves the counter alone.
LEMMA CallCounters ==
    ASSUME IInv, NEW c \in Calls, CallStep(c), ~Count(c)
    PROVE  \/ Return(c)
           \/ /\ call[c].pc \notin {"idle", "count", "recount"}
              /\ call'[c].step = call[c].step /\ call'[c].live = call[c].live
<1>1. call[c].pc # "idle"
  BY DEF CallStep, Lookup, Count, Insert, Abandon, Made, Expire, PolicyDeny, Fail, Succeed,
         End, Load, Decide, Find, Open, OpenFails, Link, Operation, Busy
<1>2. call[c] \in CallLocals /\ call \in [Calls -> {Idle} \cup CallLocals]
  BY <1>1, BusyCall DEF IInv, TypeOK
<1>3. ASSUME NEW p, Go(c, p)
      PROVE  call'[c].step = call[c].step /\ call'[c].live = call[c].live
  BY <1>2, <1>3 DEF Go, CallLocals
<1>4. \/ Return(c)
      \/ /\ call[c].pc \notin {"idle", "count", "recount"}
         /\ \E p : Go(c, p)
  BY DEF CallStep, Lookup, Insert, Abandon, Made, Expire, PolicyDeny, Fail, Succeed,
         End, Load, Decide, Find, Open, OpenFails, Link, Operation, Busy, Resume, Settle
<1> QED
  BY <1>3, <1>4

\* So a call that is not counting starts to count from nothing.
LEMMA LocalsStep == IInv /\ LocalsInv /\ [Next]_vars => LocalsInv'
<1> SUFFICES ASSUME IInv, LocalsInv, [Next]_vars, NEW d \in Calls,
                    call'[d].pc \notin {"idle", "count", "recount"}
             PROVE  call'[d].step = 1 /\ call'[d].live = 0
  BY DEF LocalsInv
<1>1. CASE call'[d] = call[d]
  BY <1>1 DEF LocalsInv
<1>2. ASSUME NEW c \in Calls, CallStep(c) PROVE call'[d].step = 1 /\ call'[d].live = 0
  <2>1. CASE c # d
    <3>1. call'[d] = call[d]
      BY <1>2, <2>1, CallStepKept DEF Kept
    <3> QED
      BY <1>1, <3>1
  <2>2. CASE c = d /\ ~Count(c)
    <3>1. ~Return(c)
      BY <2>2, ReturnCall DEF IInv
    <3> QED
      BY <1>2, <2>2, <3>1, CallCounters DEF LocalsInv
  <2>3. CASE c = d /\ Count(c)
    <3>1. call[c].pc \in {"count", "recount"} /\ call[c] \in CallLocals
      BY <2>3, BusyCall DEF IInv, Count, Busy
    <3>2. PICK live : call' = [call EXCEPT ![c] = Tally(call[c], live)]
      BY <2>3 DEF Count
    <3>3. call'[c] = Tally(call[c], live)
      BY <3>2 DEF IInv, TypeOK
    <3> QED
      BY <2>3, <3>1, <3>3, TallyCounters
  <2> QED
    BY <2>1, <2>2, <2>3
<1>3. ASSUME NEW c \in Calls, NEW what \in Whats, NEW r \in Requests,
             NEW who \in Approvers \cup {NoOne}, Begin(c, what, r, who)
      PROVE  call'[d].step = 1 /\ call'[d].live = 0
  BY <1>1, <1>3 DEF Begin, IInv, TypeOK
<1>4. CASE Restart
  BY <1>4 DEF Restart, Idle
<1> QED
  BY <1>1, <1>2, <1>3, <1>4 DEF Next, OperationMoves, Tick, vars

\* What every statement of call c but a recount does to the contenders: it
\* starts a recount from nothing, lets a request through only if it was
\* granted before or needs no grant, and moves rows forward only.
Steady(c) ==
    /\ \A d \in Calls \ {c} : call'[d] = call[d]
    /\ call'[c].pc \in {"recount", "open"} =>
          /\ call[c].pc = "find" /\ call'[c].req = call[c].req
          /\ call'[c].step = 1 /\ call'[c].live = 0
    /\ call'[c].pc = "open" =>
          op[Req(c)] # "none" \/ decidedBy[Req(c)] # PolicyAuto
    /\ \A q \in Requests : op'[q] # "none" =>
          op[q] # "none" \/ (Busy(c, "open") /\ q = Req(c))
    /\ \A q \in Requests : Unasked(q)' => state[q] \notin Begun
          \/ (Unasked(q) /\ Place(state'[q]) >= Place(state[q]))

\* A transition that the broker makes moves a row forward.
LEMMA SetsForward ==
    ASSUME TypeOK, NEW r \in Requests, NEW from, NEW to, NEW by, Sets(r, from, to, by),
           \/ from = "pending" /\ to \in {"denied", "expired"}
           \/ from = "pending" /\ by \in Approvers
           \/ from = "approved" /\ to \in {"failed", "executing"} /\ by = NoOne
           \/ from = "executing" /\ to \in {"succeeded", "failed"} /\ by = NoOne,
           NEW q \in Requests, Unasked(q)'
    PROVE  state[q] \notin Begun \/ (Unasked(q) /\ Place(state'[q]) >= Place(state[q]))
<1>1. CASE q # r \/ state[r] # from
  <2>1. state'[q] = state[q] /\ decidedBy'[q] = decidedBy[q]
    BY <1>1 DEF Sets
  <2>2. Unasked(q) /\ Place(state[q]) \in 2 .. 4
    BY <2>1, Places DEF Unasked
  <2> QED
    BY <2>1, <2>2
<1>2. CASE q = r /\ state[r] = from
  BY <1>2 DEF Sets, Unasked, Begun, Place
<1> QED
  BY <1>1, <1>2

\* A call that ends with a transition is steady.
LEMMA SettleSteady ==
    ASSUME IInv, NEW c \in Calls, call[c].pc # "idle", NEW from, NEW to \in RowState,
           NEW by \in Deciders \cup {NoOne}, Settle(c, from, to, by),
           \/ from = "pending" /\ to \in {"denied", "expired"}
           \/ from = "approved" /\ to = "failed" /\ by = NoOne
           \/ from = "executing" /\ to \in {"succeeded", "failed"} /\ by = NoOne
    PROVE  Steady(c)
<1>1. TypeOK /\ call[c].req \in Requests
  BY BusyCall DEF CallLocals, IInv
<1>2. Sets(call[c].req, from, to, by) /\ Moves(c, "idle") /\ UNCHANGED op
  BY <1>1, SettleCall
<1>3. \A q \in Requests : Unasked(q)' => state[q] \notin Begun
          \/ (Unasked(q) /\ Place(state'[q]) >= Place(state[q]))
  BY <1>1, <1>2, SetsForward
<1> QED
  BY <1>2, <1>3 DEF Steady, Moves

\* Every statement but one of a recount is steady.
LEMMA CallSteady ==
    ASSUME IInv, LocalsInv, NEW c \in Calls, CallStep(c), ~(Count(c) /\ Busy(c, "recount"))
    PROVE  Steady(c)
<1> DEFINE r == call[c].req
<1> USE DEF Req, At, Busy
<1>1. TypeOK /\ RowInv /\ Sound(c) /\ Kept(c)
  BY CallStepKept DEF IInv, CallInv
<1>2. call[c].pc # "idle"
  BY DEF CallStep, Lookup, Count, Insert, Abandon, Made, Expire, PolicyDeny, Fail, Succeed,
         End, Load, Decide, Find, Open, OpenFails, Link, Operation
<1>3. call[c] \in CallLocals /\ r \in Requests /\ call[c].at \in 0 .. MaxTime
  BY <1>1, <1>2, BusyCall DEF CallLocals
<1>4. \A d \in Calls \ {c} : call'[d] = call[d]
  BY <1>1 DEF Kept
<1> USE <1>1, <1>2, <1>3
\* A statement that writes no row of the table.
<1>5. ASSUME UNCHANGED <<state, decidedBy>>, NEW q \in Requests, Unasked(q)'
      PROVE  Unasked(q) /\ Place(state'[q]) >= Place(state[q])
  <2>1. Unasked(q) /\ Place(state[q]) \in 2 .. 4
    BY <1>5, Places DEF Unasked
  <2> QED
    BY <1>5, <2>1
\* One that in addition goes anywhere but to the recount and the opening.
<1>6. ASSUME UNCHANGED <<state, decidedBy, op>>, NEW p \in Pcs \ {"recount", "open"}, Moves(c, p)
      PROVE  Steady(c)
  BY <1>4, <1>5, <1>6 DEF Steady, Moves
<1>7. CASE Lookup(c)
  <2> DEFINE p == IF state[r] # "absent" THEN Due(r, call[c].at)
                  ELSE IF policy = "deny" THEN "idle" ELSE "count"
  <2>1. p \in {"expire", "find", "operation", "idle", "count"}
    BY DuePlaces
  <2>2. Moves(c, p)
    BY <1>7, <2>1, MoveCall DEF Lookup, r, Pcs
  <2> HIDE DEF p
  <2> QED
    BY <1>6, <1>7, <2>1, <2>2 DEF Lookup, Pcs
<1>8. CASE Count(c)
  <2>1. call[c].pc = "count" /\ UNCHANGED <<state, decidedBy, op>>
    BY <1>8 DEF Count
  <2>2. call'[c].pc \in {"count", "insert"}
    BY <1>8, <2>1, CountCall
  <2> QED
    BY <1>4, <1>5, <2>1, <2>2 DEF Steady
<1>9. CASE Insert(c)
  <2>1. UNCHANGED op
    BY <1>9 DEF Insert
  <2>2. CASE state[r] # "absent"
    <3>1. Moves(c, "load") /\ UNCHANGED <<state, decidedBy>>
      BY <1>9, <2>2, MoveCall DEF Insert, Pcs
    <3> QED
      BY <1>6, <2>1, <3>1 DEF Pcs
  <2>3. CASE state[r] = "absent"
    <3>1. Moves(c, "find") \/ Moves(c, "made")
      BY <1>9, <2>3, MoveCall DEF Insert, Pcs
    <3>2. ASSUME NEW q \in Requests, Unasked(q)'
          PROVE  state[q] \notin Begun \/ (Unasked(q) /\ Place(state'[q]) >= Place(state[q]))
      <4>1. CASE q = r
        BY <2>3, <4>1 DEF Begun
      <4>2. CASE q # r
        <5>1. state'[q] = state[q] /\ decidedBy'[q] = decidedBy[q]
          BY <1>9, <2>3, <4>2 DEF Insert, TypeOK
        <5>2. Unasked(q) /\ Place(state[q]) \in 2 .. 4
          BY <3>2, <5>1, Places DEF Unasked
        <5> QED
          BY <5>1, <5>2
      <4> QED
        BY <4>1, <4>2
    <3> QED
      BY <1>4, <2>1, <3>1, <3>2 DEF Steady, Moves
  <2> QED
    BY <2>2, <2>3
<1>10. CASE Abandon(c)
  BY <1>10, SettleSteady DEF Abandon, RowState, RequestState, Deciders
<1>11. CASE Made(c)
  BY <1>6, <1>11, MoveCall DEF Made, Pcs
<1>12. CASE Expire(c)
  BY <1>12, SettleSteady DEF Expire, RowState, RequestState, Deciders
<1>13. CASE PolicyDeny(c)
  BY <1>13, SettleSteady DEF PolicyDeny, RowState, RequestState, Deciders
<1>14. CASE Fail(c)
  BY <1>14, SettleSteady DEF Fail, RowState, RequestState
<1>15. CASE Succeed(c)
  BY <1>15, SettleSteady DEF Succeed, RowState, RequestState
<1>16. CASE End(c)
  BY <1>16, SettleSteady DEF End, RowState, RequestState
<1>17. CASE Load(c)
  <2> DEFINE due == Due(r, call[c].at)
  <2>1. due \in {"expire", "find", "operation", "idle"}
    BY DuePlaces
  <2> HIDE DEF due
  <2>2. Return(c) \/ Resume(c, due) \/ Go(c, "policy_deny") \/ Go(c, "decide")
    BY <1>17 DEF Load, due
  <2>3. PICK p \in {"expire", "find", "operation", "idle", "policy_deny", "decide"} :
           Moves(c, p)
    BY <2>1, <2>2, MoveCall DEF Pcs
  <2> QED
    BY <1>6, <1>17, <2>3 DEF Load, Pcs
<1>18. CASE Decide(c)
  <2> DEFINE to == IF call[c].what = "approve" THEN "approved" ELSE "denied"
  <2>1. Moves(c, "idle") \/ Moves(c, "find")
    BY <1>18, MoveCall DEF Decide, Pcs
  <2>2. UNCHANGED op
    BY <1>18 DEF Decide
  <2>3. CASE state[r] = "pending" /\ expiresAt[r] > call[c].at
    <3>1. call[c].who \in Approvers /\ call[c].who \in Deciders \cup {NoOne} /\ to \in RowState
      BY <1>18 DEF Decide, Sound, Deciders, RowState, RequestState
    <3>2. Transition(r, "pending", to, call[c].who, call[c].at)
      BY <1>18, <2>3 DEF Decide
    <3>3. Sets(r, "pending", to, call[c].who)
      BY <3>1, <3>2, TransitionSets
    <3>4. \A q \in Requests : Unasked(q)' => state[q] \notin Begun
             \/ (Unasked(q) /\ Place(state'[q]) >= Place(state[q]))
      BY <3>1, <3>3, SetsForward
    <3> QED
      BY <1>4, <2>1, <2>2, <3>4 DEF Steady, Moves
  <2>4. CASE ~(state[r] = "pending" /\ expiresAt[r] > call[c].at)
    <3>1. UNCHANGED <<state, decidedBy>>
      BY <1>18, <2>4 DEF Decide
    <3> QED
      BY <1>6, <2>1, <2>2, <3>1 DEF Pcs
  <2> QED
    BY <2>3, <2>4
<1>19. CASE Find(c)
  <2> DEFINE p == IF op[r] = "none" THEN Recheck(r) ELSE "open"
  <2>1. UNCHANGED <<state, decidedBy, op>> /\ call[c].pc = "find" /\ Go(c, p)
    BY <1>19 DEF Find
  <2>2. p \in {"fail", "recount", "open"}
    BY Zenon DEF Recheck
  <2>3. p = "open" => op[r] # "none" \/ decidedBy[r] # PolicyAuto
    BY Zenon DEF Recheck
  <2> HIDE DEF p
  <2>4. Moves(c, p)
    BY <2>1, <2>2, MoveCall DEF Pcs
  <2>5. call'[c].step = 1 /\ call'[c].live = 0
    <3>1. ~Return(c) /\ ~Count(c)
      BY <2>1, <2>2, <2>4, ReturnCall DEF Moves, Count
    <3> QED
      BY <2>1, <3>1, CallCounters DEF LocalsInv
  <2> QED
    BY <1>4, <1>5, <2>1, <2>2, <2>3, <2>4, <2>5 DEF Steady, Moves
<1>20. CASE Open(c) \/ OpenFails(c)
  <2>1. call[c].pc = "open" /\ UNCHANGED <<state, decidedBy>> /\ (Created(c) \/ UNCHANGED op)
    BY <1>20 DEF Open, OpenFails
  <2>2. Moves(c, "link") \/ Moves(c, "idle")
    BY <1>20, MoveCall DEF Open, OpenFails, Pcs
  <2>3. \A q \in Requests : op'[q] # "none" => op[q] # "none" \/ q = r
    BY <2>1 DEF Created, TypeOK
  <2> QED
    BY <1>4, <1>5, <2>1, <2>2, <2>3 DEF Steady, Moves
<1>21. CASE Link(c)
  <2>1. UNCHANGED op
    BY <1>21 DEF Link
  <2>2. Moves(c, "idle")
    BY <1>21, MoveCall DEF Link, Pcs
  <2>3. Sets(r, "approved", "executing", NoOne)
    BY <1>21, TransitionSets DEF Link, RowState, RequestState
  <2>4. \A q \in Requests : Unasked(q)' => state[q] \notin Begun
           \/ (Unasked(q) /\ Place(state'[q]) >= Place(state[q]))
    BY <2>3, SetsForward
  <2> QED
    BY <1>4, <2>1, <2>2, <2>4 DEF Steady, Moves
<1>22. CASE Operation(c)
  <2> DEFINE p == CASE op[r] = "succeeded" -> "succeed" [] op[r] = "ended" -> "end"
                    [] OTHER -> "idle"
  <2>1. p \in {"succeed", "end", "idle"} /\ Resume(c, p)
    BY <1>22 DEF Operation
  <2> HIDE DEF p
  <2>2. Moves(c, p)
    BY <2>1, MoveCall DEF Pcs
  <2> QED
    BY <1>6, <1>22, <2>1, <2>2 DEF Operation, Pcs
<1> QED
  BY <1>7, <1>8, <1>9, <1>10, <1>11, <1>12, <1>13, <1>14, <1>15, <1>16, <1>17, <1>18,
     <1>19, <1>20, <1>21, <1>22 DEF CallStep

\* If nobody new is granted, every recount that started finds all the others,
\* and rows move forward, a set over the quota still has its refused one.
LEMMA QuotaCalm ==
    ASSUME TypeOK', TypeOK, QuotaInv,
           \A c \in Calls, r \in Requests : Counting(c, r)' =>
               (Counting(c, r) /\ call'[c] = call[c])
                   \/ (call'[c].step = 1 /\ call'[c].live = 0),
           \A r \in Contenders' : Granted(r)' => Granted(r) /\ r \in Contenders,
           \A r \in Contenders', c \in Calls :
               Counting(c, r)' /\ r \notin Contenders =>
                   call'[c].step = 1 /\ call'[c].live = 0,
           \A r \in Contenders' \cap Contenders : Place(state'[r]) >= Place(state[r])
    PROVE  QuotaInv'
<1> SUFFICES ASSUME NEW S \in SUBSET Contenders', Cardinality(S) > Max
             PROVE  \E r \in S : Refused(r, S)'
  BY DEF QuotaInv
<1>1. S \subseteq Requests /\ IsFiniteSet(S) /\ Max \in Nat
  BY Counts, BrokerAssumption DEF Contenders
\* A recount that started finds every other request of S.
<1>2. ASSUME NEW r \in S, NEW c \in Calls, Counting(c, r)',
             call'[c].step = 1, call'[c].live = 0
      PROVE  Sees(c, S)'
  <2>1. \A q \in S : Place(state'[q]) >= 1
    <3>1. \A s \in RowState : Place(s) \in 0 .. 4
      BY Places
    <3>2. \A q \in S : state'[q] \in {"approved", "executing", "succeeded"}
      BY DEF Contenders, Unasked
    <3> QED
      BY <3>2 DEF Place
  <2>2. Ahead(S \ {r}, 1)' = S \ {r}
    BY <2>1 DEF Ahead
  <2>3. Cardinality(S \ {r}) = Cardinality(S) - 1 /\ Cardinality(S) \in Nat
    BY <1>1, FS_RemoveElement, FS_CardinalityType
  <2>4. call'[c].req = r
    BY <1>2 DEF Counting, Req
  <2>5. Ahead(S \ {Req(c)}, call[c].step)' = S \ {r}
    BY <1>2, <2>1, <2>4 DEF Ahead, Req
  <2>6. Cardinality(Ahead(S \ {Req(c)}, call[c].step))' = Cardinality(S) - 1
    BY <2>3, <2>5
  <2> QED
    BY <1>1, <1>2, <2>3, <2>6 DEF Sees
<1>3. CASE S \subseteq Contenders
  <2>1. PICK r \in S : Refused(r, S)
    BY <1>3 DEF QuotaInv
  <2>2. ~Granted(r)'
    BY <2>1 DEF Refused
  <2>3. ASSUME NEW c \in Calls, Counting(c, r)' PROVE Sees(c, S)'
    <3>1. CASE call'[c].step = 1 /\ call'[c].live = 0
      BY <1>2, <2>3, <3>1
    <3>2. CASE Counting(c, r) /\ call'[c] = call[c]
      <4> DEFINE A == Ahead(S \ {r}, call[c].step)
                 B == {q \in S \ {r} : Place(state'[q]) >= call[c].step}
      <4>1. call[c].pc = "recount" /\ call[c].req = r
        BY <3>2 DEF Counting, Busy, Req
      <4>2. call[c].live \in Nat /\ call[c].step \in 1 .. 4
        BY <4>1, BusyCall DEF CallLocals
      <4>3. call[c].live + Cardinality(A) >= Max
        BY <2>1, <3>2, <4>1 DEF Refused, Sees, Req
      <4>4. A \subseteq B
        <5>1. \A q \in S : Place(state[q]) \in 0 .. 4 /\ Place(state'[q]) \in 0 .. 4
          BY <1>1, Places DEF TypeOK
        <5>2. \A q \in S : Place(state'[q]) >= Place(state[q])
          BY <1>3
        <5> QED
          BY <4>2, <5>1, <5>2 DEF Ahead
      <4>5. Cardinality(A) <= Cardinality(B) /\ Cardinality(A) \in Nat /\ Cardinality(B) \in Nat
        BY <1>1, <4>4, Counts
      <4>6. Ahead(S \ {Req(c)}, call[c].step)' = B
        BY <3>2, <4>1 DEF Ahead, Req
      <4>7. Cardinality(Ahead(S \ {Req(c)}, call[c].step))' = Cardinality(B)
        BY <4>6
      <4> HIDE DEF A, B
      <4> QED
        BY <1>1, <3>2, <4>2, <4>3, <4>5, <4>7 DEF Sees
    <3> QED
      BY <1>1, <2>3, <3>1, <3>2
  <2> QED
    BY <2>1, <2>2, <2>3 DEF Refused
<1>4. CASE ~(S \subseteq Contenders)
  <2>1. PICK r \in S : r \notin Contenders
    BY <1>4
  <2>2. ~Granted(r)'
    BY <2>1
  <2>3. ASSUME NEW c \in Calls, Counting(c, r)' PROVE Sees(c, S)'
    BY <1>2, <2>1, <2>3
  <2> QED
    BY <2>2, <2>3 DEF Refused
<1> QED
  BY <1>3, <1>4

\* A request that has not begun has no operation, and no call carries it out.
LEMMA Unbegun ==
    ASSUME IInv, NEW r \in Requests, state[r] \notin Begun
    PROVE  /\ ~Granted(r)
           /\ \A c \in Calls : Req(c) = r =>
                 call[c].pc \notin {"find", "recount", "open"}
BY DEF IInv, CallInv, Sound, RowInv, Granted, Busy

\* A steady statement keeps the quota.
LEMMA QuotaSteady ==
    ASSUME IInv, QuotaInv, TypeOK', NEW c \in Calls, Steady(c)
    PROVE  QuotaInv'
<1>1. ASSUME NEW d \in Calls, NEW r \in Requests, Counting(d, r)'
      PROVE  \/ Counting(d, r) /\ call'[d] = call[d]
             \/ call'[d].step = 1 /\ call'[d].live = 0
  <2>1. CASE d = c
    BY <1>1, <2>1 DEF Steady, Counting, Busy
  <2>2. CASE d # c
    BY <1>1, <2>2 DEF Steady, Counting, Busy, Req
  <2> QED
    BY <2>1, <2>2
<1>2. ASSUME NEW r \in Contenders' PROVE r \in Requests /\ (state[r] \notin Begun \/ Unasked(r))
  BY DEF Contenders, Steady
<1>3. ASSUME NEW r \in Contenders', Granted(r)' PROVE Granted(r) /\ r \in Contenders
  <2>1. CASE op'[r] # "none"
    <3>1. Granted(r)
      BY <1>2, <2>1 DEF Steady, Granted
    <3> QED
      BY <1>2, <3>1, Unbegun DEF Contenders
  <2>2. CASE \E d \in Calls : (Busy(d, "open") /\ Req(d) = r)'
    <3>1. PICK d \in Calls : call'[d].pc = "open" /\ call'[d].req = r
      BY <2>2 DEF Busy, Req
    <3>2. CASE d # c
      <4>1. Busy(d, "open") /\ Req(d) = r
        BY <3>1, <3>2 DEF Steady, Busy, Req
      <4>2. Granted(r)
        BY <4>1 DEF Granted
      <4> QED
        BY <1>2, <4>2, Unbegun DEF Contenders
    <3>3. CASE d = c
      <4>1. call[c].pc = "find" /\ Req(c) = r
        BY <3>1, <3>3 DEF Steady, Req
      <4>2. Unasked(r)
        BY <1>2, <4>1, Unbegun
      <4>3. op[r] # "none"
        BY <3>1, <3>3, <4>1, <4>2 DEF Steady, Unasked
      <4> QED
        BY <1>2, <4>2, <4>3 DEF Granted, Contenders
    <3> QED
      BY <3>2, <3>3
  <2> QED
    BY <1>3, <2>1, <2>2 DEF Granted
<1>4. ASSUME NEW r \in Contenders', NEW d \in Calls, Counting(d, r)', r \notin Contenders
      PROVE  call'[d].step = 1 /\ call'[d].live = 0
  <2>1. ASSUME Counting(d, r) PROVE FALSE
    BY <1>2, <1>4, <2>1, Unbegun DEF Counting, Busy, Contenders
  <2> QED
    BY <1>1, <1>2, <1>4, <2>1
<1>5. ASSUME NEW r \in Contenders' \cap Contenders PROVE Place(state'[r]) >= Place(state[r])
  BY <1>5 DEF Contenders, Steady, Unasked, Begun
<1> QED
  BY <1>1, <1>3, <1>4, <1>5, QuotaCalm DEF IInv

\* One statement of a recount: what it does not find now it finds later, and
\* the last one refuses a request whose set is over the quota.
LEMMA QuotaRecount ==
    ASSUME IInv, QuotaInv, NEW c \in Calls, Count(c), Busy(c, "recount")
    PROVE  QuotaInv'
<1> DEFINE r0 == call[c].req
<1>1. /\ call[c] \in CallLocals /\ call[c].pc = "recount" /\ r0 \in Requests
      /\ call[c].step \in 1 .. 4 /\ call[c].live \in Nat
      /\ call \in [Calls -> {Idle} \cup CallLocals]
  BY BusyCall DEF IInv, TypeOK, Busy, CallLocals
<1>2. PICK t \in At(c) .. now :
         call' = [call EXCEPT ![c] = Tally(call[c], call[c].live + Cardinality(Counted(c, t)))]
  BY DEF Count
<1> DEFINE live == call[c].live + Cardinality(Counted(c, t))
<1>3. /\ call'[c] = Tally(call[c], live)
      /\ \A d \in Calls \ {c} : call'[d] = call[d]
      /\ UNCHANGED <<state, decidedBy, op>>
  BY <1>1, <1>2 DEF Count
<1>4. call'[c].req = r0 /\ call'[c].pc \in {"recount", "open", "fail"}
  BY <1>1, CountCall DEF IInv
<1>5. /\ call[c].step < 4 => /\ call'[c].pc = "recount" /\ call'[c].step = call[c].step + 1
                             /\ call'[c].live = live
      /\ call[c].step = 4 => call'[c].pc = IF RunsAtOnce(live) THEN "open" ELSE "fail"
  <2>1. ~(call[c].step < 4) <=> call[c].step = 4
    BY <1>1
  <2> HIDE DEF live
  <2> QED
    BY <1>1, <1>3, <2>1, TallyCounters
<1>6. \A d \in Calls, r \in Requests : (Counting(d, r) /\ d # c)' => Counting(d, r)
  BY <1>3 DEF Counting, Busy, Req
<1>7. ASSUME NEW r \in Contenders' PROVE r \in Contenders
  <2>1. Unasked(r) /\ r \in Requests
    BY <1>3 DEF Contenders, Unasked
  <2>2. CASE r = r0
    BY <1>1, <2>1, <2>2 DEF Contenders, Counting, Busy, Req
  <2>3. CASE r # r0
    <3>1. Granted(r) \/ \E d \in Calls : Counting(d, r)
      BY <1>3, <1>4, <2>3 DEF Contenders, Granted, Counting, Busy, Req
    <3> QED
      BY <2>1, <3>1 DEF Contenders
  <2> QED
    BY <2>2, <2>3
<1>8. SUFFICES ASSUME NEW S \in SUBSET Contenders', Cardinality(S) > Max
               PROVE  \E r \in S : Refused(r, S)'
  BY DEF QuotaInv
<1>9. S \subseteq Contenders /\ S \subseteq Requests /\ Max \in Nat
  BY <1>7, BrokerAssumption DEF Contenders
<1>10. PICK r \in S : Refused(r, S)
  BY <1>8, <1>9 DEF QuotaInv
<1>11. ASSUME NEW d \in Calls \ {c}, Counting(d, r)' PROVE Sees(d, S)'
  <2>1. Counting(d, r) /\ call'[d] = call[d]
    BY <1>3, <1>6, <1>9, <1>11
  <2>2. Sees(d, S)
    BY <1>10, <2>1 DEF Refused
  <2> QED
    BY <1>3, <2>1, <2>2 DEF Sees, Ahead, Req
<1>12. CASE r # r0
  <2>1. ~Granted(r)'
    BY <1>3, <1>4, <1>10, <1>12 DEF Refused, Granted, Busy, Req
  <2>2. ~Counting(c, r)'
    BY <1>4, <1>12 DEF Counting, Req
  <2> QED
    BY <1>11, <2>1, <2>2 DEF Refused
<1>13. CASE r = r0
  <2> DEFINE k == call[c].step
             T == S \ {r0}
             A == Ahead(T, k)
             B == Ahead(T, k + 1)
             C == Counted(c, t)
  <2>1. call[c].live + Cardinality(A) >= Max
    BY <1>1, <1>10, <1>13 DEF Refused, Sees, Counting, Busy, Req
  <2>2. A \subseteq C \cup B
    <3>1. SUFFICES ASSUME NEW q \in A, q \notin B PROVE q \in C
      OBVIOUS
    <3>2. q \in Requests /\ q # r0 /\ Unasked(q) /\ state[q] \in RowState
      BY <1>9, <3>1 DEF Ahead, Contenders, IInv, TypeOK
    <3>3. Place(state[q]) \in 2 .. 4 /\ state[q] # "pending"
      BY <3>2, Places
    <3>4. Place(state[q]) = k
      BY <1>1, <3>1, <3>3 DEF Ahead
    <3>5. state[q] = QuotaStates[k]
      BY <1>1, <3>2, <3>4, Places
    <3> QED
      BY <3>2, <3>3, <3>5 DEF Counted, Req
  <2>3. C \subseteq Requests /\ B \subseteq Requests /\ A \subseteq Requests
    BY <1>9 DEF Counted, Ahead
  <2>4. /\ IsFiniteSet(B) /\ IsFiniteSet(C) /\ C \cap B \subseteq Requests
        /\ C \cup B \subseteq Requests
        /\ Cardinality(B) \in Nat /\ Cardinality(C) \in Nat
    BY <2>3, Counts
  <2>5. Cardinality(C \cup B) <= Cardinality(C) + Cardinality(B)
    <3>1. Cardinality(C \cap B) \in Nat
      BY <2>4, Counts
    <3>2. Cardinality(C \cup B) = Cardinality(C) + Cardinality(B) - Cardinality(C \cap B)
      BY <2>4, FS_Union
    <3> QED
      BY <2>4, <3>1, <3>2
  <2>6. Cardinality(A) <= Cardinality(C \cup B) /\ Cardinality(A) \in Nat
        /\ Cardinality(C \cup B) \in Nat
    BY <2>2, <2>4, Counts
  <2>7. call[c].live + Cardinality(C) + Cardinality(B) >= Max
    <3> HIDE DEF A, B, C
    <3> QED
      BY <1>1, <1>9, <2>1, <2>4, <2>5, <2>6
  <2>8. CASE k < 4
    <3>1. ~Granted(r)'
      BY <1>3, <1>5, <1>10, <2>8 DEF Refused, Granted, Busy, Req
    <3>2. Ahead(S \ {Req(c)}, call[c].step)' = B
      BY <1>3, <1>4, <1>5, <2>8 DEF Ahead, Req
    <3>3. Sees(c, S)'
      BY <1>3, <1>5, <2>7, <2>8, <3>2 DEF Sees
    <3> QED
      BY <1>11, <3>1, <3>3 DEF Refused
  <2>9. CASE k = 4
    <3>1. B = {}
      <4>1. \A q \in T : Place(state[q]) \in 0 .. 4
        BY <1>9, Places DEF IInv, TypeOK
      <4> QED
        BY <2>9, <4>1 DEF Ahead
    <3>2. Cardinality(B) = 0
      BY <3>1, FS_EmptySet
    <3>3. live >= Max /\ live \in Nat
      BY <1>1, <2>4, <2>7, <3>2
    <3>4. call'[c].pc = "fail"
      BY <1>5, <1>9, <2>9, <3>3 DEF RunsAtOnce
    <3>5. ~Granted(r)' /\ ~Counting(c, r)'
      BY <1>3, <1>10, <3>4 DEF Refused, Granted, Counting, Busy, Req
    <3> QED
      BY <1>11, <3>5 DEF Refused
  <2> QED
    BY <1>1, <2>8, <2>9
<1> QED
  BY <1>12, <1>13

\* A step that writes no row and starts no count keeps the quota.
LEMMA QuotaApart ==
    ASSUME IInv, QuotaInv, TypeOK', UNCHANGED <<state, decidedBy>>,
           \A r \in Requests : op'[r] # "none" => op[r] # "none",
           \A c \in Calls : call'[c].pc \in {"recount", "open"} => call'[c] = call[c]
    PROVE  QuotaInv'
<1>1. \A r \in Requests, c \in Calls : Counting(c, r)' => Counting(c, r) /\ call'[c] = call[c]
  BY DEF Counting, Busy, Req
<1>2. \A r \in Requests : Granted(r)' => Granted(r)
  BY DEF Granted, Busy, Req
<1>3. \A r \in Contenders' : r \in Contenders /\ Place(state'[r]) >= Place(state[r])
  <2>1. ASSUME NEW r \in Contenders' PROVE r \in Requests /\ Unasked(r)
    BY DEF Contenders, Unasked
  <2> QED
    BY <1>1, <1>2, <2>1, Places DEF Contenders
<1>4. \A r \in Contenders' : r \in Requests
  BY DEF Contenders
<1> QED
  BY <1>1, <1>2, <1>3, <1>4, QuotaCalm DEF IInv

\* Every step keeps the quota.
LEMMA QuotaStep == IInv /\ CountInv /\ [Next]_vars => CountInv'
<1> SUFFICES ASSUME IInv, CountInv, [Next]_vars PROVE QuotaInv'
  BY LocalsStep DEF CountInv
<1>1. QuotaInv /\ LocalsInv /\ TypeOK /\ TypeOK'
  BY StepIInv DEF CountInv, IInv
<1>2. ASSUME NEW c \in Calls, CallStep(c) PROVE QuotaInv'
  BY <1>1, <1>2, CallSteady, QuotaSteady, QuotaRecount
<1>3. ASSUME NEW c \in Calls, NEW what \in Whats, NEW r \in Requests,
             NEW who \in Approvers \cup {NoOne}, Begin(c, what, r, who)
      PROVE  QuotaInv'
  <2>1. \A d \in Calls : call'[d].pc \in {"recount", "open"} => call'[d] = call[d]
    BY <1>1, <1>3 DEF Begin, TypeOK
  <2> QED
    BY <1>1, <1>3, <2>1, QuotaApart DEF Begin
<1>4. ASSUME NEW r \in Requests, OperationMoves(r) PROVE QuotaInv'
  BY <1>1, <1>4, QuotaApart DEF OperationMoves, TypeOK
<1>5. CASE Restart
  BY <1>1, <1>5, QuotaApart DEF Restart, Idle
<1>6. CASE Tick \/ UNCHANGED vars
  BY <1>1, <1>6, QuotaApart DEF Tick, vars
<1> QED
  BY <1>2, <1>3, <1>4, <1>5, <1>6 DEF Next

\* The quota bounds what runs unasked, although it is counted over four
\* statements while other requests move, and before the row is inserted.
THEOREM QuotaIsKept == Spec => []QuotaKept
<1>1. Init => CountInv
  <2> SUFFICES ASSUME Init PROVE CountInv
    OBVIOUS
  <2>1. Contenders = {} /\ \A c \in Calls : call[c].pc = "idle"
    BY DEF Init, Contenders, Unasked, Idle
  <2>2. \A S \in SUBSET Contenders : Cardinality(S) = 0
    BY <2>1, FS_EmptySet
  <2> QED
    BY <2>1, <2>2, BrokerAssumption DEF CountInv, LocalsInv, QuotaInv
<1>2. IInv /\ CountInv => QuotaKept
  <2> SUFFICES ASSUME IInv, CountInv, ~QuotaKept PROVE FALSE
    OBVIOUS
  <2>1. \A r \in RunningUnasked : Granted(r) /\ r \in Contenders
    BY DEF RunningUnasked, Contenders, Unasked, Granted, IInv, RowInv
  <2>2. Cardinality(RunningUnasked) \in Nat /\ Max \in Nat
    BY Counts, BrokerAssumption DEF RunningUnasked
  <2>3. Cardinality(RunningUnasked) > Max
    BY <2>2 DEF QuotaKept
  <2>4. PICK r \in RunningUnasked : Refused(r, RunningUnasked)
    BY <2>1, <2>3 DEF CountInv, QuotaInv
  <2> QED
    BY <2>1, <2>4 DEF Refused
<1> QED
  BY <1>1, <1>2, QuotaStep, Inductive, PTL DEF Spec

-----------------------------------------------------------------------------
(* The broker implements the record.                                       *)

\* An empty table is an empty record.
LEMMA RecordInit == Init => Record!Init
BY DEF Init, Record!Init, Stage

\* A transition the broker makes is a decision, a start or an end.
LEMMA SetsRecord ==
    ASSUME TypeOK, NEW r \in Requests, NEW from, NEW to, NEW by,
           Sets(r, from, to, by), UNCHANGED op,
           \/ from = "pending" /\ to \in {"approved", "denied", "expired"} /\ by \in Deciders
              /\ by # NoOne
           \/ from = "approved" /\ to = "failed" /\ by = NoOne
           \/ from = "approved" /\ to = "executing" /\ by = NoOne /\ op[r] # "none"
           \/ from = "executing" /\ to \in {"succeeded", "failed"} /\ by = NoOne
    PROVE  Record!Next \/ UNCHANGED Record!vars
<1> USE DEF Record!vars, Record!Move, Record!DecidedBy
<1> DEFINE stages == [q \in Requests |-> Stage(state[q])]
<1> DEFINE opened == {q \in Requests : op[q] # "none"}
<1>1. opened' = opened
  OBVIOUS
<1>2. CASE state[r] # from
  <2>1. state' = state /\ decidedBy' = decidedBy
    BY <1>2 DEF Sets, TypeOK
  <2> QED
    BY <1>1, <2>1
<1>3. CASE state[r] = from
  <2>1. state' = [state EXCEPT ![r] = to]
    BY <1>3 DEF Sets, TypeOK
  <2>2. decidedBy' = [decidedBy EXCEPT ![r] = IF by = NoOne THEN decidedBy[r] ELSE by]
    BY <1>3 DEF Sets, TypeOK
  <2>3. stages' = [stages EXCEPT ![r] = Stage(to)] /\ stages[r] = Stage(from)
    BY <1>3, <2>1 DEF TypeOK
  <2>4. CASE from = "pending" /\ to \in {"approved", "denied", "expired"} /\ by \in Deciders
             /\ by # NoOne
    <3>1. Stage(from) = "waiting" /\ Stage(to) \in {"approved", "refused"}
      BY <2>4 DEF Stage
    <3>2. Record!Decide(r)
      BY <1>1, <2>2, <2>3, <2>4, <3>1 DEF Record!Decide
    <3> QED
      BY <3>2 DEF Record!Next
  <2>5. CASE by = NoOne
    <3>1. decidedBy' = decidedBy
      BY <2>2, <2>5 DEF TypeOK
    <3>2. CASE from = "approved" /\ to = "failed"
      <4>1. Stage(from) = "approved" /\ Stage(to) = "failed"
        BY <3>2 DEF Stage
      <4>2. Record!Finish(r)
        BY <1>1, <2>3, <3>1, <4>1 DEF Record!Finish
      <4> QED
        BY <4>2 DEF Record!Next
    <3>3. CASE from = "approved" /\ to = "executing" /\ op[r] # "none"
      <4>1. Stage(from) = "approved" /\ Stage(to) = "running" /\ r \in opened
        BY <3>3 DEF Stage
      <4>2. Record!Run(r)
        BY <1>1, <2>3, <3>1, <4>1 DEF Record!Run
      <4> QED
        BY <4>2 DEF Record!Next
    <3>4. CASE from = "executing" /\ to \in {"succeeded", "failed"}
      <4>1. Stage(from) = "running" /\ Stage(to) \in {"done", "failed"}
        BY <3>4 DEF Stage
      <4>2. Record!Finish(r)
        BY <1>1, <2>3, <3>1, <4>1 DEF Record!Finish
      <4> QED
        BY <4>2 DEF Record!Next
    <3> QED
      BY <2>5, <3>2, <3>3, <3>4
  <2> QED
    BY <2>4, <2>5
<1> QED
  BY <1>2, <1>3

\* A call that ends with a transition is a step of the record.
LEMMA SettleRecord ==
    ASSUME TypeOK, NEW c \in Calls, call[c].pc # "idle", NEW from, NEW to \in RowState,
           NEW by \in Deciders \cup {NoOne}, Settle(c, from, to, by),
           \/ from = "pending" /\ to \in {"denied", "expired"} /\ by \in {"policy", "system"}
           \/ from = "approved" /\ to = "failed" /\ by = NoOne
           \/ from = "executing" /\ to \in {"succeeded", "failed"} /\ by = NoOne
    PROVE  Record!Next \/ UNCHANGED Record!vars
<1>1. call[c].req \in Requests
  BY BusyCall DEF CallLocals
<1>2. Sets(call[c].req, from, to, by) /\ UNCHANGED op
  BY SettleCall
<1>3. from = "pending" => by \in Deciders /\ by # NoOne
  BY DEF Deciders, NoOne
<1> QED
  BY <1>1, <1>2, <1>3, SetsRecord

\* The creation of an operation is the record's, and only of an approved or
\* failed request.
LEMMA OpenRecord ==
    ASSUME TypeOK, NEW r \in Requests, op[r] = "none", state[r] \in {"approved", "failed"},
           UNCHANGED columns, op' = [op EXCEPT ![r] = "open"]
    PROVE  Record!Next
<1> DEFINE opened == {q \in Requests : op[q] # "none"}
<1>1. opened' = opened \cup {r} /\ r \notin opened
  BY DEF TypeOK
<1>2. Stage(state[r]) \in {"approved", "failed"}
  BY DEF Stage
<1>3. Record!Open(r)
  BY <1>1, <1>2 DEF Record!Open
<1> QED
  BY <1>3 DEF Record!Next

\* So is every step of the broker, or one that changes nothing of the record.
LEMMA RecordStep == IInv /\ [Next]_vars => [Record!Next]_(Record!vars)
<1> SUFFICES ASSUME IInv, [Next]_vars
             PROVE  Record!Next \/ UNCHANGED Record!vars
  OBVIOUS
<1>1. TypeOK /\ RowInv /\ CallInv
  BY DEF IInv
<1>2. ASSUME UNCHANGED <<columns, op>> PROVE UNCHANGED Record!vars
  BY <1>2 DEF Record!vars
<1>3. ASSUME NEW c \in Calls, CallStep(c)
      PROVE  Record!Next \/ UNCHANGED Record!vars
  <2> DEFINE r == call[c].req
  <2> USE DEF Busy, Req, At
  <2>1. call[c].pc # "idle"
    BY <1>3 DEF CallStep, Lookup, Count, Insert, Abandon, Made, Expire, PolicyDeny, Fail,
       Succeed, End, Load, Decide, Find, Open, OpenFails, Link, Operation
  <2>2. /\ call[c] \in CallLocals /\ r \in Requests /\ call[c].at \in 0 .. MaxTime
        /\ Sound(c)
    BY <1>1, <2>1, BusyCall DEF CallLocals, CallInv
  <2>3. CASE Lookup(c) \/ Count(c) \/ Made(c) \/ Load(c) \/ Find(c) \/ Operation(c)
    BY <1>2, <2>3 DEF Lookup, Count, Made, Load, Find, Operation
  <2>4. CASE Abandon(c) \/ Expire(c) \/ PolicyDeny(c)
    BY <1>1, <2>1, <2>4, SettleRecord
       DEF Abandon, Expire, PolicyDeny, RowState, RequestState, Deciders
  <2>5. CASE Fail(c) \/ Succeed(c) \/ End(c)
    BY <1>1, <2>1, <2>5, SettleRecord DEF Fail, Succeed, End, RowState, RequestState
  <2>6. CASE Insert(c)
    <3>1. CASE state[r] # "absent"
      BY <1>2, <2>6, <3>1 DEF Insert
    <3>2. CASE state[r] = "absent"
      <4> DEFINE stages == [q \in Requests |-> Stage(state[q])]
      <4>1. UNCHANGED op
        BY <2>6 DEF Insert
      <4>2. \/ /\ state' = [state EXCEPT ![r] = "approved"]
               /\ decidedBy' = [decidedBy EXCEPT ![r] = PolicyAuto]
            \/ state' = [state EXCEPT ![r] = "pending"] /\ decidedBy' = decidedBy
        BY <2>6, <3>2 DEF Insert
      <4>3. stages[r] = "absent" /\ Stage("approved") = "approved" /\ Stage("pending") = "waiting"
        BY <2>2, <3>2 DEF Stage
      <4>4. CASE /\ state' = [state EXCEPT ![r] = "approved"]
                 /\ decidedBy' = [decidedBy EXCEPT ![r] = PolicyAuto]
        <5>1. stages' = [stages EXCEPT ![r] = "approved"]
          BY <1>1, <2>2, <4>3, <4>4 DEF TypeOK
        <5>2. Record!Ask(r)
          BY <4>1, <4>3, <4>4, <5>1 DEF Record!Ask, Record!Move, Record!DecidedBy, Deciders
        <5> QED
          BY <2>2, <5>2 DEF Record!Next
      <4>5. CASE state' = [state EXCEPT ![r] = "pending"] /\ decidedBy' = decidedBy
        <5>1. stages' = [stages EXCEPT ![r] = "waiting"]
          BY <1>1, <2>2, <4>3, <4>5 DEF TypeOK
        <5>2. Record!Ask(r)
          BY <4>1, <4>3, <4>5, <5>1 DEF Record!Ask, Record!Move
        <5> QED
          BY <2>2, <5>2 DEF Record!Next
      <4> QED
        BY <4>2, <4>4, <4>5
    <3> QED
      BY <3>1, <3>2
  <2>7. CASE Decide(c)
    <3> DEFINE to == IF call[c].what = "approve" THEN "approved" ELSE "denied"
    <3>1. CASE state[r] = "pending" /\ expiresAt[r] > call[c].at
      <4>1. /\ Transition(r, "pending", to, call[c].who, call[c].at) /\ UNCHANGED op
        BY <2>7, <3>1 DEF Decide
      <4>2. call[c].who \in Deciders /\ call[c].who # NoOne
        BY <2>2, <2>7, BrokerAssumption DEF Sound, Decide, Deciders, NoOne
      <4>3. to \in {"approved", "denied"} /\ to \in RowState
        BY DEF RowState, RequestState
      <4> HIDE DEF to
      <4>4. Sets(r, "pending", to, call[c].who)
        BY <1>1, <2>2, <4>1, <4>2, <4>3, TransitionSets
      <4> QED
        BY <1>1, <2>2, <4>1, <4>2, <4>3, <4>4, SetsRecord
    <3>2. CASE ~(state[r] = "pending" /\ expiresAt[r] > call[c].at)
      BY <1>2, <2>7, <3>2 DEF Decide
    <3> QED
      BY <3>1, <3>2
  <2>8. ASSUME Created(c), UNCHANGED columns, call[c].pc = "open"
        PROVE  Record!Next \/ UNCHANGED Record!vars
    <3>1. CASE op[r] # "none"
      <4>1. op' = op
        BY <1>1, <2>8, <3>1 DEF Created, TypeOK
      <4> QED
        BY <1>2, <2>8, <4>1
    <3>2. CASE op[r] = "none"
      <4>1. op' = [op EXCEPT ![r] = "open"]
        BY <1>1, <2>8, <3>2 DEF Created, TypeOK
      <4>2. state[r] \in {"approved", "failed"}
        BY <1>1, <2>2, <2>8, <3>2 DEF Sound, RowInv, Begun
      <4> QED
        BY <1>1, <2>2, <2>8, <3>2, <4>1, <4>2, OpenRecord
    <3> QED
      BY <3>1, <3>2
  <2>9. CASE Open(c) \/ OpenFails(c)
    BY <1>2, <2>8, <2>9 DEF Open, OpenFails
  <2>10. CASE Link(c)
    <3>1. op[r] # "none" /\ UNCHANGED op
      BY <2>2, <2>10 DEF Link, Sound
    <3>2. Sets(r, "approved", "executing", NoOne)
      BY <1>1, <2>2, <2>10, TransitionSets DEF Link, RowState, RequestState
    <3> QED
      BY <1>1, <2>2, <3>1, <3>2, SetsRecord
  <2> QED
    BY <1>3, <2>3, <2>4, <2>5, <2>6, <2>7, <2>9, <2>10 DEF CallStep
<1>4. ASSUME NEW q \in Requests, OperationMoves(q) PROVE UNCHANGED Record!vars
  <2>1. {r \in Requests : op'[r] # "none"} = {r \in Requests : op[r] # "none"}
    BY <1>1, <1>4 DEF OperationMoves, TypeOK
  <2> QED
    BY <1>4, <2>1 DEF OperationMoves, Record!vars
<1>5. CASE Restart \/ Tick \/ UNCHANGED vars
  BY <1>2, <1>5 DEF Restart, Tick, vars
<1>6. ASSUME NEW c \in Calls, NEW what \in Whats, NEW q \in Requests,
             NEW who \in Approvers \cup {NoOne}, Begin(c, what, q, who)
      PROVE  UNCHANGED Record!vars
  BY <1>2, <1>6 DEF Begin
<1> QED
  BY <1>3, <1>4, <1>5, <1>6 DEF Next

\* Concurrent creations, decisions, expiries, recoveries and restarts never
\* decide a request twice, act on one that was not approved or was refused, or
\* run one without its operation.
THEOREM BrokerImplementsRecord == Spec => ImplementsRecord
<1>1. Init => Record!Init
  BY RecordInit
<1>2. IInv /\ [Next]_vars => [Record!Next]_(Record!vars)
  BY RecordStep
<1> QED
  BY <1>1, <1>2, Inductive, PTL DEF Spec, ImplementsRecord, Record!Spec
=============================================================================
