---------------------------- MODULE OutboxProofs ----------------------------
(***************************************************************************)
(* Proofs about Outbox, for any number of submissions, processes, tasks,    *)
(* attempts, failures, crashes and calls.                                   *)
(***************************************************************************)
EXTENDS Outbox, TLAPS

USE DEF Workers

LEMMA HomeIsProc == \A w \in Workers : Home[w] \in Procs
  BY WorkersAssumption

LEMMA LaterIsTime == \A t, d \in Nat : Later(t, d) \in Times
  BY BoundsAssumption DEF Later, Lesser, Times

LEMMA BlankIsLocal == Blank \in Locals
  BY BoundsAssumption DEF Blank, Locals, NoSched, Schedule, Times, MaybeAt, Outcomes

LEMMA NoPassIsPass == NoPass \in Passes
  BY BoundsAssumption DEF NoPass, Passes, Times

LEMMA NoSchedIsSchedule == NoSched \in Schedule
  BY BoundsAssumption DEF NoSched, Schedule, Times, MaybeAt

\* The delay before a retry is only computed while attempts are left.
LEMMA NextAttemptIsTime ==
  ASSUME NEW l \in Locals PROVE NextAttempt(l) \in MaybeAt /\ Verdict(l) \in Statuses
  <1>1. Verdict(l) \in Statuses
    BY DEF Verdict, Statuses, Terminal
  <1>2. CASE Verdict(l) = "pending"
    <2>1. l.tries + 1 \in 1 .. MaxAttempts
      BY <1>2, BoundsAssumption DEF Verdict, Locals
    <2>2. RetryDelay(l.tries + 1) \in Nat
      BY <2>1, DelayAssumption
    <2>3. l.clock \in Nat
      BY BoundsAssumption DEF Locals, Times
    <2> QED
      BY <1>1, <1>2, <2>2, <2>3, LaterIsTime DEF NextAttempt, MaybeAt
  <1>3. CASE Verdict(l) # "pending"
    BY <1>1, <1>3 DEF NextAttempt, MaybeAt
  <1> QED
    BY <1>2, <1>3

-----------------------------------------------------------------------------
(* Type correctness. *)

LEMMA TypeInit == Init => TypeOK
  BY BoundsAssumption, BlankIsLocal, NoPassIsPass, NoSchedIsSchedule
  DEF Init, TypeOK, RowTypeOK, WorldTypeOK, TaskTypeOK, MemoryTypeOK, BudgetTypeOK,
      HistoryTypeOK, Statuses, Times, Guarded, Unguarded

LEMMA GotoType ==
  ASSUME TaskTypeOK, NEW w \in Workers, NEW point \in Guarded \cup Unguarded,
         NEW l \in Locals, Goto(w, point, l)
  PROVE  /\ pc' \in [Workers -> Guarded \cup Unguarded]
         /\ loc' \in [Workers -> Locals]
  BY DEF TaskTypeOK, Goto

LEMMA ProceedType ==
  ASSUME TaskTypeOK, NEW w \in Workers, NEW point \in Guarded \cup Unguarded,
         NEW l \in Locals, Proceed(w, point, l)
  PROVE  TaskTypeOK'
  BY GotoType DEF TaskTypeOK, Proceed

LEMMA ReturnType ==
  ASSUME TaskTypeOK, NEW w \in Workers, NEW s \in Subs, Return(w, s)
  PROVE  TaskTypeOK'
  <1>1. inflight' \in [Procs -> SUBSET Subs]
    BY HomeIsProc DEF TaskTypeOK, Return
  <1>2. {"pass", "idle"} \subseteq Guarded \cup Unguarded
    BY DEF Unguarded
  <1> QED
    BY <1>1, <1>2, GotoType, BlankIsLocal DEF TaskTypeOK, Return

LEMMA AbortType ==
  ASSUME TaskTypeOK, NEW w \in Workers, NEW s \in Subs, Abort(w, s)
  PROVE  TaskTypeOK'
  <1>1. inflight' \in [Procs -> SUBSET Subs]
    BY HomeIsProc DEF TaskTypeOK, Abort
  <1>2. pass' \in [Dispatchers -> Passes]
    BY NoPassIsPass DEF TaskTypeOK, Abort
  <1>3. "idle" \in Guarded \cup Unguarded
    BY DEF Unguarded
  <1> QED
    BY <1>1, <1>2, <1>3, GotoType, BlankIsLocal DEF TaskTypeOK, Abort

LEMMA NotSentType ==
  ASSUME TaskTypeOK, NEW w \in Workers, NEW s \in Subs, NEW o \in Outcomes, NotSent(w, s, o)
  PROVE  TaskTypeOK'
  <1> DEFINE l == [loc[w] EXCEPT !.outcome = o]
  <1>1. l \in Locals
    BY DEF TaskTypeOK, Locals
  <1>2. {"finish", "report"} \subseteq Guarded \cup Unguarded
    BY DEF Guarded, Unguarded
  <1>3. CASE Proceed(w, "finish", l)
    BY <1>1, <1>2, <1>3, ProceedType
  <1>4. CASE /\ Goto(w, "report", l)
             /\ inflight' = [inflight EXCEPT ![Home[w]] = @ \ {s}]
             /\ UNCHANGED pass
    <2>1. inflight' \in [Procs -> SUBSET Subs]
      BY <1>4, HomeIsProc DEF TaskTypeOK
    <2> QED
      BY <1>1, <1>2, <1>4, <2>1, GotoType DEF TaskTypeOK
  <1> QED
    BY <1>3, <1>4 DEF NotSent

LEMMA BudgetType ==
  ASSUME BudgetTypeOK, Fault \/ NoFault \/ Request
  PROVE  BudgetTypeOK'
  BY BoundsAssumption DEF BudgetTypeOK, Fault, NoFault, Request, budget

LEMMA AcceptAttemptType ==
  ASSUME RowTypeOK, NEW s \in Subs, NEW c, AcceptAttempt(s, c) \/ UNCHANGED row
  PROVE  RowTypeOK'
  <1>1. CASE UNCHANGED row
    BY <1>1 DEF RowTypeOK, row
  <1>2. CASE AcceptAttempt(s, c) /\ Matches(s, c)
    <2>1. sched' \in [Subs -> Schedule]
      BY <1>2 DEF AcceptAttempt, RowTypeOK, Schedule, MaybeAt
    <2> QED
      BY <1>2, <2>1 DEF AcceptAttempt, RowTypeOK, Statuses, Terminal
  <1> QED
    BY <1>1, <1>2 DEF AcceptAttempt

LEMMA FinishAttemptType ==
  ASSUME RowTypeOK, NEW s \in Subs, NEW c, NEW v \in Statuses, NEW n \in MaybeAt,
         FinishAttempt(s, c, v, n) \/ UNCHANGED row
  PROVE  RowTypeOK'
  <1>1. CASE UNCHANGED row
    BY <1>1 DEF RowTypeOK, row
  <1>2. CASE FinishAttempt(s, c, v, n) /\ Matches(s, c)
    <2>1. sched' \in [Subs -> Schedule]
      BY <1>2 DEF FinishAttempt, RowTypeOK, Schedule
    <2> QED
      BY <1>2, <2>1 DEF FinishAttempt, RowTypeOK
  <1> QED
    BY <1>1, <1>2 DEF FinishAttempt

\* Store calls of an attempt that leave the row alone.
LEMMA ReadsType ==
  ASSUME TypeOK, NEW w \in Workers, NEW s \in Subs,
         LoadRow(w, s) \/ ReadHold(w, s) \/ ReadAttempts(w, s) \/ ReadInstructions(w, s)
  PROVE  TypeOK'
  <1> USE DEF TypeOK
  <1>1. loc[w] \in Locals /\ sched[s] \in Schedule
    BY DEF TaskTypeOK, RowTypeOK
  <1>2. RowTypeOK' /\ WorldTypeOK' /\ MemoryTypeOK' /\ HistoryTypeOK'
    BY DEF LoadRow, ReadHold, ReadAttempts, ReadInstructions, row, world, history,
           RowTypeOK, WorldTypeOK, MemoryTypeOK, HistoryTypeOK
  <1>3. BudgetTypeOK'
    BY BudgetType DEF LoadRow, ReadHold, ReadAttempts, ReadInstructions
  <1>4. {"persist", "hold", "attempts", "instr", "claim"} \subseteq Guarded \cup Unguarded
    BY DEF Guarded
  <1>5. CASE LoadRow(w, s)
    <2>1. [loc[w] EXCEPT !.seen =
             [sched[s] EXCEPT !.hold = FALSE, !.next = NoTime, !.instr = 0]] \in Locals
      <3>1. [sched[s] EXCEPT !.hold = FALSE, !.next = NoTime, !.instr = 0] \in Schedule
        <4>1. 0 \in 0 .. MaxRequests /\ NoTime \in MaybeAt
          BY BoundsAssumption DEF MaybeAt
        <4> QED
          BY <1>1, <4>1 DEF Schedule
      <3> QED
        BY <1>1, <3>1 DEF Locals
    <2> QED
      BY <1>1, <1>2, <1>3, <1>4, <1>5, <2>1, ReturnType, AbortType, ProceedType DEF LoadRow
  <1>6. CASE ReadHold(w, s)
    BY <1>1, <1>2, <1>3, <1>4, <1>6, ReturnType, AbortType, ProceedType DEF ReadHold
  <1>7. CASE ReadAttempts(w, s)
    <2>1. [loc[w] EXCEPT !.seen.next = sched[s].next, !.tries = attempts[s]] \in Locals
      BY <1>1 DEF Locals, Schedule, RowTypeOK
    <2> QED
      BY <1>1, <1>2, <1>3, <1>4, <1>7, <2>1, ReturnType, AbortType, ProceedType
      DEF ReadAttempts
  <1>8. CASE ReadInstructions(w, s)
    <2>1. [loc[w] EXCEPT !.seen.instr = sched[s].instr] \in Locals
      BY <1>1 DEF Locals, Schedule
    <2> QED
      BY <1>1, <1>2, <1>3, <1>4, <1>8, <2>1, ReturnType, ProceedType DEF ReadInstructions
  <1> QED
    BY <1>5, <1>6, <1>7, <1>8

LEMMA RememberType ==
  ASSUME MemoryTypeOK, NEW w \in Workers, NEW s \in Subs, NEW c \in Nat,
         \/ accepted' = [accepted EXCEPT ![Home[w]][s] = c]
         \/ UNCHANGED accepted,
         UNCHANGED connected
  PROVE  MemoryTypeOK'
  <1>1. accepted[Home[w]] \in [Subs -> Nat]
    BY HomeIsProc DEF MemoryTypeOK
  <1>2. [accepted[Home[w]] EXCEPT ![s] = c] \in [Subs -> Nat]
    BY <1>1
  <1>3. [accepted EXCEPT ![Home[w]] = [accepted[Home[w]] EXCEPT ![s] = c]]
           \in [Procs -> [Subs -> Nat]]
    BY <1>2 DEF MemoryTypeOK
  <1>4. [accepted EXCEPT ![Home[w]][s] = c]
           = [accepted EXCEPT ![Home[w]] = [accepted[Home[w]] EXCEPT ![s] = c]]
    OBVIOUS
  <1> QED
    BY <1>3, <1>4 DEF MemoryTypeOK

\* What an attempt writes to the row and to the memory of its process.
LEMMA RecordsType ==
  ASSUME TypeOK, NEW w \in Workers, NEW s \in Subs,
         \/ PersistAccepted(w, s) \/ RecordDelivered(w, s) \/ FileAfterSend(w, s)
         \/ RecordNotSent(w, s) \/ RecordInline(w, s)
  PROVE  TypeOK'
  <1> USE DEF TypeOK
  <1>1. loc[w] \in Locals /\ loc[w].claim \in Nat
    BY DEF TaskTypeOK, Locals
  <1>2. {"file", "idle"} \subseteq Guarded \cup Unguarded
    BY DEF Guarded, Unguarded
  <1>3. CASE PersistAccepted(w, s)
    <2>1. RowTypeOK'
      BY <1>3, AcceptAttemptType DEF PersistAccepted
    <2>2. TaskTypeOK'
      BY <1>3, ReturnType, AbortType DEF PersistAccepted
    <2>3. BudgetTypeOK'
      BY <1>3, BudgetType DEF PersistAccepted
    <2>4. MemoryTypeOK'
      BY <1>3, RememberType DEF PersistAccepted
    <2> QED
      BY <1>3, <2>1, <2>2, <2>3, <2>4
      DEF PersistAccepted, WorldTypeOK, HistoryTypeOK, world, history
  <1>4. CASE RecordDelivered(w, s)
    <2>1. RowTypeOK'
      BY <1>4, AcceptAttemptType DEF RecordDelivered
    <2>2. TaskTypeOK'
      BY <1>1, <1>2, <1>4, ProceedType DEF RecordDelivered
    <2>3. BudgetTypeOK'
      BY <1>4, BudgetType DEF RecordDelivered
    <2>4. MemoryTypeOK'
      BY <1>1, <1>4, RememberType DEF RecordDelivered
    <2> QED
      BY <1>4, <2>1, <2>2, <2>3, <2>4
      DEF RecordDelivered, WorldTypeOK, HistoryTypeOK, world, history
  <1>5. CASE FileAfterSend(w, s)
    <2>1. TaskTypeOK'
      BY <1>5, ReturnType DEF FileAfterSend
    <2>2. HistoryTypeOK'
      BY <1>1, <1>5 DEF FileAfterSend, HistoryTypeOK, Locals, Schedule
    <2> QED
      BY <1>5, <2>1, <2>2 DEF FileAfterSend, RowTypeOK, WorldTypeOK, MemoryTypeOK,
         BudgetTypeOK, row, world, budget
  <1>6. CASE RecordNotSent(w, s) \/ RecordInline(w, s)
    <2>1. RowTypeOK'
      BY <1>1, <1>6, NextAttemptIsTime, FinishAttemptType
      DEF RecordNotSent, RecordInline, FinishNotSent
    <2>2. TaskTypeOK'
      BY <1>2, <1>6, ReturnType, AbortType, ProceedType, BlankIsLocal
      DEF RecordNotSent, RecordInline
    <2>3. BudgetTypeOK'
      BY <1>6, BudgetType DEF RecordNotSent, RecordInline
    <2> QED
      BY <1>6, <2>1, <2>2, <2>3
      DEF RecordNotSent, RecordInline, WorldTypeOK, MemoryTypeOK, HistoryTypeOK, world, history
  <1> QED
    BY <1>3, <1>4, <1>5, <1>6

LEMMA ClaimType ==
  ASSUME TypeOK, NEW w \in Workers, NEW s \in Subs, ClaimAttempt(w, s)
  PROVE  TypeOK'
  <1> USE DEF TypeOK
  <1>1. loc[w] \in Locals /\ issued[s] \in Nat
    BY DEF TaskTypeOK, WorldTypeOK
  <1>2. [loc[w] EXCEPT !.claim = issued[s] + 1] \in Locals
    BY <1>1 DEF Locals
  <1>3. "smtp" \in Guarded \cup Unguarded
    BY DEF Guarded
  <1>4. TaskTypeOK'
    BY <1>2, <1>3, ReturnType, ProceedType DEF ClaimAttempt
  <1>5. BudgetTypeOK'
    BY BudgetType DEF ClaimAttempt
  <1>6. RowTypeOK' /\ issued' \in [Subs -> Nat]
    <2>1. CASE PutClaim(s)
      BY <1>1, <2>1 DEF PutClaim, RowTypeOK, WorldTypeOK, Statuses
    <2>2. CASE UNCHANGED <<row, issued>>
      BY <2>2 DEF RowTypeOK, WorldTypeOK, row
    <2> QED
      BY <2>1, <2>2 DEF ClaimAttempt
  <1> QED
    BY <1>4, <1>5, <1>6 DEF ClaimAttempt, WorldTypeOK, MemoryTypeOK, HistoryTypeOK, history

\* The dialogue with the outgoing server.
LEMMA ServerType ==
  ASSUME TypeOK, NEW w \in Workers, NEW s \in Subs, ServerAnswers(w, s)
  PROVE  TypeOK'
  <1> USE DEF TypeOK
  <1>1. loc[w] \in Locals
    BY DEF TaskTypeOK
  <1>3. {"quit", "accept"} \subseteq Guarded \cup Unguarded
    BY DEF Guarded
  <1>4. {"transient", "permanent", "uncertain"} \subseteq Outcomes
    BY DEF Outcomes
  <1>5. CASE Transmit(w, s)
    <2>1. TaskTypeOK'
      BY <1>1, <1>3, <1>4, <1>5, ProceedType, NotSentType
      DEF Transmit, Accepted, ReplyLost, NotAccepted
    <2>2. WorldTypeOK'
      BY <1>5 DEF Transmit, Accepted, ReplyLost, NotAccepted, WorldTypeOK
    <2> QED
      BY <1>5, <2>1, <2>2 DEF Transmit, RowTypeOK, MemoryTypeOK, BudgetTypeOK,
         HistoryTypeOK, row, budget, history
  <1>6. CASE Quit(w, s)
    BY <1>1, <1>3, <1>6, ProceedType DEF Quit, RowTypeOK, WorldTypeOK, MemoryTypeOK,
       BudgetTypeOK, HistoryTypeOK, row, world, budget, history
  <1>7. CASE RejectAuth(w, s)
    <2>1. TaskTypeOK'
      BY <1>4, <1>7, NotSentType DEF RejectAuth
    <2>2. MemoryTypeOK'
      BY <1>7, HomeIsProc DEF RejectAuth, MemoryTypeOK
    <2>3. BudgetTypeOK'
      BY <1>7, BudgetType DEF RejectAuth
    <2> QED
      BY <1>7, <2>1, <2>2, <2>3 DEF RejectAuth, RowTypeOK, WorldTypeOK, HistoryTypeOK,
         row, world, history
  <1> QED
    BY <1>5, <1>6, <1>7 DEF ServerAnswers

LEMMA PassType ==
  ASSUME TypeOK, NEW d \in Dispatchers,
         \/ StartPass(d) \/ Scan(d) \/ EndPass(d)
         \/ \E s \in Subs : Take(d, s)
  PROVE  TypeOK'
  <1> USE DEF TypeOK
  <1>1. pass[d] \in Passes /\ d \in Workers
    BY DEF TaskTypeOK
  <1>2. {"pass", "idle", "load"} \subseteq Guarded \cup Unguarded
    BY DEF Guarded, Unguarded
  <1>3. CASE StartPass(d)
    <2>1. [phase |-> "accepted", clock |-> now, todo |-> KnownAccepted(d)] \in Passes
      BY DEF Passes, WorldTypeOK, KnownAccepted
    <2> QED
      BY <1>2, <1>3, <2>1 DEF StartPass, TaskTypeOK, RowTypeOK, WorldTypeOK, MemoryTypeOK,
         BudgetTypeOK, HistoryTypeOK, row, world, memory, budget, history
  <1>4. CASE Scan(d)
    <2> DEFINE due == {s \in Subs : /\ status[s] = "pending"
                                     /\ pass[d].clock >= FireTime(sched[s])}
    <2>1. [pass[d] EXCEPT !.phase = "pending", !.todo = due] \in Passes
      BY <1>1 DEF Passes
    <2>2. TaskTypeOK'
      BY <1>1, <1>2, <1>4, <2>1, NoPassIsPass DEF Scan, TaskTypeOK, memory
    <2>3. BudgetTypeOK'
      BY <1>4, BudgetType DEF Scan
    <2> QED
      BY <1>4, <2>2, <2>3 DEF Scan, RowTypeOK, WorldTypeOK, MemoryTypeOK, HistoryTypeOK,
         row, world, memory, history
  <1>5. CASE EndPass(d)
    BY <1>2, <1>5, NoPassIsPass DEF EndPass, TaskTypeOK, RowTypeOK, WorldTypeOK,
       MemoryTypeOK, BudgetTypeOK, HistoryTypeOK, row, world, memory, budget, history
  <1>6. ASSUME NEW s \in Subs, Take(d, s) PROVE TypeOK'
    <2>1. [pass[d] EXCEPT !.todo = @ \ {s}] \in Passes
      BY <1>1 DEF Passes
    <2>2. pass' \in [Dispatchers -> Passes]
      BY <1>6, <2>1 DEF Take, TaskTypeOK
    <2>3. [Blank EXCEPT !.sub = s, !.clock = pass[d].clock] \in Locals
      BY <1>1, BlankIsLocal DEF Passes, Locals
    <2>4. pc' \in [Workers -> Guarded \cup Unguarded] /\ loc' \in [Workers -> Locals]
      BY <1>1, <1>2, <1>6, <2>3, GotoType DEF Take, TaskTypeOK
    <2>5. inflight' \in [Procs -> SUBSET Subs]
      <3>1. CASE UNCHANGED inflight
        BY <3>1 DEF TaskTypeOK
      <3>2. CASE inflight' = [inflight EXCEPT ![Home[d]] = @ \cup {s}]
        BY <1>1, <3>2, HomeIsProc DEF TaskTypeOK
      <3> QED
        BY <1>6, <3>1, <3>2 DEF Take
    <2> QED
      BY <1>6, <2>2, <2>4, <2>5 DEF Take, TaskTypeOK, RowTypeOK, WorldTypeOK, MemoryTypeOK,
         BudgetTypeOK, HistoryTypeOK, row, world, budget, history
  <1> QED
    BY <1>3, <1>4, <1>5, <1>6

LEMMA InsertType ==
  ASSUME RowTypeOK, NEW s \in Subs, NEW sc \in Schedule, Insert(s, sc)
  PROVE  RowTypeOK'
  BY DEF Insert, RowTypeOK, Statuses

LEMMA ClientType ==
  ASSUME TypeOK, NEW w \in Requests, ClientCall(w)
  PROVE  TypeOK'
  <1> USE DEF TypeOK
  <1> PICK s \in Subs : \/ CreateInline(w, s) \/ CreateWaiting(w, s) \/ Cancel(w, s)
                        \/ Reschedule(w, s) \/ StartRelease(w, s)
    BY DEF ClientCall
  <1>1. w \in Workers /\ now \in Nat /\ now \in Times /\ reqs \in 0 .. MaxRequests
    BY BoundsAssumption DEF WorldTypeOK, BudgetTypeOK, Times
  <1>2. {"instr", "relset", "relcas"} \subseteq Guarded \cup Unguarded
    BY DEF Guarded, Unguarded
  <1>3. BudgetTypeOK'
    BY BudgetType DEF CreateInline, CreateWaiting, Cancel, Reschedule, StartRelease
  <1>4. CASE CreateInline(w, s)
    <2> PICK at \in {NoTime, now} :
          LET sc == [NoSched EXCEPT !.sendAt = at, !.createdAt = now] IN
          /\ Insert(s, sc)
          /\ Goto(w, "instr", [Blank EXCEPT !.sub = s, !.inline = TRUE,
                                            !.clock = now, !.seen = sc])
      BY <1>4 DEF CreateInline
    <2>1. [NoSched EXCEPT !.sendAt = at, !.createdAt = now] \in Schedule
      BY <1>1, NoSchedIsSchedule DEF Schedule, MaybeAt
    <2>2. [Blank EXCEPT !.sub = s, !.inline = TRUE, !.clock = now,
             !.seen = [NoSched EXCEPT !.sendAt = at, !.createdAt = now]] \in Locals
      BY <1>1, <2>1, BlankIsLocal DEF Locals
    <2>3. RowTypeOK'
      BY <2>1, InsertType
    <2>4. pc' \in [Workers -> Guarded \cup Unguarded] /\ loc' \in [Workers -> Locals]
      BY <1>1, <1>2, <2>2, GotoType
    <2>5. inflight' \in [Procs -> SUBSET Subs]
      BY <1>1, <1>4, HomeIsProc DEF CreateInline, TaskTypeOK
    <2> QED
      BY <1>3, <1>4, <2>3, <2>4, <2>5 DEF CreateInline, TaskTypeOK, WorldTypeOK,
         MemoryTypeOK, HistoryTypeOK, world, history
  <1>5. CASE CreateWaiting(w, s)
    <2>1. \A hold \in BOOLEAN, secs \in 0 .. MaxHold, at \in MaybeAt :
            [NoSched EXCEPT !.hold = hold, !.sendAt = at, !.holdSecs = secs,
                            !.createdAt = now] \in Schedule
      BY <1>1, NoSchedIsSchedule DEF Schedule
    <2>2. RowTypeOK'
      BY <1>5, <2>1, InsertType DEF CreateWaiting
    <2> QED
      BY <1>3, <1>5, <2>2 DEF CreateWaiting, TaskTypeOK, WorldTypeOK, MemoryTypeOK,
         HistoryTypeOK, world, memory, tasks, history
  <1>6. CASE Cancel(w, s)
    BY <1>3, <1>6 DEF Cancel, RowTypeOK, Statuses, Terminal, TaskTypeOK, WorldTypeOK,
       MemoryTypeOK, HistoryTypeOK, world, memory, tasks, history
  <1>7. CASE Reschedule(w, s)
    <2> PICK at \in now .. MaxTime :
          sched' = [sched EXCEPT ![s].sendAt = at, ![s].holdSecs = 0, ![s].next = NoTime]
      BY <1>7 DEF Reschedule
    <2>1. at \in MaybeAt /\ NoTime \in MaybeAt /\ 0 \in 0 .. MaxHold
      BY <1>1, BoundsAssumption DEF MaybeAt, Times
    <2>2. [sched[s] EXCEPT !.sendAt = at, !.holdSecs = 0, !.next = NoTime] \in Schedule
      BY <2>1 DEF RowTypeOK, Schedule
    <2>3. sched' \in [Subs -> Schedule]
      BY <2>2 DEF RowTypeOK
    <2> QED
      BY <1>3, <1>7, <2>3 DEF Reschedule, RowTypeOK, TaskTypeOK, WorldTypeOK, MemoryTypeOK,
         HistoryTypeOK, world, memory, tasks, history
  <1>8. CASE StartRelease(w, s)
    <2>1. [Blank EXCEPT !.sub = s, !.req = reqs + 1] \in Locals
      <3>1. reqs + 1 \in 0 .. MaxRequests
        BY <1>1, <1>8, BoundsAssumption DEF StartRelease, Request
      <3> QED
        BY <3>1, BlankIsLocal DEF Locals
    <2>2. pc' \in [Workers -> Guarded \cup Unguarded] /\ loc' \in [Workers -> Locals]
      BY <1>1, <1>2, <1>8, <2>1, GotoType DEF StartRelease
    <2> QED
      BY <1>3, <1>8, <2>2 DEF StartRelease, RowTypeOK, TaskTypeOK, WorldTypeOK,
         MemoryTypeOK, HistoryTypeOK, row, world, memory, history
  <1> QED
    BY <1>4, <1>5, <1>6, <1>7, <1>8

LEMMA ReleaseType ==
  ASSUME TypeOK, NEW w \in Requests, NEW s \in Subs,
         SetInstructions(w, s) \/ ReleaseRow(w, s) \/ AttemptReleased(w, s)
  PROVE  TypeOK'
  <1> USE DEF TypeOK
  <1>1. w \in Workers /\ now \in Times /\ loc[w] \in Locals
    BY DEF WorldTypeOK, TaskTypeOK
  <1>2. {"idle", "relcas", "enter", "load"} \subseteq Guarded \cup Unguarded
    BY DEF Guarded, Unguarded
  <1>3. CASE SetInstructions(w, s)
    <2>1. sched' \in [Subs -> Schedule]
      BY <1>1, <1>3 DEF SetInstructions, RowTypeOK, Schedule, Locals
    <2>2. pc' \in [Workers -> Guarded \cup Unguarded] /\ loc' \in [Workers -> Locals]
      BY <1>1, <1>2, <1>3, GotoType DEF SetInstructions
    <2> QED
      BY <1>3, <2>1, <2>2 DEF SetInstructions, RowTypeOK, TaskTypeOK, WorldTypeOK,
         MemoryTypeOK, BudgetTypeOK, HistoryTypeOK, world, memory, budget, history
  <1>4. CASE ReleaseRow(w, s)
    <2>1. NoTime \in MaybeAt /\ 0 \in 0 .. MaxHold
      BY BoundsAssumption DEF MaybeAt
    <2>2. [sched[s] EXCEPT !.hold = FALSE, !.sendAt = NoTime, !.holdSecs = 0,
                           !.next = NoTime] \in Schedule
      BY <2>1 DEF RowTypeOK, Schedule
    <2>3. sched' \in [Subs -> Schedule]
      BY <1>4, <2>2 DEF ReleaseRow, RowTypeOK
    <2>4. pc' \in [Workers -> Guarded \cup Unguarded] /\ loc' \in [Workers -> Locals]
      BY <1>1, <1>2, <1>4, GotoType, BlankIsLocal DEF ReleaseRow
    <2>5. HistoryTypeOK'
      BY <1>1, <1>4 DEF ReleaseRow, HistoryTypeOK, Locals
    <2> QED
      BY <1>4, <2>3, <2>4, <2>5 DEF ReleaseRow, RowTypeOK, TaskTypeOK, WorldTypeOK,
         MemoryTypeOK, BudgetTypeOK, world, memory, budget
  <1>5. CASE AttemptReleased(w, s)
    <2>1. [Blank EXCEPT !.sub = s, !.clock = now] \in Locals
      BY <1>1, BlankIsLocal DEF Locals
    <2>2. pc' \in [Workers -> Guarded \cup Unguarded] /\ loc' \in [Workers -> Locals]
      BY <1>1, <1>2, <1>5, <2>1, GotoType, BlankIsLocal DEF AttemptReleased
    <2>3. inflight' \in [Procs -> SUBSET Subs]
      BY <1>1, <1>5, HomeIsProc DEF AttemptReleased, TaskTypeOK
    <2> QED
      BY <1>5, <2>2, <2>3 DEF AttemptReleased, RowTypeOK, TaskTypeOK, WorldTypeOK,
         MemoryTypeOK, BudgetTypeOK, HistoryTypeOK, row, world, budget, history
  <1> QED
    BY <1>3, <1>4, <1>5

\* Dropped requests, crashes, connections and the clock.
LEMMA EnvironmentType ==
  ASSUME TypeOK,
         \/ \E w \in Requests : DropRequest(w)
         \/ \E p \in Procs : Crash(p) \/ Connect(p)
         \/ Tick
  PROVE  TypeOK'
  <1> USE DEF TypeOK
  <1>1. "idle" \in Guarded \cup Unguarded
    BY DEF Unguarded
  <1>2. ASSUME NEW w \in Requests, DropRequest(w) PROVE TypeOK'
    <2>1. pc' \in [Workers -> Guarded \cup Unguarded] /\ loc' \in [Workers -> Locals]
      BY <1>1, <1>2, GotoType, BlankIsLocal DEF DropRequest
    <2>2. inflight' \in [Procs -> SUBSET Subs]
      BY <1>2, HomeIsProc DEF DropRequest, TaskTypeOK
    <2>3. BudgetTypeOK'
      BY <1>2, BudgetType DEF DropRequest
    <2> QED
      BY <1>2, <2>1, <2>2, <2>3 DEF DropRequest, TaskTypeOK, RowTypeOK, WorldTypeOK,
         MemoryTypeOK, HistoryTypeOK, row, world, history
  <1>3. ASSUME NEW p \in Procs, Crash(p) PROVE TypeOK'
    <2>1. pc' \in [Workers -> Guarded \cup Unguarded] /\ loc' \in [Workers -> Locals]
      BY <1>1, <1>3, BlankIsLocal DEF Crash, TaskTypeOK
    <2>2. pass' \in [Dispatchers -> Passes] /\ inflight' \in [Procs -> SUBSET Subs]
      BY <1>3, NoPassIsPass DEF Crash, TaskTypeOK
    <2>3. MemoryTypeOK'
      BY <1>3 DEF Crash, MemoryTypeOK
    <2>4. BudgetTypeOK'
      BY <1>3, BoundsAssumption DEF Crash, BudgetTypeOK
    <2> QED
      BY <1>3, <2>1, <2>2, <2>3, <2>4 DEF Crash, TaskTypeOK, RowTypeOK, WorldTypeOK,
         HistoryTypeOK, row, world, history
  <1>4. ASSUME NEW p \in Procs, Connect(p) PROVE TypeOK'
    BY <1>4 DEF Connect, TaskTypeOK, RowTypeOK, WorldTypeOK, MemoryTypeOK, BudgetTypeOK,
       HistoryTypeOK, row, world, tasks, budget, history
  <1>5. CASE Tick
    BY <1>5, BoundsAssumption DEF Tick, Times, TaskTypeOK, RowTypeOK, WorldTypeOK,
       MemoryTypeOK, BudgetTypeOK, HistoryTypeOK, row, memory, tasks, budget, history
  <1> QED
    BY <1>2, <1>3, <1>4, <1>5

LEMMA TypeStep == TypeOK /\ [Next]_vars => TypeOK'
  <1> SUFFICES ASSUME TypeOK, [Next]_vars PROVE TypeOK'
    OBVIOUS
  <1>1. ASSUME NEW w \in Workers, NEW s \in Subs, Attempt(w, s) PROVE TypeOK'
    BY <1>1, ReadsType, RecordsType, ClaimType DEF Attempt
  <1>2. ASSUME NEW d \in Dispatchers, DispatcherStep(d) PROVE TypeOK'
    BY <1>1, <1>2, PassType DEF DispatcherStep
  <1>3. ASSUME NEW w \in Requests, RequestStep(w) PROVE TypeOK'
    BY <1>1, <1>3, ReleaseType DEF RequestStep
  <1>4. CASE UNCHANGED vars
    BY <1>4 DEF vars, row, world, memory, tasks, budget, history, TypeOK, RowTypeOK,
       WorldTypeOK, TaskTypeOK, MemoryTypeOK, BudgetTypeOK, HistoryTypeOK
  <1> QED
    BY <1>2, <1>3, <1>4, ClientType, ServerType, EnvironmentType DEF Next

\* Every reachable state is well typed, for any number of submissions, processes,
\* tasks, failures and calls: rows, claims, the guards of every process and what
\* tasks have read stay within what the code can store.
THEOREM TypeCorrect == Spec => []TypeOK
  BY TypeInit, TypeStep, PTL DEF Spec

-----------------------------------------------------------------------------
(* Copies, owners and rows.  CopiesInv is inductive: most steps make no new    *)
(* owner and move rows at most between states whose message has not left.      *)

Owning == {"smtp", "quit", "accept", "finish", "report"}

\* Whoever owns a row after the step owned it before, with the same knowledge.
NoNewOwner == \A v \in Workers : pc'[v] \in Owning => pc'[v] = pc[v] /\ loc'[v] = loc[v]

\* Rows stay, or wait, or are recalled.
RowsAtRest ==
    \A s \in Subs : /\ claim'[s] = claim[s]
                    /\ \/ status'[s] = status[s]
                       \/ /\ status[s] \in {"absent", "pending"}
                          /\ status'[s] \in {"pending", "canceled"}

MemoryShrinks == \A p \in Procs, s \in Subs : accepted'[p][s] \in {accepted[p][s], 0}

LEMMA QuietStep ==
  ASSUME TypeOK, CopiesInv, NoNewOwner, RowsAtRest, MemoryShrinks,
         UNCHANGED <<issued, copies>>
  PROVE  CopiesInv'
  <1>1. \A s \in Subs, w \in Workers : Owns(w, s)' => Owns(w, s) /\ loc'[w] = loc[w]
                                                     /\ pc'[w] = pc[w]
    BY DEF NoNewOwner, Owns, Owning
  <1>2. \A s \in Subs, c \in Nat : Matches(s, c) <=> Matches(s, c)'
    BY DEF RowsAtRest, Matches
  <1>3. AtMostOneCopy' /\ UnsentHasNoCopy' /\ FinalIsDelivered'
    BY DEF CopiesInv, AtMostOneCopy, UnsentHasNoCopy, FinalIsDelivered, RowsAtRest
  <1>4. OwnerHoldsRow'
    BY <1>1 DEF CopiesInv, OwnerHoldsRow, Matches, RowsAtRest
  <1>5. TokensAreDrawn'
    BY DEF CopiesInv, TokensAreDrawn, RowsAtRest, MemoryShrinks, TypeOK, WorldTypeOK
  <1>6. OwnersKnow'
    <2>1. \A s \in Subs, w \in Workers, x \in Owning :
             At(w, s, x)' => At(w, s, x) /\ loc'[w] = loc[w]
      BY DEF At, NoNewOwner
    <2> QED
      BY <2>1 DEF CopiesInv, OwnersKnow, Owning
  <1>7. MemoryIsTrue'
    <2> SUFFICES ASSUME NEW s \in Subs, NEW p \in Procs, Matches(s, accepted[p][s])'
                 PROVE  copies'[s] = 1 /\ \A w \in Workers : ~Owns(w, s)'
      BY DEF MemoryIsTrue
    <2>1. accepted'[p][s] # 0
      BY DEF Matches, CopiesInv, TokensAreDrawn, RowsAtRest
    <2>2. Matches(s, accepted[p][s])
      BY <2>1 DEF Matches, MemoryShrinks, RowsAtRest
    <2> QED
      BY <1>1, <2>2 DEF CopiesInv, MemoryIsTrue
  <1> QED
    BY <1>3, <1>4, <1>5, <1>6, <1>7 DEF CopiesInv

LEMMA GotoNoNewOwner ==
  ASSUME TypeOK, NEW w \in Workers, NEW point, NEW l, Goto(w, point, l),
         point \notin Owning
  PROVE  NoNewOwner
  BY DEF Goto, NoNewOwner, TypeOK, TaskTypeOK

LEMMA ReturnNoNewOwner ==
  ASSUME TypeOK, NEW w \in Workers, NEW s \in Subs, Return(w, s) \/ Abort(w, s)
  PROVE  NoNewOwner
  BY GotoNoNewOwner DEF Return, Abort, Owning

\* Every step that only reads, waits, schedules, gives up or forgets.
LEMMA QuietActions ==
  ASSUME TypeOK, CopiesInv,
         \/ \E d \in Dispatchers : StartPass(d) \/ Scan(d) \/ EndPass(d)
         \/ \E d \in Dispatchers, s \in Subs : Take(d, s)
         \/ \E w \in Workers, s \in Subs :
              LoadRow(w, s) \/ ReadHold(w, s) \/ ReadAttempts(w, s)
                            \/ ReadInstructions(w, s) \/ FileAfterSend(w, s)
         \/ \E w \in Requests, s \in Subs :
              SetInstructions(w, s) \/ ReleaseRow(w, s) \/ AttemptReleased(w, s)
         \/ \E w \in Requests : ClientCall(w) \/ DropRequest(w)
         \/ \E p \in Procs : Crash(p) \/ Connect(p)
         \/ Tick
  PROVE  CopiesInv'
  <1> USE DEF row, world, memory, tasks
  <1>1. \A x \in {"idle", "pass", "load", "persist", "hold", "attempts", "instr", "claim",
                   "relset", "relcas", "enter"} : x \notin Owning
    BY DEF Owning
  <1>2. UNCHANGED row => RowsAtRest
    BY DEF RowsAtRest
  <1>3. UNCHANGED accepted => MemoryShrinks
    BY DEF MemoryShrinks
  <1>4. UNCHANGED <<pc, loc>> => NoNewOwner
    BY DEF NoNewOwner
  <1>5. ASSUME NEW d \in Dispatchers, StartPass(d) \/ Scan(d) \/ EndPass(d)
        PROVE  CopiesInv'
    <2>1. NoNewOwner
      BY <1>1, <1>5 DEF StartPass, Scan, EndPass, NoNewOwner, TypeOK, TaskTypeOK
    <2> QED
      BY <1>2, <1>3, <1>5, <2>1, QuietStep DEF StartPass, Scan, EndPass
  <1>6. ASSUME NEW d \in Dispatchers, NEW s \in Subs, Take(d, s) PROVE CopiesInv'
    <2>1. NoNewOwner
      BY <1>1, <1>4, <1>6, GotoNoNewOwner, ZenonT(40) DEF Take
    <2> QED
      BY <1>2, <1>3, <1>6, <2>1, QuietStep DEF Take
  <1>7. ASSUME NEW w \in Workers, NEW s \in Subs,
               LoadRow(w, s) \/ ReadHold(w, s) \/ ReadAttempts(w, s)
                             \/ ReadInstructions(w, s) \/ FileAfterSend(w, s)
        PROVE  CopiesInv'
    <2>1. NoNewOwner
      BY <1>1, <1>7, ReturnNoNewOwner, GotoNoNewOwner, ZenonT(40)
      DEF LoadRow, ReadHold, ReadAttempts, ReadInstructions, FileAfterSend, Proceed
    <2> QED
      BY <1>2, <1>3, <1>7, <2>1, QuietStep, ZenonT(40)
      DEF LoadRow, ReadHold, ReadAttempts, ReadInstructions, FileAfterSend
  <1>8. ASSUME NEW w \in Requests, NEW s \in Subs,
               SetInstructions(w, s) \/ ReleaseRow(w, s) \/ AttemptReleased(w, s)
        PROVE  CopiesInv'
    <2>1. NoNewOwner
      BY <1>1, <1>8, GotoNoNewOwner, ZenonT(40) DEF SetInstructions, ReleaseRow, AttemptReleased
    <2>2. RowsAtRest
      BY <1>8, Zenon DEF SetInstructions, ReleaseRow, AttemptReleased, RowsAtRest
    <2> QED
      BY <1>3, <1>8, <2>1, <2>2, QuietStep, ZenonT(40)
         DEF SetInstructions, ReleaseRow, AttemptReleased
  <1>9. ASSUME NEW w \in Requests, NEW s \in Subs,
               \/ CreateInline(w, s) \/ CreateWaiting(w, s) \/ Cancel(w, s)
               \/ Reschedule(w, s) \/ StartRelease(w, s)
        PROVE  CopiesInv'
    <2>1. NoNewOwner
      BY <1>1, <1>4, <1>9, GotoNoNewOwner
      DEF CreateInline, CreateWaiting, Cancel, Reschedule, StartRelease
    <2>2. RowsAtRest
      BY <1>9 DEF CreateInline, CreateWaiting, Cancel, Recallable, Reschedule, StartRelease,
         Insert, RowsAtRest, TypeOK, RowTypeOK
    <2> QED
      BY <1>3, <1>9, <2>1, <2>2, QuietStep
      DEF CreateInline, CreateWaiting, Cancel, Reschedule, StartRelease
  <1>10. ASSUME NEW w \in Requests, DropRequest(w) PROVE CopiesInv'
    BY <1>1, <1>2, <1>3, <1>10, GotoNoNewOwner, QuietStep DEF DropRequest
  <1>11. ASSUME NEW p \in Procs, Crash(p) PROVE CopiesInv'
    <2>1. NoNewOwner
      BY <1>1, <1>11 DEF Crash, NoNewOwner
    <2>2. MemoryShrinks
      BY <1>11 DEF Crash, MemoryShrinks, TypeOK, MemoryTypeOK
    <2> QED
      BY <1>2, <1>11, <2>1, <2>2, QuietStep DEF Crash
  <1>12. ASSUME NEW p \in Procs, Connect(p) PROVE CopiesInv'
    BY <1>2, <1>3, <1>4, <1>12, QuietStep DEF Connect
  <1>13. CASE Tick
    BY <1>2, <1>3, <1>4, <1>13, QuietStep DEF Tick
  <1> QED
    BY <1>5, <1>6, <1>7, <1>8, <1>9, <1>10, <1>11, <1>12, <1>13 DEF ClientCall

\* A claim: the row was waiting, so its message has not left and nobody owns it,
\* and its token is new.
LEMMA ClaimStep ==
  ASSUME TypeOK, CopiesInv, NEW w \in Workers, NEW s \in Subs, ClaimAttempt(w, s)
  PROVE  CopiesInv'
  <1>1. CASE UNCHANGED <<row, issued>>
    <2>1. ~PutClaim(s)
      BY <1>1 DEF PutClaim, TypeOK, WorldTypeOK
    <2>2. Return(w, s)
      BY <2>1 DEF ClaimAttempt
    <2> QED
      BY <1>1, <2>2, ReturnNoNewOwner, QuietStep
      DEF ClaimAttempt, row, RowsAtRest, MemoryShrinks
  <1>2. CASE PutClaim(s)
    <2>1. status[s] = "pending" /\ copies[s] = 0
      BY <1>2 DEF ClaimAttempt, Claimable, CopiesInv, UnsentHasNoCopy, row, PutClaim,
         TypeOK, WorldTypeOK
    <2>2. \A v \in Workers : ~Owns(v, s)
      BY <2>1 DEF CopiesInv, OwnerHoldsRow, Matches
    <2>3. \A v \in Workers, u \in Subs :
             Owns(v, u)' => \/ /\ v = w /\ u = s /\ pc'[w] = "smtp"
                               /\ loc'[w].claim = claim'[s]
                            \/ /\ Owns(v, u) /\ u # s
                               /\ pc'[v] = pc[v] /\ loc'[v] = loc[v]
      <3>1. CASE Return(w, s)
        BY <2>2, <3>1, ReturnNoNewOwner DEF NoNewOwner, Owns, Owning
      <3>2. CASE Proceed(w, "smtp", [loc[w] EXCEPT !.claim = issued[s] + 1])
        <4>1. claim'[s] = issued[s] + 1
          BY <1>2 DEF PutClaim, TypeOK, RowTypeOK
        <4>2. /\ pc'[w] = "smtp" /\ loc'[w].sub = s /\ loc'[w].claim = issued[s] + 1
              /\ \A v \in Workers : v # w => pc'[v] = pc[v] /\ loc'[v] = loc[v]
          BY <3>2 DEF ClaimAttempt, At, Proceed, Goto, TypeOK, TaskTypeOK, Locals
        <4> QED
          BY <2>2, <4>1, <4>2 DEF Owns
      <3> QED
        BY <1>2, <3>1, <3>2 DEF ClaimAttempt, PutClaim, row, TypeOK, WorldTypeOK
    <2>4. \A u \in Subs : u # s => status'[u] = status[u] /\ claim'[u] = claim[u]
                                   /\ issued'[u] = issued[u]
      BY <1>2 DEF PutClaim, TypeOK, RowTypeOK, WorldTypeOK
    <2>5. status'[s] = "sending" /\ claim'[s] = issued[s] + 1 /\ issued'[s] = issued[s] + 1
      BY <1>2 DEF PutClaim, TypeOK, RowTypeOK, WorldTypeOK
    <2>6. UNCHANGED <<copies, accepted>>
      BY DEF ClaimAttempt
    <2>7. AtMostOneCopy' /\ UnsentHasNoCopy' /\ FinalIsDelivered'
      BY <2>4, <2>5, <2>6 DEF CopiesInv, AtMostOneCopy, UnsentHasNoCopy, FinalIsDelivered
    <2>8. OwnerHoldsRow'
      BY <2>3, <2>4, <2>5 DEF CopiesInv, OwnerHoldsRow, Matches
    <2>9. TokensAreDrawn'
      BY <2>4, <2>5, <2>6 DEF CopiesInv, TokensAreDrawn, TypeOK, WorldTypeOK, RowTypeOK,
         MemoryTypeOK
    <2>10. OwnersKnow'
      <3>1. \A v \in Workers, u \in Subs, x \in Owning : At(v, u, x)' => Owns(v, u)'
        BY DEF At, Owns, Owning
      <3>2. \A v \in Workers, u \in Subs, x \in Owning :
               At(v, u, x)' /\ u # s => At(v, u, x) /\ loc'[v] = loc[v]
        BY <2>3, <3>1 DEF At
      <3> QED
        BY <2>1, <2>3, <2>6, <3>1, <3>2 DEF CopiesInv, OwnersKnow, Owning, At
    <2>11. MemoryIsTrue'
      <3> SUFFICES ASSUME NEW u \in Subs, NEW p \in Procs, Matches(u, accepted[p][u])'
                   PROVE  copies'[u] = 1 /\ \A v \in Workers : ~Owns(v, u)'
        BY DEF MemoryIsTrue
      <3>1. u # s
        BY <2>5, <2>6 DEF Matches, CopiesInv, TokensAreDrawn, TypeOK, WorldTypeOK,
           MemoryTypeOK
      <3> QED
        BY <2>3, <2>4, <2>6, <3>1 DEF Matches, CopiesInv, MemoryIsTrue
    <2> QED
      BY <2>7, <2>8, <2>9, <2>10, <2>11 DEF CopiesInv
  <1> QED
    BY <1>1, <1>2 DEF ClaimAttempt

\* An owner that goes on to another point under its claim, whatever it learns of
\* the copies of its own message, and nobody else moves.
LEMMA OwnerStep ==
  ASSUME TypeOK, CopiesInv, NEW w \in Workers, NEW s \in Subs, NEW point \in Owning,
         NEW l \in Locals, Owns(w, s), Goto(w, point, l), l.sub = s,
         l.claim = loc[w].claim, UNCHANGED <<row, issued, accepted>>,
         copies' \in {copies, [copies EXCEPT ![s] = @ + 1]},
         copies'[s] \in {0, 1},
         copies'[s] = copies[s] \/ copies[s] = 0,
         point = "smtp" => copies'[s] = 0,
         point \in {"quit", "accept"} => copies'[s] = 1,
         point \in {"finish", "report"} /\ l.outcome # "uncertain" => copies'[s] = 0
  PROVE  CopiesInv'
  <1> USE DEF row
  <1>1. status[s] = "sending" /\ \A v \in Workers : Owns(v, s) => v = w
    BY DEF CopiesInv, OwnerHoldsRow, Matches
  <1>2. /\ pc'[w] = point /\ loc'[w] = l
        /\ \A v \in Workers : v # w => pc'[v] = pc[v] /\ loc'[v] = loc[v]
    BY DEF Goto, TypeOK, TaskTypeOK
  <1>3. \A u \in Subs : u # s => copies'[u] = copies[u]
    BY DEF TypeOK, WorldTypeOK
  <1>4. \A v \in Workers, u \in Subs : Owns(v, u)' <=> Owns(v, u)
    BY <1>2 DEF Owns, Owning
  <1>5. AtMostOneCopy' /\ UnsentHasNoCopy' /\ FinalIsDelivered'
    BY <1>1, <1>3 DEF CopiesInv, AtMostOneCopy, UnsentHasNoCopy, FinalIsDelivered
  <1>6. OwnerHoldsRow'
    BY <1>2, <1>4 DEF CopiesInv, OwnerHoldsRow, Matches
  <1>7. TokensAreDrawn'
    BY DEF CopiesInv, TokensAreDrawn
  <1>8. OwnersKnow'
    <2>1. \A v \in Workers, u \in Subs, x \in Owning :
             At(v, u, x)' => \/ v = w /\ u = s /\ point = x
                             \/ At(v, u, x) /\ loc'[v] = loc[v] /\ u # s
      <3> TAKE v \in Workers, u \in Subs, x \in Owning
      <3>1. CASE v = w
        BY <1>2, <3>1 DEF At
      <3>2. CASE v # w
        BY <1>1, <1>2, <3>2 DEF At, Owns, Owning
      <3> QED
        BY <3>1, <3>2
    <2> QED
      BY <1>2, <1>3, <2>1 DEF CopiesInv, OwnersKnow, Owning
  <1>9. MemoryIsTrue'
    BY <1>3, <1>4 DEF CopiesInv, MemoryIsTrue, Matches
  <1> QED
    BY <1>5, <1>6, <1>7, <1>8, <1>9 DEF CopiesInv

LEMMA ServerStep ==
  ASSUME TypeOK, CopiesInv, NEW w \in Workers, NEW s \in Subs, ServerAnswers(w, s)
  PROVE  CopiesInv'
  <1>1. loc[w] \in Locals /\ copies[s] \in Nat
    BY DEF TypeOK, TaskTypeOK, WorldTypeOK
  <1>2. \A o \in Outcomes : /\ [loc[w] EXCEPT !.outcome = o] \in Locals
                            /\ [loc[w] EXCEPT !.outcome = o].outcome = o
                            /\ [loc[w] EXCEPT !.outcome = o].sub = loc[w].sub
                            /\ [loc[w] EXCEPT !.outcome = o].claim = loc[w].claim
    BY <1>1 DEF Locals
  <1>3. {"transient", "permanent", "uncertain"} \subseteq Outcomes
        /\ {"quit", "accept", "finish", "report"} \subseteq Owning
    BY DEF Outcomes, Owning
  <1>4. [copies EXCEPT ![s] = @ + 1][s] = copies[s] + 1
    BY DEF TypeOK, WorldTypeOK
  <1>5. ASSUME Owns(w, s), NEW o \in Outcomes, NotSent(w, s, o), copies[s] = 0,
               UNCHANGED <<row, issued, accepted>>,
               copies' \in {copies, [copies EXCEPT ![s] = @ + 1]},
               o # "uncertain" => UNCHANGED copies
        PROVE  CopiesInv'
    <2> DEFINE l == [loc[w] EXCEPT !.outcome = o]
    <2>1. Goto(w, "finish", l) \/ Goto(w, "report", l)
      BY <1>5 DEF NotSent, Proceed
    <2>2. /\ l \in Locals /\ l.outcome = o /\ l.sub = s /\ l.claim = loc[w].claim
          /\ copies'[s] \in {0, 1}
          /\ l.outcome # "uncertain" => copies'[s] = 0
      BY <1>2, <1>4, <1>5 DEF Owns
    <2> HIDE DEF l
    <2> QED
      BY <1>3, <1>5, <2>1, <2>2, OwnerStep
  <1>6. CASE Transmit(w, s)
    <2>1. Owns(w, s) /\ loc[w].sub = s /\ copies[s] = 0
      BY <1>6 DEF Transmit, At, Owns, CopiesInv, OwnersKnow
    <2>2. UNCHANGED <<row, issued, accepted>>
      BY <1>6 DEF Transmit
    <2>3. CASE Accepted(w, s)
      <3>1. copies' = [copies EXCEPT ![s] = @ + 1] /\ copies'[s] = 1
        BY <1>4, <2>1, <2>3 DEF Accepted
      <3> QED
        BY <1>1, <1>3, <2>1, <2>2, <2>3, <3>1, OwnerStep DEF Accepted, Proceed
    <2>4. CASE ReplyLost(w, s)
      <3>1. copies'[s] \in {0, 1}
        BY <1>4, <2>1, <2>4 DEF ReplyLost
      <3> QED
        BY <1>3, <1>5, <2>1, <2>2, <2>4, <3>1 DEF ReplyLost
    <2>5. CASE NotAccepted(w, s)
      BY <1>3, <1>5, <2>1, <2>2, <2>5 DEF NotAccepted
    <2> QED
      BY <1>6, <2>3, <2>4, <2>5 DEF Transmit
  <1>7. CASE Quit(w, s)
    <2>1. Owns(w, s) /\ loc[w].sub = s /\ copies[s] = 1
      BY <1>7 DEF Quit, At, Owns, CopiesInv, OwnersKnow
    <2> QED
      BY <1>1, <1>3, <1>7, <2>1, OwnerStep DEF Quit, Proceed, row, world
  <1>8. CASE RejectAuth(w, s)
    <2>1. Owns(w, s) /\ loc[w].sub = s /\ copies[s] = 0
      BY <1>8 DEF RejectAuth, At, Owns, CopiesInv, OwnersKnow
    <2> QED
      BY <1>3, <1>5, <1>8, <2>1 DEF RejectAuth, world
  <1> QED
    BY <1>6, <1>7, <1>8 DEF ServerAnswers

\* A conditional update under a claim whose result is what happened, after which
\* nobody owns the row that it matched.
LEMMA ResultStep ==
  ASSUME TypeOK, CopiesInv, NEW s \in Subs, NEW c \in Nat, NEW v \in Statuses, NoNewOwner,
         \A w \in Workers : Matches(s, c) => ~Owns(w, s)',
         \/ UNCHANGED row
         \/ /\ Matches(s, c)
            /\ status' = [status EXCEPT ![s] = v]
            /\ claim' = [claim EXCEPT ![s] = 0],
         v \in {"final", "uncertain", "failed", "pending"},
         Matches(s, c) => /\ v = "final" => copies[s] = 1
                          /\ v \in {"failed", "pending"} => copies[s] = 0,
         UNCHANGED <<issued, copies>>,
         \A p \in Procs, u \in Subs :
             \/ accepted'[p][u] \in {accepted[p][u], 0}
             \/ /\ u = s /\ accepted'[p][u] = c /\ c <= issued[s] /\ Matches(s, c)
                /\ copies[s] = 1
  PROVE  CopiesInv'
  <1>1. \A u \in Subs : \/ status'[u] = status[u] /\ claim'[u] = claim[u]
                        \/ u = s /\ Matches(s, c) /\ status'[u] = v /\ claim'[u] = 0
    BY DEF row, TypeOK, RowTypeOK
  <1>2. \A u \in Subs, w \in Workers : Owns(w, u)' => /\ Owns(w, u) /\ loc'[w] = loc[w]
                                                     /\ pc'[w] = pc[w]
    BY DEF NoNewOwner, Owns, Owning
  <1>3. AtMostOneCopy' /\ UnsentHasNoCopy' /\ FinalIsDelivered'
    BY <1>1 DEF CopiesInv, AtMostOneCopy, UnsentHasNoCopy, FinalIsDelivered
  <1>4. OwnerHoldsRow'
    BY <1>1, <1>2 DEF CopiesInv, OwnerHoldsRow, Matches
  <1>5. TokensAreDrawn'
    <2>1. \A u \in Subs : /\ issued'[u] = issued[u] /\ issued[u] \in Nat
                          /\ claim[u] <= issued[u]
                          /\ status[u] = "sending" => claim[u] > 0
                          /\ \A p \in Procs : accepted[p][u] <= issued[u]
      BY DEF CopiesInv, TokensAreDrawn, TypeOK, WorldTypeOK
    <2>2. \A u \in Subs : /\ claim'[u] <= issued'[u]
                          /\ status'[u] = "sending" => claim'[u] > 0
      BY <1>1, <2>1
    <2>3. \A u \in Subs, p \in Procs : accepted'[p][u] <= issued'[u]
      BY <2>1
    <2> QED
      BY <2>2, <2>3 DEF TokensAreDrawn
  <1>6. OwnersKnow'
    <2>1. \A u \in Subs, w \in Workers, x \in Owning :
             At(w, u, x)' => At(w, u, x) /\ loc'[w] = loc[w]
      BY DEF At, NoNewOwner
    <2> QED
      BY <2>1 DEF CopiesInv, OwnersKnow, Owning
  <1>7. MemoryIsTrue'
    <2> SUFFICES ASSUME NEW u \in Subs, NEW p \in Procs, Matches(u, accepted[p][u])'
                 PROVE  copies'[u] = 1 /\ \A w \in Workers : ~Owns(w, u)'
      BY DEF MemoryIsTrue
    <2>1. status'[u] = status[u] /\ claim'[u] = claim[u]
      BY <1>1 DEF Matches
    <2>2. accepted'[p][u] # 0
      BY <2>1 DEF Matches, CopiesInv, TokensAreDrawn
    <2>3. CASE accepted'[p][u] = accepted[p][u]
      <3>1. Matches(u, accepted[p][u])
        BY <2>1, <2>3 DEF Matches
      <3>2. copies[u] = 1 /\ \A w \in Workers : ~Owns(w, u)
        BY <3>1 DEF CopiesInv, MemoryIsTrue
      <3> QED
        BY <1>2, <3>2
    <2>4. CASE u = s /\ Matches(s, c) /\ copies[s] = 1
      BY <2>4
    <2> QED
      BY <2>2, <2>3, <2>4
  <1> QED
    BY <1>3, <1>4, <1>5, <1>6, <1>7 DEF CopiesInv

\* What an attempt records: its own result, or an acceptance its process kept.
LEMMA RecordStep ==
  ASSUME TypeOK, CopiesInv, NEW w \in Workers, NEW s \in Subs,
         \/ PersistAccepted(w, s) \/ RecordDelivered(w, s)
         \/ RecordNotSent(w, s) \/ RecordInline(w, s)
  PROVE  CopiesInv'
  <1> USE DEF world
  <1>1. /\ loc[w].claim \in Nat /\ accepted[Home[w]][s] \in Nat
        /\ {"final", "uncertain", "failed", "pending"} \subseteq Statuses
    BY HomeIsProc DEF TypeOK, TaskTypeOK, Locals, MemoryTypeOK, Statuses, Terminal
  <1>2. CASE PersistAccepted(w, s)
    <2> DEFINE c == accepted[Home[w]][s]
    <2>1. NoNewOwner
      BY <1>2, ReturnNoNewOwner DEF PersistAccepted
    <2>2. Matches(s, c) => copies[s] = 1 /\ \A v \in Workers : ~Owns(v, s)
      BY HomeIsProc DEF CopiesInv, MemoryIsTrue
    <2>3. \A v \in Workers : Matches(s, c) => ~Owns(v, s)'
      BY <2>1, <2>2 DEF NoNewOwner, Owns, Owning
    <2>4. \/ UNCHANGED row
          \/ /\ Matches(s, c)
             /\ status' = [status EXCEPT ![s] = "final"]
             /\ claim' = [claim EXCEPT ![s] = 0]
      BY <1>2 DEF PersistAccepted, AcceptAttempt
    <2>5. MemoryShrinks
      BY <1>2, HomeIsProc DEF PersistAccepted, MemoryShrinks, TypeOK, MemoryTypeOK
    <2>6. UNCHANGED <<issued, copies>>
      BY <1>2 DEF PersistAccepted
    <2> HIDE DEF c
    <2>7. c \in Nat
      BY <1>1 DEF c
    <2> QED
      BY <1>1, <2>1, <2>2, <2>3, <2>4, <2>5, <2>6, <2>7, ResultStep DEF MemoryShrinks
  <1>3. CASE RecordDelivered(w, s)
    <2> DEFINE c == loc[w].claim
    <2>1. Owns(w, s) /\ Matches(s, c) /\ copies[s] = 1 /\ c <= issued[s]
      BY <1>3 DEF RecordDelivered, At, Owns, CopiesInv, OwnersKnow, OwnerHoldsRow,
         TokensAreDrawn, Matches
    <2>2. NoNewOwner
      BY <1>3, GotoNoNewOwner DEF RecordDelivered, Proceed, Owning
    <2>3. \A v \in Workers : ~Owns(v, s)'
      <3>1. \A v \in Workers : Owns(v, s)' => Owns(v, s) /\ pc'[v] = pc[v]
        BY <2>2 DEF NoNewOwner, Owns, Owning
      <3>2. pc'[w] = "file" /\ pc[w] = "accept"
        BY <1>3 DEF RecordDelivered, At, Proceed, Goto, TypeOK, TaskTypeOK
      <3> QED
        BY <2>1, <3>1, <3>2 DEF CopiesInv, OwnerHoldsRow
    <2>4. \/ UNCHANGED row
          \/ /\ status' = [status EXCEPT ![s] = "final"]
             /\ claim' = [claim EXCEPT ![s] = 0]
      BY <1>3 DEF RecordDelivered, AcceptAttempt
    <2>5. \A p \in Procs, u \in Subs :
             \/ accepted'[p][u] \in {accepted[p][u], 0}
             \/ u = s /\ accepted'[p][u] = c
      <3>1. CASE UNCHANGED accepted
        BY <3>1
      <3>2. CASE accepted' = [accepted EXCEPT ![Home[w]][s] = c]
        BY <3>2, HomeIsProc DEF TypeOK, MemoryTypeOK
      <3> QED
        BY <1>3, <3>1, <3>2 DEF RecordDelivered
    <2>6. UNCHANGED <<issued, copies>>
      BY <1>3 DEF RecordDelivered
    <2> HIDE DEF c
    <2>7. c \in Nat
      BY <1>1 DEF c
    <2> QED
      BY <1>1, <2>1, <2>2, <2>3, <2>4, <2>5, <2>6, <2>7, ResultStep
  <1>4. CASE RecordNotSent(w, s) \/ RecordInline(w, s)
    <2> DEFINE c == loc[w].claim
               v == Verdict(loc[w])
    <2>1. /\ Owns(w, s) /\ Matches(s, c)
          /\ loc[w].outcome # "uncertain" => copies[s] = 0
      BY <1>4 DEF RecordNotSent, RecordInline, At, Owns, CopiesInv, OwnersKnow, OwnerHoldsRow
    <2>2. NoNewOwner
      BY <1>4, ReturnNoNewOwner, GotoNoNewOwner
      DEF RecordNotSent, RecordInline, Proceed, Owning
    <2>3. \A u \in Workers : ~Owns(u, s)'
      <3>1. \A u \in Workers : Owns(u, s)' => Owns(u, s) /\ pc'[u] = pc[u]
        BY <2>2 DEF NoNewOwner, Owns, Owning
      <3>2. pc'[w] \in {"pass", "idle"}
        BY <1>4 DEF RecordNotSent, RecordInline, Return, Abort, Proceed, Goto, TypeOK, TaskTypeOK
      <3> QED
        BY <2>1, <3>1, <3>2 DEF CopiesInv, OwnerHoldsRow, Owns
    <2>4. \/ UNCHANGED row
          \/ /\ status' = [status EXCEPT ![s] = v]
             /\ claim' = [claim EXCEPT ![s] = 0]
      BY <1>4 DEF RecordNotSent, RecordInline, FinishNotSent, FinishAttempt
    <2>5. v \in {"uncertain", "failed", "pending"}
          /\ (v \in {"failed", "pending"} => copies[s] = 0)
      BY <2>1 DEF Verdict
    <2>6. UNCHANGED <<issued, copies, accepted>>
      BY <1>4 DEF RecordNotSent, RecordInline
    <2> HIDE DEF c, v
    <2>7. c \in Nat
      BY <1>1 DEF c
    <2> QED
      BY <1>1, <2>1, <2>2, <2>3, <2>4, <2>5, <2>6, <2>7, ResultStep
  <1> QED
    BY <1>2, <1>3, <1>4

LEMMA CopiesInit == Init => CopiesInv
  BY DEF Init, CopiesInv, AtMostOneCopy, UnsentHasNoCopy, FinalIsDelivered, OwnerHoldsRow,
     TokensAreDrawn, OwnersKnow, MemoryIsTrue, Matches, Owns, At

LEMMA CopiesStep == TypeOK /\ CopiesInv /\ [Next]_vars => CopiesInv'
  <1> SUFFICES ASSUME TypeOK, CopiesInv, [Next]_vars PROVE CopiesInv'
    OBVIOUS
  <1>1. ASSUME NEW w \in Workers, NEW s \in Subs, Attempt(w, s) PROVE CopiesInv'
    BY <1>1, QuietActions, ClaimStep, RecordStep DEF Attempt
  <1>2. ASSUME NEW d \in Dispatchers, DispatcherStep(d) PROVE CopiesInv'
    BY <1>1, <1>2, QuietActions DEF DispatcherStep
  <1>3. ASSUME NEW w \in Requests, RequestStep(w) PROVE CopiesInv'
    BY <1>1, <1>3, QuietActions DEF RequestStep
  <1>4. CASE UNCHANGED vars
    BY <1>4, QuietStep DEF vars, row, world, memory, tasks, NoNewOwner, RowsAtRest,
       MemoryShrinks
  <1> QED
    BY <1>2, <1>3, <1>4, QuietActions, ServerStep DEF Next

\* Copies, claims, tasks and memories agree in every reachable state, for any number
\* of submissions, processes, tasks, attempts, failures, crashes and calls.
THEOREM CopiesCorrect == Spec => []CopiesInv
  BY TypeInit, TypeStep, CopiesInit, CopiesStep, PTL DEF Spec

\* No message is handed to its outgoing server successfully twice, whoever retries,
\* crashes or repeats a call (dispatcher.rs, "never re-sent").
THEOREM AtMostOnce == Spec => []AtMostOneCopy
  <1>1. CopiesInv => AtMostOneCopy
    BY DEF CopiesInv
  <1> QED
    BY <1>1, CopiesCorrect, PTL

\* A row that waits, was recalled or has failed has not left, and one that is
\* reported as sent has: what a user is told about a message is true.
THEOREM RowsAreTrue == Spec => [](UnsentHasNoCopy /\ FinalIsDelivered)
  <1>1. CopiesInv => UnsentHasNoCopy /\ FinalIsDelivered
    BY DEF CopiesInv
  <1> QED
    BY <1>1, CopiesCorrect, PTL

\* What is reported as sent has been accepted by the outgoing server.
THEOREM SentIsDelivered == Spec => []FinalIsDelivered
  <1>1. CopiesInv => FinalIsDelivered
    BY DEF CopiesInv
  <1> QED
    BY <1>1, CopiesCorrect, PTL

\* From its claim to its result an attempt is alone with its row, across processes.
THEOREM OneOwner == Spec => []OwnerHoldsRow
  <1>1. CopiesInv => OwnerHoldsRow
    BY DEF CopiesInv
  <1> QED
    BY <1>1, CopiesCorrect, PTL

-----------------------------------------------------------------------------
(* The outbox keeps its promise: every step is one of OutboxPromise or changes *)
(* neither a status nor a copy.                                                *)

Silent == UNCHANGED <<status, copies>>

LEMMA PromiseRecords ==
  ASSUME TypeOK, CopiesInv, NEW w \in Workers, NEW s \in Subs,
         \/ PersistAccepted(w, s) \/ RecordDelivered(w, s)
         \/ RecordNotSent(w, s) \/ RecordInline(w, s)
  PROVE  Silent \/ Promise!Confirm(s) \/ Promise!PutBack(s) \/ Promise!GiveUp(s)
                \/ Promise!Doubt(s)
  <1> USE DEF Promise!Confirm, Promise!PutBack, Promise!GiveUp, Promise!Doubt, Promise!Move,
              Silent, world, row, Matches
  <1>1. CASE PersistAccepted(w, s)
    BY <1>1, HomeIsProc DEF PersistAccepted, AcceptAttempt, CopiesInv, MemoryIsTrue
  <1>2. CASE RecordDelivered(w, s)
    BY <1>2 DEF RecordDelivered, AcceptAttempt, At, CopiesInv, OwnersKnow
  <1>3. CASE RecordNotSent(w, s) \/ RecordInline(w, s)
    BY <1>3 DEF RecordNotSent, RecordInline, FinishNotSent, FinishAttempt, Verdict, At,
       CopiesInv, OwnersKnow
  <1> QED
    BY <1>1, <1>2, <1>3

LEMMA PromiseServer ==
  ASSUME TypeOK, CopiesInv, NEW w \in Workers, NEW s \in Subs, ServerAnswers(w, s)
  PROVE  Silent \/ Promise!HandOver(s)
  <1>1. CASE Transmit(w, s)
    <2>1. status[s] = "sending" /\ copies[s] = 0
      BY <1>1 DEF Transmit, At, Owns, CopiesInv, OwnersKnow, OwnerHoldsRow, Matches
    <2>2. copies' \in {copies, [copies EXCEPT ![s] = 1]} /\ UNCHANGED status
      BY <1>1, <2>1 DEF Transmit, Accepted, ReplyLost, NotAccepted, row
    <2> QED
      BY <2>1, <2>2 DEF Silent, Promise!HandOver
  <1>2. CASE Quit(w, s) \/ RejectAuth(w, s)
    BY <1>2 DEF Quit, RejectAuth, Silent, row, world
  <1> QED
    BY <1>1, <1>2 DEF ServerAnswers

LEMMA PromiseStep == TypeOK /\ CopiesInv /\ [Next]_vars => [Promise!Next]_(Promise!vars)
  <1> SUFFICES ASSUME TypeOK, CopiesInv, [Next]_vars
               PROVE  Silent \/ Promise!Next
    BY DEF Silent, Promise!vars
  <1> USE DEF row, world
  <1>1. ASSUME NEW w \in Workers, NEW s \in Subs, ClaimAttempt(w, s)
        PROVE  Silent \/ Promise!Begin(s)
    BY <1>1 DEF ClaimAttempt, Claimable, PutClaim, Silent, Promise!Begin, Promise!Move
  <1>2. ASSUME NEW w \in Workers, NEW s \in Subs, Attempt(w, s)
        PROVE  Silent \/ Promise!Next
    <2>1. CASE \/ PersistAccepted(w, s) \/ RecordDelivered(w, s)
               \/ RecordNotSent(w, s) \/ RecordInline(w, s)
      BY <2>1, PromiseRecords DEF Promise!Next
    <2>2. CASE ClaimAttempt(w, s)
      BY <1>1, <2>2 DEF Promise!Next
    <2>3. CASE \/ LoadRow(w, s) \/ ReadHold(w, s) \/ ReadAttempts(w, s)
               \/ ReadInstructions(w, s) \/ FileAfterSend(w, s)
      BY <2>3 DEF LoadRow, ReadHold, ReadAttempts, ReadInstructions, FileAfterSend, Silent
    <2> QED
      BY <1>2, <2>1, <2>2, <2>3 DEF Attempt
  <1>3. ASSUME NEW d \in Dispatchers, DispatcherStep(d) PROVE Silent \/ Promise!Next
    BY <1>2, <1>3 DEF DispatcherStep, StartPass, Scan, EndPass, Take, Silent
  <1>4. ASSUME NEW w \in Requests, RequestStep(w) PROVE Silent \/ Promise!Next
    BY <1>2, <1>4 DEF RequestStep, SetInstructions, ReleaseRow, AttemptReleased, Silent
  <1>5. ASSUME NEW w \in Requests, ClientCall(w) PROVE Silent \/ Promise!Next
    BY <1>5 DEF ClientCall, CreateInline, CreateWaiting, Insert, Cancel, Recallable,
       Reschedule, StartRelease, Silent, Promise!Next, Promise!Submit, Promise!Recall,
       Promise!Move
  <1>6. ASSUME NEW w \in Workers, NEW s \in Subs, ServerAnswers(w, s)
        PROVE  Silent \/ Promise!Next
    BY <1>6, PromiseServer DEF Promise!Next
  <1>7. CASE \/ UNCHANGED vars
             \/ \E w \in Requests : DropRequest(w)
             \/ \E p \in Procs : Crash(p) \/ Connect(p)
             \/ Tick
    BY <1>7 DEF vars, DropRequest, Crash, Connect, Tick, Silent
  <1> QED
    BY <1>3, <1>4, <1>5, <1>6, <1>7 DEF Next

\* The outbox implements OutboxPromise: a message is claimed before it leaves, leaves
\* at most once, is put back or failed only while it has not left, and is reported
\* as sent only when it has.
THEOREM OutboxKeepsPromise == Spec => KeepsPromise
  <1>1. Init => Promise!Init
    BY DEF Init, Promise!Init
  <1> QED
    BY <1>1, TypeInit, TypeStep, CopiesInit, CopiesStep, PromiseStep, PTL
    DEF Spec, KeepsPromise, Promise!Spec

\* What the promise is worth: whatever keeps OutboxPromise sends at most one copy
\* (AtMostOneCopy) and reports it truly (UnsentHasNoCopy, FinalIsDelivered).
THEOREM PromiseIsSafe ==
  Promise!Spec => [](AtMostOneCopy /\ UnsentHasNoCopy /\ FinalIsDelivered)
  <1> DEFINE Inv == /\ DOMAIN status = Subs /\ DOMAIN copies = Subs
                    /\ \A s \in Subs : copies[s] \in {0, 1}
                    /\ UnsentHasNoCopy /\ FinalIsDelivered
  <1>1. Promise!Init => Inv
    BY DEF Promise!Init, UnsentHasNoCopy, FinalIsDelivered
  <1>2. Inv /\ [Promise!Next]_(Promise!vars) => Inv'
    <2> SUFFICES ASSUME Inv, [Promise!Next]_(Promise!vars)
                 PROVE  Inv'
      OBVIOUS
    <2>1. CASE UNCHANGED Promise!vars
      BY <2>1 DEF Promise!vars, UnsentHasNoCopy, FinalIsDelivered
    <2>2. ASSUME NEW s \in Subs, Promise!HandOver(s)
          PROVE  Inv'
      BY <2>2 DEF Promise!HandOver, UnsentHasNoCopy, FinalIsDelivered
    <2>3. ASSUME NEW s \in Subs, NEW from, NEW to, Promise!Move(s, from, to),
                 to \in {"absent", "pending", "canceled", "failed"} => copies[s] = 0,
                 to = "final" => copies[s] = 1
          PROVE  Inv'
      BY <2>3 DEF Promise!Move, UnsentHasNoCopy, FinalIsDelivered
    <2>4. ASSUME NEW s \in Subs,
                 \/ Promise!Submit(s) \/ Promise!Recall(s) \/ Promise!Begin(s)
                 \/ Promise!PutBack(s) \/ Promise!GiveUp(s) \/ Promise!Confirm(s)
                 \/ Promise!Doubt(s)
          PROVE  \E from, to :
                    /\ Promise!Move(s, from, to)
                    /\ to \in {"absent", "pending", "canceled", "failed"} => copies[s] = 0
                    /\ to = "final" => copies[s] = 1
      BY <2>4 DEF Promise!Submit, Promise!Recall, Promise!Begin, Promise!PutBack, Promise!GiveUp,
         Promise!Confirm, Promise!Doubt, Promise!Move, UnsentHasNoCopy
    <2> QED
      BY <2>1, <2>2, <2>3, <2>4 DEF Promise!Next
  <1>3. Inv => AtMostOneCopy /\ UnsentHasNoCopy /\ FinalIsDelivered
    BY DEF AtMostOneCopy
  <1> QED
    BY <1>1, <1>2, <1>3, PTL DEF Promise!Spec

\* No late writer, whatever it has read, moves a row on from sent, canceled, failed
\* or uncertain.
THEOREM EndsAreEnds == Spec => TerminalIsForever
  <1> DEFINE Keeps == \A s \in Subs : status[s] \in Terminal => status'[s] = status[s]
  <1>1. TypeOK /\ [Promise!Next]_(Promise!vars) => Keeps
    BY DEF Terminal, TypeOK, RowTypeOK, Promise!Next, Promise!vars, Promise!Submit,
       Promise!Recall, Promise!Begin, Promise!PutBack, Promise!GiveUp, Promise!Confirm,
       Promise!Doubt, Promise!HandOver, Promise!Move
  <1>2. TypeOK /\ CopiesInv /\ [Next]_vars => [Keeps]_vars
    BY <1>1, PromiseStep
  <1> QED
    BY <1>2, TypeInit, TypeStep, CopiesInit, CopiesStep, PTL DEF Spec, TerminalIsForever

-----------------------------------------------------------------------------
(* Schedules: what is handed over is due by the row as it is then.             *)

\* A step that leaves a row "sending" changes at most its instructions.
Frozen(s) == status[s] = "sending" /\ status'[s] = "sending" =>
                 sched'[s] = [sched[s] EXCEPT !.instr = sched'[s].instr]

LEMMA FrozenStep ==
  ASSUME TypeOK, [Next]_vars, NEW s \in Subs
  PROVE  Frozen(s)
  <1> USE DEF row, Frozen
  <1>1. sched'[s] = sched[s] \/ status[s] # "sending" \/ status'[s] # "sending" => Frozen(s)
    BY DEF TypeOK, RowTypeOK, Schedule
  <1>2. ASSUME NEW w \in Workers, NEW u \in Subs, Attempt(w, u) PROVE Frozen(s)
    <2>1. Verdict(loc[w]) # "sending"
      BY DEF Verdict
    <2>2. CASE PersistAccepted(w, u) \/ RecordDelivered(w, u)
      <3>1. u = s => sched'[s] = sched[s] \/ status'[s] # "sending"
        BY <2>2 DEF PersistAccepted, RecordDelivered, AcceptAttempt, TypeOK, RowTypeOK
      <3>2. u # s => sched'[s] = sched[s]
        BY <2>2 DEF PersistAccepted, RecordDelivered, AcceptAttempt, TypeOK, RowTypeOK
      <3> QED
        BY <1>1, <3>1, <3>2
    <2>3. CASE RecordNotSent(w, u) \/ RecordInline(w, u)
      <3> USE DEF RecordNotSent, RecordInline, FinishNotSent, FinishAttempt
      <3>1. u = s => sched'[s] = sched[s] \/ status'[s] # "sending"
        BY <2>1, <2>3 DEF TypeOK, RowTypeOK
      <3>2. u # s => sched'[s] = sched[s]
        BY <2>3 DEF TypeOK, RowTypeOK
      <3> QED
        BY <1>1, <3>1, <3>2
    <2>4. CASE UNCHANGED sched
      BY <1>1, <2>4
    <2> QED
      BY <1>2, <2>2, <2>3, <2>4 DEF Attempt, LoadRow, ReadHold, ReadAttempts,
         ReadInstructions, ClaimAttempt, PutClaim, FileAfterSend
  <1>3. ASSUME NEW w \in Requests, NEW u \in Subs,
               SetInstructions(w, u) \/ ReleaseRow(w, u) \/ AttemptReleased(w, u)
        PROVE  Frozen(s)
    <2>1. CASE SetInstructions(w, u)
      <3>1. CASE u = s
        BY <2>1, <3>1 DEF SetInstructions, TypeOK, RowTypeOK, Schedule
      <3>2. CASE u # s
        BY <1>1, <2>1, <3>2 DEF SetInstructions, TypeOK, RowTypeOK
      <3> QED
        BY <3>1, <3>2
    <2>2. CASE ReleaseRow(w, u) \/ AttemptReleased(w, u)
      <3>1. u # s => sched'[s] = sched[s]
        BY <2>2 DEF ReleaseRow, AttemptReleased, TypeOK, RowTypeOK
      <3>2. u = s => sched'[s] = sched[s] \/ status[s] # "sending"
        BY <2>2 DEF ReleaseRow, AttemptReleased, TypeOK, RowTypeOK
      <3> QED
        BY <1>1, <3>1, <3>2
    <2> QED
      BY <1>3, <2>1, <2>2
  <1>4. ASSUME NEW w \in Requests, ClientCall(w) PROVE Frozen(s)
    <2> PICK u \in Subs : \/ CreateInline(w, u) \/ CreateWaiting(w, u) \/ Cancel(w, u)
                          \/ Reschedule(w, u) \/ StartRelease(w, u)
      BY <1>4 DEF ClientCall
    <2>1. u # s => sched'[s] = sched[s]
      BY DEF CreateInline, CreateWaiting, Insert, Cancel, Reschedule, StartRelease, TypeOK,
         RowTypeOK
    <2>2. u = s => sched'[s] = sched[s] \/ status[s] # "sending"
      BY DEF CreateInline, CreateWaiting, Insert, Cancel, Recallable, Reschedule, Movable,
         StartRelease, TypeOK, RowTypeOK
    <2> QED
      BY <1>1, <2>1, <2>2
  <1>5. ASSUME NEW d \in Dispatchers, DispatcherStep(d) PROVE Frozen(s)
    BY <1>1, <1>2, <1>5 DEF DispatcherStep, StartPass, Scan, EndPass, Take
  <1>6. ASSUME NEW w \in Requests, RequestStep(w) PROVE Frozen(s)
    BY <1>2, <1>3, <1>6 DEF RequestStep
  <1>7. CASE \/ UNCHANGED vars \/ Tick
             \/ \E w \in Requests : DropRequest(w)
             \/ \E w \in Workers, u \in Subs : ServerAnswers(w, u)
             \/ \E p \in Procs : Crash(p) \/ Connect(p)
    BY <1>1, <1>7 DEF vars, Tick, DropRequest, ServerAnswers, Transmit, Quit, RejectAuth,
       Crash, Connect
  <1> QED
    BY <1>4, <1>5, <1>6, <1>7 DEF Next

\* A recall, a new send time or a release that comes while a row is being sent moves
\* nothing of its schedule, whichever process it comes to.
THEOREM SendingIsFrozen == Spec => FrozenWhileSending
  <1>1. TypeOK /\ [Next]_vars => [\A s \in Subs : Frozen(s)]_vars
    BY FrozenStep
  <1> QED
    BY <1>1, TypeInit, TypeStep, PTL DEF Spec, FrozenWhileSending, Frozen

\* What ReadsAreDue says of one task.
DueLocal(point, l) ==
    /\ l.clock <= now
    /\ point \in {"hold", "attempts", "instr", "claim"} => ~l.seen.hold
    /\ point \in {"attempts", "instr", "claim"} => l.clock >= FireTime(l.seen)
    /\ point \in {"instr", "claim"} => l.seen.next <= l.clock

LEMMA FireTimeSame ==
  ASSUME NEW a \in Schedule, NEW b \in Schedule, a.sendAt = b.sendAt,
         a.holdSecs = b.holdSecs, a.createdAt = b.createdAt
  PROVE  FireTime(a) = FireTime(b)
  BY DEF FireTime

\* One task moves to a point for which what it has read is due.
LEMMA GotoDue ==
  ASSUME TypeOK, ReadsAreDue, NEW w \in Workers, NEW point, NEW l, Goto(w, point, l),
         DueLocal(point, l), UNCHANGED now,
         \A d \in Dispatchers : pass'[d] \in {pass[d], NoPass}
  PROVE  ReadsAreDue'
  <1>1. \A v \in Workers : \/ pc'[v] = pc[v] /\ loc'[v] = loc[v]
                           \/ v = w /\ pc'[v] = point /\ loc'[v] = l
    BY DEF Goto, TypeOK, TaskTypeOK
  <1>2. \A d \in Dispatchers : pass'[d].clock <= now
    BY BoundsAssumption DEF ReadsAreDue, NoPass, TypeOK, WorldTypeOK, Times
  <1> QED
    BY <1>1, <1>2 DEF ReadsAreDue, DueLocal

LEMMA ReturnDue ==
  ASSUME TypeOK, ReadsAreDue, NEW w \in Workers, NEW s \in Subs, UNCHANGED now,
         Return(w, s) \/ Abort(w, s)
  PROVE  ReadsAreDue'
  <1>1. DueLocal("idle", Blank) /\ DueLocal("pass", Blank)
    BY BoundsAssumption DEF DueLocal, Blank, TypeOK, WorldTypeOK, Times
  <1> QED
    BY <1>1, GotoDue DEF Return, Abort, TypeOK, TaskTypeOK

LEMMA ReadsDue ==
  ASSUME TypeOK, ReadsAreDue, NEW w \in Workers, NEW s \in Subs, Attempt(w, s)
  PROVE  ReadsAreDue'
  <1> USE DEF world
  <1> DEFINE l == loc[w]
  <1>1. /\ l \in Locals /\ l.seen \in Schedule /\ sched[s] \in Schedule /\ l.clock \in Nat
        /\ l.clock <= now
    BY BoundsAssumption DEF TypeOK, TaskTypeOK, RowTypeOK, Locals, Times, ReadsAreDue
  <1>2. UNCHANGED now
    BY DEF Attempt, LoadRow, PersistAccepted, ReadHold, ReadAttempts, ReadInstructions,
       ClaimAttempt, RecordDelivered, FileAfterSend, RecordNotSent, RecordInline
  <1>3. CASE Return(w, s) \/ Abort(w, s)
    BY <1>2, <1>3, ReturnDue
  <1>4. ASSUME NEW point, NEW k, Proceed(w, point, k), DueLocal(point, k) PROVE ReadsAreDue'
    BY <1>2, <1>4, GotoDue DEF Proceed
  <1>5. CASE LoadRow(w, s)
    <2> DEFINE seen == [sched[s] EXCEPT !.hold = FALSE, !.next = NoTime, !.instr = 0]
               k == [l EXCEPT !.seen = seen]
    <2>1. DueLocal("persist", l)
      BY <1>1 DEF DueLocal
    <2>2. ~seen.hold
      BY <1>1 DEF Schedule
    <2>3. k.clock = l.clock /\ k.seen = seen
      BY <1>1 DEF Locals
    <2>4. DueLocal("hold", k)
      BY <1>1, <2>2, <2>3 DEF DueLocal
    <2> QED
      BY <1>3, <1>4, <1>5, <2>1, <2>4 DEF LoadRow
  <1>6. CASE ReadHold(w, s)
    <2> DEFINE a == [l.seen EXCEPT !.hold = sched[s].hold]
    <2>1. FireTime(a) = FireTime(l.seen)
      <3>1. a \in Schedule
        BY <1>1 DEF Schedule
      <3>2. a.sendAt = l.seen.sendAt /\ a.holdSecs = l.seen.holdSecs
            /\ a.createdAt = l.seen.createdAt
        BY <1>1 DEF Schedule
      <3> QED
        BY <1>1, <3>1, <3>2, FireTimeSame
    <2>2. Due(a, l.clock) => DueLocal("attempts", l)
      BY <1>1, <1>6, <2>1 DEF Due, DueLocal, ReadHold, At, ReadsAreDue
    <2> QED
      BY <1>3, <1>4, <1>6, <2>2 DEF ReadHold
  <1>7. CASE ReadAttempts(w, s)
    <2> DEFINE next == sched[s].next
               k == [l EXCEPT !.seen.next = next, !.tries = attempts[s]]
    <2>1. /\ k.clock = l.clock /\ k.seen \in Schedule /\ k.seen.next = next
          /\ k.seen.hold = l.seen.hold /\ k.seen.sendAt = l.seen.sendAt
          /\ k.seen.holdSecs = l.seen.holdSecs /\ k.seen.createdAt = l.seen.createdAt
      BY <1>1 DEF Locals, Schedule
    <2>2. FireTime(k.seen) = FireTime(l.seen)
      BY <1>1, <2>1, FireTimeSame
    <2>3. ~InBackoff(next, l.clock) => next <= l.clock
      BY <1>1, BoundsAssumption DEF InBackoff, NoTime, Schedule, MaybeAt, Times
    <2>4. ~l.seen.hold /\ l.clock >= FireTime(l.seen)
      BY <1>7 DEF ReadAttempts, At, ReadsAreDue
    <2> HIDE DEF k
    <2>5. ~InBackoff(next, l.clock) => DueLocal("instr", k)
      BY <1>1, <2>1, <2>2, <2>3, <2>4 DEF DueLocal
    <2> QED
      BY <1>3, <1>4, <1>7, <2>5 DEF ReadAttempts, k
  <1>8. CASE ReadInstructions(w, s)
    <2> DEFINE k == [l EXCEPT !.seen.instr = sched[s].instr]
    <2>1. /\ k.clock = l.clock /\ k.seen \in Schedule /\ k.seen.next = l.seen.next
          /\ k.seen.hold = l.seen.hold /\ k.seen.sendAt = l.seen.sendAt
          /\ k.seen.holdSecs = l.seen.holdSecs /\ k.seen.createdAt = l.seen.createdAt
      BY <1>1 DEF Locals, Schedule
    <2>2. FireTime(k.seen) = FireTime(l.seen)
      BY <1>1, <2>1, FireTimeSame
    <2>3. ~l.seen.hold /\ l.clock >= FireTime(l.seen) /\ l.seen.next <= l.clock
      BY <1>8 DEF ReadInstructions, At, ReadsAreDue
    <2> HIDE DEF k
    <2>4. DueLocal("claim", k)
      BY <1>1, <2>1, <2>2, <2>3 DEF DueLocal
    <2> QED
      BY <1>3, <1>4, <1>8, <2>4 DEF ReadInstructions, k
  <1>9. CASE ClaimAttempt(w, s)
    <2> DEFINE k == [l EXCEPT !.claim = issued[s] + 1]
    <2>1. DueLocal("smtp", k)
      BY <1>1 DEF DueLocal, Locals
    <2> HIDE DEF k
    <2> QED
      BY <1>3, <1>4, <1>9, <2>1 DEF ClaimAttempt, k
  <1>10. CASE RecordDelivered(w, s)
    <2>1. DueLocal("file", l)
      BY <1>1 DEF DueLocal
    <2> QED
      BY <1>4, <1>10, <2>1 DEF RecordDelivered
  <1>11. CASE RecordInline(w, s)
    <2>1. DueLocal("idle", Blank)
      BY BoundsAssumption DEF DueLocal, Blank, TypeOK, WorldTypeOK, Times
    <2> QED
      BY <1>4, <1>11, <2>1 DEF RecordInline
  <1> QED
    BY <1>3, <1>5, <1>6, <1>7, <1>8, <1>9, <1>10, <1>11 DEF Attempt, PersistAccepted,
       FileAfterSend, RecordNotSent

LEMMA DueMoves ==
  ASSUME TypeOK, ReadsAreDue, [Next]_vars
  PROVE  ReadsAreDue'
  <1> USE DEF world, tasks
  <1>1. now \in Nat /\ now \in Times
    BY BoundsAssumption DEF TypeOK, WorldTypeOK, Times
  <1>2. ASSUME UNCHANGED <<pc, loc, pass>>, now' \in Nat, now' >= now
        PROVE  ReadsAreDue'
    <2>1. /\ \A w \in Workers : loc[w].clock \in Nat
          /\ \A d \in Dispatchers : pass[d].clock \in Nat
      BY BoundsAssumption DEF TypeOK, TaskTypeOK, Locals, Passes, Times
    <2> QED
      BY <1>1, <1>2, <2>1 DEF ReadsAreDue
  <1>3. \A point \in {"idle", "pass", "load", "relset", "relcas", "enter", "quit", "accept",
                      "finish", "report"}, l \in Locals :
           l.clock <= now => DueLocal(point, l)
    BY DEF DueLocal
  <1>4. Blank \in Locals /\ Blank.clock = 0 /\ NoPass.clock = 0
    BY BlankIsLocal DEF Blank, NoPass
  <1>5. ASSUME NEW d \in Dispatchers, DispatcherStep(d) PROVE ReadsAreDue'
    <2>1. pass[d] \in Passes /\ pass[d].clock <= now
      BY DEF TypeOK, TaskTypeOK, ReadsAreDue
    <2>2. CASE StartPass(d) \/ Scan(d) \/ EndPass(d)
      <3>1. /\ UNCHANGED <<loc, now>>
            /\ \A w \in Workers : pc'[w] = pc[w] \/ pc'[w] \in {"idle", "pass"}
        BY <2>2 DEF StartPass, Scan, EndPass, TypeOK, TaskTypeOK
      <3>2. \A e \in Dispatchers : pass'[e].clock \in {pass[e].clock, now, 0}
        BY <1>4, <2>1, <2>2 DEF StartPass, Scan, EndPass, TypeOK, TaskTypeOK, Passes
      <3> QED
        BY <1>1, <3>1, <3>2 DEF ReadsAreDue
    <2>3. ASSUME NEW s \in Subs, Take(d, s) PROVE ReadsAreDue'
      <3> DEFINE k == [Blank EXCEPT !.sub = s, !.clock = pass[d].clock]
      <3>1. k.clock = pass[d].clock
        BY DEF Blank
      <3>2. /\ UNCHANGED now
            /\ \A w \in Workers : \/ pc'[w] = pc[w] /\ loc'[w] = loc[w]
                                  \/ pc'[w] = "load" /\ loc'[w] = k
        BY <2>3 DEF Take, Goto, TypeOK, TaskTypeOK
      <3>3. \A e \in Dispatchers : pass'[e].clock = pass[e].clock
        BY <2>1, <2>3 DEF Take, TypeOK, TaskTypeOK, Passes
      <3> HIDE DEF k
      <3> QED
        BY <2>1, <3>1, <3>2, <3>3 DEF ReadsAreDue
    <2> QED
      BY <1>5, <2>2, <2>3, ReadsDue DEF DispatcherStep
  <1>6. ASSUME NEW w \in Requests, NEW s \in Subs,
               SetInstructions(w, s) \/ ReleaseRow(w, s) \/ AttemptReleased(w, s)
        PROVE  ReadsAreDue'
    <2> DEFINE k == [Blank EXCEPT !.sub = s, !.clock = now]
    <2>1. k.clock = now /\ k \in Locals
      BY <1>1, <1>4 DEF Blank, Locals
    <2>2. loc[w] \in Locals /\ loc[w].clock <= now
      BY DEF TypeOK, TaskTypeOK, ReadsAreDue
    <2>3. UNCHANGED <<now, pass>>
      BY <1>6 DEF SetInstructions, ReleaseRow, AttemptReleased
    <2>4. \E point \in {"idle", "relcas", "enter", "load"}, l \in {loc[w], Blank, k} :
             Goto(w, point, l)
      BY <1>6 DEF SetInstructions, ReleaseRow, AttemptReleased
    <2> HIDE DEF k
    <2> QED
      BY <1>1, <1>3, <1>4, <2>1, <2>2, <2>3, <2>4, GotoDue
  <1>7. ASSUME NEW w \in Requests, NEW s \in Subs, CreateInline(w, s) PROVE ReadsAreDue'
    <2> PICK at \in {NoTime, now} :
          Goto(w, "instr", [Blank EXCEPT !.sub = s, !.inline = TRUE, !.clock = now,
                              !.seen = [NoSched EXCEPT !.sendAt = at, !.createdAt = now]])
      BY <1>7 DEF CreateInline
    <2> DEFINE sc == [NoSched EXCEPT !.sendAt = at, !.createdAt = now]
               k == [Blank EXCEPT !.sub = s, !.inline = TRUE, !.clock = now, !.seen = sc]
    <2>1. k.clock = now /\ k.seen = sc
      BY DEF Blank
    <2>2. /\ sc.sendAt = at /\ sc.createdAt = now /\ sc.holdSecs = 0 /\ ~sc.hold
          /\ sc.next = NoTime
      BY DEF NoSched
    <2>3. FireTime(sc) = now
      BY <1>1, <2>2, BoundsAssumption DEF FireTime, Later, Lesser, Times, NoTime
    <2> HIDE DEF sc
    <2>4. DueLocal("instr", k)
      BY <1>1, <2>1, <2>2, <2>3 DEF DueLocal, NoTime
    <2> QED
      BY <1>7, <2>4, GotoDue DEF CreateInline, sc
  <1>8. ASSUME NEW w \in Requests, NEW s \in Subs, StartRelease(w, s) PROVE ReadsAreDue'
    <2> DEFINE k == [Blank EXCEPT !.sub = s, !.req = reqs + 1]
    <2>1. k.clock = 0
      BY DEF Blank
    <2>2. UNCHANGED <<now, pass>> /\ \E point \in {"relset", "relcas"} : Goto(w, point, k)
      BY <1>8 DEF StartRelease
    <2>3. DueLocal("relset", k) /\ DueLocal("relcas", k)
      BY <1>1, <2>1 DEF DueLocal
    <2> HIDE DEF k
    <2> QED
      BY <2>2, <2>3, GotoDue
  <1>9. ASSUME NEW w \in Requests, NEW s \in Subs,
               CreateWaiting(w, s) \/ Cancel(w, s) \/ Reschedule(w, s)
        PROVE  ReadsAreDue'
    <2>1. UNCHANGED <<pc, loc, pass, now>>
      BY <1>9 DEF CreateWaiting, Cancel, Reschedule
    <2> QED
      BY <1>1, <1>2, <2>1
  <1>10. ASSUME NEW w \in Requests, DropRequest(w) PROVE ReadsAreDue'
    BY <1>1, <1>3, <1>4, <1>10, GotoDue DEF DropRequest
  <1>11. ASSUME NEW w \in Workers, NEW s \in Subs, ServerAnswers(w, s) PROVE ReadsAreDue'
    <2>1. loc[w] \in Locals /\ loc[w].clock <= now
      BY DEF TypeOK, TaskTypeOK, ReadsAreDue
    <2>2. \A o \in Outcomes : /\ [loc[w] EXCEPT !.outcome = o] \in Locals
                              /\ [loc[w] EXCEPT !.outcome = o].clock = loc[w].clock
      BY <2>1 DEF Locals
    <2>3. UNCHANGED now
      BY <1>11 DEF ServerAnswers, Transmit, Quit, RejectAuth
    <2>4. /\ UNCHANGED pass
          /\ \E point \in {"quit", "accept", "finish", "report"},
                l \in {loc[w]} \cup {[loc[w] EXCEPT !.outcome = o] : o \in Outcomes} :
                   Goto(w, point, l)
      BY <1>11 DEF ServerAnswers, Transmit, Quit, RejectAuth, Accepted, ReplyLost,
         NotAccepted, NotSent, Proceed, Outcomes
    <2>5. \A d \in Dispatchers : pass'[d] \in {pass[d], NoPass}
      BY <2>4
    <2>6. ASSUME NEW point \in {"quit", "accept", "finish", "report"}, NEW l \in Locals,
                 l.clock <= now, Goto(w, point, l)
          PROVE  ReadsAreDue'
      <3>1. DueLocal(point, l)
        BY <1>3, <2>6
      <3> QED
        BY <2>3, <2>5, <2>6, <3>1, GotoDue
    <2> QED
      BY <2>1, <2>2, <2>4, <2>6
  <1>12. ASSUME NEW p \in Procs, Crash(p) \/ Connect(p) PROVE ReadsAreDue'
    <2>1. UNCHANGED now
      BY <1>12 DEF Crash, Connect
    <2>2. \A w \in Workers : \/ pc'[w] = pc[w] /\ loc'[w] = loc[w]
                             \/ pc'[w] = "idle" /\ loc'[w] = Blank
      BY <1>12 DEF Crash, Connect
    <2>3. \A d \in Dispatchers : pass'[d] \in {pass[d], NoPass}
      BY <1>12 DEF Crash, Connect
    <2> QED
      BY <1>1, <1>4, <2>1, <2>2, <2>3 DEF ReadsAreDue
  <1>13. CASE Tick
    BY <1>1, <1>2, <1>13 DEF Tick
  <1>14. CASE UNCHANGED vars
    BY <1>1, <1>2, <1>14 DEF vars
  <1> QED
    BY <1>5, <1>6, <1>7, <1>8, <1>9, <1>10, <1>11, <1>12, <1>13, <1>14, ReadsDue
    DEF Next, RequestStep, ClientCall

\* A task gets to the dialogue by its claim alone.
LEMMA SmtpFromClaim ==
  ASSUME TypeOK, [Next]_vars, NEW v \in Workers, NEW u \in Subs, At(v, u, "smtp")'
  PROVE  \/ At(v, u, "smtp") /\ pc'[v] = pc[v] /\ loc'[v] = loc[v]
         \/ ClaimAttempt(v, u) /\ Claimable(v, u) /\ PutClaim(u)
  <1> DEFINE Stays == pc'[v] = pc[v] /\ loc'[v] = loc[v]
             Claims == ClaimAttempt(v, u) /\ Claimable(v, u) /\ PutClaim(u)
  <1> SUFFICES Stays \/ Claims
    BY DEF At
  <1>1. pc'[v] = "smtp" /\ loc'[v].sub = u
    BY DEF At
  <1>2. ASSUME NEW w \in Workers, NEW point, NEW l, Goto(w, point, l), point # "smtp"
        PROVE  Stays
    BY <1>1, <1>2 DEF Goto, TypeOK, TaskTypeOK
  <1>3. ASSUME NEW w \in Workers, NEW s \in Subs, Return(w, s) \/ Abort(w, s)
        PROVE  Stays
    BY <1>2, <1>3 DEF Return, Abort
  <1>4. ASSUME NEW w \in Workers, NEW s \in Subs, Attempt(w, s) PROVE Stays \/ Claims
    <2>1. CASE ClaimAttempt(w, s) /\ ~(Return(w, s))
      <3>1. w # v => Stays
        BY <2>1 DEF ClaimAttempt, Proceed, Goto, TypeOK, TaskTypeOK
      <3>2. w = v => loc'[v].sub = s
        BY <2>1 DEF ClaimAttempt, At, Proceed, Goto, TypeOK, TaskTypeOK, Locals
      <3> QED
        BY <1>1, <2>1, <3>1, <3>2 DEF ClaimAttempt
    <2> QED
      BY <1>2, <1>3, <1>4, <2>1 DEF Attempt, LoadRow, PersistAccepted, ReadHold, ReadAttempts,
         ReadInstructions, RecordDelivered, FileAfterSend, RecordNotSent, RecordInline,
         Proceed
  <1>5. ASSUME NEW d \in Dispatchers, DispatcherStep(d) PROVE Stays \/ Claims
    BY <1>1, <1>2, <1>4, <1>5 DEF DispatcherStep, StartPass, Scan, EndPass, Take, TypeOK,
       TaskTypeOK
  <1>6. ASSUME NEW w \in Requests, RequestStep(w) PROVE Stays \/ Claims
    BY <1>2, <1>4, <1>6 DEF RequestStep, SetInstructions, ReleaseRow, AttemptReleased
  <1>7. ASSUME NEW w \in Requests, ClientCall(w) \/ DropRequest(w) PROVE Stays
    BY <1>2, <1>7 DEF ClientCall, CreateInline, CreateWaiting, Cancel, Reschedule,
       StartRelease, DropRequest, tasks
  <1>8. ASSUME NEW w \in Workers, NEW s \in Subs, ServerAnswers(w, s) PROVE Stays
    BY <1>2, <1>8 DEF ServerAnswers, Transmit, Quit, RejectAuth, Accepted, ReplyLost,
       NotAccepted, NotSent, Proceed
  <1>9. ASSUME NEW p \in Procs, Crash(p) \/ Connect(p) PROVE Stays
    BY <1>1, <1>9 DEF Crash, Connect, tasks
  <1>10. CASE Tick \/ UNCHANGED vars
    BY <1>10 DEF Tick, vars, tasks
  <1> QED
    BY <1>5, <1>6, <1>7, <1>8, <1>9, <1>10 DEF Next

LEMMA NowGrows ==
  ASSUME [Next]_vars PROVE now' = now \/ now' = now + 1
  <1> USE DEF world
  <1>1. ASSUME NEW w \in Workers, NEW s \in Subs, Attempt(w, s) \/ ServerAnswers(w, s)
        PROVE  now' = now
    BY <1>1 DEF Attempt, LoadRow, PersistAccepted, ReadHold, ReadAttempts, ReadInstructions,
       ClaimAttempt, RecordDelivered, FileAfterSend, RecordNotSent, RecordInline,
       ServerAnswers, Transmit, Quit, RejectAuth
  <1>2. ASSUME NEW d \in Dispatchers, DispatcherStep(d) PROVE now' = now
    BY <1>1, <1>2 DEF DispatcherStep, StartPass, Scan, EndPass, Take
  <1>3. ASSUME NEW w \in Requests, RequestStep(w) \/ ClientCall(w) \/ DropRequest(w)
        PROVE  now' = now
    BY <1>1, <1>3 DEF RequestStep, SetInstructions, ReleaseRow, AttemptReleased, ClientCall,
       CreateInline, CreateWaiting, Cancel, Reschedule, StartRelease, DropRequest
  <1> QED
    BY <1>1, <1>2, <1>3 DEF Next, Crash, Connect, Tick, vars

LEMMA SentStep ==
  ASSUME TypeOK, CopiesInv, CopiesInv', ReadsAreDue, SentOnlyWhenDue, [Next]_vars
  PROVE  SentOnlyWhenDue'
  <1> SUFFICES ASSUME NEW s \in Subs, NEW w \in Workers, At(w, s, "smtp")'
               PROVE  Due(sched'[s], now') /\ sched'[s].next <= now'
    BY DEF SentOnlyWhenDue, Due, FireTime, Later, Lesser
  <1>1. /\ now \in Nat /\ now' \in Nat /\ now' >= now
        /\ sched[s] \in Schedule /\ sched'[s] \in Schedule
    <2>1. TypeOK'
      BY TypeStep
    <2> QED
      BY <2>1, BoundsAssumption, NowGrows DEF TypeOK, WorldTypeOK, RowTypeOK, Times
  <1>2. FireTime(sched[s]) \in Int /\ sched[s].next \in Int
    BY <1>1, BoundsAssumption DEF FireTime, Schedule, MaybeAt, Times, NoTime, Later, Lesser
  <1>3. CASE At(w, s, "smtp")
    <2>1. status[s] = "sending" /\ status'[s] = "sending"
      BY <1>3 DEF CopiesInv, OwnerHoldsRow, Matches, Owns, At
    <2>2. Frozen(s)
      BY FrozenStep
    <2>3. /\ sched'[s].hold = sched[s].hold /\ sched'[s].next = sched[s].next
          /\ sched'[s].sendAt = sched[s].sendAt /\ sched'[s].holdSecs = sched[s].holdSecs
          /\ sched'[s].createdAt = sched[s].createdAt
      BY <1>1, <2>1, <2>2 DEF Frozen, Schedule
    <2>4. FireTime(sched'[s]) = FireTime(sched[s])
      BY <1>1, <2>3, FireTimeSame
    <2>5. Due(sched[s], now) /\ sched[s].next <= now
      BY <1>3 DEF SentOnlyWhenDue
    <2> QED
      BY <1>1, <1>2, <2>3, <2>4, <2>5 DEF Due
  <1>4. CASE ClaimAttempt(w, s) /\ Claimable(w, s) /\ PutClaim(s)
    <2>1. /\ sched[s] = loc[w].seen /\ sched' = sched /\ now' = now
          /\ pc[w] = "claim"
      BY <1>4 DEF ClaimAttempt, Claimable, PutClaim, At
    <2>2. /\ ~sched[s].hold /\ loc[w].clock >= FireTime(sched[s]) /\ loc[w].clock <= now
          /\ sched[s].next <= loc[w].clock
      BY <2>1 DEF ReadsAreDue
    <2>3. loc[w].clock \in Nat
      BY BoundsAssumption DEF TypeOK, TaskTypeOK, Locals, Times
    <2> QED
      BY <1>1, <1>2, <2>1, <2>2, <2>3 DEF Due
  <1> QED
    BY <1>3, <1>4, SmtpFromClaim

LEMMA DueInit == Init => ReadsAreDue /\ SentOnlyWhenDue
  BY DEF Init, ReadsAreDue, SentOnlyWhenDue, At, Blank, NoPass

LEMMA DueInvariant == Spec => [](ReadsAreDue /\ SentOnlyWhenDue)
  <1>1. /\ TypeOK /\ CopiesInv /\ CopiesInv' /\ ReadsAreDue /\ SentOnlyWhenDue
        /\ [Next]_vars
        => ReadsAreDue' /\ SentOnlyWhenDue'
    BY DueMoves, SentStep
  <1> QED
    BY <1>1, DueInit, TypeInit, TypeStep, CopiesInit, CopiesStep, PTL DEF Spec

\* What a task remembers of the rows it read was due when it read them, and stays so
\* until it claims.
THEOREM DueWhenRead == Spec => []ReadsAreDue
  BY DueInvariant, PTL

\* A message is only ever handed over when its row, as it is at that moment, is not
\* held, its time has come and no backoff runs, however many store calls and requests
\* of other processes lie between the reads and the claim.
THEOREM SentWhenDue == Spec => []SentOnlyWhenDue
  BY DueInvariant, PTL
-----------------------------------------------------------------------------
(* The guard of a process (SENDS_IN_FLIGHT): one of its tasks works on a row at *)
(* a time, so what that task has read of the attempts is what it will count on. *)

\* The task is at a row.
AtRow(w) == pc[w] \notin {"idle", "pass"}

\* The rows that tasks, passes, guards and memories name exist.
NamesExist ==
    /\ \A w \in Workers : AtRow(w) => loc[w].sub \in Subs /\ status[loc[w].sub] # "absent"
    /\ \A d \in Dispatchers : \A s \in pass[d].todo : status[s] # "absent"
    /\ \A p \in Procs, s \in Subs :
          s \in inflight[p] \/ accepted[p][s] # 0 => status[s] # "absent"

\* A task that works on a row has the guard, and is the only one of its process
\* with it.
GuardHeld ==
    /\ \A w \in Workers : pc[w] \in Guarded => loc[w].sub \in inflight[Home[w]]
    /\ \A v, w \in Workers : /\ pc[v] \in Guarded /\ pc[w] \in Guarded
                             /\ Home[v] = Home[w] /\ loc[v].sub = loc[w].sub
                             => v = w

\* Between the load of a row and its claim.
Reading == {"hold", "attempts", "instr", "claim"}

\* An inline send has let go of the guard before it records that nothing was
\* accepted.  Its row is still under its claim: a task of the process that takes
\* the guard now gets no further than the load.
ResultAlone ==
    \A v \in Workers : pc[v] = "report" =>
        /\ loc[v].inline
        /\ \A w \in Workers : pc[w] \in Reading /\ Home[v] = Home[w]
                             => loc[v].sub # loc[w].sub

\* From the read of the attempts to the result.
Counting == {"instr", "claim", "smtp", "quit", "accept", "finish"}

\* An attempt moves on, with what it knows of the attempts, or it ends.
GoesOn(w, s) ==
    \E point \in Guarded, l \in Locals :
        /\ Proceed(w, point, l)
        /\ l.sub = s
        /\ point \in Counting =>
              \/ l.tries = attempts[s]
              \/ pc[w] \in Counting /\ l.tries = loc[w].tries /\ l.inline = loc[w].inline

Ends(w, s) == Return(w, s) \/ Abort(w, s)

\* An inline send lets go of the guard with its result in hand.
LetsGo(w, s) ==
    /\ pc[w] = "smtp" /\ loc[w].inline
    /\ \E l \in Locals : l.sub = s /\ l.inline /\ Goto(w, "report", l)
    /\ inflight' = [inflight EXCEPT ![Home[w]] = @ \ {s}]
    /\ UNCHANGED pass

LEMMA AttemptMoves ==
  ASSUME TypeOK, NEW w \in Workers, NEW s \in Subs, Attempt(w, s) \/ ServerAnswers(w, s)
  PROVE  /\ loc[w].sub = s
         /\ \/ pc[w] \in Guarded /\ (GoesOn(w, s) \/ Ends(w, s) \/ LetsGo(w, s))
            \/ RecordInline(w, s)
  <1> USE DEF Guarded, Counting
  <1>1. /\ loc[w] \in Locals /\ sched[s] \in Schedule
        /\ attempts[s] \in Nat /\ issued[s] \in Nat
    BY DEF TypeOK, TaskTypeOK, RowTypeOK, WorldTypeOK
  <1>2. loc[w].sub = s /\ (RecordInline(w, s) \/ pc[w] \in Guarded)
    BY DEF Attempt, ServerAnswers, LoadRow, PersistAccepted, ReadHold, ReadAttempts,
       ReadInstructions, ClaimAttempt, RecordDelivered, FileAfterSend, RecordNotSent,
       RecordInline, Transmit, Quit, RejectAuth, At
  <1>3. ASSUME NEW point \in Guarded, Proceed(w, point, loc[w]),
               point \in Counting => pc[w] \in Counting
        PROVE  GoesOn(w, s)
    BY <1>1, <1>2, <1>3 DEF GoesOn
  <1>4. CASE LoadRow(w, s)
    <2> DEFINE l == [loc[w] EXCEPT !.seen =
                       [sched[s] EXCEPT !.hold = FALSE, !.next = NoTime, !.instr = 0]]
    <2>1. l \in Locals /\ l.sub = s
      <3>1. [sched[s] EXCEPT !.hold = FALSE, !.next = NoTime, !.instr = 0] \in Schedule
        <4>1. 0 \in 0 .. MaxRequests /\ NoTime \in MaybeAt
          BY BoundsAssumption DEF MaybeAt
        <4> QED
          BY <1>1, <4>1 DEF Schedule
      <3> QED
        BY <1>1, <1>2, <3>1 DEF Locals
    <2>2. \/ Ends(w, s) \/ Proceed(w, "persist", loc[w]) \/ Proceed(w, "hold", l)
      BY <1>4 DEF LoadRow, Ends
    <2> HIDE DEF l
    <2>3. Proceed(w, "hold", l) => GoesOn(w, s)
      BY <2>1 DEF GoesOn
    <2> QED
      BY <1>2, <1>3, <2>2, <2>3
  <1>5. CASE PersistAccepted(w, s) \/ FileAfterSend(w, s) \/ RecordNotSent(w, s)
    BY <1>2, <1>5 DEF PersistAccepted, FileAfterSend, RecordNotSent, Ends
  <1>6. CASE ReadHold(w, s)
    BY <1>2, <1>3, <1>6 DEF ReadHold, Ends
  <1>7. CASE ReadAttempts(w, s)
    <2> DEFINE l == [loc[w] EXCEPT !.seen.next = sched[s].next, !.tries = attempts[s]]
    <2>1. l \in Locals /\ l.sub = s /\ l.tries = attempts[s]
      BY <1>1, <1>2 DEF Locals, Schedule
    <2>2. Ends(w, s) \/ Proceed(w, "instr", l)
      BY <1>7 DEF ReadAttempts, Ends
    <2> HIDE DEF l
    <2> QED
      BY <1>2, <2>1, <2>2 DEF GoesOn
  <1>8. CASE ReadInstructions(w, s)
    <2> DEFINE l == [loc[w] EXCEPT !.seen.instr = sched[s].instr]
    <2>1. l \in Locals /\ l.sub = s /\ l.tries = loc[w].tries /\ l.inline = loc[w].inline
      BY <1>1, <1>2 DEF Locals, Schedule
    <2>2. Ends(w, s) \/ Proceed(w, "claim", l)
      BY <1>8 DEF ReadInstructions, Ends
    <2> HIDE DEF l
    <2>3. pc[w] \in Counting
      BY <1>8 DEF ReadInstructions, At
    <2> QED
      BY <1>2, <2>1, <2>2, <2>3 DEF GoesOn
  <1>9. CASE ClaimAttempt(w, s)
    <2> DEFINE l == [loc[w] EXCEPT !.claim = issued[s] + 1]
    <2>1. l \in Locals /\ l.sub = s /\ l.tries = loc[w].tries /\ l.inline = loc[w].inline
      BY <1>1, <1>2 DEF Locals
    <2>2. Ends(w, s) \/ Proceed(w, "smtp", l)
      BY <1>9 DEF ClaimAttempt, Ends
    <2> HIDE DEF l
    <2>3. pc[w] \in Counting
      BY <1>9 DEF ClaimAttempt, At
    <2> QED
      BY <1>2, <2>1, <2>2, <2>3 DEF GoesOn
  <1>10. CASE Transmit(w, s) \/ RejectAuth(w, s)
    <2> DEFINE l(o) == [loc[w] EXCEPT !.outcome = o]
    <2>1. \A o \in Outcomes : /\ l(o) \in Locals /\ l(o).sub = s
                              /\ l(o).tries = loc[w].tries /\ l(o).inline = loc[w].inline
      BY <1>1, <1>2 DEF Locals
    <2>2. \/ Proceed(w, "quit", loc[w])
          \/ \E o \in Outcomes : NotSent(w, s, o)
      BY <1>10 DEF Transmit, RejectAuth, Accepted, ReplyLost, NotAccepted, Outcomes
    <2>3. pc[w] = "smtp" /\ pc[w] \in Counting
      BY <1>10 DEF Transmit, RejectAuth, At
    <2>4. ASSUME NEW o \in Outcomes, NotSent(w, s, o) PROVE GoesOn(w, s) \/ LetsGo(w, s)
      <3>1. \/ Proceed(w, "finish", l(o))
            \/ /\ l(o).inline /\ Goto(w, "report", l(o)) /\ UNCHANGED pass
               /\ inflight' = [inflight EXCEPT ![Home[w]] = @ \ {s}]
        BY <2>4 DEF NotSent
      <3> HIDE DEF l
      <3>2. Proceed(w, "finish", l(o)) => GoesOn(w, s)
        BY <2>1, <2>3 DEF GoesOn
      <3> QED
        BY <2>1, <2>3, <3>1, <3>2 DEF LetsGo
    <2> QED
      BY <1>2, <1>3, <2>2, <2>3, <2>4
  <1>11. CASE Quit(w, s) \/ RecordDelivered(w, s)
    <2>1. pc[w] \in Counting
      BY <1>11 DEF Quit, RecordDelivered, At
    <2> QED
      BY <1>2, <1>3, <1>11, <2>1 DEF Quit, RecordDelivered
  <1> QED
    BY <1>2, <1>4, <1>5, <1>6, <1>7, <1>8, <1>9, <1>10, <1>11 DEF Attempt, ServerAnswers

\* Where an attempt leaves the tasks and the guard.
LEMMA AttemptTouches ==
  ASSUME TypeOK, NEW w \in Workers, NEW s \in Subs, Attempt(w, s) \/ ServerAnswers(w, s)
  PROVE  /\ AtRow(w) /\ loc[w].sub = s
         /\ \A v \in Workers \ {w} : pc'[v] = pc[v] /\ loc'[v] = loc[v]
         /\ \/ pc[w] \in Guarded /\ pc'[w] \in Guarded /\ UNCHANGED inflight
            \/ /\ pc[w] \in Guarded /\ pc'[w] \in {"idle", "pass", "report"}
               /\ inflight' = [inflight EXCEPT ![Home[w]] = @ \ {s}]
            \/ pc[w] = "report" /\ pc'[w] = "idle" /\ UNCHANGED inflight
         /\ AtRow(w)' => loc'[w].sub = s
         /\ \A d \in Dispatchers : pass'[d] = pass[d] \/ pass'[d] = NoPass
  <1> USE DEF AtRow, Guarded, Proceed, Goto, TypeOK, TaskTypeOK
  <1>1. CASE pc[w] \in Guarded /\ (GoesOn(w, s) \/ Ends(w, s) \/ LetsGo(w, s))
    BY <1>1, AttemptMoves DEF GoesOn, Ends, LetsGo, Return, Abort
  <1>2. CASE RecordInline(w, s)
    BY <1>2, AttemptMoves DEF RecordInline, At
  <1> QED
    BY <1>1, <1>2, AttemptMoves

\* No row goes back to not existing.
LEMMA RowsRemain ==
  ASSUME TypeOK, CopiesInv, [Next]_vars, NEW s \in Subs, status[s] # "absent"
  PROVE  status'[s] # "absent"
  BY PromiseStep DEF TypeOK, RowTypeOK, Promise!Next, Promise!vars, Promise!Submit,
     Promise!Recall, Promise!Begin, Promise!PutBack, Promise!GiveUp, Promise!Confirm,
     Promise!Doubt, Promise!HandOver, Promise!Move

GuardInv == NamesExist /\ GuardHeld

\* Tasks that keep their guard and their row, or go without one.
LEMMA GuardStays ==
  ASSUME GuardHeld,
         \A v \in Workers : pc'[v] \in Guarded =>
            /\ pc[v] \in Guarded /\ loc'[v].sub = loc[v].sub
            /\ loc[v].sub \in inflight'[Home[v]]
  PROVE  GuardHeld'
  BY DEF GuardHeld

\* A task that takes the guard of a row nobody in its process works on.
LEMMA GuardTaken ==
  ASSUME TypeOK, GuardHeld, NEW w \in Workers, NEW s \in Subs,
         s \notin inflight[Home[w]],
         inflight' = [inflight EXCEPT ![Home[w]] = @ \cup {s}],
         NEW point \in Guarded, NEW l, l.sub = s, Goto(w, point, l)
  PROVE  GuardHeld'
  <1>1. /\ pc'[w] \in Guarded /\ loc'[w].sub = s
        /\ \A v \in Workers \ {w} : pc'[v] = pc[v] /\ loc'[v] = loc[v]
    BY DEF Goto, TypeOK, TaskTypeOK
  <1>2. /\ s \in inflight'[Home[w]]
        /\ \A p \in Procs : inflight[p] \subseteq inflight'[p]
    BY HomeIsProc DEF TypeOK, TaskTypeOK
  <1>3. \A v \in Workers \ {w} : pc[v] \in Guarded /\ Home[v] = Home[w] => loc[v].sub # s
    BY DEF GuardHeld
  <1> QED
    BY <1>1, <1>2, <1>3, HomeIsProc DEF GuardHeld

\* Rows that exist are named as before, or newly when they exist.
LEMMA NamesStay ==
  ASSUME TypeOK, NamesExist,
         \A s \in Subs : status[s] # "absent" => status'[s] # "absent",
         \A v \in Workers : AtRow(v)' =>
            \/ AtRow(v) /\ loc'[v].sub = loc[v].sub
            \/ loc'[v].sub \in Subs /\ status'[loc'[v].sub] # "absent",
         \A d \in Dispatchers : \A s \in pass'[d].todo :
            s \in pass[d].todo \/ status'[s] # "absent",
         \A p \in Procs, s \in Subs :
            /\ s \in inflight'[p] => s \in inflight[p] \/ status'[s] # "absent"
            /\ accepted'[p][s] # 0 => accepted[p][s] # 0 \/ status'[s] # "absent"
  PROVE  NamesExist'
  <1>1. \A d \in Dispatchers : pass[d].todo \subseteq Subs
    BY DEF TypeOK, TaskTypeOK, Passes
  <1> QED
    BY <1>1 DEF NamesExist

\* One place of a memory is written.
LEMMA Remembered ==
  ASSUME TypeOK, NEW p \in Procs, NEW s \in Subs, NEW c,
         accepted' = [accepted EXCEPT ![p][s] = c]
  PROVE  \A q \in Procs, u \in Subs :
            accepted'[q][u] = IF q = p /\ u = s THEN c ELSE accepted[q][u]
  BY DEF TypeOK, MemoryTypeOK

LEMMA AttemptGuarded ==
  ASSUME TypeOK, CopiesInv, GuardInv, [Next]_vars, NEW w \in Workers, NEW s \in Subs,
         Attempt(w, s) \/ ServerAnswers(w, s)
  PROVE  GuardInv'
  <1>1. AtRow(w) /\ loc[w].sub = s /\ (AtRow(w)' => loc'[w].sub = s)
    BY AttemptTouches
  <1>2. /\ \A v \in Workers \ {w} : pc'[v] = pc[v] /\ loc'[v] = loc[v]
        /\ \/ pc[w] \in Guarded /\ pc'[w] \in Guarded /\ UNCHANGED inflight
           \/ /\ pc[w] \in Guarded /\ pc'[w] \in {"idle", "pass", "report"}
              /\ inflight' = [inflight EXCEPT ![Home[w]] = @ \ {s}]
           \/ pc[w] = "report" /\ pc'[w] = "idle" /\ UNCHANGED inflight
        /\ \A d \in Dispatchers : pass'[d] = pass[d] \/ pass'[d] = NoPass
    BY AttemptTouches
  <1>3. GuardHeld'
    <2>1. CASE pc[w] \in Guarded /\ pc'[w] \in Guarded /\ UNCHANGED inflight
      BY <1>1, <1>2, <2>1, GuardStays DEF GuardInv, GuardHeld, AtRow, Guarded
    <2>2. CASE /\ pc[w] \in Guarded /\ pc'[w] \in {"idle", "pass", "report"}
               /\ inflight' = [inflight EXCEPT ![Home[w]] = @ \ {s}]
      <3>1. pc'[w] \notin Guarded
        BY <2>2 DEF Guarded
      <3>2. \A v \in Workers \ {w} : pc[v] \in Guarded => loc[v].sub \in inflight'[Home[v]]
        <4> SUFFICES ASSUME NEW v \in Workers \ {w}, pc[v] \in Guarded
                     PROVE  loc[v].sub \in inflight'[Home[v]]
          OBVIOUS
        <4>1. loc[v].sub \in inflight[Home[v]] /\ (Home[v] = Home[w] => loc[v].sub # s)
          BY <1>1, <2>2 DEF GuardInv, GuardHeld
        <4> QED
          BY <2>2, <4>1, HomeIsProc DEF TypeOK, TaskTypeOK
      <3> QED
        BY <1>2, <3>1, <3>2, GuardStays DEF GuardInv
    <2>3. CASE pc'[w] = "idle" /\ UNCHANGED inflight
      BY <1>2, <2>3, GuardStays DEF GuardInv, GuardHeld, Guarded
    <2> QED
      BY <1>2, <2>1, <2>2, <2>3
  <1>4. NamesExist'
    <2>1. \A u \in Subs : status[u] # "absent" => status'[u] # "absent"
      BY RowsRemain
    <2>2. status[s] # "absent"
      BY <1>1 DEF GuardInv, NamesExist
    <2>3. \A v \in Workers : AtRow(v)' => AtRow(v) /\ loc'[v].sub = loc[v].sub
      BY <1>1, <1>2 DEF AtRow
    <2>4. \A d \in Dispatchers : \A u \in pass'[d].todo : u \in pass[d].todo
      BY <1>2 DEF NoPass
    <2>5. \A p \in Procs, u \in Subs : u \in inflight'[p] => u \in inflight[p]
      BY <1>2 DEF TypeOK, TaskTypeOK
    <2>6. \A p \in Procs, u \in Subs : accepted'[p][u] # 0 => accepted[p][u] # 0 \/ u = s
      <3>1. CASE UNCHANGED accepted
        BY <3>1
      <3>2. CASE \E c : accepted' = [accepted EXCEPT ![Home[w]][s] = c]
        BY <3>2, Remembered, HomeIsProc
      <3>3. \/ UNCHANGED accepted
            \/ \E c : accepted' = [accepted EXCEPT ![Home[w]][s] = c]
        BY DEF Attempt, ServerAnswers, LoadRow, PersistAccepted, ReadHold, ReadAttempts,
               ReadInstructions, ClaimAttempt, RecordDelivered, FileAfterSend, RecordNotSent,
               RecordInline, Transmit, Quit, RejectAuth, world, memory
      <3> QED
        BY <3>1, <3>2, <3>3
    <2> QED
      BY <2>1, <2>2, <2>3, <2>4, <2>5, <2>6, NamesStay DEF GuardInv
  <1> QED
    BY <1>3, <1>4 DEF GuardInv

\* A pass looks at rows that exist.
LEMMA PassGuarded ==
  ASSUME TypeOK, CopiesInv, GuardInv, [Next]_vars, NEW d \in Dispatchers,
         \/ StartPass(d) \/ Scan(d) \/ EndPass(d)
         \/ \E s \in Subs : Take(d, s)
  PROVE  GuardInv'
  <1>1. \A u \in Subs : status[u] # "absent" => status'[u] # "absent"
    BY RowsRemain
  <1>2. pass[d] \in Passes /\ d \in Workers
    BY DEF TypeOK, TaskTypeOK
  <1>3. CASE StartPass(d) \/ Scan(d) \/ EndPass(d)
    <2>1. UNCHANGED <<loc, inflight, accepted, status>>
      BY <1>3 DEF StartPass, Scan, EndPass, row, memory
    <2>2. /\ \A v \in Workers : pc'[v] = pc[v] \/ pc'[v] \in {"idle", "pass"}
          /\ \A e \in Dispatchers : \A s \in pass'[e].todo :
                s \in pass[e].todo \/ status[s] # "absent"
      <3>1. CASE StartPass(d)
        <4>1. \A s \in KnownAccepted(d) : status[s] # "absent"
          BY <1>2, HomeIsProc DEF KnownAccepted, GuardInv, NamesExist
        <4> QED
          BY <1>2, <3>1, <4>1 DEF StartPass, TypeOK, TaskTypeOK
      <3>2. CASE Scan(d)
        <4>1. \A v \in Workers : pc'[v] = pc[v] \/ pc'[v] = "idle"
          BY <1>2, <3>2 DEF Scan, TypeOK, TaskTypeOK
        <4>2. /\ \A e \in Dispatchers \ {d} : pass'[e] = pass[e]
              /\ \A s \in pass'[d].todo : status[s] # "absent"
          BY <1>2, <3>2 DEF Scan, NoPass, Passes, TypeOK, TaskTypeOK
        <4> QED
          BY <4>1, <4>2
      <3>3. CASE EndPass(d)
        BY <1>2, <3>3 DEF EndPass, NoPass, TypeOK, TaskTypeOK
      <3> QED
        BY <1>3, <3>1, <3>2, <3>3
    <2>3. GuardHeld'
      BY <2>1, <2>2, GuardStays DEF GuardInv, GuardHeld, Guarded
    <2>4. NamesExist'
      BY <1>1, <2>1, <2>2, NamesStay DEF GuardInv, AtRow
    <2> QED
      BY <2>3, <2>4 DEF GuardInv
  <1>4. ASSUME NEW s \in Subs, Take(d, s) PROVE GuardInv'
    <2>1. UNCHANGED <<accepted, status>> /\ status[s] # "absent"
      BY <1>4 DEF Take, row, GuardInv, NamesExist
    <2>2. \A e \in Dispatchers : \A u \in pass'[e].todo : u \in pass[e].todo
      BY <1>2, <1>4 DEF Take, Passes, TypeOK, TaskTypeOK
    <2>3. CASE UNCHANGED <<pc, loc, inflight>>
      <3>1. GuardHeld'
        BY <2>3, GuardStays DEF GuardInv, GuardHeld
      <3>2. NamesExist'
        BY <1>1, <2>1, <2>2, <2>3, NamesStay DEF GuardInv, AtRow
      <3> QED
        BY <3>1, <3>2 DEF GuardInv
    <2>4. CASE s \notin inflight[Home[d]]
      <3> DEFINE l == [Blank EXCEPT !.sub = s, !.clock = pass[d].clock]
      <3>1. l.sub = s
        BY DEF Blank
      <3>2. /\ Goto(d, "load", l)
            /\ inflight' = [inflight EXCEPT ![Home[d]] = @ \cup {s}]
        BY <1>4, <2>4 DEF Take
      <3> HIDE DEF l
      <3>3. "load" \in Guarded
        BY DEF Guarded
      <3>4. GuardHeld'
        BY <1>2, <2>4, <3>1, <3>2, <3>3, GuardTaken DEF GuardInv
      <3>5. NamesExist'
        <4>1. \A v \in Workers : AtRow(v)' => \/ AtRow(v) /\ loc'[v].sub = loc[v].sub
                                              \/ loc'[v].sub = s
          BY <1>2, <3>1, <3>2 DEF Goto, AtRow, TypeOK, TaskTypeOK
        <4>2. \A p \in Procs, u \in Subs : u \in inflight'[p] => u \in inflight[p] \/ u = s
          BY <3>2 DEF TypeOK, TaskTypeOK
        <4> QED
          BY <1>1, <2>1, <2>2, <4>1, <4>2, NamesStay DEF GuardInv
      <3> QED
        BY <3>4, <3>5 DEF GuardInv
    <2> QED
      BY <1>4, <2>3, <2>4 DEF Take
  <1> QED
    BY <1>3, <1>4
\* What a client asks for; an inline send takes the guard before the row exists.
LEMMA ClientGuarded ==
  ASSUME TypeOK, CopiesInv, GuardInv, [Next]_vars, NEW w \in Requests, ClientCall(w)
  PROVE  GuardInv'
  <1> PICK s \in Subs : \/ CreateInline(w, s) \/ CreateWaiting(w, s) \/ Cancel(w, s)
                        \/ Reschedule(w, s) \/ StartRelease(w, s)
    BY DEF ClientCall
  <1>1. \A u \in Subs : status[u] # "absent" => status'[u] # "absent"
    BY RowsRemain
  <1>2. w \in Workers /\ UNCHANGED <<accepted, pass>>
    BY DEF CreateInline, CreateWaiting, Cancel, Reschedule, StartRelease, memory, tasks
  <1>3. CASE CreateInline(w, s)
    <2>1. PICK point \in Guarded, l \in [sub : {s}, req : Nat, inline : BOOLEAN, clock : Times,
                                         seen : Schedule, tries : Nat, claim : Nat,
                                         outcome : Outcomes] :
             Goto(w, point, l)
      <3> PICK at \in {NoTime, now} :
            Goto(w, "instr", [Blank EXCEPT !.sub = s, !.inline = TRUE, !.clock = now,
                      !.seen = [NoSched EXCEPT !.sendAt = at, !.createdAt = now]])
        BY <1>3 DEF CreateInline
      <3>1. [NoSched EXCEPT !.sendAt = at, !.createdAt = now] \in Schedule
        BY NoSchedIsSchedule DEF Schedule, MaybeAt, TypeOK, WorldTypeOK
      <3> QED
        BY <3>1 DEF Blank, Guarded, Outcomes, TypeOK, WorldTypeOK
    <2>2. l.sub = s
      OBVIOUS
    <2>3. s \notin inflight[Home[w]] /\ inflight' = [inflight EXCEPT ![Home[w]] = @ \cup {s}]
      BY <1>2, <1>3, HomeIsProc DEF CreateInline, GuardInv, NamesExist
    <2>4. GuardHeld'
      BY <1>2, <2>1, <2>2, <2>3, GuardTaken DEF GuardInv
    <2>5. status'[s] # "absent"
      BY <1>3 DEF CreateInline, Insert, TypeOK, RowTypeOK
    <2>6. \A v \in Workers : AtRow(v)' => \/ AtRow(v) /\ loc'[v].sub = loc[v].sub
                                          \/ loc'[v].sub = s
      BY <1>2, <2>1, <2>2 DEF Goto, AtRow, TypeOK, TaskTypeOK
    <2>7. \A p \in Procs, u \in Subs : u \in inflight'[p] => u \in inflight[p] \/ u = s
      BY <2>3 DEF TypeOK, TaskTypeOK
    <2>8. NamesExist'
      BY <1>1, <1>2, <2>5, <2>6, <2>7, NamesStay DEF GuardInv
    <2> QED
      BY <2>4, <2>8 DEF GuardInv
  <1>4. CASE CreateWaiting(w, s) \/ Cancel(w, s) \/ Reschedule(w, s)
    <2>1. UNCHANGED <<pc, loc, inflight>>
      <3>1. UNCHANGED <<memory, tasks>>
        BY <1>4, Zenon DEF CreateWaiting, Cancel, Reschedule
      <3> QED
        BY <3>1 DEF memory, tasks
    <2>2. GuardHeld'
      BY <2>1 DEF GuardInv, GuardHeld
    <2>3. NamesExist'
      BY <1>1, <1>2, <2>1, NamesStay DEF GuardInv, AtRow
    <2> QED
      BY <2>2, <2>3 DEF GuardInv
  <1>5. CASE StartRelease(w, s)
    <2>1. /\ \A v \in Workers \ {w} : pc'[v] = pc[v] /\ loc'[v] = loc[v]
          /\ pc'[w] \in {"relset", "relcas"} /\ loc'[w].sub = s
          /\ UNCHANGED inflight /\ status[s] # "absent"
      BY <1>2, <1>5 DEF StartRelease, Goto, Blank, TypeOK, TaskTypeOK, memory
    <2>2. GuardHeld'
      BY <2>1, GuardStays DEF GuardInv, GuardHeld, Guarded
    <2>3. NamesExist'
      BY <1>1, <1>2, <2>1, NamesStay DEF GuardInv, AtRow
    <2> QED
      BY <2>2, <2>3 DEF GuardInv
  <1> QED
    BY <1>3, <1>4, <1>5

\* A release, after its first step, leaves the status and the attempts of all rows.
LEMMA ReleaseTouches ==
  ASSUME NEW w \in Requests, NEW s \in Subs,
         SetInstructions(w, s) \/ ReleaseRow(w, s) \/ AttemptReleased(w, s)
  PROVE  /\ UNCHANGED <<status, attempts, accepted, pass>>
         /\ \E point \in {"idle", "relcas", "enter", "load"} : \E l : Goto(w, point, l)
  <1>1. CASE SetInstructions(w, s)
    <2>1. UNCHANGED <<status, attempts, memory, pass>> /\ Goto(w, "relcas", loc[w])
      BY <1>1 DEF SetInstructions
    <2> QED
      BY <2>1 DEF memory
  <1>2. CASE ReleaseRow(w, s)
    <2>1. UNCHANGED <<status, attempts, memory, pass>>
      BY <1>2 DEF ReleaseRow
    <2>2. Goto(w, "enter", loc[w]) \/ Goto(w, "idle", Blank)
      BY <1>2 DEF ReleaseRow
    <2> QED
      BY <2>1, <2>2 DEF memory
  <1>3. CASE AttemptReleased(w, s)
    <2>1. UNCHANGED <<row, accepted, pass>>
      BY <1>3 DEF AttemptReleased
    <2>2. Goto(w, "idle", Blank) \/ Goto(w, "load", [Blank EXCEPT !.sub = s, !.clock = now])
      BY <1>3 DEF AttemptReleased
    <2> QED
      BY <2>1, <2>2 DEF row
  <1> QED
    BY <1>1, <1>2, <1>3

\* A release, and a request that is dropped.
LEMMA RequestGuarded ==
  ASSUME TypeOK, CopiesInv, GuardInv, [Next]_vars, NEW w \in Requests,
         \/ \E s \in Subs : SetInstructions(w, s) \/ ReleaseRow(w, s) \/ AttemptReleased(w, s)
         \/ DropRequest(w)
  PROVE  GuardInv'
  <1>1. \A u \in Subs : status[u] # "absent" => status'[u] # "absent"
    BY RowsRemain
  <1>2. w \in Workers /\ UNCHANGED <<accepted, pass>>
    <2>1. DropRequest(w) => UNCHANGED <<accepted, pass>>
      BY DEF DropRequest
    <2> QED
      BY <2>1, ReleaseTouches DEF Workers
  <1>3. ASSUME NEW s \in Subs, SetInstructions(w, s) \/ ReleaseRow(w, s) PROVE GuardInv'
    <2>1. /\ \A v \in Workers \ {w} : pc'[v] = pc[v] /\ loc'[v] = loc[v]
          /\ pc'[w] \in {"relcas", "enter", "idle"}
          /\ AtRow(w) /\ (AtRow(w)' => loc'[w].sub = loc[w].sub)
          /\ UNCHANGED inflight
      BY <1>2, <1>3 DEF SetInstructions, ReleaseRow, Goto, At, AtRow, TypeOK, TaskTypeOK, memory
    <2>2. GuardHeld'
      BY <2>1, GuardStays DEF GuardInv, GuardHeld, Guarded
    <2>3. NamesExist'
      BY <1>1, <1>2, <2>1, NamesStay DEF GuardInv, AtRow
    <2> QED
      BY <2>2, <2>3 DEF GuardInv
  <1>4. ASSUME NEW s \in Subs, AttemptReleased(w, s) PROVE GuardInv'
    <2>1. status[s] # "absent"
      BY <1>2, <1>4 DEF AttemptReleased, At, GuardInv, NamesExist, AtRow
    <2>2. CASE Goto(w, "idle", Blank) /\ UNCHANGED inflight
      <3>1. /\ \A v \in Workers \ {w} : pc'[v] = pc[v] /\ loc'[v] = loc[v]
            /\ pc'[w] = "idle"
        BY <1>2, <2>2 DEF Goto, TypeOK, TaskTypeOK
      <3>2. GuardHeld'
        BY <2>2, <3>1, GuardStays DEF GuardInv, GuardHeld, Guarded
      <3>3. NamesExist'
        BY <1>1, <1>2, <2>2, <3>1, NamesStay DEF GuardInv, AtRow
      <3> QED
        BY <3>2, <3>3 DEF GuardInv
    <2>3. CASE s \notin inflight[Home[w]]
      <3> DEFINE l == [Blank EXCEPT !.sub = s, !.clock = now]
      <3>1. l.sub = s
        BY DEF Blank
      <3>2. /\ Goto(w, "load", l)
            /\ inflight' = [inflight EXCEPT ![Home[w]] = @ \cup {s}]
        BY <1>4, <2>3 DEF AttemptReleased
      <3> HIDE DEF l
      <3>3. "load" \in Guarded
        BY DEF Guarded
      <3>4. GuardHeld'
        BY <1>2, <2>3, <3>1, <3>2, <3>3, GuardTaken DEF GuardInv
      <3>5. \A v \in Workers : AtRow(v)' => \/ AtRow(v) /\ loc'[v].sub = loc[v].sub
                                            \/ loc'[v].sub = s
        BY <1>2, <3>1, <3>2 DEF Goto, AtRow, TypeOK, TaskTypeOK
      <3>6. \A p \in Procs, u \in Subs : u \in inflight'[p] => u \in inflight[p] \/ u = s
        BY <3>2 DEF TypeOK, TaskTypeOK
      <3>7. NamesExist'
        BY <1>1, <1>2, <2>1, <3>5, <3>6, NamesStay DEF GuardInv
      <3> QED
        BY <3>4, <3>7 DEF GuardInv
    <2> QED
      BY <1>4, <2>2, <2>3 DEF AttemptReleased
  <1>5. CASE DropRequest(w)
    <2>1. /\ \A v \in Workers \ {w} : pc'[v] = pc[v] /\ loc'[v] = loc[v]
          /\ pc'[w] = "idle"
          /\ \A p \in Procs, u \in Subs : u \in inflight'[p] => u \in inflight[p]
      BY <1>2, <1>5 DEF DropRequest, Goto, TypeOK, TaskTypeOK
    <2>2. \A v \in Workers \ {w} : pc[v] \in Guarded => loc[v].sub \in inflight'[Home[v]]
      <3> SUFFICES ASSUME NEW v \in Workers \ {w}, pc[v] \in Guarded
                   PROVE  loc[v].sub \in inflight'[Home[v]]
        OBVIOUS
      <3>1. /\ loc[v].sub \in inflight[Home[v]]
            /\ pc[w] \in Guarded /\ Home[v] = Home[w] => loc[v].sub # loc[w].sub
        BY <1>2 DEF GuardInv, GuardHeld
      <3>2. inflight' = [inflight EXCEPT ![Home[w]] =
                           IF pc[w] \in Guarded THEN @ \ {loc[w].sub} ELSE @]
        BY <1>5 DEF DropRequest
      <3> QED
        BY <3>1, <3>2, HomeIsProc DEF TypeOK, TaskTypeOK
    <2>3. GuardHeld'
      BY <2>1, <2>2, GuardStays DEF GuardInv, Guarded
    <2>4. NamesExist'
      BY <1>1, <1>2, <2>1, NamesStay DEF GuardInv, AtRow
    <2> QED
      BY <2>3, <2>4 DEF GuardInv
  <1> QED
    BY <1>3, <1>4, <1>5

LEMMA RestGuarded ==
  ASSUME TypeOK, CopiesInv, GuardInv, [Next]_vars,
         \/ \E p \in Procs : Crash(p) \/ Connect(p)
         \/ Tick \/ UNCHANGED vars
  PROVE  GuardInv'
  <1>1. \A u \in Subs : status[u] # "absent" => status'[u] # "absent"
    BY RowsRemain
  <1>2. ASSUME NEW p \in Procs, Crash(p) PROVE GuardInv'
    <2>1. /\ \A v \in Workers : \/ pc'[v] = "idle"
                                \/ Home[v] # p /\ pc'[v] = pc[v] /\ loc'[v] = loc[v]
          /\ \A q \in Procs \ {p} : inflight'[q] = inflight[q] /\ accepted'[q] = accepted[q]
          /\ inflight'[p] = {} /\ \A u \in Subs : accepted'[p][u] = 0
          /\ \A d \in Dispatchers : pass'[d] = pass[d] \/ pass'[d] = NoPass
      BY <1>2 DEF Crash, TypeOK, TaskTypeOK, MemoryTypeOK
    <2>2. GuardHeld'
      BY <2>1, HomeIsProc, GuardStays DEF GuardInv, GuardHeld, Guarded
    <2>3. NamesExist'
      BY <1>1, <2>1, NamesStay DEF GuardInv, AtRow, NoPass
    <2> QED
      BY <2>2, <2>3 DEF GuardInv
  <1>3. ASSUME UNCHANGED <<pc, loc, inflight, accepted, pass>> PROVE GuardInv'
    BY <1>1, <1>3, GuardStays, NamesStay DEF GuardInv, GuardHeld, AtRow
  <1> QED
    BY <1>2, <1>3 DEF Connect, Tick, vars, memory, tasks

LEMMA GuardInit == Init => GuardInv
  BY HomeIsProc DEF Init, GuardInv, NamesExist, GuardHeld, AtRow, NoPass, Guarded

LEMMA GuardStep == TypeOK /\ CopiesInv /\ GuardInv /\ [Next]_vars => GuardInv'
  <1> SUFFICES ASSUME TypeOK, CopiesInv, GuardInv, [Next]_vars PROVE GuardInv'
    OBVIOUS
  <1>1. ASSUME NEW d \in Dispatchers, DispatcherStep(d) PROVE GuardInv'
    BY <1>1, PassGuarded, AttemptGuarded DEF DispatcherStep
  <1>2. ASSUME NEW w \in Requests, RequestStep(w) PROVE GuardInv'
    BY <1>2, RequestGuarded, AttemptGuarded DEF RequestStep
  <1>3. ASSUME NEW w \in Workers, NEW s \in Subs, ServerAnswers(w, s) PROVE GuardInv'
    BY <1>3, AttemptGuarded
  <1> QED
    BY <1>1, <1>2, <1>3, ClientGuarded, RequestGuarded, RestGuarded DEF Next

\* A result to record without the guard comes from the dialogue of an inline send.
LEMMA ReportFromSmtp ==
  ASSUME TypeOK, [Next]_vars, NEW v \in Workers, pc'[v] = "report"
  PROVE  \/ pc[v] = "report" /\ loc'[v] = loc[v]
         \/ /\ pc[v] = "smtp" /\ loc'[v].inline /\ loc'[v].sub = loc[v].sub
            /\ \A w \in Workers \ {v} : pc'[w] = pc[w] /\ loc'[w] = loc[w]
  <1> DEFINE Stays == pc[v] = "report" /\ loc'[v] = loc[v]
             Comes == /\ pc[v] = "smtp" /\ loc'[v].inline /\ loc'[v].sub = loc[v].sub
                      /\ \A w \in Workers \ {v} : pc'[w] = pc[w] /\ loc'[w] = loc[w]
  <1> SUFFICES Stays \/ Comes
    OBVIOUS
  <1>1. ASSUME NEW w \in Workers, NEW point, NEW l, Goto(w, point, l), point # "report"
        PROVE  Stays
    BY <1>1 DEF Goto, TypeOK, TaskTypeOK
  <1>2. ASSUME NEW w \in Workers, NEW s \in Subs, Attempt(w, s) \/ ServerAnswers(w, s)
        PROVE  Stays \/ Comes
    <2>1. loc[w].sub = s
      BY <1>2, AttemptMoves
    <2>2. CASE GoesOn(w, s) \/ Ends(w, s) \/ RecordInline(w, s)
      BY <1>1, <2>2 DEF GoesOn, Ends, RecordInline, Return, Abort, Proceed, Guarded
    <2>3. CASE LetsGo(w, s)
      BY <2>1, <2>3 DEF LetsGo, Goto, TypeOK, TaskTypeOK
    <2> QED
      BY <1>2, <2>2, <2>3, AttemptMoves
  <1>3. ASSUME NEW d \in Dispatchers, DispatcherStep(d) PROVE Stays \/ Comes
    BY <1>1, <1>2, <1>3 DEF DispatcherStep, StartPass, Scan, EndPass, Take, TypeOK,
       TaskTypeOK
  <1>4. ASSUME NEW w \in Requests, RequestStep(w) PROVE Stays \/ Comes
    BY <1>1, <1>2, <1>4 DEF RequestStep, SetInstructions, ReleaseRow, AttemptReleased
  <1>5. ASSUME NEW w \in Requests, ClientCall(w) \/ DropRequest(w) PROVE Stays
    BY <1>1, <1>5 DEF ClientCall, CreateInline, CreateWaiting, Cancel, Reschedule,
       StartRelease, DropRequest, tasks
  <1>6. ASSUME NEW p \in Procs, Crash(p) \/ Connect(p) PROVE Stays
    BY <1>6 DEF Crash, Connect, tasks
  <1>7. CASE Tick \/ UNCHANGED vars
    BY <1>7 DEF Tick, vars, tasks
  <1> QED
    BY <1>2, <1>3, <1>4, <1>5, <1>6, <1>7 DEF Next

\* A task starts to read a row only while the row waits for its claim, or is new.
LEMMA ReadingFromRow ==
  ASSUME TypeOK, [Next]_vars, NEW v \in Workers, pc'[v] \in Reading
  PROVE  \/ pc[v] \in Reading /\ loc'[v].sub = loc[v].sub
         \/ status[loc'[v].sub] \in {"absent", "pending"}
  <1> DEFINE Stays == pc[v] \in Reading /\ loc'[v].sub = loc[v].sub
             Starts == status[loc'[v].sub] \in {"absent", "pending"}
  <1> SUFFICES Stays \/ Starts
    OBVIOUS
  <1>1. ASSUME NEW w \in Workers, NEW point, NEW l, Goto(w, point, l), point \notin Reading
        PROVE  Stays
    BY <1>1 DEF Goto, TypeOK, TaskTypeOK
  <1>2. ASSUME NEW w \in Workers, NEW s \in Subs, Attempt(w, s) \/ ServerAnswers(w, s)
        PROVE  Stays \/ Starts
    <2>1. w # v => Stays
      BY <1>2, AttemptTouches
    <2>2. loc[w].sub = s /\ (w = v => loc'[w].sub = s)
      BY <1>2, AttemptTouches DEF AtRow, Reading
    <2>3. CASE LoadRow(w, s)
      <3>1. w = v => status[s] = "pending"
        BY <1>1, <2>3 DEF LoadRow, Return, Abort, Proceed, Goto, Reading, TypeOK, TaskTypeOK
      <3> QED
        BY <2>1, <2>2, <3>1
    <2>4. CASE ReadHold(w, s) \/ ReadAttempts(w, s) \/ ReadInstructions(w, s)
      <3>1. pc[w] \in Reading
        BY <2>4 DEF ReadHold, ReadAttempts, ReadInstructions, At, Reading
      <3> QED
        BY <2>1, <2>2, <3>1
    <2>5. CASE \E point : \E l : Goto(w, point, l) /\ point \notin Reading
      BY <1>1, <2>5
    <2>6. \A x \in {"idle", "pass", "persist", "smtp", "quit", "accept", "finish", "file",
                   "report"} : x \notin Reading
      BY DEF Reading
    <2>7. CASE \/ PersistAccepted(w, s) \/ ClaimAttempt(w, s) \/ RecordDelivered(w, s)
               \/ FileAfterSend(w, s) \/ RecordNotSent(w, s) \/ RecordInline(w, s)
      BY <2>5, <2>6, <2>7 DEF PersistAccepted, ClaimAttempt, RecordDelivered, FileAfterSend,
         RecordNotSent, RecordInline, Return, Abort, Proceed
    <2>8. CASE ServerAnswers(w, s)
      BY <2>5, <2>6, <2>8 DEF ServerAnswers, Transmit, Quit, RejectAuth, Accepted, ReplyLost,
         NotAccepted, NotSent, Proceed
    <2> QED
      BY <1>2, <2>3, <2>4, <2>7, <2>8 DEF Attempt
  <1>3. ASSUME NEW d \in Dispatchers, DispatcherStep(d) PROVE Stays \/ Starts
    <2>1. CASE StartPass(d) \/ Scan(d) \/ EndPass(d)
      BY <2>1 DEF StartPass, Scan, EndPass, Reading, TypeOK, TaskTypeOK
    <2>2. ASSUME NEW s \in Subs, Take(d, s) PROVE Stays
      <3>1. (\E l : Goto(d, "load", l)) \/ UNCHANGED <<pc, loc>>
        BY <2>2 DEF Take
      <3> QED
        BY <1>1, <3>1 DEF Reading
    <2> QED
      BY <1>2, <1>3, <2>1, <2>2 DEF DispatcherStep
  <1>4. ASSUME NEW w \in Requests, RequestStep(w) PROVE Stays \/ Starts
    BY <1>1, <1>2, <1>4 DEF RequestStep, SetInstructions, ReleaseRow, AttemptReleased, Reading
  <1>5. ASSUME NEW w \in Requests, ClientCall(w) \/ DropRequest(w) PROVE Stays \/ Starts
    <2>1. ASSUME NEW s \in Subs, CreateInline(w, s) PROVE Stays \/ Starts
      <3>1. /\ status[s] = "absent"
            /\ \E l : l.sub = s /\ Goto(w, "instr", l)
        BY <2>1 DEF CreateInline, Blank
      <3> QED
        BY <3>1 DEF Goto, TypeOK, TaskTypeOK
    <2> QED
      BY <1>1, <1>5, <2>1 DEF ClientCall, CreateWaiting, Cancel, Reschedule, StartRelease,
         DropRequest, Reading, tasks
  <1>6. ASSUME NEW p \in Procs, Crash(p) \/ Connect(p) PROVE Stays
    BY <1>6 DEF Crash, Connect, tasks, Reading
  <1>7. CASE Tick \/ UNCHANGED vars
    BY <1>7 DEF Tick, vars, tasks
  <1> QED
    BY <1>2, <1>3, <1>4, <1>5, <1>6, <1>7 DEF Next

LEMMA ResultInit == Init => ResultAlone
  BY DEF Init, ResultAlone

\* A task that still holds the guard in the dialogue was alone with its row, and a row
\* whose result is awaited is under a claim, so that nobody starts to read it.
LEMMA ResultStepAlone ==
  TypeOK /\ CopiesInv /\ GuardInv /\ ResultAlone /\ [Next]_vars => ResultAlone'
  <1> SUFFICES ASSUME TypeOK, CopiesInv, GuardInv, ResultAlone, [Next]_vars,
                      NEW v \in Workers, pc'[v] = "report"
               PROVE  /\ loc'[v].inline
                      /\ \A w \in Workers : pc'[w] \in Reading /\ Home[v] = Home[w]
                                           => loc'[v].sub # loc'[w].sub
    BY DEF ResultAlone
  <1>1. CASE pc[v] = "report" /\ loc'[v] = loc[v]
    <2>1. loc[v].sub \in Subs
      BY <1>1 DEF GuardInv, NamesExist, AtRow
    <2>2. status[loc[v].sub] = "sending"
      BY <1>1, <2>1 DEF CopiesInv, OwnerHoldsRow, Owns, Matches
    <2> QED
      BY <1>1, <2>2, ReadingFromRow DEF ResultAlone
  <1>2. CASE /\ pc[v] = "smtp" /\ loc'[v].inline /\ loc'[v].sub = loc[v].sub
             /\ \A w \in Workers \ {v} : pc'[w] = pc[w] /\ loc'[w] = loc[w]
    <2>1. \A w \in Workers : pc'[w] \in Reading => w # v /\ pc[w] \in Guarded
      BY <1>2 DEF Reading, Guarded
    <2>2. pc[v] \in Guarded
      BY <1>2 DEF Guarded
    <2> QED
      BY <1>2, <2>1, <2>2 DEF GuardInv, GuardHeld
  <1> QED
    BY <1>1, <1>2, ReportFromSmtp

LEMMA GuardInvariant == Spec => [](GuardInv /\ ResultAlone)
  BY TypeInit, TypeStep, CopiesInit, CopiesStep, GuardInit, GuardStep, ResultInit,
     ResultStepAlone, PTL DEF Spec

-----------------------------------------------------------------------------
(* The attempts of a row.  What an attempt writes rests on the number it read    *)
(* before the claim.  The guard keeps that number true, but a guard is only seen *)
(* by its own process: with two processes the row may have counted more.         *)

OneProc == \A p, q \in Procs : p = q

TriesTrue ==
    \A w \in Workers : pc[w] \in Counting =>
        loc[w].inline \/ loc[w].tries = attempts[loc[w].sub]

AbsentUntried == \A s \in Subs : status[s] = "absent" => attempts[s] = 0

AttemptsInv == TriesTrue /\ AbsentUntried /\ AttemptsLeftWhilePending

LEMMA AttemptsStay ==
  ASSUME TypeOK, AttemptsInv, UNCHANGED attempts,
         \A v \in Workers : pc'[v] \in Counting =>
            \/ loc'[v].inline \/ loc'[v].tries = attempts[loc'[v].sub]
            \/ /\ pc[v] \in Counting /\ loc'[v].sub = loc[v].sub
               /\ loc'[v].tries = loc[v].tries /\ loc'[v].inline = loc[v].inline,
         \A s \in Subs : \/ status'[s] = status[s] \/ status'[s] \notin {"absent", "pending"}
                         \/ status[s] = "absent" /\ status'[s] = "pending"
  PROVE  AttemptsInv'
  <1>1. MaxAttempts \in Nat \ {0}
    BY BoundsAssumption
  <1>2. TriesTrue'
    BY DEF AttemptsInv, TriesTrue
  <1>3. AbsentUntried' /\ AttemptsLeftWhilePending'
    BY <1>1 DEF AttemptsInv, AbsentUntried, AttemptsLeftWhilePending
  <1> QED
    BY <1>2, <1>3 DEF AttemptsInv

\* Of the steps of an attempt only a recorded failure counts.
LEMMA OnlyFailuresCount ==
  ASSUME TypeOK, NEW w \in Workers, NEW s \in Subs, Attempt(w, s) \/ ServerAnswers(w, s)
  PROVE  \/ /\ UNCHANGED attempts
            /\ \A u \in Subs : \/ status'[u] = status[u]
                               \/ status'[u] \notin {"absent", "pending"}
         \/ /\ \/ At(w, s, "finish") /\ Ends(w, s)
               \/ RecordInline(w, s)
            /\ status' = [status EXCEPT ![s] = Verdict(loc[w])]
            /\ attempts' = [attempts EXCEPT ![s] = @ + 1]
  <1>1. CASE UNCHANGED row
    BY <1>1 DEF row
  <1>2. CASE \E c \in Nat : AcceptAttempt(s, c)
    BY <1>2 DEF AcceptAttempt, row, TypeOK, RowTypeOK
  <1>3. CASE ClaimAttempt(w, s)
    BY <1>3 DEF ClaimAttempt, PutClaim, row, TypeOK, RowTypeOK
  <1>4. CASE RecordNotSent(w, s) \/ RecordInline(w, s)
    BY <1>4 DEF RecordNotSent, RecordInline, FinishNotSent, FinishAttempt, Ends, row
  <1>5. CASE PersistAccepted(w, s) \/ RecordDelivered(w, s)
    <2>1. accepted[Home[w]][s] \in Nat /\ loc[w].claim \in Nat
      BY HomeIsProc DEF TypeOK, MemoryTypeOK, TaskTypeOK, Locals
    <2>2. UNCHANGED row \/ \E c \in Nat : AcceptAttempt(s, c)
      BY <1>5, <2>1 DEF PersistAccepted, RecordDelivered
    <2> QED
      BY <1>1, <1>2, <2>2
  <1>6. CASE \/ LoadRow(w, s) \/ ReadHold(w, s) \/ ReadAttempts(w, s)
             \/ ReadInstructions(w, s) \/ FileAfterSend(w, s) \/ ServerAnswers(w, s)
    BY <1>1, <1>6 DEF LoadRow, ReadHold, ReadAttempts, ReadInstructions, FileAfterSend,
       ServerAnswers, Transmit, Quit, RejectAuth
  <1> QED
    BY <1>3, <1>4, <1>5, <1>6 DEF Attempt

LEMMA AttemptCounts ==
  ASSUME OneProc, TypeOK, CopiesInv, GuardInv, ResultAlone, AttemptsInv,
         NEW w \in Workers, NEW s \in Subs,
         Attempt(w, s) \/ ServerAnswers(w, s)
  PROVE  AttemptsInv'
  <1>1. loc[w].sub = s /\ (GoesOn(w, s) \/ pc'[w] \notin Counting)
    BY AttemptMoves DEF Ends, LetsGo, RecordInline, Return, Abort, Proceed, Goto, Counting,
       TypeOK, TaskTypeOK
  <1>2. /\ \A v \in Workers \ {w} : pc'[v] = pc[v] /\ loc'[v] = loc[v]
        /\ Ends(w, s) \/ RecordInline(w, s) => pc'[w] \notin Counting
    BY AttemptTouches DEF Ends, RecordInline, Return, Abort, Proceed, Goto, Counting, TypeOK,
       TaskTypeOK
  <1>3. CASE /\ UNCHANGED attempts
             /\ \A u \in Subs : status'[u] = status[u] \/ status'[u] \notin {"absent", "pending"}
    <2>1. GoesOn(w, s) /\ pc'[w] \in Counting =>
             \/ loc'[w].tries = attempts[loc'[w].sub]
             \/ /\ pc[w] \in Counting /\ loc'[w].sub = loc[w].sub
                /\ loc'[w].tries = loc[w].tries /\ loc'[w].inline = loc[w].inline
      BY <1>1 DEF GoesOn, Proceed, Goto, TypeOK, TaskTypeOK
    <2> QED
      BY <1>1, <1>2, <1>3, <2>1, AttemptsStay
  <1>4. CASE /\ \/ At(w, s, "finish") /\ Ends(w, s)
                \/ RecordInline(w, s)
             /\ status' = [status EXCEPT ![s] = Verdict(loc[w])]
             /\ attempts' = [attempts EXCEPT ![s] = @ + 1]
    <2>1. /\ attempts[s] \in Nat /\ loc[w].tries \in Nat /\ MaxAttempts \in Nat
          /\ \A u \in Subs \ {s} : status'[u] = status[u] /\ attempts'[u] = attempts[u]
          /\ status'[s] = Verdict(loc[w]) /\ attempts'[s] = attempts[s] + 1
      BY <1>4, BoundsAssumption DEF TypeOK, RowTypeOK, TaskTypeOK, Locals
    <2>2. pc[w] = "finish" \/ (pc[w] = "report" /\ loc[w].inline)
      BY <1>4 DEF RecordInline, At, ResultAlone
    <2>3. Verdict(loc[w]) # "absent"
      BY DEF Verdict
    <2>4. Verdict(loc[w]) = "pending" => attempts[s] + 1 < MaxAttempts
      <3>1. loc[w].inline \/ loc[w].tries = attempts[s]
        BY <1>1, <2>2 DEF AttemptsInv, TriesTrue, Counting
      <3>2. Verdict(loc[w]) = "pending" => ~loc[w].inline /\ ~(loc[w].tries + 1 >= MaxAttempts)
        BY DEF Verdict
      <3> QED
        BY <2>1, <3>1, <3>2
    <2>5. AbsentUntried' /\ AttemptsLeftWhilePending'
      BY <2>1, <2>3, <2>4 DEF AttemptsInv, AbsentUntried, AttemptsLeftWhilePending
    <2>6. TriesTrue'
      <3> SUFFICES ASSUME NEW v \in Workers, pc'[v] \in Counting
                   PROVE  loc'[v].inline \/ loc'[v].tries = attempts'[loc'[v].sub]
        BY DEF TriesTrue
      <3>1. v # w /\ pc[v] \in Counting /\ loc'[v] = loc[v]
        BY <1>2, <1>4
      <3>2. pc[v] \in Guarded /\ Home[v] = Home[w]
        BY <3>1, HomeIsProc DEF OneProc, Counting, Guarded
      <3>3. loc[v].sub \in Subs
        BY <3>2 DEF GuardInv, NamesExist, AtRow, Guarded
      <3>4. loc[v].sub # s
        <4>1. CASE pc[w] = "finish"
          BY <1>1, <3>1, <3>2, <4>1 DEF GuardInv, GuardHeld, Guarded
        <4>2. CASE pc[w] = "report" /\ pc[v] \in {"instr", "claim"}
          BY <1>1, <3>2, <4>2 DEF ResultAlone, Reading
        <4>3. CASE pc[w] = "report" /\ pc[v] \in {"smtp", "quit", "accept", "finish"}
          BY <1>1, <3>1, <3>3, <4>3 DEF CopiesInv, OwnerHoldsRow, Owns
        <4> QED
          BY <2>2, <3>1, <4>1, <4>2, <4>3 DEF Counting
      <3> QED
        BY <2>1, <3>1, <3>3, <3>4 DEF AttemptsInv, TriesTrue
    <2> QED
      BY <2>5, <2>6 DEF AttemptsInv
  <1> QED
    BY <1>3, <1>4, OnlyFailuresCount

LEMMA ClientCounts ==
  ASSUME TypeOK, AttemptsInv, NEW w \in Requests, ClientCall(w)
  PROVE  AttemptsInv'
  <1> PICK s \in Subs : \/ CreateInline(w, s) \/ CreateWaiting(w, s) \/ Cancel(w, s)
                        \/ Reschedule(w, s) \/ StartRelease(w, s)
    BY DEF ClientCall
  <1>1. w \in Workers /\ UNCHANGED attempts
    BY DEF CreateInline, CreateWaiting, Cancel, Reschedule, StartRelease, Insert, row, Workers
  <1>2. \A u \in Subs : \/ status'[u] = status[u] \/ status'[u] \notin {"absent", "pending"}
                        \/ status[u] = "absent" /\ status'[u] = "pending"
    <2>1. CASE CreateInline(w, s) \/ CreateWaiting(w, s)
      <3>1. status[s] = "absent" /\ status' = [status EXCEPT ![s] = "pending"]
        BY <2>1 DEF CreateInline, CreateWaiting, Insert
      <3> QED
        BY <3>1 DEF TypeOK, RowTypeOK
    <2>2. CASE Cancel(w, s)
      <3>1. status' = [status EXCEPT ![s] = "canceled"]
        BY <2>2 DEF Cancel
      <3> QED
        BY <3>1 DEF TypeOK, RowTypeOK
    <2>3. CASE Reschedule(w, s) \/ StartRelease(w, s)
      <3>1. UNCHANGED status \/ UNCHANGED row
        BY <2>3, Zenon DEF Reschedule, StartRelease
      <3> QED
        BY <3>1 DEF row
    <2> QED
      BY <2>1, <2>2, <2>3
  <1>3. CASE CreateInline(w, s)
    <2>1. /\ \A v \in Workers \ {w} : pc'[v] = pc[v] /\ loc'[v] = loc[v]
          /\ loc'[w].inline
      BY <1>1, <1>3 DEF CreateInline, Goto, Blank, TypeOK, TaskTypeOK
    <2> QED
      BY <1>1, <1>2, <2>1, AttemptsStay
  <1>4. CASE CreateWaiting(w, s) \/ Cancel(w, s) \/ Reschedule(w, s)
    <2>1. UNCHANGED <<pc, loc>>
      <3>1. UNCHANGED tasks
        BY <1>4, Zenon DEF CreateWaiting, Cancel, Reschedule
      <3> QED
        BY <3>1 DEF tasks
    <2> QED
      BY <1>1, <1>2, <2>1, AttemptsStay
  <1>5. CASE StartRelease(w, s)
    <2>1. /\ \A v \in Workers \ {w} : pc'[v] = pc[v] /\ loc'[v] = loc[v]
          /\ pc'[w] \notin Counting
      BY <1>1, <1>5 DEF StartRelease, Goto, Counting, TypeOK, TaskTypeOK
    <2> QED
      BY <1>1, <1>2, <2>1, AttemptsStay
  <1> QED
    BY <1>3, <1>4, <1>5

\* A pass leaves the status and the attempts of all rows, and no task of it counts.
LEMMA PassTouches ==
  ASSUME TypeOK, NEW d \in Dispatchers,
         StartPass(d) \/ Scan(d) \/ EndPass(d) \/ \E s \in Subs : Take(d, s)
  PROVE  /\ UNCHANGED <<status, attempts>>
         /\ \A v \in Workers : pc'[v] \in Counting => pc[v] \in Counting /\ loc'[v] = loc[v]
  <1>1. CASE StartPass(d)
    BY <1>1 DEF StartPass, row, Counting, TypeOK, TaskTypeOK, Workers
  <1>2. CASE Scan(d)
    BY <1>2 DEF Scan, row, Counting, TypeOK, TaskTypeOK, Workers
  <1>3. CASE EndPass(d)
    BY <1>3 DEF EndPass, row, Counting, TypeOK, TaskTypeOK, Workers
  <1>4. ASSUME NEW s \in Subs, Take(d, s)
        PROVE  /\ UNCHANGED <<status, attempts>>
               /\ \A v \in Workers : pc'[v] \in Counting => pc[v] \in Counting /\ loc'[v] = loc[v]
    <2>1. UNCHANGED row /\ (UNCHANGED <<pc, loc>> \/ \E l : Goto(d, "load", l))
      BY <1>4 DEF Take
    <2> QED
      BY <2>1 DEF Goto, row, Counting, TypeOK, TaskTypeOK, Workers
  <1> QED
    BY <1>1, <1>2, <1>3, <1>4

\* The other steps count nothing and leave the tasks that count alone.
LEMMA OthersCountNothing ==
  ASSUME TypeOK, AttemptsInv,
         \/ \E d \in Dispatchers : \/ StartPass(d) \/ Scan(d) \/ EndPass(d)
                                   \/ \E s \in Subs : Take(d, s)
         \/ \E w \in Requests :
               \/ \E s \in Subs : \/ SetInstructions(w, s) \/ ReleaseRow(w, s)
                                  \/ AttemptReleased(w, s)
               \/ DropRequest(w)
         \/ \E p \in Procs : Crash(p) \/ Connect(p)
         \/ Tick \/ UNCHANGED vars
  PROVE  AttemptsInv'
  <1>1. UNCHANGED <<status, attempts>>
    <2>1. CASE \/ \E w \in Requests : DropRequest(w)
               \/ \E p \in Procs : Crash(p) \/ Connect(p)
               \/ Tick \/ UNCHANGED vars
      BY <2>1 DEF DropRequest, Crash, Connect, Tick, vars, row
    <2> QED
      BY <2>1, PassTouches, ReleaseTouches
  <1>2. \A v \in Workers : pc'[v] \in Counting => pc[v] \in Counting /\ loc'[v] = loc[v]
    <2> SUFFICES ASSUME NEW v \in Workers, pc'[v] \in Counting
                 PROVE  pc[v] \in Counting /\ loc'[v] = loc[v]
      OBVIOUS
    <2>1. CASE \E d \in Dispatchers : \/ StartPass(d) \/ Scan(d) \/ EndPass(d)
                                      \/ \E s \in Subs : Take(d, s)
      BY <2>1, PassTouches
    <2>2. CASE \E w \in Requests : \/ \E s \in Subs : \/ SetInstructions(w, s)
                                                      \/ ReleaseRow(w, s)
                                                      \/ AttemptReleased(w, s)
                                   \/ DropRequest(w)
      <3>1. PICK w \in Requests, point \in {"idle", "relcas", "enter", "load"} :
               \E l : Goto(w, point, l)
        <4>1. \A w \in Requests : DropRequest(w) => Goto(w, "idle", Blank)
          BY DEF DropRequest
        <4> QED
          BY <2>2, <4>1, ReleaseTouches
      <3>2. v # w /\ pc'[v] = pc[v] /\ loc'[v] = loc[v]
        BY <3>1 DEF Goto, Counting, TypeOK, TaskTypeOK, Workers
      <3> QED
        BY <3>2
    <2>3. CASE \E p \in Procs : Crash(p)
      BY <2>3 DEF Crash, Counting
    <2>4. CASE (\E p \in Procs : Connect(p)) \/ Tick \/ UNCHANGED vars
      BY <2>4 DEF Connect, Tick, vars, tasks
    <2> QED
      BY <2>1, <2>2, <2>3, <2>4
  <1> QED
    BY <1>1, <1>2, AttemptsStay

LEMMA AttemptsInit == Init => AttemptsInv
  BY BoundsAssumption DEF Init, AttemptsInv, TriesTrue, AbsentUntried,
     AttemptsLeftWhilePending, Counting

LEMMA AttemptsStep ==
  /\ OneProc /\ TypeOK /\ CopiesInv /\ GuardInv /\ ResultAlone /\ AttemptsInv
  /\ [Next]_vars
  => AttemptsInv'
  <1> SUFFICES ASSUME OneProc, TypeOK, CopiesInv, GuardInv, ResultAlone, AttemptsInv,
                      [Next]_vars
               PROVE  AttemptsInv'
    OBVIOUS
  <1>1. ASSUME NEW d \in Dispatchers, DispatcherStep(d) PROVE AttemptsInv'
    BY <1>1, OthersCountNothing, AttemptCounts DEF DispatcherStep, Workers
  <1>2. ASSUME NEW w \in Requests, RequestStep(w) PROVE AttemptsInv'
    BY <1>2, OthersCountNothing, AttemptCounts DEF RequestStep, Workers
  <1>3. ASSUME NEW w \in Workers, NEW s \in Subs, ServerAnswers(w, s) PROVE AttemptsInv'
    BY <1>3, AttemptCounts
  <1> QED
    BY <1>1, <1>2, <1>3, ClientCounts, OthersCountNothing DEF Next

\* In a process a task that works on a row holds the guard of the row, and no other
\* task that holds it works on the row (SendGuard, dispatcher.rs).  An inline send that
\* was not accepted drops its guard before it records the result (enqueue_submission):
\* until it has, the others of its process get no further than the load of the row.
THEOREM GuardExcludes == Spec => [](GuardHeld /\ ResultAlone)
  <1>1. GuardInv => GuardHeld
    BY DEF GuardInv
  <1> QED
    BY <1>1, GuardInvariant, PTL

\* With one server process, whatever is interrupted and repeated, a row that waits has
\* attempts left (finish_submission_attempt, attempt_submission).
THEOREM AttemptsAreLeft ==
  ASSUME OneProc
  PROVE  Spec => []AttemptsLeftWhilePending
  <1>1. AttemptsInv => AttemptsLeftWhilePending
    BY DEF AttemptsInv
  <1>2. /\ TypeOK /\ CopiesInv /\ GuardInv /\ ResultAlone /\ AttemptsInv /\ [Next]_vars
        => AttemptsInv'
    BY AttemptsStep
  <1> QED
    BY <1>1, <1>2, AttemptsInit, GuardInvariant, CopiesCorrect, TypeCorrect, PTL DEF Spec
=============================================================================
