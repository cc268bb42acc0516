----------------------------- MODULE JobProofs -----------------------------
(***************************************************************************)
(* Proofs about JobScheduler, for every number of tasks, kinds, instances  *)
(* and rows and every length of a lease: the types of its state, the line  *)
(* of due tasks among them; one running row per kind; ends that are final; *)
(* when live processes are prompt, one execution of a kind at a time;      *)
(* leases that are of due tasks; and that it keeps what JobPromise says    *)
(* about runs, which alone excludes two runs of a kind.                    *)
(***************************************************************************)
EXTENDS JobScheduler, FiniteSetTheorems, SequenceTheorems, TLAPS

Points == {"none", "start", "work", "fence", "record", "lost", "release"}

\* The rows have the shape that the statements of the store rely on.
RowsTyped ==
    /\ status \in [Runs -> Ended \cup {"free", "running"}]
    /\ silent \in [Runs -> Nat]
    /\ exec \in [Runs -> Points]
    /\ DOMAIN run = Runs

\* An execution whose code runs has a running row, which was beaten since the
\* tick before the last.
WorkIsFresh ==
    Prompt => \A r \in Runs : exec[r] = "work" => status[r] = "running" /\ silent[r] \in {0, 1}

\* Inductive: nobody abandons a row that is beaten, so the row of every
\* execution that works is running, and one row of a kind is.
JobInv == RowsTyped /\ OneRunPerKind /\ WorkIsFresh

USE DEF RowsTyped, Points, Ended

-----------------------------------------------------------------------------
(* What the statements of the store do to the rows. *)

\* A row is inserted only while no row of its kind is running.
LEMMA InsertKeeps ==
    ASSUME JobInv, NEW r \in Runs, NEW k, NEW t, NEW i, NEW v, KindFree(k),
           InsertRow(r, k, t, i, v),
           exec' = exec \/ exec' = [exec EXCEPT ![r] = "start"]
    PROVE  JobInv'
  <1>1. RowsTyped'
    BY DEF JobInv, InsertRow
  <1>2. OneRunPerKind'
    <2> SUFFICES ASSUME NEW p \in Runs, NEW q \in Runs,
                        status'[p] = "running", status'[q] = "running",
                        run'[p].kind = run'[q].kind
                 PROVE  p = q
      BY DEF OneRunPerKind
    <2>1. run'[r].kind = k /\ \A x \in Runs \ {r} : run'[x] = run[x] /\ status'[x] = status[x]
      BY DEF JobInv, InsertRow
    <2> QED
      BY <2>1 DEF JobInv, OneRunPerKind, KindFree
  <1>3. WorkIsFresh'
    BY DEF JobInv, WorkIsFresh, InsertRow
  <1> QED
    BY <1>1, <1>2, <1>3 DEF JobInv

\* An execution that does not work writes its own end, or nothing.
LEMMA FinishKeeps ==
    ASSUME JobInv, NEW r \in Runs, exec[r] # "work",
           NEW result \in {"ok", "failed", "cancelled"},
           Finish(r, result) \/ UNCHANGED status,
           UNCHANGED <<run, silent>>,
           NEW to \in Points \ {"work"}, exec' = [exec EXCEPT ![r] = to]
    PROVE  JobInv'
  <1>1. RowsTyped'
    BY DEF JobInv, Finish
  <1>2. OneRunPerKind'
    BY DEF JobInv, OneRunPerKind, Finish
  <1>3. WorkIsFresh'
    BY DEF JobInv, WorkIsFresh, Finish
  <1> QED
    BY <1>1, <1>2, <1>3 DEF JobInv

\* The ownership check: an execution works on only with a running row that it
\* has just beaten.
LEMMA CheckKeeps ==
    ASSUME JobInv, NEW r \in Runs, NEW from, NEW to \in Points, CheckOwnership(r, from, to)
    PROVE  JobInv'
  <1>1. RowsTyped'
    BY DEF JobInv, CheckOwnership, Step, Renew
  <1>2. OneRunPerKind'
    BY DEF JobInv, OneRunPerKind, CheckOwnership
  <1>3. WorkIsFresh'
    BY DEF JobInv, WorkIsFresh, CheckOwnership, Step, Renew, Owned
  <1> QED
    BY <1>1, <1>2, <1>3 DEF JobInv

\* Rows and executions that stay as they are.
LEMMA StillKeeps ==
    ASSUME JobInv, UNCHANGED <<status, run, silent, exec>>
    PROVE  JobInv'
  BY DEF JobInv, OneRunPerKind, WorkIsFresh

-----------------------------------------------------------------------------
LEMMA JobInit == Init => JobInv
  BY DEF Init, JobInv, OneRunPerKind, WorkIsFresh

LEMMA AbandonKeeps ==
    ASSUME SchedulerAssumption, JobInv, NEW i \in Instances, AbandonStale(i)
    PROVE  JobInv'
  <1>1. RowsTyped' /\ OneRunPerKind'
    BY DEF JobInv, AbandonStale, OneRunPerKind
  <1>2. Stale \in Nat /\ Stale > 1
    BY DEF Stale, SchedulerAssumption
  <1>3. WorkIsFresh'
    BY <1>2 DEF JobInv, WorkIsFresh, AbandonStale, SilentRuns
  <1> QED
    BY <1>1, <1>3 DEF JobInv

LEMMA PassKeeps ==
    ASSUME JobInv, NEW i \in Instances,
           PassStep(i) \/ PassFails(i), ~AbandonStale(i)
    PROVE  JobInv'
  <1>1. CASE StartRun(i)
    <2>1. CASE UNCHANGED <<rows, exec>>
      BY <2>1, StillKeeps DEF rows
    <2>2. CASE \E r \in Runs : KindFree(Kind[Head(todo[i])])
                 /\ StartRow(r, Kind[Head(todo[i])], Head(todo[i]), i, seen[i][Head(todo[i])])
      <3> PICK r \in Runs : KindFree(Kind[Head(todo[i])])
                 /\ StartRow(r, Kind[Head(todo[i])], Head(todo[i]), i, seen[i][Head(todo[i])])
        BY <2>2
      <3> QED
        BY InsertKeeps DEF StartRow
    <2> QED
      BY <1>1, <2>1, <2>2 DEF StartRun, MayStart
  <1>2. CASE PassFails(i)
    <2>1. CASE UNCHANGED rows
      BY <1>2, <2>1, StillKeeps DEF PassFails, rows
    <2>2. CASE \E r \in Runs : KindFree(Kind[Head(todo[i])])
                 /\ InsertRow(r, Kind[Head(todo[i])], Head(todo[i]), i, seen[i][Head(todo[i])])
      <3> PICK r \in Runs : KindFree(Kind[Head(todo[i])])
                 /\ InsertRow(r, Kind[Head(todo[i])], Head(todo[i]), i, seen[i][Head(todo[i])])
        BY <2>2
      <3> exec' = exec
        BY <1>2 DEF PassFails
      <3> QED
        BY InsertKeeps
    <2> QED
      BY <1>2, <2>1, <2>2 DEF PassFails, MayStart
  <1>3. CASE ReadUnscheduled(i) \/ SetFirstRun(i) \/ ReadDue(i) \/ Claim(i)
    BY <1>3, StillKeeps DEF ReadUnscheduled, SetFirstRun, ReadDue, Claim, rows
  <1>4. CASE SkipUnknown(i) \/ ReadTask(i) \/ PutBack(i) \/ EndPass(i)
    BY <1>4, StillKeeps DEF SkipUnknown, ReadTask, PutBack, EndPass, rows
  <1> QED
    BY <1>1, <1>2, <1>3, <1>4 DEF PassStep

LEMMA ExecKeeps ==
    ASSUME JobInv, NEW r \in Runs, ExecStep(r) \/ Beat(r) \/ EndWork(r) \/ Forget(r)
    PROVE  JobInv'
  <1>1. CASE BeginWork(r) \/ Fence(r) \/ Beat(r)
    BY <1>1, CheckKeeps DEF BeginWork, Fence, Beat
  <1>2. CASE RecordResult(r) \/ RecordLoss(r)
    <2>1. PICK result \in {"ok", "failed", "cancelled"} : Finish(r, result) \/ UNCHANGED status
      BY <1>2 DEF RecordResult, RecordLoss, RecordAs
    <2>2. exec[r] # "work" /\ UNCHANGED <<run, silent>>
      BY <1>2 DEF RecordResult, RecordLoss, RecordAs, At
    <2>3. AfterResult(r) \in Points \ {"work"} /\ exec' = [exec EXCEPT ![r] = AfterResult(r)]
      BY <1>2 DEF RecordResult, RecordLoss, RecordAs, Step, AfterResult
    <2> QED
      BY <2>1, <2>2, <2>3, FinishKeeps
  <1>3. CASE ReleaseLease(r)
    BY <1>3 DEF ReleaseLease, At, Step, rows, JobInv, OneRunPerKind, WorkIsFresh
  <1>4. CASE EndWork(r)
    BY <1>4 DEF EndWork, At, Step, rows, JobInv, OneRunPerKind, WorkIsFresh
  <1>5. CASE Forget(r)
    <2>1. RowsTyped'
      BY <1>5 DEF Forget, JobInv
    <2>2. OneRunPerKind'
      BY <1>5 DEF Forget, JobInv, OneRunPerKind
    <2>3. WorkIsFresh'
      BY <1>5 DEF Forget, JobInv, WorkIsFresh
    <2> QED
      BY <2>1, <2>2, <2>3 DEF JobInv
  <1> QED
    BY <1>1, <1>2, <1>3, <1>4, <1>5 DEF ExecStep

LEMMA TickKeeps ==
    ASSUME SchedulerAssumption, JobInv, Tick
    PROVE  JobInv'
  <1>1. Stale + 1 \in Nat /\ Stale + 1 > 1
    BY DEF Stale, SchedulerAssumption
  <1>2. RowsTyped'
    BY <1>1 DEF JobInv, Tick, Older
  <1>3. OneRunPerKind'
    BY DEF JobInv, Tick, OneRunPerKind
  <1>4. WorkIsFresh'
    BY <1>1 DEF JobInv, Tick, WorkIsFresh, InTime, Older
  <1> QED
    BY <1>2, <1>3, <1>4 DEF JobInv

LEMMA RestKeeps ==
    ASSUME JobInv,
           \/ \E i \in Instances : Crash(i) \/ \E k \in Kinds : RunNow(i, k)
           \/ \E t \in Tasks : UpdateTask(t) \/ DeleteTask(t) \/ ComeDue(t)
           \/ ToggleWindow
    PROVE  JobInv'
  <1>1. ASSUME NEW i \in Instances, Crash(i) PROVE JobInv'
    BY <1>1 DEF Crash, rows, JobInv, OneRunPerKind, WorkIsFresh
  <1>2. ASSUME NEW i \in Instances, NEW k \in Kinds, RunNow(i, k) PROVE JobInv'
    BY <1>2, InsertKeeps DEF RunNow, Step
  <1>3. ASSUME NEW t \in Tasks, UpdateTask(t) \/ DeleteTask(t) \/ ComeDue(t) PROVE JobInv'
    BY <1>3, StillKeeps DEF UpdateTask, DeleteTask, ComeDue, rows
  <1>4. CASE ToggleWindow
    BY <1>4, StillKeeps DEF ToggleWindow, rows
  <1> QED
    BY <1>1, <1>2, <1>3, <1>4

LEMMA JobNext == SchedulerAssumption /\ JobInv /\ [Next]_vars => JobInv'
  <1> SUFFICES ASSUME SchedulerAssumption, JobInv, [Next]_vars PROVE JobInv'
    OBVIOUS
  <1>1. CASE UNCHANGED vars
    BY <1>1, StillKeeps DEF vars, rows
  <1>2. ASSUME NEW i \in Instances, PassStep(i) \/ PassFails(i) PROVE JobInv'
    BY <1>2, AbandonKeeps, PassKeeps
  <1>3. ASSUME NEW r \in Runs, ExecStep(r) \/ Beat(r) \/ EndWork(r) \/ Forget(r) PROVE JobInv'
    BY <1>3, ExecKeeps
  <1>4. CASE Tick
    BY <1>4, TickKeeps
  <1> QED
    BY <1>1, <1>2, <1>3, <1>4, RestKeeps DEF Next

LEMMA JobInvariant == Spec => []JobInv
  BY JobInit, JobNext, SchedulerAssumption, PTL DEF Spec

-----------------------------------------------------------------------------
\* start_job_run, whoever calls it: at most one row of a kind is running.
THEOREM OneRun == Spec => []OneRunPerKind
  BY JobInvariant, PTL DEF JobInv

\* The code of a kind never runs twice at once while every live process beats
\* before it is taken for dead.
THEOREM WorkIsExclusive == Spec => []ExclusiveWork
  <1>1. JobInv => ExclusiveWork
    BY DEF JobInv, WorkIsFresh, OneRunPerKind, ExclusiveWork
  <1> QED
    BY <1>1, JobInvariant, PTL

-----------------------------------------------------------------------------
\* A step changes the status of an ended row by forgetting it, and in no other
\* way: finish_job_run writes to running rows only.
LEMMA EndsStay ==
    ASSUME JobInv, [Next]_vars, NEW r \in Runs, status[r] \in Ended
    PROVE  status'[r] \in {status[r], "free"}
  <1> DEFINE Kept == status'[r] \in {status[r], "free"}
  <1>1. CASE UNCHANGED vars
    BY <1>1 DEF vars, rows
  <1>2. ASSUME NEW i \in Instances, PassStep(i) \/ PassFails(i) PROVE Kept
    <2>1. CASE AbandonStale(i)
      BY <2>1 DEF AbandonStale, SilentRuns
    <2>2. CASE StartRun(i) \/ PassFails(i)
      BY <2>2 DEF StartRun, PassFails, StartRow, InsertRow, rows, JobInv
    <2>3. CASE ReadUnscheduled(i) \/ SetFirstRun(i) \/ ReadDue(i) \/ Claim(i)
      BY <2>3 DEF ReadUnscheduled, SetFirstRun, ReadDue, Claim, rows
    <2>4. CASE SkipUnknown(i) \/ ReadTask(i) \/ PutBack(i) \/ EndPass(i)
      BY <2>4 DEF SkipUnknown, ReadTask, PutBack, EndPass, rows
    <2> QED
      BY <1>2, <2>1, <2>2, <2>3, <2>4 DEF PassStep
  <1>3. ASSUME NEW q \in Runs, ExecStep(q) \/ Beat(q) \/ EndWork(q) \/ Forget(q) PROVE Kept
    <2>1. CASE BeginWork(q) \/ Fence(q) \/ Beat(q)
      BY <2>1 DEF BeginWork, Fence, Beat, CheckOwnership
    <2>2. CASE RecordResult(q) \/ RecordLoss(q)
      BY <2>2 DEF RecordResult, RecordLoss, RecordAs, Finish, JobInv
    <2>3. CASE ReleaseLease(q) \/ EndWork(q)
      BY <2>3 DEF ReleaseLease, EndWork, rows
    <2>4. CASE Forget(q)
      BY <2>4 DEF Forget, JobInv
    <2> QED
      BY <1>3, <2>1, <2>2, <2>3, <2>4 DEF ExecStep
  <1>4. ASSUME NEW i \in Instances, Crash(i) \/ \E k \in Kinds : RunNow(i, k) PROVE Kept
    BY <1>4 DEF Crash, RunNow, InsertRow, rows, JobInv
  <1>5. ASSUME NEW t \in Tasks, UpdateTask(t) \/ DeleteTask(t) \/ ComeDue(t) PROVE Kept
    BY <1>5 DEF UpdateTask, DeleteTask, ComeDue, rows
  <1>6. CASE ToggleWindow \/ Tick
    BY <1>6 DEF ToggleWindow, Tick, rows
  <1> QED
    BY <1>1, <1>2, <1>3, <1>4, <1>5, <1>6 DEF Next

\* The status of an ended run is never replaced, whichever execution comes back.
THEOREM EndsAreEnds == Spec => EndedIsForever
  <1>1. JobInv /\ [Next]_vars =>
          [\A r \in Runs : status[r] \in Ended => status'[r] \in {status[r], "free"}]_vars
    BY EndsStay
  <1> QED
    BY <1>1, JobInvariant, PTL DEF Spec, EndedIsForever

-----------------------------------------------------------------------------
(* The tasks: every lease, queue and place in the line stays what the code takes  *)
(* it for.                                                                        *)

\* A loop that has claimed a task has it at the head of its list, and an execution
\* that gives a lease back is one of a task.
HeadsNamed ==
    /\ \A i \in Instances : pc[i] \in {"read", "start", "back", "skip"} => todo[i] # <<>>
    /\ \A r \in Runs : exec[r] = "release" => run[r].task \in Tasks

TypeInv == TypeOK /\ HeadsNamed

\* Who leaves the line leaves the others in it.
LEMMA OneLeaves ==
    ASSUME LineOK, NEW n \in DOMAIN line
    PROVE  /\ LeaveLine(n) \in Seq(Tasks)
           /\ \A t \in Tasks : (\E m \in DOMAIN LeaveLine(n) : LeaveLine(n)[m] = t) <=>
                 t # line[n] /\ \E m \in DOMAIN line : line[m] = t
           /\ \A k, m \in DOMAIN LeaveLine(n) : LeaveLine(n)[k] = LeaveLine(n)[m] => k = m
  <1> DEFINE q == LeaveLine(n)
  <1>1. /\ Len(line) \in Nat /\ DOMAIN line = 1 .. Len(line)
        /\ \A m \in 1 .. Len(line) : line[m] \in Tasks
    BY LenProperties, ElementOfSeq DEF LineOK
  <1>2. n \in 1 .. Len(line) /\ Len(line) - 1 \in Nat
    BY <1>1
  <1>3. /\ DOMAIN q = 1 .. Len(line) - 1
        /\ \A m \in 1 .. Len(line) - 1 : q[m] = IF m < n THEN line[m] ELSE line[m + 1]
    BY DEF LeaveLine
  <1> HIDE DEF q
  <1>4. q \in Seq(Tasks)
    <2>1. q \in [1 .. Len(line) - 1 -> Tasks]
      BY <1>1, <1>2 DEF q, LeaveLine
    <2> QED
      BY <1>2, <2>1, SeqDef
  <1>5. ASSUME NEW t \in Tasks
        PROVE  (\E m \in DOMAIN q : q[m] = t) <=> t # line[n] /\ \E m \in DOMAIN line : line[m] = t
    <2>1. ASSUME NEW m \in DOMAIN q, q[m] = t
          PROVE  t # line[n] /\ \E k \in DOMAIN line : line[k] = t
      <3> DEFINE k == IF m < n THEN m ELSE m + 1
      <3>1. k \in DOMAIN line /\ k # n /\ line[k] = t
        BY <1>1, <1>2, <1>3, <2>1
      <3> HIDE DEF k
      <3> QED
        BY <3>1 DEF LineOK
    <2>2. ASSUME NEW k \in DOMAIN line, line[k] = t, t # line[n]
          PROVE  \E m \in DOMAIN q : q[m] = t
      <3> DEFINE m == IF k < n THEN k ELSE k - 1
      <3>1. m \in DOMAIN q /\ q[m] = t
        BY <1>1, <1>2, <1>3, <2>2
      <3> QED
        BY <3>1
    <2> QED
      BY <2>1, <2>2
  <1>6. \A k, m \in DOMAIN q : q[k] = q[m] => k = m
    <2> SUFFICES ASSUME NEW k \in DOMAIN q, NEW m \in DOMAIN q, q[k] = q[m] PROVE k = m
      OBVIOUS
    <2> DEFINE kk == IF k < n THEN k ELSE k + 1
               mm == IF m < n THEN m ELSE m + 1
    <2>1. kk \in DOMAIN line /\ mm \in DOMAIN line /\ line[kk] = line[mm]
      BY <1>1, <1>2, <1>3
    <2>2. kk = mm
      BY <2>1 DEF LineOK
    <2> QED
      BY <1>2, <1>3, <2>2
  <1> QED
    BY <1>4, <1>5, <1>6 DEF q

\* Whatever next run a task gets, the line is the due tasks.
LEMMA SetNextType ==
    ASSUME TaskTypeOK, NEW t \in Tasks, NEW when \in {"none", "later", "due"},
           NEW v \in 0 .. MaxEdits, SetNext(t, when, v)
    PROVE  /\ next' \in [Tasks -> {"none", "later", "due"}]
           /\ nextVer' \in [Tasks -> 0 .. MaxEdits]
           /\ \A u \in Tasks : next'[u] = IF u = t THEN when ELSE next[u]
           /\ LineOK'
  <1>1. /\ next' \in [Tasks -> {"none", "later", "due"}]
        /\ nextVer' \in [Tasks -> 0 .. MaxEdits]
        /\ \A u \in Tasks : next'[u] = IF u = t THEN when ELSE next[u]
    BY DEF SetNext, TaskTypeOK
  <1>2. /\ Len(line) \in Nat /\ DOMAIN line = 1 .. Len(line)
        /\ \A m \in 1 .. Len(line) : line[m] \in Tasks
    BY LenProperties, ElementOfSeq DEF TaskTypeOK, LineOK
  <1>3. CASE UNCHANGED line /\ (when = "due" <=> next[t] = "due")
    BY <1>1, <1>3 DEF TaskTypeOK, LineOK
  <1>4. CASE when = "due" /\ next[t] # "due" /\ line' = Append(line, t)
    <2>1. /\ line' \in Seq(Tasks) /\ DOMAIN line' = 1 .. Len(line) + 1
          /\ \A m \in 1 .. Len(line) : line'[m] = line[m]
          /\ line'[Len(line) + 1] = t
      BY <1>2, <1>4, AppendProperties, LenProperties DEF TaskTypeOK, LineOK
    <2>2. \A m \in DOMAIN line : line[m] # t
      BY <1>4 DEF TaskTypeOK, LineOK
    <2>3. \A u \in Tasks : next'[u] = "due" <=> \E m \in DOMAIN line' : line'[m] = u
      <3> SUFFICES ASSUME NEW u \in Tasks
                   PROVE  next'[u] = "due" <=> \E m \in DOMAIN line' : line'[m] = u
        OBVIOUS
      <3>1. next[u] = "due" <=> \E m \in DOMAIN line : line[m] = u
        BY DEF TaskTypeOK, LineOK
      <3>2. (\E m \in DOMAIN line' : line'[m] = u) <=> u = t \/ \E m \in DOMAIN line : line[m] = u
        BY <1>2, <2>1
      <3> QED
        BY <1>1, <1>4, <3>1, <3>2
    <2>4. \A k, m \in DOMAIN line' : line'[k] = line'[m] => k = m
      <3> SUFFICES ASSUME NEW k \in 1 .. Len(line) + 1, NEW m \in 1 .. Len(line) + 1,
                          line'[k] = line'[m]
                   PROVE  k = m
        BY <2>1
      <3>1. CASE k \in 1 .. Len(line) /\ m \in 1 .. Len(line)
        BY <1>2, <2>1, <3>1 DEF TaskTypeOK, LineOK
      <3>2. CASE k = Len(line) + 1 \/ m = Len(line) + 1
        BY <1>2, <2>1, <2>2, <3>2
      <3> QED
        BY <1>2, <3>1, <3>2
    <2> QED
      BY <1>1, <2>1, <2>3, <2>4 DEF LineOK
  <1>5. ASSUME when # "due", NEW n \in DOMAIN line, line[n] = t, line' = LeaveLine(n)
        PROVE  LineOK'
    <2>1. LineOK
      BY DEF TaskTypeOK
    <2>2. \A u \in Tasks : next'[u] = "due" <=> u # t /\ next[u] = "due"
      BY <1>1, <1>5
    <2>3. /\ LeaveLine(n) \in Seq(Tasks)
          /\ \A u \in Tasks : (\E m \in DOMAIN LeaveLine(n) : LeaveLine(n)[m] = u) <=>
                u # line[n] /\ \E m \in DOMAIN line : line[m] = u
          /\ \A k, m \in DOMAIN LeaveLine(n) : LeaveLine(n)[k] = LeaveLine(n)[m] => k = m
      BY <1>5, <2>1, OneLeaves
    <2>4. \A u \in Tasks : next'[u] = "due" <=> \E m \in DOMAIN line' : line'[m] = u
      BY <1>5, <2>1, <2>2, <2>3 DEF LineOK
    <2> QED
      BY <1>5, <2>3, <2>4 DEF LineOK
  <1> QED
    BY <1>1, <1>3, <1>4, <1>5 DEF SetNext


LEMMA SeqsOfType ==
    ASSUME SchedulerAssumption, NEW S \in SUBSET Tasks, NEW q \in SeqsOf(S)
    PROVE  q \in Seq(Tasks) /\ Len(q) <= Cardinality(Tasks)
  <1>1. Cardinality(S) \in Nat /\ Cardinality(S) <= Cardinality(Tasks)
    BY FS_Subset, FS_CardinalityType DEF SchedulerAssumption
  <1>2. q \in [1 .. Cardinality(S) -> S]
    BY DEF SeqsOf
  <1>3. q \in Seq(S)
    BY <1>1, <1>2, SeqDef
  <1>4. Len(q) = Cardinality(S)
    BY <1>1, <1>2, <1>3, LenProperties
  <1> QED
    BY <1>1, <1>3, <1>4, SeqMonotonic

\* A list that loses its head, or is dropped.
LEMMA DropType ==
    ASSUME LoopTypeOK, NEW i \in Instances, todo[i] # <<>>
    PROVE  /\ Head(todo[i]) \in Tasks
           /\ Tail(todo[i]) \in Seq(Tasks) /\ Len(Tail(todo[i])) <= Cardinality(Tasks)
  <1>1. todo[i] \in Seq(Tasks) /\ Len(todo[i]) <= Cardinality(Tasks)
    BY DEF LoopTypeOK
  <1>2. Cardinality(Tasks) \in Nat
    BY SchedulerAssumption, FS_CardinalityType DEF SchedulerAssumption
  <1>3. /\ Head(todo[i]) \in Tasks /\ Tail(todo[i]) \in Seq(Tasks)
        /\ Len(Tail(todo[i])) = Len(todo[i]) - 1
    BY <1>1, HeadTailProperties
  <1> QED
    BY <1>1, <1>2, <1>3, LenProperties

LEMMA EmptyType == <<>> \in Seq(Tasks) /\ Len(<<>>) <= Cardinality(Tasks)
  <1>1. Cardinality(Tasks) \in Nat
    BY FS_CardinalityType, SchedulerAssumption DEF SchedulerAssumption
  <1> QED
    BY <1>1, EmptySeq

\* A release gives the next run it is told to, and frees the lease.
LEMMA ReleaseType ==
    ASSUME TaskTypeOK, LeaseTypeOK, NEW t \in Tasks, NEW i \in Instances \cup {Nobody},
           NEW when \in {"none", "later", "due"}, NEW v \in 0 .. MaxEdits,
           Release(t, i, when, v)
    PROVE  TaskTypeOK' /\ LeaseTypeOK'
  <1>1. CASE owner[t] = i
    <2>1. SetNext(t, when, v) /\ UNCHANGED <<mode, ver>>
      BY <1>1 DEF Release
    <2>2. TaskTypeOK'
      BY <2>1, SetNextType DEF TaskTypeOK
    <2>3. Lease \in Nat
      BY SchedulerAssumption DEF SchedulerAssumption
    <2>4. LeaseTypeOK'
      BY <1>1, <2>3 DEF Release, LeaseTypeOK
    <2> QED
      BY <2>2, <2>4
  <1>2. CASE owner[t] # i
    BY <1>2 DEF Release, task, lease, TaskTypeOK, LeaseTypeOK, LineOK
  <1> QED
    BY <1>1, <1>2

\* The row of a new run, whose execution may never come to start.
LEMMA InsertType ==
    ASSUME RunTypeOK, HeadsNamed, NEW r \in Runs, NEW k \in Kinds,
           NEW t \in Tasks \cup {NoTask}, NEW i \in Instances, NEW v \in 0 .. MaxEdits,
           InsertRow(r, k, t, i, v),
           exec' = exec \/ exec' = [exec EXCEPT ![r] = "start"]
    PROVE  RunTypeOK' /\ \A q \in Runs : exec'[q] = "release" => run'[q].task \in Tasks
  <1>1. 0 \in 0 .. Stale + 1
    BY SchedulerAssumption DEF SchedulerAssumption, Stale
  <1>2. RunTypeOK'
    BY <1>1 DEF RunTypeOK, InsertRow
  <1>3. \A q \in Runs : exec'[q] = "release" => q # r /\ exec[q] = "release" /\ run'[q] = run[q]
    BY DEF RunTypeOK, InsertRow
  <1> QED
    BY <1>2, <1>3 DEF HeadsNamed

LEMMA StillType ==
    ASSUME TypeInv
    PROVE  /\ UNCHANGED task => TaskTypeOK'
           /\ UNCHANGED lease => LeaseTypeOK'
           /\ UNCHANGED <<rows, exec>> =>
                 RunTypeOK' /\ \A r \in Runs : exec'[r] = "release" => run'[r].task \in Tasks
           /\ UNCHANGED <<alive, window, budget>> => WorldTypeOK'
  BY DEF TypeInv, TypeOK, HeadsNamed, TaskTypeOK, LineOK, LeaseTypeOK, RunTypeOK, WorldTypeOK,
     task, lease, rows, budget

\* A loop alone moves.
LEMMA LoopMoves ==
    ASSUME TypeInv, NEW i \in Instances,
           NEW point \in {"idle", "first", "set", "due", "read", "start", "back", "skip"},
           Move(i, point),
           NEW q \in Seq(Tasks), Len(q) <= Cardinality(Tasks), todo' = [todo EXCEPT ![i] = q],
           point \in {"read", "start", "back", "skip"} => q # <<>>,
           seen' \in [Instances -> [Tasks -> 0 .. MaxEdits]],
           back' \in [Instances -> {"none", "later", "due"}]
    PROVE  /\ LoopTypeOK'
           /\ \A j \in Instances : pc'[j] \in {"read", "start", "back", "skip"} => todo'[j] # <<>>
  BY DEF TypeInv, TypeOK, HeadsNamed, LoopTypeOK, Move

\* It goes on to the next task of its list, or on with this one.
LEMMA HeadMoves ==
    ASSUME TypeInv, NEW i \in Instances, todo[i] # <<>>,
           \/ Drop(i) /\ Move(i, "due")
           \/ /\ UNCHANGED todo
              /\ \E point \in {"due", "read", "start", "back", "skip"} : Move(i, point),
           seen' \in [Instances -> [Tasks -> 0 .. MaxEdits]],
           back' \in [Instances -> {"none", "later", "due"}]
    PROVE  /\ LoopTypeOK'
           /\ \A j \in Instances : pc'[j] \in {"read", "start", "back", "skip"} => todo'[j] # <<>>
  <1>1. /\ LoopTypeOK /\ todo \in [Instances -> Seq(Tasks)]
        /\ todo[i] \in Seq(Tasks) /\ Len(todo[i]) <= Cardinality(Tasks)
    BY DEF TypeInv, TypeOK, LoopTypeOK
  <1>2. CASE Drop(i) /\ Move(i, "due")
    BY <1>1, <1>2, DropType, LoopMoves DEF Drop
  <1>3. ASSUME UNCHANGED todo,
               NEW point \in {"due", "read", "start", "back", "skip"}, Move(i, point)
        PROVE  /\ LoopTypeOK'
               /\ \A j \in Instances :
                     pc'[j] \in {"read", "start", "back", "skip"} => todo'[j] # <<>>
    BY <1>1, <1>3 DEF Move, LoopTypeOK, TypeInv, HeadsNamed
  <1> QED
    BY <1>2, <1>3

LEMMA PassType ==
    ASSUME TypeInv, NEW i \in Instances, PassStep(i) \/ PassFails(i)
    PROVE  TypeInv'
  <1> USE SchedulerAssumption
  <1> DEFINE Heads == \A j \in Instances :
                         pc'[j] \in {"read", "start", "back", "skip"} => todo'[j] # <<>>
             Names == \A r \in Runs : exec'[r] = "release" => run'[r].task \in Tasks
  <1>1. /\ todo[i] \in Seq(Tasks) /\ Len(todo[i]) <= Cardinality(Tasks)
        /\ todo \in [Instances -> Seq(Tasks)]
        /\ seen \in [Instances -> [Tasks -> 0 .. MaxEdits]]
        /\ back \in [Instances -> {"none", "later", "due"}]
        /\ ver \in [Tasks -> 0 .. MaxEdits] /\ nextVer \in [Tasks -> 0 .. MaxEdits]
        /\ TaskTypeOK /\ LeaseTypeOK /\ RunTypeOK /\ LoopTypeOK /\ WorldTypeOK
        /\ HeadsNamed
    BY DEF TypeInv, TypeOK, LoopTypeOK, TaskTypeOK
  <1>2. /\ Lease \in Nat \ {0} /\ Kind \in [Tasks -> Kinds]
        /\ {MaxEdits, MaxCalls, MaxFaults, MaxCrashes} \subseteq Nat
    BY DEF SchedulerAssumption
  <1>3. \A t \in Tasks : TakeLease(t, i) => LeaseTypeOK'
    BY <1>1, <1>2 DEF TakeLease, LeaseTypeOK
  <1>4. CASE AbandonStale(i)
    <2>1. LoopTypeOK' /\ Heads
      BY <1>1, <1>4 DEF AbandonStale, Move, LoopTypeOK, HeadsNamed
    <2>2. RunTypeOK' /\ Names
      BY <1>1, <1>4 DEF AbandonStale, RunTypeOK, HeadsNamed
    <2> QED
      BY <1>4, <2>1, <2>2, StillType DEF AbandonStale, TypeInv, TypeOK, HeadsNamed
  <1>5. CASE ReadUnscheduled(i)
    <2> PICK q \in SeqsOf({t \in Tasks : mode[t] = "on" /\ next[t] = "none"}) :
             todo' = [todo EXCEPT ![i] = q]
      BY <1>5 DEF ReadUnscheduled
    <2>1. q \in Seq(Tasks) /\ Len(q) <= Cardinality(Tasks)
      BY SeqsOfType
    <2>2. LoopTypeOK' /\ Heads
      BY <1>1, <1>5, <2>1, LoopMoves DEF ReadUnscheduled
    <2> QED
      BY <1>5, <2>2, StillType DEF ReadUnscheduled, TypeInv, TypeOK, HeadsNamed
  <1>6. CASE SetFirstRun(i)
    <2>1. /\ Head(todo[i]) \in Tasks
          /\ Tail(todo[i]) \in Seq(Tasks) /\ Len(Tail(todo[i])) <= Cardinality(Tasks)
      BY <1>1, <1>6, DropType DEF SetFirstRun
    <2>2. TaskTypeOK'
      <3>1. CASE UNCHANGED task
        BY <3>1, StillType
      <3>2. CASE /\ SetNext(Head(todo[i]), "later", seen[i][Head(todo[i])])
                 /\ UNCHANGED <<mode, ver>>
        <4>1. seen[i][Head(todo[i])] \in 0 .. MaxEdits
          BY <1>1, <2>1
        <4>2. /\ next' \in [Tasks -> {"none", "later", "due"}]
              /\ nextVer' \in [Tasks -> 0 .. MaxEdits] /\ LineOK'
          BY <1>1, <2>1, <3>2, <4>1, SetNextType
        <4> QED
          BY <1>1, <3>2, <4>2 DEF TaskTypeOK
      <3> QED
        BY <1>6, <3>1, <3>2 DEF SetFirstRun
    <2>3. LoopTypeOK' /\ Heads
      BY <1>1, <1>6, <2>1 DEF SetFirstRun, InPass, Drop, LoopTypeOK, HeadsNamed
    <2> QED
      BY <1>6, <2>2, <2>3, StillType DEF SetFirstRun, TypeInv, TypeOK, HeadsNamed
  <1>7. CASE ReadDue(i)
    <2> PICK q \in SeqsOf({t \in Tasks : mode[t] = "on" /\ next[t] = "due"}) :
             todo' = [todo EXCEPT ![i] = q]
      BY <1>7 DEF ReadDue
    <2>1. q \in Seq(Tasks) /\ Len(q) <= Cardinality(Tasks)
      BY SeqsOfType
    <2>2. LoopTypeOK' /\ Heads
      BY <1>1, <1>7, <2>1, LoopMoves DEF ReadDue
    <2> QED
      BY <1>7, <2>2, StillType DEF ReadDue, TypeInv, TypeOK, HeadsNamed
  <1>8. CASE Claim(i)
    <2>1. /\ Head(todo[i]) \in Tasks
          /\ Tail(todo[i]) \in Seq(Tasks) /\ Len(Tail(todo[i])) <= Cardinality(Tasks)
      BY <1>1, <1>8, DropType DEF Claim
    <2>2. LeaseTypeOK'
      BY <1>3, <1>8, <2>1, StillType DEF Claim
    <2>3. LoopTypeOK' /\ Heads
      <3> HIDE DEF Heads
      <3>1. /\ todo[i] # <<>> /\ pc[i] = "due"
            /\ seen' \in [Instances -> [Tasks -> 0 .. MaxEdits]]
            /\ back' \in [Instances -> {"none", "later", "due"}]
        BY <1>1, <1>8 DEF Claim, InPass
      <3>2. CASE \E point \in {"read", "skip"} : Move(i, point) /\ UNCHANGED todo
        <4>1. /\ UNCHANGED todo
              /\ \E point \in {"due", "read", "start", "back", "skip"} : Move(i, point)
          BY <3>2
        <4> QED
          BY <3>1, <4>1, HeadMoves DEF Heads
      <3>3. CASE Drop(i) /\ UNCHANGED pc
        <4>1. pc' = [pc EXCEPT ![i] = "due"]
          BY <1>1, <3>1, <3>3 DEF LoopTypeOK
        <4> QED
          BY <3>1, <3>3, <4>1, HeadMoves DEF Move, Heads
      <3> QED
        BY <1>8, <3>2, <3>3 DEF Claim
    <2> QED
      BY <1>8, <2>2, <2>3, StillType DEF Claim, TypeInv, TypeOK, HeadsNamed
  <1>9. CASE SkipUnknown(i) \/ PutBack(i)
    <2>1. todo[i] # <<>>
      BY <1>1, <1>9 DEF SkipUnknown, PutBack, InPass, HeadsNamed
    <2>2. /\ Head(todo[i]) \in Tasks
          /\ Tail(todo[i]) \in Seq(Tasks) /\ Len(Tail(todo[i])) <= Cardinality(Tasks)
      BY <1>1, <2>1, DropType
    <2>3. LoopTypeOK' /\ Heads
      BY <1>1, <1>9, <2>1, HeadMoves DEF SkipUnknown, PutBack
    <2>4. PICK when \in {"none", "later", "due"}, v \in 0 .. MaxEdits :
             Release(Head(todo[i]), i, when, v)
      BY <1>1, <1>9, <2>2 DEF SkipUnknown, PutBack
    <2>5. TaskTypeOK' /\ LeaseTypeOK'
      <3> HIDE DEF Heads, Names
      <3>1. i \in Instances \cup {Nobody}
        OBVIOUS
      <3> QED
        BY <1>1, <2>2, <2>4, <3>1, ReleaseType
    <2> QED
      BY <1>9, <2>3, <2>5, StillType DEF SkipUnknown, PutBack, TypeInv, TypeOK, HeadsNamed
  <1>10. CASE ReadTask(i)
    <2>1. todo[i] # <<>>
      BY <1>1, <1>10 DEF ReadTask, InPass, HeadsNamed
    <2>2. /\ Head(todo[i]) \in Tasks
          /\ Tail(todo[i]) \in Seq(Tasks) /\ Len(Tail(todo[i])) <= Cardinality(Tasks)
      BY <1>1, <2>1, DropType
    <2>3. /\ seen' \in [Instances -> [Tasks -> 0 .. MaxEdits]]
          /\ back' \in [Instances -> {"none", "later", "due"}]
      BY <1>1, <1>10, <2>2 DEF ReadTask, GiveBack
    <2>4. LoopTypeOK' /\ Heads
      BY <1>10, <2>1, <2>3, HeadMoves DEF ReadTask, GiveBack
    <2> QED
      BY <1>10, <2>4, StillType DEF ReadTask, TypeInv, TypeOK, HeadsNamed
  <1>11. CASE StartRun(i)
    <2>1. todo[i] # <<>>
      BY <1>1, <1>11 DEF StartRun, InPass, HeadsNamed
    <2>2. /\ Head(todo[i]) \in Tasks
          /\ Tail(todo[i]) \in Seq(Tasks) /\ Len(Tail(todo[i])) <= Cardinality(Tasks)
      BY <1>1, <2>1, DropType
    <2>3. LoopTypeOK' /\ Heads
      <3>1. back' \in [Instances -> {"none", "later", "due"}] /\ UNCHANGED seen
        BY <1>1, <1>11 DEF StartRun, GiveBack
      <3> QED
        BY <1>1, <1>11, <2>1, <3>1, HeadMoves DEF StartRun, GiveBack
    <2>4. RunTypeOK' /\ Names
      <3>1. CASE UNCHANGED <<rows, exec>>
        BY <3>1, StillType
      <3>2. ASSUME NEW r \in Runs, StartRow(r, Kind[Head(todo[i])], Head(todo[i]), i,
                                           seen[i][Head(todo[i])])
            PROVE  RunTypeOK' /\ Names
        <4>1. /\ Kind[Head(todo[i])] \in Kinds
              /\ seen[i][Head(todo[i])] \in 0 .. MaxEdits
          BY <1>1, <1>2, <2>2
        <4> QED
          BY <1>1, <2>2, <3>2, <4>1, InsertType DEF StartRow
      <3> QED
        BY <1>11, <3>1, <3>2 DEF StartRun
    <2> QED
      BY <1>11, <2>3, <2>4, StillType DEF StartRun, TypeInv, TypeOK, HeadsNamed
  <1>12. CASE EndPass(i)
    <2>1. LoopTypeOK' /\ Heads
      BY <1>1, <1>2, <1>12, EmptyType DEF EndPass, LeavePass, Unread, Move, LoopTypeOK, HeadsNamed
    <2> QED
      BY <1>12, <2>1, StillType DEF EndPass, TypeInv, TypeOK, HeadsNamed
  <1>13. CASE PassFails(i)
    <2>1. LoopTypeOK' /\ Heads
      BY <1>1, <1>2, <1>13, EmptyType
         DEF PassFails, LeavePass, Unread, Move, LoopTypeOK, HeadsNamed
    <2>2. (pc[i] = "due" /\ todo[i] # <<>>) \/ pc[i] = "start" => Head(todo[i]) \in Tasks
      BY <1>1, DropType DEF HeadsNamed
    <2>3. LeaseTypeOK'
      BY <1>3, <1>13, <2>2, StillType DEF PassFails, lease
    <2>4. RunTypeOK' /\ Names
      <3>1. CASE UNCHANGED rows
        BY <1>13, <3>1, StillType DEF PassFails
      <3>2. ASSUME NEW r \in Runs, Head(todo[i]) \in Tasks,
                   InsertRow(r, Kind[Head(todo[i])], Head(todo[i]), i, seen[i][Head(todo[i])])
            PROVE  RunTypeOK' /\ Names
        BY <1>1, <1>2, <1>13, <3>2, InsertType DEF PassFails
      <3> QED
        BY <1>13, <2>2, <3>1, <3>2 DEF PassFails
    <2>5. WorldTypeOK'
      BY <1>1, <1>2, <1>13 DEF PassFails, Fault, WorldTypeOK
    <2> QED
      BY <1>13, <2>1, <2>3, <2>4, <2>5, StillType DEF PassFails, TypeInv, TypeOK, HeadsNamed
  <1> QED
    BY <1>4, <1>5, <1>6, <1>7, <1>8, <1>9, <1>10, <1>11, <1>12, <1>13 DEF PassStep


LEMMA ExecType ==
    ASSUME TypeInv, NEW r \in Runs, ExecStep(r) \/ Beat(r) \/ EndWork(r) \/ Forget(r)
    PROVE  TypeInv'
  <1> USE SchedulerAssumption
  <1> DEFINE Names == \A q \in Runs : exec'[q] = "release" => run'[q].task \in Tasks
  <1>1. TaskTypeOK /\ LeaseTypeOK /\ RunTypeOK /\ LoopTypeOK /\ WorldTypeOK /\ HeadsNamed
    BY DEF TypeInv, TypeOK
  <1>2. /\ Lease \in Nat \ {0} /\ Stale + 1 \in Nat
        /\ {MaxEdits, MaxCalls, MaxFaults, MaxCrashes} \subseteq Nat
    BY DEF SchedulerAssumption, Stale
  <1>3. UNCHANGED loop => LoopTypeOK' /\ (\A i \in Instances :
           pc'[i] \in {"read", "start", "back", "skip"} => todo'[i] # <<>>)
    BY <1>1 DEF loop, LoopTypeOK, HeadsNamed
  <1>4. Fault \/ NoFault => WorldTypeOK' \/ ~UNCHANGED <<alive, window>>
    BY <1>1, <1>2 DEF Fault, NoFault, budget, WorldTypeOK
  <1>5. CASE BeginWork(r) \/ Fence(r) \/ Beat(r)
    <2> PICK to \in {"work", "record", "lost"}, from \in {"start", "fence", "work"} :
           CheckOwnership(r, from, to)
      BY <1>5 DEF BeginWork, Fence, Beat
    <2>1. /\ exec' = [exec EXCEPT ![r] = to] \/ exec' = [exec EXCEPT ![r] = "lost"]
          /\ Renew(r) \/ UNCHANGED <<silent, left>>
          /\ UNCHANGED <<task, owner, status, run, loop, alive, window>>
          /\ Fault \/ NoFault
      BY DEF CheckOwnership, Step
    <2>2. RunTypeOK' /\ Names
      <3>1. 0 \in 0 .. Stale + 1
        BY <1>2
      <3>2. silent' \in [Runs -> 0 .. Stale + 1]
        BY <1>1, <2>1, <3>1 DEF Renew, RunTypeOK
      <3>3. UNCHANGED <<status, run>>
        BY <2>1
      <3>4. /\ exec' \in [Runs -> Points]
            /\ \A q \in Runs : exec'[q] = "release" => exec[q] = "release"
        BY <1>1, <2>1 DEF RunTypeOK
      <3> QED
        BY <1>1, <3>2, <3>3, <3>4 DEF RunTypeOK, HeadsNamed
    <2>3. LeaseTypeOK'
      BY <1>1, <1>2, <2>1 DEF Renew, LeaseTypeOK
    <2> QED
      BY <1>3, <1>4, <2>1, <2>2, <2>3, StillType DEF TypeInv, TypeOK, HeadsNamed
  <1>6. CASE RecordResult(r) \/ RecordLoss(r)
    <2>1. PICK result \in {"ok", "failed", "cancelled"} : Finish(r, result) \/ UNCHANGED status
      BY <1>6 DEF RecordResult, RecordLoss, RecordAs
    <2>2. /\ exec' = [exec EXCEPT ![r] = AfterResult(r)]
          /\ UNCHANGED <<task, lease, run, silent, loop, alive, window>>
          /\ Fault \/ NoFault
      BY <1>6 DEF RecordResult, RecordLoss, RecordAs, Step
    <2>3. RunTypeOK' /\ Names
      BY <1>1, <2>1, <2>2 DEF AfterResult, Finish, RunTypeOK, HeadsNamed
    <2> QED
      BY <1>3, <1>4, <2>2, <2>3, StillType DEF TypeInv, TypeOK, HeadsNamed
  <1>7. CASE ReleaseLease(r)
    <2>1. /\ run[r].task \in Tasks /\ run[r].inst \in Instances \cup {Nobody}
          /\ run[r].ver \in 0 .. MaxEdits
      BY <1>1, <1>7 DEF ReleaseLease, At, RunTypeOK, HeadsNamed
    <2>2. TaskTypeOK' /\ LeaseTypeOK'
      <3>1. CASE UNCHANGED <<task, lease>>
        BY <3>1, StillType
      <3>2. CASE Release(run[r].task, run[r].inst, "later", run[r].ver)
        BY <1>1, <2>1, <3>2, ReleaseType
      <3> QED
        BY <1>7, <3>1, <3>2 DEF ReleaseLease
    <2>3. RunTypeOK' /\ Names
      BY <1>1, <1>7 DEF ReleaseLease, Step, RunTypeOK, HeadsNamed, rows
    <2> QED
      BY <1>3, <1>4, <1>7, <2>2, <2>3 DEF ReleaseLease, TypeInv, TypeOK, HeadsNamed
  <1>8. CASE EndWork(r)
    <2>1. RunTypeOK' /\ Names
      BY <1>1, <1>8 DEF EndWork, Step, RunTypeOK, HeadsNamed, rows
    <2> QED
      BY <1>3, <1>8, <2>1, StillType DEF EndWork, TypeInv, TypeOK, HeadsNamed
  <1>9. CASE Forget(r)
    <2>1. NoRun.kind \in Kinds /\ NoRun.ver \in 0 .. MaxEdits
      BY <1>2 DEF NoRun, SchedulerAssumption
    <2>2. RunTypeOK' /\ Names
      BY <1>1, <1>2, <1>9, <2>1 DEF Forget, NoRun, RunTypeOK, HeadsNamed
    <2> QED
      BY <1>3, <1>9, <2>2, StillType DEF Forget, TypeInv, TypeOK, HeadsNamed
  <1> QED
    BY <1>5, <1>6, <1>7, <1>8, <1>9 DEF ExecStep

LEMMA AdminType ==
    ASSUME TypeInv, NEW t \in Tasks, UpdateTask(t) \/ DeleteTask(t) \/ ComeDue(t)
    PROVE  TypeInv'
  <1> USE SchedulerAssumption
  <1>1. TaskTypeOK /\ LeaseTypeOK /\ RunTypeOK /\ LoopTypeOK /\ WorldTypeOK /\ HeadsNamed
    BY DEF TypeInv, TypeOK
  <1>2. /\ Lease \in Nat \ {0}
        /\ {MaxEdits, MaxCalls, MaxFaults, MaxCrashes} \subseteq Nat
    BY DEF SchedulerAssumption
  <1>3. LoopTypeOK' /\ RunTypeOK' /\ HeadsNamed'
    BY <1>1 DEF UpdateTask, DeleteTask, ComeDue, rows, loop, LoopTypeOK, RunTypeOK, HeadsNamed
  <1>4. WorldTypeOK'
    BY <1>1, <1>2 DEF UpdateTask, DeleteTask, ComeDue, Edit, budget, WorldTypeOK
  <1>5. LeaseTypeOK'
    BY <1>1, <1>2 DEF UpdateTask, DeleteTask, ComeDue, Revoke, lease, LeaseTypeOK
  <1>6. /\ mode' \in [Tasks -> {"on", "off", "gone"}]
        /\ ver' \in [Tasks -> 0 .. MaxEdits]
    BY <1>1, <1>2 DEF UpdateTask, DeleteTask, ComeDue, Edit, TaskTypeOK, WorldTypeOK
  <1>7. PICK when \in {"none", "later", "due"}, v \in 0 .. MaxEdits : SetNext(t, when, v)
    BY <1>1, <1>2 DEF UpdateTask, DeleteTask, ComeDue, Edit, TaskTypeOK, WorldTypeOK
  <1>8. TaskTypeOK'
    BY <1>1, <1>6, <1>7, SetNextType DEF TaskTypeOK
  <1> QED
    BY <1>3, <1>4, <1>5, <1>8 DEF TypeInv, TypeOK

LEMMA RestType ==
    ASSUME TypeInv,
           \/ \E i \in Instances : Crash(i) \/ \E k \in Kinds : RunNow(i, k)
           \/ ToggleWindow \/ Tick \/ UNCHANGED vars
    PROVE  TypeInv'
  <1> USE SchedulerAssumption
  <1>1. TaskTypeOK /\ LeaseTypeOK /\ RunTypeOK /\ LoopTypeOK /\ WorldTypeOK /\ HeadsNamed
    BY DEF TypeInv, TypeOK
  <1>2. /\ Lease \in Nat \ {0} /\ Stale + 1 \in Nat
        /\ {MaxEdits, MaxCalls, MaxFaults, MaxCrashes} \subseteq Nat
    BY DEF SchedulerAssumption, Stale
  <1>3. UNCHANGED loop => LoopTypeOK' /\ (\A i \in Instances :
           pc'[i] \in {"read", "start", "back", "skip"} => todo'[i] # <<>>)
    BY <1>1 DEF loop, LoopTypeOK, HeadsNamed
  <1>4. ASSUME NEW i \in Instances, Crash(i) PROVE TypeInv'
    <2>1. /\ LoopTypeOK'
          /\ \A j \in Instances : pc'[j] \in {"read", "start", "back", "skip"} => todo'[j] # <<>>
      BY <1>1, <1>2, <1>4, EmptyType DEF Crash, LeavePass, Unread, Move, LoopTypeOK, HeadsNamed
    <2>2. RunTypeOK' /\ \A r \in Runs : exec'[r] = "release" => run'[r].task \in Tasks
      BY <1>1, <1>4 DEF Crash, RunTypeOK, HeadsNamed, rows
    <2>3. WorldTypeOK'
      BY <1>1, <1>2, <1>4 DEF Crash, WorldTypeOK
    <2> QED
      BY <1>4, <2>1, <2>2, <2>3, StillType DEF Crash, TypeInv, TypeOK, HeadsNamed
  <1>5. ASSUME NEW i \in Instances, NEW k \in Kinds, RunNow(i, k) PROVE TypeInv'
    <2>1. RunTypeOK' /\ \A r \in Runs : exec'[r] = "release" => run'[r].task \in Tasks
      <3> PICK r \in Runs :
             /\ InsertRow(r, k, NoTask, i, 0)
             /\ exec' = exec \/ exec' = [exec EXCEPT ![r] = "start"]
        BY <1>5 DEF RunNow, Step
      <3>1. 0 \in 0 .. MaxEdits /\ NoTask \in Tasks \cup {NoTask}
        BY <1>2
      <3> QED
        BY <1>1, <3>1, InsertType
    <2>2. WorldTypeOK'
      BY <1>1, <1>2, <1>5 DEF RunNow, WorldTypeOK
    <2> QED
      BY <1>3, <1>5, <2>1, <2>2, StillType DEF RunNow, TypeInv, TypeOK, HeadsNamed
  <1>6. CASE ToggleWindow
    <2>1. WorldTypeOK'
      BY <1>1, <1>6 DEF ToggleWindow, budget, WorldTypeOK
    <2> QED
      BY <1>3, <1>6, <2>1, StillType DEF ToggleWindow, TypeInv, TypeOK, HeadsNamed
  <1>7. CASE Tick
    <2>1. LeaseTypeOK'
      BY <1>1, <1>2, <1>7 DEF Tick, LeaseTypeOK
    <2>2. RunTypeOK' /\ \A r \in Runs : exec'[r] = "release" => run'[r].task \in Tasks
      BY <1>1, <1>2, <1>7 DEF Tick, Older, RunTypeOK, HeadsNamed
    <2> QED
      BY <1>3, <1>7, <2>1, <2>2, StillType DEF Tick, TypeInv, TypeOK, HeadsNamed
  <1>8. CASE UNCHANGED vars
    BY <1>3, <1>8, StillType DEF vars, TypeInv, TypeOK, HeadsNamed
  <1> QED
    BY <1>4, <1>5, <1>6, <1>7, <1>8

LEMMA TypeInit == Init => TypeInv
  <1> SUFFICES ASSUME Init PROVE TypeInv
    OBVIOUS
  <1> USE SchedulerAssumption
  <1>1. /\ NoRun.kind \in Kinds /\ 0 \in 0 .. Stale + 1 /\ 0 \in 0 .. Lease
        /\ 0 \in 0 .. MaxEdits /\ 0 \in 0 .. MaxCalls /\ 0 \in 0 .. MaxFaults
        /\ 0 \in 0 .. MaxCrashes
    BY DEF SchedulerAssumption, Stale, NoRun
  <1>2. TaskTypeOK
    <2>1. DOMAIN line = {} /\ line \in Seq(Tasks)
      BY EmptySeq DEF Init
    <2> QED
      BY <1>1, <2>1 DEF Init, TaskTypeOK, LineOK
  <1>3. LeaseTypeOK /\ RunTypeOK /\ WorldTypeOK
    BY <1>1 DEF Init, LeaseTypeOK, RunTypeOK, NoRun, WorldTypeOK
  <1>4. LoopTypeOK
    BY <1>1, EmptyType DEF Init, LoopTypeOK, Unread
  <1> QED
    BY <1>2, <1>3, <1>4 DEF Init, TypeInv, TypeOK, HeadsNamed

LEMMA TypeNext == TypeInv /\ [Next]_vars => TypeInv'
  BY PassType, ExecType, AdminType, RestType DEF Next

\* Every row, lease and queue of the scheduler has its shape: in particular each due
\* task is in the line once, whatever edits, releases and passes do to it.
THEOREM TypeCorrect == Spec => []TypeOK
  <1>1. TypeInv => TypeOK
    BY DEF TypeInv
  <1> QED
    BY <1>1, TypeInit, TypeNext, PTL DEF Spec


-----------------------------------------------------------------------------
(* Leases. *)

\* No step leaves an owner with a task that is off, gone or not due.
LEMMA LeasedKept ==
    ASSUME TypeInv, LeasedIsDue, [Next]_vars
    PROVE  LeasedIsDue'
  <1> USE SchedulerAssumption
  <1>1. /\ TaskTypeOK /\ LeaseTypeOK /\ RunTypeOK /\ LoopTypeOK
        /\ \A i \in Instances : i # Nobody
    BY DEF TypeInv, TypeOK, SchedulerAssumption
  <1>2. ASSUME UNCHANGED <<mode, next, owner, left>> PROVE LeasedIsDue'
    BY <1>2 DEF LeasedIsDue
  <1>3. ASSUME NEW t \in Tasks, NEW i \in Instances \cup {Nobody},
               NEW when \in {"none", "later", "due"}, NEW v \in 0 .. MaxEdits,
               Release(t, i, when, v)
        PROVE  LeasedIsDue'
    <2>1. CASE owner[t] = i
      <3>1. /\ owner' = [owner EXCEPT ![t] = Nobody] /\ left' = [left EXCEPT ![t] = 0]
            /\ next' = [next EXCEPT ![t] = when] /\ UNCHANGED mode
        BY <1>3, <2>1 DEF Release, SetNext
      <3> QED
        BY <1>1, <3>1 DEF LeasedIsDue, TaskTypeOK, LeaseTypeOK
    <2>2. CASE owner[t] # i
      BY <1>2, <1>3, <2>2 DEF Release, task, lease
    <2> QED
      BY <2>1, <2>2
  <1>4. ASSUME NEW t \in Tasks, NEW i \in Instances, Claimable(t), TakeLease(t, i), UNCHANGED task
        PROVE  LeasedIsDue'
    BY <1>1, <1>4 DEF Claimable, TakeLease, LeasedIsDue, LeaseTypeOK, task
  <1>5. ASSUME NEW i \in Instances, PassStep(i) PROVE LeasedIsDue'
    <2>1. pc[i] \in {"back", "skip"} \/ todo[i] # <<>> => Head(todo[i]) \in Tasks
      BY <1>1, DropType DEF TypeInv, HeadsNamed
    <2>2. CASE \/ AbandonStale(i) \/ ReadUnscheduled(i) \/ ReadDue(i) \/ ReadTask(i)
               \/ StartRun(i) \/ EndPass(i)
      BY <1>2, <2>2 DEF AbandonStale, ReadUnscheduled, ReadDue, ReadTask, StartRun, EndPass,
         task, lease
    <2>3. CASE SetFirstRun(i)
      <3> DEFINE t == Head(todo[i])
      <3>1. /\ UNCHANGED lease /\ UNCHANGED mode
            /\ UNCHANGED next \/ (next[t] = "none" /\ \E w : next' = [next EXCEPT ![t] = w])
        BY <2>3 DEF SetFirstRun, SetNext, task
      <3> HIDE DEF t
      <3> QED
        BY <1>1, <3>1 DEF LeasedIsDue, lease, TaskTypeOK
    <2>4. CASE Claim(i)
      <3>1. \/ UNCHANGED <<task, lease>>
            \/ /\ Claimable(Head(todo[i])) /\ TakeLease(Head(todo[i]), i)
               /\ UNCHANGED task /\ Head(todo[i]) \in Tasks
        BY <2>1, <2>4 DEF Claim
      <3> QED
        BY <1>2, <1>4, <3>1 DEF task, lease
    <2>5. CASE SkipUnknown(i) \/ PutBack(i)
      <3>1. /\ Head(todo[i]) \in Tasks
            /\ nextVer \in [Tasks -> 0 .. MaxEdits] /\ back[i] \in {"none", "later", "due"}
            /\ seen[i] \in [Tasks -> 0 .. MaxEdits]
        BY <1>1, <2>1, <2>5 DEF SkipUnknown, PutBack, InPass, TaskTypeOK, LoopTypeOK
      <3> PICK when \in {"none", "later", "due"}, v \in 0 .. MaxEdits :
               Release(Head(todo[i]), i, when, v)
        BY <2>5, <3>1 DEF SkipUnknown, PutBack
      <3> QED
        BY <1>3, <3>1
    <2> QED
      BY <1>5, <2>2, <2>3, <2>4, <2>5 DEF PassStep
  <1>6. ASSUME NEW i \in Instances, PassFails(i) PROVE LeasedIsDue'
    <2>1. todo[i] # <<>> => Head(todo[i]) \in Tasks
      BY <1>1, DropType
    <2>2. /\ UNCHANGED task
          /\ \/ UNCHANGED lease
             \/ /\ todo[i] # <<>> /\ Claimable(Head(todo[i])) /\ TakeLease(Head(todo[i]), i)
      BY <1>6 DEF PassFails
    <2> QED
      BY <1>2, <1>4, <2>1, <2>2 DEF task, lease
  <1>7. ASSUME NEW r \in Runs, BeginWork(r) \/ Fence(r) \/ Beat(r) PROVE LeasedIsDue'
    <2>1. /\ UNCHANGED <<task, owner>>
          /\ UNCHANGED left \/ (Owned(r) /\ Renew(r))
      BY <1>7 DEF BeginWork, Fence, Beat, CheckOwnership
    <2>2. CASE Owned(r) /\ Renew(r)
      BY <1>1, <2>1, <2>2 DEF Owned, Renew, LeasedIsDue, task, SchedulerAssumption
    <2> QED
      BY <1>2, <2>1, <2>2 DEF task
  <1>8. ASSUME NEW r \in Runs, ReleaseLease(r) PROVE LeasedIsDue'
    <2>1. /\ run[r].task \in Tasks /\ run[r].inst \in Instances \cup {Nobody}
          /\ run[r].ver \in 0 .. MaxEdits
      BY <1>1, <1>8 DEF ReleaseLease, At, RunTypeOK, TypeInv, HeadsNamed
    <2>2. \/ UNCHANGED <<task, lease>>
          \/ Release(run[r].task, run[r].inst, "later", run[r].ver)
      BY <1>8 DEF ReleaseLease
    <2> QED
      BY <1>2, <1>3, <2>1, <2>2 DEF task, lease
  <1>9. ASSUME NEW r \in Runs,
               RecordResult(r) \/ RecordLoss(r) \/ EndWork(r) \/ Forget(r)
        PROVE  LeasedIsDue'
    BY <1>2, <1>9 DEF RecordResult, RecordLoss, RecordAs, EndWork, Forget, task, lease
  <1>10. ASSUME NEW t \in Tasks, UpdateTask(t) \/ DeleteTask(t) PROVE LeasedIsDue'
    <2>1. Revoke(t) /\ \A u \in Tasks \ {t} : mode'[u] = mode[u] /\ next'[u] = next[u]
      BY <1>1, <1>10 DEF UpdateTask, DeleteTask, SetNext, TaskTypeOK
    <2> QED
      BY <1>1, <2>1 DEF Revoke, LeasedIsDue, LeaseTypeOK
  <1>11. ASSUME NEW t \in Tasks, ComeDue(t) PROVE LeasedIsDue'
    BY <1>1, <1>11 DEF ComeDue, SetNext, LeasedIsDue, TaskTypeOK, lease
  <1>12. CASE Tick
    BY <1>1, <1>12 DEF Tick, LeasedIsDue, task, LeaseTypeOK
  <1>13. ASSUME \/ \E i \in Instances : Crash(i) \/ \E k \in Kinds : RunNow(i, k)
                \/ ToggleWindow \/ UNCHANGED vars
         PROVE  LeasedIsDue'
    BY <1>2, <1>13 DEF Crash, RunNow, ToggleWindow, vars, task, lease
  <1> QED
    BY <1>5, <1>6, <1>7, <1>8, <1>9, <1>10, <1>11, <1>12, <1>13 DEF Next, ExecStep

\* Whoever claims, releases, edits and crashes, a task under a lease is one that the
\* next pass still finds due: the holder can be replaced.
THEOREM LeaseOfDueTask == Spec => []LeasedIsDue
  <1>1. Init => LeasedIsDue
    BY DEF Init, LeasedIsDue
  <1>2. TypeInv /\ LeasedIsDue /\ [Next]_vars => LeasedIsDue'
    BY LeasedKept
  <1> QED
    BY <1>1, <1>2, TypeInit, TypeNext, PTL DEF Spec


-----------------------------------------------------------------------------
(* The promise about runs. *)

Stages == {"none", "waiting", "working", "done", "confirmed", "stopped"}

\* What the stages are, and where a step of one execution leaves them.
LEMMA StageIs ==
    ASSUME TypeInv
    PROVE  /\ StageOf \in [Runs -> Stages]
           /\ \A r \in Runs : StageOf[r] = Stage[exec[r]] /\ KindOf[r] = run[r].kind
           /\ KindOf \in [Runs -> Kinds]
  <1>1. \A point \in Points : Stage[point] \in Stages
    BY DEF Stage, Stages
  <1> QED
    BY <1>1 DEF TypeInv, TypeOK, RunTypeOK, StageOf, KindOf

LEMMA StageMoves ==
    ASSUME TypeInv, NEW r \in Runs, NEW to \in Points, exec' = [exec EXCEPT ![r] = to]
    PROVE  StageOf' = [StageOf EXCEPT ![r] = Stage[to]]
  BY DEF TypeInv, TypeOK, RunTypeOK, StageOf

\* A step that the promise does not see.
LEMMA Unseen ==
    ASSUME UNCHANGED <<status, run, exec>>
    PROVE  UNCHANGED Promise!vars
  BY DEF Promise!vars, KindOf, StageOf

\* The row of a new run.
LEMMA PromiseStart ==
    ASSUME TypeInv, NEW r \in Runs, NEW k \in Kinds, NEW t, NEW i, NEW v, KindFree(k),
           InsertRow(r, k, t, i, v),
           exec' = exec \/ exec' = [exec EXCEPT ![r] = "start"]
    PROVE  Promise!Next
  <1>1. /\ status[r] = "free" /\ exec[r] = "none"
        /\ status' = [status EXCEPT ![r] = "running"]
        /\ run' = [run EXCEPT ![r] = [kind |-> k, task |-> t, inst |-> i, ver |-> v]]
    BY DEF InsertRow
  <1>2. StageOf[r] = "none"
    BY <1>1, StageIs DEF Stage
  <1>3. KindOf' = [KindOf EXCEPT ![r] = k]
    BY <1>1 DEF TypeInv, TypeOK, RunTypeOK, KindOf
  <1>4. \E at \in {"waiting", "none"} : StageOf' = [StageOf EXCEPT ![r] = at]
    <2>1. CASE exec' = exec
      <3>1. StageOf' = StageOf
        BY <2>1 DEF StageOf
      <3> QED
        BY <1>2, <3>1, StageIs
    <2>2. CASE exec' = [exec EXCEPT ![r] = "start"]
      BY <2>2, StageMoves DEF Stage
    <2> QED
      BY <2>1, <2>2
  <1>5. Promise!Free(k)
    BY StageIs DEF Promise!Free, KindFree
  <1> QED
    BY <1>1, <1>2, <1>3, <1>4, <1>5 DEF Promise!Next, Promise!Start

\* An execution goes on, or is told to stop.
LEMMA PromiseCheck ==
    ASSUME TypeInv, NEW r \in Runs, BeginWork(r) \/ Beat(r) \/ Fence(r) \/ EndWork(r)
    PROVE  [Promise!Next]_(Promise!vars)
  <1>1. UNCHANGED <<status, run>> /\ UNCHANGED KindOf
    BY DEF BeginWork, Beat, Fence, EndWork, CheckOwnership, KindOf, rows
  <1>2. PICK from \in {"start", "work", "fence"}, to \in {"work", "fence", "record", "lost"} :
           /\ exec[r] = from /\ exec' = [exec EXCEPT ![r] = to]
           /\ \/ from = "start" /\ to = "work" /\ status[r] = "running"
              \/ from = "work" /\ to \in {"work", "fence"}
              \/ from = "fence" /\ to = "record" /\ status[r] = "running"
              \/ to = "lost"
    BY DEF BeginWork, Beat, Fence, EndWork, CheckOwnership, Owned, At, Step
  <1>3. StageOf[r] = Stage[from] /\ StageOf' = [StageOf EXCEPT ![r] = Stage[to]]
    BY <1>2, StageIs, StageMoves
  <1>4. CASE from = "work" /\ to = "work"
    <2>1. exec' = exec
      BY <1>2, <1>4 DEF TypeInv, TypeOK, RunTypeOK
    <2> QED
      BY <1>1, <2>1, Unseen
  <1>5. CASE from = "start" /\ to = "work" /\ status[r] = "running"
    BY <1>1, <1>3, <1>5 DEF Stage, Promise!Next, Promise!Enter, Promise!GoOn
  <1>6. CASE from = "work" /\ to = "fence"
    BY <1>1, <1>3, <1>6 DEF Stage, Promise!Next, Promise!Return, Promise!GoOn
  <1>7. CASE from = "fence" /\ to = "record" /\ status[r] = "running"
    BY <1>1, <1>3, <1>7 DEF Stage, Promise!Next, Promise!Confirm, Promise!GoOn
  <1>8. CASE to = "lost"
    <2>1. \E at \in {"waiting", "working", "done"} : Promise!GoOn(r, at, "stopped")
      BY <1>1, <1>3, <1>8 DEF Stage, Promise!GoOn
    <2> QED
      BY <2>1 DEF Promise!Next, Promise!Stop
  <1> QED
    BY <1>2, <1>4, <1>5, <1>6, <1>7, <1>8

\* An execution records how its run ended.
LEMMA PromiseRecord ==
    ASSUME TypeInv, NEW r \in Runs, RecordResult(r) \/ RecordLoss(r)
    PROVE  Promise!Next
  <1>1. UNCHANGED run /\ UNCHANGED KindOf
    BY DEF RecordResult, RecordLoss, RecordAs, KindOf
  <1>2. exec' = [exec EXCEPT ![r] = AfterResult(r)] /\ AfterResult(r) \in {"none", "release"}
    BY DEF RecordResult, RecordLoss, RecordAs, Step, AfterResult
  <1>3. StageOf' = [StageOf EXCEPT ![r] = "none"]
    BY <1>2, StageMoves DEF Stage
  <1>4. CASE RecordResult(r)
    <2>1. /\ exec[r] = "record"
          /\ \E result \in {"ok", "failed"} : Finish(r, result) \/ UNCHANGED status
      BY <1>4 DEF RecordResult, RecordAs, At
    <2>2. StageOf[r] = "confirmed"
      BY <2>1, StageIs DEF Stage
    <2> QED
      BY <1>1, <1>3, <2>1, <2>2 DEF Finish, Promise!Next, Promise!Report, Promise!Record
  <1>5. CASE RecordLoss(r)
    <2>1. exec[r] = "lost" /\ (Finish(r, "cancelled") \/ UNCHANGED status)
      BY <1>5 DEF RecordLoss, RecordAs, At
    <2>2. StageOf[r] = "stopped"
      BY <2>1, StageIs DEF Stage
    <2> QED
      BY <1>1, <1>3, <2>1, <2>2 DEF Finish, Promise!Next, Promise!Cancel, Promise!Record
  <1> QED
    BY <1>4, <1>5

LEMMA PromiseForget ==
    ASSUME TypeInv, NEW r \in Runs, Forget(r)
    PROVE  Promise!Next
  <1>1. /\ status[r] \in Ended /\ exec[r] = "none" /\ UNCHANGED exec
        /\ status' = [status EXCEPT ![r] = "free"] /\ run' = [run EXCEPT ![r] = NoRun]
    BY DEF Forget
  <1>2. NoRun.kind \in Kinds
    BY SchedulerAssumption DEF NoRun, SchedulerAssumption
  <1>3. KindOf' = [KindOf EXCEPT ![r] = NoRun.kind]
    BY <1>1 DEF TypeInv, TypeOK, RunTypeOK, KindOf
  <1>4. StageOf[r] = "none" /\ UNCHANGED StageOf
    BY <1>1, StageIs DEF Stage, StageOf
  <1> QED
    BY <1>1, <1>2, <1>3, <1>4 DEF Promise!Next, Promise!Forget, Promise!Ended

\* A process crashes with its executions.
LEMMA PromiseCrash ==
    ASSUME TypeInv, NEW i \in Instances, Crash(i)
    PROVE  Promise!Next
  <1> DEFINE gone == {r \in Runs : run[r].inst = i}
  <1>1. /\ UNCHANGED <<status, run>> /\ UNCHANGED KindOf
        /\ exec' = [r \in Runs |-> IF r \in gone THEN "none" ELSE exec[r]]
    BY DEF Crash, rows, KindOf
  <1>2. StageOf' = [r \in Runs |-> IF r \in gone THEN "none" ELSE StageOf[r]]
    BY <1>1, StageIs DEF StageOf, Stage
  <1>3. gone \in SUBSET Runs
    OBVIOUS
  <1> HIDE DEF gone
  <1> QED
    BY <1>1, <1>2, <1>3 DEF Promise!Next, Promise!Vanish

\* Nobody abandons a row whose code runs, while processes are prompt.
LEMMA PromiseAbandon ==
    ASSUME TypeInv, JobInv, NEW i \in Instances, AbandonStale(i)
    PROVE  Promise!Next
  <1>1. /\ UNCHANGED <<run, exec>> /\ UNCHANGED KindOf /\ UNCHANGED StageOf
        /\ status' = [r \in Runs |-> IF r \in SilentRuns THEN "abandoned" ELSE status[r]]
    BY DEF AbandonStale, KindOf, StageOf
  <1>2. SilentRuns \in SUBSET {r \in Runs : status[r] = "running"}
    BY DEF SilentRuns
  <1>3. Prompt => \A r \in SilentRuns : StageOf[r] # "working"
    <2>1. Stale \in Nat /\ Stale > 1
      BY SchedulerAssumption DEF Stale, SchedulerAssumption
    <2>2. Prompt => \A r \in SilentRuns : exec[r] # "work"
      BY <2>1 DEF JobInv, WorkIsFresh, SilentRuns
    <2>3. \A point \in Points : Stage[point] = "working" => point = "work"
      BY DEF Stage
    <2> QED
      BY <2>2, <2>3, StageIs DEF SilentRuns, TypeInv, TypeOK, RunTypeOK
  <1> QED
    BY <1>1, <1>2, <1>3 DEF Promise!Next, Promise!Abandon

LEMMA PromiseStep ==
    ASSUME TypeInv, JobInv, [Next]_vars
    PROVE  [Promise!Next]_(Promise!vars)
  <1>1. ASSUME NEW i \in Instances, PassStep(i) PROVE [Promise!Next]_(Promise!vars)
    <2>1. CASE AbandonStale(i)
      BY <2>1, PromiseAbandon
    <2>2. CASE \/ ReadUnscheduled(i) \/ SetFirstRun(i) \/ ReadDue(i) \/ Claim(i)
               \/ SkipUnknown(i) \/ ReadTask(i) \/ PutBack(i) \/ EndPass(i)
      BY <2>2, Unseen DEF ReadUnscheduled, SetFirstRun, ReadDue, Claim, SkipUnknown, ReadTask,
         PutBack, EndPass, rows
    <2>3. CASE StartRun(i)
      <3>1. CASE UNCHANGED <<rows, exec>>
        BY <3>1, Unseen DEF rows
      <3>2. ASSUME NEW r \in Runs, MayStart(Head(todo[i]), i),
                   StartRow(r, Kind[Head(todo[i])], Head(todo[i]), i, seen[i][Head(todo[i])])
            PROVE  Promise!Next
        <4>1. Kind[Head(todo[i])] \in Kinds
          BY <2>3, DropType, SchedulerAssumption
             DEF StartRun, InPass, TypeInv, TypeOK, HeadsNamed, SchedulerAssumption
        <4> QED
          BY <3>2, <4>1, PromiseStart DEF MayStart, StartRow
      <3> QED
        BY <2>3, <3>1, <3>2 DEF StartRun
    <2> QED
      BY <1>1, <2>1, <2>2, <2>3 DEF PassStep
  <1>2. ASSUME NEW i \in Instances, PassFails(i) PROVE [Promise!Next]_(Promise!vars)
    <2>1. UNCHANGED exec
      BY <1>2 DEF PassFails
    <2>2. CASE UNCHANGED rows
      BY <2>1, <2>2, Unseen DEF rows
    <2>3. ASSUME NEW r \in Runs, pc[i] = "start", MayStart(Head(todo[i]), i),
                 InsertRow(r, Kind[Head(todo[i])], Head(todo[i]), i, seen[i][Head(todo[i])])
          PROVE  Promise!Next
      <3>1. Kind[Head(todo[i])] \in Kinds
        BY <2>3, DropType, SchedulerAssumption
           DEF TypeInv, TypeOK, HeadsNamed, SchedulerAssumption
      <3> QED
        BY <2>1, <2>3, <3>1, PromiseStart DEF MayStart
    <2> QED
      BY <1>2, <2>2, <2>3 DEF PassFails
  <1>3. ASSUME NEW r \in Runs, ExecStep(r) \/ Beat(r) \/ EndWork(r) \/ Forget(r)
        PROVE  [Promise!Next]_(Promise!vars)
    <2>1. CASE ReleaseLease(r)
      <3>1. exec[r] = "release" /\ exec' = [exec EXCEPT ![r] = "none"] /\ UNCHANGED <<status, run>>
        BY <2>1 DEF ReleaseLease, At, Step, rows
      <3>2. StageOf[r] = "none" /\ StageOf' = [StageOf EXCEPT ![r] = "none"]
        <4>1. Stage["release"] = "none" /\ Stage["none"] = "none"
          BY DEF Stage
        <4>2. StageOf[r] = Stage["release"]
          BY <3>1, StageIs
        <4>3. StageOf' = [StageOf EXCEPT ![r] = Stage["none"]]
          BY <3>1, StageMoves DEF Points
        <4> QED
          BY <4>1, <4>2, <4>3
      <3>3. StageOf' = StageOf
        BY <3>2, StageIs
      <3>4. KindOf' = KindOf
        BY <3>1 DEF KindOf
      <3> QED
        BY <3>1, <3>3, <3>4 DEF Promise!vars
    <2> QED
      BY <1>3, <2>1, PromiseCheck, PromiseRecord, PromiseForget DEF ExecStep
  <1>4. ASSUME NEW i \in Instances, NEW k \in Kinds, RunNow(i, k) PROVE Promise!Next
    <2> PICK r \in Runs : /\ InsertRow(r, k, NoTask, i, 0)
                          /\ exec' = exec \/ exec' = [exec EXCEPT ![r] = "start"]
      BY <1>4 DEF RunNow, Step
    <2> QED
      BY <1>4, PromiseStart DEF RunNow
  <1>5. ASSUME NEW t \in Tasks, UpdateTask(t) \/ DeleteTask(t) \/ ComeDue(t)
        PROVE  UNCHANGED Promise!vars
    BY <1>5, Unseen DEF UpdateTask, DeleteTask, ComeDue, rows
  <1>6. CASE ToggleWindow \/ UNCHANGED vars
    BY <1>6, Unseen DEF ToggleWindow, vars, rows
  <1>7. CASE Tick
    BY <1>7, Unseen DEF Tick
  <1> QED
    BY <1>1, <1>2, <1>3, <1>4, <1>5, <1>6, <1>7, PromiseCrash DEF Next

\* What the tables, leases and heartbeats come to: a kind has one running row, its code
\* runs only for a row that was running when it began, a success or a failure is that
\* of a row whose ownership was confirmed after the code had ended, and prompt
\* processes never take working code for dead.
THEOREM SchedulerKeepsPromise == Spec => KeepsPromise
  <1>1. Init => Promise!Init
    <2> SUFFICES ASSUME Init PROVE Promise!Init
      OBVIOUS
    <2>1. TypeInv
      BY TypeInit
    <2>2. \A r \in Runs : StageOf[r] = "none"
      BY <2>1, StageIs DEF Init, Stage
    <2> QED
      BY <2>1, <2>2, StageIs DEF Init, Promise!Init
  <1>2. TypeInv /\ JobInv /\ [Next]_vars => [Promise!Next]_(Promise!vars)
    BY PromiseStep
  <1> QED
    BY <1>1, <1>2, TypeInit, TypeNext, JobInvariant, PTL DEF Spec, KeepsPromise, Promise!Spec

-----------------------------------------------------------------------------
(* What the promise is worth: what follows from JobPromise alone.            *)

\* The code of a kind runs once at a time.
WorksAlone ==
    \A r, q \in Runs : StageOf[r] = "working" /\ StageOf[q] = "working"
                       /\ KindOf[r] = KindOf[q] => r = q

\* Ends are final until the row is used again.
EndsHold == \A r \in Runs : status[r] \in Ended => status'[r] \in {status[r], "free"}

\* Inductive.
PromiseInv ==
    /\ DOMAIN status = Runs
    /\ \A r, q \in Runs :
          status[r] = "running" /\ status[q] = "running" /\ KindOf[r] = KindOf[q] => r = q
    /\ Prompt => \A r \in Runs : StageOf[r] = "working" => status[r] = "running"

LEMMA PromiseHolds ==
    ASSUME PromiseInv, [Promise!Next]_(Promise!vars)
    PROVE  PromiseInv' /\ (UNCHANGED status \/ EndsHold)
  <1>0. DOMAIN StageOf = Runs /\ DOMAIN KindOf = Runs
    BY DEF StageOf, KindOf
  <1>1. CASE UNCHANGED Promise!vars
    BY <1>1 DEF Promise!vars, PromiseInv
  <1>2. CASE Promise!Vanish
    BY <1>2 DEF Promise!Vanish, PromiseInv
  <1>3. CASE Promise!Abandon
    BY <1>3 DEF Promise!Abandon, PromiseInv, EndsHold
  <1>4. ASSUME NEW r \in Runs,
               Promise!Enter(r) \/ Promise!Return(r) \/ Promise!Confirm(r) \/ Promise!Stop(r)
        PROVE  PromiseInv' /\ UNCHANGED status
    <2>1. PICK to \in {"working", "done", "confirmed", "stopped"} :
             /\ StageOf' = [StageOf EXCEPT ![r] = to]
             /\ to = "working" => status[r] = "running"
             /\ UNCHANGED <<status, KindOf>>
      BY <1>4 DEF Promise!Enter, Promise!Return, Promise!Confirm, Promise!Stop, Promise!GoOn
    <2> QED
      BY <1>0, <2>1 DEF PromiseInv
  <1>5. ASSUME NEW r \in Runs, Promise!Report(r) \/ Promise!Cancel(r)
        PROVE  PromiseInv' /\ (UNCHANGED status \/ EndsHold)
    <2>1. /\ StageOf' = [StageOf EXCEPT ![r] = "none"] /\ UNCHANGED KindOf
          /\ \/ UNCHANGED status
             \/ /\ status[r] = "running"
                /\ \E result \in Ended : status' = [status EXCEPT ![r] = result]
      BY <1>5 DEF Promise!Report, Promise!Cancel, Promise!Record
    <2>2. StageOf[r] # "working"
      BY <1>5 DEF Promise!Report, Promise!Cancel, Promise!Record
    <2>3. PromiseInv'
      BY <1>0, <2>1, <2>2 DEF PromiseInv
    <2> QED
      BY <2>1, <2>3 DEF PromiseInv, EndsHold
  <1>6. ASSUME NEW r \in Runs, NEW k \in Kinds, Promise!Start(r, k)
        PROVE  PromiseInv' /\ EndsHold
    <2>1. PromiseInv'
      BY <1>0, <1>6 DEF Promise!Start, Promise!Free, PromiseInv
    <2> QED
      BY <1>6, <2>1 DEF Promise!Start, PromiseInv, EndsHold
  <1>7. ASSUME NEW r \in Runs, NEW k \in Kinds, Promise!Forget(r, k)
        PROVE  PromiseInv' /\ EndsHold
    <2>1. PromiseInv'
      BY <1>0, <1>7 DEF Promise!Forget, Promise!Ended, PromiseInv
    <2> QED
      BY <1>7, <2>1 DEF Promise!Forget, PromiseInv, EndsHold
  <1> QED
    BY <1>1, <1>2, <1>3, <1>4, <1>5, <1>6, <1>7 DEF Promise!Next

\* Whatever keeps JobPromise has one running row of a kind, never takes back how a
\* row ended, and while processes are prompt runs the code of a kind once at a time.
THEOREM PromiseIsSafe ==
    Promise!Spec => []OneRunPerKind /\ [](Prompt => WorksAlone) /\ EndedIsForever
  <1>1. Promise!Init => PromiseInv
    BY DEF Promise!Init, PromiseInv
  <1>2. PromiseInv => OneRunPerKind /\ (Prompt => WorksAlone)
    BY DEF PromiseInv, OneRunPerKind, WorksAlone, KindOf
  <1>3. PromiseInv /\ [Promise!Next]_(Promise!vars) => [EndsHold]_vars
    BY PromiseHolds DEF EndsHold, vars
  <1> QED
    BY <1>1, <1>2, <1>3, PromiseHolds, PTL DEF Promise!Spec, EndedIsForever, EndsHold
=============================================================================
