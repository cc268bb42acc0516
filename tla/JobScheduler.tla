---------------------------- MODULE JobScheduler ----------------------------
(***************************************************************************)
(* The job scheduler: the scheduled_task and job_run rows in the shared      *)
(* store, the scheduler loop of every process, and the executions that the   *)
(* loops and "Run now" spawn.                                                *)
(*                                                                          *)
(* A step is one store call with the local computation around it.  Any call  *)
(* may fail, a process may stall between any two steps and it may crash; a   *)
(* new process has a new instance name, so a crashed one never comes back.   *)
(*                                                                          *)
(* Time is what the store calls compare: how long a lease has left, how long *)
(* a run has been silent, and whether a next run has come.  A process reads  *)
(* its clock just before the call that uses it; a stall between the two only *)
(* makes its claims shorter and its takeovers later.                         *)
(***************************************************************************)
EXTENDS Naturals, Sequences, FiniteSets

CONSTANTS
    Tasks, NoTask,      \* scheduled tasks; a "Run now" belongs to none
    Kinds, Kind,        \* job kinds, and the kind of each task
    Instances, Nobody,  \* scheduler loops by instance name; no lease owner
    Runs,               \* job_run rows
    Knows,              \* the kinds each instance's build knows
    InWindow,           \* tasks that only run in a maintenance window
    Valid,              \* edits that leave a schedule and parameters that parse
    Lease,              \* length of a lease in ticks
    Prompt,             \* every live process acts and beats between two ticks
    MaxEdits,           \* bound: edits and deletions
    MaxCalls,           \* bound: "Run now" calls
    MaxFaults,          \* bound: failed store calls, and "Run now" calls cut off
    MaxCrashes,         \* bound: crashes
    MaxTogether         \* bound: crashes and "Run now" calls together

ASSUME SchedulerAssumption ==
    /\ NoTask \notin Tasks /\ Nobody \notin Instances
    /\ IsFiniteSet(Tasks) /\ Kinds # {}
    /\ Kind \in [Tasks -> Kinds]
    /\ Knows \in [Instances -> SUBSET Kinds]
    /\ InWindow \subseteq Tasks
    /\ Prompt \in BOOLEAN
    /\ Lease \in Nat \ {0}
    /\ {MaxEdits, MaxCalls, MaxFaults, MaxCrashes, MaxTogether} \subseteq Nat
    /\ Valid \subseteq 0 .. MaxEdits

VARIABLES
    mode,    \* a task is on, off or gone
    ver,     \* the edit its schedule and parameters come from
    next,    \* next_run_at: none, later or due
    nextVer, \* the edit whose schedule next_run_at was computed from
    line,    \* the due tasks in the order of their next_run_at
    owner,   \* lease_owner
    left,    \* how long the lease has left, 0 when it has expired
    status,  \* of each run; "free" stands for no row
    run,     \* kind, task, instance and parameters of each run
    silent,  \* how long ago the run's last heartbeat was
    exec,    \* where the execution of each run is
    pc,      \* where each scheduler loop is
    todo,    \* the tasks it still has to look at
    seen,    \* the edit of each task that it has read
    back,    \* the next_run_at it gives a lease back with
    alive,   \* processes that have not crashed
    window,  \* whether a global maintenance window is active
    edits, calls, faults, crashes

task   == <<mode, ver, next, nextVer, line>>
lease  == <<owner, left>>
rows   == <<status, run, silent>>
loop   == <<pc, todo, seen, back>>
budget == <<edits, calls, faults, crashes>>
vars   == <<task, lease, rows, exec, loop, alive, window, budget>>

Ended  == {"ok", "failed", "cancelled", "abandoned"}
Stale  == 3 * Lease   \* a run silent for longer is abandoned
Unread == [t \in Tasks |-> 0]
NoRun  == [kind |-> CHOOSE k \in Kinds : TRUE, task |-> NoTask, inst |-> Nobody, ver |-> 0]

\* The due tasks, each in one place.
LineOK ==
    /\ line \in Seq(Tasks)
    /\ \A t \in Tasks : next[t] = "due" <=> \E n \in DOMAIN line : line[n] = t
    /\ \A n, m \in DOMAIN line : line[n] = line[m] => n = m

TaskTypeOK ==
    /\ mode \in [Tasks -> {"on", "off", "gone"}]
    /\ ver \in [Tasks -> 0 .. MaxEdits] /\ nextVer \in [Tasks -> 0 .. MaxEdits]
    /\ next \in [Tasks -> {"none", "later", "due"}]
    /\ LineOK

LeaseTypeOK ==
    /\ owner \in [Tasks -> Instances \cup {Nobody}]
    /\ left \in [Tasks -> 0 .. Lease]

RunTypeOK ==
    /\ status \in [Runs -> Ended \cup {"free", "running"}]
    /\ run \in [Runs -> [kind : Kinds, task : Tasks \cup {NoTask},
                         inst : Instances \cup {Nobody}, ver : 0 .. MaxEdits]]
    /\ silent \in [Runs -> 0 .. Stale + 1]
    /\ exec \in [Runs -> {"none", "start", "work", "fence", "record", "lost", "release"}]

LoopTypeOK ==
    /\ pc \in [Instances -> {"idle", "first", "set", "due", "read", "start", "back", "skip"}]
    /\ todo \in [Instances -> Seq(Tasks)]
    /\ \A i \in Instances : Len(todo[i]) <= Cardinality(Tasks)
    /\ seen \in [Instances -> [Tasks -> 0 .. MaxEdits]]
    /\ back \in [Instances -> {"none", "later", "due"}]

WorldTypeOK ==
    /\ alive \in [Instances -> BOOLEAN] /\ window \in BOOLEAN
    /\ edits \in 0 .. MaxEdits /\ calls \in 0 .. MaxCalls
    /\ faults \in 0 .. MaxFaults /\ crashes \in 0 .. MaxCrashes

TypeOK == TaskTypeOK /\ LeaseTypeOK /\ RunTypeOK /\ LoopTypeOK /\ WorldTypeOK

Init ==
    /\ mode = [t \in Tasks |-> "on"]
    /\ ver = [t \in Tasks |-> 0] /\ nextVer = [t \in Tasks |-> 0]
    /\ next = [t \in Tasks |-> "none"] /\ line = <<>>
    /\ owner = [t \in Tasks |-> Nobody] /\ left = [t \in Tasks |-> 0]
    /\ status = [r \in Runs |-> "free"]
    /\ run = [r \in Runs |-> NoRun] /\ silent = [r \in Runs |-> 0]
    /\ exec = [r \in Runs |-> "none"]
    /\ pc = [i \in Instances |-> "idle"] /\ todo = [i \in Instances |-> <<>>]
    /\ seen = [i \in Instances |-> Unread]
    /\ back = [i \in Instances |-> "none"]
    /\ alive = [i \in Instances |-> TRUE] /\ window = TRUE
    /\ edits = 0 /\ calls = 0 /\ faults = 0 /\ crashes = 0

Fault   == faults < MaxFaults /\ faults' = faults + 1 /\ UNCHANGED <<edits, calls, crashes>>
NoFault == UNCHANGED budget

-----------------------------------------------------------------------------
(* The store. *)

\* The line when the task at place n has left it.
LeaveLine(n) == [m \in 1 .. Len(line) - 1 |-> IF m < n THEN line[m] ELSE line[m + 1]]

\* next_run_at of a task; a due task keeps its place in the order.
SetNext(t, when, v) ==
    /\ next' = [next EXCEPT ![t] = when]
    /\ nextVer' = [nextVer EXCEPT ![t] = v]
    /\ \/ when = "due" /\ next[t] = "due" /\ UNCHANGED line
       \/ when = "due" /\ next[t] # "due" /\ line' = Append(line, t)
       \/ when # "due" /\ next[t] # "due" /\ UNCHANGED line
       \/ when # "due" /\ \E n \in DOMAIN line : line[n] = t /\ line' = LeaveLine(n)

\* Slip: a lease that has expired is not up for a claim.
ClaimableNeverExpired(t) == mode[t] = "on" /\ next[t] = "due" /\ owner[t] = Nobody

\* claim_task_lease
Claimable(t) ==
    /\ mode[t] = "on" /\ next[t] = "due"
    /\ owner[t] = Nobody \/ left[t] = 0

\* Slip: a lease is taken for longer than its length.
TakeLeaseTooLong(t, i) ==
    /\ owner' = [owner EXCEPT ![t] = i]
    /\ left' = [left EXCEPT ![t] = 2 * Lease]

TakeLease(t, i) ==
    /\ owner' = [owner EXCEPT ![t] = i]
    /\ left' = [left EXCEPT ![t] = Lease]

\* release_task_lease: only the owner, which is an instance.
Release(t, i, when, v) ==
    IF owner[t] = i
    THEN /\ owner' = [owner EXCEPT ![t] = Nobody]
         /\ left' = [left EXCEPT ![t] = 0]
         /\ SetNext(t, when, v)
         /\ UNCHANGED <<mode, ver>>
    ELSE UNCHANGED <<task, lease>>

\* Slip: a second run of a kind may start.
KindFreeAlways(k) == TRUE

KindFree(k) == \A r \in Runs : ~(status[r] = "running" /\ run[r].kind = k)

\* start_job_run.  The lease is compared with the time of the claim, so it counts
\* as live for as long as the instance owns it.
MayStart(t, i) == KindFree(Kind[t]) /\ mode[t] = "on" /\ owner[t] = i

InsertRow(r, k, t, i, v) ==
    /\ status[r] = "free" /\ exec[r] = "none"
    /\ status' = [status EXCEPT ![r] = "running"]
    /\ run' = [run EXCEPT ![r] = [kind |-> k, task |-> t, inst |-> i, ver |-> v]]
    /\ silent' = [silent EXCEPT ![r] = 0]

StartRow(r, k, t, i, v) ==
    InsertRow(r, k, t, i, v) /\ exec' = [exec EXCEPT ![r] = "start"]

\* Slip: whoever finishes last writes the result.
FinishAnyway(r, result) == status' = [status EXCEPT ![r] = result]

\* finish_job_run: only a running run.
Finish(r, result) ==
    status' = IF status[r] = "running" THEN [status EXCEPT ![r] = result] ELSE status

\* renew_job_ownership: the run is running, and its task's lease is live.
Owned(r) ==
    LET t == run[r].task IN
    /\ status[r] = "running"
    /\ t # NoTask => owner[t] = run[r].inst /\ mode[t] = "on" /\ left[t] > 0

Renew(r) ==
    /\ silent' = [silent EXCEPT ![r] = 0]
    /\ left' = [t \in Tasks |-> IF t = run[r].task THEN Lease ELSE left[t]]

-----------------------------------------------------------------------------
(* One pass of a scheduler loop. *)

Move(i, point) == pc' = [pc EXCEPT ![i] = point]
InPass(i, point) == alive[i] /\ pc[i] = point
Drop(i) == todo' = [todo EXCEPT ![i] = Tail(@)]

\* Slip: runs are never abandoned.
SilentRunsNone == {}

\* Slip: every run that has not beaten just now is abandoned.
SilentRunsEager == {r \in Runs : status[r] = "running" /\ silent[r] > 0}

\* The runs whose heartbeat stopped.
SilentRuns == {r \in Runs : status[r] = "running" /\ silent[r] > Stale}

\* abandon_stale_job_runs, for each kind that has a running row.
AbandonStale(i) ==
    /\ InPass(i, "idle") /\ Move(i, "first")
    /\ status' = [r \in Runs |-> IF r \in SilentRuns THEN "abandoned" ELSE status[r]]
    /\ UNCHANGED <<task, lease, run, silent, exec, todo, seen, back, alive, window, budget>>

SeqsOf(S) == {q \in [1 .. Cardinality(S) -> S] : \A t \in S : \E n \in DOMAIN q : q[n] = t}

\* unscheduled_tasks
ReadUnscheduled(i) ==
    /\ InPass(i, "first") /\ Move(i, "set")
    /\ \E q \in SeqsOf({t \in Tasks : mode[t] = "on" /\ next[t] = "none"}) :
          todo' = [todo EXCEPT ![i] = q]
    /\ seen' = [seen EXCEPT ![i] = ver]
    /\ UNCHANGED <<task, lease, rows, exec, back, alive, window, budget>>

\* set_task_first_run: from the schedule that was read, while there is no next run.
SetFirstRun(i) ==
    /\ InPass(i, "set") /\ todo[i] # <<>> /\ Drop(i)
    /\ LET t == Head(todo[i]) IN
          IF seen[i][t] \in Valid /\ next[t] = "none" /\ mode[t] # "gone"
          THEN SetNext(t, "later", seen[i][t]) /\ UNCHANGED <<mode, ver>>
          ELSE UNCHANGED task
    /\ UNCHANGED <<lease, rows, exec, pc, seen, back, alive, window, budget>>

\* The order of the line, taken over by a part of it.
InLine(q) ==
    \A n, m \in DOMAIN line, k, l \in DOMAIN q :
        n < m /\ line[n] = q[k] /\ line[m] = q[l] => k < l

\* due_scheduled_tasks, by next_run_at.
ReadDue(i) ==
    /\ InPass(i, "set") /\ todo[i] = <<>> /\ Move(i, "due")
    /\ \E q \in SeqsOf({t \in Tasks : mode[t] = "on" /\ next[t] = "due"}) :
          InLine(q) /\ todo' = [todo EXCEPT ![i] = q]
    /\ seen' = [seen EXCEPT ![i] = ver]
    /\ UNCHANGED <<task, lease, rows, exec, back, alive, window, budget>>

Claim(i) ==
    /\ InPass(i, "due") /\ todo[i] # <<>>
    /\ LET t == Head(todo[i]) IN
       \/ /\ Claimable(t) /\ TakeLease(t, i)
          /\ Move(i, IF Kind[t] \in Knows[i] THEN "read" ELSE "skip")
          /\ UNCHANGED todo
       \/ ~Claimable(t) /\ Drop(i) /\ UNCHANGED <<pc, lease>>
    /\ UNCHANGED <<task, rows, exec, seen, back, alive, window, budget>>

\* A kind this build does not know: moved on, by the schedule of the due query.
SkipUnknown(i) ==
    /\ InPass(i, "skip") /\ Drop(i) /\ Move(i, "due")
    /\ LET t == Head(todo[i]) IN
          Release(t, i, IF seen[i][t] \in Valid THEN "later" ELSE "none", seen[i][t])
    /\ UNCHANGED <<rows, exec, seen, back, alive, window, budget>>

GiveBack(i, when) == Move(i, "back") /\ back' = [back EXCEPT ![i] = when] /\ UNCHANGED todo

\* get_scheduled_task, and what the claimed task says now.
ReadTask(i) ==
    /\ InPass(i, "read")
    /\ LET t == Head(todo[i]) IN
       /\ seen' = [seen EXCEPT ![i][t] = ver[t]]
       /\ \/ mode[t] = "gone" /\ Drop(i) /\ Move(i, "due") /\ UNCHANGED back
          \/ mode[t] # "gone" /\ ver[t] \notin Valid /\ GiveBack(i, "none")
          \/ /\ mode[t] # "gone" /\ ver[t] \in Valid /\ t \in InWindow /\ ~window
             /\ GiveBack(i, "later")
          \/ /\ mode[t] # "gone" /\ ver[t] \in Valid /\ (t \in InWindow => window)
             /\ Move(i, "start") /\ UNCHANGED <<back, todo>>
    /\ UNCHANGED <<task, lease, rows, exec, alive, window, budget>>

StartRun(i) ==
    /\ InPass(i, "start")
    /\ LET t == Head(todo[i]) IN
       \/ /\ MayStart(t, i) /\ Drop(i) /\ Move(i, "due") /\ UNCHANGED back
          /\ \E r \in Runs : StartRow(r, Kind[t], t, i, seen[i][t])
       \/ ~MayStart(t, i) /\ GiveBack(i, "due") /\ UNCHANGED <<rows, exec>>
    /\ UNCHANGED <<task, lease, seen, alive, window, budget>>

PutBack(i) ==
    /\ InPass(i, "back") /\ Drop(i) /\ Move(i, "due")
    /\ back' = [back EXCEPT ![i] = "none"]
    /\ LET t == Head(todo[i]) IN
          Release(t, i, back[i], IF back[i] = "due" THEN nextVer[t] ELSE seen[i][t])
    /\ UNCHANGED <<rows, exec, seen, alive, window, budget>>

\* What the pass has read is gone when it ends.
LeavePass(i) ==
    /\ Move(i, "idle") /\ todo' = [todo EXCEPT ![i] = <<>>]
    /\ seen' = [seen EXCEPT ![i] = Unread] /\ back' = [back EXCEPT ![i] = "none"]

EndPass(i) ==
    /\ InPass(i, "due") /\ todo[i] = <<>> /\ LeavePass(i)
    /\ UNCHANGED <<task, lease, rows, exec, alive, window, budget>>

\* A failed store call ends the pass.  A claim or a start may have been applied: the
\* lease, or a running row without an execution, stays until it is found expired.
PassFails(i) ==
    /\ alive[i] /\ pc[i] # "idle" /\ Fault /\ LeavePass(i)
    /\ \/ UNCHANGED <<lease, rows>>
       \/ pc[i] = "due" /\ todo[i] # <<>> /\ Claimable(Head(todo[i]))
          /\ TakeLease(Head(todo[i]), i) /\ UNCHANGED rows
       \/ pc[i] = "start" /\ MayStart(Head(todo[i]), i)
          /\ \E r \in Runs :
                InsertRow(r, Kind[Head(todo[i])], Head(todo[i]), i, seen[i][Head(todo[i])])
          /\ UNCHANGED lease
    /\ UNCHANGED <<task, exec, alive, window>>

-----------------------------------------------------------------------------
(* An execution. *)

At(r, point) == exec[r] = point
Step(r, point) == exec' = [exec EXCEPT ![r] = point]
AfterResult(r) == IF run[r].task = NoTask THEN "none" ELSE "release"

\* The ownership check before, during and after the work.  One that fails or is
\* late counts as lost, applied or not.
CheckOwnership(r, from, to) ==
    /\ At(r, from)
    /\ \/ Owned(r) /\ Renew(r) /\ NoFault /\ Step(r, to)
       \/ ~Owned(r) /\ NoFault /\ Step(r, "lost") /\ UNCHANGED <<silent, left>>
       \/ /\ Fault /\ Step(r, "lost")
          /\ (Owned(r) /\ Renew(r)) \/ UNCHANGED <<silent, left>>
    /\ UNCHANGED <<task, owner, status, run, loop, alive, window>>

BeginWork(r) == CheckOwnership(r, "start", "work")
Fence(r)     == CheckOwnership(r, "fence", "record")
Beat(r)      == CheckOwnership(r, "work",
                    IF run[r].task \in InWindow /\ ~window THEN "lost" ELSE "work")

\* Slip: a completion is taken for current without a check.
EndWorkUnchecked(r) ==
    /\ At(r, "work") /\ Step(r, "record")
    /\ UNCHANGED <<task, lease, rows, loop, alive, window, budget>>

\* The job's own code returns, fails or panics.
EndWork(r) ==
    /\ At(r, "work") /\ Step(r, "fence")
    /\ UNCHANGED <<task, lease, rows, loop, alive, window, budget>>

\* The status of a run, by an execution that has it fenced or has lost it.
RecordAs(r, from, results) ==
    /\ At(r, from)
    /\ \E result \in results : \/ Finish(r, result) /\ NoFault
                               \/ (Finish(r, result) \/ UNCHANGED status) /\ Fault
    /\ Step(r, AfterResult(r))
    /\ UNCHANGED <<task, lease, run, silent, loop, alive, window>>

RecordResult(r) == RecordAs(r, "record", {"ok", "failed"})
RecordLoss(r)   == RecordAs(r, "lost", {"cancelled"})

\* The lease goes back with the next run by the schedule the run was started with.
ReleaseLease(r) ==
    /\ At(r, "release") /\ Step(r, "none")
    /\ \/ Release(run[r].task, run[r].inst, "later", run[r].ver) /\ NoFault
       \/ UNCHANGED <<task, lease>> /\ Fault
    /\ UNCHANGED <<rows, loop, alive, window>>

\* A row nobody will look at again leaves the model.
Forget(r) ==
    /\ status[r] \in Ended /\ exec[r] = "none"
    /\ status' = [status EXCEPT ![r] = "free"]
    /\ run' = [run EXCEPT ![r] = NoRun] /\ silent' = [silent EXCEPT ![r] = 0]
    /\ UNCHANGED <<task, lease, exec, loop, alive, window, budget>>

-----------------------------------------------------------------------------
(* Administrators, time and failures. *)

\* A call that is dropped after the insert, or that never hears of it, leaves a
\* running row without an execution, as PassFails does.
RunNow(i, k) ==
    /\ alive[i] /\ k \in Knows[i] /\ KindFree(k)
    /\ calls < MaxCalls /\ calls + crashes < MaxTogether
    /\ calls' = calls + 1 /\ UNCHANGED <<edits, crashes>>
    /\ \E r \in Runs : /\ InsertRow(r, k, NoTask, i, 0)
                       /\ \/ Step(r, "start") /\ UNCHANGED faults
                          \/ UNCHANGED exec /\ faults < MaxFaults /\ faults' = faults + 1
    /\ UNCHANGED <<task, lease, loop, alive, window>>

Edit == edits < MaxEdits /\ edits' = edits + 1 /\ UNCHANGED <<calls, faults, crashes>>

\* Slip: an edit leaves the lease to its holder.
RevokeNothing(t) == UNCHANGED lease

Revoke(t) ==
    /\ owner' = [owner EXCEPT ![t] = Nobody]
    /\ left' = [left EXCEPT ![t] = 0]

\* update_scheduled_task revokes the lease.
UpdateTask(t) ==
    /\ mode[t] # "gone" /\ Edit /\ Revoke(t)
    /\ ver' = [ver EXCEPT ![t] = edits + 1]
    /\ \E m \in {"on", "off"}, when \in {"none", "later", "due"} :
          mode' = [mode EXCEPT ![t] = m] /\ SetNext(t, when, edits + 1)
    /\ UNCHANGED <<rows, exec, loop, alive, window>>

\* delete_scheduled_task
DeleteTask(t) ==
    /\ mode[t] # "gone" /\ Edit /\ Revoke(t)
    /\ mode' = [mode EXCEPT ![t] = "gone"]
    /\ SetNext(t, "none", nextVer[t]) /\ UNCHANGED ver
    /\ UNCHANGED <<rows, exec, loop, alive, window>>

\* Every live loop sleeps, every live execution waits for its work and has just
\* beaten.  Under Prompt time passes only here: a pass and a beat are short beside a
\* lease and the time to a next run.
InTime ==
    /\ \A i \in Instances : alive[i] => pc[i] = "idle"
    /\ \A r \in Runs : exec[r] # "none" => exec[r] = "work" /\ silent[r] = 0

ComeDue(t) ==
    /\ Prompt => InTime
    /\ next[t] = "later" /\ SetNext(t, "due", nextVer[t])
    /\ UNCHANGED <<mode, ver, lease, rows, exec, loop, alive, window, budget>>

ToggleWindow ==
    /\ InWindow # {} /\ window' = ~window
    /\ UNCHANGED <<task, lease, rows, exec, loop, alive, budget>>

Older(n, most) == IF n < most THEN n + 1 ELSE most

Tick ==
    /\ Prompt => InTime
    /\ left' = [t \in Tasks |-> IF left[t] > 0 THEN left[t] - 1 ELSE 0]
    /\ silent' = [r \in Runs |-> IF status[r] = "running" THEN Older(silent[r], Stale + 1) ELSE 0]
    /\ UNCHANGED <<task, owner, status, run, exec, loop, alive, window, budget>>

Crash(i) ==
    /\ alive[i] /\ crashes < MaxCrashes /\ calls + crashes < MaxTogether
    /\ crashes' = crashes + 1
    /\ alive' = [alive EXCEPT ![i] = FALSE]
    /\ LeavePass(i)
    /\ exec' = [r \in Runs |-> IF run[r].inst = i THEN "none" ELSE exec[r]]
    /\ UNCHANGED <<task, lease, rows, window, edits, calls, faults>>

-----------------------------------------------------------------------------
PassStep(i) ==
    \/ AbandonStale(i) \/ ReadUnscheduled(i) \/ SetFirstRun(i) \/ ReadDue(i) \/ Claim(i)
    \/ SkipUnknown(i) \/ ReadTask(i) \/ StartRun(i) \/ PutBack(i) \/ EndPass(i)

ExecStep(r) ==
    \/ BeginWork(r) \/ Fence(r) \/ RecordResult(r) \/ RecordLoss(r) \/ ReleaseLease(r)

Next ==
    \/ \E i \in Instances : PassStep(i) \/ PassFails(i) \/ Crash(i)
    \/ \E r \in Runs : ExecStep(r) \/ Beat(r) \/ EndWork(r) \/ Forget(r)
    \/ \E i \in Instances, k \in Kinds : RunNow(i, k)
    \/ \E t \in Tasks : UpdateTask(t) \/ DeleteTask(t) \/ ComeDue(t)
    \/ ToggleWindow \/ Tick

Spec == Init /\ [][Next]_vars

\* Live processes go on, the clock advances and the code of every job ends.
Fairness ==
    /\ Prompt => []<>InTime
    /\ SF_vars(Tick)
    /\ \A i \in Instances : WF_vars(PassStep(i))
    /\ \A r \in Runs : WF_vars(ExecStep(r) \/ Forget(r)) /\ WF_vars(EndWork(r))
    /\ \A t \in Tasks : SF_vars(ComeDue(t))

FairSpec == Spec /\ Fairness

-----------------------------------------------------------------------------
\* At most one run of a kind is running, whichever loops and calls race for it.
OneRunPerKind ==
    \A r, q \in Runs : /\ status[r] = "running" /\ status[q] = "running"
                       /\ run[r].kind = run[q].kind
                       => r = q

\* While live processes act and beat in time, the code of a kind never runs twice at
\* once, through crashes, failed calls, edits and takeovers.
ExclusiveWork ==
    Prompt => \A r, q \in Runs :
        exec[r] = "work" /\ exec[q] = "work" /\ run[r].kind = run[q].kind => r = q

\* A task under a lease is on and due, and a lease that runs has an owner: whatever
\* becomes of its holder, a later pass finds the task again.
LeasedIsDue ==
    \A t \in Tasks : /\ owner[t] # Nobody => mode[t] = "on" /\ next[t] = "due"
                     /\ left[t] > 0 => owner[t] # Nobody

\* A run that has ended keeps its status: an execution that comes back after its run
\* was abandoned does not turn it into a success.
EndedIsForever ==
    [][\A r \in Runs : status[r] \in Ended => status'[r] \in {status[r], "free"}]_vars

\* Nobody is left with the only running row of a kind: the run of a crashed process
\* is abandoned.
RunsEnd == \A r \in Runs : status[r] = "running" ~> status[r] # "running"

\* A due task gets its turn, although its holder crashed, calls failed or another
\* task of its kind comes due again and again.
DueIsServed ==
    \A t \in Tasks :
        mode[t] = "on" /\ next[t] = "due" ~>
            \/ mode[t] # "on" \/ next[t] # "due"
            \/ \E r \in Runs : run[r].task = t /\ exec[r] = "work"

\* A next run computed from an edited schedule is not replaced by one from an older
\* schedule (docs/deploy/scheduler-runtime.md).
EditedNextStays ==
    [][\A t \in Tasks : next[t] # "none" => nextVer'[t] >= nextVer[t]]_vars

(* The promise about runs (JobPromise): same rows, and what an execution may do. *)
Stage == [none |-> "none", start |-> "waiting", work |-> "working", fence |-> "done",
          record |-> "confirmed", lost |-> "stopped", release |-> "none"]

KindOf  == [r \in Runs |-> run[r].kind]
StageOf == [r \in Runs |-> Stage[exec[r]]]

Promise == INSTANCE JobPromise WITH kind <- KindOf, stage <- StageOf
KeepsPromise == Promise!Spec
=============================================================================
