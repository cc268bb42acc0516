------------------------------- MODULE Outbox -------------------------------
(***************************************************************************)
(* The outbox of the mail engine: the EmailSubmission rows in the shared    *)
(* store, the dispatcher task of every server process that scans them, and  *)
(* the JMAP requests that create, cancel, reschedule and release them.      *)
(*                                                                          *)
(* A step is the code between two points where another task can run: one    *)
(* store call together with the local computation up to the next one.  A    *)
(* store call may fail, and a failed write may have been applied.  A        *)
(* process may crash, a request may be dropped at any await, and the reply  *)
(* to the message data may be lost after the server accepted it.            *)
(*                                                                          *)
(* Not covered: the content of messages, recipients and policies (their     *)
(* refusals are the permanent outcome of Transmit), queue limits, the       *)
(* removal of rows with their account, and what filing writes elsewhere.    *)
(***************************************************************************)
EXTENDS Integers

CONSTANTS
    Subs,        \* submission ids (random tokens, never reused)
    NoSub,       \* a task that is at no submission
    Procs,       \* server processes that share one store
    Dispatchers, \* dispatcher tasks, at most one in a process
    Requests,    \* tasks that serve one JMAP request after another
    Home,        \* the process of each task
    Answering,   \* submissions whose outgoing server always answers in the end
    MaxAttempts, \* MAX_SUBMISSION_ATTEMPTS
    RetryBase,   \* RETRY_DELAY_BASE
    RetryCap,    \* RETRY_DELAY_CAP
    MaxHold,     \* longest undo window
    MaxTime,     \* bound: the clock stops here, later times are cut to it
    MaxFaults,   \* bound: failed store calls, rejected logins, dropped requests
    MaxCrashes,  \* bound: process crashes
    MaxRequests  \* bound: JMAP calls

Workers == Dispatchers \cup Requests

NoTime == -1     \* a NULL timestamp
NotFiled == -1   \* no onSuccess instructions have been applied

ASSUME WorkersAssumption ==
    /\ NoSub \notin Subs
    /\ Answering \subseteq Subs
    /\ Dispatchers \cap Requests = {}
    /\ Home \in [Workers -> Procs]
    /\ \A d, e \in Dispatchers : Home[d] = Home[e] => d = e

ASSUME BoundsAssumption ==
    /\ {MaxAttempts, RetryBase, RetryCap} \subseteq Nat \ {0}
    /\ {MaxHold, MaxTime, MaxFaults, MaxCrashes, MaxRequests} \subseteq Nat

VARIABLES
    status,    \* undo_status of each row; "sending" stands for sending:<token>
    claim,     \* the <token>, 0 when the row is not "sending"
    sched,     \* hold, send_at, hold_seconds, created_at, next_attempt_at, on_success
    attempts,  \* attempts that SMTP did not accept
    issued,    \* tokens drawn so far for each row (tokens are never drawn twice)
    copies,    \* how often the outgoing server has accepted the message
    now,       \* the clock every process reads
    inflight,  \* SENDS_IN_FLIGHT of each process
    accepted,  \* accepted_submissions of each process: row -> claim, 0 if absent
    connected, \* whether the process has a runtime for the account
    pc,        \* where each task is
    loc,       \* what each task has read
    pass,      \* the rows a dispatcher still has to look at in this pass
    faults, crashes, reqs, \* how much of the bounds is used
    filed,     \* the onSuccess instructions that were applied to each message
    refused    \* releases that were answered with an error by their own CAS

row     == <<status, claim, sched, attempts>>
world   == <<issued, copies, now>>
memory  == <<inflight, accepted, connected>>
tasks   == <<pc, loc, pass>>
budget  == <<faults, crashes, reqs>>
history == <<filed, refused>>
vars    == <<row, world, memory, tasks, budget, history>>

-----------------------------------------------------------------------------
(* Data. *)

Times    == 0 .. MaxTime
MaybeAt  == Times \cup {NoTime}

Schedule == [hold : BOOLEAN, sendAt : MaybeAt, holdSecs : 0 .. MaxHold,
             createdAt : Times, next : MaybeAt, instr : 0 .. MaxRequests]

Terminal == {"final", "canceled", "failed", "uncertain"}
Statuses == {"absent", "pending", "sending"} \cup Terminal

\* The points of a task that hold the in-process guard, and the others: an inline
\* send has let go of it when it comes to record what was not accepted.
Guarded   == {"load", "persist", "hold", "attempts", "instr", "claim",
              "smtp", "quit", "accept", "file", "finish"}
Unguarded == {"idle", "pass", "relset", "relcas", "enter", "report"}
Outcomes  == {"none", "transient", "permanent", "uncertain"}

NoSched == [hold |-> FALSE, sendAt |-> NoTime, holdSecs |-> 0, createdAt |-> 0,
            next |-> NoTime, instr |-> 0]
Blank   == [sub |-> NoSub, req |-> 0, inline |-> FALSE, clock |-> 0,
            seen |-> NoSched, tries |-> 0, claim |-> 0, outcome |-> "none"]
NoPass  == [phase |-> "none", todo |-> {}, clock |-> 0]

Locals == [sub : Subs \cup {NoSub}, req : 0 .. MaxRequests, inline : BOOLEAN,
           clock : Times, seen : Schedule, tries : Nat, claim : Nat,
           outcome : Outcomes]
Passes == [phase : {"none", "accepted", "pending"}, todo : SUBSET Subs, clock : Times]

RowTypeOK ==
    /\ status \in [Subs -> Statuses]
    /\ claim \in [Subs -> Nat]
    /\ sched \in [Subs -> Schedule]
    /\ attempts \in [Subs -> Nat]

WorldTypeOK ==
    /\ issued \in [Subs -> Nat]
    /\ copies \in [Subs -> Nat]
    /\ now \in Times

TaskTypeOK ==
    /\ pc \in [Workers -> Guarded \cup Unguarded]
    /\ loc \in [Workers -> Locals]
    /\ pass \in [Dispatchers -> Passes]
    /\ inflight \in [Procs -> SUBSET Subs]

MemoryTypeOK ==
    /\ accepted \in [Procs -> [Subs -> Nat]]
    /\ connected \in [Procs -> BOOLEAN]

BudgetTypeOK ==
    /\ faults \in 0 .. MaxFaults
    /\ crashes \in 0 .. MaxCrashes
    /\ reqs \in 0 .. MaxRequests

HistoryTypeOK ==
    /\ filed \in [Subs -> 0 .. MaxRequests \cup {NotFiled}]
    /\ refused \subseteq 0 .. MaxRequests

TypeOK ==
    /\ RowTypeOK /\ WorldTypeOK /\ TaskTypeOK
    /\ MemoryTypeOK /\ BudgetTypeOK /\ HistoryTypeOK

Lesser(a, b) == IF a <= b THEN a ELSE b

\* retry_delay: base, doubled for every attempt after the first, up to the cap.
RetryDelay(n) == Lesser(RetryBase * 2 ^ Lesser(n - 1, 16), RetryCap)

ASSUME DelayAssumption == \A n \in 1 .. MaxAttempts : RetryDelay(n) \in Nat

Later(t, d) == Lesser(t + d, MaxTime)

\* submission_is_due, the time half and the whole of it.
FireTime(sc) == IF sc.sendAt # NoTime THEN sc.sendAt
                                      ELSE Later(sc.createdAt, sc.holdSecs)
Due(sc, t) == ~sc.hold /\ t >= FireTime(sc)

-----------------------------------------------------------------------------
Init ==
    /\ status = [s \in Subs |-> "absent"]
    /\ claim = [s \in Subs |-> 0]
    /\ sched = [s \in Subs |-> NoSched]
    /\ attempts = [s \in Subs |-> 0]
    /\ issued = [s \in Subs |-> 0]
    /\ copies = [s \in Subs |-> 0]
    /\ now = 0
    /\ inflight = [p \in Procs |-> {}]
    /\ accepted = [p \in Procs |-> [s \in Subs |-> 0]]
    /\ connected = [p \in Procs |-> TRUE]
    /\ pc = [w \in Workers |-> "idle"]
    /\ loc = [w \in Workers |-> Blank]
    /\ pass = [d \in Dispatchers |-> NoPass]
    /\ faults = 0 /\ crashes = 0 /\ reqs = 0
    /\ filed = [s \in Subs |-> NotFiled]
    /\ refused = {}

(* Where a task goes next, and what it does with the in-process guard. *)

At(w, s, point) == pc[w] = point /\ loc[w].sub = s

Goto(w, point, l) ==
    /\ pc' = [pc EXCEPT ![w] = point]
    /\ loc' = [loc EXCEPT ![w] = l]

\* Slip: an early return that keeps the guard.
ReturnLeaking(w, s) ==
    /\ Goto(w, IF w \in Dispatchers THEN "pass" ELSE "idle", Blank)
    /\ UNCHANGED <<inflight, pass>>

\* Ok(_) from attempt_submission: the guard is dropped, a dispatcher goes on
\* with its pass and a request answers its client.
Return(w, s) ==
    /\ Goto(w, IF w \in Dispatchers THEN "pass" ELSE "idle", Blank)
    /\ inflight' = [inflight EXCEPT ![Home[w]] = @ \ {s}]
    /\ UNCHANGED pass

\* Err(_): the guard is dropped and the rest of a dispatcher's pass with it.
Abort(w, s) ==
    /\ Goto(w, "idle", Blank)
    /\ inflight' = [inflight EXCEPT ![Home[w]] = @ \ {s}]
    /\ pass' = [d \in Dispatchers |-> IF d = w THEN NoPass ELSE pass[d]]

\* The task goes on to the next point with the guard it has.
Proceed(w, point, l) == Goto(w, point, l) /\ UNCHANGED <<inflight, pass>>

Fault   == faults < MaxFaults /\ faults' = faults + 1 /\ UNCHANGED <<crashes, reqs>>
NoFault == UNCHANGED budget

Request == reqs < MaxRequests /\ reqs' = reqs + 1 /\ UNCHANGED <<faults, crashes>>

(* The conditional updates of the store. *)

Matches(s, c) == status[s] = "sending" /\ claim[s] = c

\* accept_submission_attempt
AcceptAttempt(s, c) ==
    IF Matches(s, c)
    THEN /\ status' = [status EXCEPT ![s] = "final"]
         /\ claim' = [claim EXCEPT ![s] = 0]
         /\ sched' = [sched EXCEPT ![s].next = NoTime]
         /\ UNCHANGED attempts
    ELSE UNCHANGED row

\* finish_submission_attempt
FinishAttempt(s, c, verdict, next) ==
    IF Matches(s, c)
    THEN /\ status' = [status EXCEPT ![s] = verdict]
         /\ claim' = [claim EXCEPT ![s] = 0]
         /\ sched' = [sched EXCEPT ![s].next = next]
         /\ attempts' = [attempts EXCEPT ![s] = @ + 1]
    ELSE UNCHANGED row

-----------------------------------------------------------------------------
(* The dispatcher: fire_due_submissions. *)

\* Slip: the pass only scans pending rows, and an accepted row is not pending.
KnownNone(d) == {}

\* The rows whose acceptance this process could not record.
KnownAccepted(d) == {s \in Subs : accepted[Home[d]][s] # 0}

\* A pass starts with the rows this process knows SMTP has accepted.
StartPass(d) ==
    /\ pc[d] = "idle"
    /\ pc' = [pc EXCEPT ![d] = "pass"]
    /\ pass' = [pass EXCEPT ![d] =
          [phase |-> "accepted", clock |-> now, todo |-> KnownAccepted(d)]]
    /\ UNCHANGED <<row, world, memory, loc, budget, history>>

\* ... and goes on with a scan of the pending rows whose time has come.  The
\* scan does not see holds.
Scan(d) ==
    /\ pc[d] = "pass" /\ pass[d].phase = "accepted" /\ pass[d].todo = {}
    /\ \/ /\ pass' = [pass EXCEPT ![d].phase = "pending",
                 ![d].todo = {s \in Subs : /\ status[s] = "pending"
                                           /\ pass[d].clock >= FireTime(sched[s])}]
          /\ NoFault /\ UNCHANGED pc
       \/ /\ Fault
          /\ pass' = [pass EXCEPT ![d] = NoPass]
          /\ pc' = [pc EXCEPT ![d] = "idle"]
    /\ UNCHANGED <<row, world, memory, loc, history>>

EndPass(d) ==
    /\ pc[d] = "pass" /\ pass[d].phase = "pending" /\ pass[d].todo = {}
    /\ pc' = [pc EXCEPT ![d] = "idle"]
    /\ pass' = [pass EXCEPT ![d] = NoPass]
    /\ UNCHANGED <<row, world, memory, loc, budget, history>>

\* The next row of the pass, oldest first in the scan.  A row another task of
\* the process is sending is passed over.
Take(d, s) ==
    /\ pc[d] = "pass" /\ s \in pass[d].todo
    /\ pass[d].phase = "pending" =>
          \A u \in pass[d].todo : sched[s].createdAt <= sched[u].createdAt
    /\ pass' = [pass EXCEPT ![d].todo = @ \ {s}]
    /\ \/ s \in inflight[Home[d]] /\ UNCHANGED <<pc, loc, inflight>>
       \/ /\ s \notin inflight[Home[d]]
          /\ inflight' = [inflight EXCEPT ![Home[d]] = @ \cup {s}]
          /\ Goto(d, "load", [Blank EXCEPT !.sub = s, !.clock = pass[d].clock])
    /\ UNCHANGED <<row, world, accepted, connected, budget, history>>

-----------------------------------------------------------------------------
(* attempt_submission, from the guard to the claim. *)

\* get_submission, then the acceptance this process may already know of.
LoadRow(w, s) ==
    /\ At(w, s, "load")
    /\ LET known == accepted[Home[w]][s] # 0 IN
       \/ Fault /\ Abort(w, s)
       \/ known /\ NoFault /\ Proceed(w, "persist", loc[w])
       \/ ~known /\ status[s] # "pending" /\ NoFault /\ Return(w, s)
       \/ /\ ~known /\ status[s] = "pending" /\ NoFault
          /\ Proceed(w, "hold", [loc[w] EXCEPT !.seen =
                [sched[s] EXCEPT !.hold = FALSE, !.next = NoTime, !.instr = 0]])
    /\ UNCHANGED <<row, world, accepted, connected, history>>

\* Only the record of the acceptance is retried, never the send.  A failed
\* record_change after a recorded acceptance ends the pass.
PersistAccepted(w, s) ==
    /\ At(w, s, "persist")
    /\ LET c == accepted[Home[w]][s] IN
       \/ /\ AcceptAttempt(s, c)
          /\ accepted' = [accepted EXCEPT ![Home[w]][s] = 0]
          /\ \/ NoFault /\ Return(w, s)
             \/ Matches(s, c) /\ Fault /\ Abort(w, s)
       \/ /\ AcceptAttempt(s, c) \/ UNCHANGED row
          /\ Fault /\ Return(w, s) /\ UNCHANGED accepted
    /\ UNCHANGED <<world, connected, history>>

\* get_submission_hold and the whole due check on what was read.
ReadHold(w, s) ==
    /\ At(w, s, "hold")
    /\ LET due == Due([loc[w].seen EXCEPT !.hold = sched[s].hold], loc[w].clock) IN
       \/ Fault /\ Abort(w, s)
       \/ ~due /\ NoFault /\ Return(w, s)
       \/ due /\ NoFault /\ Proceed(w, "attempts", loc[w])
    /\ UNCHANGED <<row, world, accepted, connected, history>>

InBackoff(next, clock) == next # NoTime /\ clock < next

\* runtime, get_submission_attempts and the backoff check.
ReadAttempts(w, s) ==
    /\ At(w, s, "attempts")
    /\ LET next == sched[s].next
           backoff == InBackoff(next, loc[w].clock)
       IN
       \/ connected[Home[w]] /\ Fault /\ Abort(w, s)
       \/ (~connected[Home[w]] \/ backoff) /\ NoFault /\ Return(w, s)
       \/ /\ connected[Home[w]] /\ ~backoff /\ NoFault
          /\ Proceed(w, "instr", [loc[w] EXCEPT !.seen.next = next,
                                                !.tries = attempts[s]])
    /\ UNCHANGED <<row, world, accepted, connected, history>>

\* send_submission reads what to do at send time.  A failed read is NotSent
\* without a claim: the row is left as it is.
ReadInstructions(w, s) ==
    /\ At(w, s, "instr")
    /\ \/ Fault /\ Return(w, s)
       \/ NoFault /\ Proceed(w, "claim", [loc[w] EXCEPT !.seen.instr = sched[s].instr])
    /\ UNCHANGED <<row, world, accepted, connected, history>>

\* Slips: the claim compares the status alone, the schedule alone, or lets an
\* attempt take over a row that is being sent.
ClaimableByStatus(w, s) == status[s] = "pending" /\ ~sched[s].hold
ClaimableBySchedule(w, s) == sched[s] = loc[w].seen
ClaimableTaken(w, s) == status[s] \in {"pending", "sending"} /\ sched[s] = loc[w].seen

\* claim_submission_attempt: the row must be pending, not held, and as it was
\* read.  The claim of a failed call may have been applied: nobody owns it.
Claimable(w, s) == status[s] = "pending" /\ sched[s] = loc[w].seen

PutClaim(s) ==
    /\ status' = [status EXCEPT ![s] = "sending"]
    /\ claim' = [claim EXCEPT ![s] = issued[s] + 1]
    /\ issued' = [issued EXCEPT ![s] = @ + 1]
    /\ UNCHANGED <<sched, attempts>>

ClaimAttempt(w, s) ==
    /\ At(w, s, "claim")
    /\ \/ /\ Claimable(w, s) /\ PutClaim(s) /\ NoFault
          /\ Proceed(w, "smtp", [loc[w] EXCEPT !.claim = issued[s] + 1])
       \/ Claimable(w, s) /\ PutClaim(s) /\ Fault /\ Return(w, s)
       \/ UNCHANGED <<row, issued>> /\ Fault /\ Return(w, s)
       \/ ~Claimable(w, s) /\ UNCHANGED <<row, issued>> /\ NoFault /\ Return(w, s)
    /\ UNCHANGED <<copies, now, accepted, connected, history>>

-----------------------------------------------------------------------------
(* transmit_draft: the message is with the account's submitter. *)

\* What a submission can come back with: accepted by the server; the final
\* reply lost, with or without an acceptance; or nothing accepted, which covers
\* every check before the dialogue and a refusal of all recipients.
Accepted(w, s) ==
    /\ copies' = [copies EXCEPT ![s] = @ + 1]
    /\ Proceed(w, "quit", loc[w])

\* send_submission returns: an inline send drops the guard before it records.
NotSent(w, s, o) ==
    LET l == [loc[w] EXCEPT !.outcome = o] IN
    IF l.inline
    THEN /\ Goto(w, "report", l)
         /\ inflight' = [inflight EXCEPT ![Home[w]] = @ \ {s}]
         /\ UNCHANGED pass
    ELSE Proceed(w, "finish", l)

ReplyLost(w, s) ==
    /\ copies' \in {copies, [copies EXCEPT ![s] = @ + 1]}
    /\ NotSent(w, s, "uncertain")

\* Slip: an Ok that lists no accepted recipient is taken for a delivery.
NotAcceptedAsSent(w, s) == UNCHANGED copies /\ Proceed(w, "quit", loc[w])

NotAccepted(w, s) ==
    /\ UNCHANGED copies
    /\ \E o \in {"transient", "permanent"} : NotSent(w, s, o)

Transmit(w, s) ==
    /\ At(w, s, "smtp")
    /\ Accepted(w, s) \/ ReplyLost(w, s) \/ NotAccepted(w, s)
    /\ UNCHANGED <<row, issued, now, accepted, connected, budget, history>>

\* Connection::quit waits for the reply to QUIT, without a deadline, before the
\* acceptance is returned; whether it comes or the connection ends is the same.
Quit(w, s) ==
    /\ At(w, s, "quit")
    /\ Proceed(w, "accept", loc[w])
    /\ UNCHANGED <<row, world, accepted, connected, budget, history>>

\* Rejected credentials are permanent and take the account's runtime away.
RejectAuth(w, s) ==
    /\ At(w, s, "smtp") /\ Fault
    /\ connected' = [connected EXCEPT ![Home[w]] = FALSE]
    /\ NotSent(w, s, "permanent")
    /\ UNCHANGED <<row, world, accepted, history>>

\* record_delivered: when all three writes fail the claim is kept in memory.
RecordDelivered(w, s) ==
    /\ At(w, s, "accept")
    /\ \/ NoFault /\ AcceptAttempt(s, loc[w].claim) /\ UNCHANGED accepted
       \/ /\ Fault /\ (AcceptAttempt(s, loc[w].claim) \/ UNCHANGED row)
          /\ accepted' = [accepted EXCEPT ![Home[w]][s] = loc[w].claim]
    /\ Proceed(w, "file", loc[w])
    /\ UNCHANGED <<world, connected, history>>

\* file_after_send, with the instructions read before the claim.
FileAfterSend(w, s) ==
    /\ At(w, s, "file")
    /\ filed' = [filed EXCEPT ![s] = loc[w].seen.instr]
    /\ Return(w, s)
    /\ UNCHANGED <<row, world, accepted, connected, budget, refused>>

\* Slips: the limit is off by one, an uncertain attempt counts as a transient or
\* as a definite failure, a retry is written with a status nobody scans for.
VerdictOffByOne(l) ==
    IF l.outcome = "uncertain" THEN "uncertain"
    ELSE IF l.inline \/ l.outcome = "permanent" \/ l.tries >= MaxAttempts
         THEN "failed" ELSE "pending"
VerdictRetriesDoubt(l) ==
    IF l.inline \/ l.outcome = "permanent" \/ l.tries + 1 >= MaxAttempts
    THEN "failed" ELSE "pending"
VerdictFailsDoubt(l) ==
    IF l.inline \/ l.outcome # "transient" \/ l.tries + 1 >= MaxAttempts
    THEN "failed" ELSE "pending"
VerdictDeferred(l) == IF l.outcome = "transient" THEN "deferred" ELSE "failed"

\* An attempt SMTP did not accept.  An inline send is never retried.
Verdict(l) ==
    IF l.outcome = "uncertain" THEN "uncertain"
    ELSE IF l.inline \/ l.outcome = "permanent" \/ l.tries + 1 >= MaxAttempts
         THEN "failed" ELSE "pending"

NextAttempt(l) == IF Verdict(l) = "pending"
                  THEN Later(l.clock, RetryDelay(l.tries + 1)) ELSE NoTime

FinishNotSent(w, s) ==
    FinishAttempt(s, loc[w].claim, Verdict(loc[w]), NextAttempt(loc[w]))

RecordNotSent(w, s) ==
    /\ At(w, s, "finish")
    /\ \/ FinishNotSent(w, s) /\ NoFault /\ Return(w, s)
       \/ (FinishNotSent(w, s) \/ UNCHANGED row) /\ Fault /\ Abort(w, s)
    /\ UNCHANGED <<world, accepted, connected, history>>

\* The same for an inline send, without the guard.
RecordInline(w, s) ==
    /\ At(w, s, "report")
    /\ \/ FinishNotSent(w, s) /\ NoFault
       \/ (FinishNotSent(w, s) \/ UNCHANGED row) /\ Fault
    /\ Proceed(w, "idle", Blank)
    /\ UNCHANGED <<world, accepted, connected, history>>

-----------------------------------------------------------------------------
(* EmailSubmission/set. *)

Insert(s, sc) ==
    /\ status' = [status EXCEPT ![s] = "pending"]
    /\ sched' = [sched EXCEPT ![s] = sc]
    /\ UNCHANGED <<claim, attempts>>

\* enqueue_submission of a message nothing delays: the guard is taken before
\* the row exists and the message is sent inside the call.
CreateInline(w, s) ==
    /\ pc[w] = "idle" /\ status[s] = "absent" /\ connected[Home[w]] /\ Request
    /\ \E at \in {NoTime, now} :
         LET sc == [NoSched EXCEPT !.sendAt = at, !.createdAt = now] IN
         /\ Insert(s, sc)
         /\ Goto(w, "instr", [Blank EXCEPT !.sub = s, !.inline = TRUE,
                                           !.clock = now, !.seen = sc])
    /\ inflight' = [inflight EXCEPT ![Home[w]] = @ \cup {s}]
    /\ UNCHANGED <<world, accepted, connected, pass, history>>

\* enqueue_submission of a held, delayed or scheduled message.
CreateWaiting(w, s) ==
    /\ pc[w] = "idle" /\ status[s] = "absent" /\ connected[Home[w]] /\ Request
    /\ \E hold \in BOOLEAN, secs \in 0 .. MaxHold, at \in MaybeAt :
         /\ at = NoTime \/ at >= now
         /\ hold \/ secs > 0 \/ at > now
         /\ Insert(s, [NoSched EXCEPT !.hold = hold, !.sendAt = at,
                                      !.holdSecs = secs, !.createdAt = now])
    /\ UNCHANGED <<world, memory, tasks, history>>

\* Slips: a request that comes while the row is being sent is still granted.
RecallableLate(s) == status[s] \in {"pending", "sending"}
MovableLate(s) == status[s] \in {"pending", "sending"} /\ ~sched[s].hold

Recallable(s) == status[s] = "pending"
Movable(s) == status[s] = "pending" /\ ~sched[s].hold

\* cancel_submission: compare-and-set from pending.
Cancel(w, s) ==
    /\ pc[w] = "idle" /\ Recallable(s) /\ Request
    /\ status' = [status EXCEPT ![s] = "canceled"]
    /\ UNCHANGED <<claim, sched, attempts, world, memory, tasks, history>>

\* reschedule_submission: pending, not held, and (ifSendAt) not moved since.
Reschedule(w, s) ==
    /\ pc[w] = "idle" /\ Movable(s) /\ Request
    /\ \E at \in now .. MaxTime :
         sched' = [sched EXCEPT ![s].sendAt = at, ![s].holdSecs = 0,
                                ![s].next = NoTime]
    /\ UNCHANGED <<status, claim, attempts, world, memory, tasks, history>>

\* release_submission reads the row, and may replace its instructions.
StartRelease(w, s) ==
    /\ pc[w] = "idle" /\ status[s] = "pending" /\ Request
    /\ \E point \in {"relset", "relcas"} :
          Goto(w, point, [Blank EXCEPT !.sub = s, !.req = reqs + 1])
    /\ UNCHANGED <<row, world, memory, pass, history>>

\* set_submission_on_success asks nothing of the row.
SetInstructions(w, s) ==
    /\ At(w, s, "relset")
    /\ sched' = [sched EXCEPT ![s].instr = loc[w].req]
    /\ Goto(w, "relcas", loc[w])
    /\ UNCHANGED <<status, claim, attempts, world, memory, pass, budget, history>>

\* Compare-and-set from pending: hold, schedule, undo window and backoff go.
ReleaseRow(w, s) ==
    /\ At(w, s, "relcas")
    /\ \/ /\ status[s] = "pending"
          /\ sched' = [sched EXCEPT ![s].hold = FALSE, ![s].sendAt = NoTime,
                                    ![s].holdSecs = 0, ![s].next = NoTime]
          /\ Goto(w, "enter", loc[w]) /\ UNCHANGED refused
       \/ /\ status[s] # "pending" /\ UNCHANGED sched
          /\ refused' = refused \cup {loc[w].req}
          /\ Goto(w, "idle", Blank)
    /\ UNCHANGED <<status, claim, attempts, world, memory, pass, budget, filed>>

\* ... and the released row is attempted in the same call.
AttemptReleased(w, s) ==
    /\ At(w, s, "enter")
    /\ \/ /\ s \in inflight[Home[w]]
          /\ Goto(w, "idle", Blank) /\ UNCHANGED inflight
       \/ /\ s \notin inflight[Home[w]]
          /\ inflight' = [inflight EXCEPT ![Home[w]] = @ \cup {s}]
          /\ Goto(w, "load", [Blank EXCEPT !.sub = s, !.clock = now])
    /\ UNCHANGED <<row, world, accepted, connected, pass, budget, history>>

-----------------------------------------------------------------------------
(* What may happen to a task and to a process. *)

\* A request ends at an await: a store call outside the steps above failed, or
\* the client went away and the server dropped the call.  Its guard goes too.
DropRequest(w) ==
    /\ pc[w] # "idle" /\ Fault
    /\ Goto(w, "idle", Blank)
    /\ inflight' = [inflight EXCEPT ![Home[w]] =
                       IF pc[w] \in Guarded THEN @ \ {loc[w].sub} ELSE @]
    /\ UNCHANGED <<row, world, accepted, connected, pass, history>>

\* Everything but the store is lost, and the account is not connected.
Crash(p) ==
    /\ crashes < MaxCrashes /\ crashes' = crashes + 1
    /\ pc' = [w \in Workers |-> IF Home[w] = p THEN "idle" ELSE pc[w]]
    /\ loc' = [w \in Workers |-> IF Home[w] = p THEN Blank ELSE loc[w]]
    /\ pass' = [d \in Dispatchers |-> IF Home[d] = p THEN NoPass ELSE pass[d]]
    /\ inflight' = [inflight EXCEPT ![p] = {}]
    /\ accepted' = [accepted EXCEPT ![p] = [s \in Subs |-> 0]]
    /\ connected' = [connected EXCEPT ![p] = FALSE]
    /\ UNCHANGED <<row, world, faults, reqs, history>>

\* register_stored_accounts after a start, or the next login.
Connect(p) ==
    /\ ~connected[p]
    /\ connected' = [connected EXCEPT ![p] = TRUE]
    /\ UNCHANGED <<row, world, inflight, accepted, tasks, budget, history>>

Tick ==
    /\ now < MaxTime /\ now' = now + 1
    /\ UNCHANGED <<row, issued, copies, memory, tasks, budget, history>>

-----------------------------------------------------------------------------
\* An attempt waits for the outgoing server, which no deadline limits ...
ServerAnswers(w, s) == Transmit(w, s) \/ RejectAuth(w, s) \/ Quit(w, s)

\* ... and is otherwise up to the process and its store.
Attempt(w, s) ==
    \/ LoadRow(w, s) \/ PersistAccepted(w, s) \/ ReadHold(w, s)
    \/ ReadAttempts(w, s) \/ ReadInstructions(w, s) \/ ClaimAttempt(w, s)
    \/ RecordDelivered(w, s) \/ FileAfterSend(w, s) \/ RecordNotSent(w, s)
    \/ RecordInline(w, s)

DispatcherStep(d) ==
    \/ StartPass(d) \/ Scan(d) \/ EndPass(d)
    \/ \E s \in Subs : Take(d, s) \/ Attempt(d, s)

\* What a request does once it has started.
RequestStep(w) ==
    \E s \in Subs : \/ Attempt(w, s) \/ SetInstructions(w, s)
                    \/ ReleaseRow(w, s) \/ AttemptReleased(w, s)

\* What a client may ask for.
ClientCall(w) ==
    \E s \in Subs : \/ CreateInline(w, s) \/ CreateWaiting(w, s) \/ Cancel(w, s)
                    \/ Reschedule(w, s) \/ StartRelease(w, s)

Next ==
    \/ \E d \in Dispatchers : DispatcherStep(d)
    \/ \E w \in Requests : RequestStep(w) \/ ClientCall(w) \/ DropRequest(w)
    \/ \E w \in Workers, s \in Subs : ServerAnswers(w, s)
    \/ \E p \in Procs : Crash(p) \/ Connect(p)
    \/ Tick

Spec == Init /\ [][Next]_vars

\* The runtime polls every task that can go on, the clock advances, and the
\* servers that answer do.  No client has to call, no account has to be connected
\* again, and a server outside Answering may keep a connection open in silence.
Fairness ==
    /\ WF_vars(Tick)
    /\ \A d \in Dispatchers : WF_vars(DispatcherStep(d))
    /\ \A w \in Requests : WF_vars(RequestStep(w))
    /\ \A w \in Workers, s \in Answering : WF_vars(ServerAnswers(w, s))

FairSpec == Spec /\ Fairness

-----------------------------------------------------------------------------
(* Safety. *)

\* However many processes, crashes, lost replies and failed writes there are,
\* the outgoing server never accepts one submission twice.
AtMostOneCopy == \A s \in Subs : copies[s] <= 1

\* What the outbox reports as waiting, recalled or failed has not left: a
\* recall that was granted is never overtaken by a send, and a retry or a
\* failure is never reported for a message that was accepted.
UnsentHasNoCopy ==
    \A s \in Subs :
        status[s] \in {"absent", "pending", "canceled", "failed"} => copies[s] = 0

\* What the outbox reports as sent was accepted by the outgoing server.
FinalIsDelivered == \A s \in Subs : status[s] = "final" => copies[s] = 1

\* From the claim until its result is recorded a task owns the row: nobody else
\* works on it and the row carries the task's own token, so the result it
\* records is the result of its own attempt.
Owns(w, s) == pc[w] \in {"smtp", "quit", "accept", "finish", "report"} /\ loc[w].sub = s

OwnerHoldsRow ==
    \A s \in Subs, w \in Workers :
        Owns(w, s) => /\ Matches(s, loc[w].claim)
                      /\ \A v \in Workers : Owns(v, s) => v = w

\* Tokens: none is in use before it was drawn, so a new claim is no old claim.
TokensAreDrawn ==
    \A s \in Subs :
        /\ claim[s] <= issued[s]
        /\ status[s] = "sending" => claim[s] > 0
        /\ \A p \in Procs : accepted[p][s] <= issued[s]

\* Tasks: before the dialogue the message has not left, after an acceptance it
\* has, and after any other outcome than a lost reply it has not.
OwnersKnow ==
    \A s \in Subs, w \in Workers :
        /\ At(w, s, "smtp") => copies[s] = 0
        /\ At(w, s, "quit") \/ At(w, s, "accept") => copies[s] = 1
        /\ (At(w, s, "finish") \/ At(w, s, "report")) /\ loc[w].outcome # "uncertain"
              => copies[s] = 0

\* Memory: an acceptance a process keeps for a row that is still under the same
\* claim is one that happened, and the task that saw it is gone.
MemoryIsTrue ==
    \A s \in Subs, p \in Procs :
        Matches(s, accepted[p][s]) =>
            copies[s] = 1 /\ \A w \in Workers : ~Owns(w, s)

\* Copies of a message, owners, tokens and memories agree with its row whatever
\* was interrupted: this is what makes a lost, repeated or late write harmless.
CopiesInv ==
    /\ AtMostOneCopy /\ UnsentHasNoCopy /\ FinalIsDelivered
    /\ OwnerHoldsRow /\ TokensAreDrawn /\ OwnersKnow /\ MemoryIsTrue

\* A message is handed to the outgoing server only when the row, as it is at
\* that moment, is not held, its time has come and no backoff is running:
\* checks made on rows that were read earlier are still true.
SentOnlyWhenDue ==
    \A s \in Subs, w \in Workers :
        At(w, s, "smtp") => Due(sched[s], now) /\ sched[s].next <= now

\* What a task has read of a row that it may claim is due by the clock the task
\* read, and that clock is not ahead.
ReadsAreDue ==
    /\ \A w \in Workers :
          /\ loc[w].clock <= now
          /\ pc[w] \in {"hold", "attempts", "instr", "claim"} => ~loc[w].seen.hold
          /\ pc[w] \in {"attempts", "instr", "claim"} =>
                loc[w].clock >= FireTime(loc[w].seen)
          /\ pc[w] \in {"instr", "claim"} => loc[w].seen.next <= loc[w].clock
    /\ \A d \in Dispatchers : pass[d].clock <= now

\* A row goes on waiting only while it has attempts left (the state diagram of
\* dispatcher.rs: "attempts reach MAX" leads to failed).
AttemptsLeftWhilePending ==
    \A s \in Subs : status[s] = "pending" => attempts[s] < MaxAttempts

\* The onSuccess instructions of a release that was refused are not applied
\* (the doc comment of submission_set).
RefusedReleaseNotApplied == \A s \in Subs : filed[s] \notin refused

(* What no step may do. *)

\* Sent, canceled, failed and uncertain are ends: no late writer moves a row on.
TerminalIsForever ==
    [][\A s \in Subs : status[s] \in Terminal => status'[s] = status[s]]_vars

\* While a row is being sent nobody moves its schedule: a recall, a new send
\* time or a release that comes too late changes nothing of it.
FrozenWhileSending ==
    [][\A s \in Subs :
          status[s] = "sending" /\ status'[s] = "sending" =>
              sched'[s] = [sched[s] EXCEPT !.instr = sched'[s].instr]]_vars

(* Liveness. *)

Waiting(s)  == status[s] = "pending" /\ ~sched[s].hold
Orphaned(s) == /\ status[s] = "sending"
               /\ \A w \in Workers : ~Owns(w, s)
               /\ \A p \in Procs : accepted[p][s] # claim[s]
Offline     == \E p \in Procs : ~connected[p]

\* A row that is not held comes to an end when its own server answers, unless
\* the account loses its connection or the claim its owner; an orphaned claim is
\* never sent again.
WaitingSettles ==
    \A s \in Answering : Waiting(s) ~> (status[s] \in Terminal \/ Orphaned(s) \/ Offline)

\* An acceptance gets recorded, by the attempt or after failed writes by a later
\* pass, as long as the process that knows of it lives (send_submission: "the
\* moment SMTP accepts it, record the submission final").
AcceptanceIsRecorded ==
    \A s \in Subs : copies[s] = 1 ~> (status[s] \in {"final", "uncertain"} \/ Orphaned(s))

(* The promise the outbox keeps (OutboxPromise): same rows, same copies. *)
Promise == INSTANCE OutboxPromise WITH Subs <- Subs, status <- status, copies <- copies
KeepsPromise == Promise!Spec
=============================================================================
