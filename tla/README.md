# A verification project for mailwoman

Mailwoman is a self-hosted webmail and mail engine: a Rust server that speaks
JMAP to its clients, IMAP, POP3, SMTP, DAV, Sieve and LDAP to its upstreams,
and keeps its own state in SQLite or PostgreSQL. Several server processes may
share one PostgreSQL store. What is hard to test in it is what several tasks of
several processes do to the same rows, and what happens when a call in the
middle fails, is lost or never returns. That is what these modules are about.

## 1. Inventory

The state, the operations and the hard behaviour of each part, and where it
stands here. `PROJECT.json` has the same list with its source paths.

| Part | State it keeps | Operations and interactions | What is hard | Here |
|---|---|---|---|---|
| Outbox (mw-engine `dispatcher`, `jmap`; mw-store `v2`; mw-smtp) | submission rows in the shared store; per process the set of sends in flight and the acceptances it could not record | create, recall, reschedule, release over JMAP; one dispatcher per process scans, claims, sends by SMTP, records, files | two processes and a recall at one row; a reply lost after acceptance; a crash or a failed write after acceptance; retries; undo windows; silent servers | partly: `Outbox`, `OutboxPromise`, `OutboxProofs` |
| Job scheduler (mw-server `jobs`, mw-store `jobs`) | scheduled tasks with leases, job runs with heartbeats | a loop per process abandons, schedules, claims, starts; executions beat, fence, record, release; Run now; edits | leases that expire under a live worker, crashed holders, stale executions, edits in between | partly: `JobScheduler`, `JobPromise`, `JobProofs` |
| Change log (mw-store `store`, mw-engine `jmap`) | rows of `changes`, the state counter of a datatype | writers change the cache and append; Email/changes answers pages; clients follow | a page that ends inside a batch, a state read before or after its rows, an append that fails | partly: `ChangeLog`, `ChangeLogProofs` |
| Mailbox sync (mw-engine `engine`, mw-imap `sync`, mw-store `cache`) | message rows, the sync cursor, the unread counter | LIST, SELECT, SEARCH, FETCH, ingest, apply flags, drop, save the cursor; Email/set stores on the server and writes the row | UIDVALIDITY resets, syncs that end half-way, changes between two commands, an Email/set in between, syncs that overlap | partly: `MailSync`, `MailSyncProofs` |
| Account drafts (mw-store `account_drafts`, mw-server `account_drafts`, mw-engine `saved_drafts`) | a row per draft: revision, operation, pending state, message to clean up | claim, APPEND, complete, refuse, uncertain, discard, clean up | several devices on one revision; an APPEND whose reply is lost; disposal racing a save | modelled: `AccountDrafts`, `DraftPromise`, `AccountDraftProofs` |
| Idempotency layer (mw-server `idempotency`) | one slot per owner, method, path and key, in memory | the first request runs, repeats wait and replay | a client that goes away in the middle, lifetimes, eviction, a key taken by another body | modelled: `Idempotency`, `KeyedPromise`, `IdempotencyProofs` |
| Layered cache, send limits, other backends, protocol clients, plugins, sign-in, formats, cryptography, HTTP and administration, search, assistant gateway, egress policy, apps | | | | not modelled, see 6 |

How they meet: the outbox, the drafts and the sync all act on the account's
messages and announce what they change through the change log. A message that
the outbox files, or a draft that is appended, reaches the cache as a message
that a sync ingests or that the same call inserts; a row of the log is then
appended. The idempotency layer stands before any HTTP handler, drafts included.
The modules are not composed into one: what one needs of another is an action of
its environment (a `Create` in the log, a `Deliver` or `Expunge` in the mailbox, a
repeated request of an operation of a draft).

### What makes them correct

Outbox: a message is handed to SMTP at most once, and what its row reports is
what happened to it; it is not handed over before its undo window, its schedule
and its backoff allow, as they are at that moment; a recall that was granted is
never overtaken; nothing moves a row that has ended; every waiting row comes to
an end; every acceptance is recorded.

Scheduler: one run of a kind at a time; the work of a kind never overlaps with
itself while processes act in time; an ended run keeps its status; every run
ends, whoever crashed; every due task gets its turn.

Change log: a client that resumes from the state it was given is told of every
recorded change, wherever a page ended, and a page that could not advance is
refused.

Mailbox sync: a message has one row under a UIDVALIDITY, and a message that is on
the server keeps one through resets and half-done syncs. It is the same row,
with the same stable id, as far as the store knows the message again: it does so
by Message-ID, date and size, so not when one of the first two is missing, and
two messages with all three equal may take each other's. Once everything is
quiet the cache shows the mailbox.

Account drafts: an operation is appended once however often it is sent; a
message it left in the Drafts folder is never forgotten; the copy of the current
revision stays; a device overwrites no revision it has not seen; a discarded
draft stays gone.

Idempotency: one write per key while its record stands; a replay is the answer of
the same key and body; the oldest record goes first; nobody waits for ever.

## 2. Modules

Definitions under a comment "Slips" or "Mutant" are never used by a
specification: they are what the properties are mutation-tested with. Each
component has a module of its own, one with its theorems (`...Proofs`) and one
with the constants of the small instances (`MC...`).

### Outbox

One step is one store call (or one SMTP exchange) with the local computation
around it, so that another task can run between any two. `status`, `claim`,
`sched` and `attempts` are the columns of a row (`sending:<token>` is the status
`"sending"` and the token in `claim`); `inflight` is `SENDS_IN_FLIGHT` and
`accepted` is `accepted_submissions`, both per process; `pc` and `loc` are where
each task is and what it has read; `pass` is a dispatcher's scan. `copies`,
`filed` and `refused` observe the world outside and are never read.

The attempt is `LoadRow` → (`PersistAccepted` |) `ReadHold` → `ReadAttempts` →
`ReadInstructions` → `ClaimAttempt` → `Transmit` → (`Quit` → `RecordDelivered` →
`FileAfterSend` | `RecordNotSent`). An inline send whose message was not accepted,
or perhaps was, lets go of its guard before it records that (`jmap.rs` 2795-2821):
it finishes in `RecordInline`, and a task of its process that takes the guard
meanwhile finds the row under a claim and gets no further than the load.
Dispatchers enter it by `Take` within a pass
(`StartPass`, `Scan`, `EndPass`), inline creation at `ReadInstructions`
(`CreateInline`), a release by `AttemptReleased`. `Cancel`, `Reschedule`,
`StartRelease`, `SetInstructions` and `ReleaseRow` are the other requests.
A failed write may have been applied. `DropRequest` is a request that ends at an
await, by a store error outside the modelled steps or because the client left
and the server dropped the call; its guard is dropped with it. `Crash` loses all
but the store; `Connect` is the registration of the stored account after a
start, or the next login.

Abstractions: times are a few ticks; a message's content, recipients and
policies only show as the permanent outcome of `Transmit`; the writes that
record an acceptance are one step, for they are one retry loop over one row; a
requested send time within the tolerance of the present counts as the present;
rows are not removed with their account.

### OutboxPromise

What a client may rely on, without processes, tasks, tokens or clocks: a row is
claimed before its message leaves, the message leaves at most once, a claim
whose message has not left may be given back, one whose message has left ends as
sent or uncertain, and an end is an end. `KeepsPromise` in `Outbox` is that
specification under the mapping that keeps `status` and `copies`.

### JobScheduler

`mode`, `ver`, `next`, `nextVer` and `line` are a task: enabled or not, the edit
its schedule and parameters come from, whether it has a next run and whether
that has come, the edit that next run was computed from, and the order of the
due tasks. `owner` and `left` are the lease, `status`, `run` and `silent` the
job runs with the time since their heartbeat. `pc`, `todo`, `seen`, `back` are a
loop in its pass, `exec` the executions.

A pass is `AbandonStale`, `ReadUnscheduled`, `SetFirstRun`, `ReadDue`, then for
each due task `Claim` and `SkipUnknown`, or `ReadTask` and `StartRun`, or
`PutBack`; `EndPass` or `PassFails`. An execution is `BeginWork`, `Beat`,
`EndWork`, `Fence`, `RecordResult`, `ReleaseLease`, with `RecordLoss` whenever
its ownership is not confirmed. `RunNow`, `UpdateTask`, `DeleteTask` are the
administrator's. A failed store call may have been applied, and a process whose
loop fails keeps running; a Run now whose reply is lost, or whose request is
dropped before it spawns the job, leaves a running row that no execution serves.

Time is what the statements compare. `left` counts a lease down, `silent`
counts a silence up, both move at a `Tick`. With `Prompt = FALSE` time passes
anywhere, so that any lease may expire under any step: this is the setting for
what the store alone must guarantee. With `Prompt = TRUE` it passes only while
every live loop sleeps and every live execution has just beaten: a pass and a
beat take far less than a lease, which the code beats three times. A crashed
process is out of this.

### JobPromise

What the scheduler promises about job runs, without tasks, leases, clocks or
processes: a kind has one running row; code runs only for a row that was running
when it began; success and failure are recorded only of a running row whose
ownership was confirmed after its code had ended; a row whose code runs is not
abandoned while processes are prompt. `KeepsPromise` in `JobScheduler` is that
specification under a mapping that keeps `status`, takes the kind of each row
(`KindOf`) and folds the points of an execution into the stages waiting, working,
done, confirmed and stopped (`StageOf`).

### ChangeLog

`ver` and `here` are the cached messages, `log` and `state` the rows of `changes`
with their greatest state, `writer` a change that is in the cache and not yet
in the log. A writer makes `Create`, `Update` or `Destroy` and then `Record`s it
as one batch, whose rows share one state, or the append fails (`RecordFails`:
email_set only warns). A client `Poll`s, which reads the state, then gets a
`Page`, which reads the rows, folds them and cuts them at the last whole state
under the cap (`Complete`); it is `Refuse`d when there is none and then reads
everything (`List`, `TakeState`). `Fetch` is Email/get of one id.
`StateFirst` says whether a refetching client takes its state before the rows:
Email/get reads its state after them, so a client that resumes from the state of
that answer may miss a change between the two reads. Clients that take it first
are the ones the properties speak of. `ahead` remembers the messages that a
client learnt of before its state covered their creation.

### MailSync

`kind`, `validity`, `modseq`, `on`, `flag` and `mod` are the server's mailbox,
changed by its other clients (`Deliver`, `Expunge`, `Mark`, `Reset`). `box`,
`unread`, `rows`, `cursor` and `ids` are the cache. A sync is `List` (LIST and
STATUS), `Register` (the mailbox row), `Load` (the cursor), `SelectQresync` or
`SelectOther`, `Search`, `FetchFlags`, `Reconcile`, `FetchRaw`, then one `Ingest`,
one `ReadFlag` with `ApplyFlag` and `CountSync`, or one `Drop` with `CountSync` per
item, and `SaveCursor`; `StaleRef` and `Interrupt` end it before its cursor is
saved. An Email/set is `ReadRow`, then `StoreFlag`, `ReadFlags`, `WriteFlag` and
`CountSet`, or `StoreDeleted`, `StoreExpunge`, `RemoveRow` and `CountSet`, unless the
server refuses (`RefuseDestroy`); `Abandon` ends it in between. Each is one command or
one store statement; the transaction that upserts a row is one.
`Identity` is what the store knows a message by under another UIDVALIDITY
(`SameMail`, `cache.rs` 807-822): its Message-ID, date and size, or `NoIdentity` when
one of the first two is missing. A message of the second kind gets a second row,
with a new stable id, when it is ingested again after a reset, and the sync then
drops the old row as outdated: its stable id changes. Messages of one identity
(`Like`) may take each other's rows, since the store takes any one that matches.
The properties say so: `OneRowPerMessage` is about all rows of one UIDVALIDITY, and
about all rows of a message that has an identity of its own; `LiveMailIsKept` says
that a message like no other keeps a row, and the same stable id if it has an
identity.
The three kinds of server give the three cursors of the code: a plain snapshot,
a snapshot with a modseq, and QRESYNC.

Two things the code leaves open are history variables that `Converges` excepts.
`stray`: a message ingested by a sync that failed before its cursor was saved,
and expunged before the next one, keeps its row, for no cursor ever knew it.
`late`: Email/set writes the keywords it computed from the row it read, over
newer ones that a sync applied in between; a server with mod-sequences does not
report them again.

Merged or left out: finding or making the mailbox row is one step, so that two
overlapping syncs never make two of them (the code's upsert is keyed by name and
UIDVALIDITY, and could); what a sync compares with a keyword and what the write
reads again for the counter is one reading; a destroy that the server does not
support is refused, without the fallback that moves the message to Trash.

### AccountDrafts and DraftPromise

`row` is `account_draft`; `call` a request and how far it is; `mail` the messages
of operations in the folder. A save is `Save` (the claim), `Prepare`, `Append`
with `Complete` or `AppendUnconfirmed` with `MarkUncertain`, or `Refuse`; what is
left of the earlier copy is removed by `Check`, `Expunge` and `CleanupDone`; a
discard is `Discard`, `Check`, `Expunge`, `DiscardDone`. `Drop` ends a request between
two steps: the 45 second limit, a client that left, a failed store call, a stop
of the process. `Check` looks at the row in the cache and `Expunge` acts by UID in
the folder, and the user may act in between: `Unmark` takes off the draft flag,
`Remove` takes a message out of the folder, for good or into another one, and the
cache loses its row or has it elsewhere. A message that left the folder without
the cache having it elsewhere counts as removed, as in the code
(`saved_drafts.rs` 347), wherever it lives on: what is never forgotten are the
messages of the folder.
`DraftPromise` is a register per draft: the revision only moves on, each in a
later message of its own, and what is discarded stays gone.

### Idempotency

A slot has the number of the request that made it, so smaller is older. A
request `Join`s the slot of its key, `Make`s one, or is `Reused` (422); then it
`Queue`s for the lock and gets a `Replay`, its own `Run`, or `InFlight` (409) after
`IN_FLIGHT_WAIT`. The handler is external: `Apply`, then `Keep` or `End`. `GoAway`
is the client's, and drops the call where it is. `Expire` and `Restart` lose
records. `excused` are the keys whose record was lost while something hung on
it, or whose write came to no answer. Of those the layer knows nothing and a
repetition runs again. For a restart, an expiry and an eviction the source says
as much. It does not for a client that goes away while its write runs: the call is
dropped with its slot empty, although the layer's comment (`idempotency.rs` 3-6)
and its test (`t91_idempotency_keys.rs` 1-6) call a retry after a dropped connection
safe. `AppliedOnce` does not cover that case; see section 5.

### KeyedPromise

What a client that repeats its writes may rely on, without ledger, slots, locks
or expiry: a key that is not excused is written once; a repetition gets the kept
answer of a write with its own key and body; a key is refused only while another
body has it; and a key is excused only while something is under way or kept
under it. `KeepsPromise` in `Idempotency` maps the points of a request to the stages
new, open, wrote and done (`StageOf`), the slots to the requests whose answers
they keep (`KeptOf`), and keeps `applied`, `replayed` and `excused`.

## 3. Runs

| Run | Configuration | What it shows |
|---|---|---|
| `outbox_two` | `MCOutboxTwo.cfg`: 1 row, 2 processes with a dispatcher each, a request task with 2 calls, 1 failure, 1 crash, undo window and clock to 1 | a row is sent only when it is due as it then stands (`SentOnlyWhenDue`), at most one copy (`AtMostOneCopy`), true rows (`UnsentHasNoCopy`, `FinalIsDelivered`), one owner (`OwnerHoldsRow`), nothing moves a row that is being sent (`FrozenWhileSending`), ends are ends (`TerminalIsForever`), the refinement (`KeepsPromise`) |
| `outbox_live` | `MCOutboxLive.cfg`: 2 rows, 1 process, 1 failure, servers that answer | a pending row has attempts left (`AttemptsLeftWhilePending`), every waiting row settles (`WaitingSettles`), every acceptance is recorded (`AcceptanceIsRecorded`) |
| `outbox_stale_attempts` | `MCOutboxStale.cfg`, violation | two processes leave a row pending with its attempts used up |
| `outbox_refused_release` | `MCOutboxRefused.cfg`, violation | a refused release has replaced the row's filing instructions |
| `outbox_silent_server` | `MCOutboxSilent.cfg`, violation | one silent server stops a dispatcher for every row |
| `jobs_race` | `MCJobsRace.cfg`: 1 task with a window, 1 process, 2 runs, an edit, a Run now, a failed or cut-off call, leases of 1 tick that expire anywhere | one running row per kind (`OneRunPerKind`), leases only of tasks that are on and due (`LeasedIsDue`), a late execution does not rewrite how its run ended (`EndedIsForever`) |
| `jobs_live` | `MCJobsLive.cfg`: 2 tasks of one kind, an old build beside the current one, a Run now or a crash of either, leases of 2 ticks, prompt processes | the work of a kind never overlaps with itself (`ExclusiveWork`), the refinement (`KeepsPromise`), every run ends (`RunsEnd`), every due task gets its turn (`DueIsServed`) |
| `jobs_edited_next` | `MCJobsEdited.cfg`, violation | a stale execution replaces an edited next run |
| `changes_follow` | `MCChangesFollow.cfg`: 2 messages, 2 writers, 1 client, caps 0, 1, 2, 3 and none, 3 changes, 1 failed append | no recorded change is lost (`NoLostUpdate`), a destroyed message stays only when it was learnt of early (`OnlyAheadIsKept`), every change arrives (`UpdatesArrive`) |
| `mail_sync` | `MCMailSync.cfg`: 2 messages, one of them without an identity, the three kinds of server, one sync and one Email/set at a time; a change by others, a reset, a call and a failure, or two changes and a reset or a failure | one row per message, as far as the store can tell it (`OneRowPerMessage`), a live message keeps a row, and its id if it has an identity (`LiveMailIsKept`), the cache comes to show the mailbox (`Converges`) |
| `drafts` | `MCAccountDrafts.cfg`: 3 drafts of which 2 may live, 3 operations, 2 requests at once of 7, 2 acts of the user in the folder | one append per operation (`AppendedOnce`), `NothingForgotten`, `CopyIsKept`, `NothingOverwritten`, the refinement (`KeepsPromise`) |
| `keyed_writes` | `MCIdempotency.cfg`: 3 keys, one of them with two bodies, a ledger of 2, 3 requests, 1 restart | one write per key (`AppliedOnce`), one's own answers (`AnswerIsOwn`), `OldestGoesFirst`, the refinement (`KeepsPromise`), nobody waits for ever (`WaitingEnds`) |

The violations are recorded as findings in `PROJECT.json`, each with the sentence of
the repository it contradicts. Two notes on them. The reply to QUIT is awaited
without a deadline too, after the message was accepted and before that is
recorded (`Quit`): a process that is restarted meanwhile leaves the row of a
delivered message at `sending`. And a lease of the scheduler names its holder by
process, so that an execution cannot tell its own lease from a later one of the
same process, neither when it releases it nor when it has it confirmed.

Deadlock is checked in the runs of the outbox and of the scheduler, which never
stop by themselves. The others stop when their bounded requests are over.

### Bounds

`MaxTime`, `MaxFaults`, `MaxCrashes` and `MaxRequests` (outbox), `MaxEdits`,
`MaxCalls`, `MaxFaults`, `MaxCrashes` and `MaxTogether`, the calls and crashes that may
occur in one behaviour (scheduler), `MaxChanges` and `MaxFaults`
(change log), `Bounds` (mailbox: the counts that may occur together),
`MaxCalls` and `MaxEdits` (drafts), `MaxRequests` and `MaxRestarts` (idempotency)
bound a behaviour; each is a guard of the action it bounds. `MaxDrafts` and
`MaxEntries` are limits of the code.

One row suffices for the outbox's safety: the rows of two messages share only
the guard set and the order of a pass, which `outbox_live` has two rows for. Two
processes, one of which may crash, give every order of claim, loss and recovery
that two contenders have. `MaxAttempts = 2` is the smallest with a retry. In the
scheduler a lease of 1 is enough where time is free; where processes are prompt
a lease of 1 would run out before its first beat (the code refuses leases below
two seconds for that reason), so those runs have 2. A run is abandoned after 3
leases, as in the code. Two messages and a batch of two make a page that ends
inside a batch; caps of 0 and of more than there is are the two ends. Two
messages, a reset and a half-done sync give each order of a reset between the
commands of a sync; two messages with the same identity are left to the proofs.
Two requests at once are two devices, three operations one more than the two
that race. Three requests with a ledger of two make an eviction. For the safety
properties these bounds matter less than they seem: the theorems below hold for
all of them.

### Fairness

Outbox: every task the runtime can poll goes on, the clock advances, the servers
in `Answering` answer. Nothing makes a client call. `Connect` is not fair: boot
registration gives up after a few tries, so the liveness run has no crash. The
liveness violation differs from it only in a server outside `Answering`,
since the code puts no deadline on the dialogue.

Scheduler: a live loop and a live execution go on, a job's own code returns
(`EndWork`), the clock advances and a next run comes. `Prompt` includes that
again and again every loop sleeps (`[]<>InTime`), as the code's sleep between
passes provides. Crashed processes never come back; their successors are new
instances. At least one process stays alive by `MaxCrashes`.

Change log: a task that has changed a message goes on to record it, and a client
keeps polling and finishes its calls.

Mailbox sync: the account is synced again and again, for `watch` of a backend
without IDLE returns at once and `watch_loop` syncs after each return
(mw-engine `backend.rs` 442-451, `engine.rs` 1660-1722); an Email/set goes on to
its end. Where IDLE is in use a failed resync waits for the next event, which
nothing promises: see the notes below.

Idempotency: a request that can take the lock does, and a wait ends after
`IN_FLIGHT_WAIT`. Nothing is assumed of the handler.

Account drafts have no liveness property: an uncertain draft stays so until a
person looks at it, and a claim whose request was dropped stays claimed.

## 4. Proofs

All theorems hold for any number of rows, processes, tasks, messages, requests
and for any bounds. Every type invariant, safety invariant, action property and
refinement that a passing run checks is a theorem; nothing about liveness is.

**OutboxProofs.** `TypeCorrect` and `CopiesCorrect`: `CopiesInv` is inductive.
`AtMostOneCopy` alone is not: a transmission must know that its token is still in
the row. So the invariant says that drawn tokens are below the counter
(`TokensAreDrawn`), that a task in the protected part of an attempt knows how
many copies have left (`OwnersKnow`), that what a process remembers as accepted
has left once (`MemoryIsTrue`), that owners hold the row, and what each status
says of the copies. `AtMostOnce`, `RowsAreTrue`, `SentIsDelivered` and `OneOwner`
are its consequences; `EndsAreEnds` and `SendingIsFrozen` are the action
properties; `OutboxKeepsPromise` is the refinement, initial state and every step,
and `PromiseIsSafe` shows that `OutboxPromise` alone implies the statements about
copies.
`DueWhenRead` proves a second inductive invariant, `ReadsAreDue`: what an attempt
has read was due, and if its claim will succeed the row still is what it read.
`SentWhenDue` follows. There are three kinds of steps: those that touch no row's
copies, claim or owner (`QuietStep`), those that take a row or pass it on
(`OwnerStep`), and those that write a result (`ResultStep`). Assumed:
`WorkersAssumption` and `BoundsAssumption`, which say what the constants are, and
`DelayAssumption`: the retry delays are natural numbers, which follows from
their definition by arithmetic with powers that the provers lack; TLC evaluates
it on every run.

The last part is about the guard set and the attempts. `GuardExcludes`: while a
task is in the guarded part of an attempt at a row, no other task of its process
is, and the row is in the guard set (`GuardHeld`); and while an inline
send records its result without the guard (`RecordInline`), the row is still under
its claim and no other task of the process is between the load of that row and
its claim (`ResultAlone`). This holds however many processes there are and through
crashes and dropped requests. The invariant `GuardInv` needs `NamesExist`
beside it: what a task, a scan or a memory names is a row that exists, so that a
creation cannot take the row of somebody else. `AttemptsAreLeft`
(`AttemptsLeftWhilePending`) is proved under `OneProc`, that a single process
serves the store: the number of attempts that a task has read is then still that
of the row (`TriesTrue`), because only the holder of the guard counts one up. The
hypothesis is needed: with two processes the statement is false, which is the
finding of `outbox_stale_attempts`.

**JobProofs.** `TypeCorrect`, `OneRun` (`OneRunPerKind`), `EndsAreEnds`
(`EndedIsForever`), `WorkIsExclusive` (`ExclusiveWork`), `LeaseOfDueTask`
(`LeasedIsDue`) and `SchedulerKeepsPromise`. The inductive invariant `JobInv` adds to
`OneRunPerKind` that under `Prompt` an execution at work has a running row that
has been silent for less than two ticks (`WorkIsFresh`), so that nobody abandons
it and nobody starts a second run of its kind. `TypeCorrect` includes that `line`
holds each due task once: a task that leaves the line leaves the others in it
(`OneLeaves`), and one that comes due goes to its end (`SetNextType`). Its
invariant `TypeInv` adds that a loop at a task has one (`HeadsNamed`).
`LeaseOfDueTask` goes through every statement that moves a task's mode, its next
run or its lease. `SchedulerKeepsPromise` has a
lemma per kind of step of the promise; that prompt processes abandon no working
code is `WorkIsFresh`. `PromiseIsSafe` derives from `JobPromise` alone that a kind
has one running row, that ends are final and that prompt processes work on a
kind once at a time.

**ChangeLogProofs.** `LogIsTyped`, `EveryRowIsTold` (`NoLostUpdate`) and
`DestroyedIsDropped` (`OnlyAheadIsKept`), the last two under
`ASSUME StateFirst`, the client that takes its state before the rows. The
invariant `LogInv` ties the log to the cache (`CacheInv`): a row announces a
version that was there and a destroyed message does not come back; `AheadInv`
adds that a message is created once. The heart is that a page cut at a whole
state loses no row: among the rows of a message there is a last one
(`LastRow`), and the fold tells what it says.

**MailSyncProofs.** `MailIsTyped` and `OneRow` (`OneRowPerMessage`) need no
restriction: the syncs may overlap, end half-way and meet any number of resets,
and `Identity` is any function, messages without one and twins included. An
ingest takes the place of the row at its coordinates, or of one that is like it
(`UpsertRows`).
`LiveMailStays` (`LiveMailIsKept`) assumes `OneSync`, that syncs of the mailbox do
not overlap. Its invariant `LiveInv` says that all that the cache and a sync
speak of was in the mailbox once, and one that is gone does not come back
(`Rowed`, `FromServer`); that what a sync will remove is gone (`Gone`); that a
first snapshot knows the live rows until it has been compared with them
(`KnownIfLive`); that after a reset every live message is ingested before the
rows of the old validity are dropped (`Renewed`); and that a call removes the
row of a message that is gone, or of one like it (`Called`).

**AccountDraftProofs.** `DraftsAreTyped`, `OneAppend` (`AppendedOnce`),
`EveryCopyIsKnown` (`NothingForgotten`), `CopyStays` (`CopyIsKept`), `NoSaveIsLost`
(`NothingOverwritten`) and `DraftsKeepPromise`, the refinement. `DraftInv`: a claim
belongs to one request (`ClaimInv`); an operation that was sent has had its turn,
so that a repetition finds its draft gone, past its revision, or blocked by it
(`OnceInv`, with `Spent`); an operation left one message (`MailInv`); a confirmed
message that no row has yet is known to its own request only (`FreshInv`); no
draft has a message of another (`OwnCopies`); and what a request removes is an
older copy or one a client discards.

**IdempotencyProofs.** `LedgerIsTyped`, `OneWritePerKey` (`AppliedOnce`),
`RepliesAreOwn` (`AnswerIsOwn`), `TheOldestGoes` (`OldestGoesFirst`) and
`LayerKeepsPromise`. `LedgerInv`: a slot has one holder while it is
empty (`OneHolder`), an answer is kept in the slot of the request it answers
(`KeptIsOwn`), and the ledger leads to the slot of every request that runs or
waits and of every write, or the key is excused (`Tracked`). `TheOldestGoes` rests
on the least element of a set of numbers (`Least`, `Oldest`) and on the ledger
never having more records than entries (`RoomInv`): then one record, the one with
the smallest number, is all that has to go for a new one.
`LayerKeepsPromise` shows what each step of a request is for the client; it adds
that a request which has arrived is never as if it had not (`Born`), and that a
record which is lost excuses its key only while the promise allows it
(`LostIsUnder`, `LostExcuses`). `PromiseIsSafe` derives one write per key and
one's own answers from `KeyedPromise` alone.

Only model-checked are the liveness properties, which these provers cannot reach:
`WaitingSettles`, `AcceptanceIsRecorded`, `RunsEnd`, `DueIsServed`, `UpdatesArrive`,
`Converges` and `WaitingEnds`. What a violation run refutes is refuted by TLC alone.
`AttemptsLeftWhilePending` is proved for one process only. That `DelayAssumption`
holds for given numbers is evaluated, not proved.

## 5. Notes on the code

Hazards that no property covers, beside those in `PROJECT.json`:

- Two syncs of one account may run at once (a watch, a refresh, a new folder),
  with no lock per account. TLC with two syncers breaks `LiveMailIsKept` at
  once: the first snapshot of a mailbox drops the rows it does not know
  (`engine.rs` 634), the ones that the other sync has just ingested among them.
  Such a message loses its stable id, and behind a cursor that knows it it stays
  away until its keywords change.
- The unread counter takes the server's count when a sync begins (`engine.rs`
  579-598) and is then adjusted for changes that the count includes already
  (`set_flags` 690, `delete_message` 747): it may be off until the next sync.
- `cache.rs` 807: a message without a Message-ID or a date gets a new stable id at
  every UIDVALIDITY reset, and two messages with the same Message-ID, date and
  size may swap theirs. With such twins TLC finds one way to miss `Converges`: an
  Email/set destroys the one after a reset has given its row to the other.
- `idempotency.rs` 3: a client that goes away while its write runs and then
  retries may have it applied twice (`GoAway`, the keys in `excused`), against
  what the comment and the test's header say of a dropped connection.
- `jmap.rs` 2795: an inline send lets go of its guard before it records that
  nothing was sent; its claim keeps others of the process away meanwhile.
- `jobs.rs` 980: a Run now that is dropped before it spawns its job leaves a
  running row until its heartbeat is stale, and its kind waits that long.
- `jmap.rs` 2774: an inline create whose change record fails answers notCreated
  although its row is pending and is sent.
- `jobs.rs` 949: a lease lost between the fence and the recorded result: the run
  is recorded as ok.
- `jmap.rs` 1803: a change whose append fails is told to nobody (`RecordFails`).
- `v2.rs` 797: on Postgres two appends of one datatype may read the same greatest
  state and collide on the key; the model is SQLite's.
- `jmap.rs` 1528: `ifInState` is compared once, before the call changes anything.
- `engine.rs` 874: a message that does not parse ends the sync of its mailbox on
  every attempt; `engine.rs` 1758: a resync that fails otherwise is only logged.
- mw-store `account_drafts.rs` 223: a claimed or uncertain row accepts no other operation;
  mw-engine `saved_drafts.rs` 368: a copy that the user moved is kept, but one
  whose row is gone from the cache (347), or that is moved after the check, counts
  as removed; and one that lost its draft flag after the check, or before the
  cache knows, is removed.
- mw-cache `lib.rs` 461, 572: an invalidation reaches the memory of its own process
  only, and a load that began before it may write back after it.

## 6. Not modelled

- Of the outbox: what filing writes, Bcc, DSN and DLP checks, queue limits. Of the
  scheduler: how a schedule gives its next time, the recurrence of windows, what
  the jobs do, rows that never run. Of the change log: Postgres' concurrent
  appends, the Mailbox and EmailSubmission datatypes (the same handler),
  queryChanges, the push channel that only wakes a client. Of the sync: moves
  between mailboxes, the search index. These are why those parts are called
  partly modelled.
- Layered cache: best effort by design. Every tier may be absent or fail
  silently, an invalidation is not ordered with a back-fill, and neither the
  code nor its callers promise more than that a value is at most a lifetime old.
- Send limits: a check of counts before a row is created, which writes nothing.
- POP3 and plugin backends sync by snapshots as a plain IMAP server, which
  `MailSync` has; registration and reconnection only show as a sync that fails.
- IMAP, POP3, DAV, LDAP and Sieve clients: sequential, one command and one reply.
- Plugin host, search index: wrappers of libraries.
- Sign-in, sessions, second factors, cryptography, egress policy: security
  protocols, not part of this development.
- Message formats and rendering, import and export: data transformations without
  shared state, outside what a model checker is for.
- HTTP server and administration, assistant gateway and MCP tools: routing,
  configuration and adapters; their concurrent parts are listed on their own.
- Web, desktop and mobile apps: user interface.

The repository is far larger than the parts with state that several actors
share, so the modules cover a small share of its lines.

## 7. Plan

1. `MailSync` with two syncs at a time: what still holds of `LiveMailIsKept` and
   `Converges`, beside `OneRow`.
2. Moves between mailboxes, with their copy and expunge on the server and their
   rows in the cache.
3. Postgres' appends in `ChangeLog`: two transactions that read one state.
