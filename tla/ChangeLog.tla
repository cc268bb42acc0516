----------------------------- MODULE ChangeLog -----------------------------
(***************************************************************************)
(* The change log of one account's Email datatype and the clients that     *)
(* follow it: Store::record_change and record_changes append rows,         *)
(* Engine::build_changes_limited answers Email/changes from them and       *)
(* Email/get reads the cached rows.                                        *)
(*                                                                         *)
(* A change of the cache and its row in the log are two statements, so a   *)
(* change stays "applied" for a while before it is announced, and a failed *)
(* append drops the row (email_set only warns).  An answer is two reads:   *)
(* the current state first, the rows after it.                             *)
(*                                                                         *)
(* A message's content is a version number.  Ids are never reused.  The    *)
(* store is SQLite: one writer at a time, so an append is one step.        *)
(***************************************************************************)
EXTENDS Naturals, FiniteSets

CONSTANTS
  Ids,          \* stable ids a message can get
  Writers,      \* tasks of the engine that change messages
  Clients,      \* JMAP clients that follow Email/changes
  Limits,       \* the values of maxChanges that clients send
  StateFirst,   \* a client that refetches takes the state before the rows
  MaxChanges,   \* bound: changes made to messages
  MaxFaults     \* bound: appends that fail

ASSUME IdsAssumption == IsFiniteSet(Ids)
ASSUME LimitsAssumption == Limits \subseteq Nat
ASSUME StateFirstAssumption == StateFirst \in BOOLEAN
ASSUME BoundsAssumption == MaxChanges \in Nat /\ MaxFaults \in Nat

VARIABLES
  ver,      \* content version of a message, 0 before it was created
  here,     \* ids whose row is in the cache
  log,      \* the rows of `changes`; `ver` is the version a row announces
  state,    \* the greatest state of a row, 0 when there is none
  writer,   \* a change that is in the cache and not yet in the log
  token,    \* the state a client resumes from
  call,     \* the call a client has under way
  seen,     \* the version of each message that a client holds, 0 for none
  todo,     \* ids a client was told of and has not fetched yet
  ahead,    \* ids a client learnt of before its token covered their creation
  changes,  \* changes made
  faults    \* appends that failed

cache == <<ver, here>>
store == <<log, state>>
client == <<token, call, seen, todo, ahead>>
vars == <<ver, here, log, state, writer, client, changes, faults>>

Ops == {"created", "updated", "destroyed"}
Row == [state : Nat, id : Ids, op : Ops, ver : Nat]
Idle == [at |-> "idle", ids |-> {}, op |-> "updated"]
NoCall == [at |-> "idle", current |-> 0, limit |-> 0]

Init ==
  /\ ver = [i \in Ids |-> 0]
  /\ here = {}
  /\ log = {}
  /\ state = 0
  /\ writer = [w \in Writers |-> Idle]
  /\ token = [c \in Clients |-> 0]
  /\ call = [c \in Clients |-> NoCall]
  /\ seen = [c \in Clients |-> [i \in Ids |-> 0]]
  /\ todo = [c \in Clients |-> {}]
  /\ ahead = [c \in Clients |-> {}]
  /\ changes = 0
  /\ faults = 0

----------------------------------------------------------------------------
(* The engine's writers. *)

Applied(w, ids, op) ==
  /\ writer[w] = Idle
  /\ changes < MaxChanges
  /\ changes' = changes + 1
  /\ writer' = [writer EXCEPT ![w] = [at |-> "applied", ids |-> ids, op |-> op]]
  /\ UNCHANGED <<store, client, faults>>

\* A message arrives and its row is inserted.
Create(w, i) ==
  /\ ver[i] = 0
  /\ ver' = [ver EXCEPT ![i] = 1]
  /\ here' = here \cup {i}
  /\ Applied(w, {i}, "created")

\* One Email/set changes the flags of several messages.
Update(w, ids) ==
  /\ ids # {}
  /\ ids \subseteq here
  /\ ver' = [i \in Ids |-> IF i \in ids THEN ver[i] + 1 ELSE ver[i]]
  /\ UNCHANGED here
  /\ Applied(w, ids, "updated")

\* Messages are removed from the cache: several by one Email/set, one by a sync.
Destroy(w, ids) ==
  /\ ids # {}
  /\ ids \subseteq here
  /\ here' = here \ ids
  /\ UNCHANGED ver
  /\ Applied(w, ids, "destroyed")

\* Mutant: a batch advances the state by its rows.
BatchAdvancesByRows(ids, op) ==
  {[state |-> state + Cardinality(ids), id |-> i, op |-> op, ver |-> ver[i]] : i \in ids}

\* Rows of one batch share one state, which is one above the greatest.
Batch(ids, op) ==
  {[state |-> state + 1, id |-> i, op |-> op, ver |-> ver[i]] : i \in ids}

Record(w) ==
  /\ writer[w].at = "applied"
  /\ log' = log \cup Batch(writer[w].ids, writer[w].op)
  /\ state' = state + 1
  /\ writer' = [writer EXCEPT ![w] = Idle]
  /\ UNCHANGED <<cache, client, changes, faults>>

\* The append fails: the change stays in the cache, no row tells of it.
RecordFails(w) ==
  /\ writer[w].at = "applied"
  /\ faults < MaxFaults
  /\ faults' = faults + 1
  /\ writer' = [writer EXCEPT ![w] = Idle]
  /\ UNCHANGED <<cache, store, client, changes>>

----------------------------------------------------------------------------
(* Email/changes. *)

Since(s) == {r \in log : r.state > s}

\* The tail is longer than the page.
HasMore(rows, limit) == Cardinality(rows) > limit

\* Mutant: a full page ends at its last row, which may be inside a batch.
CompleteToTheCap(rows, limit) ==
  CHOOSE page \in SUBSET rows :
    /\ Cardinality(page) = limit
    /\ \A r \in page, q \in rows \ page : r.state <= q.state

\* What a full page keeps: the rows of the states below the state of its
\* last row.
Complete(rows, limit) ==
  {r \in rows : Cardinality({q \in rows : q.state <= r.state}) < limit}

Answer(rows, limit) ==
  IF HasMore(rows, limit) THEN Complete(rows, limit) ELSE rows

RowsOf(rows, i) == {r \in rows : r.id = i}
IsLast(r, rows) == \A q \in RowsOf(rows, r.id) : q.state <= r.state

\* The fold: the last operation of an id, nothing for one that was created
\* and destroyed in the window.
FoldedTo(rows, op) ==
  {r.id : r \in {q \in rows : q.op = op /\ IsLast(q, rows)}}
Born(rows) == {r.id : r \in {q \in rows : q.op = "created"}}
ToFetch(rows) == FoldedTo(rows, "created") \cup FoldedTo(rows, "updated")
\* Mutant: any earlier row of the window cancels a destruction.
ToDropUntouched(rows) ==
  FoldedTo(rows, "destroyed") \ {r.id : r \in {q \in rows : q.op # "destroyed"}}
ToDrop(rows) == FoldedTo(rows, "destroyed") \ Born(rows)

\* The state a page resumes from: the last row of it, or the state that was
\* current before the rows were read.
NewState(s, rows, current, limit) ==
  IF HasMore(rows, limit)
  THEN /\ s \in {r.state : r \in Answer(rows, limit)}
       /\ \A r \in Answer(rows, limit) : r.state <= s
  ELSE s = current

\* A client that resumes from s was told of the creation of i.
Announced(i, s) == \E r \in log : r.id = i /\ r.op = "created" /\ r.state <= s

\* The call reads the current state.
Poll(c, limit) ==
  /\ call[c].at = "idle"
  /\ todo[c] = {}
  /\ call' = [call EXCEPT ![c] = [at |-> "page", current |-> state, limit |-> limit]]
  /\ UNCHANGED <<cache, store, writer, token, seen, todo, ahead, changes, faults>>

\* It reads the rows and answers; the client drops what was destroyed.
Page(c) ==
  LET rows == Since(token[c])
      limit == call[c].limit
      page == Answer(rows, limit)
  IN  /\ call[c].at = "page"
      /\ \E s \in Nat \cap ({call[c].current} \cup {r.state : r \in page}) :
           /\ NewState(s, rows, call[c].current, limit)
           /\ token' = [token EXCEPT ![c] = s]
           /\ ahead' = [ahead EXCEPT ![c] =
                          (@ \ ToDrop(page)) \cup
                          {i \in ToFetch(page) : ~Announced(i, s)}]
      /\ todo' = [todo EXCEPT ![c] = @ \cup ToFetch(page)]
      /\ seen' = [seen EXCEPT ![c] =
                    [i \in Ids |-> IF i \in ToDrop(page) THEN 0 ELSE @[i]]]
      /\ call' = [call EXCEPT ![c] = NoCall]
      /\ UNCHANGED <<cache, store, writer, changes, faults>>

\* Mutant: a page of part of one state is never refused.
RefusedNever(rows, limit) == FALSE

\* No page within the cap ends at a whole state: cannotCalculateChanges.
Refused(rows, limit) == HasMore(rows, limit) /\ Complete(rows, limit) = {}

Refuse(c) ==
  /\ call[c].at = "page"
  /\ Refused(Since(token[c]), call[c].limit)
  /\ call' = [call EXCEPT ![c] =
                [NoCall EXCEPT !.at = IF StateFirst THEN "state" ELSE "list"]]
  /\ UNCHANGED <<cache, store, writer, token, seen, todo, ahead, changes, faults>>

----------------------------------------------------------------------------
(* Email/get. *)

\* A client reads one message it was told of.
Fetch(c, i) ==
  /\ call[c].at = "idle"
  /\ i \in todo[c]
  /\ seen' = [seen EXCEPT ![c][i] = IF i \in here THEN ver[i] ELSE 0]
  /\ todo' = [todo EXCEPT ![c] = @ \ {i}]
  /\ UNCHANGED <<cache, store, writer, token, call, ahead, changes, faults>>

\* A refused client starts over: it reads everything, and takes the state
\* that Email/get answers, which the server reads after the rows, from this
\* call or from one it made before.
List(c) ==
  /\ call[c].at = "list"
  /\ seen' = [seen EXCEPT ![c] = [i \in Ids |-> IF i \in here THEN ver[i] ELSE 0]]
  /\ todo' = [todo EXCEPT ![c] = {}]
  /\ ahead' = [ahead EXCEPT ![c] = {i \in here : ~Announced(i, token[c])}]
  /\ call' = [call EXCEPT ![c] =
                [NoCall EXCEPT !.at = IF StateFirst THEN "idle" ELSE "state"]]
  /\ UNCHANGED <<cache, store, writer, token, changes, faults>>

TakeState(c) ==
  /\ call[c].at = "state"
  /\ token' = [token EXCEPT ![c] = state]
  /\ call' = [call EXCEPT ![c] =
                [NoCall EXCEPT !.at = IF StateFirst THEN "list" ELSE "idle"]]
  /\ UNCHANGED <<cache, store, writer, seen, todo, ahead, changes, faults>>

----------------------------------------------------------------------------
Write(w) ==
  \/ \E i \in Ids : Create(w, i)
  \/ \E ids \in SUBSET Ids : Update(w, ids) \/ Destroy(w, ids)

Follow(c) ==
  \/ \E limit \in Limits : Poll(c, limit)
  \/ Page(c)
  \/ Refuse(c)
  \/ \E i \in Ids : Fetch(c, i)
  \/ List(c)
  \/ TakeState(c)

Next ==
  \/ \E w \in Writers : Write(w) \/ Record(w) \/ RecordFails(w)
  \/ \E c \in Clients : Follow(c)

Spec == Init /\ [][Next]_vars

\* A task that changed a message goes on to record it; a client keeps polling
\* and finishes the calls it makes.
FairSpec ==
  /\ Spec
  /\ \A w \in Writers : WF_vars(Record(w))
  /\ \A c \in Clients : WF_vars(Follow(c))

----------------------------------------------------------------------------
(* Properties. *)

\* Every variable has its type and `state` is the greatest state in the log.
TypeOK ==
  /\ ver \in [Ids -> Nat]
  /\ here \subseteq Ids
  /\ log \subseteq Row
  /\ state \in Nat
  /\ \A r \in log : r.state \in 1..state
  /\ writer \in [Writers -> [at : {"idle", "applied"}, ids : SUBSET Ids, op : Ops]]
  /\ token \in [Clients -> 0..state]
  /\ call \in [Clients -> [at : {"idle", "page", "state", "list"},
                           current : 0..state, limit : Nat]]
  /\ seen \in [Clients -> [Ids -> Nat]]
  /\ todo \in [Clients -> SUBSET Ids]
  /\ ahead \in [Clients -> SUBSET Ids]
  /\ changes \in 0..MaxChanges
  /\ faults \in 0..MaxFaults

\* A client is told of every row up to the token it was given: it holds the
\* announced version or a later one, has still to fetch it, or the message is
\* gone.  Rows of one batch share a state and a page may end inside a batch.
NoLostUpdate ==
  \A c \in Clients : \A r \in log :
    (r.state <= token[c] /\ call[c].at # "list") =>
      \/ r.id \in todo[c]
      \/ r.id \notin here
      \/ seen[c][r.id] >= r.ver

\* The only destroyed messages a client keeps are those it learnt of before
\* the state it was answered with covered their creation.
OnlyAheadIsKept ==
  \A c \in Clients : \A r \in log :
    (r.op = "destroyed" /\ r.state <= token[c] /\ call[c].at # "list") =>
      (seen[c][r.id] = 0 \/ r.id \in todo[c] \/ r.id \in ahead[c])

\* A recorded change reaches every client that keeps polling, whatever cap it
\* sends: a page that could not advance is refused instead of repeated.
UpdatesArrive ==
  \A c \in Clients, i \in Ids, v \in 1..MaxChanges :
    (\E r \in log : r.id = i /\ r.ver = v) ~> (i \notin here \/ seen[c][i] >= v)
============================================================================
