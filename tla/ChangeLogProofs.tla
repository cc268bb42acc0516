-------------------------- MODULE ChangeLogProofs --------------------------
(***************************************************************************)
(* Proofs about ChangeLog, for any number of messages, writers and clients *)
(* and any caps: a client that takes its state before it reads the rows is *)
(* told of every recorded change, wherever its pages end.                  *)
(***************************************************************************)
EXTENDS ChangeLog, FiniteSetTheorems, WellFoundedInduction, TLAPS

\* What the cache, the log and the writers know of each other: a row announces
\* a version that was there, and a destroyed message does not come back.
CacheInv ==
  /\ \A i \in here : ver[i] >= 1
  /\ \A r \in log : /\ r.ver \in 1..ver[r.id]
                    /\ r.op = "destroyed" => r.id \notin here
  /\ \A w \in Writers : writer[w].at = "applied" =>
       \A i \in writer[w].ids : /\ ver[i] >= 1
                                /\ writer[w].op = "destroyed" => i \notin here

\* Inductive.
LogInv == TypeOK /\ IsFiniteSet(log) /\ CacheInv /\ (StateFirst => NoLostUpdate)

-----------------------------------------------------------------------------
(* Pages. *)

\* Among some rows of the log, each message has a last one: the states above a
\* row shrink from row to row.
LEMMA LastRow ==
    ASSUME TypeOK, NEW rows, rows \subseteq log, NEW r \in rows
    PROVE  \E q \in RowsOf(rows, r.id) : IsLast(q, rows)
  <1> DEFINE mine == RowsOf(rows, r.id)
             above(q) == (q.state + 1)..state
             less == StrictSubsetOrdering(1..state)
             tops == {above(q) : q \in mine}
  <1>1. r \in mine /\ \A q \in mine : q.state \in 1..state /\ q.id = r.id
    BY DEF RowsOf, TypeOK
  <1>2. state \in Nat
    BY DEF TypeOK
  <1>3. IsWellFoundedOn(less, SUBSET (1..state))
    <2>1. IsFiniteSet(1..state)
      BY <1>2, FS_Interval
    <2>2. FiniteSubsetsOf(1..state) = SUBSET (1..state)
      BY <2>1, FS_FiniteSubsetsOfFinite
    <2> QED
      BY <2>2, FS_StrictSubsetOrderingWellFounded
  <1>4. tops \subseteq SUBSET (1..state) /\ tops # {}
    BY <1>1, <1>2
  <1>5. PICK x \in tops : \A y \in tops : ~ (<<y, x>> \in less)
    <2> HIDE DEF less, tops
    <2> QED
      BY <1>3, <1>4, WFMin
  <1>6. PICK q \in mine : x = above(q)
    OBVIOUS
  <1>7. \A p \in mine : p.state <= q.state
    <2> SUFFICES ASSUME NEW p \in mine, p.state > q.state
                 PROVE  FALSE
      BY <1>1
    <2>1. above(p) \subseteq above(q) /\ p.state \in above(q) /\ p.state \notin above(p)
      BY <1>1, <1>2
    <2>2. <<above(p), above(q)>> \in less
      <3> HIDE DEF above, mine
      <3>1. above(p) # above(q)
        BY <2>1
      <3>2. above(p) \in SUBSET (1..state) /\ above(q) \in SUBSET (1..state)
        BY <1>4
      <3> QED
        BY <2>1, <3>1, <3>2 DEF StrictSubsetOrdering
    <2> QED
      BY <1>5, <1>6, <2>2
  <1> QED
    BY <1>1, <1>7 DEF IsLast

\* A page reaches down to the state a client resumes after: it holds all rows
\* of the window up to there.
LEMMA PageIsWhole ==
    ASSUME TypeOK, IsFiniteSet(log), NEW c \in Clients, call[c].at = "page", NEW s \in Nat,
           NewState(s, Since(token[c]), call[c].current, call[c].limit),
           NEW r \in Since(token[c]), r.state <= s
    PROVE  r \in Answer(Since(token[c]), call[c].limit)
  <1> DEFINE rows == Since(token[c])
             limit == call[c].limit
             upTo(q) == {p \in rows : p.state <= q.state}
  <1>1. IsFiniteSet(rows)
    BY FS_Subset DEF Since
  <1>2. CASE ~HasMore(rows, limit)
    BY <1>2 DEF Answer
  <1>3. CASE HasMore(rows, limit)
    <2>1. PICK q \in Complete(rows, limit) : s = q.state
      BY <1>3 DEF NewState, Answer
    <2>2. q \in rows /\ Cardinality(upTo(q)) < limit
      BY <2>1 DEF Complete
    <2>3. upTo(r) \subseteq upTo(q) /\ upTo(q) \subseteq rows
      BY <2>1, <2>2 DEF Since, TypeOK, Row
    <2>4. /\ IsFiniteSet(upTo(q)) /\ IsFiniteSet(upTo(r))
          /\ Cardinality(upTo(r)) <= Cardinality(upTo(q))
      <3> HIDE DEF upTo, rows
      <3>1. IsFiniteSet(upTo(q))
        BY <1>1, <2>3, FS_Subset
      <3> QED
        BY <3>1, <2>3, FS_Subset
    <2>5. Cardinality(upTo(r)) \in Nat /\ Cardinality(upTo(q)) \in Nat
      BY <2>4, FS_CardinalityType
    <2>6. limit \in Nat
      BY DEF TypeOK
    <2>7. Cardinality(upTo(r)) < limit
      <3> HIDE DEF upTo, limit
      <3> QED
        BY <2>2, <2>4, <2>5, <2>6
    <2> QED
      BY <1>3, <2>7 DEF Answer, Complete
  <1> QED
    BY <1>2, <1>3

\* Of every row in a page the client learns something: it is to fetch the
\* message, or the message is gone.
LEMMA PageTells ==
    ASSUME TypeOK, CacheInv, NEW page, page \subseteq log, NEW r \in page
    PROVE  r.id \in ToFetch(page) \/ r.id \notin here
  <1>1. PICK q \in RowsOf(page, r.id) : IsLast(q, page)
    BY LastRow
  <1>2. q \in page /\ q \in log /\ q.id = r.id /\ q.op \in Ops
    BY <1>1 DEF RowsOf, TypeOK, Row
  <1> QED
    BY <1>1, <1>2 DEF ToFetch, FoldedTo, CacheInv, Ops

-----------------------------------------------------------------------------
(* The actions. *)

LEMMA LogInit == Init => LogInv
  BY BoundsAssumption, FS_EmptySet
     DEF Init, LogInv, TypeOK, CacheInv, NoLostUpdate, Idle, NoCall, Ops

\* What a client holds of a message it fetches or lists is what every row told.
LEMMA FreshIsTold ==
    ASSUME CacheInv, TypeOK, NEW r \in log
    PROVE  (IF r.id \in here THEN ver[r.id] ELSE 0) >= r.ver \/ r.id \notin here
  BY DEF CacheInv, TypeOK, Row

\* A change of the cache moves no client and no row.
LEMMA WriteKeeps ==
    ASSUME LogInv, NEW w \in Writers, Write(w)
    PROVE  LogInv'
  <1>1. UNCHANGED <<log, state, token, call, seen, todo, ahead, faults>>
    BY DEF Write, Create, Update, Destroy, Applied, store, client
  <1>2. CASE \E i \in Ids : Create(w, i)
    <2> PICK i \in Ids : Create(w, i)
      BY <1>2
    <2>1. TypeOK'
      BY <1>1, BoundsAssumption DEF LogInv, TypeOK, Create, Applied, Ops
    <2>2. \A r \in log : r.id # i /\ r.id \in Ids
      BY DEF LogInv, TypeOK, CacheInv, Row, Create
    <2>3. CacheInv'
      BY <1>1, <2>2 DEF LogInv, TypeOK, CacheInv, Create, Applied, Ops
    <2>4. StateFirst => NoLostUpdate'
      BY <1>1, <2>2 DEF LogInv, NoLostUpdate, Create
    <2> QED
      BY <1>1, <2>1, <2>3, <2>4 DEF LogInv
  <1>3. CASE \E ids \in SUBSET Ids : Update(w, ids)
    <2> PICK ids \in SUBSET Ids : Update(w, ids)
      BY <1>3
    <2>1. TypeOK'
      BY <1>1, BoundsAssumption DEF LogInv, TypeOK, Update, Applied, Ops
    <2>2. \A i \in Ids : ver[i] \in Nat /\ ver'[i] \in Nat /\ ver'[i] >= ver[i]
      BY DEF LogInv, TypeOK, Update
    <2>3. CacheInv'
      BY <1>1, <2>2 DEF LogInv, TypeOK, CacheInv, Update, Applied, Ops, Row
    <2>4. StateFirst => NoLostUpdate'
      BY <1>1 DEF LogInv, NoLostUpdate, Update
    <2> QED
      BY <1>1, <2>1, <2>3, <2>4 DEF LogInv
  <1>4. CASE \E ids \in SUBSET Ids : Destroy(w, ids)
    <2> PICK ids \in SUBSET Ids : Destroy(w, ids)
      BY <1>4
    <2>1. TypeOK'
      BY <1>1, BoundsAssumption DEF LogInv, TypeOK, Destroy, Applied, Ops
    <2>2. CacheInv'
      BY <1>1 DEF LogInv, TypeOK, CacheInv, Destroy, Applied, Ops
    <2>3. StateFirst => NoLostUpdate'
      BY <1>1 DEF LogInv, NoLostUpdate, Destroy
    <2> QED
      BY <1>1, <2>1, <2>2, <2>3 DEF LogInv
  <1> QED
    BY <1>2, <1>3, <1>4 DEF Write

\* The rows of a batch are a finite number.
LEMMA BatchIsFinite ==
    ASSUME IdsAssumption, NEW ids \in SUBSET Ids, NEW op
    PROVE  IsFiniteSet(Batch(ids, op))
  <1> DEFINE rowOf == [i \in ids |-> [state |-> state + 1, id |-> i, op |-> op, ver |-> ver[i]]]
  <1>1. IsFiniteSet(ids)
    BY IdsAssumption, FS_Subset
  <1>2. rowOf \in Surjection(ids, Batch(ids, op))
    BY DEF Batch, Surjection
  <1> QED
    BY <1>1, <1>2, FS_Surjection

\* No client has a state that covers the rows of a new batch.
LEMMA RecordKeeps ==
    ASSUME IdsAssumption, LogInv, NEW w \in Writers, Record(w)
    PROVE  LogInv'
  <1>1. UNCHANGED <<ver, here, token, call, seen, todo, ahead, changes, faults>>
    BY DEF Record, cache, client
  <1> DEFINE new == Batch(writer[w].ids, writer[w].op)
  <1>2. /\ new \subseteq Row
        /\ \A r \in new : /\ r.state = state + 1 /\ r.ver = ver[r.id]
                          /\ r.id \in writer[w].ids /\ r.op = writer[w].op
    BY DEF LogInv, TypeOK, Record, Batch, Row
  <1>3. IsFiniteSet(log')
    BY BatchIsFinite, FS_Union DEF LogInv, TypeOK, Record
  <1>4. log' = log \cup new /\ state' = state + 1 /\ state \in Nat
    BY DEF Record, LogInv, TypeOK
  <1> HIDE DEF new
  <1>5. TypeOK'
    <2>1. log' \subseteq Row /\ \A r \in log' : r.state \in 1..state'
      BY <1>2, <1>4 DEF LogInv, TypeOK
    <2>2. writer' \in [Writers -> [at : {"idle", "applied"}, ids : SUBSET Ids, op : Ops]]
      BY DEF LogInv, TypeOK, Record, Idle, Ops
    <2>3. 0..state \subseteq 0..state'
      BY <1>4
    <2> QED
      BY <1>1, <1>4, <2>1, <2>2, <2>3 DEF LogInv, TypeOK
  <1>6. CacheInv'
    <2>1. \A r \in new : r.ver \in 1..ver[r.id] /\ (r.op = "destroyed" => r.id \notin here)
      BY <1>2 DEF LogInv, TypeOK, CacheInv, Record
    <2> QED
      BY <1>1, <1>4, <2>1 DEF LogInv, CacheInv, Record, TypeOK, Idle
  <1>7. StateFirst => NoLostUpdate'
    <2>1. \A c \in Clients, r \in new : ~(r.state <= token[c])
      BY <1>2, <1>4 DEF LogInv, TypeOK
    <2> QED
      BY <1>1, <1>4, <2>1 DEF LogInv, NoLostUpdate
  <1> QED
    BY <1>3, <1>5, <1>6, <1>7 DEF LogInv

LEMMA FailsKeeps ==
    ASSUME LogInv, NEW w \in Writers, RecordFails(w)
    PROVE  LogInv'
  <1>1. UNCHANGED <<cache, store, client, changes>>
    BY DEF RecordFails
  <1>2. TypeOK'
    BY <1>1, BoundsAssumption DEF LogInv, TypeOK, RecordFails, Idle, Ops, cache, store, client
  <1>3. CacheInv' /\ (StateFirst => NoLostUpdate')
    BY <1>1 DEF LogInv, CacheInv, NoLostUpdate, RecordFails, Idle, cache, store, client, TypeOK
  <1> QED
    BY <1>1, <1>2, <1>3 DEF LogInv, store

\* The cache and the log, when only a client moves.
LEMMA ClientKeepsCache ==
    ASSUME LogInv, UNCHANGED <<cache, store, writer>>
    PROVE  CacheInv' /\ IsFiniteSet(log')
  BY DEF LogInv, CacheInv, cache, store

LEMMA PageKeeps ==
    ASSUME LogInv, NEW c \in Clients, Page(c)
    PROVE  LogInv'
  <1> DEFINE rows == Since(token[c])
             page == Answer(rows, call[c].limit)
  <1>1. PICK s \in Nat \cap ({call[c].current} \cup {r.state : r \in page}) :
          /\ NewState(s, rows, call[c].current, call[c].limit)
          /\ token' = [token EXCEPT ![c] = s]
          /\ ahead' = [ahead EXCEPT ![c] =
                          (@ \ ToDrop(page)) \cup {i \in ToFetch(page) : ~Announced(i, s)}]
    BY DEF Page
  <1>2. /\ todo' = [todo EXCEPT ![c] = @ \cup ToFetch(page)]
        /\ seen' = [seen EXCEPT ![c] = [i \in Ids |-> IF i \in ToDrop(page) THEN 0 ELSE @[i]]]
        /\ call' = [call EXCEPT ![c] = NoCall] /\ call[c].at = "page"
        /\ UNCHANGED <<cache, store, writer, changes, faults>>
    BY DEF Page
  <1>3. page \subseteq log
    BY DEF Answer, Complete, Since
  <1>4. ToFetch(page) \subseteq Ids /\ \A i \in ToDrop(page) : i \notin here
    BY <1>3 DEF ToFetch, ToDrop, FoldedTo, LogInv, TypeOK, CacheInv, Row
  <1>5. \A r \in rows : r.state <= s => r \in page
    BY <1>1, <1>2, PageIsWhole DEF LogInv
  <1>6. \A r \in page : r.id \in ToFetch(page) \/ r.id \notin here
    BY <1>3, PageTells DEF LogInv
  <1>7. s \in 0..state
    BY <1>1, <1>3 DEF LogInv, TypeOK
  <1> HIDE DEF rows, page
  <1>8. TypeOK'
    BY <1>1, <1>2, <1>4, <1>7 DEF LogInv, TypeOK, NoCall, cache, store
  <1>9. StateFirst => NoLostUpdate'
    <2> SUFFICES ASSUME StateFirst, NEW d \in Clients, NEW r \in log,
                        r.state <= token'[d], call'[d].at # "list", r.id \in here
                 PROVE  r.id \in todo'[d] \/ seen'[d][r.id] >= r.ver
      BY <1>2 DEF NoLostUpdate, cache, store
    <2>1. r.id \in Ids
      BY DEF LogInv, TypeOK, Row
    <2>2. CASE d # c
      BY <1>1, <1>2, <2>2 DEF LogInv, NoLostUpdate, TypeOK
    <2>3. CASE d = c
      <3>1. CASE r.state <= token[c]
        BY <1>2, <1>4, <2>1, <2>3, <3>1 DEF LogInv, NoLostUpdate, TypeOK
      <3>2. CASE ~(r.state <= token[c])
        <4>1. r \in rows
          BY <3>2 DEF rows, Since, LogInv, TypeOK
        <4>2. r.id \in ToFetch(page)
          BY <1>1, <1>5, <1>6, <2>3, <4>1 DEF LogInv, TypeOK
        <4> QED
          BY <1>2, <2>3, <4>2 DEF LogInv, TypeOK
      <3> QED
        BY <3>1, <3>2
    <2> QED
      BY <2>2, <2>3
  <1> QED
    BY <1>2, <1>8, <1>9, ClientKeepsCache DEF LogInv

LEMMA FetchKeeps ==
    ASSUME LogInv, NEW c \in Clients, NEW i \in Ids, Fetch(c, i)
    PROVE  LogInv'
  <1>1. UNCHANGED <<cache, store, writer, token, call, ahead, changes, faults>>
    BY DEF Fetch
  <1>2. TypeOK'
    BY <1>1 DEF LogInv, TypeOK, Fetch, cache, store
  <1>3. StateFirst => NoLostUpdate'
    <2> SUFFICES ASSUME StateFirst, NEW d \in Clients, NEW r \in log,
                        r.state <= token[d], call[d].at # "list", r.id \in here
                 PROVE  r.id \in todo'[d] \/ seen'[d][r.id] >= r.ver
      BY <1>1 DEF NoLostUpdate, cache, store
    <2>1. CASE d = c /\ r.id = i
      BY <2>1, FreshIsTold DEF LogInv, TypeOK, Fetch
    <2>2. CASE ~(d = c /\ r.id = i)
      BY <2>2 DEF LogInv, NoLostUpdate, TypeOK, Fetch, Row
    <2> QED
      BY <2>1, <2>2
  <1> QED
    BY <1>1, <1>2, <1>3, ClientKeepsCache DEF LogInv

LEMMA ListKeeps ==
    ASSUME LogInv, NEW c \in Clients, List(c)
    PROVE  LogInv'
  <1>1. UNCHANGED <<cache, store, writer, token, changes, faults>>
    BY DEF List
  <1>2. TypeOK'
    BY <1>1 DEF LogInv, TypeOK, List, NoCall, cache, store
  <1>3. StateFirst => NoLostUpdate'
    <2> SUFFICES ASSUME StateFirst, NEW d \in Clients, NEW r \in log,
                        r.state <= token[d], call'[d].at # "list", r.id \in here
                 PROVE  r.id \in todo'[d] \/ seen'[d][r.id] >= r.ver
      BY <1>1 DEF NoLostUpdate, cache, store
    <2>1. CASE d = c
      BY <2>1, FreshIsTold DEF LogInv, TypeOK, List, Row
    <2>2. CASE d # c
      BY <2>2 DEF LogInv, NoLostUpdate, TypeOK, List
    <2> QED
      BY <2>1, <2>2
  <1> QED
    BY <1>1, <1>2, <1>3, ClientKeepsCache DEF LogInv

\* Calls that teach a client nothing: a client that starts over takes a state
\* it has not read up to, and is about to list everything.
LEMMA CallKeeps ==
    ASSUME LogInv, NEW c \in Clients,
           (\E limit \in Limits : Poll(c, limit)) \/ Refuse(c) \/ TakeState(c)
    PROVE  LogInv'
  <1>1. UNCHANGED <<cache, store, writer, seen, todo, ahead, changes, faults>>
    BY DEF Poll, Refuse, TakeState
  <1>2. \/ token' = token /\ call[c].at # "list"
        \/ /\ token' = [token EXCEPT ![c] = state]
           /\ StateFirst => call'[c].at = "list"
    BY DEF Poll, Refuse, TakeState, NoCall, LogInv, TypeOK
  <1>3. \A d \in Clients \ {c} : call'[d] = call[d]
    BY DEF Poll, Refuse, TakeState, LogInv, TypeOK
  <1>4. TypeOK'
    <2>1. call' \in [Clients -> [at : {"idle", "page", "state", "list"},
                                current : 0..state, limit : Nat]]
      <3>1. CASE \E limit \in Limits : Poll(c, limit)
        BY <3>1, LimitsAssumption DEF Poll, LogInv, TypeOK
      <3>2. CASE Refuse(c) \/ TakeState(c)
        <4>1. \E at \in {"idle", "state", "list"} :
                call' = [call EXCEPT ![c] = [at |-> at, current |-> 0, limit |-> 0]]
          BY <3>2 DEF Refuse, TakeState, NoCall
        <4>2. 0 \in 0..state /\ 0 \in Nat
          BY DEF LogInv, TypeOK
        <4> QED
          BY <4>1, <4>2 DEF LogInv, TypeOK
      <3> QED
        BY <3>1, <3>2
    <2>2. token' \in [Clients -> 0..state]
      BY <1>2, SMTT(30) DEF LogInv, TypeOK
    <2> QED
      BY <1>1, <2>1, <2>2 DEF LogInv, TypeOK, cache, store
  <1>5. StateFirst => NoLostUpdate'
    <2> SUFFICES ASSUME StateFirst, NEW d \in Clients, NEW r \in log,
                        r.state <= token'[d], call'[d].at # "list", r.id \in here
                 PROVE  r.id \in todo[d] \/ seen[d][r.id] >= r.ver
      BY <1>1 DEF NoLostUpdate, cache, store
    <2>1. token'[d] = token[d] /\ call[d].at # "list"
      BY <1>2, <1>3 DEF LogInv, TypeOK
    <2> QED
      BY <2>1 DEF LogInv, NoLostUpdate
  <1> QED
    BY <1>1, <1>4, <1>5, ClientKeepsCache DEF LogInv

\* Every step keeps the invariant.
LEMMA LogStep == ASSUME LogInv, [Next]_vars PROVE LogInv'
  <1>1. CASE \E w \in Writers : Write(w) \/ Record(w) \/ RecordFails(w)
    BY <1>1, IdsAssumption, WriteKeeps, RecordKeeps, FailsKeeps
  <1>2. CASE \E c \in Clients : Follow(c)
    BY <1>2, CallKeeps, PageKeeps, FetchKeeps, ListKeeps DEF Follow
  <1>3. CASE UNCHANGED vars
    BY <1>3 DEF vars, client, LogInv, TypeOK, CacheInv, NoLostUpdate
  <1> QED
    BY <1>1, <1>2, <1>3 DEF Next

-----------------------------------------------------------------------------
\* The types hold for every number of messages, writers and clients.
THEOREM LogIsTyped == Spec => []TypeOK
  <1>1. LogInv => TypeOK
    BY DEF LogInv
  <1> QED
    BY <1>1, LogInit, LogStep, PTL DEF Spec

\* A client that takes its state before it reads the rows is told of every
\* recorded change at or below its state: it holds the announced version or a
\* later one, has still to fetch it, or the message is gone.  A page may end
\* inside a batch whose rows share a state, and pages race the writers.
THEOREM EveryRowIsTold == ASSUME StateFirst PROVE Spec => []NoLostUpdate
  <1>1. LogInv => NoLostUpdate
    BY DEF LogInv
  <1> QED
    BY <1>1, LogInit, LogStep, PTL DEF Spec

-----------------------------------------------------------------------------
(* Destroyed messages. *)

Creates(w) == writer[w].at = "applied" /\ writer[w].op = "created"

\* A message is created once, in the log and by its writers.
CreatedOnce ==
  /\ \A r \in log, q \in log :
       r.op = "created" /\ q.op = "created" /\ r.id = q.id => r.state = q.state
  /\ \A w \in Writers : Creates(w) =>
       /\ \A r \in log : r.op = "created" => r.id \notin writer[w].ids
       /\ \A v \in Writers \ {w} : Creates(v) => writer[v].ids \cap writer[w].ids = {}

\* A client that polls has fetched what it was told of, and the answer never
\* takes it back.
OnlyOnward ==
  \A c \in Clients : call[c].at = "page" => token[c] <= call[c].current /\ todo[c] = {}

\* What a client holds or is to fetch was announced at or below its state, or
\* it is ahead of it.
Learnt ==
  \A c \in Clients : call[c].at # "list" =>
    \A i \in Ids : seen[c][i] # 0 \/ i \in todo[c] =>
      i \in ahead[c] \/ Announced(i, token[c])

\* Inductive, on top of LogInv.
AheadInv ==
  /\ CreatedOnce
  /\ OnlyOnward
  /\ StateFirst => Learnt /\ OnlyAheadIsKept

LEMMA AheadInit == Init => AheadInv
  BY DEF Init, AheadInv, CreatedOnce, Creates, OnlyOnward, Learnt, OnlyAheadIsKept, Idle, NoCall

\* Steps of the writers that leave the log alone.
LEMMA WriteKeepsAhead ==
    ASSUME LogInv, AheadInv, NEW w \in Writers, Write(w) \/ RecordFails(w)
    PROVE  AheadInv'
  <1>1. UNCHANGED <<store, client>>
    BY DEF Write, RecordFails, Create, Update, Destroy, Applied
  <1>2. CreatedOnce'
    <2>1. CASE \E i \in Ids : Create(w, i)
      <3> PICK i \in Ids : Create(w, i)
        BY <2>1
      <3>1. ver[i] = 0 /\ writer' = [writer EXCEPT ![w] = [at |-> "applied", ids |-> {i}, op |-> "created"]]
        BY DEF Create, Applied
      <3>2. \A r \in log : r.id # i
        BY <3>1 DEF LogInv, CacheInv, TypeOK, Row
      <3>3. \A v \in Writers : Creates(v) => i \notin writer[v].ids
        BY <3>1 DEF LogInv, CacheInv, Creates, TypeOK
      <3> QED
        BY <1>1, <3>1, <3>2, <3>3 DEF AheadInv, CreatedOnce, Creates, LogInv, TypeOK, store
    <2>2. CASE ~\E i \in Ids : Create(w, i)
      <3>1. \E new \in [at : {"idle", "applied"}, ids : SUBSET Ids, op : {"updated", "destroyed"}] :
              writer' = [writer EXCEPT ![w] = new]
        <4>1. ASSUME NEW ids \in SUBSET Ids, NEW op \in {"updated", "destroyed"}, Applied(w, ids, op)
              PROVE  \E new \in [at : {"idle", "applied"}, ids : SUBSET Ids, op : {"updated", "destroyed"}] :
                       writer' = [writer EXCEPT ![w] = new]
          BY <4>1 DEF Applied
        <4>2. CASE \E ids \in SUBSET Ids : Update(w, ids) \/ Destroy(w, ids)
          BY <4>1, <4>2 DEF Update, Destroy
        <4>3. CASE RecordFails(w)
          <5>1. Idle \in [at : {"idle", "applied"}, ids : SUBSET Ids, op : {"updated", "destroyed"}]
            BY DEF Idle
          <5> QED
            BY <4>3, <5>1 DEF RecordFails
        <4> QED
          BY <2>2, <4>2, <4>3 DEF Write
      <3>2. PICK new \in [at : {"idle", "applied"}, ids : SUBSET Ids, op : {"updated", "destroyed"}] :
              writer' = [writer EXCEPT ![w] = new]
        BY <3>1
      <3>3. writer'[w].op # "created" /\ \A v \in Writers \ {w} : writer'[v] = writer[v]
        BY <3>2 DEF LogInv, TypeOK
      <3>4. \A v \in Writers : Creates(v)' => Creates(v) /\ writer'[v] = writer[v]
        BY <3>3 DEF Creates
      <3> QED
        BY <1>1, <3>4 DEF AheadInv, CreatedOnce, store
    <2> QED
      BY <2>1, <2>2
  <1>3. OnlyOnward' /\ (StateFirst => Learnt' /\ OnlyAheadIsKept')
    BY <1>1 DEF AheadInv, OnlyOnward, Learnt, OnlyAheadIsKept, Announced, store, client
  <1> QED
    BY <1>2, <1>3 DEF AheadInv

LEMMA RecordKeepsAhead ==
    ASSUME LogInv, AheadInv, NEW w \in Writers, Record(w)
    PROVE  AheadInv'
  <1> DEFINE new == Batch(writer[w].ids, writer[w].op)
  <1>1. UNCHANGED <<cache, client>> /\ log' = log \cup new
    BY DEF Record
  <1>2. \A r \in new : r.state = state + 1 /\ r.id \in writer[w].ids /\ r.op = writer[w].op
    BY DEF Batch
  <1>3. \A c \in Clients, r \in new : ~(r.state <= token[c])
    BY <1>2 DEF LogInv, TypeOK
  <1>4. CreatedOnce'
    <2>1. \A v \in Writers : Creates(v)' => Creates(v) /\ v # w /\ writer'[v] = writer[v]
      BY DEF Record, Creates, Idle, LogInv, TypeOK
    <2>2. \A r \in new : r.op = "created" => Creates(w)
      BY <1>2 DEF Record, Creates
    <2> HIDE DEF new
    <2> QED
      BY <1>1, <1>2, <2>1, <2>2 DEF AheadInv, CreatedOnce
  <1> HIDE DEF new
  <1>5. OnlyOnward'
    BY <1>1 DEF AheadInv, OnlyOnward, client
  <1>6. StateFirst => Learnt' /\ OnlyAheadIsKept'
    BY <1>1, <1>3 DEF AheadInv, Learnt, OnlyAheadIsKept, Announced, client
  <1> QED
    BY <1>4, <1>5, <1>6 DEF AheadInv

LEMMA PageKeepsAhead ==
    ASSUME LogInv, AheadInv, NEW c \in Clients, Page(c)
    PROVE  AheadInv'
  <1> DEFINE rows == Since(token[c])
             page == Answer(rows, call[c].limit)
  <1>1. PICK s \in Nat \cap ({call[c].current} \cup {r.state : r \in page}) :
          /\ NewState(s, rows, call[c].current, call[c].limit)
          /\ token' = [token EXCEPT ![c] = s]
          /\ ahead' = [ahead EXCEPT ![c] =
                          (@ \ ToDrop(page)) \cup {i \in ToFetch(page) : ~Announced(i, s)}]
    BY DEF Page
  <1>2. /\ todo' = [todo EXCEPT ![c] = @ \cup ToFetch(page)]
        /\ seen' = [seen EXCEPT ![c] = [i \in Ids |-> IF i \in ToDrop(page) THEN 0 ELSE @[i]]]
        /\ call' = [call EXCEPT ![c] = NoCall] /\ call[c].at = "page"
        /\ UNCHANGED <<cache, store, writer, changes, faults>>
    BY DEF Page
  <1>3. page \subseteq log /\ \A r \in page : r.state > token[c]
    BY DEF Answer, Complete, Since
  <1>4. \A r \in rows : r.state <= s => r \in page
    BY <1>1, <1>2, PageIsWhole DEF LogInv
  <1>5. token[c] <= s /\ token[c] \in Nat
    BY <1>1, <1>2, <1>3 DEF AheadInv, OnlyOnward, LogInv, TypeOK
  <1>6. \A r \in page : r.op = "destroyed" =>
          r.id \in ToFetch(page) \/ r.id \in ToDrop(page) \/ r.id \in Born(page)
    <2> SUFFICES ASSUME NEW r \in page
                 PROVE  r.id \in ToFetch(page) \/ r.id \in ToDrop(page) \/ r.id \in Born(page)
      OBVIOUS
    <2> HIDE DEF page
    <2>1. PICK q \in RowsOf(page, r.id) : IsLast(q, page)
      BY <1>3, LastRow DEF LogInv
    <2>2. q \in page /\ q.id = r.id /\ q.op \in Ops
      BY <1>3, <2>1 DEF RowsOf, LogInv, TypeOK, Row
    <2> QED
      BY <2>1, <2>2 DEF ToFetch, ToDrop, FoldedTo, Ops
  <1>7. \A i \in Born(page) : ~Announced(i, token[c])
    BY <1>3, <1>5 DEF Born, Announced, AheadInv, CreatedOnce, LogInv, TypeOK
  <1>8. \A i : Announced(i, token[c]) => Announced(i, s)
    BY <1>1, <1>5 DEF Announced, LogInv, TypeOK
  <1> HIDE DEF rows, page
  <1>9. CreatedOnce' /\ OnlyOnward'
    <2>1. CreatedOnce'
      BY <1>2 DEF AheadInv, CreatedOnce, Creates, store
    <2>2. OnlyOnward'
      BY <1>1, <1>2 DEF AheadInv, OnlyOnward, LogInv, TypeOK, NoCall
    <2> QED
      BY <2>1, <2>2
  <1>10. StateFirst => Learnt'
    <2> SUFFICES ASSUME StateFirst, NEW d \in Clients, call'[d].at # "list", NEW i \in Ids,
                        seen'[d][i] # 0 \/ i \in todo'[d]
                 PROVE  i \in ahead'[d] \/ Announced(i, token'[d])
      BY <1>2 DEF Learnt, Announced, store
    <2>1. CASE d # c
      BY <1>1, <1>2, <2>1 DEF AheadInv, Learnt, LogInv, TypeOK
    <2>2. CASE d = c
      <3>1. CASE i \in ToFetch(page)
        BY <1>1, <2>2, <3>1 DEF LogInv, TypeOK
      <3>2. CASE i \notin ToFetch(page)
        <4>1. seen[c][i] # 0 \/ i \in todo[c]
          BY <1>2, <2>2, <3>2 DEF LogInv, TypeOK
        <4>2. i \in ahead[c] \/ Announced(i, token[c])
          BY <1>2, <4>1 DEF AheadInv, Learnt
        <4>3. i \notin ToDrop(page)
          BY <1>2, <2>2, <3>2 DEF AheadInv, OnlyOnward, LogInv, TypeOK
        <4> QED
          BY <1>1, <1>8, <2>2, <4>2, <4>3 DEF LogInv, TypeOK
      <3> QED
        BY <3>1, <3>2
    <2> QED
      BY <2>1, <2>2
  <1>11. StateFirst => OnlyAheadIsKept'
    <2> SUFFICES ASSUME StateFirst, NEW d \in Clients, NEW r \in log, r.op = "destroyed",
                        r.state <= token'[d], call'[d].at # "list"
                 PROVE  seen'[d][r.id] = 0 \/ r.id \in todo'[d] \/ r.id \in ahead'[d]
      BY <1>2 DEF OnlyAheadIsKept, store
    <2>1. r.id \in Ids /\ r.state \in Nat
      BY DEF LogInv, TypeOK, Row
    <2>2. CASE d # c
      BY <1>1, <1>2, <2>2 DEF AheadInv, OnlyAheadIsKept, LogInv, TypeOK
    <2>3. CASE d = c /\ r.state <= token[c]
      <3>1. seen[c][r.id] = 0 \/ r.id \in todo[c] \/ r.id \in ahead[c]
        BY <1>2, <2>3 DEF AheadInv, OnlyAheadIsKept
      <3> QED
        BY <1>1, <1>2, <2>1, <2>3, <3>1 DEF LogInv, TypeOK
    <2>4. CASE d = c /\ ~(r.state <= token[c])
      <3>1. r \in page
        BY <1>1, <1>4, <1>5, <2>1, <2>4 DEF Since, rows, LogInv, TypeOK
      <3>2. r.id \in ToFetch(page) => r.id \in todo'[d]
        BY <1>2, <2>4 DEF LogInv, TypeOK
      <3>3. r.id \in ToDrop(page) => seen'[d][r.id] = 0
        BY <1>2, <2>1, <2>4 DEF LogInv, TypeOK
      <3>4. r.id \in Born(page) /\ r.id \notin ToDrop(page) => seen'[d][r.id] = 0 \/ r.id \in ahead'[d]
        BY <1>1, <1>2, <1>7, <2>1, <2>4 DEF AheadInv, Learnt, LogInv, TypeOK
      <3> QED
        BY <1>6, <3>1, <3>2, <3>3, <3>4
    <2> QED
      BY <2>2, <2>3, <2>4
  <1> QED
    BY <1>9, <1>10, <1>11 DEF AheadInv

\* Calls that read the cache: a destroyed message is not in it.
LEMMA ReadKeepsAhead ==
    ASSUME LogInv, AheadInv, NEW c \in Clients,
           (\E i \in Ids : Fetch(c, i)) \/ List(c)
    PROVE  AheadInv'
  <1>1. UNCHANGED <<cache, store, writer, token>>
    BY DEF Fetch, List
  <1>2. CreatedOnce'
    BY <1>1 DEF AheadInv, CreatedOnce, Creates, store
  <1>6. OnlyOnward'
    <2>1. CASE \E i \in Ids : Fetch(c, i)
      BY <2>1 DEF Fetch, AheadInv, OnlyOnward, LogInv, TypeOK
    <2>2. CASE List(c)
      BY <2>2 DEF List, AheadInv, OnlyOnward, LogInv, TypeOK, NoCall
    <2> QED
      BY <2>1, <2>2
  <1>3. \A r \in log : r.op = "destroyed" => r.id \notin here /\ r.id \in Ids
    BY DEF LogInv, CacheInv, TypeOK, Row
  <1>4. StateFirst => Learnt'
    <2> SUFFICES ASSUME StateFirst, NEW d \in Clients, call'[d].at # "list", NEW j \in Ids,
                        seen'[d][j] # 0 \/ j \in todo'[d]
                 PROVE  j \in ahead'[d] \/ Announced(j, token[d])
      BY <1>1 DEF Learnt, Announced, store
    <2>1. CASE \E i \in Ids : Fetch(c, i)
      BY <2>1 DEF Fetch, AheadInv, Learnt, LogInv, TypeOK
    <2>2. CASE List(c)
      BY <2>2 DEF List, AheadInv, Learnt, LogInv, TypeOK
    <2> QED
      BY <2>1, <2>2
  <1>5. StateFirst => OnlyAheadIsKept'
    <2> SUFFICES ASSUME StateFirst, NEW d \in Clients, NEW r \in log, r.op = "destroyed",
                        r.state <= token[d], call'[d].at # "list"
                 PROVE  seen'[d][r.id] = 0 \/ r.id \in todo'[d] \/ r.id \in ahead'[d]
      BY <1>1 DEF OnlyAheadIsKept, store
    <2>1. CASE \E i \in Ids : Fetch(c, i)
      BY <1>3, <2>1 DEF Fetch, AheadInv, OnlyAheadIsKept, LogInv, TypeOK
    <2>2. CASE List(c)
      BY <1>3, <2>2 DEF List, AheadInv, OnlyAheadIsKept, LogInv, TypeOK
    <2> QED
      BY <2>1, <2>2
  <1> QED
    BY <1>2, <1>4, <1>5, <1>6 DEF AheadInv

LEMMA CallKeepsAhead ==
    ASSUME LogInv, AheadInv, NEW c \in Clients,
           (\E limit \in Limits : Poll(c, limit)) \/ Refuse(c) \/ TakeState(c)
    PROVE  AheadInv'
  <1>1. UNCHANGED <<cache, store, writer, seen, todo, ahead>>
    BY DEF Poll, Refuse, TakeState
  <1>2. CreatedOnce'
    BY <1>1 DEF AheadInv, CreatedOnce, Creates, store
  <1>3. OnlyOnward'
    <2>1. CASE \E limit \in Limits : Poll(c, limit)
      BY <2>1 DEF Poll, AheadInv, OnlyOnward, LogInv, TypeOK
    <2>2. CASE Refuse(c) \/ TakeState(c)
      <3>1. call'[c].at # "page"
        BY <2>2 DEF Refuse, TakeState, LogInv, TypeOK, NoCall
      <3>2. \A d \in Clients \ {c} : call'[d] = call[d] /\ token'[d] = token[d]
        BY <2>2 DEF Refuse, TakeState, LogInv, TypeOK
      <3> QED
        BY <1>1, <3>1, <3>2 DEF AheadInv, OnlyOnward
    <2> QED
      BY <2>1, <2>2
  <1>4. StateFirst => \A d \in Clients : call'[d].at # "list" =>
          call[d].at # "list" /\ token'[d] = token[d]
    BY DEF Poll, Refuse, TakeState, NoCall, LogInv, TypeOK
  <1>5. StateFirst => Learnt' /\ OnlyAheadIsKept'
    BY <1>1, <1>4 DEF AheadInv, Learnt, OnlyAheadIsKept, Announced, store
  <1> QED
    BY <1>2, <1>3, <1>5 DEF AheadInv

LEMMA AheadStep == ASSUME LogInv, AheadInv, [Next]_vars PROVE AheadInv'
  <1>1. CASE \E w \in Writers : Write(w) \/ Record(w) \/ RecordFails(w)
    BY <1>1, WriteKeepsAhead, RecordKeepsAhead
  <1>2. CASE \E c \in Clients : Follow(c)
    BY <1>2, PageKeepsAhead, ReadKeepsAhead, CallKeepsAhead DEF Follow
  <1>3. CASE UNCHANGED vars
    BY <1>3 DEF vars, client, AheadInv, CreatedOnce, Creates, OnlyOnward, Learnt, OnlyAheadIsKept,
       Announced
  <1> QED
    BY <1>1, <1>2, <1>3 DEF Next

\* A client that takes its state before the rows keeps a destroyed message only
\* when it had learnt of it before its state covered the creation: the window in
\* which the fold cancels creation and destruction.
THEOREM DestroyedIsDropped == ASSUME StateFirst PROVE Spec => []OnlyAheadIsKept
  <1>1. LogInv /\ AheadInv /\ [Next]_vars => LogInv' /\ AheadInv'
    BY LogStep, AheadStep
  <1>2. AheadInv => OnlyAheadIsKept
    BY DEF AheadInv
  <1> QED
    BY <1>1, <1>2, LogInit, AheadInit, PTL DEF Spec
=============================================================================
