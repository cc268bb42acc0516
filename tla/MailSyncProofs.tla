--------------------------- MODULE MailSyncProofs ---------------------------
(***************************************************************************)
(* Proofs about MailSync, for any messages and calls, any number of        *)
(* changes, UIDVALIDITY resets and failures, whatever the store can tell   *)
(* from the messages' identities: the rows a message has, however many     *)
(* syncs overlap, and, when they do not, that no message on the server     *)
(* loses its last one.                                                     *)
(***************************************************************************)
EXTENDS MailSync, FiniteSetTheorems, TLAPS

Applying == {"apply", "write", "count"}
Deep == {"search", "fetch", "reconcile", "raw"} \cup Applying
Row == [id : 1..ids, msg : Msgs, validity : 1..validity, flag : Keywords]
Syncing == [at : {"idle", "listed", "load", "select"} \cup Deep,
            list : [validity : 0..validity, unread : Nat],
            cursor : Cursor, next : Cursor, raws : SUBSET Raw,
            added : SUBSET Msgs, changed : SUBSET Raw,
            removed : SUBSET Coordinate, write : Write, wrote : SUBSET (1..ids)]
Setting == [at : {"idle", "store", "read", "write", "expunge", "marked", "remove", "count"},
            msg : Msgs, validity : Nat, write : Write]

\* A sync that has selected the mailbox speaks of a validity that there was.
Real ==
  /\ validity # 0
  /\ \A s \in Syncers : sync[s].at \in Deep => sync[s].next.validity \in 1..validity

\* A stable id is one row's.
OneRowPerId == \A q, r \in rows : q.id = r.id => q = r

Unique == OneRowPerMessage /\ OneRowPerId

\* Inductive, for any number of syncs at once.
RowsInv == TypeOK /\ Real /\ Unique

\* The messages that were ever in the mailbox.  One that is gone does not come back.
Born == {m \in Msgs : mod[m] # 0}

\* What the cache and the syncs speak of was in the mailbox.
Rowed ==
  /\ on \subseteq Born
  /\ \A r \in rows : r.msg \in Born
  /\ cursor.known \subseteq Born

FromServer(s) ==
  /\ sync[s].cursor.known \subseteq Born
  /\ sync[s].next.known \subseteq Born
  /\ sync[s].added \subseteq Born
  /\ \A raw \in sync[s].raws : raw.msg \in Born
  /\ \A change \in sync[s].changed : change.msg \in Born

\* What a sync will remove is gone from the mailbox.
Gone(s) == \A ref \in sync[s].removed : ref.msg \in Born /\ ref.msg \notin on

\* Until a first snapshot has been compared with the rows, it knows those of the
\* messages that are still there.
KnownIfLive(s) ==
  sync[s].at \in {"fetch", "reconcile"} /\ sync[s].next.tag = "snapshot" =>
    \A r \in rows : r.msg \in on => r.msg \in sync[s].next.known

\* After a reset a sync ingests every message that is there before it drops what
\* the old validity has left.  The row of one that is like another may be lost to an
\* Email/set that destroys the other.
Renewed(s) ==
  sync[s].cursor.validity # sync[s].next.validity =>
    /\ sync[s].at \in {"fetch", "reconcile", "raw"} =>
         \A r \in rows : r.msg \in on => r.msg \in sync[s].added
    /\ sync[s].at \in Applying =>
         \A r \in rows : r.msg \in on /\ Alone(r.msg) =>
           \/ \E q \in rows : q.msg = r.msg /\ q.validity = sync[s].next.validity
           \/ \E raw \in sync[s].raws : raw.msg = r.msg

\* A call speaks of the message that it has read, or one like it, and removes the
\* row of one that is gone.
Called(t) ==
  set[t].at \notin {"idle", "count"} =>
    /\ set[t].msg \in Born
    /\ \A r \in rows : r.id = set[t].write.id => r.msg \in Like(set[t].msg)
    /\ set[t].at = "remove" => set[t].msg \notin on

\* Inductive, for one sync at a time.
LiveInv ==
  /\ Rowed
  /\ \A s \in Syncers : FromServer(s) /\ Gone(s) /\ KnownIfLive(s) /\ Renewed(s)
  /\ \A t \in Setters : Called(t)

OneSync == \A s, t \in Syncers : s = t

\* What LiveMailIsKept says of a step.
Kept ==
  \A r \in rows : Alone(r.msg) /\ r.msg \in on /\ r.msg \in on' =>
    \E q \in rows' : q.msg = r.msg /\ (Identified(r.msg) => q.id = r.id)

\* And what most steps do.
Stays ==
  \A r \in rows : Alone(r.msg) /\ r.msg \in on =>
    \E q \in rows' : q.id = r.id /\ q.msg = r.msg /\ q.validity = r.validity

-----------------------------------------------------------------------------
LEMMA Typed ==
    ASSUME TypeOK
    PROVE  /\ kind \in Kinds /\ validity \in Nat /\ modseq \in Nat /\ ids \in Nat
           /\ box \in 0..validity /\ on \subseteq Msgs /\ unread \in Nat
           /\ flag \in [Msgs -> Keywords] /\ mod \in [Msgs -> 0..modseq]
           /\ rows \subseteq Row /\ cursor \in Cursor
           /\ sync \in [Syncers -> Syncing] /\ set \in [Setters -> Setting]
           /\ stray \subseteq 1..ids /\ late \subseteq 1..ids
  BY DEF TypeOK, Row, Syncing, Setting, Deep, Applying

\* And the converse.
LEMMA TypedBack ==
    ASSUME kind \in Kinds, validity \in Nat, modseq \in Nat, ids \in Nat,
           box \in 0..validity, on \subseteq Msgs, unread \in Nat,
           flag \in [Msgs -> Keywords], mod \in [Msgs -> 0..modseq],
           rows \subseteq Row, cursor \in Cursor,
           sync \in [Syncers -> Syncing], set \in [Setters -> Setting],
           stray \subseteq 1..ids, late \subseteq 1..ids
    PROVE  TypeOK
  BY DEF TypeOK, Row, Syncing, Setting, Deep, Applying

LEMMA BlankTyped ==
    /\ NoCursor \in Cursor
    /\ NoCursor.known = {}
    /\ NoSync.at = "idle" /\ NoSync.cursor = NoCursor /\ NoSync.next = NoCursor
    /\ NoSync.raws = {} /\ NoSync.added = {} /\ NoSync.changed = {} /\ NoSync.removed = {}
    /\ NoSync.wrote = {}
    /\ NoSet.at = "idle"
  BY DEF NoCursor, NoSync, NoSet, Cursor

LEMMA NoWriteTyped == ASSUME ids \in Nat PROVE NoWrite \in Write
  BY DEF NoWrite, Write, Keywords

LEMMA NoListTyped == ASSUME validity \in Nat PROVE NoList \in [validity : 0..validity, unread : Nat]
  BY DEF NoList

LEMMA NoSyncTyped == ASSUME ids \in Nat, validity \in Nat PROVE NoSync \in Syncing
  BY BlankTyped, NoWriteTyped, NoListTyped DEF NoSync, Syncing, Raw, Coordinate

LEMMA NoSetTyped == ASSUME ids \in Nat PROVE NoSet \in Setting
  BY MsgsAssumption, NoWriteTyped DEF NoSet, Setting

\* Messages that the store takes for each other: of one identity.
LEMMA LikeEach ==
    ASSUME NEW l \in Msgs, NEW m \in Msgs, NEW n \in Msgs
    PROVE  /\ m \in Like(m)
           /\ m \in Like(l) /\ n \in Like(m) => n \in Like(l)
           /\ n \in Like(m) => m \in Like(n)
           /\ n \in Like(m) /\ Alone(n) => n = m
           /\ n \in Like(m) /\ Alone(m) => n = m
  BY DEF Like, Alone

LEMMA SeenTyped ==
    ASSUME TypeOK, NEW ms, ms \subseteq Msgs
    PROVE  /\ Seen(ms) \subseteq Raw
           /\ \A x \in Seen(ms) : x.msg \in ms
           /\ \A m \in ms : \E x \in Seen(ms) : x.msg = m
  <1>1. \A m \in Msgs : flag[m] \in Keywords
    BY Typed
  <1>2. \A m \in ms : [msg |-> m, flag |-> flag[m]] \in Seen(ms)
    BY DEF Seen
  <1>3. \A x \in Seen(ms) : \E m \in ms : x = [msg |-> m, flag |-> flag[m]]
    BY DEF Seen
  <1>4. \A x \in Seen(ms) : x \in Raw /\ x.msg \in ms
    BY <1>1, <1>3 DEF Raw
  <1> QED
    BY <1>2, <1>4

LEMMA InitRows == Init => RowsInv
  <1> SUFFICES ASSUME Init PROVE RowsInv
    OBVIOUS
  <1>1. /\ validity = 1 /\ modseq = 1 /\ ids = 0 /\ box = 0 /\ unread = 0 /\ rows = {}
        /\ kind \in Kinds /\ on \subseteq Msgs /\ stray = {} /\ late = {} /\ cursor = NoCursor
        /\ flag \in [Msgs -> Keywords] /\ mod \in [Msgs -> 0..modseq]
    BY InitialAssumption DEF Init, Keywords
  <1>2. sync \in [Syncers -> Syncing] /\ set \in [Setters -> Setting]
    BY <1>1, NoSyncTyped, NoSetTyped DEF Init
  <1>3. TypeOK
    BY <1>1, <1>2, BlankTyped, TypedBack DEF Row
  <1>4. Real /\ Unique
    BY BlankTyped DEF Init, Real, Unique, OneRowPerMessage, OneRowPerId, Deep, Applying
  <1> QED
    BY <1>3, <1>4 DEF RowsInv

LEMMA InitLive == Init => LiveInv
  BY BlankTyped, InitialAssumption
     DEF Init, LiveInv, Rowed, Born, FromServer, Gone, KnownIfLive, Renewed, Called, Applying

-----------------------------------------------------------------------------
(* The rows. *)

LEMMA SetFlagsRows ==
    ASSUME TypeOK, Unique, NEW w \in Write, SetFlags(w)
    PROVE  /\ rows' \subseteq Row /\ Unique'
           /\ \A q \in rows' : \E r \in rows :
                q.id = r.id /\ q.msg = r.msg /\ q.validity = r.validity
           /\ \A r \in rows : \E q \in rows' :
                q.id = r.id /\ q.msg = r.msg /\ q.validity = r.validity
  <1> DEFINE new(r) == [r EXCEPT !.flag = w.want]
             mine == Stored(w.id)
  <1>1. \A r \in rows : /\ r \in Row /\ new(r) \in Row
                        /\ new(r).id = r.id /\ new(r).msg = r.msg /\ new(r).validity = r.validity
    BY Typed DEF Row, Write
  <1>2. rows' = (rows \ mine) \cup {new(r) : r \in mine} /\ mine \subseteq rows
    BY DEF SetFlags, Stored
  <1> HIDE DEF new, mine
  <1>3. \A q \in rows' : \/ q \in rows \ mine
                         \/ \E r \in mine : q = new(r)
    BY <1>2
  <1>4. Unique'
    BY <1>1, <1>2, <1>3 DEF Unique, OneRowPerMessage, OneRowPerId
  <1>5. \A r \in rows : \E q \in rows' :
          q.id = r.id /\ q.msg = r.msg /\ q.validity = r.validity
    <2> SUFFICES ASSUME NEW r \in rows
                 PROVE  \E q \in rows' : q.id = r.id /\ q.msg = r.msg /\ q.validity = r.validity
      OBVIOUS
    <2>1. CASE r \in mine
      BY <1>1, <1>2, <2>1
    <2>2. CASE r \notin mine
      BY <1>2, <2>2
    <2> QED
      BY <2>1, <2>2
  <1> QED
    BY <1>1, <1>2, <1>3, <1>4, <1>5

LEMMA FewerRows ==
    ASSUME TypeOK, Unique, rows' \subseteq rows
    PROVE  rows' \subseteq Row /\ Unique'
  BY Typed DEF Unique, OneRowPerMessage, OneRowPerId

LEMMA Counts ==
    ASSUME TypeOK, NEW w, Count(w)
    PROVE  unread' \in Nat
  BY Typed DEF Count

LEMMA DeletedTyped == ASSUME NEW gone, ids \in Nat PROVE Deleted(gone) \in Write
  BY DEF Deleted, Write, Keywords

\* A message that is ingested takes its row under this UIDVALIDITY, else that of a
\* message like it under another one, else a new one.
LEMMA UpsertRows ==
    ASSUME TypeOK, Unique, NEW m \in Msgs, NEW v \in 1..validity,
           NEW k \in Keywords, NEW id \in 1..(ids + 1), Upsert(m, v, k, id)
    PROVE  /\ ids' \in Nat /\ ids <= ids' /\ id \in 1..ids'
           /\ rows' \subseteq [id : 1..ids', msg : Msgs, validity : 1..validity, flag : Keywords]
           /\ Unique'
           /\ \A r \in rows : r.msg # m /\ (r.validity = v \/ Alone(r.msg)) => r \in rows'
           /\ \A r \in rows : r.msg = m /\ Identified(m) /\ Alone(m) => r.id = id
           /\ \E q \in rows' : q.msg = m /\ q.validity = v /\ q.id = id
           /\ \A q \in rows' : \/ q \in rows
                               \/ /\ q.msg = m /\ q.validity = v /\ q.id = id
                                  /\ id = ids + 1 \/ \E r \in rows : r.id = id /\ m \in Like(r.msg)
  <1> DEFINE row == [id |-> id, msg |-> m, validity |-> v, flag |-> k]
  <1>1. PICK old \in (IF At(m, v) # {} THEN {{r} : r \in At(m, v)}
                      ELSE IF SameMail(m, v) # {} THEN {{r} : r \in SameMail(m, v)}
                      ELSE {{}}) :
          /\ id = IF old = {} THEN ids + 1 ELSE (CHOOSE r \in old : TRUE).id
          /\ rows' = (rows \ old) \cup {row}
          /\ ids' = IF old = {} THEN ids + 1 ELSE ids
    BY DEF Upsert
  <1>2. /\ row.msg = m /\ row.id = id /\ row.validity = v /\ row.flag = k
        /\ row \in [id : {id}, msg : Msgs, validity : 1..validity, flag : Keywords]
    OBVIOUS
  <1>3. \A r \in rows : /\ r.id \in 1..ids /\ r.msg \in Msgs
                        /\ r \in Row
    BY Typed DEF Row
  <1> DEFINE Found(r) == /\ old = {r} /\ r \in rows /\ id = r.id /\ ids' = ids
                         /\ r \in At(m, v) \/ (At(m, v) = {} /\ r \in SameMail(m, v))
             Absent == /\ old = {} /\ id = ids + 1 /\ ids' = ids + 1
                       /\ At(m, v) = {} /\ SameMail(m, v) = {}
  <1>4. Absent \/ \E r : Found(r)
    <2>1. ASSUME NEW r, old = {r} PROVE id = r.id /\ ids' = ids
      <3>1. (CHOOSE x \in {r} : TRUE) = r
        OBVIOUS
      <3> QED
        BY <1>1, <2>1, <3>1
    <2>2. CASE At(m, v) # {}
      <3>1. PICK r \in At(m, v) : old = {r}
        BY <1>1, <2>2
      <3> QED
        BY <2>1, <3>1 DEF At
    <2>3. CASE At(m, v) = {} /\ SameMail(m, v) # {}
      <3>1. PICK r \in SameMail(m, v) : old = {r}
        BY <1>1, <2>3
      <3> QED
        BY <2>1, <2>3, <3>1 DEF SameMail
    <2>4. CASE At(m, v) = {} /\ SameMail(m, v) = {}
      BY <1>1, <2>4
    <2> QED
      BY <2>2, <2>3, <2>4
  <1>5. rows' = (rows \ old) \cup {row}
    BY <1>1
  <1> HIDE DEF row
  <1>6. ASSUME NEW r, Found(r)
        PROVE  /\ r.msg \in Like(m) /\ m \in Like(r.msg)
               /\ r.msg # m => r.validity # v
               /\ r.validity = v \/ At(m, v) = {}
    <2>1. r.msg \in Msgs /\ r \in At(m, v) \cup SameMail(m, v)
      BY <1>3, <1>6
    <2>2. CASE r \in At(m, v)
      BY <2>2 DEF At, Like
    <2>3. CASE r \notin At(m, v)
      <3>1. At(m, v) = {} /\ r \in SameMail(m, v)
        BY <1>6, <2>3
      <3> QED
        BY <2>1, <3>1 DEF SameMail, Like
    <2> QED
      BY <2>2, <2>3
  <1>7. \A r \in rows : r.msg = m /\ r.validity = v => r \in At(m, v)
    BY DEF At
  <1>8. \A r \in rows : r.msg = m /\ r.validity # v /\ Identified(m) => r \in SameMail(m, v)
    BY DEF SameMail, Identified
  <1>9. \A r : Found(r) => r.validity = v \/ At(m, v) = {}
    BY <1>6
  <1>10. ASSUME NEW r \in rows, r.msg = m, r.validity = v \/ (Identified(m) /\ Alone(m))
         PROVE  old = {r} /\ r.id = id
    <2>1. r \in At(m, v) \cup SameMail(m, v)
      BY <1>7, <1>8, <1>10
    <2>2. PICK x : Found(x)
      BY <1>4, <2>1
    <2>3. x.msg = m
      <3>1. CASE r.validity = v
        <4>1. x \in At(m, v)
          BY <1>7, <1>10, <2>2, <3>1
        <4> QED
          BY <4>1 DEF At
      <3>2. CASE Alone(m)
        BY <1>3, <1>6, <2>2, <3>2 DEF Alone
      <3> QED
        BY <1>10, <3>1, <3>2
    <2>4. r.validity = x.validity \/ (Identified(m) /\ Alone(m))
      <3>1. CASE r.validity = v
        BY <1>7, <1>9, <1>10, <2>2, <3>1
      <3> QED
        BY <1>10, <3>1
    <2>5. x = r
      BY <1>10, <2>2, <2>3, <2>4 DEF Unique, OneRowPerMessage
    <2> QED
      BY <2>2, <2>5
  <1>11. \A r \in rows : r.id = id => r \in old
    BY <1>3, <1>4, Typed DEF Unique, OneRowPerId
  <1>12. Unique'
    BY <1>2, <1>5, <1>10, <1>11 DEF Unique, OneRowPerMessage, OneRowPerId
  <1>13. ids' \in Nat /\ ids <= ids' /\ id \in 1..ids'
    BY <1>3, <1>4, Typed
  <1>14. rows' \subseteq [id : 1..ids', msg : Msgs, validity : 1..validity, flag : Keywords]
    <2>1. 1..ids \subseteq 1..ids'
      BY <1>13, Typed
    <2>2. Row \subseteq [id : 1..ids', msg : Msgs, validity : 1..validity, flag : Keywords]
      BY <2>1 DEF Row
    <2>3. row \in [id : 1..ids', msg : Msgs, validity : 1..validity, flag : Keywords]
      BY <1>2, <1>13
    <2> QED
      BY <1>3, <1>5, <2>2, <2>3
  <1>15. \A r \in rows : r.msg # m /\ (r.validity = v \/ Alone(r.msg)) => r \notin old
    BY <1>3, <1>4, <1>6, LikeEach
  <1>16. id = ids + 1 \/ \E r \in rows : r.id = id /\ m \in Like(r.msg)
    BY <1>4, <1>6
  <1> QED
    BY <1>2, <1>5, <1>10, <1>12, <1>13, <1>14, <1>15, <1>16

-----------------------------------------------------------------------------
(* Steps of a sync and of the server, in general. *)

\* A row of the next state is one there was, for a message like the one that it was
\* of, or one of a fresh id.
Came ==
  \A q \in rows' :
    \/ q.msg \in Born /\ \E r \in rows : r.id = q.id /\ q.msg \in Like(r.msg)
    \/ q.id = ids + 1 /\ q.msg \in Born

LEMMA SyncGoes ==
    ASSUME TypeOK, NEW s \in Syncers, NEW new, Go(s, new)
    PROVE  /\ sync'[s] = new
           /\ \A x \in Syncers \ {s} : sync'[x] = sync[x]
           /\ OneSync => Syncers = {s}
  BY Typed DEF Go, OneSync

LEMMA CallGoes ==
    ASSUME TypeOK, NEW t \in Setters, NEW new, Put(t, new)
    PROVE  /\ set'[t] = new
           /\ \A x \in Setters \ {t} : set'[x] = set[x]
  BY Typed DEF Put

LEMMA SyncRows ==
    ASSUME RowsInv, NEW s \in Syncers, NEW new, Go(s, new),
           UNCHANGED <<server, set, late>>,
           ids' \in Nat, ids <= ids', box' \in 0..validity, unread' \in Nat,
           cursor' \in Cursor, stray' \subseteq 1..ids', new \in Syncing',
           rows' \subseteq Row', Unique',
           new.at \in Deep => new.next.validity \in 1..validity
    PROVE  RowsInv'
  <1>1. TypeOK
    BY DEF RowsInv
  <1>2. 1..ids \subseteq 1..ids' /\ 0..ids \subseteq 0..ids'
    BY <1>1, Typed
  <1>3. Syncing \subseteq Syncing' /\ Setting \subseteq Setting'
    BY <1>2 DEF Syncing, Setting, Deep, Applying, Cursor, Raw, Coordinate, Keywords, Write, server
  <1>4. sync' \in [Syncers -> Syncing'] /\ set' \in [Setters -> Setting']
    BY <1>1, <1>3, Typed DEF Go
  <1>5. TypeOK'
    BY <1>1, <1>2, <1>4, Typed DEF TypeOK, Row, Syncing, Setting, Deep, Applying, server
  <1>6. Real'
    BY <1>1, <1>2, SyncGoes DEF RowsInv, Real, server
  <1> QED
    BY <1>5, <1>6 DEF RowsInv

LEMMA CameLives ==
    ASSUME RowsInv, LiveInv, UNCHANGED <<on, mod>>, Came, cursor'.known \subseteq Born
    PROVE  /\ Rowed'
           /\ \A t \in Setters : set'[t] = set[t] => Called(t)'
  <1>1. ids \in Nat /\ rows \subseteq Row /\ set \in [Setters -> Setting]
    BY Typed DEF RowsInv
  <1>2. Born' = Born /\ Born \subseteq Msgs
    BY DEF Born
  <1>3. Rowed'
    BY <1>2 DEF Came, LiveInv, Rowed
  <1>4. ASSUME NEW t \in Setters, set'[t] = set[t]
        PROVE  Called(t)'
    <2> SUFFICES ASSUME set[t].at \notin {"idle", "count"}
                 PROVE  Called(t)'
      BY <1>4 DEF Called
    <2>1. /\ Called(t) /\ set[t].msg \in Msgs /\ set[t].write.id \in 0..ids
      BY <1>1 DEF LiveInv, Setting, Write
    <2>2. ASSUME NEW q \in rows', q.id = set[t].write.id
          PROVE  q.msg \in Like(set[t].msg)
      <3>1. q.id # ids + 1
        BY <1>1, <2>1, <2>2
      <3>2. PICK r \in rows : r.id = q.id /\ q.msg \in Like(r.msg) /\ q.msg \in Born
        BY <3>1 DEF Came
      <3>3. r.msg \in Like(set[t].msg) /\ r.msg \in Msgs /\ q.msg \in Msgs
        BY <1>1, <1>2, <2>1, <2>2, <3>2 DEF Called, Row
      <3> QED
        BY <2>1, <3>2, <3>3, LikeEach
    <2> QED
      BY <1>2, <1>4, <2>1, <2>2 DEF Called
  <1> QED
    BY <1>3, <1>4

LEMMA SyncLives ==
    ASSUME RowsInv, LiveInv, OneSync, NEW s \in Syncers, NEW new, Go(s, new),
           UNCHANGED <<server, set>>, Came, cursor'.known \subseteq Born,
           FromServer(s)', Gone(s)', KnownIfLive(s)', Renewed(s)'
    PROVE  LiveInv'
  <1>1. Rowed' /\ \A t \in Setters : Called(t)'
    BY CameLives DEF server
  <1>2. Syncers = {s}
    BY SyncGoes DEF RowsInv
  <1> QED
    BY <1>1, <1>2 DEF LiveInv

\* Messages come and go on the server; one that is gone does not come back.
LEMMA ServerLives ==
    ASSUME LiveInv, UNCHANGED <<cache, sync>>,
           Born \subseteq Born', on' \subseteq Born', on' \cap Born \subseteq on
    PROVE  /\ Rowed'
           /\ \A s \in Syncers : FromServer(s)' /\ Gone(s)' /\ KnownIfLive(s)' /\ Renewed(s)'
           /\ \A t \in Setters : set'[t] = set[t] => Called(t)'
           /\ Kept
  <1>1. Rowed' /\ Kept
    BY DEF LiveInv, Rowed, cache, Kept
  <1>2. ASSUME NEW s \in Syncers
        PROVE  FromServer(s)' /\ Gone(s)' /\ KnownIfLive(s)' /\ Renewed(s)'
    BY DEF LiveInv, Rowed, cache, FromServer, Gone, KnownIfLive, Renewed
  <1>3. ASSUME NEW t \in Setters, set'[t] = set[t]
        PROVE  Called(t)'
    BY <1>3 DEF LiveInv, Rowed, cache, Called
  <1> QED
    BY <1>1, <1>2, <1>3

LEMMA ServerRows ==
    ASSUME RowsInv, UNCHANGED <<cache, sync, stray, late, kind>>,
           validity' \in Nat, validity <= validity', modseq' \in Nat, modseq <= modseq',
           on' \subseteq Msgs, flag' \in [Msgs -> Keywords], mod' \in [Msgs -> 0..modseq'],
           set' \in [Setters -> Setting]
    PROVE  RowsInv'
  <1>1. TypeOK
    BY DEF RowsInv
  <1>2. 1..validity \subseteq 1..validity' /\ 0..validity \subseteq 0..validity'
    BY <1>1, Typed
  <1>3. Row \subseteq Row' /\ Syncing \subseteq Syncing' /\ Setting' = Setting
    BY <1>2 DEF Row, cache, Keywords, Syncing, Setting, Write, Deep, Applying
  <1>4. TypeOK'
    <2>1. sync' \in [Syncers -> Syncing']
      BY <1>1, <1>3, Typed
    <2>2. rows' \subseteq Row' /\ set' \in [Setters -> Setting']
      BY <1>1, <1>3, Typed DEF cache
    <2> QED
      BY <1>1, <1>2, <2>1, <2>2, Typed DEF TypeOK, Row, Syncing, Setting, Deep, Applying, cache
  <1>5. Real' /\ Unique'
    BY <1>1, <1>2, Typed DEF RowsInv, Real, Unique, OneRowPerMessage, OneRowPerId, cache
  <1> QED
    BY <1>4, <1>5 DEF RowsInv

-----------------------------------------------------------------------------
(* The server, its other clients and the Email/set calls. *)

LEMMA ModsTyped ==
    ASSUME TypeOK, NEW m \in Msgs, Changed(m)
    PROVE  /\ modseq' \in Nat /\ modseq <= modseq' /\ mod' \in [Msgs -> 0..modseq']
           /\ Born' = Born \cup {m}
  <1>1. modseq' = modseq + 1 /\ mod' = [mod EXCEPT ![m] = modseq + 1] /\ modseq \in Nat
    BY Typed DEF Changed
  <1>2. mod' \in [Msgs -> 0..modseq']
    BY <1>1, Typed
  <1>3. \A x \in Msgs : mod'[x] # 0 <=> mod[x] # 0 \/ x = m
    BY <1>1, Typed
  <1> QED
    BY <1>1, <1>2, <1>3 DEF Born

LEMMA WorldStep ==
    ASSUME RowsInv, World
    PROVE  RowsInv' /\ (LiveInv => LiveInv' /\ Kept)
  <1>1. TypeOK
    BY DEF RowsInv
  <1> DEFINE Fits ==
      /\ UNCHANGED <<cache, sync, set, stray, late, kind>>
      /\ validity' \in Nat /\ validity <= validity' /\ modseq' \in Nat /\ modseq <= modseq'
      /\ on' \subseteq Msgs /\ flag' \in [Msgs -> Keywords] /\ mod' \in [Msgs -> 0..modseq']
      /\ Born \subseteq Born'
      /\ on \subseteq Born => on' \subseteq Born' /\ on' \cap Born \subseteq on
  <1>2. Fits
    <2>1. CASE Reset
      <3>1. mod \in [Msgs -> 0..(modseq + 1)]
        BY <1>1, Typed
      <3> QED
        BY <1>1, <2>1, <3>1, Typed DEF Reset, Born
    <2>2. ASSUME NEW m \in Msgs, Deliver(m)
          PROVE  Fits
      <3>1. m \notin Born
        BY <2>2 DEF Deliver, Born
      <3> QED
        BY <1>1, <2>2, <3>1, Typed, ModsTyped DEF Deliver, ByOthers
    <2>3. ASSUME NEW m \in Msgs, Expunge(m)
          PROVE  Fits
      BY <1>1, <2>3, Typed, ModsTyped DEF Expunge, ByOthers
    <2>4. ASSUME NEW m \in Msgs, Mark(m)
          PROVE  Fits
      BY <1>1, <2>4, Typed, ModsTyped DEF Mark, ByOthers
    <2> QED
      BY <2>1, <2>2, <2>3, <2>4 DEF World
  <1>3. RowsInv'
    BY <1>1, <1>2, Typed, ServerRows DEF RowsInv, Real
  <1>4. ASSUME LiveInv
        PROVE  LiveInv' /\ Kept
    BY <1>2, <1>4, ServerLives DEF LiveInv, Rowed
  <1> QED
    BY <1>3, <1>4

\* A row that a call reads is a message that was there.
LEMMA ReadRowStep ==
    ASSUME RowsInv, NEW t \in Setters, NEW r \in rows, NEW at \in {"store", "expunge"},
           NEW k \in Keywords, ReadRow(t, r, at, k)
    PROVE  RowsInv' /\ (LiveInv => LiveInv' /\ Kept)
  <1> DEFINE w == [id |-> r.id, was |-> r.flag, want |-> k]
             new == [at |-> at, msg |-> r.msg, validity |-> r.validity, write |-> w]
  <1>1. TypeOK /\ r \in Row /\ r.id \in 1..ids /\ validity \in Nat /\ ids \in Nat
    BY Typed DEF RowsInv, Row
  <1>2. w \in Write /\ w.id = r.id
    BY <1>1 DEF Row, Write
  <1>3. Put(t, new) /\ UNCHANGED <<server, cache, sync, stray, late>>
    BY DEF ReadRow, history
  <1> HIDE DEF w
  <1>4. new \in Setting /\ new.write.id = r.id /\ new.msg = r.msg /\ new.at = at
    BY <1>1, <1>2 DEF Row, Setting
  <1> HIDE DEF new
  <1>5. /\ set'[t] = new /\ (\A x \in Setters \ {t} : set'[x] = set[x])
        /\ set' \in [Setters -> Setting]
    BY <1>1, <1>3, <1>4, CallGoes, Typed DEF Put
  <1>6. RowsInv'
    BY <1>1, <1>3, <1>5, Typed, ServerRows DEF server
  <1>7. ASSUME LiveInv
        PROVE  LiveInv' /\ Kept
    <2>1. \A q \in rows : q.id = r.id => q.msg \in Like(r.msg)
      BY DEF RowsInv, Unique, OneRowPerId, Like
    <2>2. Called(t)'
      BY <1>3, <1>4, <1>5, <1>7, <2>1 DEF Called, server, cache, Born, LiveInv, Rowed
    <2>3. Born' = Born
      BY <1>3 DEF Born, server
    <2> QED
      BY <1>3, <1>5, <1>7, <2>2, <2>3, ServerLives DEF LiveInv, Rowed, server
  <1> QED
    BY <1>6, <1>7

\* Steps of a call that do not change rows: it ends, or goes on with what it read.
LEMMA CallOnServer ==
    ASSUME RowsInv, NEW t \in Setters, NEW new \in Setting, Put(t, new),
           UNCHANGED <<cache, sync, stray, late, kind, validity>>,
           modseq' \in Nat, modseq <= modseq', on' \subseteq on, flag' \in [Msgs -> Keywords],
           mod' \in [Msgs -> 0..modseq'], Born \subseteq Born',
           new.at \notin {"idle", "count"} =>
             /\ set[t].at \notin {"idle", "count"}
             /\ new.write.id = set[t].write.id /\ new.msg = set[t].msg
             /\ new.at = "remove" => new.msg \notin on'
    PROVE  RowsInv' /\ (LiveInv => LiveInv' /\ Kept)
  <1>1. TypeOK /\ ids \in Nat /\ validity \in Nat /\ on \subseteq Msgs
    BY Typed DEF RowsInv
  <1>2. /\ set'[t] = new /\ (\A x \in Setters \ {t} : set'[x] = set[x])
        /\ set' \in [Setters -> Setting]
    BY <1>1, CallGoes, Typed DEF Put
  <1>3. RowsInv'
    BY <1>1, <1>2, Typed, ServerRows
  <1>4. ASSUME LiveInv
        PROVE  LiveInv' /\ Kept
    <2>1. Called(t)'
      BY <1>2, <1>4 DEF Called, cache, LiveInv
    <2> QED
      BY <1>2, <1>4, <2>1, ServerLives DEF LiveInv, Rowed
  <1> QED
    BY <1>3, <1>4

LEMMA AtSet ==
    ASSUME RowsInv, NEW t \in Setters
    PROVE  /\ set[t] \in Setting /\ set[t].msg \in Msgs /\ set[t].write \in Write
           /\ NoSet \in Setting /\ NoSet.at = "idle"
           /\ ids \in Nat /\ modseq \in Nat
           /\ flag \in [Msgs -> Keywords] /\ mod \in [Msgs -> 0..modseq]
  BY Typed, NoSetTyped, BlankTyped DEF RowsInv, Setting

LEMMA SetPasses ==
    ASSUME RowsInv, NEW t \in Setters,
           NEW at \in {"read", "write", "count", "marked", "remove"}
    PROVE  /\ [set[t] EXCEPT !.at = at] \in Setting
           /\ [set[t] EXCEPT !.at = at].at = at
           /\ [set[t] EXCEPT !.at = at].msg = set[t].msg
           /\ [set[t] EXCEPT !.at = at].write = set[t].write
  BY AtSet DEF Setting

LEMMA StoreFlagStep ==
    ASSUME RowsInv, NEW t \in Setters, StoreFlag(t)
    PROVE  RowsInv' /\ (LiveInv => LiveInv' /\ Kept)
  <1>1. /\ UNCHANGED <<cache, sync, stray, late, kind, validity, on>>
        /\ modseq' \in Nat /\ modseq <= modseq' /\ flag' \in [Msgs -> Keywords]
        /\ mod' \in [Msgs -> 0..modseq'] /\ Born \subseteq Born'
    <2>1. CASE Changed(set[t].msg) /\ flag' = [flag EXCEPT ![set[t].msg] = set[t].write.want]
      <3>1. set[t].write.want \in Keywords /\ set[t].msg \in Msgs /\ TypeOK
        BY AtSet DEF Write, RowsInv
      <3>2. flag' \in [Msgs -> Keywords]
        BY <2>1, <3>1, AtSet
      <3>3. /\ modseq' \in Nat /\ modseq <= modseq' /\ mod' \in [Msgs -> 0..modseq']
            /\ Born \subseteq Born'
        BY <2>1, <3>1, ModsTyped
      <3> QED
        BY <3>2, <3>3 DEF StoreFlag
    <2>2. CASE UNCHANGED <<flag, mod, modseq>>
      BY <2>2, AtSet DEF StoreFlag, Born
    <2> QED
      BY <2>1, <2>2 DEF StoreFlag
  <1>2. PICK new : Put(t, new) /\ (new = NoSet \/ new = [set[t] EXCEPT !.at = "read"])
    BY DEF StoreFlag, Pass
  <1>3. /\ new \in Setting /\ new.at \in {"idle", "read"}
        /\ new.at # "idle" => new.write.id = set[t].write.id /\ new.msg = set[t].msg
    <2>1. CASE new = NoSet
      BY <2>1, AtSet
    <2>2. CASE new = [set[t] EXCEPT !.at = "read"]
      BY <2>2, SetPasses
    <2> QED
      BY <1>2, <2>1, <2>2
  <1>4. set[t].at \notin {"idle", "count"}
    BY DEF StoreFlag
  <1>5. on' \subseteq on /\ (new.at = "remove" => new.msg \notin on')
    BY <1>1, <1>3
  <1> QED
    BY <1>1, <1>2, <1>3, <1>4, <1>5, CallOnServer

LEMMA ReadFlagsStep ==
    ASSUME RowsInv, NEW t \in Setters, ReadFlags(t)
    PROVE  RowsInv' /\ (LiveInv => LiveInv' /\ Kept)
  <1>1. /\ UNCHANGED <<cache, sync, stray, late, kind, validity, on, flag, mod, modseq>>
        /\ Born' = Born /\ set[t].at \notin {"idle", "count"}
    BY DEF ReadFlags, server, history, Born
  <1>2. PICK new : /\ Put(t, new)
                   /\ \/ new = NoSet
                      \/ \E r \in rows : new = [set[t] EXCEPT !.at = "write", !.write.was = r.flag]
    BY DEF ReadFlags, Stored
  <1>3. /\ new \in Setting /\ new.at \in {"idle", "write"}
        /\ new.at # "idle" => new.write.id = set[t].write.id /\ new.msg = set[t].msg
    <2>1. CASE new = NoSet
      BY <2>1, AtSet
    <2>2. ASSUME NEW r \in rows, new = [set[t] EXCEPT !.at = "write", !.write.was = r.flag]
          PROVE  new \in Setting /\ new.at = "write" /\ new.write.id = set[t].write.id
                 /\ new.msg = set[t].msg
      <3>1. r.flag \in Keywords
        BY Typed DEF RowsInv, Row
      <3>2. /\ [set[t].write EXCEPT !.was = r.flag] \in Write
            /\ [set[t].write EXCEPT !.was = r.flag].id = set[t].write.id
        BY <3>1, AtSet DEF Write
      <3>3. new = [set[t] EXCEPT !.at = "write", !.write = [set[t].write EXCEPT !.was = r.flag]]
        BY <2>2
      <3> QED
        BY <3>2, <3>3, AtSet DEF Setting
    <2> QED
      BY <1>2, <2>1, <2>2
  <1>4. /\ modseq' \in Nat /\ modseq <= modseq' /\ flag' \in [Msgs -> Keywords]
        /\ mod' \in [Msgs -> 0..modseq'] /\ on' \subseteq on /\ Born \subseteq Born'
    BY <1>1, AtSet
  <1> QED
    BY <1>1, <1>2, <1>3, <1>4, CallOnServer

LEMMA StoreDeletedStep ==
    ASSUME RowsInv, NEW t \in Setters, StoreDeleted(t) \/ StoreExpunge(t)
    PROVE  RowsInv' /\ (LiveInv => LiveInv' /\ Kept)
  <1>1. /\ UNCHANGED <<cache, sync, stray, late, kind, validity, flag>>
        /\ modseq' \in Nat /\ modseq <= modseq' /\ on' \subseteq on
        /\ mod' \in [Msgs -> 0..modseq'] /\ Born \subseteq Born'
        /\ StoreExpunge(t) /\ set[t].validity = validity => set[t].msg \notin on'
    <2>1. /\ UNCHANGED <<cache, sync, stray, late, kind, validity, flag>>
          /\ Changed(set[t].msg) \/ UNCHANGED <<mod, modseq>>
          /\ on' \subseteq on
      BY DEF StoreDeleted, StoreExpunge, history
    <2>2. /\ modseq' \in Nat /\ modseq <= modseq'
          /\ mod' \in [Msgs -> 0..modseq'] /\ Born \subseteq Born'
      <3>1. CASE Changed(set[t].msg)
        <4>1. TypeOK /\ set[t].msg \in Msgs
          BY AtSet DEF RowsInv
        <4> QED
          BY <3>1, <4>1, ModsTyped
      <3>2. CASE UNCHANGED <<mod, modseq>>
        BY <3>2, AtSet DEF Born
      <3> QED
        BY <2>1, <3>1, <3>2
    <2> QED
      BY <2>1, <2>2 DEF StoreExpunge
  <1>2. PICK new : /\ Put(t, new)
                   /\ \/ new = NoSet
                      \/ new = [set[t] EXCEPT !.at = "marked"]
                      \/ /\ new = [set[t] EXCEPT !.at = "remove"]
                         /\ StoreExpunge(t) /\ set[t].validity = validity
    BY DEF StoreDeleted, StoreExpunge, Pass
  <1>3. set[t].at \notin {"idle", "count"}
    BY DEF StoreDeleted, StoreExpunge
  <1>4. /\ new \in Setting
        /\ new.at # "idle" => new.write.id = set[t].write.id /\ new.msg = set[t].msg
        /\ new.at = "remove" => new.msg \notin on'
    <2>1. CASE new = NoSet
      BY <2>1, AtSet
    <2>2. CASE new = [set[t] EXCEPT !.at = "marked"]
      BY <2>2, SetPasses
    <2>3. CASE /\ new = [set[t] EXCEPT !.at = "remove"]
               /\ StoreExpunge(t) /\ set[t].validity = validity
      BY <1>1, <2>3, SetPasses
    <2> QED
      BY <1>2, <2>1, <2>2, <2>3
  <1>5. flag' \in [Msgs -> Keywords]
    BY <1>1, AtSet
  <1> QED
    BY <1>1, <1>2, <1>3, <1>4, <1>5, CallOnServer

LEMMA EndCallStep ==
    ASSUME RowsInv, NEW t \in Setters, Abandon(t) \/ RefuseDestroy(t)
    PROVE  RowsInv' /\ (LiveInv => LiveInv' /\ Kept)
  <1>1. UNCHANGED <<server, cache, sync, stray, late>> /\ Put(t, NoSet)
    BY DEF Abandon, RefuseDestroy, history
  <1>2. /\ UNCHANGED <<cache, sync, stray, late, kind, validity>>
        /\ on' = on /\ flag' = flag /\ mod' = mod /\ modseq' = modseq /\ Born' = Born
    BY <1>1 DEF server, Born
  <1> QED
    BY <1>1, <1>2, AtSet, CallOnServer

\* Steps of a call on the cache leave the server and the syncs alone.
LEMMA CallOnRows ==
    ASSUME RowsInv, NEW t \in Setters, NEW new \in Setting, Put(t, new),
           new.at \in {"idle", "count"},
           UNCHANGED <<server, box, cursor, ids, sync, stray>>,
           late' \subseteq 1..ids, unread' \in Nat, rows' \subseteq Row, Unique',
           \A q \in rows' : \E r \in rows : q.id = r.id /\ q.msg = r.msg /\ q.validity = r.validity,
           LiveInv => Stays
    PROVE  RowsInv' /\ (LiveInv => LiveInv' /\ Kept)
  <1>1. TypeOK /\ ids \in Nat /\ validity \in Nat
    BY Typed DEF RowsInv
  <1>2. /\ set'[t] = new /\ (\A x \in Setters \ {t} : set'[x] = set[x])
        /\ set' \in [Setters -> Setting]
    BY <1>1, CallGoes, Typed DEF Put
  <1>3. TypeOK'
    BY <1>1, <1>2, Typed DEF TypeOK, Row, Syncing, Setting, Deep, Applying, server, Write
  <1>4. Real'
    BY DEF RowsInv, Real, server
  <1>5. ASSUME LiveInv
        PROVE  LiveInv' /\ Kept
    <2>1. Came
      BY <1>5 DEF Came, LiveInv, Rowed, Like
    <2>2. /\ Rowed' /\ Called(t)'
          /\ \A x \in Setters \ {t} : Called(x)'
      BY <1>2, <1>5, <2>1, CameLives DEF server, LiveInv, Rowed, Called
    <2>3. ASSUME NEW s \in Syncers
          PROVE  FromServer(s)' /\ Gone(s)' /\ KnownIfLive(s)' /\ Renewed(s)'
      <3>1. FromServer(s)' /\ Gone(s)'
        BY <1>5 DEF LiveInv, FromServer, Gone, server, Born
      <3>2. KnownIfLive(s)'
        BY <1>5 DEF LiveInv, KnownIfLive, server
      <3>3. Renewed(s)'
        <4>1. Renewed(s) /\ on' = on /\ sync' = sync
          BY <1>5 DEF LiveInv, server
        <4>2. ASSUME NEW q \in rows', q.msg \in on, Alone(q.msg),
                     sync[s].cursor.validity # sync[s].next.validity, sync[s].at \in Applying
              PROVE  \/ \E x \in rows' : x.msg = q.msg /\ x.validity = sync[s].next.validity
                     \/ \E raw \in sync[s].raws : raw.msg = q.msg
          BY <1>5, <4>1, <4>2 DEF Stays, Renewed
        <4> QED
          BY <4>1, <4>2 DEF Renewed
      <3> QED
        BY <3>1, <3>2, <3>3
    <2>4. Kept
      BY <1>5 DEF Stays, Kept
    <2> QED
      BY <2>2, <2>3, <2>4 DEF LiveInv
  <1> QED
    BY <1>3, <1>4, <1>5 DEF RowsInv

LEMMA WriteFlagStep ==
    ASSUME RowsInv, NEW t \in Setters, WriteFlag(t)
    PROVE  RowsInv' /\ (LiveInv => LiveInv' /\ Kept)
  <1> DEFINE w == set[t].write
  <1>1. /\ SetFlags(w) /\ Put(t, [set[t] EXCEPT !.at = "count"])
        /\ UNCHANGED <<server, box, unread, cursor, ids, sync, stray>>
        /\ late' \subseteq late \cup {r.id : r \in rows}
    BY DEF WriteFlag, Pass, Stored
  <1>2. late' \subseteq 1..ids /\ unread' \in Nat
    BY <1>1, Typed DEF RowsInv, Row
  <1>3. w \in Write
    BY AtSet
  <1> HIDE DEF w
  <1>4. /\ rows' \subseteq Row /\ Unique'
        /\ \A q \in rows' : \E r \in rows :
             q.id = r.id /\ q.msg = r.msg /\ q.validity = r.validity
        /\ \A r \in rows : \E q \in rows' :
             q.id = r.id /\ q.msg = r.msg /\ q.validity = r.validity
    BY <1>1, <1>3, SetFlagsRows DEF RowsInv
  <1>5. Stays
    BY <1>4 DEF Stays
  <1>6. /\ [set[t] EXCEPT !.at = "count"] \in Setting
        /\ [set[t] EXCEPT !.at = "count"].at = "count"
    BY SetPasses
  <1> QED
    BY <1>1, <1>2, <1>4, <1>5, <1>6, CallOnRows

LEMMA CountSetStep ==
    ASSUME RowsInv, NEW t \in Setters, CountSet(t)
    PROVE  RowsInv' /\ (LiveInv => LiveInv' /\ Kept)
  <1>1. /\ Count(set[t].write) /\ Put(t, NoSet)
        /\ UNCHANGED <<server, box, rows, cursor, ids, sync, stray, late>>
    BY DEF CountSet, history
  <1>2. unread' \in Nat
    BY <1>1, Counts DEF RowsInv
  <1>3. rows' \subseteq Row /\ Unique' /\ late' \subseteq 1..ids /\ Stays
    BY <1>1, Typed, FewerRows DEF RowsInv, Stays
  <1> QED
    BY <1>1, <1>2, <1>3, AtSet, CallOnRows

\* The row that a call removes is of a message that is gone, or of one like it.
LEMMA RemoveRowStep ==
    ASSUME RowsInv, NEW t \in Setters, RemoveRow(t)
    PROVE  RowsInv' /\ (LiveInv => LiveInv' /\ Kept)
  <1> DEFINE gone == Stored(set[t].write.id)
             new == [set[t] EXCEPT !.at = "count", !.write = Deleted(gone)]
  <1>1. /\ rows' = rows \ gone /\ Put(t, new) /\ set[t].at = "remove"
        /\ UNCHANGED <<server, box, unread, cursor, ids, sync, stray, late>>
    BY DEF RemoveRow, history
  <1>2. new \in Setting /\ new.at = "count"
    BY AtSet, DeletedTyped DEF Setting
  <1>3. ASSUME LiveInv, NEW r \in gone, Alone(r.msg)
        PROVE  r.msg \notin on
    <2>1. /\ r \in rows /\ r.msg \in Msgs /\ r.msg \in Like(set[t].msg)
          /\ set[t].msg \in Msgs /\ set[t].msg \notin on
      BY <1>1, <1>3, AtSet, Typed DEF LiveInv, Called, Stored, RowsInv, Row
    <2> QED
      BY <1>3, <2>1, LikeEach
  <1> HIDE DEF gone, new
  <1>4. rows' \subseteq Row /\ Unique' /\ rows' \subseteq rows
    BY <1>1, FewerRows DEF RowsInv
  <1>5. LiveInv => Stays
    BY <1>1, <1>3 DEF Stays
  <1>6. late' \subseteq 1..ids /\ unread' \in Nat
    BY <1>1, Typed DEF RowsInv
  <1> QED
    BY <1>1, <1>2, <1>4, <1>5, <1>6, CallOnRows

-----------------------------------------------------------------------------
(* The sync. *)

Lively(s) == FromServer(s) /\ Gone(s) /\ KnownIfLive(s) /\ Renewed(s)

\* The types of the state where no id was given out.
LEMMA SameIds == UNCHANGED <<ids, validity>> => Syncing' = Syncing /\ Row' = Row
  BY DEF Syncing, Row, Deep, Applying, Cursor, Raw, Coordinate, Keywords, Write

\* Steps of a sync that only read.
LEMMA ReadingStep ==
    ASSUME RowsInv, NEW s \in Syncers, NEW new \in Syncing, Go(s, new),
           UNCHANGED <<server, cache, set, history>>,
           new.at \in Deep => new.next.validity \in 1..validity,
           LiveInv /\ OneSync => Lively(s)'
    PROVE  RowsInv' /\ (LiveInv /\ OneSync => LiveInv' /\ Kept)
  <1>1. TypeOK /\ ids \in Nat /\ validity \in Nat
    BY Typed DEF RowsInv
  <1>2. Syncing' = Syncing /\ Row' = Row
    BY SameIds DEF server, cache
  <1>3. RowsInv'
    BY <1>1, <1>2, Typed, SyncRows, FewerRows DEF cache, history, RowsInv
  <1>4. ASSUME LiveInv, OneSync
        PROVE  LiveInv' /\ Kept
    <2>1. Came /\ cursor'.known \subseteq Born /\ Kept
      BY <1>4 DEF Came, cache, LiveInv, Rowed, Kept, Like
    <2> QED
      BY <1>4, <2>1, SyncLives DEF history, Lively
  <1> QED
    BY <1>3, <1>4

LEMMA AtSync ==
    ASSUME RowsInv, NEW s \in Syncers
    PROVE  /\ sync[s] \in Syncing /\ validity \in Nat /\ validity # 0 /\ modseq \in Nat
           /\ ids \in Nat /\ rows \subseteq Row /\ on \subseteq Msgs
           /\ sync[s].at \in Deep => sync[s].next.validity \in 1..validity
           /\ mod \in [Msgs -> 0..modseq]
  BY Typed DEF RowsInv, Real

LEMMA SinceIsBorn ==
    ASSUME RowsInv, NEW n \in Nat
    PROVE  Since(n) \subseteq Born /\ Since(n) \subseteq Msgs
  BY Typed DEF RowsInv, Since, Born

LEMMA SelectQresyncStep ==
    ASSUME RowsInv, NEW s \in Syncers, SelectQresync(s)
    PROVE  RowsInv' /\ (LiveInv /\ OneSync => LiveInv' /\ Kept)
  <1> DEFINE c == sync[s].cursor
             told == Seen(on \cap Since(c.modseq))
             left == {[msg |-> m, validity |-> validity] : m \in Since(c.modseq) \ on}
             new == [sync[s] EXCEPT !.at = "reconcile", !.changed = told, !.removed = left,
                                    !.next = [c EXCEPT !.modseq = modseq]]
  <1>1. c \in Cursor /\ c.modseq \in Nat
    BY AtSync DEF Syncing, Cursor
  <1>2. [c EXCEPT !.modseq = modseq] \in Cursor
    BY <1>1, AtSync DEF Cursor
  <1>3. told \subseteq Raw /\ \A x \in told : x.msg \in on
    BY <1>1, AtSync, SinceIsBorn, SeenTyped DEF RowsInv
  <1>4. left \subseteq Coordinate /\ \A ref \in left : ref.msg \in Born /\ ref.msg \notin on
    BY <1>1, AtSync, SinceIsBorn DEF Coordinate
  <1>5. Go(s, new) /\ UNCHANGED <<server, cache, set, history>>
        /\ c.tag = "qresync" /\ c.validity = validity
    BY DEF SelectQresync
  <1> HIDE DEF told, left
  <1>6. /\ new \in Syncing /\ new.at = "reconcile" /\ new.cursor = c /\ new.changed = told
        /\ new.removed = left /\ new.raws = sync[s].raws /\ new.added = sync[s].added
        /\ new.next.tag = c.tag /\ new.next.validity = c.validity /\ new.next.known = c.known
    BY <1>1, <1>2, <1>3, <1>4, AtSync DEF Syncing, Deep, Cursor
  <1> HIDE DEF new, c
  <1>7. sync'[s] = new
    BY <1>5, SyncGoes DEF RowsInv
  <1>8. new.at \in Deep => new.next.validity \in 1..validity
    BY <1>5, <1>6, AtSync
  <1>9. ASSUME LiveInv
        PROVE  Lively(s)'
    <2>1. FromServer(s)' /\ Gone(s)'
      BY <1>3, <1>4, <1>5, <1>6, <1>7, <1>9
         DEF LiveInv, Rowed, FromServer, Gone, server, Born, c
    <2>2. KnownIfLive(s)' /\ Renewed(s)'
      BY <1>5, <1>6, <1>7 DEF KnownIfLive, Renewed
    <2> QED
      BY <2>1, <2>2 DEF Lively
  <1> QED
    BY <1>5, <1>6, <1>8, <1>9, ReadingStep

LEMMA SelectOtherStep ==
    ASSUME RowsInv, NEW s \in Syncers, SelectOther(s)
    PROVE  RowsInv' /\ (LiveInv /\ OneSync => LiveInv' /\ Kept)
  <1> DEFINE next == [tag |-> IF kind = "qresync" THEN "qresync" ELSE "snapshot",
                      validity |-> validity, known |-> {},
                      modseq |-> IF kind = "plain" THEN 0 ELSE modseq]
             new == [sync[s] EXCEPT !.at = "search", !.next = next]
  <1>1. next \in Cursor /\ next.validity = validity /\ next.known = {}
    BY AtSync DEF Cursor
  <1>2. Go(s, new) /\ UNCHANGED <<server, cache, set, history>>
    BY DEF SelectOther
  <1> HIDE DEF next
  <1>3. /\ new \in Syncing /\ new.at = "search" /\ new.cursor = sync[s].cursor
        /\ new.next = next /\ new.raws = sync[s].raws /\ new.added = sync[s].added
        /\ new.changed = sync[s].changed /\ new.removed = sync[s].removed
    BY <1>1, AtSync DEF Syncing, Deep
  <1> HIDE DEF new
  <1>4. sync'[s] = new
    BY <1>2, SyncGoes DEF RowsInv
  <1>5. ASSUME LiveInv
        PROVE  Lively(s)'
    BY <1>1, <1>2, <1>3, <1>4, <1>5
       DEF LiveInv, FromServer, Gone, KnownIfLive, Renewed, server, Born, Lively, Applying
  <1> QED
    BY <1>1, <1>2, <1>3, <1>5, AtSync, ReadingStep

LEMMA SearchStep ==
    ASSUME RowsInv, NEW s \in Syncers, Search(s)
    PROVE  RowsInv' /\ (LiveInv /\ OneSync => LiveInv' /\ Kept)
  <1> DEFINE left == {[msg |-> m, validity |-> sync[s].next.validity] : m \in Known(s) \ on}
  <1>1. /\ sync[s].at = "search" /\ UNCHANGED <<server, cache, set, history>>
        /\ sync[s].cursor \in Cursor /\ sync[s].next \in Cursor
        /\ Known(s) \subseteq sync[s].cursor.known /\ Known(s) \subseteq Msgs
        /\ sync[s].cursor.validity # sync[s].next.validity => Known(s) = {}
    BY AtSync DEF Search, Known, Syncing, Cursor
  <1>2. left \subseteq Coordinate /\ \A ref \in left : ref.msg \in Known(s) \ on
    BY <1>1 DEF Coordinate, Cursor
  <1>3. PICK new : /\ Go(s, new)
                   /\ \/ /\ sync[s].next.tag = "qresync"
                         /\ new = [sync[s] EXCEPT !.at = "reconcile", !.added = on]
                      \/ /\ sync[s].next.tag # "qresync"
                         /\ new = [sync[s] EXCEPT !.at = "fetch", !.added = on \ Known(s),
                                                  !.removed = left, !.next.known = on]
    BY DEF Search
  <1> HIDE DEF left
  <1>4. /\ new \in Syncing /\ new.cursor = sync[s].cursor
        /\ new.next.validity = sync[s].next.validity /\ new.next.tag = sync[s].next.tag
        /\ new.raws = sync[s].raws /\ new.changed = sync[s].changed
        /\ \/ /\ new.at = "reconcile" /\ new.next = sync[s].next /\ new.next.tag = "qresync"
              /\ new.added = on /\ new.removed = sync[s].removed
           \/ /\ new.at = "fetch" /\ new.next.known = on
              /\ new.added = on \ Known(s) /\ new.removed = left
    <2>1. [sync[s].next EXCEPT !.known = on] \in Cursor
      BY <1>1, AtSync DEF Cursor
    <2>2. /\ [sync[s].next EXCEPT !.known = on].known = on
          /\ [sync[s].next EXCEPT !.known = on].validity = sync[s].next.validity
          /\ [sync[s].next EXCEPT !.known = on].tag = sync[s].next.tag
      BY <1>1 DEF Cursor
    <2>3. CASE new = [sync[s] EXCEPT !.at = "reconcile", !.added = on]
      BY <1>1, <1>3, <2>3, AtSync DEF Syncing, Deep
    <2>4. CASE new = [sync[s] EXCEPT !.at = "fetch", !.added = on \ Known(s),
                                     !.removed = left, !.next = [sync[s].next EXCEPT !.known = on]]
      BY <1>1, <1>2, <2>1, <2>2, <2>4, AtSync DEF Syncing, Deep
    <2> QED
      BY <1>3, <2>3, <2>4
  <1>5. sync'[s] = new
    BY <1>3, SyncGoes DEF RowsInv
  <1>6. new.at \in Deep => new.next.validity \in 1..validity
    BY <1>1, <1>4, AtSync DEF Deep
  <1>7. ASSUME LiveInv
        PROVE  Lively(s)'
    <2>1. FromServer(s)' /\ Gone(s)'
      BY <1>1, <1>2, <1>4, <1>5, <1>7 DEF LiveInv, Rowed, FromServer, Gone, server, Born
    <2>2. KnownIfLive(s)' /\ Renewed(s)'
      BY <1>1, <1>4, <1>5, <1>7 DEF KnownIfLive, Renewed, server, cache, Applying
    <2> QED
      BY <2>1, <2>2 DEF Lively
  <1> QED
    BY <1>1, <1>3, <1>4, <1>6, <1>7, ReadingStep

LEMMA FetchFlagsStep ==
    ASSUME RowsInv, NEW s \in Syncers, FetchFlags(s)
    PROVE  RowsInv' /\ (LiveInv /\ OneSync => LiveInv' /\ Kept)
  <1> DEFINE told == Seen(Flagged(s))
             new == [sync[s] EXCEPT !.at = "reconcile", !.changed = told]
  <1>1. sync[s].at = "fetch" /\ Go(s, new) /\ UNCHANGED <<server, cache, set, history>>
    BY DEF FetchFlags
  <1>2. Flagged(s) \subseteq on
    BY DEF Flagged
  <1>3. told \subseteq Raw /\ \A x \in told : x.msg \in on
    BY <1>2, AtSync, SeenTyped DEF RowsInv
  <1> HIDE DEF told
  <1>4. /\ new \in Syncing /\ new.at = "reconcile" /\ new.cursor = sync[s].cursor
        /\ new.next = sync[s].next /\ new.raws = sync[s].raws /\ new.added = sync[s].added
        /\ new.changed = told /\ new.removed = sync[s].removed
    BY <1>3, AtSync DEF Syncing, Deep
  <1> HIDE DEF new
  <1>5. sync'[s] = new
    BY <1>1, SyncGoes DEF RowsInv
  <1>6. ASSUME LiveInv
        PROVE  Lively(s)'
    <2>1. FromServer(s)' /\ Gone(s)'
      BY <1>1, <1>3, <1>4, <1>5, <1>6 DEF LiveInv, Rowed, FromServer, Gone, server, Born
    <2>2. KnownIfLive(s)' /\ Renewed(s)'
      BY <1>1, <1>4, <1>5, <1>6 DEF LiveInv, KnownIfLive, Renewed, server, cache, Applying
    <2> QED
      BY <2>1, <2>2 DEF Lively
  <1> QED
    BY <1>1, <1>4, <1>6, AtSync, ReadingStep DEF Deep

LEMMA FetchRawStep ==
    ASSUME RowsInv, NEW s \in Syncers, FetchRaw(s)
    PROVE  RowsInv' /\ (LiveInv /\ OneSync => LiveInv' /\ Kept)
  <1> DEFINE found == Seen(sync[s].added \cap on)
             new == [sync[s] EXCEPT !.at = "apply", !.raws = found, !.added = {}]
  <1>1. sync[s].at = "raw" /\ Go(s, new) /\ UNCHANGED <<server, cache, set, history>>
    BY DEF FetchRaw
  <1>2. /\ found \subseteq Raw /\ \A x \in found : x.msg \in on
        /\ \A m \in sync[s].added \cap on : \E x \in found : x.msg = m
    BY AtSync, SeenTyped DEF RowsInv
  <1> HIDE DEF found
  <1>3. /\ new \in Syncing /\ new.at = "apply" /\ new.cursor = sync[s].cursor
        /\ new.next = sync[s].next /\ new.raws = found /\ new.added = {}
        /\ new.changed = sync[s].changed /\ new.removed = sync[s].removed
    BY <1>2, AtSync DEF Syncing, Deep, Applying
  <1> HIDE DEF new
  <1>4. sync'[s] = new
    BY <1>1, SyncGoes DEF RowsInv
  <1>5. ASSUME LiveInv
        PROVE  Lively(s)'
    <2>1. FromServer(s)' /\ Gone(s)'
      BY <1>1, <1>2, <1>3, <1>4, <1>5 DEF LiveInv, Rowed, FromServer, Gone, server, Born
    <2>2. KnownIfLive(s)' /\ Renewed(s)'
      BY <1>1, <1>2, <1>3, <1>4, <1>5 DEF LiveInv, KnownIfLive, Renewed, server, cache, Applying
    <2> QED
      BY <2>1, <2>2 DEF Lively
  <1> QED
    BY <1>1, <1>3, <1>5, AtSync, ReadingStep DEF Deep

LEMMA Revalidated ==
    ASSUME RowsInv, NEW v \in 0..validity, Revalidate(v)
    PROVE  /\ box' \in 0..validity /\ cursor' \in Cursor
           /\ LiveInv => cursor'.known \subseteq Born
  BY Typed, BlankTyped DEF Revalidate, RowsInv, LiveInv, Rowed

LEMMA ListStep ==
    ASSUME RowsInv, NEW s \in Syncers, List(s)
    PROVE  RowsInv' /\ (LiveInv /\ OneSync => LiveInv' /\ Kept)
  <1> DEFINE list == [validity |-> validity,
                      unread |-> Cardinality({m \in on : flag[m] = "unread"})]
             new == [NoSync EXCEPT !.at = "listed", !.list = list]
  <1>1. Go(s, new) /\ UNCHANGED <<server, cache, set, history>>
    BY DEF List
  <1>2. list \in [validity : 0..validity, unread : Nat]
    <2>1. IsFiniteSet({m \in on : flag[m] = "unread"})
      BY MsgsAssumption, AtSync, FS_Subset, Typed DEF RowsInv
    <2> QED
      BY <2>1, FS_CardinalityType, AtSync
  <1> HIDE DEF list
  <1>3. /\ new \in Syncing /\ new.at = "listed" /\ new.cursor = NoCursor /\ new.next = NoCursor
        /\ new.raws = {} /\ new.added = {} /\ new.changed = {} /\ new.removed = {}
    BY <1>2, NoSyncTyped, BlankTyped, AtSync DEF Syncing
  <1> HIDE DEF new
  <1>4. sync'[s] = new
    BY <1>1, SyncGoes DEF RowsInv
  <1>5. Lively(s)'
    BY <1>3, <1>4, BlankTyped DEF Lively, FromServer, Gone, KnownIfLive, Renewed, Applying
  <1> QED
    BY <1>1, <1>3, <1>5, ReadingStep DEF Deep, Applying

LEMMA RegisterStep ==
    ASSUME RowsInv, NEW s \in Syncers, Register(s)
    PROVE  RowsInv' /\ (LiveInv /\ OneSync => LiveInv' /\ Kept)
  <1> DEFINE new == [sync[s] EXCEPT !.at = "load", !.list = NoList]
  <1>1. /\ Revalidate(sync[s].list.validity) /\ Go(s, new) /\ unread' = sync[s].list.unread
        /\ UNCHANGED <<server, rows, ids, set, stray, late>>
    BY DEF Register, history
  <1>2. sync[s].list \in [validity : 0..validity, unread : Nat]
    BY AtSync DEF Syncing
  <1>3. /\ box' \in 0..validity /\ cursor' \in Cursor
        /\ LiveInv => cursor'.known \subseteq Born
    BY <1>1, <1>2, Revalidated
  <1>4. /\ new \in Syncing /\ new.at = "load" /\ new.cursor = sync[s].cursor
        /\ new.next = sync[s].next /\ new.raws = sync[s].raws /\ new.added = sync[s].added
        /\ new.changed = sync[s].changed /\ new.removed = sync[s].removed
    BY AtSync, NoListTyped DEF Syncing
  <1> HIDE DEF new
  <1>5. sync'[s] = new
    BY <1>1, SyncGoes DEF RowsInv
  <1>6. RowsInv'
    BY <1>1, <1>2, <1>3, <1>4, AtSync, SameIds, SyncRows, FewerRows, Typed
       DEF RowsInv, Deep, Applying, server
  <1>7. ASSUME LiveInv, OneSync
        PROVE  LiveInv' /\ Kept
    <2>1. Born' = Born /\ Came /\ Kept
      BY <1>1, <1>7 DEF Born, server, Came, Kept, LiveInv, Rowed, Like
    <2>2. FromServer(s)' /\ Gone(s)' /\ KnownIfLive(s)' /\ Renewed(s)'
      BY <1>1, <1>4, <1>5, <1>7, <2>1
         DEF LiveInv, FromServer, Gone, KnownIfLive, Renewed, server, Applying
    <2> QED
      BY <1>1, <1>3, <1>7, <2>1, <2>2, SyncLives
  <1> QED
    BY <1>6, <1>7

LEMMA LoadStep ==
    ASSUME RowsInv, NEW s \in Syncers, Load(s)
    PROVE  RowsInv' /\ (LiveInv /\ OneSync => LiveInv' /\ Kept)
  <1> DEFINE new == [sync[s] EXCEPT !.at = "select", !.cursor = cursor]
  <1>1. Go(s, new) /\ UNCHANGED <<server, cache, set, history>>
    BY DEF Load
  <1>2. cursor \in Cursor
    BY Typed DEF RowsInv
  <1>3. /\ new \in Syncing /\ new.at = "select" /\ new.cursor = cursor
        /\ new.next = sync[s].next /\ new.raws = sync[s].raws /\ new.added = sync[s].added
        /\ new.changed = sync[s].changed /\ new.removed = sync[s].removed
    BY <1>2, AtSync DEF Syncing
  <1> HIDE DEF new
  <1>4. sync'[s] = new
    BY <1>1, SyncGoes DEF RowsInv
  <1>5. ASSUME LiveInv
        PROVE  Lively(s)'
    BY <1>1, <1>3, <1>4, <1>5
       DEF LiveInv, Rowed, Lively, FromServer, Gone, KnownIfLive, Renewed, server, Born, Applying
  <1> QED
    BY <1>1, <1>3, <1>5, ReadingStep DEF Deep, Applying

\* What the first snapshot does not know is gone.
LEMMA ReconcileStep ==
    ASSUME RowsInv, NEW s \in Syncers, Reconcile(s)
    PROVE  RowsInv' /\ (LiveInv /\ OneSync => LiveInv' /\ Kept)
  <1> DEFINE left == sync[s].removed \cup Coordinates(Unknown(s))
             new == [sync[s] EXCEPT !.at = "raw", !.removed = left]
  <1>1. /\ sync[s].at = "reconcile" /\ Revalidate(sync[s].next.validity) /\ Go(s, new)
        /\ UNCHANGED <<server, unread, rows, ids, set, history>>
    BY DEF Reconcile
  <1>2. sync[s].next.validity \in 0..validity
    BY <1>1, AtSync DEF Deep
  <1>3. /\ box' \in 0..validity /\ cursor' \in Cursor
        /\ LiveInv => cursor'.known \subseteq Born
    BY <1>1, <1>2, Revalidated
  <1>4. \A ref \in Coordinates(Unknown(s)) :
          \E r \in Unknown(s) : ref = [msg |-> r.msg, validity |-> r.validity]
    BY DEF Coordinates
  <1>5. Unknown(s) \subseteq rows
    BY DEF Unknown
  <1>6. left \subseteq Coordinate
    BY <1>4, <1>5, AtSync DEF Syncing, Coordinate, Row
  <1>7. ASSUME LiveInv, NEW ref \in left
        PROVE  ref.msg \in Born /\ ref.msg \notin on
    <2>1. CASE ref \in sync[s].removed
      BY <1>7, <2>1 DEF LiveInv, Gone
    <2>2. CASE ref \in Coordinates(Unknown(s))
      <3>1. PICK r \in Unknown(s) : ref = [msg |-> r.msg, validity |-> r.validity]
        BY <1>4, <2>2
      <3>2. /\ r \in rows /\ r.msg \notin sync[s].next.known
            /\ sync[s].next.tag = "snapshot" /\ ref.msg = r.msg
        BY <3>1 DEF Unknown
      <3> QED
        BY <1>1, <1>7, <3>2 DEF LiveInv, KnownIfLive, Rowed
    <2> QED
      BY <1>7, <2>1, <2>2
  <1> HIDE DEF left
  <1>8. /\ new \in Syncing /\ new.at = "raw" /\ new.cursor = sync[s].cursor
        /\ new.next = sync[s].next /\ new.raws = sync[s].raws /\ new.added = sync[s].added
        /\ new.changed = sync[s].changed /\ new.removed = left
    BY <1>6, AtSync DEF Syncing, Deep
  <1> HIDE DEF new
  <1>9. sync'[s] = new
    BY <1>1, SyncGoes DEF RowsInv
  <1>10. RowsInv'
    BY <1>1, <1>3, <1>8, AtSync, SameIds, SyncRows, FewerRows, Typed
       DEF RowsInv, Deep, server, history
  <1>11. ASSUME LiveInv, OneSync
         PROVE  LiveInv' /\ Kept
    <2>1. Born' = Born /\ Came /\ Kept
      BY <1>1, <1>11 DEF Born, server, Came, Kept, LiveInv, Rowed, Like
    <2>2. FromServer(s)' /\ Gone(s)'
      BY <1>1, <1>7, <1>8, <1>9, <1>11, <2>1 DEF LiveInv, FromServer, Gone, server
    <2>3. KnownIfLive(s)' /\ Renewed(s)'
      BY <1>1, <1>8, <1>9, <1>11 DEF LiveInv, KnownIfLive, Renewed, server, Applying
    <2> QED
      BY <1>1, <1>3, <1>11, <2>1, <2>2, <2>3, SyncLives
  <1> QED
    BY <1>10, <1>11

LEMMA IngestStep ==
    ASSUME RowsInv, NEW s \in Syncers, NEW raw \in sync[s].raws, Ingest(s, raw)
    PROVE  RowsInv' /\ (LiveInv /\ OneSync => LiveInv' /\ Kept)
  <1> DEFINE v == sync[s].next.validity
             m == raw.msg
  <1>1. PICK id \in 1..(ids + 1) :
          /\ Upsert(m, v, raw.flag, id)
          /\ Go(s, [sync[s] EXCEPT !.raws = @ \ {raw}, !.wrote = @ \cup {id}])
    BY DEF Ingest
  <1> DEFINE new == [sync[s] EXCEPT !.raws = @ \ {raw}, !.wrote = @ \cup {id}]
  <1>2. /\ sync[s].at = "apply" /\ Go(s, new)
        /\ UNCHANGED <<server, box, unread, cursor, set, history>>
    BY <1>1 DEF Ingest
  <1>3. v \in 1..validity /\ m \in Msgs /\ raw.flag \in Keywords
    BY <1>2, AtSync DEF Deep, Applying, Syncing, Raw
  <1>4. TypeOK /\ Unique
    BY DEF RowsInv
  <1> HIDE DEF v, m
  <1>5. /\ ids' \in Nat /\ ids <= ids' /\ id \in 1..ids'
        /\ rows' \subseteq [id : 1..ids', msg : Msgs, validity : 1..validity, flag : Keywords]
        /\ Unique'
        /\ \A r \in rows : r.msg # m /\ (r.validity = v \/ Alone(r.msg)) => r \in rows'
        /\ \A r \in rows : r.msg = m /\ Identified(m) /\ Alone(m) => r.id = id
        /\ \E q \in rows' : q.msg = m /\ q.validity = v /\ q.id = id
        /\ \A q \in rows' : \/ q \in rows
                            \/ /\ q.msg = m /\ q.validity = v /\ q.id = id
                               /\ id = ids + 1 \/ \E r \in rows : r.id = id /\ m \in Like(r.msg)
    BY <1>1, <1>3, <1>4, UpsertRows
  <1>6. /\ new \in Syncing' /\ new.at = "apply" /\ new.cursor = sync[s].cursor
        /\ new.next = sync[s].next /\ new.raws = sync[s].raws \ {raw}
        /\ new.added = sync[s].added
        /\ new.changed = sync[s].changed /\ new.removed = sync[s].removed
    <2>1. 1..ids \subseteq 1..ids' /\ 0..ids \subseteq 0..ids' /\ validity' = validity
      BY <1>2, <1>5, AtSync DEF server
    <2>2. sync[s] \in Syncing'
      BY <2>1, AtSync DEF Syncing, Deep, Applying, Cursor, Raw, Coordinate, Keywords, Write
    <2> QED
      BY <1>2, <1>5, <2>2 DEF Syncing, Deep
  <1> HIDE DEF new
  <1>7. sync'[s] = new
    BY <1>2, <1>4, SyncGoes
  <1>8. RowsInv'
    <2>1. rows' \subseteq Row'
      BY <1>2, <1>5 DEF Row, server, Keywords
    <2>2. stray' \subseteq 1..ids'
      BY <1>2, <1>4, <1>5, Typed DEF history
    <2> QED
      BY <1>2, <1>4, <1>5, <1>6, <2>1, <2>2, AtSync, SyncRows, Typed DEF Deep, Applying, history
  <1>9. ASSUME LiveInv, OneSync
        PROVE  LiveInv' /\ Kept
    <2>1. m \in Born /\ Born' = Born
      BY <1>2, <1>9 DEF LiveInv, FromServer, m, Born, server
    <2>2. Came
      BY <1>5, <1>9, <2>1 DEF Came, LiveInv, Rowed, Like
    <2>3. Kept
      BY <1>5 DEF Kept
    <2>4. FromServer(s)' /\ Gone(s)'
      BY <1>2, <1>6, <1>7, <1>9, <2>1 DEF LiveInv, FromServer, Gone, server
    <2>5. KnownIfLive(s)' /\ Renewed(s)'
      <3>1. ASSUME sync[s].cursor.validity # sync[s].next.validity,
                   NEW q \in rows', q.msg \in on, Alone(q.msg)
            PROVE  \/ \E x \in rows' : x.msg = q.msg /\ x.validity = v
                   \/ \E x \in new.raws : x.msg = q.msg
        <4>1. CASE q \in rows /\ q.msg # m
          <5>1. \/ \E x \in rows : x.msg = q.msg /\ x.validity = v
                \/ \E x \in sync[s].raws : x.msg = q.msg
            BY <1>2, <1>9, <3>1, <4>1 DEF LiveInv, Renewed, Applying, v
          <5> QED
            BY <1>5, <1>6, <4>1, <5>1 DEF m
        <4> QED
          BY <1>5, <4>1
      <3> QED
        BY <1>2, <1>6, <1>7, <3>1 DEF KnownIfLive, Renewed, server, v
    <2> QED
      BY <1>2, <1>9, <2>2, <2>3, <2>4, <2>5, SyncLives DEF LiveInv, Rowed
  <1> QED
    BY <1>8, <1>9

LEMMA ReadFlagStep ==
    ASSUME RowsInv, NEW s \in Syncers, NEW change \in sync[s].changed, ReadFlag(s, change)
    PROVE  RowsInv' /\ (LiveInv /\ OneSync => LiveInv' /\ Kept)
  <1> DEFINE done == [sync[s] EXCEPT !.changed = @ \ {change}]
             found == Seen({change.msg} \cap on)
  <1>1. /\ sync[s].at = "apply" /\ sync[s].raws = {}
        /\ UNCHANGED <<server, cache, set, history>>
    BY DEF ReadFlag
  <1>2. PICK new :
          /\ Go(s, new)
          /\ \/ new = [done EXCEPT !.raws = found]
             \/ new = done
             \/ \E r \in rows :
                  new = [done EXCEPT !.at = "write",
                           !.write = [id |-> r.id, was |-> r.flag, want |-> change.flag]]
    BY DEF ReadFlag, At
  <1>3. found \subseteq Raw /\ \A x \in found : x.msg \in on
    <2>1. /\ found \subseteq Raw
          /\ \A x \in found : x.msg \in {change.msg} \cap on
      BY AtSync, SeenTyped DEF RowsInv
    <2> QED
      BY <2>1
  <1> HIDE DEF found
  <1>4. /\ done \in Syncing /\ done.at = "apply" /\ done.cursor = sync[s].cursor
        /\ done.next = sync[s].next /\ done.raws = {} /\ done.added = sync[s].added
        /\ done.changed \subseteq sync[s].changed /\ done.removed = sync[s].removed
    BY <1>1, AtSync DEF Syncing
  <1> HIDE DEF done
  <1>5. /\ new \in Syncing /\ new.at \in {"apply", "write"} /\ new.cursor = sync[s].cursor
        /\ new.next = sync[s].next /\ new.raws \in {{}, found} /\ new.added = sync[s].added
        /\ new.changed \subseteq sync[s].changed /\ new.removed = sync[s].removed
    <2>1. CASE new = [done EXCEPT !.raws = found]
      BY <1>3, <1>4, <2>1 DEF Syncing
    <2>2. CASE new = done
      BY <1>4, <2>2
    <2>3. ASSUME NEW r \in rows,
                 new = [done EXCEPT !.at = "write",
                          !.write = [id |-> r.id, was |-> r.flag, want |-> change.flag]]
          PROVE  /\ new \in Syncing /\ new.at = "write" /\ new.cursor = sync[s].cursor
                 /\ new.next = sync[s].next /\ new.raws = {} /\ new.added = sync[s].added
                 /\ new.changed \subseteq sync[s].changed /\ new.removed = sync[s].removed
      <3>1. [id |-> r.id, was |-> r.flag, want |-> change.flag] \in Write
        BY AtSync DEF Write, Row, Syncing, Raw
      <3> QED
        BY <1>4, <2>3, <3>1 DEF Syncing, Deep, Applying
    <2> QED
      BY <1>2, <2>1, <2>2, <2>3
  <1>6. sync'[s] = new
    BY <1>2, SyncGoes DEF RowsInv
  <1>7. ASSUME LiveInv
        PROVE  Lively(s)'
    <2>1. Born' = Born /\ on' = on /\ rows' = rows
      BY <1>1 DEF Born, server, cache
    <2>2. FromServer(s)' /\ Gone(s)'
      BY <1>3, <1>5, <1>6, <1>7, <2>1 DEF LiveInv, Rowed, FromServer, Gone
    <2>3. KnownIfLive(s)' /\ Renewed(s)'
      BY <1>1, <1>5, <1>6, <1>7, <2>1 DEF LiveInv, KnownIfLive, Renewed, Applying
    <2> QED
      BY <2>2, <2>3 DEF Lively
  <1> QED
    BY <1>1, <1>2, <1>5, <1>7, AtSync, ReadingStep DEF Deep, Applying

\* A sync goes on among what it applies with the rows as they were, but for their
\* keywords and those of what is gone or ingested anew.
LEMMA ApplyingStep ==
    ASSUME RowsInv, NEW s \in Syncers, NEW new \in Syncing, Go(s, new),
           UNCHANGED <<server, box, cursor, ids, set, history>>,
           unread' \in Nat, rows' \subseteq Row, Unique',
           sync[s].at \in Applying, new.at \in Applying,
           new.cursor = sync[s].cursor, new.next = sync[s].next, new.raws = sync[s].raws,
           new.added = sync[s].added, new.changed = sync[s].changed,
           new.removed \subseteq sync[s].removed,
           \A q \in rows' : \E r \in rows : q.id = r.id /\ q.msg = r.msg /\ q.validity = r.validity,
           LiveInv => Kept,
           LiveInv => \A r \in rows :
             r.msg \in on /\ Alone(r.msg) /\
             (sync[s].cursor.validity # sync[s].next.validity => r.validity = sync[s].next.validity)
               => \E q \in rows' : q.msg = r.msg /\ q.validity = r.validity
    PROVE  RowsInv' /\ (LiveInv /\ OneSync => LiveInv' /\ Kept)
  <1>1. TypeOK /\ sync'[s] = new
    BY SyncGoes DEF RowsInv
  <1>2. RowsInv'
    BY <1>1, AtSync, SameIds, SyncRows, Typed DEF Deep, server, history
  <1>3. ASSUME LiveInv, OneSync
        PROVE  LiveInv' /\ Kept
    <2>1. Born' = Born /\ on' = on
      BY DEF Born, server
    <2>2. Came /\ cursor'.known \subseteq Born
      BY <1>3 DEF Came, LiveInv, Rowed, Like
    <2>3. FromServer(s)' /\ Gone(s)'
      BY <1>1, <1>3, <2>1 DEF LiveInv, FromServer, Gone
    <2>4. KnownIfLive(s)'
      BY <1>1 DEF KnownIfLive, Applying
    <2>5. ASSUME sync[s].cursor.validity # sync[s].next.validity,
                 NEW q \in rows', q.msg \in on, Alone(q.msg)
          PROVE  \/ \E x \in rows' : x.msg = q.msg /\ x.validity = sync[s].next.validity
                 \/ \E x \in sync[s].raws : x.msg = q.msg
      <3>1. PICK r \in rows : q.msg = r.msg
        OBVIOUS
      <3>2. \/ \E x \in rows : x.msg = r.msg /\ x.validity = sync[s].next.validity
            \/ \E x \in sync[s].raws : x.msg = r.msg
        BY <1>3, <2>5, <3>1 DEF LiveInv, Renewed
      <3> QED
        BY <1>3, <2>5, <3>1, <3>2
    <2>6. Renewed(s)'
      BY <1>1, <2>1, <2>5 DEF Renewed, Applying
    <2> QED
      BY <1>3, <2>2, <2>3, <2>4, <2>6, SyncLives
  <1> QED
    BY <1>2, <1>3

LEMMA ApplyFlagStep ==
    ASSUME RowsInv, NEW s \in Syncers, ApplyFlag(s)
    PROVE  RowsInv' /\ (LiveInv /\ OneSync => LiveInv' /\ Kept)
  <1> DEFINE new == [sync[s] EXCEPT !.at = "count"]
  <1>1. /\ sync[s].at = "write" /\ SetFlags(sync[s].write) /\ Go(s, new)
        /\ UNCHANGED <<server, box, unread, cursor, ids, set, history>>
    BY DEF ApplyFlag, Step
  <1>2. sync[s].write \in Write
    BY AtSync DEF Syncing
  <1>3. /\ rows' \subseteq Row /\ Unique'
        /\ \A q \in rows' : \E r \in rows :
             q.id = r.id /\ q.msg = r.msg /\ q.validity = r.validity
        /\ \A r \in rows : \E q \in rows' :
             q.id = r.id /\ q.msg = r.msg /\ q.validity = r.validity
    BY <1>1, <1>2, SetFlagsRows DEF RowsInv
  <1>4. /\ new \in Syncing /\ new.at = "count" /\ new.cursor = sync[s].cursor
        /\ new.next = sync[s].next /\ new.raws = sync[s].raws /\ new.added = sync[s].added
        /\ new.changed = sync[s].changed /\ new.removed = sync[s].removed
    BY AtSync DEF Syncing, Deep, Applying
  <1> HIDE DEF new
  <1>5. Kept /\ unread' \in Nat
    BY <1>1, <1>3, Typed DEF Kept, RowsInv
  <1> QED
    BY <1>1, <1>3, <1>4, <1>5, ApplyingStep DEF Applying

LEMMA CountSyncStep ==
    ASSUME RowsInv, NEW s \in Syncers, CountSync(s)
    PROVE  RowsInv' /\ (LiveInv /\ OneSync => LiveInv' /\ Kept)
  <1> DEFINE new == [sync[s] EXCEPT !.at = "apply", !.write = NoWrite]
  <1>1. /\ sync[s].at = "count" /\ Count(sync[s].write) /\ Go(s, new)
        /\ UNCHANGED <<server, box, rows, cursor, ids, set, history>>
    BY DEF CountSync
  <1>2. /\ new \in Syncing /\ new.at = "apply" /\ new.cursor = sync[s].cursor
        /\ new.next = sync[s].next /\ new.raws = sync[s].raws /\ new.added = sync[s].added
        /\ new.changed = sync[s].changed /\ new.removed = sync[s].removed
    BY AtSync, NoWriteTyped DEF Syncing, Deep, Applying
  <1> HIDE DEF new
  <1>3. rows' \subseteq Row /\ Unique' /\ Kept /\ unread' \in Nat
    BY <1>1, Counts, FewerRows DEF Kept, RowsInv
  <1> QED
    BY <1>1, <1>2, <1>3, ApplyingStep DEF Applying

\* What is dropped is gone from the server, or left of an old UIDVALIDITY when
\* every message that is there has been ingested under the new one.
LEMMA DropStep ==
    ASSUME RowsInv, NEW s \in Syncers, NEW ref \in ToDrop(s), Drop(s, ref)
    PROVE  RowsInv' /\ (LiveInv /\ OneSync => LiveInv' /\ Kept)
  <1> DEFINE gone == At(ref.msg, ref.validity)
             new == [sync[s] EXCEPT !.at = "count", !.removed = @ \ {ref}, !.write = Deleted(gone)]
  <1>1. /\ sync[s].at = "apply" /\ sync[s].raws = {} /\ rows' = rows \ gone /\ Go(s, new)
        /\ UNCHANGED <<server, box, unread, cursor, ids, set, history>>
    BY DEF Drop, Applied
  <1>2. ASSUME LiveInv, NEW q \in gone, q.msg \in on
        PROVE  /\ sync[s].cursor.validity # sync[s].next.validity
               /\ q.validity # sync[s].next.validity
    <2>1. q \in rows /\ q.msg = ref.msg /\ q.validity = ref.validity
      BY DEF At
    <2>2. ref \notin sync[s].removed
      BY <1>2, <2>1 DEF LiveInv, Gone
    <2>3. PICK r \in Outdated(s) : ref = [msg |-> r.msg, validity |-> r.validity]
      BY <2>2 DEF ToDrop, Coordinates
    <2> QED
      BY <2>1, <2>3 DEF Outdated
  <1>3. /\ new \in Syncing /\ new.at = "count" /\ new.cursor = sync[s].cursor
        /\ new.next = sync[s].next /\ new.raws = sync[s].raws /\ new.added = sync[s].added
        /\ new.changed = sync[s].changed /\ new.removed \subseteq sync[s].removed
    BY AtSync, DeletedTyped DEF Syncing, Deep, Applying
  <1> HIDE DEF new
  <1>4. /\ rows' \subseteq Row /\ Unique' /\ rows' \subseteq rows /\ unread' \in Nat
    BY <1>1, FewerRows, Typed DEF RowsInv
  <1>5. ASSUME LiveInv
        PROVE  Kept
    <2> SUFFICES ASSUME NEW r \in rows, Alone(r.msg), r.msg \in on, r \notin rows'
                 PROVE  /\ ~Identified(r.msg)
                        /\ \E q \in rows' : q.msg = r.msg
      BY DEF Kept
    <2>1. r \in gone
      BY <1>1
    <2>2. /\ sync[s].cursor.validity # sync[s].next.validity
          /\ r.validity # sync[s].next.validity
      BY <1>2, <1>5, <2>1
    <2>3. PICK q \in rows : q.msg = r.msg /\ q.validity = sync[s].next.validity
      BY <1>1, <1>5, <2>2 DEF LiveInv, Renewed, Applying
    <2>4. q \in rows'
      BY <1>1, <1>2, <1>5, <2>3
    <2>5. q # r
      BY <2>2, <2>3
    <2> QED
      BY <2>3, <2>4, <2>5 DEF RowsInv, Unique, OneRowPerMessage
  <1>6. ASSUME LiveInv, NEW r \in rows, r.msg \in on,
               sync[s].cursor.validity # sync[s].next.validity => r.validity = sync[s].next.validity
        PROVE  r \in rows'
    BY <1>1, <1>2, <1>6
  <1> HIDE DEF gone
  <1> QED
    BY <1>1, <1>3, <1>4, <1>5, <1>6, ApplyingStep DEF Applying

\* A sync ends, with its cursor saved or not.
LEMMA EndStep ==
    ASSUME RowsInv, NEW s \in Syncers, Go(s, NoSync),
           UNCHANGED <<server, box, unread, rows, ids, set, late>>,
           cursor' \in Cursor, stray' \subseteq 1..ids,
           LiveInv => cursor'.known \subseteq Born
    PROVE  RowsInv' /\ (LiveInv /\ OneSync => LiveInv' /\ Kept)
  <1>1. sync'[s] = NoSync
    BY SyncGoes DEF RowsInv
  <1>2. RowsInv'
    BY AtSync, SameIds, SyncRows, Typed, BlankTyped, NoSyncTyped, FewerRows
       DEF RowsInv, Deep, Applying, server
  <1>3. ASSUME LiveInv, OneSync
        PROVE  LiveInv' /\ Kept
    <2>1. Came /\ Kept
      BY <1>3 DEF Came, Kept, LiveInv, Rowed, Like
    <2>2. FromServer(s)' /\ Gone(s)' /\ KnownIfLive(s)' /\ Renewed(s)'
      BY <1>1, BlankTyped DEF FromServer, Gone, KnownIfLive, Renewed
    <2> QED
      BY <1>3, <2>1, <2>2, SyncLives
  <1> QED
    BY <1>2, <1>3

LEMMA SaveCursorStep ==
    ASSUME RowsInv, NEW s \in Syncers, SaveCursor(s)
    PROVE  RowsInv' /\ (LiveInv /\ OneSync => LiveInv' /\ Kept)
  <1>1. /\ Go(s, NoSync) /\ cursor' = sync[s].next
        /\ UNCHANGED <<server, box, unread, rows, ids, set, late, stray>>
    BY DEF SaveCursor, history
  <1>2. cursor' \in Cursor
    BY <1>1, AtSync DEF Syncing
  <1>3. stray' \subseteq 1..ids
    BY <1>1, Typed DEF RowsInv
  <1>4. LiveInv => cursor'.known \subseteq Born
    BY <1>1 DEF LiveInv, FromServer
  <1> QED
    BY <1>1, <1>2, <1>3, <1>4, EndStep

LEMMA FailStep ==
    ASSUME RowsInv, NEW s \in Syncers, Fail(s)
    PROVE  RowsInv' /\ (LiveInv /\ OneSync => LiveInv' /\ Kept)
  <1>1. /\ Go(s, NoSync) /\ stray' = stray \cup sync[s].wrote
        /\ UNCHANGED <<server, box, unread, rows, cursor, ids, set, late>>
    BY DEF Fail, cache
  <1>2. cursor' \in Cursor /\ stray' \subseteq 1..ids
    BY <1>1, AtSync, Typed DEF RowsInv, Syncing
  <1>3. LiveInv => cursor'.known \subseteq Born
    BY <1>1 DEF LiveInv, Rowed
  <1> QED
    BY <1>1, <1>2, <1>3, EndStep

-----------------------------------------------------------------------------
LEMMA NextKeeps ==
    ASSUME RowsInv, [Next]_vars
    PROVE  RowsInv' /\ (LiveInv /\ OneSync => LiveInv' /\ Kept)
  <1> DEFINE Keeps == RowsInv' /\ (LiveInv /\ OneSync => LiveInv' /\ Kept)
  <1>1. CASE UNCHANGED vars
    <2>1. RowsInv'
      BY <1>1 DEF vars, server, cache, history, bounds, RowsInv, TypeOK, Real, Unique,
                  OneRowPerMessage, OneRowPerId, Write
    <2>2. LiveInv => LiveInv' /\ Kept
      BY <1>1 DEF vars, server, cache, LiveInv, Rowed, FromServer, Gone, KnownIfLive, Renewed,
                  Called, Born, Kept
    <2> QED
      BY <2>1, <2>2
  <1>2. CASE World
    BY <1>2, WorldStep
  <1>3. ASSUME NEW s \in Syncers, Synced(s) \/ Interrupt(s)
        PROVE  Keeps
    <2>1. CASE Register(s) \/ Reconcile(s) \/ SaveCursor(s)
      BY <2>1, RegisterStep, ReconcileStep, SaveCursorStep
    <2>2. CASE SelectQresync(s) \/ SelectOther(s) \/ Search(s)
      BY <2>2, SelectQresyncStep, SelectOtherStep, SearchStep
    <2>3. CASE List(s) \/ Load(s) \/ FetchFlags(s) \/ FetchRaw(s)
      BY <2>3, ListStep, LoadStep, FetchFlagsStep, FetchRawStep
    <2>4. CASE StaleRef(s) \/ Interrupt(s)
      BY <2>4, FailStep DEF StaleRef, Interrupt
    <2>5. CASE \E raw \in sync[s].raws : Ingest(s, raw)
      BY <2>5, IngestStep
    <2>6. CASE ApplyFlag(s) \/ CountSync(s) \/ \E change \in sync[s].changed : ReadFlag(s, change)
      BY <2>6, ReadFlagStep, ApplyFlagStep, CountSyncStep
    <2>7. CASE \E ref \in ToDrop(s) : Drop(s, ref)
      BY <2>7, DropStep
    <2> QED
      BY <1>3, <2>1, <2>2, <2>3, <2>4, <2>5, <2>6, <2>7 DEF Synced
  <1>4. ASSUME NEW t \in Setters, Call(t) \/ Abandon(t)
        PROVE  Keeps
    BY <1>4, StoreFlagStep, ReadFlagsStep, WriteFlagStep, CountSetStep, StoreDeletedStep,
       RemoveRowStep, EndCallStep DEF Call
  <1>5. ASSUME NEW t \in Setters, NEW r \in rows,
               Destroy(t, r) \/ \E k \in Keywords : SetFlag(t, r, k)
        PROVE  Keeps
    <2>1. r.flag \in Keywords
      BY AtSync, Typed DEF RowsInv, Row
    <2> QED
      BY <1>5, <2>1, ReadRowStep DEF Destroy, SetFlag
  <1> QED
    BY <1>1, <1>2, <1>3, <1>4, <1>5 DEF Next

\* Every variable of the mailbox, its rows and the syncs keeps its type.
THEOREM MailIsTyped == Spec => []TypeOK
  <1>1. RowsInv => TypeOK
    BY DEF RowsInv
  <1>2. RowsInv /\ [Next]_vars => RowsInv'
    BY NextKeeps
  <1> QED
    BY <1>1, <1>2, InitRows, PTL DEF Spec

\* Under one UIDVALIDITY a message has one row, and one row in all when the store can
\* tell it from the others, however many syncs of the mailbox overlap, whatever they
\* leave half-done and however often the UIDVALIDITY changes.
THEOREM OneRow == Spec => []OneRowPerMessage
  <1>1. RowsInv => OneRowPerMessage
    BY DEF RowsInv, Unique
  <1>2. RowsInv /\ [Next]_vars => RowsInv'
    BY NextKeeps
  <1> QED
    BY <1>1, <1>2, InitRows, PTL DEF Spec

\* When syncs of the mailbox do not overlap, none of them, and no Email/set, takes
\* the last row of a message that is on the server and like no other, or its stable
\* id when the message has an identity.
THEOREM LiveMailStays ==
    ASSUME OneSync
    PROVE  Spec => LiveMailIsKept
  <1>1. Init => RowsInv /\ LiveInv
    BY InitRows, InitLive
  <1>2. RowsInv /\ LiveInv /\ [Next]_vars => RowsInv' /\ LiveInv' /\ Kept
    BY NextKeeps
  <1>3. Kept => \A r \in rows : Alone(r.msg) /\ r.msg \in on /\ r.msg \in on' =>
                  \E q \in rows' : q.msg = r.msg /\ (Identified(r.msg) => q.id = r.id)
    BY DEF Kept
  <1> QED
    BY <1>1, <1>2, <1>3, PTL DEF Spec, LiveMailIsKept

=============================================================================
