------------------------------ MODULE MailSync ------------------------------
(***************************************************************************)
(* One IMAP mailbox, its rows in the cache, the engine's sync of it        *)
(* (Engine::sync_one over mw-imap's sync_mailbox) and the Email/set calls  *)
(* that change flags or destroy messages at the same time.                 *)
(*                                                                         *)
(* The IMAP server and its other clients are external.  A message is its   *)
(* UID: a UID means something under one UIDVALIDITY only, and no UID is    *)
(* given twice, so a coordinate is a pair of a message and a validity.     *)
(* The store knows a message again under another UIDVALIDITY by its        *)
(* Message-ID, date and size: not when one of the first two is missing,    *)
(* and two messages with all three equal are the same to it.               *)
(* The keywords of a message are one value.  The rows of the change log    *)
(* that each step appends are the subject of ChangeLog, and one row of the *)
(* store is the mailbox.                                                   *)
(***************************************************************************)
EXTENDS Naturals, FiniteSets

CONSTANTS
  Msgs,       \* messages that can be delivered to the mailbox
  Initial,    \* those that are there when the account is added
  Identity,   \* Message-ID, date and size of a message
  NoIdentity, \* of a message without a Message-ID or a date
  Kinds,      \* what the server supports: "plain", "condstore", "qresync"
  Syncers,    \* tasks that sync the account
  Setters,    \* Email/set calls under way
  Bounds      \* bound: counts of what happens that may occur together

ASSUME MsgsAssumption == IsFiniteSet(Msgs) /\ Msgs # {}
ASSUME InitialAssumption == Initial \subseteq Msgs
ASSUME KindsAssumption == Kinds \subseteq {"plain", "condstore", "qresync"}
ASSUME BoundsAssumption ==
  \A b \in Bounds : b.ops \in Nat /\ b.resets \in Nat /\ b.sets \in Nat /\ b.faults \in Nat

VARIABLES
  kind,      \* what this server supports
  validity,  \* the server: UIDVALIDITY of the mailbox
  modseq,    \* the server: HIGHESTMODSEQ
  on,        \* the server: messages in the mailbox
  flag,      \* the server: keywords of a message
  mod,       \* the server: modseq of a message's last change or expunge, 0 for none
  box,       \* the cache: UIDVALIDITY of the mailbox row
  unread,    \* the cache: the unread counter of the mailbox row
  rows,      \* the cache: message rows
  cursor,    \* the cache: the persisted sync cursor
  ids,       \* stable ids given out
  sync,      \* a sync under way
  set,       \* an Email/set under way
  stray,     \* ids that a sync wrote which failed before it saved its cursor
  late,      \* ids whose keywords were written over newer ones of the server
  ops,       \* changes made by the server and its other clients
  resets,    \* UIDVALIDITY resets
  sets,      \* Email/set calls
  faults     \* syncs and calls that failed half-way

server == <<kind, validity, modseq, on, flag, mod>>
history == <<stray, late>>
bounds == <<ops, resets, sets, faults>>
cache == <<box, unread, rows, cursor, ids>>
vars == <<server, cache, sync, set, history, bounds>>

Keywords == {"unread", "read"}
NoCursor == [tag |-> "none", validity |-> 0, known |-> {}, modseq |-> 0]
NoList == [validity |-> 0, unread |-> 0]
NoWrite == [id |-> 0, was |-> "read", want |-> "read"]
NoSync == [at |-> "idle", list |-> NoList, cursor |-> NoCursor, next |-> NoCursor,
           raws |-> {}, added |-> {}, changed |-> {}, removed |-> {},
           write |-> NoWrite, wrote |-> {}]
NoSet == [at |-> "idle", msg |-> CHOOSE m \in Msgs : TRUE, validity |-> 0,
          write |-> NoWrite]

Init ==
  /\ kind \in Kinds
  /\ validity = 1
  /\ modseq = 1
  /\ on = Initial
  /\ flag = [m \in Msgs |-> "unread"]
  /\ mod = [m \in Msgs |-> IF m \in Initial THEN 1 ELSE 0]
  /\ box = 0
  /\ unread = 0
  /\ rows = {}
  /\ cursor = NoCursor
  /\ ids = 0
  /\ sync = [s \in Syncers |-> NoSync]
  /\ set = [t \in Setters |-> NoSet]
  /\ stray = {}
  /\ late = {}
  /\ ops = 0
  /\ resets = 0
  /\ sets = 0
  /\ faults = 0

----------------------------------------------------------------------------
(* The IMAP server and its other clients. *)

Within ==
  \E b \in Bounds : ops' <= b.ops /\ resets' <= b.resets /\ sets' <= b.sets /\ faults' <= b.faults

Changed(m) ==
  /\ modseq' = modseq + 1
  /\ mod' = [mod EXCEPT ![m] = modseq + 1]

ByOthers(m) ==
  /\ ops' = ops + 1
  /\ Changed(m)
  /\ UNCHANGED <<kind, validity, cache, sync, set, stray, late,
                 resets, sets, faults>>
  /\ Within

Deliver(m) == m \notin on /\ mod[m] = 0 /\ on' = on \cup {m} /\ UNCHANGED flag /\ ByOthers(m)
Expunge(m) == m \in on /\ on' = on \ {m} /\ UNCHANGED flag /\ ByOthers(m)
Mark(m) ==
  /\ m \in on
  /\ \E k \in Keywords \ {flag[m]} : flag' = [flag EXCEPT ![m] = k]
  /\ UNCHANGED on
  /\ ByOthers(m)

\* The mailbox gets a new UIDVALIDITY; its messages stay.
Reset ==
  /\ resets' = resets + 1
  /\ validity' = validity + 1
  /\ modseq' = modseq + 1
  /\ UNCHANGED <<kind, on, flag, mod, cache, sync, set, stray, late,
                 ops, sets, faults>>
  /\ Within

----------------------------------------------------------------------------
(* The cache. *)

At(m, v) == {r \in rows : r.msg = m /\ r.validity = v}

\* The messages that the store takes for m, m among them.
Like(m) == {m} \cup {n \in Msgs : Identity[m] # NoIdentity /\ Identity[n] = Identity[m]}

\* Mutant: a row is found by its coordinates only.
SameMailNever(m, v) == {}

\* The rows under another UIDVALIDITY that have the identity of the message.
SameMail(m, v) ==
  {r \in rows : Identity[m] # NoIdentity /\ Identity[r.msg] = Identity[m] /\ r.validity # v}

\* Mutant: a new stable id is not counted as given out.
UpsertForgets(m, v, k, id) ==
  /\ id = ids + 1
  /\ rows' = (rows \ At(m, v)) \cup {[id |-> id, msg |-> m, validity |-> v, flag |-> k]}
  /\ UNCHANGED ids

\* The row of the coordinates, else any one with the same identity, else a new one.
Upsert(m, v, k, id) ==
  \E old \in (IF At(m, v) # {} THEN {{r} : r \in At(m, v)}
              ELSE IF SameMail(m, v) # {} THEN {{r} : r \in SameMail(m, v)}
              ELSE {{}}) :
    /\ id = IF old = {} THEN ids + 1 ELSE (CHOOSE r \in old : TRUE).id
    /\ rows' = (rows \ old) \cup {[id |-> id, msg |-> m, validity |-> v, flag |-> k]}
    /\ ids' = IF old = {} THEN ids + 1 ELSE ids

Stored(id) == {r \in rows : r.id = id}

\* The keywords are written to the row, if it is still there.
SetFlags(w) ==
  rows' = (rows \ Stored(w.id)) \cup {[r EXCEPT !.flag = w.want] : r \in Stored(w.id)}

\* The unread counter follows keywords that flipped, and never falls below zero.
Count(w) ==
  unread' = IF w.was = w.want THEN unread
            ELSE IF w.want = "unread" THEN unread + 1
            ELSE IF unread > 0 THEN unread - 1 ELSE 0

\* What the deletion of a row leaves to count: it counts no more as unread.
Deleted(gone) ==
  [id |-> 0, want |-> "read",
   was |-> IF \E r \in gone : r.flag = "unread" THEN "unread" ELSE "read"]

\* A mailbox row of another UIDVALIDITY takes the new one and loses its cursor.
Revalidate(v) ==
  /\ box' = v
  /\ cursor' = IF box # v THEN NoCursor ELSE cursor

----------------------------------------------------------------------------
(* The sync. *)

Go(s, new) == sync' = [sync EXCEPT ![s] = new]
Step(s, at) == Go(s, [sync[s] EXCEPT !.at = at])

\* LIST and STATUS.
List(s) ==
  /\ sync[s].at = "idle"
  /\ Go(s, [NoSync EXCEPT !.at = "listed",
       !.list = [validity |-> validity,
                 unread |-> Cardinality({m \in on : flag[m] = "unread"})]])
  /\ UNCHANGED <<server, cache, set, history, bounds>>

\* The mailbox row takes what they said.
Register(s) ==
  /\ sync[s].at = "listed"
  /\ Revalidate(sync[s].list.validity)
  /\ unread' = sync[s].list.unread
  /\ Go(s, [sync[s] EXCEPT !.at = "load", !.list = NoList])
  /\ UNCHANGED <<server, rows, ids, set, history, bounds>>

\* The persisted cursor, which is gone when the UIDVALIDITY was another.
Load(s) ==
  /\ sync[s].at = "load"
  /\ Go(s, [sync[s] EXCEPT !.at = "select", !.cursor = cursor])
  /\ UNCHANGED <<server, cache, set, history, bounds>>

Since(n) == {m \in Msgs : mod[m] > n}
Seen(ms) == {[msg |-> m, flag |-> flag[m]] : m \in ms}

\* SELECT with QRESYNC from a cursor of this UIDVALIDITY: the server tells
\* what changed and what vanished.
SelectQresync(s) ==
  LET c == sync[s].cursor IN
  /\ sync[s].at = "select"
  /\ c.tag = "qresync" /\ c.validity = validity
  /\ Go(s, [sync[s] EXCEPT
       !.at = "reconcile",
       !.changed = Seen(on \cap Since(c.modseq)),
       !.removed = {[msg |-> m, validity |-> validity] : m \in Since(c.modseq) \ on},
       !.next = [c EXCEPT !.modseq = modseq]])
  /\ UNCHANGED <<server, cache, set, history, bounds>>

\* SELECT: the cursor this sync will leave, its known UIDs still to be read.
SelectOther(s) ==
  LET c == sync[s].cursor IN
  /\ sync[s].at = "select"
  /\ ~(c.tag = "qresync" /\ c.validity = validity)
  /\ Go(s, [sync[s] EXCEPT
       !.at = "search",
       !.next = [tag |-> IF kind = "qresync" THEN "qresync" ELSE "snapshot",
                 validity |-> validity,
                 known |-> {},
                 modseq |-> IF kind = "plain" THEN 0 ELSE modseq]])
  /\ UNCHANGED <<server, cache, set, history, bounds>>

\* Mutant: UIDs are known whatever UIDVALIDITY they are of.
KnownOfAnyValidity(s) == sync[s].cursor.known

\* The UIDs that the cursor knows, none when its UIDVALIDITY is another.
Known(s) ==
  IF sync[s].cursor.validity = sync[s].next.validity THEN sync[s].cursor.known ELSE {}

\* UID SEARCH ALL.
Search(s) ==
  LET new == on \ Known(s) IN
  /\ sync[s].at = "search"
  /\ IF sync[s].next.tag = "qresync"
     THEN Go(s, [sync[s] EXCEPT !.at = "reconcile", !.added = on])
     ELSE Go(s, [sync[s] EXCEPT
            !.at = "fetch",
            !.added = new,
            !.removed = {[msg |-> m, validity |-> sync[s].next.validity] :
                           m \in Known(s) \ on},
            !.next.known = on])
  /\ UNCHANGED <<server, cache, set, history, bounds>>

\* The flags of the UIDs found that are not new: all of them, or what changed
\* since the cursor's modseq.
Flagged(s) ==
  (sync[s].next.known \ sync[s].added) \cap on \cap Since(sync[s].cursor.modseq)

FetchFlags(s) ==
  /\ sync[s].at = "fetch"
  /\ Go(s, [sync[s] EXCEPT !.at = "reconcile", !.changed = Seen(Flagged(s))])
  /\ UNCHANGED <<server, cache, set, history, bounds>>

\* Rows that the first snapshot of a mailbox does not know.
Unknown(s) ==
  IF sync[s].cursor.tag # "snapshot" /\ sync[s].next.tag = "snapshot"
  THEN {r \in rows : r.validity = sync[s].next.validity /\ r.msg \notin sync[s].next.known}
  ELSE {}

Coordinates(rs) == {[msg |-> r.msg, validity |-> r.validity] : r \in rs}

\* SELECT is authoritative for the mailbox row.
Reconcile(s) ==
  /\ sync[s].at = "reconcile"
  /\ Revalidate(sync[s].next.validity)
  /\ Go(s, [sync[s] EXCEPT !.at = "raw", !.removed = @ \cup Coordinates(Unknown(s))])
  /\ UNCHANGED <<server, unread, rows, ids, set, history, bounds>>

\* The messages themselves; an error when the UIDVALIDITY is another by now.
FetchRaw(s) ==
  /\ sync[s].at = "raw"
  /\ sync[s].added # {} => validity = sync[s].next.validity
  /\ Go(s, [sync[s] EXCEPT !.at = "apply", !.raws = Seen(sync[s].added \cap on), !.added = {}])
  /\ UNCHANGED <<server, cache, set, history, bounds>>

Ingest(s, raw) ==
  /\ sync[s].at = "apply"
  /\ raw \in sync[s].raws
  /\ \E id \in 1..(ids + 1) :
       /\ Upsert(raw.msg, sync[s].next.validity, raw.flag, id)
       /\ Go(s, [sync[s] EXCEPT !.raws = @ \ {raw}, !.wrote = @ \cup {id}])
  /\ UNCHANGED <<server, box, unread, cursor, set, history, bounds>>

\* One flag change: the row is read, to be written when it differs, and a message
\* that has no row is fetched.
ReadFlag(s, change) ==
  LET mine == At(change.msg, sync[s].next.validity)
      done == [sync[s] EXCEPT !.changed = @ \ {change}] IN
  /\ sync[s].at = "apply"
  /\ sync[s].raws = {}
  /\ change \in sync[s].changed
  /\ \/ /\ mine = {}
        /\ validity = sync[s].next.validity
        /\ Go(s, [done EXCEPT !.raws = Seen({change.msg} \cap on)])
     \/ \E r \in mine :
          Go(s, IF r.flag = change.flag THEN done
                ELSE [done EXCEPT !.at = "write", !.write =
                        [id |-> r.id, was |-> r.flag, want |-> change.flag]])
  /\ UNCHANGED <<server, cache, set, history, bounds>>

ApplyFlag(s) ==
  /\ sync[s].at = "write"
  /\ Stored(sync[s].write.id) # {}
  /\ SetFlags(sync[s].write)
  /\ Step(s, "count")
  /\ UNCHANGED <<server, box, unread, cursor, ids, set, history, bounds>>

CountSync(s) ==
  /\ sync[s].at = "count"
  /\ Count(sync[s].write)
  /\ Go(s, [sync[s] EXCEPT !.at = "apply", !.write = NoWrite])
  /\ UNCHANGED <<server, box, rows, cursor, ids, set, history, bounds>>

\* Rows left of an earlier UIDVALIDITY, once everything else is applied.
Outdated(s) ==
  IF sync[s].cursor.validity # sync[s].next.validity
  THEN {r \in rows : r.validity # sync[s].next.validity}
  ELSE {}

Applied(s) == sync[s].at = "apply" /\ sync[s].raws = {} /\ sync[s].changed = {}
ToDrop(s) == sync[s].removed \cup Coordinates(Outdated(s))

Drop(s, ref) ==
  LET gone == At(ref.msg, ref.validity) IN
  /\ Applied(s)
  /\ ref \in ToDrop(s)
  /\ rows' = rows \ gone
  /\ Go(s, [sync[s] EXCEPT !.at = "count", !.removed = @ \ {ref}, !.write = Deleted(gone)])
  /\ UNCHANGED <<server, box, unread, cursor, ids, set, history, bounds>>

\* Mutant: the cursor takes the mod-sequence that the mailbox has by now.
SaveCursorAsOfNow(s) ==
  /\ Applied(s)
  /\ ToDrop(s) = {}
  /\ cursor' = [sync[s].next EXCEPT !.modseq = IF @ = 0 THEN 0 ELSE modseq]
  /\ Go(s, NoSync)
  /\ UNCHANGED <<server, box, unread, rows, ids, set, history, bounds>>

SaveCursor(s) ==
  /\ Applied(s)
  /\ ToDrop(s) = {}
  /\ cursor' = sync[s].next
  /\ Go(s, NoSync)
  /\ UNCHANGED <<server, box, unread, rows, ids, set, history, bounds>>

\* The sync ends before its cursor is saved: a lost connection, a store error,
\* a message that does not parse, a restart.
Fail(s) ==
  /\ sync[s].at # "idle"
  /\ stray' = stray \cup sync[s].wrote
  /\ Go(s, NoSync)
  /\ UNCHANGED <<server, cache, set, late, ops, resets, sets>>

Interrupt(s) == faults' = faults + 1 /\ Fail(s) /\ Within

\* A UID of an earlier UIDVALIDITY is not used, and a row to write is gone.
StaleRef(s) ==
  /\ \/ /\ validity # sync[s].next.validity
        /\ \/ sync[s].at = "raw" /\ sync[s].added # {}
           \/ /\ sync[s].at = "apply" /\ sync[s].raws = {}
              /\ \E c \in sync[s].changed : At(c.msg, sync[s].next.validity) = {}
     \/ sync[s].at = "write" /\ Stored(sync[s].write.id) = {}
  /\ UNCHANGED faults
  /\ Fail(s)

----------------------------------------------------------------------------
(* Email/set. *)

Put(t, new) == set' = [set EXCEPT ![t] = new]
Pass(t, at) == Put(t, [set[t] EXCEPT !.at = at])

\* The row is read, with the coordinates and keywords the call goes on with.
ReadRow(t, r, at, k) ==
  /\ set[t].at = "idle"
  /\ sets' = sets + 1
  /\ r \in rows
  /\ Put(t, [at |-> at, msg |-> r.msg, validity |-> r.validity,
             write |-> [id |-> r.id, was |-> r.flag, want |-> k]])
  /\ UNCHANGED <<server, cache, sync, history, ops, resets, faults>>
  /\ Within

SetFlag(t, r, k) == ReadRow(t, r, "store", k)
Destroy(t, r) == ReadRow(t, r, "expunge", r.flag)

\* STORE of what differs from the row; a UID that is gone is ignored, one of an
\* earlier UIDVALIDITY fails the call.
StoreFlag(t) ==
  LET m == set[t].msg
      w == set[t].write IN
  /\ set[t].at = "store"
  /\ IF set[t].validity = validity THEN Pass(t, "read") ELSE Put(t, NoSet)
  /\ IF set[t].validity = validity /\ m \in on /\ w.was # w.want /\ flag[m] # w.want
     THEN flag' = [flag EXCEPT ![m] = w.want] /\ Changed(m)
     ELSE UNCHANGED <<flag, mod, modseq>>
  /\ UNCHANGED <<kind, validity, on, cache, sync, stray, late, bounds>>

\* The keywords of the row are read once more, for the counter.
ReadFlags(t) ==
  /\ set[t].at = "read"
  /\ \/ Stored(set[t].write.id) = {} /\ Put(t, NoSet)
     \/ \E r \in Stored(set[t].write.id) :
          Put(t, [set[t] EXCEPT !.at = "write", !.write.was = r.flag])
  /\ UNCHANGED <<server, cache, sync, history, bounds>>

\* The keywords are written to the row as the call computed them.
WriteFlag(t) ==
  LET w == set[t].write IN
  /\ set[t].at = "write"
  /\ SetFlags(w)
  /\ late' = late \cup {r.id : r \in {q \in Stored(w.id) : q.msg \in on /\ flag[q.msg] # w.want}}
  /\ Pass(t, "count")
  /\ UNCHANGED <<server, box, unread, cursor, ids, sync, stray, bounds>>

CountSet(t) ==
  /\ set[t].at = "count"
  /\ Count(set[t].write)
  /\ Put(t, NoSet)
  /\ UNCHANGED <<server, box, rows, cursor, ids, sync, history, bounds>>

\* The message is marked \Deleted.
StoreDeleted(t) ==
  LET m == set[t].msg IN
  /\ set[t].at = "expunge"
  /\ IF set[t].validity = validity THEN Pass(t, "marked") ELSE Put(t, NoSet)
  /\ IF set[t].validity = validity /\ m \in on
     THEN Changed(m)
     ELSE UNCHANGED <<mod, modseq>>
  /\ UNCHANGED <<kind, validity, on, flag, cache, sync, history, bounds>>

\* A server that cannot expunge one message alone.
RefuseDestroy(t) ==
  /\ set[t].at = "expunge"
  /\ Put(t, NoSet)
  /\ UNCHANGED <<server, cache, sync, history, bounds>>

\* UID EXPUNGE on the server.
StoreExpunge(t) ==
  LET m == set[t].msg IN
  /\ set[t].at = "marked"
  /\ IF set[t].validity = validity THEN Pass(t, "remove") ELSE Put(t, NoSet)
  /\ IF set[t].validity = validity /\ m \in on
     THEN on' = on \ {m} /\ Changed(m)
     ELSE UNCHANGED <<on, mod, modseq>>
  /\ UNCHANGED <<kind, validity, flag, cache, sync, history, bounds>>

RemoveRow(t) ==
  LET gone == Stored(set[t].write.id) IN
  /\ set[t].at = "remove"
  /\ rows' = rows \ gone
  /\ Put(t, [set[t] EXCEPT !.at = "count", !.write = Deleted(gone)])
  /\ UNCHANGED <<server, box, unread, cursor, ids, sync, history, bounds>>

\* The call ends between two of its steps: a timeout, an error, a restart.
Abandon(t) ==
  /\ set[t].at # "idle"
  /\ faults' = faults + 1
  /\ Put(t, NoSet)
  /\ UNCHANGED <<server, cache, sync, history, ops, resets, sets>>
  /\ Within

----------------------------------------------------------------------------
World == Reset \/ \E m \in Msgs : Deliver(m) \/ Expunge(m) \/ Mark(m)

Synced(s) ==
  \/ List(s) \/ Register(s) \/ Load(s) \/ SelectQresync(s) \/ SelectOther(s)
  \/ Search(s) \/ FetchFlags(s) \/ Reconcile(s) \/ FetchRaw(s) \/ ApplyFlag(s)
  \/ CountSync(s) \/ SaveCursor(s) \/ StaleRef(s)
  \/ \E raw \in sync[s].raws : Ingest(s, raw)
  \/ \E change \in sync[s].changed : ReadFlag(s, change)
  \/ \E ref \in ToDrop(s) : Drop(s, ref)

Call(t) ==
  \/ StoreFlag(t) \/ ReadFlags(t) \/ WriteFlag(t) \/ CountSet(t)
  \/ StoreDeleted(t) \/ RefuseDestroy(t) \/ StoreExpunge(t) \/ RemoveRow(t)

Next ==
  \/ World
  \/ \E s \in Syncers : Synced(s) \/ Interrupt(s)
  \/ \E t \in Setters : Call(t) \/ Abandon(t) \/ \E r \in rows :
       Destroy(t, r) \/ \E k \in Keywords : SetFlag(t, r, k)

Spec == Init /\ [][Next]_vars

\* The account is synced again and again, and a call goes on to its end.
FairSpec ==
  /\ Spec
  /\ \A s \in Syncers : WF_vars(Synced(s))
  /\ \A t \in Setters : WF_vars(Call(t))

----------------------------------------------------------------------------
(* Properties. *)

Cursor == [tag : {"none", "snapshot", "qresync"}, validity : Nat,
           known : SUBSET Msgs, modseq : Nat]
Coordinate == [msg : Msgs, validity : Nat]
Raw == [msg : Msgs, flag : Keywords]
Write == [id : 0..ids, was : Keywords, want : Keywords]

\* Every variable has its type.
TypeOK ==
  /\ kind \in Kinds
  /\ validity \in Nat /\ modseq \in Nat /\ ids \in Nat /\ box \in 0..validity
  /\ on \subseteq Msgs
  /\ flag \in [Msgs -> Keywords]
  /\ mod \in [Msgs -> 0..modseq]
  /\ unread \in Nat
  /\ rows \subseteq [id : 1..ids, msg : Msgs, validity : 1..validity, flag : Keywords]
  /\ cursor \in Cursor
  /\ sync \in [Syncers -> [at : {"idle", "listed", "load", "select", "search", "fetch",
                                 "reconcile", "raw", "apply", "write", "count"},
                           list : [validity : 0..validity, unread : Nat],
                           cursor : Cursor, next : Cursor, raws : SUBSET Raw,
                           added : SUBSET Msgs, changed : SUBSET Raw,
                           removed : SUBSET Coordinate, write : Write,
                           wrote : SUBSET (1..ids)]]
  /\ set \in [Setters -> [at : {"idle", "store", "read", "write", "expunge", "marked",
                                "remove", "count"},
                          msg : Msgs, validity : Nat, write : Write]]
  /\ stray \subseteq 1..ids /\ late \subseteq 1..ids

Identified(m) == Identity[m] # NoIdentity
Alone(m) == Like(m) = {m}

\* Under one UIDVALIDITY a message has one row, and one that the store can tell
\* from the others has one row in all, whatever resets and half-done syncs it went
\* through.
OneRowPerMessage ==
  \A q, r \in rows :
    q.msg = r.msg /\ (q.validity = r.validity \/ (Identified(q.msg) /\ Alone(q.msg))) => q = r

\* A message that is on the server and has a row keeps one, also when the
\* UIDVALIDITY changes: the row of its stable id, when the store can tell it by its
\* Message-ID and date.  Two messages with the same identity may take each other's.
LiveMailIsKept ==
  [][\A r \in rows : Alone(r.msg) /\ r.msg \in on /\ r.msg \in on' =>
       \E q \in rows' : q.msg = r.msg /\ (Identified(r.msg) => q.id = r.id)]_vars

InStep ==
  /\ \A m \in on : \E r \in rows :
       /\ r.msg = m
       /\ r.flag = flag[m] \/ (r.id \in late /\ kind # "plain")
       /\ \A q \in rows : q.msg = m => q = r
  /\ \A r \in rows : r.msg \in on \/ r.id \in stray
  /\ unread = Cardinality({m \in on : flag[m] = "unread"})

\* Once the server, its clients and the failures are quiet, the cache comes to
\* show the mailbox: every message once, with its keywords, nothing that is gone,
\* and the number of unread messages.
\* Left out are rows of a sync that failed half-way, which may stay for good,
\* and keywords an Email/set wrote over newer ones.
Converges == <>[]InStep
============================================================================
