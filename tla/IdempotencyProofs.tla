------------------------- MODULE IdempotencyProofs -------------------------
(***************************************************************************)
(* Proofs about Idempotency, for any keys and bodies, any number of        *)
(* requests and restarts and a ledger of any size: one write per key,      *)
(* answers that are one's own, a full ledger that gives up its oldest, and *)
(* that the layer keeps what KeyedPromise says and what follows from it.   *)
(***************************************************************************)
EXTENDS Idempotency, FiniteSetTheorems, TLAPS

Ats == {"idle", "joined", "wait", "run", "applied", "ended"}
Request == [at : Ats, key : Keys, body : Bodies, slot : 0..arrived]
Slot == [key : Keys, body : Bodies, old : BOOLEAN, by : 0..arrived]
Busy == Holding \cup Waiting

\* Nothing is known of a request before it arrives.
Unborn == \A r \in Requests : r > arrived =>
  req[r].at = "idle" /\ replayed[r] = None

\* A key leads to a slot of its own, and so does a request.
OwnSlot ==
  /\ \A k \in Keys : ledger[k] # None => slot[ledger[k]].key = k
  /\ \A r \in Requests : req[r].at \in Busy =>
       /\ req[r].slot # None
       /\ slot[req[r].slot].key = req[r].key
       /\ slot[req[r].slot].body = req[r].body

\* One request at a time has a slot, and only while the slot is empty.
OneHolder ==
  /\ \A q, r \in Requests :
       req[q].at \in Holding /\ req[r].at \in Holding /\ req[q].slot = req[r].slot => q = r
  /\ \A r \in Requests : req[r].at \in Holding => slot[req[r].slot].by = None

\* A request writes while it has its slot.
Writes == \A r \in Requests :
  /\ req[r].at = "applied" => r \in applied
  /\ r \in applied => req[r].at \in {"applied", "ended"}

\* An answer is kept in the slot of the request that it is the answer of.
KeptIsOwn == \A s \in Requests : LET q == slot[s].by IN q # None =>
  /\ q \in applied
  /\ req[q].at = "ended"
  /\ req[q].slot = s
  /\ slot[s].key = req[q].key
  /\ slot[s].body = req[q].body

\* The ledger leads to the slot of every request that runs or waits and of
\* every write, or the key is excused.
OnRecord(r) ==
  /\ req[r].slot # None
  /\ ledger[req[r].key] = req[r].slot
  /\ ~slot[req[r].slot].old

Tracked ==
  /\ \A r \in Requests : req[r].at \in Busy => req[r].key \in excused \/ OnRecord(r)
  /\ \A r \in applied :
       req[r].key \in excused
       \/ (OnRecord(r) /\ (req[r].at = "applied" \/ slot[req[r].slot].by = r))

\* Inductive.
LedgerInv ==
  /\ TypeOK /\ Unborn /\ OwnSlot /\ OneHolder /\ Writes /\ KeptIsOwn /\ Tracked
  /\ AnswerIsOwn

-----------------------------------------------------------------------------
LEMMA Typed ==
    ASSUME TypeOK
    PROVE  /\ arrived \in Nat /\ arrived <= MaxRequests
           /\ req \in [Requests -> Request]
           /\ ledger \in [Keys -> 0..arrived]
           /\ slot \in [Requests -> Slot]
           /\ applied \subseteq 1..arrived /\ applied \subseteq Requests
           /\ 0..arrived \subseteq {0} \cup Requests
           /\ replayed \in [Requests -> 0..arrived]
           /\ excused \subseteq Keys
           /\ restarts \in Nat
           /\ None \notin Requests
  <1>1. arrived \in Nat /\ arrived <= MaxRequests /\ MaxRequests \in Nat
    BY BoundsAssumption DEF TypeOK
  <1>2. applied \subseteq 1..arrived /\ 1..arrived \subseteq Requests
    BY <1>1 DEF TypeOK, Requests
  <1>3. 0..arrived \subseteq {0} \cup Requests /\ None \notin Requests
    BY <1>1 DEF Requests, None
  <1>4. req \in [Requests -> Request] /\ slot \in [Requests -> Slot]
    BY DEF TypeOK, Request, Slot, Ats
  <1> QED
    BY <1>1, <1>2, <1>3, <1>4 DEF TypeOK

\* The parameters of nothing that has happened yet are keys and bodies.
LEMMA NothingTyped == Nothing.key \in Keys /\ Nothing.body \in Bodies
  BY SentAssumption DEF Nothing

LEMMA SentTyped == \A x \in Sent : x.key \in Keys /\ x.body \in Bodies
  BY SentAssumption

LEMMA InitInv == Init => LedgerInv
  <1> SUFFICES ASSUME Init PROVE LedgerInv
    OBVIOUS
  <1> USE BoundsAssumption, NothingTyped
  <1>1. TypeOK
    BY DEF Init, TypeOK, NoRequest, NoSlot, None, Requests
  <1>2. Unborn /\ OwnSlot /\ OneHolder /\ Writes /\ KeptIsOwn /\ Tracked /\ AnswerIsOwn
    BY DEF Init, Unborn, OwnSlot, OneHolder, Writes, KeptIsOwn, Tracked, OnRecord,
           AnswerIsOwn, NoRequest, NoSlot, None, Requests, Busy, Holding, Waiting
  <1> QED
    BY <1>1, <1>2 DEF LedgerInv

-----------------------------------------------------------------------------
(* Requests that move on. *)

\* A request that moves on keeps its key, its body and its slot, and the others
\* stay where they are.
LEMMA Went ==
    ASSUME TypeOK, NEW r \in Requests, NEW at \in Ats, Go(r, at)
    PROVE  /\ req' \in [Requests -> Request]
           /\ \A q \in Requests \ {r} : req'[q] = req[q]
           /\ req'[r].at = at
           /\ req'[r].key = req[r].key
           /\ req'[r].body = req[r].body
           /\ req'[r].slot = req[r].slot
  <1>1. req \in [Requests -> Request]
    BY Typed
  <1>2. req' = [req EXCEPT ![r] = [req[r] EXCEPT !.at = at]]
    BY <1>1 DEF Go
  <1>3. [req[r] EXCEPT !.at = at] \in Request
    BY <1>1 DEF Request
  <1> QED
    BY <1>1, <1>2, <1>3 DEF Request

\* A request in line moves on: it queues, it runs, it goes without running.
LEMMA InLine ==
    ASSUME LedgerInv, NEW r \in Requests, NEW at \in {"wait", "run", "ended"},
           req[r].at \in Waiting, Go(r, at),
           at = "run" => ~Locked(req[r].slot) /\ slot[req[r].slot].by = None,
           UNCHANGED <<arrived, ledger, slot, applied, excused, restarts>>,
           \/ UNCHANGED replayed
           \/ /\ slot[req[r].slot].by # None
              /\ replayed' = [replayed EXCEPT ![r] = slot[req[r].slot].by]
    PROVE  LedgerInv'
  <1> USE DEF LedgerInv, Holding, Waiting, Busy
  <1>1. at \in Ats
    BY DEF Ats
  <1>2. /\ req' \in [Requests -> Request]
        /\ \A q \in Requests \ {r} : req'[q] = req[q]
        /\ req'[r].at = at
        /\ req'[r].key = req[r].key
        /\ req'[r].body = req[r].body
        /\ req'[r].slot = req[r].slot
    BY <1>1, Went
  <1>3. /\ req[r].slot \in Requests /\ slot[req[r].slot].by \in 0..arrived
        /\ slot[req[r].slot].key = req[r].key
        /\ slot[req[r].slot].body = req[r].body
    <2>1. req[r].slot \in 0..arrived
      BY Typed DEF Request
    <2>2. req[r].slot \in Requests
      BY <2>1, Typed DEF OwnSlot, None
    <2>3. slot[req[r].slot].by \in 0..arrived
      BY <2>2, Typed DEF Slot
    <2> QED
      BY <2>2, <2>3 DEF OwnSlot
  <1>4. TypeOK'
    <2>1. replayed' \in [Requests -> 0..arrived]
      BY <1>3, Typed
    <2> QED
      BY <1>2, <2>1, Typed DEF TypeOK, Request, Ats
  <1>5. Unborn'
    BY <1>2, <1>3, Typed DEF Unborn, Requests
  <1>6. OwnSlot'
    BY <1>2 DEF OwnSlot
  <1>7. OneHolder'
    BY <1>2 DEF OneHolder, Locked
  <1>8. r \notin applied
    BY DEF Writes
  <1>9. Writes'
    BY <1>2, <1>8 DEF Writes
  <1>10. KeptIsOwn'
    BY <1>2, <1>8, Typed DEF KeptIsOwn
  <1>11. Tracked'
    BY <1>2, <1>8, Typed DEF Tracked, OnRecord
  <1>12. AnswerIsOwn'
    <2>1. \A q \in applied : q # r /\ q \in Requests
      BY <1>8, Typed
    <2>2. \A q \in Requests : replayed[q] # None =>
            /\ replayed[q] \in applied
            /\ req'[replayed[q]].key = req'[q].key
            /\ req'[replayed[q]].body = req'[q].body
      BY <1>2, <2>1 DEF AnswerIsOwn
    <2>3. slot[req[r].slot].by # None =>
            /\ slot[req[r].slot].by \in applied
            /\ req'[slot[req[r].slot].by].key = req'[r].key
            /\ req'[slot[req[r].slot].by].body = req'[r].body
      BY <1>2, <1>3, <2>1 DEF KeptIsOwn
    <2> QED
      BY <2>2, <2>3, Typed DEF AnswerIsOwn
  <1> QED
    BY <1>4, <1>5, <1>6, <1>7, <1>9, <1>10, <1>11, <1>12

-----------------------------------------------------------------------------
(* Requests that arrive. *)

\* A request that arrives was not known, and the others stay where they are.
LEMMA Entered ==
    ASSUME TypeOK, Unborn, NEW r \in Requests, Enter(r), NEW new,
           new \in [at : {"joined", "ended"}, key : Keys, body : Bodies, slot : 0..r],
           req' = [req EXCEPT ![r] = new]
    PROVE  /\ req' \in [Requests -> Request']
           /\ \A q \in Requests \ {r} : req'[q] = req[q]
           /\ req'[r] = new
           /\ arrived' = r /\ r = arrived + 1
           /\ r \notin applied /\ req[r].at = "idle" /\ replayed[r] = None
           /\ \A q \in Requests : req[q].slot # r /\ replayed[q] # r
           /\ \A k \in Keys : ledger[k] # r
  <1>1. arrived' = r /\ r = arrived + 1
    BY DEF Enter
  <1>2. r \in Nat /\ r > arrived /\ r \notin 0..arrived
    BY <1>1, Typed
  <1>3. \A q \in Requests : req[q] \in Request'
    BY <1>1, Typed DEF Request
  <1>4. new \in Request'
    BY <1>1 DEF Request, Ats
  <1>5. req' \in [Requests -> Request'] /\ req'[r] = new
    BY <1>3, <1>4, Typed
  <1>6. r \notin applied /\ req[r].at = "idle" /\ replayed[r] = None
    BY <1>2, Typed DEF Unborn
  <1>7. \A q \in Requests : req[q].slot # r /\ replayed[q] # r
    <2>1. \A q \in Requests : req[q].slot \in 0..arrived
      BY Typed DEF Request
    <2>2. \A q \in Requests : replayed[q] \in 0..arrived
      BY Typed
    <2> QED
      BY <1>2, <2>1, <2>2
  <1> QED
    BY <1>1, <1>2, <1>5, <1>6, <1>7, Typed

\* What has its type has it still when one more request has arrived.
LEMMA GrowsTyped ==
    ASSUME TypeOK, NEW r \in Requests, arrived' = r, r = arrived + 1,
           req' \in [Requests -> Request'],
           UNCHANGED <<ledger, slot, applied, replayed, excused, restarts>>
    PROVE  TypeOK'
  <1>1. r \in 0..MaxRequests /\ 0..arrived \subseteq 0..r /\ 1..arrived \subseteq 1..r
    BY Typed DEF Requests
  <1>2. Slot \subseteq Slot'
    BY <1>1 DEF Slot
  <1>3. slot' \in [Requests -> Slot']
    BY <1>2, Typed
  <1>4. ledger' \in [Keys -> 0..r] /\ replayed' \in [Requests -> 0..r]
    BY <1>1, Typed
  <1> QED
    BY <1>1, <1>3, <1>4, Typed DEF TypeOK, Request, Slot, Ats

\* What does not depend on a new slot.
LEMMA EnteredInv ==
    ASSUME LedgerInv, NEW r \in Requests, Enter(r), NEW new,
           new \in [at : {"joined", "ended"}, key : Keys, body : Bodies, slot : 0..r],
           req' = [req EXCEPT ![r] = new],
           UNCHANGED <<applied, replayed, restarts>>
    PROVE  Unborn' /\ Writes' /\ AnswerIsOwn'
  <1> USE DEF LedgerInv
  <1>1. /\ \A q \in Requests \ {r} : req'[q] = req[q]
        /\ req'[r] = new
        /\ arrived' = r /\ r = arrived + 1
        /\ r \notin applied /\ replayed[r] = None
        /\ \A q \in Requests : replayed[q] # r
    BY Entered
  <1>2. Unborn'
    BY <1>1, Typed DEF Unborn, Requests
  <1>3. Writes'
    BY <1>1 DEF Writes
  <1>4. \A q \in Requests : replayed[q] # None => q # r /\ replayed[q] \in Requests \ {r}
    BY <1>1, Typed
  <1>5. AnswerIsOwn'
    BY <1>1, <1>4 DEF AnswerIsOwn
  <1> QED
    BY <1>2, <1>3, <1>5

LEMMA ReusedInv ==
    ASSUME LedgerInv, NEW r \in Requests, NEW k \in Keys, NEW b \in Bodies, Reused(r, k, b)
    PROVE  LedgerInv'
  <1> DEFINE new == [at |-> "ended", key |-> k, body |-> b, slot |-> None]
  <1> USE DEF LedgerInv, Holding, Waiting, Busy
  <1>1. Enter(r) /\ req' = [req EXCEPT ![r] = new]
        /\ UNCHANGED <<ledger, slot, applied, replayed, excused, restarts>>
    BY DEF Reused
  <1>2. new \in [at : {"joined", "ended"}, key : Keys, body : Bodies, slot : 0..r]
    BY <1>1, Typed DEF None, Enter
  <1>3. Unborn' /\ Writes' /\ AnswerIsOwn'
    BY <1>1, <1>2, EnteredInv
  <1>4. /\ req' \in [Requests -> Request']
        /\ \A q \in Requests \ {r} : req'[q] = req[q]
        /\ req'[r] = new
        /\ arrived' = r /\ r = arrived + 1
        /\ r \notin applied
    BY <1>1, <1>2, Entered
  <1> HIDE DEF new
  <1>5. req'[r].at = "ended"
    BY <1>4 DEF new
  <1>6. TypeOK'
    BY <1>1, <1>4, Typed, GrowsTyped
  <1>7. OwnSlot' /\ OneHolder'
    BY <1>1, <1>4, <1>5 DEF OwnSlot, OneHolder
  <1>8. KeptIsOwn' /\ Tracked'
    BY <1>1, <1>4, <1>5, Typed DEF KeptIsOwn, Tracked, OnRecord
  <1> QED
    BY <1>3, <1>6, <1>7, <1>8

LEMMA JoinInv ==
    ASSUME LedgerInv, NEW r \in Requests, NEW k \in Keys, NEW b \in Bodies, Join(r, k, b)
    PROVE  LedgerInv'
  <1> DEFINE new == [at |-> "joined", key |-> k, body |-> b, slot |-> ledger[k]]
  <1> USE DEF LedgerInv, Holding, Waiting, Busy
  <1>1. Enter(r) /\ Same(k, b) /\ req' = [req EXCEPT ![r] = new]
        /\ UNCHANGED <<ledger, slot, applied, replayed, excused, restarts>>
    BY DEF Join
  <1>2. ledger[k] \in 1..arrived /\ ledger[k] \in Requests
    BY <1>1, Typed DEF Same, Live, None
  <1>3. new \in [at : {"joined", "ended"}, key : Keys, body : Bodies, slot : 0..r]
    BY <1>1, <1>2, Typed DEF None, Enter
  <1>4. Unborn' /\ Writes' /\ AnswerIsOwn'
    BY <1>1, <1>3, EnteredInv
  <1>5. /\ req' \in [Requests -> Request']
        /\ \A q \in Requests \ {r} : req'[q] = req[q]
        /\ req'[r] = new
        /\ arrived' = r /\ r = arrived + 1
        /\ r \notin applied
    BY <1>1, <1>3, Entered, ZenonT(40)
  <1> HIDE DEF new
  <1>6. /\ req'[r].at = "joined" /\ req'[r].key = k /\ req'[r].body = b
        /\ req'[r].slot = ledger[k]
    BY <1>5 DEF new
  <1>7. TypeOK'
    BY <1>1, <1>5, Typed, GrowsTyped
  <1>8. OwnSlot'
    BY <1>1, <1>5, <1>6 DEF OwnSlot, Same, Live
  <1>9. OneHolder'
    BY <1>1, <1>5, <1>6 DEF OneHolder
  <1>10. KeptIsOwn'
    BY <1>1, <1>5, Typed DEF KeptIsOwn
  <1>11. Tracked'
    BY <1>1, <1>5, <1>6, Typed DEF Tracked, OnRecord, Same, Live
  <1> QED
    BY <1>4, <1>7, <1>8, <1>9, <1>10, <1>11

-----------------------------------------------------------------------------
(* A new slot. *)

\* Making room only gives records up.
LEMMA RoomGivesUp ==
    ASSUME TypeOK
    PROVE  /\ WithRoom \in [Keys -> 0..arrived]
           /\ \A k \in Keys : WithRoom[k] \in {ledger[k], None}
  <1> DEFINE young == {k \in Keys : Live(k)}
             newer(k) == {j \in young : ledger[j] > ledger[k]}
             stays(k) == k \in young /\ Cardinality(newer(k)) < MaxEntries - 1
  <1>1. WithRoom = IF ~Full THEN ledger
                   ELSE [k \in Keys |-> IF stays(k) THEN ledger[k] ELSE None]
    BY DEF WithRoom
  <1> HIDE DEF stays
  <1> QED
    BY <1>1, Typed DEF None

\* The ledger leads to the new slot, and nowhere else than before.
LEMMA MadeLedger ==
    ASSUME TypeOK, Unborn, NEW r \in Requests, NEW k \in Keys, NEW b \in Bodies, Make(r, k, b)
    PROVE  /\ ledger' \in [Keys -> 0..r]
           /\ ledger'[k] = r
           /\ \A j \in Keys \ {k} : ledger'[j] \in {ledger[j], None}
           /\ \A j \in Keys : ledger[j] # None /\ ledger'[j] # ledger[j]
                              /\ (slot[ledger[j]].by # None \/ Attached(ledger[j]) # {})
                => j \in excused'
           /\ excused \subseteq excused' /\ excused' \subseteq Keys
  <1>1. ledger' = [WithRoom EXCEPT ![k] = r] /\ r = arrived + 1
    BY DEF Make, Enter
  <1>2. 0..arrived \subseteq 0..r /\ r \in 0..r
    BY <1>1, Typed
  <1>3. ledger' \in [Keys -> 0..r]
    BY <1>1, <1>2, RoomGivesUp
  <1>4. excused' = excused \cup Lost(ledger')
    BY <1>1 DEF Make
  <1>5. Lost(ledger') = {j \in Keys : /\ ledger[j] # None /\ ledger'[j] # ledger[j]
                                      /\ slot[ledger[j]].by # None \/ Attached(ledger[j]) # {}}
    BY DEF Lost
  <1> QED
    BY <1>1, <1>3, <1>4, <1>5, RoomGivesUp, Typed

LEMMA MakeInv ==
    ASSUME LedgerInv, NEW r \in Requests, NEW k \in Keys, NEW b \in Bodies, Make(r, k, b)
    PROVE  LedgerInv'
  <1> DEFINE new == [at |-> "joined", key |-> k, body |-> b, slot |-> r]
             own == [NoSlot EXCEPT !.key = k, !.body = b]
  <1> USE DEF LedgerInv, Holding, Waiting, Busy
  <1>1. /\ Enter(r) /\ req' = [req EXCEPT ![r] = new]
        /\ slot' = [slot EXCEPT ![r] = own]
        /\ UNCHANGED <<applied, replayed, restarts>>
    BY DEF Make
  <1>2. new \in [at : {"joined", "ended"}, key : Keys, body : Bodies, slot : 0..r]
    BY <1>1, Typed DEF None, Enter
  <1>3. Unborn' /\ Writes' /\ AnswerIsOwn'
    BY <1>1, <1>2, EnteredInv
  <1>4. /\ req' \in [Requests -> Request']
        /\ \A q \in Requests \ {r} : req'[q] = req[q]
        /\ req'[r] = new
        /\ arrived' = r /\ r = arrived + 1
        /\ r \notin applied /\ req[r].at = "idle"
        /\ \A q \in Requests : req[q].slot # r
        /\ \A j \in Keys : ledger[j] # r
    BY <1>1, <1>2, Entered
  <1> HIDE DEF new
  <1>5. req'[r].at = "joined" /\ req'[r].key = k /\ req'[r].body = b /\ req'[r].slot = r
    BY <1>4 DEF new
  <1>6. /\ slot' \in [Requests -> Slot']
        /\ slot'[r].key = k /\ slot'[r].body = b /\ slot'[r].by = None /\ ~slot'[r].old
        /\ \A s \in Requests \ {r} : slot'[s] = slot[s]
    <2>1. /\ own \in Slot' /\ own.key = k /\ own.body = b /\ own.by = None
          /\ ~own.old
      <3>1. None \in 0..arrived'
        BY <1>4, Typed DEF None
      <3>2. NoSlot \in Slot' /\ NoSlot.by = None /\ ~NoSlot.old
        BY <3>1, NothingTyped DEF NoSlot, Slot
      <3> QED
        BY <3>2 DEF Slot
    <2>2. Slot \subseteq Slot'
      <3>1. 0..arrived \subseteq 0..arrived'
        BY <1>4, Typed
      <3> QED
        BY <3>1 DEF Slot
    <2> HIDE DEF own
    <2> QED
      BY <1>1, <2>1, <2>2, Typed
  <1>7. TypeOK'
    <2>1. r \in 0..MaxRequests /\ 0..arrived \subseteq 0..r /\ 1..arrived \subseteq 1..r
      BY <1>4, Typed DEF Requests
    <2>2. ledger' \in [Keys -> 0..r] /\ excused' \subseteq Keys
      BY MadeLedger
    <2>3. replayed' \in [Requests -> 0..r]
      BY <1>1, <2>1, Typed
    <2> QED
      BY <1>1, <1>4, <1>6, <2>1, <2>2, <2>3, Typed DEF TypeOK, Request, Slot, Ats
  <1>8. \A q \in Requests : req[q].at \in Busy \/ q \in applied => q # r
    BY <1>4
  <1>9. OwnSlot'
    <2>1. \A j \in Keys : ledger'[j] # None => slot'[ledger'[j]].key = j
      <3> SUFFICES ASSUME NEW j \in Keys, ledger'[j] # None
                   PROVE  slot'[ledger'[j]].key = j
        OBVIOUS
      <3>1. CASE j = k
        BY <3>1, <1>6, MadeLedger
      <3>2. CASE j # k
        <4>1. ledger'[j] = ledger[j] /\ ledger[j] # None
          BY <3>2, MadeLedger
        <4>2. ledger[j] \in Requests \ {r}
          BY <1>4, <4>1, Typed DEF None
        <4> QED
          BY <1>6, <4>1, <4>2 DEF OwnSlot
      <3> QED
        BY <3>1, <3>2
    <2>2. \A q \in Requests : req'[q].at \in Busy =>
            /\ req'[q].slot # None
            /\ slot'[req'[q].slot].key = req'[q].key
            /\ slot'[req'[q].slot].body = req'[q].body
      <3> SUFFICES ASSUME NEW q \in Requests \ {r}, req'[q].at \in Busy
                   PROVE  /\ req'[q].slot # None
                          /\ slot'[req'[q].slot].key = req'[q].key
                          /\ slot'[req'[q].slot].body = req'[q].body
        BY <1>5, <1>6, Typed
      <3>1. req'[q] = req[q] /\ req[q].slot # None /\ req[q].slot # r
        BY <1>4 DEF OwnSlot
      <3>2. req[q].slot \in Requests \ {r}
        BY <3>1, Typed DEF Request, None
      <3> QED
        BY <1>6, <3>1, <3>2 DEF OwnSlot
    <2> QED
      BY <2>1, <2>2 DEF OwnSlot
  <1>10. OneHolder'
    <2>1. \A q \in Requests : req'[q].at \in Holding =>
            q # r /\ req'[q] = req[q] /\ req[q].slot \in Requests \ {r}
      BY <1>4, <1>5, Typed DEF OwnSlot, Request, None
    <2>2. \A q \in Requests : req'[q].at \in Holding => slot'[req'[q].slot].by = None
      BY <1>6, <2>1 DEF OneHolder
    <2> QED
      BY <2>1, <2>2 DEF OneHolder
  <1>11. KeptIsOwn'
    <2> SUFFICES ASSUME NEW s \in Requests, slot'[s].by # None
                 PROVE  /\ slot'[s].by \in applied
                        /\ req'[slot'[s].by].at = "ended"
                        /\ req'[slot'[s].by].slot = s
                        /\ slot'[s].key = req'[slot'[s].by].key
                        /\ slot'[s].body = req'[slot'[s].by].body
      BY <1>1 DEF KeptIsOwn
    <2>1. s # r /\ slot'[s] = slot[s]
      BY <1>6
    <2>2. /\ slot[s].by \in applied /\ req[slot[s].by].at = "ended" /\ req[slot[s].by].slot = s
          /\ slot[s].key = req[slot[s].by].key /\ slot[s].body = req[slot[s].by].body
      BY <2>1 DEF KeptIsOwn
    <2>3. slot[s].by \in Requests \ {r}
      BY <1>8, <2>2, Typed
    <2>4. req'[slot[s].by] = req[slot[s].by]
      BY <1>4, <2>3
    <2> QED
      BY <2>1, <2>2, <2>4
  <1>12. \A q \in Requests \ {r} :
           /\ OnRecord(q) /\ (req[q].at \in Busy \/ slot[req[q].slot].by = q)
           => /\ req[q].key \in excused' \/ OnRecord(q)'
              /\ slot'[req[q].slot] = slot[req[q].slot]
    <2> SUFFICES ASSUME NEW q \in Requests \ {r}, OnRecord(q),
                        req[q].at \in Busy \/ slot[req[q].slot].by = q
                 PROVE  /\ req[q].key \in excused' \/ OnRecord(q)'
                        /\ slot'[req[q].slot] = slot[req[q].slot]
      OBVIOUS
    <2> DEFINE s == req[q].slot
               j == req[q].key
    <2>1. /\ j \in Keys /\ s \in Requests \ {r} /\ ledger[j] = s /\ s # None
          /\ ~slot[s].old /\ req'[q] = req[q] /\ q # None
      BY <1>4, Typed DEF OnRecord, Request, None
    <2>2. slot'[s] = slot[s]
      BY <1>6, <2>1
    <2>3. slot[s].by # None \/ Attached(s) # {}
      BY <2>1 DEF Attached
    <2>4. CASE ledger'[j] = s
      BY <2>1, <2>2, <2>4 DEF OnRecord
    <2>5. CASE ledger'[j] # s
      BY <2>1, <2>2, <2>3, <2>5, MadeLedger
    <2> QED
      BY <2>2, <2>4, <2>5
  <1>13. Tracked'
    <2>1. \A q \in Requests : req'[q].at \in Busy => req'[q].key \in excused' \/ OnRecord(q)'
      <3> SUFFICES ASSUME NEW q \in Requests, req'[q].at \in Busy
                   PROVE  req'[q].key \in excused' \/ OnRecord(q)'
        OBVIOUS
      <3>1. CASE q = r
        BY <1>5, <1>6, <3>1, MadeLedger, Typed DEF OnRecord
      <3>2. CASE q # r
        BY <1>4, <1>12, <3>2, MadeLedger DEF Tracked
      <3> QED
        BY <3>1, <3>2
    <2>2. \A q \in applied : req'[q].key \in excused'
            \/ (OnRecord(q)' /\ (req'[q].at = "applied" \/ slot'[req'[q].slot].by = q))
      <3> SUFFICES ASSUME NEW q \in applied
                   PROVE  req'[q].key \in excused'
                     \/ (OnRecord(q)' /\ (req'[q].at = "applied" \/ slot'[req'[q].slot].by = q))
        OBVIOUS
      <3>1. q \in Requests \ {r} /\ req'[q] = req[q]
        BY <1>4, Typed
      <3>2. req[q].key \in excused
            \/ (OnRecord(q) /\ (req[q].at = "applied" \/ slot[req[q].slot].by = q))
        BY DEF Tracked
      <3> QED
        BY <1>12, <3>1, <3>2, MadeLedger
    <2> QED
      BY <1>1, <2>1, <2>2 DEF Tracked
  <1> QED
    BY <1>3, <1>7, <1>9, <1>10, <1>11, <1>13

-----------------------------------------------------------------------------
(* The run of a request. *)

\* Where a request that runs or has written is on record.
LEMMA Holder ==
    ASSUME LedgerInv, NEW r \in Requests, req[r].at \in Holding
    PROVE  /\ req[r].key \in Keys
           /\ req[r].slot \in Requests
           /\ slot[req[r].slot].by = None
           /\ slot[req[r].slot].key = req[r].key
           /\ slot[req[r].slot].body = req[r].body
           /\ req[r].key \in excused \/ OnRecord(r)
           /\ r # None
  <1> USE DEF LedgerInv
  <1>1. req[r].at \in Busy
    BY DEF Busy
  <1>2. req[r].key \in Keys /\ req[r].slot \in 0..arrived /\ r # None
    BY Typed DEF Request
  <1> QED
    BY <1>1, <1>2, Typed DEF OwnSlot, OneHolder, Tracked, None

LEMMA ApplyInv ==
    ASSUME LedgerInv, NEW r \in Requests, Apply(r)
    PROVE  LedgerInv'
  <1> USE DEF LedgerInv, Holding, Waiting, Busy
  <1>1. /\ req[r].at = "run" /\ applied' = applied \cup {r} /\ Go(r, "applied")
        /\ UNCHANGED <<arrived, ledger, slot, replayed, excused, restarts>>
    BY DEF Apply
  <1>2. "applied" \in Ats
    BY DEF Ats
  <1>3. /\ req' \in [Requests -> Request]
        /\ \A q \in Requests \ {r} : req'[q] = req[q]
        /\ req'[r].at = "applied"
        /\ req'[r].key = req[r].key
        /\ req'[r].body = req[r].body
        /\ req'[r].slot = req[r].slot
    BY <1>1, <1>2, Went
  <1>4. r \in 1..arrived /\ r \notin applied
    BY <1>1, Typed DEF Unborn, Writes, Requests
  <1>5. TypeOK'
    BY <1>1, <1>3, <1>4, Typed DEF TypeOK, Request, Ats
  <1>6. Unborn' /\ OwnSlot' /\ OneHolder' /\ Writes'
    BY <1>1, <1>3, <1>4, Typed DEF Unborn, OwnSlot, OneHolder, Writes
  <1>7. KeptIsOwn'
    BY <1>1, <1>3, <1>4, Typed DEF KeptIsOwn
  <1>8. Tracked'
    BY <1>1, <1>3, <1>4, Holder, Typed DEF Tracked, OnRecord
  <1>9. AnswerIsOwn'
    BY <1>1, <1>3, <1>4, Typed DEF AnswerIsOwn
  <1> QED
    BY <1>5, <1>6, <1>7, <1>8, <1>9

LEMMA KeepInv ==
    ASSUME LedgerInv, NEW r \in Requests, Keep(r)
    PROVE  LedgerInv'
  <1> DEFINE s == req[r].slot
  <1> USE DEF LedgerInv, Holding, Waiting, Busy
  <1>1. /\ req[r].at = "applied" /\ Go(r, "ended")
        /\ slot' = [slot EXCEPT ![s] = [slot[s] EXCEPT !.by = r]]
        /\ UNCHANGED <<arrived, ledger, applied, replayed, excused, restarts>>
    BY DEF Keep
  <1>2. "ended" \in Ats
    BY DEF Ats
  <1>3. /\ req' \in [Requests -> Request]
        /\ \A q \in Requests \ {r} : req'[q] = req[q]
        /\ req'[r].at = "ended"
        /\ req'[r].key = req[r].key
        /\ req'[r].body = req[r].body
        /\ req'[r].slot = req[r].slot
    BY <1>1, <1>2, Went
  <1>4. r \in 0..arrived /\ r \in applied
    BY <1>1, Typed DEF Writes, Unborn
  <1>5. /\ s \in Requests /\ slot[s].by = None /\ r # None
        /\ slot[s].key = req[r].key /\ slot[s].body = req[r].body
    BY <1>1, Holder
  <1>6. /\ slot' \in [Requests -> Slot]
        /\ \A x \in Requests \ {s} : slot'[x] = slot[x]
        /\ slot'[s].by = r /\ slot'[s].old = slot[s].old
        /\ slot'[s].key = slot[s].key /\ slot'[s].body = slot[s].body
    <2>1. slot \in [Requests -> Slot]
      BY Typed
    <2> HIDE DEF s
    <2>2. [slot[s] EXCEPT !.by = r] \in Slot
      BY <1>4, <1>5, <2>1 DEF Slot
    <2> QED
      BY <1>1, <1>5, <2>1, <2>2 DEF Slot
  <1>7. TypeOK'
    BY <1>1, <1>3, <1>6, Typed DEF TypeOK, Request, Slot, Ats
  <1>8. Unborn' /\ Writes'
    BY <1>1, <1>3, <1>4, Typed DEF Unborn, Writes
  <1>9. OwnSlot'
    <2>1. \A x \in Requests : slot'[x].key = slot[x].key /\ slot'[x].body = slot[x].body
      BY <1>6
    <2>2. \A k \in Keys : ledger[k] # None => ledger[k] \in Requests
      BY Typed DEF None
    <2>3. \A q \in Requests : req[q].slot # None => req[q].slot \in Requests
      BY Typed DEF Request, None
    <2> QED
      BY <1>1, <1>3, <2>1, <2>2, <2>3 DEF OwnSlot
  <1>10. \A q \in Requests \ {r} : req[q].at \in Holding => req[q].slot \in Requests \ {s}
    BY <1>1, Holder DEF OneHolder
  <1>11. OneHolder'
    BY <1>3, <1>6, <1>10 DEF OneHolder
  <1>12. KeptIsOwn'
    <2> SUFFICES ASSUME NEW x \in Requests, slot'[x].by # None
                 PROVE  /\ slot'[x].by \in applied
                        /\ req'[slot'[x].by].at = "ended"
                        /\ req'[slot'[x].by].slot = x
                        /\ slot'[x].key = req'[slot'[x].by].key
                        /\ slot'[x].body = req'[slot'[x].by].body
      BY <1>1 DEF KeptIsOwn
    <2>1. CASE x = s
      BY <1>3, <1>4, <1>5, <1>6, <2>1
    <2>2. CASE x # s
      <3>1. slot'[x] = slot[x]
        BY <1>6, <2>2
      <3>2. /\ slot[x].by \in applied /\ req[slot[x].by].at = "ended"
            /\ req[slot[x].by].slot = x
            /\ slot[x].key = req[slot[x].by].key /\ slot[x].body = req[slot[x].by].body
        BY <3>1 DEF KeptIsOwn
      <3>3. slot[x].by \in Requests \ {r}
        BY <1>1, <3>2, Typed
      <3> QED
        BY <1>3, <3>1, <3>2, <3>3
    <2> QED
      BY <2>1, <2>2
  <1>13. Tracked'
    <2>1. \A q \in Requests : OnRecord(q) => OnRecord(q)'
      <3> SUFFICES ASSUME NEW q \in Requests, OnRecord(q)
                   PROVE  OnRecord(q)'
        OBVIOUS
      <3>1. req[q].slot \in Requests
        BY Typed DEF OnRecord, Request, None
      <3>2. slot'[req[q].slot].old = slot[req[q].slot].old
        BY <1>6, <3>1
      <3> QED
        BY <1>1, <1>3, <3>2 DEF OnRecord
    <2>2. \A q \in Requests : req'[q].at \in Busy => req'[q].key \in excused \/ OnRecord(q)'
      BY <1>3, <2>1 DEF Tracked
    <2>3. \A q \in applied : req'[q].key \in excused
            \/ (OnRecord(q)' /\ (req'[q].at = "applied" \/ slot'[req'[q].slot].by = q))
      <3> SUFFICES ASSUME NEW q \in applied, req[q].key \notin excused
                   PROVE  /\ OnRecord(q)'
                          /\ req'[q].at = "applied" \/ slot'[req'[q].slot].by = q
        BY <1>3, Typed
      <3>1. q \in Requests /\ OnRecord(q) /\ (req[q].at = "applied" \/ slot[req[q].slot].by = q)
        BY Typed DEF Tracked
      <3>2. CASE q = r
        BY <1>3, <1>6, <2>1, <3>1, <3>2
      <3>3. CASE q # r
        <4>1. CASE req[q].at = "applied"
          BY <1>3, <2>1, <3>1, <3>3, <4>1
        <4>2. CASE slot[req[q].slot].by = q
          <5>1. req[q].slot \in Requests \ {s}
            BY <1>5, <3>1, <4>2, Typed DEF OnRecord, Request, None
          <5> QED
            BY <1>3, <1>6, <2>1, <3>1, <3>3, <4>2, <5>1
        <4> QED
          BY <3>1, <4>1, <4>2
      <3> QED
        BY <3>2, <3>3
    <2> QED
      BY <1>1, <2>2, <2>3 DEF Tracked
  <1>14. AnswerIsOwn'
    BY <1>1, <1>3, Typed DEF AnswerIsOwn
  <1> QED
    BY <1>7, <1>8, <1>9, <1>11, <1>12, <1>13, <1>14

LEMMA EndInv ==
    ASSUME LedgerInv, NEW r \in Requests, End(r)
    PROVE  LedgerInv'
  <1> USE DEF LedgerInv, Holding, Waiting, Busy
  <1>1. /\ req[r].at \in Holding /\ Go(r, "ended")
        /\ excused' = excused \cup (IF req[r].at = "applied" THEN {req[r].key} ELSE {})
        /\ UNCHANGED <<arrived, ledger, slot, applied, replayed, restarts>>
    BY DEF End
  <1>2. "ended" \in Ats
    BY DEF Ats
  <1>3. /\ req' \in [Requests -> Request]
        /\ \A q \in Requests \ {r} : req'[q] = req[q]
        /\ req'[r].at = "ended"
        /\ req'[r].key = req[r].key
        /\ req'[r].body = req[r].body
        /\ req'[r].slot = req[r].slot
    BY <1>1, <1>2, Went
  <1>4. excused' \subseteq Keys /\ excused \subseteq excused'
    BY <1>1, Holder, Typed
  <1>5. r \in applied => req[r].key \in excused'
    BY <1>1 DEF Writes
  <1>6. TypeOK'
    BY <1>1, <1>3, <1>4, Typed DEF TypeOK, Request, Ats
  <1>7. Unborn' /\ OwnSlot' /\ OneHolder' /\ Writes'
    BY <1>1, <1>3, Typed DEF Unborn, OwnSlot, OneHolder, Writes
  <1>8. KeptIsOwn'
    BY <1>1, <1>3, Typed DEF KeptIsOwn
  <1>9. Tracked'
    BY <1>1, <1>3, <1>4, <1>5, Typed DEF Tracked, OnRecord
  <1>10. AnswerIsOwn'
    BY <1>1, <1>3, Typed DEF AnswerIsOwn
  <1> QED
    BY <1>6, <1>7, <1>8, <1>9, <1>10

-----------------------------------------------------------------------------
(* Records that are given up. *)

LEMMA ExpireInv ==
    ASSUME LedgerInv, NEW k \in Keys, Expire(k)
    PROVE  LedgerInv'
  <1> DEFINE s == ledger[k]
             without == [ledger EXCEPT ![k] = None]
  <1> USE DEF LedgerInv, Holding, Waiting, Busy
  <1>1. /\ s # None /\ slot' = [slot EXCEPT ![s] = [slot[s] EXCEPT !.old = TRUE]]
        /\ excused' = excused \cup Lost(without)
        /\ UNCHANGED <<arrived, req, ledger, applied, replayed, restarts>>
    BY DEF Expire, Live
  <1>2. s \in Requests /\ slot[s].key = k
    BY <1>1, Typed DEF OwnSlot, None
  <1>3. /\ slot' \in [Requests -> Slot]
        /\ \A x \in Requests \ {s} : slot'[x] = slot[x]
        /\ \A x \in Requests : /\ slot'[x].by = slot[x].by
                               /\ slot'[x].key = slot[x].key /\ slot'[x].body = slot[x].body
    <2>1. slot \in [Requests -> Slot]
      BY Typed
    <2> HIDE DEF s
    <2>2. [slot[s] EXCEPT !.old = TRUE] \in Slot
      BY <1>2, <2>1 DEF Slot
    <2> QED
      BY <1>1, <1>2, <2>1, <2>2 DEF Slot
  <1>4. \A r \in Requests : req[r].slot # None => req[r].slot \in Requests
    BY Typed DEF Request, None
  <1>5. \A j \in Keys : ledger[j] # None => ledger[j] \in Requests
    BY Typed DEF None
  <1>6. /\ excused \subseteq excused' /\ excused' \subseteq Keys
        /\ slot[s].by # None \/ Attached(s) # {} => k \in excused'
    <2>1. without[k] = None
      BY Typed
    <2> HIDE DEF without
    <2> QED
      BY <1>1, <2>1, Typed DEF Lost
  <1>7. TypeOK'
    BY <1>1, <1>3, <1>6, Typed DEF TypeOK, Request, Slot, Ats
  <1>8. Unborn' /\ Writes' /\ AnswerIsOwn'
    BY <1>1 DEF Unborn, Writes, AnswerIsOwn
  <1>9. OwnSlot'
    BY <1>1, <1>3, <1>4, <1>5 DEF OwnSlot
  <1>10. OneHolder'
    <2>1. \A r \in Requests : req[r].at \in Holding => req[r].slot \in Requests
      BY Holder
    <2> QED
      BY <1>1, <1>3, <2>1 DEF OneHolder
  <1>11. KeptIsOwn'
    BY <1>1, <1>3 DEF KeptIsOwn
  <1>12. \A r \in Requests :
           OnRecord(r) /\ (req[r].at \in Busy \/ slot[req[r].slot].by = r)
             => req[r].key \in excused' \/ OnRecord(r)'
    <2> SUFFICES ASSUME NEW r \in Requests, OnRecord(r),
                        req[r].at \in Busy \/ slot[req[r].slot].by = r
                 PROVE  req[r].key \in excused' \/ OnRecord(r)'
      OBVIOUS
    <2>1. /\ req[r].key \in Keys /\ req[r].slot \in Requests /\ r # None
          /\ ledger[req[r].key] = req[r].slot
      BY <1>4, Typed DEF OnRecord, Request
    <2>2. CASE req[r].slot = s
      <3>1. req[r].key = k
        BY <1>1, <1>2, <2>1, <2>2 DEF OwnSlot
      <3>2. slot[s].by # None \/ Attached(s) # {}
        BY <2>1, <2>2 DEF Attached
      <3> QED
        BY <1>6, <3>1, <3>2
    <2>3. CASE req[r].slot # s
      BY <1>1, <1>3, <2>1, <2>3 DEF OnRecord
    <2> QED
      BY <2>2, <2>3
  <1>13. Tracked'
    <2>1. \A r \in Requests : req[r].at \in Busy => req[r].key \in excused' \/ OnRecord(r)'
      BY <1>6, <1>12 DEF Tracked
    <2>2. \A r \in applied : req[r].key \in excused'
            \/ (OnRecord(r)' /\ (req[r].at = "applied" \/ slot'[req[r].slot].by = r))
      <3> SUFFICES ASSUME NEW r \in applied, req[r].key \notin excused'
                   PROVE  OnRecord(r)' /\ (req[r].at = "applied" \/ slot'[req[r].slot].by = r)
        OBVIOUS
      <3>1. r \in Requests /\ OnRecord(r) /\ (req[r].at = "applied" \/ slot[req[r].slot].by = r)
        BY <1>6, Typed DEF Tracked
      <3>2. req[r].slot \in Requests
        BY <1>4, <3>1 DEF OnRecord
      <3> QED
        BY <1>3, <1>12, <3>1, <3>2
    <2> QED
      BY <1>1, <2>1, <2>2 DEF Tracked
  <1> QED
    BY <1>7, <1>8, <1>9, <1>10, <1>11, <1>13

LEMMA RestartInv ==
    ASSUME LedgerInv, Restart
    PROVE  LedgerInv'
  <1> USE DEF LedgerInv, Holding, Waiting, Busy
  <1>1. /\ restarts' = restarts + 1
        /\ ledger' = [k \in Keys |-> None]
        /\ excused' = excused \cup Lost(ledger')
                              \cup {req[r].key : r \in {q \in Requests : req[q].at = "applied"}}
        /\ req' = [r \in Requests |-> IF r <= arrived THEN [req[r] EXCEPT !.at = "ended"]
                                                      ELSE req[r]]
        /\ UNCHANGED <<arrived, slot, applied, replayed>>
    BY DEF Restart
  <1>2. /\ req' \in [Requests -> Request]
        /\ \A r \in Requests : /\ req'[r].at \notin Busy
                               /\ r \in applied => req'[r].at = "ended"
                               /\ r > arrived => req'[r] = req[r]
                               /\ req[r].at = "ended" => req'[r].at = "ended"
                               /\ req'[r].slot = req[r].slot
                               /\ req'[r].key = req[r].key /\ req'[r].body = req[r].body
    <2> SUFFICES ASSUME NEW r \in Requests
                 PROVE  /\ req'[r] \in Request
                        /\ req'[r].at \notin Busy
                        /\ r \in applied => req'[r].at = "ended"
                        /\ r > arrived => req'[r] = req[r]
                        /\ req[r].at = "ended" => req'[r].at = "ended"
                        /\ req'[r].slot = req[r].slot
                        /\ req'[r].key = req[r].key /\ req'[r].body = req[r].body
      BY <1>1
    <2>1. req[r] \in Request /\ arrived \in Nat /\ r \in Nat
      BY Typed DEF Requests
    <2>2. CASE r <= arrived
      <3>1. req'[r] = [req[r] EXCEPT !.at = "ended"]
        BY <1>1, <2>2
      <3> QED
        BY <2>1, <2>2, <3>1 DEF Request, Ats
    <2>3. CASE r > arrived
      <3>1. req'[r] = req[r] /\ r \notin applied
        BY <1>1, <2>1, <2>3, Typed
      <3> QED
        BY <2>1, <2>3, <3>1 DEF Unborn
    <2> QED
      BY <2>1, <2>2, <2>3
  <1>3. excused' \subseteq Keys
    <2>1. \A r \in Requests : req[r].key \in Keys
      BY Typed DEF Request
    <2> QED
      BY <1>1, <2>1, Typed DEF Lost
  <1>4. \A r \in applied : req[r].key \in excused'
    <2> SUFFICES ASSUME NEW r \in applied, req[r].key \notin excused
                 PROVE  req[r].key \in excused'
      BY <1>1
    <2>1. r \in Requests /\ OnRecord(r) /\ (req[r].at = "applied" \/ slot[req[r].slot].by = r)
      BY Typed DEF Tracked
    <2>2. CASE req[r].at = "applied"
      BY <1>1, <2>1, <2>2
    <2>3. CASE slot[req[r].slot].by = r
      <3>1. req[r].key \in Keys /\ ledger[req[r].key] # None /\ ledger'[req[r].key] = None
        BY <1>1, <2>1, Typed DEF OnRecord, Request
      <3>2. slot[ledger[req[r].key]].by # None
        BY <2>1, <2>3, Typed DEF OnRecord
      <3>3. req[r].key \in Lost(ledger')
        BY <3>1, <3>2 DEF Lost
      <3> QED
        BY <1>1, <3>3
    <2> QED
      BY <2>1, <2>2, <2>3
  <1>5. TypeOK'
    BY <1>1, <1>2, <1>3, Typed DEF TypeOK, Request, Slot, Ats, None
  <1>6. Unborn'
    <2>1. \A r \in Requests : r > arrived => req'[r].at = "idle" /\ replayed[r] = None
      <3> HIDE DEF Holding, Waiting, Busy
      <3> QED
        BY <1>2 DEF Unborn
    <2> QED
      BY <1>1, <2>1 DEF Unborn
  <1>7. OwnSlot'
    BY <1>1, <1>2 DEF OwnSlot
  <1>8. OneHolder' /\ Writes'
    BY <1>1, <1>2 DEF OneHolder, Writes
  <1>9. KeptIsOwn'
    BY <1>1, <1>2, Typed DEF KeptIsOwn
  <1>10. Tracked'
    BY <1>1, <1>2, <1>4, Typed DEF Tracked
  <1>11. AnswerIsOwn'
    BY <1>1, <1>2, Typed DEF AnswerIsOwn
  <1> QED
    BY <1>5, <1>6, <1>7, <1>8, <1>9, <1>10, <1>11

-----------------------------------------------------------------------------
LEMMA NextInv ==
    ASSUME LedgerInv, [Next]_vars
    PROVE  LedgerInv'
  <1>1. CASE UNCHANGED vars
    BY <1>1 DEF vars, LedgerInv, TypeOK, Unborn, OwnSlot, OneHolder, Writes, KeptIsOwn, Tracked,
                OnRecord, AnswerIsOwn
  <1>2. ASSUME NEW r \in Requests, Arrive(r) PROVE LedgerInv'
    <2>1. PICK x \in Sent : \/ Join(r, x.key, x.body) \/ Reused(r, x.key, x.body)
                            \/ Make(r, x.key, x.body)
      BY <1>2 DEF Arrive
    <2> QED
      BY <2>1, SentTyped, JoinInv, ReusedInv, MakeInv
  <1>3. ASSUME NEW r \in Requests, Queue(r) PROVE LedgerInv'
    BY <1>3, InLine DEF Queue, Waiting
  <1>4. ASSUME NEW r \in Requests, Replay(r) PROVE LedgerInv'
    BY <1>4, InLine DEF Replay, Waiting
  <1>5. ASSUME NEW r \in Requests, Run(r) PROVE LedgerInv'
    BY <1>5, InLine DEF Run, Waiting
  <1>6. ASSUME NEW r \in Requests, InFlight(r) PROVE LedgerInv'
    BY <1>6, InLine DEF InFlight, Waiting
  <1>7. ASSUME NEW r \in Requests, GoAway(r) PROVE LedgerInv'
    BY <1>7, InLine DEF GoAway, Waiting
  <1>8. ASSUME NEW r \in Requests, Handler(r) PROVE LedgerInv'
    BY <1>8, ApplyInv, KeepInv, EndInv DEF Handler
  <1> QED
    BY <1>1, <1>2, <1>3, <1>4, <1>5, <1>6, <1>7, <1>8, ExpireInv, RestartInv DEF Next, Lock

LEMMA SpecInv == Spec => []LedgerInv
  <1>1. LedgerInv /\ [Next]_vars => LedgerInv'
    BY NextInv
  <1> QED
    BY <1>1, InitInv, PTL DEF Spec

-----------------------------------------------------------------------------
(* The size of the ledger. *)

\* The records that are kept, expired ones included.
Kept == {k \in Keys : ledger[k] # None}

\* Inductive beside LedgerInv: there are never more records than entries.
RoomInv == IsFiniteSet(Kept) /\ Cardinality(Kept) <= MaxEntries

\* A set of numbers has a least one.
LEMMA Least ==
    ASSUME NEW S, S \subseteq Nat, S # {}
    PROVE  \E m \in S : \A x \in S : m <= x
  <1> DEFINE less == OpToRel(<, Nat)
  <1>1. IsWellFoundedOn(less, Nat)
    BY NatLessThanWellFounded
  <1>2. PICK m \in S : \A x \in S : ~ (<<x, m>> \in less)
    <2> HIDE DEF less
    <2> QED
      BY <1>1, WFMin
  <1>3. \A x, y \in Nat : x < y => <<x, y>> \in less
    BY DEF OpToRel
  <1> HIDE DEF less
  <1>4. \A x \in S : ~ (x < m)
    BY <1>2, <1>3
  <1> QED
    BY <1>4

\* No two records have the same age.
LEMMA OneAge ==
    ASSUME LedgerInv, NEW j \in Keys, NEW k \in Keys, ledger[j] # None, ledger[j] = ledger[k]
    PROVE  j = k
  BY DEF LedgerInv, OwnSlot

\* Among some records of a finite ledger one is the oldest.
LEMMA Oldest ==
    ASSUME LedgerInv, NEW S, S \subseteq Keys, S # {}
    PROVE  \E m \in S : \A k \in S : ledger[m] <= ledger[k]
  <1> DEFINE ages == {ledger[k] : k \in S}
  <1>1. ages \subseteq Nat /\ ages # {}
    BY Typed DEF LedgerInv
  <1> HIDE DEF ages
  <1>2. PICK a \in ages : \A x \in ages : a <= x
    BY <1>1, Least
  <1> QED
    BY <1>2 DEF ages

\* Room for one more is there when room was made.
LEMMA RoomIsMade ==
    ASSUME LedgerInv, RoomInv, NEW left, left = {k \in Keys : WithRoom[k] # None}
    PROVE  IsFiniteSet(left) /\ Cardinality(left) <= MaxEntries - 1
  <1> DEFINE young == {k \in Keys : Live(k)}
             newer(k) == {j \in young : ledger[j] > ledger[k]}
             stays(k) == k \in young /\ Cardinality(newer(k)) < MaxEntries - 1
  <1>1. WithRoom = IF ~Full THEN ledger
                   ELSE [k \in Keys |-> IF stays(k) THEN ledger[k] ELSE None]
    BY DEF WithRoom
  <1>2. /\ MaxEntries \in Nat /\ MaxEntries >= 1
        /\ Cardinality(Kept) \in Nat
    BY EntriesAssumption, FS_CardinalityType DEF RoomInv
  <1>3. left \subseteq Kept
    BY RoomGivesUp DEF LedgerInv, Kept
  <1>4. IsFiniteSet(left) /\ Cardinality(left) \in Nat
    BY <1>3, FS_Subset, FS_CardinalityType DEF RoomInv
  <1>5. CASE ~Full
    <2>1. left = Kept
      BY <1>1, <1>5 DEF Kept
    <2> QED
      BY <1>2, <1>4, <1>5, <2>1 DEF Full, Kept
  <1>6. CASE Full
    <2>1. \A k \in left : stays(k)
      <3> HIDE DEF stays
      <3> QED
        BY <1>1, <1>6
    <2>2. CASE left = {}
      BY <1>2, <1>4, <2>2, FS_EmptySet
    <2>3. CASE left # {}
      <3>1. left \subseteq Keys
        OBVIOUS
      <3>2. PICK m \in left : \A k \in left : ledger[m] <= ledger[k]
        BY <2>3, <3>1, Oldest
      <3>3. left \ {m} \subseteq newer(m)
        <4> SUFFICES ASSUME NEW k \in left, k # m
                     PROVE  k \in young /\ ledger[k] > ledger[m]
          OBVIOUS
        <4>1. k \in young /\ ledger[m] <= ledger[k]
          BY <2>1, <3>2
        <4>2. ledger[k] \in Nat /\ ledger[m] \in Nat /\ ledger[m] # None
          BY <1>3, <3>1, Typed DEF LedgerInv, Kept
        <4>3. ledger[k] # ledger[m]
          BY <3>1, <4>2, OneAge
        <4> QED
          BY <4>1, <4>2, <4>3
      <3>4. Cardinality(left \ {m}) = Cardinality(left) - 1
        BY <1>4, FS_RemoveElement
      <3>5. newer(m) \subseteq Kept
        BY DEF Live, Kept
      <3>6. IsFiniteSet(newer(m)) /\ Cardinality(newer(m)) \in Nat
        <4> HIDE DEF newer
        <4> QED
          BY <3>5, FS_Subset, FS_CardinalityType DEF RoomInv
      <3>7. Cardinality(left \ {m}) <= Cardinality(newer(m))
        <4> HIDE DEF newer
        <4> QED
          BY <3>3, <3>6, FS_Subset
      <3>8. Cardinality(newer(m)) < MaxEntries - 1
        BY <2>1
      <3> HIDE DEF newer
      <3> QED
        BY <1>2, <1>4, <3>4, <3>6, <3>7, <3>8
    <2> QED
      BY <2>2, <2>3
  <1> QED
    BY <1>4, <1>5, <1>6

\* A record that leaves a full ledger for a new one is the oldest of as many young
\* ones as there are entries.
LEMMA OldestGoes ==
    ASSUME LedgerInv, RoomInv, NEW k \in Keys, Live(k), WithRoom[k] # ledger[k]
    PROVE  /\ Cardinality({j \in Keys : Live(j)}) >= MaxEntries
           /\ \A j \in Keys : Live(j) => ledger[j] >= ledger[k]
  <1> DEFINE young == {j \in Keys : Live(j)}
             newer == {j \in young : ledger[j] > ledger[k]}
  <1>1. /\ MaxEntries \in Nat /\ MaxEntries >= 1
        /\ Cardinality(Kept) \in Nat
    BY EntriesAssumption, FS_CardinalityType DEF RoomInv
  <1>2. young \subseteq Kept /\ newer \subseteq young /\ k \in young /\ k \notin newer
    BY Typed DEF Live, Kept, LedgerInv
  <1>3. \A j \in young : ledger[j] \in Nat
    BY Typed DEF LedgerInv
  <1> DEFINE stays(x) == x \in young
                         /\ Cardinality({j \in young : ledger[j] > ledger[x]}) < MaxEntries - 1
  <1>4. WithRoom = IF ~Full THEN ledger
                   ELSE [x \in Keys |-> IF stays(x) THEN ledger[x] ELSE None]
    BY DEF WithRoom
  <1>5. ~(Cardinality(newer) < MaxEntries - 1)
    <2>1. ~stays(k)
      <3> HIDE DEF stays
      <3> QED
        BY <1>4
    <2> QED
      BY <1>2, <2>1
  <1> HIDE DEF young, newer, stays
  <1>6. /\ IsFiniteSet(young) /\ Cardinality(young) \in Nat
        /\ IsFiniteSet(newer) /\ Cardinality(newer) \in Nat
        /\ Cardinality(young) <= Cardinality(Kept)
    BY <1>2, FS_Subset, FS_CardinalityType DEF RoomInv
  <1> DEFINE those == newer \cup {k}
  <1>7. IsFiniteSet(those) /\ Cardinality(those) = Cardinality(newer) + 1
    BY <1>2, <1>6, FS_AddElement
  <1>8. those \subseteq young
    BY <1>2
  <1> HIDE DEF those
  <1>9. Cardinality(those) <= Cardinality(young)
    BY <1>6, <1>8, FS_Subset
  <1>10. those = young
    <2>1. Cardinality(those) = Cardinality(young)
      BY <1>1, <1>5, <1>6, <1>7, <1>9 DEF RoomInv
    <2> QED
      BY <1>6, <1>8, <2>1, FS_Subset
  <1>11. Cardinality(young) >= MaxEntries
    BY <1>1, <1>5, <1>6, <1>7, <1>9
  <1>12. \A j \in young : ledger[j] >= ledger[k]
    BY <1>2, <1>3, <1>10 DEF those, newer
  <1> QED
    BY <1>11, <1>12 DEF young

LEMMA MakeRoom ==
    ASSUME LedgerInv, RoomInv, NEW r \in Requests, NEW k \in Keys, NEW b \in Bodies, Make(r, k, b)
    PROVE  RoomInv'
  <1> DEFINE left == {j \in Keys : WithRoom[j] # None}
             those == left \cup {k}
  <1>1. IsFiniteSet(left) /\ Cardinality(left) <= MaxEntries - 1 /\ Cardinality(left) \in Nat
    BY RoomIsMade, FS_CardinalityType
  <1>2. ledger' = [WithRoom EXCEPT ![k] = r] /\ WithRoom \in [Keys -> 0..arrived]
    BY RoomGivesUp DEF Make, LedgerInv
  <1>3. Kept' \subseteq those
    BY <1>2 DEF Kept
  <1> HIDE DEF left
  <1>4. /\ IsFiniteSet(those) /\ Cardinality(those) \in Nat
        /\ Cardinality(those) <= Cardinality(left) + 1
    <2>1. /\ IsFiniteSet(left \cup {k})
          /\ Cardinality(left \cup {k}) = IF k \in left THEN Cardinality(left)
                                                         ELSE Cardinality(left) + 1
      BY <1>1, FS_AddElement
    <2> QED
      BY <1>1, <2>1, FS_CardinalityType
  <1>5. IsFiniteSet(Kept') /\ Cardinality(Kept') <= Cardinality(those) /\ Cardinality(Kept') \in Nat
    <2> HIDE DEF those
    <2> QED
      BY <1>3, <1>4, FS_Subset, FS_CardinalityType
  <1> HIDE DEF those
  <1> QED
    BY <1>1, <1>4, <1>5, EntriesAssumption DEF RoomInv

\* The ledger changes when a slot is made and when the process restarts.
LEMMA WhoWrites ==
    ASSUME [Next]_vars
    PROVE  \/ \E r \in Requests, x \in Sent : Make(r, x.key, x.body)
           \/ Restart
           \/ UNCHANGED ledger
  <1>1. ASSUME NEW r \in Requests, Arrive(r)
        PROVE  (\E x \in Sent : Make(r, x.key, x.body)) \/ UNCHANGED ledger
    BY <1>1 DEF Arrive, Join, Reused
  <1>2. ASSUME NEW r \in Requests, Lock(r) \/ GoAway(r) PROVE UNCHANGED ledger
    BY <1>2 DEF Lock, Queue, Replay, Run, InFlight, GoAway
  <1>3. ASSUME NEW r \in Requests, Handler(r) PROVE UNCHANGED ledger
    BY <1>3 DEF Handler, Apply, Keep, End
  <1>4. ASSUME NEW k \in Keys, Expire(k) PROVE UNCHANGED ledger
    BY <1>4 DEF Expire
  <1>5. CASE UNCHANGED vars
    BY <1>5 DEF vars
  <1> QED
    BY <1>1, <1>2, <1>3, <1>4, <1>5 DEF Next

LEMMA RoomInit == Init => RoomInv
  <1> SUFFICES ASSUME Init PROVE RoomInv
    OBVIOUS
  <1>1. Kept = {}
    BY DEF Init, Kept
  <1> QED
    BY <1>1, FS_EmptySet, EntriesAssumption DEF RoomInv

LEMMA RoomNext ==
    ASSUME LedgerInv, RoomInv, [Next]_vars
    PROVE  RoomInv'
  <1>1. ASSUME NEW r \in Requests, NEW x \in Sent, Make(r, x.key, x.body) PROVE RoomInv'
    BY <1>1, MakeRoom, SentTyped
  <1>2. CASE Restart
    <2>1. Kept' = {}
      BY <1>2 DEF Restart, Kept
    <2> QED
      BY <2>1, FS_EmptySet, EntriesAssumption DEF RoomInv
  <1>3. CASE UNCHANGED ledger
    <2>1. Kept' = Kept
      BY <1>3 DEF Kept
    <2> QED
      BY <2>1 DEF RoomInv
  <1> QED
    BY <1>1, <1>2, <1>3, WhoWrites

LEMMA RoomStays == Spec => []RoomInv
  <1>1. LedgerInv /\ RoomInv /\ [Next]_vars => RoomInv'
    BY RoomNext
  <1> QED
    BY <1>1, RoomInit, SpecInv, PTL DEF Spec

-----------------------------------------------------------------------------
(* The promise: every step of the layer is a step of KeyedPromise or none. *)

\* Inductive beside LedgerInv: what has arrived is not idle.
Born == \A r \in Requests : r <= arrived => req[r].at # "idle"

LEMMA BornNext ==
    ASSUME LedgerInv, Born, [Next]_vars
    PROVE  Born'
  <1> USE DEF LedgerInv
  <1>1. ASSUME NEW r \in Requests, NEW at \in Ats \ {"idle"}, Go(r, at), UNCHANGED arrived
        PROVE  Born'
    BY <1>1, Went DEF Born
  <1>2. ASSUME NEW r \in Requests, NEW x \in Sent, Enter(r),
               NEW new \in [at : {"joined", "ended"}, key : Keys, body : Bodies, slot : 0..r],
               req' = [req EXCEPT ![r] = new]
        PROVE  Born'
    <2>1. \A q \in Requests : q <= arrived' => q = r \/ q <= arrived
      BY <1>2, Typed DEF Enter, Requests
    <2> QED
      BY <1>2, <2>1, Typed DEF Born
  <1>3. ASSUME NEW r \in Requests, Arrive(r) PROVE Born'
    <2> PICK x \in Sent : \/ Join(r, x.key, x.body) \/ Reused(r, x.key, x.body)
                          \/ Make(r, x.key, x.body)
      BY <1>3 DEF Arrive
    <2>1. x.key \in Keys /\ x.body \in Bodies
      BY SentTyped
    <2>2. ledger[x.key] \in 0..arrived /\ arrived \in Nat /\ r \in Nat
      BY <2>1, Typed DEF Requests
    <2>3. Enter(r)
      BY DEF Join, Reused, Make
    <2>4. None \in 0..r /\ r \in 0..r /\ ledger[x.key] \in 0..r
      BY <2>2, <2>3 DEF Enter, None
    <2> QED
      BY <1>2, <2>1, <2>3, <2>4 DEF Join, Reused, Make
  <1>4. ASSUME NEW r \in Requests, Lock(r) \/ Handler(r) \/ GoAway(r) PROVE Born'
    <2>1. \E at \in Ats \ {"idle"} : Go(r, at) /\ UNCHANGED arrived
      BY <1>4 DEF Lock, Handler, Queue, Replay, Run, InFlight, Apply, Keep, End, GoAway, Ats
    <2> QED
      BY <1>1, <2>1
  <1>5. CASE (\E k \in Keys : Expire(k)) \/ UNCHANGED vars
    BY <1>5 DEF Expire, vars, Born
  <1>6. CASE Restart
    <2> SUFFICES ASSUME NEW r \in Requests, r <= arrived PROVE req'[r].at # "idle"
      BY <1>6 DEF Restart, Born
    <2>1. req[r] \in Request /\ req'[r] = [req[r] EXCEPT !.at = "ended"]
      BY <1>6, Typed DEF Restart
    <2> QED
      BY <2>1 DEF Request
  <1> QED
    BY <1>3, <1>4, <1>5, <1>6 DEF Next

LEMMA BornStays == Spec => []Born
  <1>1. Init => Born
    BY DEF Init, Born, Requests
  <1>2. LedgerInv /\ Born /\ [Next]_vars => Born'
    BY BornNext
  <1> QED
    BY <1>1, <1>2, SpecInv, PTL DEF Spec

\* What the promise sees of a request.
LEMMA StageIs ==
    ASSUME LedgerInv
    PROVE  /\ \A r \in Requests :
                 /\ StageOf[r] = "new" <=> req[r].at = "idle"
                 /\ StageOf[r] = "open" <=> req[r].at \in Waiting \cup {"run"}
                 /\ StageOf[r] = "wrote" <=> req[r].at = "applied"
                 /\ StageOf[r] \in {"new", "open", "wrote", "done"}
                 /\ CallOf[r] = [key |-> req[r].key, body |-> req[r].body]
           /\ CallOf \in [Requests -> Promise!Calls]
           /\ KeptOf \subseteq Requests
           /\ \A q \in Requests : q \in KeptOf <=> \E s \in Requests : slot[s].by = q
  <1>1. /\ req \in [Requests -> Request] /\ slot \in [Requests -> Slot]
        /\ 0..arrived \subseteq {0} \cup Requests /\ None \notin Requests
    BY Typed DEF LedgerInv
  <1>2. \A r \in Requests : StageOf[r] = Stage[req[r].at] /\ req[r].at \in Ats
    BY <1>1 DEF StageOf, Request
  <1>3. \A at \in Ats : /\ Stage[at] = "new" <=> at = "idle"
                        /\ Stage[at] = "open" <=> at \in Waiting \cup {"run"}
                        /\ Stage[at] = "wrote" <=> at = "applied"
                        /\ Stage[at] \in {"new", "open", "wrote", "done"}
    BY DEF Ats, Stage, Waiting
  <1>4. \A r \in Requests : CallOf[r] = [key |-> req[r].key, body |-> req[r].body]
    BY DEF CallOf
  <1>5. CallOf \in [Requests -> Promise!Calls]
    BY <1>1 DEF CallOf, Promise!Calls, Request
  <1>6. KeptOf \subseteq Requests
    BY <1>1 DEF KeptOf, Slot, None
  <1>7. \A q \in Requests : q \in KeptOf <=> \E s \in Requests : slot[s].by = q
    BY <1>1 DEF KeptOf
  <1> QED
    BY <1>2, <1>3, <1>4, <1>5, <1>6, <1>7

LEMMA StageMoves ==
    ASSUME LedgerInv, NEW r \in Requests, NEW at \in Ats, Go(r, at)
    PROVE  /\ StageOf' = [StageOf EXCEPT ![r] = Stage[at]]
           /\ CallOf' = CallOf
  <1>1. /\ \A q \in Requests \ {r} : req'[q] = req[q]
        /\ req'[r].at = at /\ req'[r].key = req[r].key /\ req'[r].body = req[r].body
    BY Went DEF LedgerInv
  <1>2. StageOf' = [StageOf EXCEPT ![r] = Stage[at]]
    BY <1>1 DEF StageOf
  <1>3. CallOf' = CallOf
    BY <1>1 DEF CallOf
  <1> QED
    BY <1>2, <1>3

\* The kept answers stay when no slot gets one.
LEMMA KeptStays ==
    ASSUME \A s \in Requests : slot'[s].by = slot[s].by
    PROVE  KeptOf' = KeptOf
  BY DEF KeptOf

\* A key is lost only with something under way or kept.
LEMMA LostIsUnder ==
    ASSUME LedgerInv, NEW new, NEW k \in Lost(new)
    PROVE  \E q \in Requests : Promise!Under(q) /\ CallOf[q].key = k
  <1> USE DEF LedgerInv
  <1>1. /\ k \in Keys /\ ledger[k] # None
        /\ slot[ledger[k]].by # None \/ Attached(ledger[k]) # {}
    BY DEF Lost
  <1>2. ledger[k] \in Requests /\ slot[ledger[k]].key = k
    BY <1>1, Typed DEF OwnSlot, None
  <1>3. CASE slot[ledger[k]].by # None
    <2> DEFINE q == slot[ledger[k]].by
    <2>1. q \in applied /\ q \in Requests /\ req[q].key = k
      BY <1>2, <1>3, Typed DEF KeptIsOwn
    <2>2. q \in KeptOf /\ CallOf[q].key = k
      BY <1>2, <2>1, StageIs
    <2> QED
      BY <2>1, <2>2 DEF Promise!Under
  <1>4. CASE Attached(ledger[k]) # {}
    <2> PICK q \in Requests : req[q].slot = ledger[k] /\ req[q].at \in Busy
      BY <1>4 DEF Attached, Busy
    <2>1. req[q].key = k
      BY <1>2 DEF OwnSlot
    <2>2. StageOf[q] \in {"open", "wrote"}
      BY StageIs DEF Busy, Holding, Waiting
    <2> QED
      BY <2>1, <2>2, StageIs DEF Promise!Under
  <1> QED
    BY <1>1, <1>3, <1>4

LEMMA LostExcuses ==
    ASSUME LedgerInv, NEW new, excused' = excused \cup Lost(new)
    PROVE  \E more \in SUBSET Keys : Promise!Excuse(more)
  <1>1. Lost(new) \in SUBSET Keys
    BY DEF Lost
  <1>2. Lost(new) \subseteq {CallOf[q].key : q \in {p \in Requests : Promise!Under(p)}}
    BY LostIsUnder
  <1> QED
    BY <1>1, <1>2 DEF Promise!Excuse

\* A request arrives.
LEMMA PromiseArrive ==
    ASSUME LedgerInv, NEW r \in Requests, Arrive(r)
    PROVE  Promise!Next
  <1> USE DEF LedgerInv
  <1> PICK x \in Sent : \/ Join(r, x.key, x.body) \/ Reused(r, x.key, x.body)
                        \/ Make(r, x.key, x.body)
    BY DEF Arrive
  <1> DEFINE c == [key |-> x.key, body |-> x.body]
  <1>1. x.key \in Keys /\ x.body \in Bodies /\ c \in Promise!Calls
    BY SentTyped DEF Promise!Calls
  <1>2. Enter(r) /\ r = arrived + 1 /\ arrived \in Nat
    BY Typed DEF Join, Reused, Make, Enter
  <1>3. StageOf[r] = "new"
    <2>1. req[r].at = "idle"
      BY <1>2 DEF Unborn
    <2> QED
      BY <2>1, StageIs
  <1>4. ASSUME NEW at \in {"joined", "ended"}, NEW s \in 0..r,
               req' = [req EXCEPT ![r] = [at |-> at, key |-> x.key, body |-> x.body, slot |-> s]]
        PROVE  StageOf' = [StageOf EXCEPT ![r] = Stage[at]] /\ CallOf' = [CallOf EXCEPT ![r] = c]
    <2>1. req'[r].at = at /\ req'[r].key = x.key /\ req'[r].body = x.body
      BY <1>4, Typed
    <2>2. \A q \in Requests \ {r} : req'[q] = req[q]
      BY <1>4, Typed
    <2>3. StageOf' = [StageOf EXCEPT ![r] = Stage[at]]
      BY <2>1, <2>2 DEF StageOf
    <2>4. CallOf' = [CallOf EXCEPT ![r] = c]
      BY <2>1, <2>2 DEF CallOf
    <2> QED
      BY <2>3, <2>4
  <1>5. Stage["joined"] = "open" /\ Stage["ended"] = "done"
    BY DEF Stage
  <1>6. ledger[x.key] \in 0..r /\ None \in 0..r /\ r \in 0..r
    BY <1>1, <1>2, Typed DEF None
  <1>7. CASE Join(r, x.key, x.body)
    <2>1. StageOf' = [StageOf EXCEPT ![r] = "open"] /\ CallOf' = [CallOf EXCEPT ![r] = c]
      BY <1>4, <1>5, <1>6, <1>7 DEF Join
    <2>2. KeptOf' = KeptOf /\ UNCHANGED <<applied, replayed, excused>>
      BY <1>7, KeptStays DEF Join
    <2>3. Promise!Excuse({}) /\ {} \in SUBSET Keys
      BY <2>2 DEF Promise!Excuse
    <2>4. Promise!Ask(r, c)
      BY <1>3, <2>1, <2>2, <2>3 DEF Promise!Ask, Promise!Enter
    <2> QED
      BY <1>1, <2>4 DEF Promise!Next
  <1>8. CASE Reused(r, x.key, x.body)
    <2>1. StageOf' = [StageOf EXCEPT ![r] = "done"] /\ CallOf' = [CallOf EXCEPT ![r] = c]
      BY <1>4, <1>5, <1>6, <1>8 DEF Reused
    <2>2. KeptOf' = KeptOf /\ UNCHANGED <<applied, replayed, excused>>
      BY <1>8, KeptStays DEF Reused
    <2> DEFINE s == ledger[x.key]
    <2>3. s \in Requests /\ slot[s].key = x.key /\ slot[s].body # x.body /\ ~Free(s)
      BY <1>1, <1>8, Typed DEF Reused, Live, Same, OwnSlot, None
    <2>4. \E q \in Requests : /\ Promise!Under(q)
                              /\ CallOf[q].key = x.key /\ CallOf[q].body # x.body
      <3>1. CASE slot[s].by # None
        <4> DEFINE q == slot[s].by
        <4>1. q \in Requests /\ req[q].key = x.key /\ req[q].body # x.body
          BY <2>3, <3>1, Typed DEF KeptIsOwn
        <4>2. q \in KeptOf
          BY <2>3, <4>1, StageIs
        <4> QED
          BY <4>1, <4>2, StageIs DEF Promise!Under
      <3>2. CASE slot[s].by = None
        <4> PICK q \in Requests : req[q].slot = s /\ req[q].at \in Busy
          BY <2>3, <3>2 DEF Free, Attached, Busy
        <4>1. req[q].key = x.key /\ req[q].body # x.body
          BY <2>3 DEF OwnSlot
        <4>2. StageOf[q] \in {"open", "wrote"}
          BY StageIs DEF Busy, Holding, Waiting
        <4> QED
          BY <4>1, <4>2, StageIs DEF Promise!Under
      <3> QED
        BY <3>1, <3>2
    <2>5. Promise!Refuse(r, c)
      BY <1>3, <2>1, <2>2, <2>4 DEF Promise!Refuse, Promise!Enter
    <2> QED
      BY <1>1, <2>5 DEF Promise!Next
  <1>9. CASE Make(r, x.key, x.body)
    <2>1. StageOf' = [StageOf EXCEPT ![r] = "open"] /\ CallOf' = [CallOf EXCEPT ![r] = c]
      BY <1>4, <1>5, <1>6, <1>9 DEF Make
    <2>2. KeptOf' = KeptOf
      <3>1. slot[r].by = None
        <4> SUFFICES ASSUME slot[r].by # None PROVE FALSE
          OBVIOUS
        <4>1. slot[r].by \in Requests /\ req[slot[r].by].slot = r
          BY Typed DEF KeptIsOwn
        <4>2. req[slot[r].by].slot \in 0..arrived
          BY <4>1, Typed DEF Request
        <4> QED
          BY <1>2, <4>1, <4>2
      <3>2. \A s \in Requests : slot'[s].by = slot[s].by
        BY <1>9, <3>1, Typed DEF Make, NoSlot
      <3> QED
        BY <3>2, KeptStays
    <2>3. UNCHANGED <<applied, replayed>>
      BY <1>9 DEF Make
    <2>4. \E more \in SUBSET Keys : Promise!Excuse(more)
      BY <1>9, LostExcuses DEF Make
    <2>5. Promise!Ask(r, c)
      BY <1>3, <2>1, <2>2, <2>3, <2>4 DEF Promise!Ask, Promise!Enter
    <2> QED
      BY <1>1, <2>5 DEF Promise!Next
  <1> QED
    BY <1>7, <1>8, <1>9

\* One request of a key writes, unless the key is excused.
LEMMA OneWriter == LedgerInv => AppliedOnce
  <1> SUFFICES ASSUME LedgerInv, NEW q \in applied, NEW r \in applied,
                      req[q].key = req[r].key, req[q].key \notin excused
               PROVE  q = r
    BY DEF AppliedOnce
  <1> USE DEF LedgerInv
  <1>1. /\ q \in Requests /\ r \in Requests /\ q # None /\ r # None
        /\ req[q].slot = req[r].slot
        /\ req[q].at = "applied" \/ slot[req[q].slot].by = q
        /\ req[r].at = "applied" \/ slot[req[r].slot].by = r
    BY Typed DEF Tracked, OnRecord
  <1> QED
    BY <1>1 DEF OneHolder, Holding

\* A request that waits is answered, runs or goes.
LEMMA PromiseLock ==
    ASSUME LedgerInv, NEW r \in Requests, Lock(r) \/ GoAway(r)
    PROVE  [Promise!Next]_(Promise!vars)
  <1> USE DEF LedgerInv
  <1>1. Stage["wait"] = "open" /\ Stage["run"] = "open" /\ Stage["ended"] = "done"
    BY DEF Stage
  <1>2. UNCHANGED <<slot, applied, excused>> /\ req[r].at \in Waiting
    BY DEF Lock, Queue, Replay, Run, InFlight, GoAway, Waiting
  <1>3. KeptOf' = KeptOf /\ StageOf[r] = "open"
    BY <1>2, KeptStays, StageIs
  <1>4. CASE (Go(r, "wait") \/ Go(r, "run")) /\ UNCHANGED replayed
    <2>1. StageOf' = [StageOf EXCEPT ![r] = "open"] /\ CallOf' = CallOf
      BY <1>1, <1>4, StageMoves DEF Ats
    <2>2. StageOf' = StageOf
      BY <1>3, <2>1 DEF StageOf
    <2> QED
      BY <1>2, <1>3, <1>4, <2>1, <2>2 DEF Promise!vars
  <1>5. CASE Go(r, "ended") /\ UNCHANGED replayed
    <2>1. StageOf' = [StageOf EXCEPT ![r] = "done"] /\ CallOf' = CallOf
      BY <1>1, <1>5, StageMoves DEF Ats
    <2>2. Promise!Leave(r)
      BY <1>2, <1>3, <1>5, <2>1 DEF Promise!Leave, Promise!GoOn
    <2> QED
      BY <2>2 DEF Promise!Next
  <1>6. CASE Replay(r)
    <2> DEFINE q == slot[req[r].slot].by
    <2>1. StageOf' = [StageOf EXCEPT ![r] = "done"] /\ CallOf' = CallOf
      BY <1>1, <1>6, StageMoves DEF Ats, Replay
    <2>2. q # None /\ req[r].slot \in Requests /\ q \in Requests
      BY <1>2, <1>6, Typed DEF Replay, OwnSlot, Busy, None, Request, Slot
    <2>3. req[q].key = req[r].key /\ req[q].body = req[r].body
      BY <1>2, <2>2 DEF KeptIsOwn, OwnSlot, Busy
    <2>4. q \in KeptOf /\ CallOf[q] = CallOf[r]
      BY <2>2, <2>3, StageIs
    <2>5. replayed' = [replayed EXCEPT ![r] = q]
      BY <1>6 DEF Replay
    <2> HIDE DEF q
    <2>6. Promise!Repeat(r, q)
      BY <1>2, <1>3, <2>1, <2>4, <2>5 DEF Promise!Repeat, Promise!GoOn
    <2> QED
      BY <2>2, <2>6 DEF Promise!Next
  <1> QED
    BY <1>4, <1>5, <1>6 DEF Lock, Queue, Run, InFlight, GoAway

\* The call behind the layer runs, succeeds or is given up.
LEMMA PromiseHandler ==
    ASSUME LedgerInv, AppliedOnce', NEW r \in Requests, Handler(r)
    PROVE  Promise!Next
  <1> USE DEF LedgerInv
  <1>1. Stage["applied"] = "wrote" /\ Stage["ended"] = "done"
    BY DEF Stage
  <1>2. CASE Apply(r)
    <2>1. StageOf' = [StageOf EXCEPT ![r] = "wrote"] /\ CallOf' = CallOf /\ StageOf[r] = "open"
      BY <1>1, <1>2, StageMoves, StageIs DEF Ats, Apply
    <2>2. KeptOf' = KeptOf
      BY <1>2, KeptStays DEF Apply
    <2>3. r \notin applied
      BY <1>2 DEF Writes, Apply
    <2>4. ASSUME NEW q \in applied, CallOf[q].key = CallOf[r].key
          PROVE  CallOf[r].key \in excused
      <3>1. q \in Requests /\ q # r
        BY <2>3, Typed
      <3>2. req[q].key = req[r].key
        BY <2>4, <3>1, StageIs
      <3>3. req'[q].key = req[q].key /\ req'[r].key = req[r].key
        BY <1>2, <3>1, Went DEF Apply, Ats
      <3>4. q \in applied' /\ r \in applied' /\ excused' = excused
        BY <1>2 DEF Apply
      <3> QED
        BY <3>1, <3>2, <3>3, <3>4, StageIs DEF AppliedOnce
    <2>5. Promise!Write(r)
      BY <1>2, <2>1, <2>2, <2>4 DEF Promise!Write, Promise!GoOn, Apply
    <2> QED
      BY <2>5 DEF Promise!Next
  <1>3. CASE Keep(r)
    <2> DEFINE s == req[r].slot
    <2>1. StageOf' = [StageOf EXCEPT ![r] = "done"] /\ CallOf' = CallOf /\ StageOf[r] = "wrote"
      BY <1>1, <1>3, StageMoves, StageIs DEF Ats, Keep
    <2>2. s \in Requests /\ slot[s].by = None
      BY <1>3, Typed DEF Keep, OwnSlot, OneHolder, Busy, Holding, None, Request
    <2>3. /\ slot'[s].by = r
          /\ \A t \in Requests \ {s} : slot'[t] = slot[t]
      BY <1>3, <2>2, Typed DEF Keep, Slot
    <2>4. KeptOf' = KeptOf \cup {r}
      BY <2>2, <2>3, Typed DEF KeptOf
    <2>5. Promise!Keep(r)
      BY <1>3, <2>1, <2>4 DEF Promise!Keep, Promise!GoOn, Keep
    <2> QED
      BY <2>5 DEF Promise!Next
  <1>4. CASE End(r)
    <2>1. StageOf' = [StageOf EXCEPT ![r] = "done"] /\ CallOf' = CallOf
      BY <1>1, <1>4, StageMoves DEF Ats, End
    <2>2. KeptOf' = KeptOf
      BY <1>4, KeptStays DEF End
    <2>3. \/ StageOf[r] = "open" /\ UNCHANGED excused
          \/ StageOf[r] = "wrote" /\ excused' = excused \cup {CallOf[r].key}
      BY <1>4, StageIs DEF End, Holding
    <2>4. Promise!Leave(r)
      BY <1>4, <2>1, <2>2, <2>3 DEF Promise!Leave, Promise!GoOn, End
    <2> QED
      BY <2>4 DEF Promise!Next
  <1> QED
    BY <1>2, <1>3, <1>4 DEF Handler

\* Records are given up, one or all of them.
LEMMA PromiseForget ==
    ASSUME LedgerInv, NEW k \in Keys, Expire(k)
    PROVE  Promise!Next
  <1> USE DEF LedgerInv
  <1>1. StageOf' = StageOf /\ CallOf' = CallOf /\ UNCHANGED <<applied, replayed>>
    BY DEF Expire, StageOf, CallOf
  <1>2. \A s \in Requests : slot'[s].by = slot[s].by
    BY Typed DEF Expire, Slot
  <1>3. KeptOf' = KeptOf
    BY <1>2, KeptStays
  <1>4. \E more \in SUBSET Keys : Promise!Excuse(more)
    BY LostExcuses DEF Expire
  <1> QED
    BY <1>1, <1>3, <1>4 DEF Promise!Next, Promise!Forget

LEMMA PromiseRestart ==
    ASSUME LedgerInv, Born, Restart
    PROVE  Promise!Next
  <1> USE DEF LedgerInv
  <1> DEFINE cut == {req[r].key : r \in {q \in Requests : req[q].at = "applied"}}
             more == Lost([k \in Keys |-> None]) \cup cut
  <1>1. UNCHANGED <<applied, replayed>> /\ KeptOf' = KeptOf
    BY KeptStays DEF Restart
  <1>2. \A r \in Requests :
           /\ req'[r].key = req[r].key /\ req'[r].body = req[r].body
           /\ req'[r].at = IF req[r].at = "idle" THEN "idle" ELSE "ended"
    <2> SUFFICES ASSUME NEW r \in Requests
                 PROVE  /\ req'[r].key = req[r].key /\ req'[r].body = req[r].body
                        /\ req'[r].at = IF req[r].at = "idle" THEN "idle" ELSE "ended"
      OBVIOUS
    <2>1. CASE r <= arrived
      <3>1. req[r] \in Request /\ req'[r] = [req[r] EXCEPT !.at = "ended"]
        BY <2>1, Typed DEF Restart
      <3> QED
        BY <2>1, <3>1 DEF Born, Request
    <2>2. CASE ~(r <= arrived)
      <3>1. r > arrived
        BY <2>2, Typed DEF Requests
      <3> QED
        BY <2>2, <3>1 DEF Unborn, Restart
    <2> QED
      BY <2>1, <2>2
  <1>3. CallOf' = CallOf
    BY <1>2 DEF CallOf
  <1>4. StageOf' = [r \in Requests |-> IF StageOf[r] = "new" THEN "new" ELSE "done"]
    <2>1. Stage["idle"] = "new" /\ Stage["ended"] = "done"
      BY DEF Stage
    <2>2. \A r \in Requests : StageOf[r] = "new" <=> req[r].at = "idle"
      BY StageIs
    <2> QED
      BY <1>2, <2>1, <2>2 DEF StageOf
  <1>5. excused' = excused \cup more
    BY DEF Restart
  <1>6. cut = {CallOf[r].key : r \in {q \in Requests : StageOf[q] = "wrote"}}
    BY StageIs
  <1>7. cut \subseteq {CallOf[q].key : q \in {p \in Requests : Promise!Under(p)}}
    BY <1>6 DEF Promise!Under
  <1>8. Lost([k \in Keys |-> None]) \subseteq
           {CallOf[q].key : q \in {p \in Requests : Promise!Under(p)}}
    BY LostIsUnder
  <1>9. more \in SUBSET Keys
    BY Typed DEF Lost, Request
  <1> HIDE DEF cut
  <1>10. Promise!Excuse(more)
    BY <1>5, <1>7, <1>8 DEF Promise!Excuse
  <1> QED
    BY <1>1, <1>3, <1>4, <1>6, <1>9, <1>10 DEF Promise!Next, Promise!Restart

LEMMA PromiseStep ==
    ASSUME LedgerInv, AppliedOnce', Born, [Next]_vars
    PROVE  [Promise!Next]_(Promise!vars)
  <1>1. ASSUME NEW r \in Requests, Arrive(r) \/ Lock(r) \/ Handler(r) \/ GoAway(r)
        PROVE  [Promise!Next]_(Promise!vars)
    BY <1>1, PromiseArrive, PromiseLock, PromiseHandler
  <1>2. CASE UNCHANGED vars
    BY <1>2 DEF vars, Promise!vars, StageOf, CallOf, KeptOf
  <1> QED
    BY <1>1, <1>2, PromiseForget, PromiseRestart DEF Next

LEMMA PromiseInit == Init => Promise!Init
  <1> SUFFICES ASSUME Init PROVE Promise!Init
    OBVIOUS
  <1>1. CallOf \in [Requests -> Promise!Calls]
    BY InitInv, StageIs
  <1>2. StageOf = [r \in Requests |-> "new"]
    BY DEF Init, StageOf, Stage, NoRequest
  <1>3. KeptOf = {}
    BY DEF Init, KeptOf, NoSlot
  <1> QED
    BY <1>1, <1>2, <1>3 DEF Init, Promise!Init

-----------------------------------------------------------------------------
(* Theorems. *)

\* Every variable has its type, and nothing names a request that has not
\* arrived (TypeOK).
THEOREM LedgerIsTyped == Spec => []TypeOK
  <1>1. LedgerInv => TypeOK
    BY DEF LedgerInv
  <1> QED
    BY <1>1, SpecInv, PTL

\* Of all requests with one key a single one applies its write, unless the
\* record of the key was lost while it mattered (AppliedOnce): however many
\* requests repeat, wait, are left or cut off, and whatever is evicted.
THEOREM OneWritePerKey == Spec => []AppliedOnce
  <1> QED
    BY OneWriter, SpecInv, PTL

\* A request that is answered from the ledger gets the answer of a write that
\* was applied for its own key and body (AnswerIsOwn).
THEOREM RepliesAreOwn == Spec => []AnswerIsOwn
  <1>1. LedgerInv => AnswerIsOwn
    BY DEF LedgerInv
  <1> QED
    BY <1>1, SpecInv, PTL

\* A key whose answer is kept is given up before its time only when a full ledger
\* of young records is there and all the others are younger (OldestGoesFirst).
THEOREM TheOldestGoes == Spec => OldestGoesFirst
  <1> DEFINE Fair == \A k \in Keys :
               Live(k) /\ slot[ledger[k]].by # None /\ ledger'[k] # ledger[k]
               /\ restarts' = restarts =>
                 /\ Cardinality({j \in Keys : Live(j)}) >= MaxEntries
                 /\ \A j \in Keys : Live(j) => ledger[j] >= ledger[k]
  <1>1. LedgerInv /\ RoomInv /\ [Next]_vars => [Fair]_vars
    <2> SUFFICES ASSUME LedgerInv, RoomInv, [Next]_vars, NEW k \in Keys,
                        Live(k), slot[ledger[k]].by # None, ledger'[k] # ledger[k],
                        restarts' = restarts
                 PROVE  /\ Cardinality({j \in Keys : Live(j)}) >= MaxEntries
                        /\ \A j \in Keys : Live(j) => ledger[j] >= ledger[k]
      OBVIOUS
    <2>1. ~Restart
      BY DEF Restart, LedgerInv, TypeOK
    <2>2. PICK r \in Requests, x \in Sent : Make(r, x.key, x.body)
      BY <2>1, WhoWrites
    <2>3. x.key # k
      BY <2>2 DEF Make, Free
    <2>4. ledger'[k] = WithRoom[k]
      BY <2>2, <2>3, RoomGivesUp DEF Make, LedgerInv
    <2> QED
      BY <2>4, OldestGoes
  <1> QED
    BY <1>1, SpecInv, RoomStays, PTL DEF Spec, OldestGoesFirst

\* The layer implements its promise (KeepsPromise): a key is written once, a
\* repetition gets the kept answer of its own write, and a key is refused or
\* written again only for a reason that the promise names.
THEOREM LayerKeepsPromise == Spec => KeepsPromise
  <1>1. LedgerInv /\ AppliedOnce' /\ Born /\ [Next]_vars => [Promise!Next]_(Promise!vars)
    BY PromiseStep
  <1> QED
    BY <1>1, PromiseInit, SpecInv, BornStays, OneWritePerKey, PTL
    DEF Spec, KeepsPromise, Promise!Spec

-----------------------------------------------------------------------------
(* What the promise is worth: what follows from KeyedPromise alone.          *)

\* Inductive.
PromiseInv ==
  /\ DOMAIN replayed = Requests /\ DOMAIN CallOf = Requests
  /\ \A r \in Requests : StageOf[r] = "new" => r \notin applied /\ replayed[r] = None
  /\ \A r \in Requests : StageOf[r] = "wrote" => r \in applied
  /\ KeptOf \subseteq applied /\ applied \subseteq Requests
  /\ \A q, r \in applied : CallOf[q].key = CallOf[r].key /\ q # r => CallOf[q].key \in excused
  /\ \A r \in Requests : replayed[r] # None =>
        replayed[r] \in KeptOf /\ CallOf[replayed[r]] = CallOf[r]

\* A request that has arrived keeps its key and body.
LEMMA PromiseEnters ==
  ASSUME PromiseInv, NEW r \in Requests, NEW c, NEW to \in {"open", "done"},
         Promise!Enter(r, c, to), excused \subseteq excused'
  PROVE  PromiseInv'
  <1>1. /\ \A q \in Requests : CallOf'[q] = IF q = r THEN c ELSE CallOf[q]
        /\ \A q \in Requests : StageOf'[q] = IF q = r THEN to ELSE StageOf[q]
        /\ StageOf[r] = "new" /\ UNCHANGED <<applied, KeptOf, replayed>>
    BY DEF Promise!Enter, PromiseInv, StageOf
  <1>2. r \notin applied /\ \A q \in Requests : replayed[q] # None => replayed[q] # r /\ q # r
    BY <1>1 DEF PromiseInv
  <1> QED
    BY <1>1, <1>2 DEF PromiseInv, Promise!Enter

LEMMA PromiseHolds ==
  ASSUME PromiseInv, [Promise!Next]_(Promise!vars)
  PROVE  PromiseInv'
  <1>0. DOMAIN StageOf = Requests
    BY DEF StageOf
  <1>1. CASE UNCHANGED Promise!vars
    BY <1>1 DEF Promise!vars, PromiseInv
  <1>2. CASE Promise!Forget
    BY <1>2 DEF Promise!Forget, Promise!Excuse, PromiseInv
  <1>3. CASE Promise!Restart
    BY <1>3, <1>0 DEF Promise!Restart, Promise!Excuse, PromiseInv
  <1>4. ASSUME NEW r \in Requests, NEW c \in Promise!Calls,
               Promise!Ask(r, c) \/ Promise!Refuse(r, c)
        PROVE  PromiseInv'
    BY <1>4, PromiseEnters DEF Promise!Ask, Promise!Refuse, Promise!Excuse
  <1>5. ASSUME NEW r \in Requests, Promise!Write(r)
        PROVE  PromiseInv'
    BY <1>5, <1>0 DEF Promise!Write, Promise!GoOn, PromiseInv
  <1>6. ASSUME NEW r \in Requests, Promise!Keep(r)
        PROVE  PromiseInv'
    BY <1>6, <1>0 DEF Promise!Keep, Promise!GoOn, PromiseInv
  <1>7. ASSUME NEW r \in Requests, NEW q \in Requests, Promise!Repeat(r, q)
        PROVE  PromiseInv'
    BY <1>7, <1>0 DEF Promise!Repeat, Promise!GoOn, PromiseInv
  <1>8. ASSUME NEW r \in Requests, Promise!Leave(r)
        PROVE  PromiseInv'
    BY <1>8, <1>0 DEF Promise!Leave, Promise!GoOn, PromiseInv
  <1> QED
    BY <1>1, <1>2, <1>3, <1>4, <1>5, <1>6, <1>7, <1>8 DEF Promise!Next

\* Whatever keeps KeyedPromise applies one write of a key that is not excused
\* (AppliedOnce) and repeats nobody else's answer (AnswerIsOwn).
THEOREM PromiseIsSafe == Promise!Spec => []AppliedOnce /\ []AnswerIsOwn
  <1>1. Promise!Init => PromiseInv
    BY DEF Promise!Init, PromiseInv, CallOf
  <1>2. PromiseInv => AppliedOnce /\ AnswerIsOwn
    BY DEF PromiseInv, AppliedOnce, AnswerIsOwn, CallOf, KeptOf
  <1> QED
    BY <1>1, <1>2, PromiseHolds, PTL DEF Promise!Spec
=============================================================================
