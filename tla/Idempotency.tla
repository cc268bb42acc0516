---------------------------- MODULE Idempotency ----------------------------
(***************************************************************************)
(* The Idempotency-Key layer of mw-server: the ledger of one process, the  *)
(* requests that carry a key, and what runs behind the layer.              *)
(*                                                                         *)
(* A key stands for the record id (owner, method, path and key).  Requests *)
(* are numbered as they arrive; a slot has the number of the request that  *)
(* made it, so that a smaller number is an older slot.  The handler behind *)
(* the layer is external: it applies its write at one moment and succeeds  *)
(* or does not.                                                            *)
(***************************************************************************)
EXTENDS Naturals, FiniteSets

CONSTANTS
  Keys,         \* record ids
  Bodies,       \* hashes of request bodies
  Sent,         \* the keys and bodies that clients send
  MaxEntries,   \* slots the ledger keeps
  MaxRequests,  \* bound: requests
  MaxRestarts   \* bound: restarts of the process

ASSUME SentAssumption == Sent # {} /\ Sent \subseteq [key : Keys, body : Bodies]
ASSUME EntriesAssumption == MaxEntries \in Nat \ {0}
ASSUME BoundsAssumption == MaxRequests \in Nat /\ MaxRestarts \in Nat

Requests == 1..MaxRequests
None == 0

VARIABLES
  arrived,   \* requests that have arrived
  req,       \* a request
  ledger,    \* the slot of a key, None when it has none
  slot,      \* a slot
  applied,   \* requests whose write was applied
  replayed,  \* the run whose answer a request was given
  excused,   \* keys whose record was lost, or whose write was not recorded
  restarts

vars == <<arrived, req, ledger, slot, applied, replayed, excused, restarts>>

\* "by" is the request whose answer the slot keeps.  Requests hold on to a slot
\* that has left the ledger.
Nothing == CHOOSE x \in Sent : TRUE
NoSlot == [key |-> Nothing.key, body |-> Nothing.body, old |-> FALSE, by |-> None]
NoRequest == [at |-> "idle", key |-> Nothing.key, body |-> Nothing.body, slot |-> None]

Init ==
  /\ arrived = 0
  /\ req = [r \in Requests |-> NoRequest]
  /\ ledger = [k \in Keys |-> None]
  /\ slot = [s \in Requests |-> NoSlot]
  /\ applied = {}
  /\ replayed = [r \in Requests |-> None]
  /\ excused = {}
  /\ restarts = 0

----------------------------------------------------------------------------
Holding == {"run", "applied"}
Waiting == {"joined", "wait"}
Attached(s) == {r \in Requests : req[r].slot = s /\ req[r].at \in Holding \cup Waiting}
Locked(s) == \E r \in Requests : req[r].slot = s /\ req[r].at \in Holding

\* The entry is younger than TTL.
Live(k) == ledger[k] # None /\ ~slot[ledger[k]].old

\* try_lock finds the slot unlocked, with nobody in line, and empty.
Free(s) ==
  /\ slot[s].by = None
  /\ \A r \in Attached(s) : req[r].at = "joined"

Full == Cardinality({k \in Keys : ledger[k] # None}) >= MaxEntries

\* Mutant: a ledger that is full is cleared.
Cleared == IF Full THEN [k \in Keys |-> None] ELSE ledger

\* The ledger with room for one more: when it is full, expired entries go first
\* and then the oldest.
WithRoom ==
  LET young == {k \in Keys : Live(k)}
      newer(k) == {j \in young : ledger[j] > ledger[k]} IN
  IF ~Full THEN ledger
  ELSE [k \in Keys |->
          IF k \in young /\ Cardinality(newer(k)) < MaxEntries - 1 THEN ledger[k] ELSE None]

\* Records that are given up although something hangs on them.
Lost(new) ==
  {k \in Keys : /\ ledger[k] # None /\ new[k] # ledger[k]
                /\ slot[ledger[k]].by # None \/ Attached(ledger[k]) # {}}

Go(r, at) == req' = [req EXCEPT ![r].at = at]

----------------------------------------------------------------------------
(* The layer. *)

\* Mutant: a request is not counted.
EnterUncounted(r) == r = arrived + 1 /\ UNCHANGED arrived
Enter(r) == r = arrived + 1 /\ arrived' = r

\* Mutant: the body is not compared.
SameKey(k, b) == Live(k)
\* The key names this request already.
Same(k, b) == Live(k) /\ slot[ledger[k]].body = b

Join(r, k, b) ==
  /\ Same(k, b)
  /\ Enter(r)
  /\ req' = [req EXCEPT ![r] = [at |-> "joined", key |-> k, body |-> b, slot |-> ledger[k]]]
  /\ UNCHANGED <<ledger, slot, applied, replayed, excused, restarts>>

\* 422 idempotencyKeyReused.
Reused(r, k, b) ==
  /\ Live(k) /\ ~Same(k, b) /\ ~Free(ledger[k])
  /\ Enter(r)
  /\ req' = [req EXCEPT ![r] = [at |-> "ended", key |-> k, body |-> b, slot |-> None]]
  /\ UNCHANGED <<ledger, slot, applied, replayed, excused, restarts>>

\* A slot of its own: the key has none, an expired one, or a free one.
Make(r, k, b) ==
  LET new == [WithRoom EXCEPT ![k] = r] IN
  /\ ~Same(k, b)
  /\ Live(k) => Free(ledger[k])
  /\ Enter(r)
  /\ ledger' = new
  /\ slot' = [slot EXCEPT ![r] = [NoSlot EXCEPT !.key = k, !.body = b]]
  /\ req' = [req EXCEPT ![r] = [at |-> "joined", key |-> k, body |-> b, slot |-> r]]
  /\ excused' = excused \cup Lost(new)
  /\ UNCHANGED <<applied, replayed, restarts>>

\* It asks for the lock of its slot.
Queue(r) ==
  /\ req[r].at = "joined"
  /\ Go(r, "wait")
  /\ UNCHANGED <<arrived, ledger, slot, applied, replayed, excused, restarts>>

\* It has the lock: the kept answer, or its own run.
Replay(r) ==
  LET s == req[r].slot IN
  /\ req[r].at = "wait"
  /\ ~Locked(s)
  /\ slot[s].by # None
  /\ replayed' = [replayed EXCEPT ![r] = slot[s].by]
  /\ Go(r, "ended")
  /\ UNCHANGED <<arrived, ledger, slot, applied, excused, restarts>>

\* Mutant: the lock is enough.
RunUnasked(r) ==
  /\ req[r].at = "wait"
  /\ ~Locked(req[r].slot)
  /\ Go(r, "run")
  /\ UNCHANGED <<arrived, ledger, slot, applied, replayed, excused, restarts>>

Run(r) ==
  /\ req[r].at = "wait"
  /\ ~Locked(req[r].slot)
  /\ slot[req[r].slot].by = None
  /\ Go(r, "run")
  /\ UNCHANGED <<arrived, ledger, slot, applied, replayed, excused, restarts>>

\* Mutant: a request waits for as long as it takes.
NeverInFlight(r) == FALSE /\ UNCHANGED vars

\* 409 idempotencyKeyInFlight: it has waited for IN_FLIGHT_WAIT.
InFlight(r) ==
  /\ req[r].at = "wait"
  /\ Locked(req[r].slot)
  /\ Go(r, "ended")
  /\ UNCHANGED <<arrived, ledger, slot, applied, replayed, excused, restarts>>

\* The handler applies its write.
Apply(r) ==
  /\ req[r].at = "run"
  /\ applied' = applied \cup {r}
  /\ Go(r, "applied")
  /\ UNCHANGED <<arrived, ledger, slot, replayed, excused, restarts>>

\* Mutant: an answer that is no success is kept too.
KeepAny(r) ==
  /\ req[r].at \in Holding
  /\ slot' = [slot EXCEPT ![req[r].slot].by = r]
  /\ Go(r, "ended")
  /\ UNCHANGED <<arrived, ledger, applied, replayed, excused, restarts>>

\* Success: the answer is kept, or a refusal in its place when it is too large.
Keep(r) ==
  /\ req[r].at = "applied"
  /\ slot' = [slot EXCEPT ![req[r].slot].by = r]
  /\ Go(r, "ended")
  /\ UNCHANGED <<arrived, ledger, applied, replayed, excused, restarts>>

\* The request ends and its slot stays empty: another answer than success, or
\* the client went away and the call is dropped where it is.
End(r) ==
  /\ req[r].at \in Holding
  /\ excused' = excused \cup (IF req[r].at = "applied" THEN {req[r].key} ELSE {})
  /\ Go(r, "ended")
  /\ UNCHANGED <<arrived, ledger, slot, applied, replayed, restarts>>

GoAway(r) ==
  /\ req[r].at \in Waiting
  /\ Go(r, "ended")
  /\ UNCHANGED <<arrived, ledger, slot, applied, replayed, excused, restarts>>

\* TTL is over for a record, after those of all older ones.
Expire(k) ==
  /\ Live(k)
  /\ \A j \in Keys : Live(j) => ledger[j] >= ledger[k]
  /\ slot' = [slot EXCEPT ![ledger[k]].old = TRUE]
  /\ excused' = excused \cup Lost([ledger EXCEPT ![k] = None])
  /\ UNCHANGED <<arrived, req, ledger, applied, replayed, restarts>>

\* The process restarts; the ledger is in memory.
Restart ==
  /\ restarts < MaxRestarts
  /\ restarts' = restarts + 1
  /\ ledger' = [k \in Keys |-> None]
  /\ excused' = excused \cup Lost(ledger')
                        \cup {req[r].key : r \in {q \in Requests : req[q].at = "applied"}}
  /\ req' = [r \in Requests |-> IF r <= arrived THEN [req[r] EXCEPT !.at = "ended"] ELSE req[r]]
  /\ UNCHANGED <<arrived, slot, applied, replayed>>

----------------------------------------------------------------------------
Arrive(r) ==
  \E x \in Sent : Join(r, x.key, x.body) \/ Reused(r, x.key, x.body) \/ Make(r, x.key, x.body)
Lock(r) == Queue(r) \/ Replay(r) \/ Run(r) \/ InFlight(r)
Handler(r) == Apply(r) \/ Keep(r) \/ End(r)

Next ==
  \/ \E r \in Requests : Arrive(r) \/ Lock(r) \/ Handler(r) \/ GoAway(r)
  \/ \E k \in Keys : Expire(k)
  \/ Restart

Spec == Init /\ [][Next]_vars

\* A task that can go on does, and a wait is bounded by IN_FLIGHT_WAIT.  Nothing
\* is assumed of the handler.
FairSpec == Spec /\ \A r \in Requests : WF_vars(Lock(r))

----------------------------------------------------------------------------
(* Properties. *)

\* Every variable has its type; nothing names a request that has not arrived.
TypeOK ==
  /\ arrived \in 0..MaxRequests
  /\ req \in [Requests -> [at : {"idle", "joined", "wait", "run", "applied", "ended"},
                           key : Keys, body : Bodies, slot : 0..arrived]]
  /\ ledger \in [Keys -> 0..arrived]
  /\ slot \in [Requests -> [key : Keys, body : Bodies, old : BOOLEAN, by : 0..arrived]]
  /\ applied \subseteq 1..arrived
  /\ replayed \in [Requests -> 0..arrived]
  /\ excused \subseteq Keys
  /\ restarts \in Nat

\* Of all requests with one key a single one applies its write, in whatever
\* order they arrive, wait, repeat and are cut off ("This layer makes such a
\* retry safe") - unless the record was lost while it mattered (it expired, was
\* evicted, the process restarted, another body took the key from a request that
\* had not locked yet) or the write was applied and no answer came of it.
AppliedOnce ==
  \A q, r \in applied : req[q].key = req[r].key /\ req[q].key \notin excused => q = r

\* A request that is answered from the ledger gets the answer of a write that
\* was applied for the same key and the same body.
AnswerIsOwn ==
  \A r \in Requests : replayed[r] # None =>
    /\ replayed[r] \in applied
    /\ req[replayed[r]].key = req[r].key
    /\ req[replayed[r]].body = req[r].body

\* A key whose answer is kept is given up before its time only when as many
\* young records as the ledger holds are there, all the others younger.
OldestGoesFirst ==
  [][\A k \in Keys :
       Live(k) /\ slot[ledger[k]].by # None /\ ledger'[k] # ledger[k] /\ restarts' = restarts =>
         /\ Cardinality({j \in Keys : Live(j)}) >= MaxEntries
         /\ \A j \in Keys : Live(j) => ledger[j] >= ledger[k]]_vars

(* The promise to a client that repeats its writes (KeyedPromise). *)
Stage == [idle |-> "new", joined |-> "open", wait |-> "open", run |-> "open",
          applied |-> "wrote", ended |-> "done"]

StageOf == [r \in Requests |-> Stage[req[r].at]]
CallOf == [r \in Requests |-> [key |-> req[r].key, body |-> req[r].body]]
KeptOf == {slot[s].by : s \in Requests} \ {None}

Promise == INSTANCE KeyedPromise
  WITH stage <- StageOf, call <- CallOf, kept <- KeptOf, given <- replayed
KeepsPromise == Promise!Spec

\* No request waits for ever for another one with its key, even when that one
\* never ends.
WaitingEnds == \A r \in Requests : req[r].at \in Waiting ~> req[r].at \notin Waiting
============================================================================
