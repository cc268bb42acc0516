---------------------------- MODULE KeyedPromise ----------------------------
(***************************************************************************)
(* What the Idempotency-Key layer promises to a client that repeats its    *)
(* writes, said without ledger, slots, locks or expiry ("This layer makes  *)
(* such a retry safe", src/crates/mw-server/src/idempotency.rs).  A key is *)
(* written once; a repetition gets the kept answer of that very write; a   *)
(* key is refused only where another body has it.  What is lost by age,    *)
(* want of room, a restart or a call that is cut off excuses its key.      *)
(***************************************************************************)
CONSTANTS Requests, Keys, Bodies, None

VARIABLES
  stage,    \* of a request: new, open, wrote or done
  call,     \* its key and body
  applied,  \* requests whose write was applied
  kept,     \* requests whose answer was kept
  given,    \* the request whose answer another one was given
  excused   \* keys that may be written again

vars == <<stage, call, applied, kept, given, excused>>

Calls == [key : Keys, body : Bodies]

Init ==
  /\ stage = [r \in Requests |-> "new"]
  /\ call \in [Requests -> Calls]
  /\ applied = {} /\ kept = {} /\ excused = {}
  /\ given = [r \in Requests |-> None]

Under(q) == q \in kept \/ stage[q] \in {"open", "wrote"}

\* Only a key with which something is under way or kept is excused.
Excuse(more) ==
  /\ more \subseteq {call[q].key : q \in {p \in Requests : Under(p)}}
  /\ excused' = excused \cup more

Enter(r, c, to) ==
  /\ stage[r] = "new"
  /\ stage' = [stage EXCEPT ![r] = to]
  /\ call' = [call EXCEPT ![r] = c]
  /\ UNCHANGED <<applied, kept, given>>

Ask(r, c) == Enter(r, c, "open") /\ \E more \in SUBSET Keys : Excuse(more)

Refuse(r, c) ==
  /\ Enter(r, c, "done") /\ UNCHANGED excused
  /\ \E q \in Requests : Under(q) /\ call[q].key = c.key /\ call[q].body # c.body

GoOn(r, from, to) ==
  /\ stage[r] = from /\ stage' = [stage EXCEPT ![r] = to]
  /\ UNCHANGED call

Write(r) ==
  /\ GoOn(r, "open", "wrote")
  /\ \A q \in applied : call[q].key = call[r].key => call[r].key \in excused
  /\ applied' = applied \cup {r}
  /\ UNCHANGED <<kept, given, excused>>

Keep(r) ==
  /\ GoOn(r, "wrote", "done")
  /\ kept' = kept \cup {r}
  /\ UNCHANGED <<applied, given, excused>>

Repeat(r, q) ==
  /\ GoOn(r, "open", "done")
  /\ q \in kept /\ call[q] = call[r]
  /\ given' = [given EXCEPT ![r] = q]
  /\ UNCHANGED <<applied, kept, excused>>

\* A request ends without an answer of its own; its write may be repeated.
Leave(r) ==
  /\ \/ GoOn(r, "open", "done") /\ UNCHANGED excused
     \/ GoOn(r, "wrote", "done") /\ excused' = excused \cup {call[r].key}
  /\ UNCHANGED <<applied, kept, given>>

Forget ==
  /\ \E more \in SUBSET Keys : Excuse(more)
  /\ UNCHANGED <<stage, call, applied, kept, given>>

Restart ==
  /\ stage' = [r \in Requests |-> IF stage[r] = "new" THEN "new" ELSE "done"]
  /\ \E more \in SUBSET Keys :
        Excuse(more) /\ {call[r].key : r \in {q \in Requests : stage[q] = "wrote"}} \subseteq more
  /\ UNCHANGED <<call, applied, kept, given>>

Next ==
  \/ Forget \/ Restart
  \/ \E r \in Requests : \/ \E c \in Calls : Ask(r, c) \/ Refuse(r, c)
                         \/ Write(r) \/ Keep(r) \/ Leave(r)
                         \/ \E q \in Requests : Repeat(r, q)

Spec == Init /\ [][Next]_vars
=============================================================================
