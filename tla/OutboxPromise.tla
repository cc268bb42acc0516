---------------------------- MODULE OutboxPromise ----------------------------
(***************************************************************************)
(* What the outbox promises for every message, said without processes,      *)
(* tasks, tokens or clocks (docs/admin/outbox-recall.md, "States").  A row  *)
(* is claimed before the message leaves; the message leaves at most once;   *)
(* a claim whose message has not left may be given back, one whose message  *)
(* has left is recorded as sent or as uncertain, and an end is an end.      *)
(***************************************************************************)
EXTENDS Naturals

CONSTANT Subs

VARIABLES status, copies

vars == <<status, copies>>

Init ==
    /\ status = [s \in Subs |-> "absent"]
    /\ copies = [s \in Subs |-> 0]

Move(s, from, to) ==
    /\ status[s] = from
    /\ status' = [status EXCEPT ![s] = to]
    /\ UNCHANGED copies

Submit(s)   == Move(s, "absent", "pending")
Recall(s)   == Move(s, "pending", "canceled")
Begin(s)    == Move(s, "pending", "sending")
PutBack(s)  == copies[s] = 0 /\ Move(s, "sending", "pending")
GiveUp(s)   == copies[s] = 0 /\ Move(s, "sending", "failed")
Confirm(s)  == copies[s] = 1 /\ Move(s, "sending", "final")
Doubt(s)    == Move(s, "sending", "uncertain")

HandOver(s) ==
    /\ status[s] = "sending" /\ copies[s] = 0
    /\ copies' = [copies EXCEPT ![s] = 1]
    /\ UNCHANGED status

Next == \E s \in Subs :
    \/ Submit(s) \/ Recall(s) \/ Begin(s) \/ HandOver(s)
    \/ PutBack(s) \/ GiveUp(s) \/ Confirm(s) \/ Doubt(s)

Spec == Init /\ [][Next]_vars
=============================================================================
