----------------------------- MODULE JobPromise -----------------------------
(***************************************************************************)
(* What the scheduler promises about job runs, said without tasks, leases, *)
(* clocks or processes (docs/deploy/scheduler-runtime.md).  A kind has one *)
(* running row; its code runs for a row that was still running when it was *)
(* started; success and failure are recorded only of a running row whose   *)
(* code has ended and that was confirmed after that; and a row whose code  *)
(* runs is not taken for dead while processes are prompt.                  *)
(***************************************************************************)
CONSTANTS Runs, Kinds, Prompt

VARIABLES status, kind, stage

vars == <<status, kind, stage>>

Ended == {"ok", "failed", "cancelled", "abandoned"}

Init ==
    /\ status = [r \in Runs |-> "free"]
    /\ kind \in [Runs -> Kinds]
    /\ stage = [r \in Runs |-> "none"]

Free(k) == \A r \in Runs : ~(status[r] = "running" /\ kind[r] = k)

\* The start of a row's execution may be lost with the reply of the store.
Start(r, k) ==
    /\ status[r] = "free" /\ stage[r] = "none" /\ Free(k)
    /\ status' = [status EXCEPT ![r] = "running"]
    /\ kind' = [kind EXCEPT ![r] = k]
    /\ \E at \in {"waiting", "none"} : stage' = [stage EXCEPT ![r] = at]

GoOn(r, from, to) ==
    /\ stage[r] = from /\ stage' = [stage EXCEPT ![r] = to]
    /\ UNCHANGED <<status, kind>>

Enter(r)   == status[r] = "running" /\ GoOn(r, "waiting", "working")
Return(r)  == GoOn(r, "working", "done")
Confirm(r) == status[r] = "running" /\ GoOn(r, "done", "confirmed")
Stop(r)    == \E from \in {"waiting", "working", "done"} : GoOn(r, from, "stopped")

\* An execution records how its row ended, unless that is known already or the
\* write fails, and is over.
Record(r, from, results) ==
    /\ stage[r] = from /\ stage' = [stage EXCEPT ![r] = "none"]
    /\ \/ UNCHANGED status
       \/ /\ status[r] = "running"
          /\ \E result \in results : status' = [status EXCEPT ![r] = result]
    /\ UNCHANGED kind

Report(r) == Record(r, "confirmed", {"ok", "failed"})
Cancel(r) == Record(r, "stopped", {"cancelled"})

\* Executions are lost with their process.
Vanish ==
    /\ UNCHANGED <<status, kind>>
    /\ \E gone \in SUBSET Runs :
          stage' = [r \in Runs |-> IF r \in gone THEN "none" ELSE stage[r]]

Abandon ==
    /\ UNCHANGED <<kind, stage>>
    /\ \E dead \in SUBSET {r \in Runs : status[r] = "running"} :
          /\ Prompt => \A r \in dead : stage[r] # "working"
          /\ status' = [r \in Runs |-> IF r \in dead THEN "abandoned" ELSE status[r]]

Forget(r, k) ==
    /\ status[r] \in Ended /\ stage[r] = "none"
    /\ status' = [status EXCEPT ![r] = "free"]
    /\ kind' = [kind EXCEPT ![r] = k]
    /\ UNCHANGED stage

Next ==
    \/ Vanish \/ Abandon
    \/ \E r \in Runs : \/ Enter(r) \/ Return(r) \/ Confirm(r) \/ Stop(r)
                       \/ Report(r) \/ Cancel(r)
                       \/ \E k \in Kinds : Start(r, k) \/ Forget(r, k)

Spec == Init /\ [][Next]_vars
=============================================================================
