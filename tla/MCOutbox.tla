------------------------------ MODULE MCOutbox ------------------------------
(* Small instances of Outbox. *)
EXTENDS Outbox

CONSTANTS s1, s2, d1, d2, r1, r2, p1, p2

\* Everything in one process, or the tasks named ...2 in a second one.
OneHome == [w \in Workers |-> p1]
TwoHomes == [w \in Workers |-> IF w \in {d2, r2} THEN p2 ELSE p1]
=============================================================================
