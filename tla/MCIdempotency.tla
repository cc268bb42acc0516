--------------------------- MODULE MCIdempotency ---------------------------
(* A small instance of Idempotency: one key is sent with two bodies, two     *)
(* others fill the ledger.                                                   *)
EXTENDS Idempotency

CONSTANTS k1, k2, k3, b1, b2

TwoBodies == [key : {k1}, body : {b1, b2}] \cup [key : {k2, k3}, body : {b1}]
============================================================================
