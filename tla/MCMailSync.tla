---------------------------- MODULE MCMailSync -----------------------------
(* A small instance of MailSync. *)
EXTENDS MailSync

CONSTANTS m1, m2

\* The message that is there from the start has no Message-ID.
Identities == [m \in Msgs |-> IF m = m1 THEN NoIdentity ELSE "message-id"]

\* One of everything, or two changes and a reset or a failure.
Together ==
  {[ops |-> 1, resets |-> 1, sets |-> 1, faults |-> 1],
   [ops |-> 2, resets |-> 1, sets |-> 0, faults |-> 0],
   [ops |-> 2, resets |-> 0, sets |-> 0, faults |-> 1]}
============================================================================
