---------------------------- MODULE MCChangeLog ----------------------------
(* Instances of ChangeLog for TLC. *)
EXTENDS ChangeLog, TLC

Symmetric == Permutations(Ids) \cup Permutations(Writers)
============================================================================
