-------------------------- MODULE MCAccountDrafts --------------------------
(* Instances of AccountDrafts for TLC. *)
EXTENDS AccountDrafts, TLC

Symmetric == Permutations(Drafts) \cup Permutations(Ops) \cup Permutations(Calls)
============================================================================
