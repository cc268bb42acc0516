---------------------------- MODULE DraftPromise ----------------------------
(***************************************************************************)
(* What saved drafts promise the devices that edit them: a draft is a      *)
(* register whose revision only moves on, each revision has an upstream    *)
(* copy of its own, and a discarded draft never comes back.                *)
(***************************************************************************)
EXTENDS Naturals

CONSTANT Drafts  \* ids of drafts

VARIABLES
  revision,  \* the revision of a draft, 0 before the first
  copy,      \* the message that holds it, 0 for none
  gone       \* drafts that were discarded

vars == <<revision, copy, gone>>

Init ==
  /\ revision = [d \in Drafts |-> 0]
  /\ copy = [d \in Drafts |-> 0]
  /\ gone = {}

\* A new revision replaces the one before, in a later message than that one and
\* in none that another draft has.
Save(d) ==
  /\ d \notin gone
  /\ revision'[d] > revision[d]
  /\ copy'[d] > copy[d]
  /\ \A x \in Drafts \ {d} : copy'[d] # copy[x]
  /\ revision' = [revision EXCEPT ![d] = revision'[d]]
  /\ copy' = [copy EXCEPT ![d] = copy'[d]]
  /\ UNCHANGED gone

\* The draft is gone for good.
Discard(d) ==
  /\ gone' = gone \cup {d}
  /\ copy' = [copy EXCEPT ![d] = 0]
  /\ UNCHANGED revision

Next == \E d \in Drafts : Save(d) \/ Discard(d)

Spec == Init /\ [][Next]_vars
============================================================================
