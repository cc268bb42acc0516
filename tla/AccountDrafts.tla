--------------------------- MODULE AccountDrafts ---------------------------
(***************************************************************************)
(* Drafts that a user's devices save in the account: the rows of           *)
(* `account_draft` (Store::claim_account_draft and its siblings), the      *)
(* requests that save, clean up and discard them (mw-server's              *)
(* account_drafts), and the messages those leave in the Drafts folder.     *)
(*                                                                         *)
(* The store is SQLite: one transaction at a time.  A row's text is named  *)
(* by the operation that saved it.  Each APPEND that is stored gives a     *)
(* message whose id no other has; one that leaves the folder is out of     *)
(* reach.                                                                  *)
(***************************************************************************)
EXTENDS Naturals, FiniteSets

CONSTANTS
  Drafts,     \* ids of drafts
  Ops,        \* ids of save operations
  None,       \* no draft, no operation
  Calls,      \* requests the router lets in at once
  MaxDrafts,  \* drafts an owner may have
  MaxCalls,   \* bound: requests made
  MaxEdits    \* bound: messages of the folder that the user changes

ASSUME NoneAssumption == None \notin Ops \cup Drafts
ASSUME BoundsAssumption == MaxDrafts \in Nat /\ MaxCalls \in Nat /\ MaxEdits \in Nat

VARIABLES
  row,      \* the row of a draft
  call,     \* a request under way
  mail,     \* messages of operations that are in the Drafts folder
  moved,    \* messages that the cache has elsewhere, or without the draft flag
  asked,    \* what each operation was first sent for
  sent,     \* APPENDs sent for an operation
  dropping, \* drafts and revisions that a client asked to discard
  removed,  \* messages that the user removed, or moved out of the folder
  issued,   \* revisions given out
  posted,   \* messages stored
  calls, edits

history == <<asked, sent, dropping, removed>>
counters == <<issued, posted, calls, edits>>
vars == <<row, call, mail, moved, history, counters>>

NoRow == [state |-> "none", revision |-> 0, email |-> 0, cleanup |-> 0, op |-> None]
Idle == [at |-> "idle", kind |-> "save", draft |-> None, op |-> None,
         revision |-> 0, email |-> 0]

Init ==
  /\ row = [d \in Drafts |-> NoRow]
  /\ call = [c \in Calls |-> Idle]
  /\ mail = {}
  /\ moved = {}
  /\ asked = {}
  /\ sent = [o \in Ops |-> 0]
  /\ dropping = {}
  /\ removed = {}
  /\ issued = 0
  /\ posted = 0
  /\ calls = 0
  /\ edits = 0

----------------------------------------------------------------------------
(* The rows. *)

\* Rows that a client can see: neither absent nor a tombstone.
Live == {d \in Drafts : row[d].state \notin {"none", "gone"}}

\* Mutant: a tombstone is a row like another.
SettledOrGone(d) == row[d].state \in {"saved", "refused", "gone"}
\* No operation is between its claim and its outcome.
Settled(d) == row[d].state \in {"saved", "refused"}

\* Mutant: the revision is not compared.
AnyRevision(d, b) == TRUE
\* The revision a request names is the row's.
Expected(d, b) == row[d].revision = b

\* Mutant: an earlier copy that is still there is forgotten.
CleanOrNot(d) == TRUE
\* No earlier copy is left, and no discard is reserved.
Clean(d) == row[d].cleanup = 0

Room == Cardinality(Live) < MaxDrafts

\* What claim_account_draft accepts: a first save, or one based on the
\* revision there is.  The operation that the row ended with is answered from
\* the row and claims nothing.
Claimable(d, o, b) ==
  \/ row[d].state = "none" /\ b = 0 /\ Room
  \/ Settled(d) /\ row[d].op # o /\ Expected(d, b) /\ Clean(d)

\* The row, if it is still claimed by this operation, is written.
IfClaimed(c, new) ==
  LET d == call[c].draft IN
  row' = IF row[d].op = call[c].op /\ row[d].state = "claimed"
         THEN [row EXCEPT ![d] = new] ELSE row

----------------------------------------------------------------------------
(* A request. *)

Enter(c, new) ==
  /\ call[c] = Idle
  /\ calls < MaxCalls
  /\ calls' = calls + 1
  /\ call' = [call EXCEPT ![c] = new]

Go(c, at) == call' = [call EXCEPT ![c].at = at]
Leave(c) == call' = [call EXCEPT ![c] = Idle]

\* A client sends an operation for one draft and one revision only, however
\* often it repeats the request.
SameRequest(d, o, b) == \A q \in asked : q.op = o => q.draft = d /\ q.revision = b

\* Save: the row is claimed.  Every other answer leaves it alone.
Save(c, d, o, b) ==
  /\ SameRequest(d, o, b)
  /\ Claimable(d, o, b)
  /\ Enter(c, [Idle EXCEPT !.at = "prepare", !.draft = d, !.op = o, !.revision = b])
  /\ row' = [row EXCEPT ![d].state = "claimed", ![d].op = o]
  /\ asked' = asked \cup {[op |-> o, draft |-> d, revision |-> b]}
  /\ UNCHANGED <<mail, moved, sent, dropping, removed, issued, posted, edits>>

\* The message is composed, and the session still is what it was.
Prepare(c) ==
  /\ call[c].at = "prepare"
  /\ Go(c, "append")
  /\ UNCHANGED <<row, mail, moved, history, counters>>

\* Neither: the claim is given back before anything was sent.
Refuse(c) ==
  /\ call[c].at = "prepare"
  /\ IfClaimed(c, [row[call[c].draft] EXCEPT !.state = "refused"])
  /\ Leave(c)
  /\ UNCHANGED <<mail, moved, history, counters>>

\* APPEND, confirmed with the coordinates of the message.
Append(c) ==
  /\ call[c].at = "append"
  /\ posted' = posted + 1
  /\ mail' = mail \cup {[id |-> posted + 1, draft |-> call[c].draft, op |-> call[c].op]}
  /\ sent' = [sent EXCEPT ![call[c].op] = @ + 1]
  /\ call' = [call EXCEPT ![c].at = "complete", ![c].email = posted + 1]
  /\ UNCHANGED <<row, moved, asked, dropping, removed, issued, calls, edits>>

\* APPEND with an error or no answer, whether the message was stored or not,
\* or a failure to take the stored message into the cache.
AppendUnconfirmed(c) ==
  /\ call[c].at = "append"
  /\ \/ UNCHANGED <<mail, posted>>
     \/ /\ posted' = posted + 1
        /\ mail' = mail \cup {[id |-> posted + 1, draft |-> call[c].draft, op |-> call[c].op]}
  /\ sent' = [sent EXCEPT ![call[c].op] = @ + 1]
  /\ Go(c, "mark")
  /\ UNCHANGED <<row, moved, asked, dropping, removed, issued, calls, edits>>

\* Mutant: an error of APPEND is a refusal.
MarkRefused(c) ==
  /\ call[c].at = "mark"
  /\ IfClaimed(c, [row[call[c].draft] EXCEPT !.state = "refused"])
  /\ Leave(c)
  /\ UNCHANGED <<mail, moved, history, counters>>

MarkUncertain(c) ==
  /\ call[c].at = "mark"
  /\ IfClaimed(c, [row[call[c].draft] EXCEPT !.state = "uncertain"])
  /\ Leave(c)
  /\ UNCHANGED <<mail, moved, history, counters>>

\* Mutant: the revision that was given out is not counted.
CompleteUncounted(c) ==
  /\ call[c].at = "complete"
  /\ IfClaimed(c, [row[call[c].draft] EXCEPT
       !.state = "saved", !.revision = issued + 1, !.email = call[c].email,
       !.cleanup = row[call[c].draft].email])
  /\ Leave(c)
  /\ UNCHANGED <<mail, moved, history, counters>>

\* The new revision is confirmed and the copy before it is left to clean up.
Complete(c) ==
  LET old == row[call[c].draft].email IN
  /\ call[c].at = "complete"
  /\ issued' = issued + 1
  /\ IfClaimed(c, [row[call[c].draft] EXCEPT
       !.state = "saved", !.revision = issued + 1, !.email = call[c].email,
       !.cleanup = old])
  /\ IF row' # row /\ old # 0
     THEN call' = [call EXCEPT ![c].at = "check", ![c].email = old]
     ELSE Leave(c)
  /\ UNCHANGED <<mail, moved, history, posted, calls, edits>>

\* A client asks again for the earlier copy to be removed.
Cleanup(c, d) ==
  /\ d \in Live
  /\ row[d].cleanup \notin {0, row[d].email}
  /\ Enter(c, [Idle EXCEPT !.at = "check", !.draft = d, !.email = row[d].cleanup])
  /\ UNCHANGED <<row, mail, moved, history, issued, posted, edits>>

\* Discard, and the clean-up after a send: a draft that has no message goes at
\* once, another is reserved first.
Discard(c, d, b) ==
  /\ Settled(d)
  /\ Expected(d, b)
  /\ row[d].cleanup \in {0, row[d].email}
  /\ dropping' = dropping \cup {[draft |-> d, revision |-> b]}
  /\ IF row[d].email = 0
     THEN /\ row' = [row EXCEPT ![d].state = "gone"]
          /\ calls < MaxCalls
          /\ calls' = calls + 1
          /\ UNCHANGED call
     ELSE /\ row' = [row EXCEPT ![d].cleanup = row[d].email]
          /\ Enter(c, [Idle EXCEPT !.at = "check", !.kind = "discard", !.draft = d,
                         !.revision = row[d].revision, !.email = row[d].email])
  /\ UNCHANGED <<mail, moved, asked, sent, removed, issued, posted, edits>>

\* cleanup_account_draft, by the row in the cache: a message that has none is
\* as good as removed, one that is a draft no more is kept and ends the request.
Check(c) ==
  /\ call[c].at = "check"
  /\ IF call[c].email \in moved THEN Leave(c) ELSE Go(c, "expunge")
  /\ UNCHANGED <<row, mail, moved, history, counters>>

\* UID EXPUNGE in the folder, where the message may be no more.
Expunge(c) ==
  /\ call[c].at = "expunge"
  /\ mail' = {x \in mail : x.id # call[c].email}
  /\ Go(c, "done")
  /\ UNCHANGED <<row, moved, history, counters>>

\* Nothing is left of the earlier copy.
CleanupDone(c) ==
  LET d == call[c].draft IN
  /\ call[c].at = "done"
  /\ call[c].kind = "save"
  /\ row' = IF row[d].cleanup = call[c].email /\ row[d].email \notin {0, call[c].email}
            THEN [row EXCEPT ![d].cleanup = 0] ELSE row
  /\ Leave(c)
  /\ UNCHANGED <<mail, moved, history, counters>>

\* What a discard must still find to leave a tombstone.
Reserved(c) ==
  LET r == row[call[c].draft] IN
  /\ r.revision = call[c].revision
  /\ r.email = call[c].email
  /\ r.cleanup = call[c].email
  /\ r.state \in {"saved", "refused"}

DiscardDone(c) ==
  LET d == call[c].draft IN
  /\ call[c].at = "done"
  /\ call[c].kind = "discard"
  /\ row' = IF Reserved(c)
            THEN [row EXCEPT ![d].state = "gone", ![d].email = 0, ![d].cleanup = 0]
            ELSE row
  /\ Leave(c)
  /\ UNCHANGED <<mail, moved, history, counters>>

\* The request ends between two steps: 45 seconds are over, the client went
\* away, a step failed after the APPEND, the process stopped.
Drop(c) ==
  /\ call[c] # Idle
  /\ Leave(c)
  /\ UNCHANGED <<row, mail, moved, history, counters>>

----------------------------------------------------------------------------
(* The user, in the mail account. *)

Edit == edits < MaxEdits /\ edits' = edits + 1

\* A draft loses its flag, and the cache learns of it.
Unmark(x) ==
  /\ x.id \notin moved
  /\ Edit
  /\ moved' = moved \cup {x.id}
  /\ UNCHANGED <<row, call, mail, history, issued, posted, calls>>

\* A message is removed or put into another folder.  The cache loses its row,
\* or has it there.
Remove(x) ==
  /\ Edit
  /\ mail' = mail \ {x}
  /\ moved' \in {moved \ {x.id}, moved \cup {x.id}}
  /\ removed' = removed \cup {x.id}
  /\ UNCHANGED <<row, call, asked, sent, dropping, issued, posted, calls>>

----------------------------------------------------------------------------
Step(c) ==
  \/ Prepare(c) \/ Refuse(c) \/ Append(c) \/ AppendUnconfirmed(c)
  \/ MarkUncertain(c) \/ Complete(c) \/ Check(c) \/ Expunge(c)
  \/ CleanupDone(c) \/ DiscardDone(c)

Request(c, d) ==
  \/ Cleanup(c, d)
  \/ \E b \in 0..issued : Discard(c, d, b) \/ \E o \in Ops : Save(c, d, o, b)

Next ==
  \/ \E c \in Calls : Step(c) \/ Drop(c) \/ \E d \in Drafts : Request(c, d)
  \/ \E x \in mail : Unmark(x) \/ Remove(x)

Spec == Init /\ [][Next]_vars

----------------------------------------------------------------------------
(* Properties. *)

States == {"none", "claimed", "saved", "refused", "uncertain", "gone"}
RowType == [state : States, revision : 0..issued, email : 0..posted,
            cleanup : 0..posted, op : Ops \cup {None}]
CallType == [at : {"idle", "prepare", "append", "mark", "complete", "check", "expunge",
                   "done"},
             kind : {"save", "discard"}, draft : Drafts \cup {None},
             op : Ops \cup {None}, revision : 0..issued, email : 0..posted]

\* Every variable has its type; revisions and messages were given out before.
TypeOK ==
  /\ issued \in Nat /\ posted \in Nat /\ calls \in Nat /\ edits \in Nat
  /\ row \in [Drafts -> RowType]
  /\ call \in [Calls -> CallType]
  /\ mail \subseteq [id : 1..posted, draft : Drafts, op : Ops]
  /\ moved \subseteq 1..posted
  /\ asked \subseteq [op : Ops, draft : Drafts, revision : 0..issued]
  /\ sent \in [Ops -> Nat]
  /\ dropping \subseteq [draft : Drafts, revision : 0..issued]
  /\ removed \subseteq 1..posted

\* An operation is appended once at most, however often its request is
\* repeated, in whatever order the requests of all devices arrive and
\* wherever one of them stops.
AppendedOnce == \A o \in Ops : sent[o] <= 1

\* Nothing that an operation left in the Drafts folder is forgotten: its draft
\* has it as its copy, as a copy to clean up, or is blocked by that operation.
NothingForgotten ==
  \A x \in mail :
    LET r == row[x.draft] IN
      x.id \in {r.email, r.cleanup} \/ (r.op = x.op /\ r.state \in {"claimed", "uncertain"})

\* The copy of the revision a draft has is in the folder, unless the user
\* took it out or a client asked to discard that very revision: it is not
\* removed as the copy of an older one.
CopyIsKept ==
  \A d \in Drafts :
    \/ row[d].email = 0
    \/ row[d].email \in removed
    \/ [draft |-> d, revision |-> row[d].revision] \in dropping
    \/ \E x \in mail : x.id = row[d].email

\* A new revision replaces the one its operation was based on: a device that
\* has not seen the last save does not overwrite it.
NothingOverwritten ==
  [][\A d \in Drafts : row'[d].revision # row[d].revision =>
       \E q \in asked : /\ q.op = row'[d].op /\ q.draft = d
                        /\ q.revision = row[d].revision]_vars

Promise == INSTANCE DraftPromise WITH
  revision <- [d \in Drafts |-> row[d].revision],
  copy <- [d \in Drafts |-> row[d].email],
  gone <- {d \in Drafts : row[d].state = "gone"}

\* A draft's revision only moves on, each in a message of its own, and a
\* discarded draft does not come back when a delayed request arrives.
KeepsPromise == Promise!Spec
============================================================================
