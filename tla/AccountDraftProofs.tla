------------------------ MODULE AccountDraftProofs ------------------------
(***************************************************************************)
(* Proofs about AccountDrafts, for any number of drafts, operations and    *)
(* requests: what an operation leaves in the account is stored once and    *)
(* stays known, the copy of a revision stays, a device only replaces the   *)
(* revision it names, and the drafts implement DraftPromise.               *)
(***************************************************************************)
EXTENDS AccountDrafts, TLAPS

\* A request holds a claim, or is to remove a message.
Saving(c) == call[c].at \in {"prepare", "append", "mark", "complete"}
Removing(c) == call[c].at \in {"check", "expunge", "done"}

\* The draft belongs to one operation, whose outcome is open.
Blocked(d) == row[d].state \in {"claimed", "uncertain"}

\* Rows: no copy is left to clean up in a row that is claimed, and its
\* operation was asked for on top of the revision that the row has.
RowInv ==
  \A d \in Drafts :
    /\ Blocked(d) => /\ row[d].cleanup = 0
                     /\ [op |-> row[d].op, draft |-> d, revision |-> row[d].revision] \in asked
    /\ row[d].state = "none" => row[d].revision = 0 /\ row[d].email = 0 /\ row[d].cleanup = 0
    /\ row[d].state = "gone" => row[d].email = 0

\* An operation was asked for one draft and one revision.
AskedInv == \A p \in asked, q \in asked : p.op = q.op => p = q

\* A request that saves has the claim of its draft, alone.
ClaimInv ==
  \A c \in Calls : Saving(c) =>
    /\ call[c].kind = "save" /\ call[c].draft \in Drafts /\ call[c].op \in Ops
    /\ row[call[c].draft].op = call[c].op
    /\ row[call[c].draft].state = "claimed"
    /\ \A f \in Calls \ {c} : Saving(f) => call[f].draft # call[c].draft
    /\ call[c].at \in {"prepare", "append"} => sent[call[c].op] = 0

\* An operation that was sent has had its turn: its draft is gone, has a later
\* revision than the one it was asked for, or is blocked by it.
Spent(q) ==
  LET r == row[q.draft] IN
  r.state = "gone" \/ r.revision > q.revision \/ (Blocked(q.draft) /\ r.op = q.op)
OnceInv ==
  \A o \in Ops : sent[o] \in {0, 1} /\ (sent[o] = 1 => \E q \in asked : q.op = o /\ Spent(q))

\* One message of an operation, and none that is forgotten.
MailInv ==
  /\ \A x \in mail : sent[x.op] = 1
  /\ \A x \in mail, y \in mail : x.op = y.op \/ x.id = y.id => x = y
  /\ NothingForgotten

\* A message that was confirmed and is not yet the copy of its draft is known
\* to its own request only.
FreshInv ==
  \A c \in Calls : call[c].at = "complete" =>
    LET e == call[c].email IN
    /\ e # 0
    /\ \A d \in Drafts : e # row[d].email /\ e # row[d].cleanup
    /\ \A f \in Calls : Removing(f) => call[f].email # e
    /\ \A f \in Calls \ {c} : call[f].at = "complete" => call[f].email # e
    /\ \A x \in mail : x.op = call[c].op <=> x.id = e
    /\ e \in removed \/ \E x \in mail : x.id = e

\* No draft has a message of another.
OwnCopies ==
  \A d \in Drafts, k \in Drafts :
    d # k /\ row[d].email # 0 => row[d].email \notin {row[k].email, row[k].cleanup}

\* What a request is to remove is the copy of an older revision, or of the
\* revision that a client discards.
RemovalInv ==
  \A c \in Calls : Removing(c) =>
    /\ call[c].draft \in Drafts /\ call[c].email # 0
    /\ call[c].kind = "save" => \A d \in Drafts : row[d].email # call[c].email
    /\ call[c].kind = "discard" =>
         /\ [draft |-> call[c].draft, revision |-> call[c].revision] \in dropping
         /\ \A d \in Drafts : row[d].email = call[c].email =>
              d = call[c].draft /\ row[d].revision = call[c].revision
    /\ call[c].at = "done" => \A x \in mail : x.id # call[c].email

\* Inductive.
DraftInv ==
  /\ TypeOK /\ RowInv /\ AskedInv /\ ClaimInv /\ OnceInv
  /\ MailInv /\ FreshInv /\ OwnCopies /\ RemovalInv /\ CopyIsKept

-----------------------------------------------------------------------------
(* Types. *)

LEMMA TypeInit == Init => TypeOK
  BY DEF Init, TypeOK, NoRow, Idle, States, RowType, CallType

\* Revisions and messages that were given out stay so.
LEMMA TypesGrow ==
    ASSUME TypeOK, issued' \in Nat, posted' \in Nat, issued <= issued', posted <= posted'
    PROVE  /\ RowType \subseteq RowType' /\ CallType \subseteq CallType'
           /\ 0..issued \subseteq 0..issued' /\ 0..posted \subseteq 0..posted'
           /\ 1..posted \subseteq 1..posted'
           /\ mail \subseteq [id : 1..posted', draft : Drafts, op : Ops]
           /\ asked \subseteq [op : Ops, draft : Drafts, revision : 0..issued']
           /\ dropping \subseteq [draft : Drafts, revision : 0..issued']
           /\ row \in [Drafts -> RowType'] /\ call \in [Calls -> CallType']
  <1>1. 0..issued \subseteq 0..issued' /\ 0..posted \subseteq 0..posted' /\ 1..posted \subseteq 1..posted'
    BY DEF TypeOK
  <1>2. RowType \subseteq RowType' /\ CallType \subseteq CallType'
    BY <1>1 DEF RowType, CallType
  <1> QED
    BY <1>1, <1>2 DEF TypeOK

\* A step that gives out no revision and stores no message.
LEMMA TypeSame ==
    ASSUME TypeOK, UNCHANGED <<issued, posted>>,
           row' \in [Drafts -> RowType], call' \in [Calls -> CallType],
           mail' \subseteq mail, moved' \subseteq 1..posted, sent' = sent,
           asked' \subseteq [op : Ops, draft : Drafts, revision : 0..issued],
           dropping' \subseteq [draft : Drafts, revision : 0..issued],
           removed' \subseteq 1..posted, calls' \in Nat, edits' \in Nat
    PROVE  TypeOK'
  BY DEF TypeOK, RowType, CallType

\* A request begins, ends, or goes on with the same fields.
LEMMA TypeCall ==
    ASSUME TypeOK, NEW c \in Calls
    PROVE  /\ Idle \in CallType
           /\ Leave(c) => call' \in [Calls -> CallType]
           /\ \A at \in {"prepare", "append", "mark", "complete", "check", "expunge", "done"} :
                Go(c, at) => call' \in [Calls -> CallType]
           /\ \A new \in CallType : call' = [call EXCEPT ![c] = new] => call' \in [Calls -> CallType]
  <1>1. Idle \in CallType
    BY DEF TypeOK, CallType, Idle
  <1>2. call \in [Calls -> CallType]
    BY DEF TypeOK
  <1>3. Leave(c) => call' \in [Calls -> CallType]
    BY <1>1, <1>2 DEF Leave
  <1>4. ASSUME NEW at \in {"prepare", "append", "mark", "complete", "check", "expunge", "done"},
               Go(c, at)
        PROVE  call' \in [Calls -> CallType]
    <2>1. [call[c] EXCEPT !.at = at] \in CallType
      BY <1>2 DEF CallType
    <2>2. call' = [call EXCEPT ![c] = [call[c] EXCEPT !.at = at]]
      BY <1>4 DEF Go
    <2> QED
      BY <1>2, <2>1, <2>2
  <1> QED
    BY <1>1, <1>2, <1>3, <1>4

\* A row that a statement writes.
LEMMA TypeRow ==
    ASSUME TypeOK, NEW d \in Drafts
    PROVE  /\ row[d] \in RowType
           /\ \A s \in States : [row[d] EXCEPT !.state = s] \in RowType
           /\ \A s \in States, o \in Ops : [row[d] EXCEPT !.state = s, !.op = o] \in RowType
           /\ \A k \in 0..posted : [row[d] EXCEPT !.cleanup = k] \in RowType
           /\ [row[d] EXCEPT !.state = "gone", !.email = 0, !.cleanup = 0] \in RowType
  <1>1. row[d] \in RowType
    BY DEF TypeOK
  <1>2. 0 \in 0..posted /\ "gone" \in States
    BY DEF TypeOK, States
  <1> QED
    BY <1>1, <1>2 DEF RowType

LEMMA TypeRows ==
    ASSUME TypeOK, NEW d \in Drafts, NEW new \in RowType, row' = row \/ row' = [row EXCEPT ![d] = new]
    PROVE  row' \in [Drafts -> RowType]
  BY DEF TypeOK

LEMMA TypeStep == ASSUME TypeOK, ClaimInv, RemovalInv, [Next]_vars PROVE TypeOK'
  <1> USE DEF history, counters
  <1>1. ASSUME NEW c \in Calls, NEW d \in Drafts, NEW o \in Ops, NEW b \in 0..issued, Save(c, d, o, b)
        PROVE  TypeOK'
    <2>1. row' \in [Drafts -> RowType]
      <3>1. row' = [row EXCEPT ![d] = [row[d] EXCEPT !.state = "claimed", !.op = o]]
        BY <1>1 DEF Save, TypeOK
      <3> QED
        BY <3>1, TypeRow, TypeRows DEF States
    <2>2. call' \in [Calls -> CallType]
      <3>1. [Idle EXCEPT !.at = "prepare", !.draft = d, !.op = o, !.revision = b] \in CallType
        BY TypeCall DEF CallType, Idle
      <3> QED
        BY <1>1, <3>1, TypeCall DEF Save, Enter
    <2> QED
      BY <1>1, <2>1, <2>2, TypeSame DEF TypeOK, Save, Enter
  <1>2. ASSUME NEW c \in Calls, NEW d \in Drafts, Cleanup(c, d)
        PROVE  TypeOK'
    <2>1. call' \in [Calls -> CallType]
      <3>1. [Idle EXCEPT !.at = "check", !.draft = d, !.email = row[d].cleanup] \in CallType
        BY TypeCall, TypeRow DEF CallType, RowType, Idle
      <3> QED
        BY <1>2, <3>1, TypeCall DEF Cleanup, Enter
    <2> QED
      BY <1>2, <2>1, TypeSame DEF TypeOK, Cleanup, Enter
  <1>3. ASSUME NEW c \in Calls, NEW d \in Drafts, NEW b \in 0..issued, Discard(c, d, b)
        PROVE  TypeOK'
    <2>1. row' \in [Drafts -> RowType]
      <3>1. \/ row' = [row EXCEPT ![d] = [row[d] EXCEPT !.state = "gone"]]
            \/ row' = [row EXCEPT ![d] = [row[d] EXCEPT !.cleanup = row[d].email]]
        BY <1>3 DEF Discard, TypeOK
      <3>2. row[d].email \in 0..posted /\ "gone" \in States
        <4>1. row[d] \in RowType
          BY TypeRow
        <4> QED
          BY <4>1 DEF RowType, States
      <3>3. [row[d] EXCEPT !.state = "gone"] \in RowType /\ [row[d] EXCEPT !.cleanup = row[d].email] \in RowType
        BY <3>2, TypeRow
      <3> QED
        BY <3>1, <3>3, TypeRows
    <2>2. call' \in [Calls -> CallType]
      <3>1. [Idle EXCEPT !.at = "check", !.kind = "discard", !.draft = d,
                !.revision = row[d].revision, !.email = row[d].email] \in CallType
        BY TypeCall, TypeRow DEF CallType, RowType, Idle
      <3> QED
        BY <1>3, <3>1, TypeCall DEF Discard, Enter, TypeOK
    <2>3. calls' \in Nat
      BY <1>3 DEF Discard, Enter, TypeOK
    <2> QED
      BY <1>3, <2>1, <2>2, <2>3, TypeSame DEF TypeOK, Discard
  <1>4. ASSUME NEW c \in Calls, Prepare(c) \/ Drop(c)
        PROVE  TypeOK'
    BY <1>4, TypeCall, TypeSame DEF TypeOK, Prepare, Drop
  <1>5. ASSUME NEW c \in Calls, Refuse(c) \/ MarkUncertain(c)
        PROVE  TypeOK'
    <2>1. call[c].draft \in Drafts
      BY <1>5 DEF ClaimInv, Saving, Refuse, MarkUncertain
    <2>2. \E s \in States : IfClaimed(c, [row[call[c].draft] EXCEPT !.state = s])
      BY <1>5 DEF Refuse, MarkUncertain, States
    <2>3. row' \in [Drafts -> RowType]
      BY <2>1, <2>2, TypeRow, TypeRows DEF IfClaimed
    <2> QED
      BY <1>5, <2>3, TypeCall, TypeSame DEF TypeOK, Refuse, MarkUncertain
  <1>6. ASSUME NEW c \in Calls, Append(c) \/ AppendUnconfirmed(c)
        PROVE  TypeOK'
    <2>1. posted' \in {posted, posted + 1} /\ posted \in Nat /\ posted' \in Nat
      BY <1>6 DEF TypeOK, Append, AppendUnconfirmed
    <2>2. call[c].draft \in Drafts /\ call[c].op \in Ops
      BY <1>6 DEF ClaimInv, Saving, Append, AppendUnconfirmed
    <2>3. UNCHANGED <<row, moved, asked, dropping, removed, issued, calls, edits>>
      BY <1>6 DEF Append, AppendUnconfirmed
    <2>4. mail' \subseteq [id : 1..posted', draft : Drafts, op : Ops]
      BY <1>6, <2>1, <2>2, <2>3, TypesGrow DEF TypeOK, Append, AppendUnconfirmed
    <2>5. call' \in [Calls -> CallType']
      BY <1>6, <2>1, <2>3, TypesGrow DEF TypeOK, CallType, Append, AppendUnconfirmed, Go
    <2>6. sent' \in [Ops -> Nat]
      BY <1>6, <2>2 DEF TypeOK, Append, AppendUnconfirmed
    <2> QED
      BY <2>1, <2>3, <2>4, <2>5, <2>6, TypesGrow DEF TypeOK
  <1>7. ASSUME NEW c \in Calls, Complete(c)
        PROVE  TypeOK'
    <2>1. issued' = issued + 1 /\ issued \in Nat /\ issued' \in Nat
      BY <1>7 DEF TypeOK, Complete
    <2>2. call[c].draft \in Drafts /\ UNCHANGED <<mail, moved, history, posted, calls, edits>>
      BY <1>7 DEF ClaimInv, Saving, Complete
    <2>3. row[call[c].draft] \in RowType /\ call[c].email \in 0..posted
      BY <2>2, TypeRow DEF TypeOK, CallType
    <2>4. row \in [Drafts -> RowType'] /\ call \in [Calls -> CallType']
      BY <2>1, <2>2, TypesGrow DEF TypeOK
    <2>5. row' \in [Drafts -> RowType']
      <3> DEFINE new == [row[call[c].draft] EXCEPT
                           !.state = "saved", !.revision = issued + 1, !.email = call[c].email,
                           !.cleanup = row[call[c].draft].email]
      <3>1. new \in RowType'
        <4>1. row[call[c].draft] \in RowType' /\ row[call[c].draft].email \in 0..posted
          BY <2>2, <2>3, <2>4 DEF RowType
        <4>2. issued + 1 \in 0..issued' /\ posted' = posted /\ "saved" \in States
          BY <2>1, <2>2 DEF States
        <4> QED
          BY <2>3, <4>1, <4>2 DEF RowType
      <3>2. row' = row \/ row' = [row EXCEPT ![call[c].draft] = new]
        BY <1>7 DEF Complete, IfClaimed
      <3> HIDE DEF new
      <3> QED
        BY <2>4, <3>1, <3>2
    <2>6. call' \in [Calls -> CallType']
      <3> DEFINE next == [call[c] EXCEPT !.at = "check", !.email = row[call[c].draft].email]
      <3>1. Idle \in CallType' /\ next \in CallType'
        <4>1. call[c] \in CallType' /\ row[call[c].draft].email \in 0..posted
          BY <2>3, <2>4 DEF RowType
        <4>2. posted' = posted /\ 0 \in 0..posted /\ 0 \in 0..issued'
          BY <2>1, <2>2 DEF TypeOK
        <4> QED
          BY <4>1, <4>2 DEF CallType, Idle
      <3>2. call' = [call EXCEPT ![c] = Idle] \/ call' = [call EXCEPT ![c] = next]
        BY <1>7 DEF Complete, Leave, TypeOK
      <3> HIDE DEF next
      <3> QED
        BY <2>4, <3>1, <3>2
    <2> QED
      BY <2>1, <2>2, <2>5, <2>6, TypesGrow DEF TypeOK
  <1>8. ASSUME NEW c \in Calls, Check(c) \/ Expunge(c)
        PROVE  TypeOK'
    <2>1. call' \in [Calls -> CallType] /\ mail' \subseteq mail
      BY <1>8, TypeCall DEF Check, Expunge
    <2> QED
      BY <1>8, <2>1, TypeSame DEF TypeOK, Check, Expunge
  <1>9. ASSUME NEW c \in Calls, CleanupDone(c) \/ DiscardDone(c)
        PROVE  TypeOK'
    <2>1. call[c].draft \in Drafts
      BY <1>9 DEF RemovalInv, Removing, CleanupDone, DiscardDone
    <2>2. \/ row' = row
          \/ row' = [row EXCEPT ![call[c].draft] = [row[call[c].draft] EXCEPT !.cleanup = 0]]
          \/ row' = [row EXCEPT ![call[c].draft] =
                       [row[call[c].draft] EXCEPT !.state = "gone", !.email = 0, !.cleanup = 0]]
      BY <1>9, <2>1 DEF CleanupDone, DiscardDone, TypeOK
    <2>3. 0 \in 0..posted
      BY DEF TypeOK
    <2>4. row' \in [Drafts -> RowType]
      BY <2>1, <2>2, <2>3, TypeRow, TypeRows DEF TypeOK
    <2> QED
      BY <1>9, <2>4, TypeCall, TypeSame DEF TypeOK, CleanupDone, DiscardDone
  <1>10. ASSUME NEW x \in mail, Unmark(x) \/ Remove(x)
        PROVE  TypeOK'
    <2>1. x.id \in 1..posted
      BY DEF TypeOK
    <2> QED
      <3>1. /\ mail' \subseteq mail /\ moved' \subseteq 1..posted /\ removed' \subseteq 1..posted
            /\ edits' \in Nat
        <4>1. edits \in Nat /\ edits' = edits + 1 /\ moved \subseteq 1..posted /\ removed \subseteq 1..posted
          BY <1>10 DEF TypeOK, Unmark, Remove, Edit
        <4>2. mail' \subseteq mail
          BY <1>10 DEF Unmark, Remove
        <4>3. moved' \subseteq 1..posted
          BY <1>10, <2>1, <4>1 DEF Unmark, Remove
        <4>4. removed' \subseteq 1..posted
          BY <1>10, <2>1, <4>1 DEF Unmark, Remove
        <4> QED
          BY <4>1, <4>2, <4>3, <4>4
      <3>2. UNCHANGED <<row, call, asked, sent, dropping, issued, posted, calls>>
        BY <1>10 DEF Unmark, Remove
      <3> QED
        BY <3>1, <3>2, TypeSame DEF TypeOK
  <1>11. CASE UNCHANGED vars
    BY <1>11, TypeSame DEF TypeOK, vars
  <1> QED
    BY <1>1, <1>2, <1>3, <1>4, <1>5, <1>6, <1>7, <1>8, <1>9, <1>10, <1>11 DEF Next, Step, Request

-----------------------------------------------------------------------------
(* One lemma for each kind of step. *)

Rest == /\ RowInv /\ AskedInv /\ ClaimInv /\ OnceInv /\ MailInv
        /\ FreshInv /\ OwnCopies /\ RemovalInv /\ CopyIsKept

\* What stays true of a request while its rows keep what it relies on.
LEMMA ClaimStays ==
    ASSUME ClaimInv, TypeOK, sent' = sent,
           \A f \in Calls : Saving(f)' =>
             /\ Saving(f) /\ call'[f].draft = call[f].draft
             /\ call'[f].op = call[f].op /\ call'[f].kind = call[f].kind
             /\ call'[f].at \in {"prepare", "append"} => call[f].at \in {"prepare", "append"}
             /\ row'[call[f].draft].op = row[call[f].draft].op
             /\ row'[call[f].draft].state = row[call[f].draft].state
    PROVE  ClaimInv'
  BY DEF ClaimInv

LEMMA FreshStays ==
    ASSUME FreshInv, removed \subseteq removed', mail' \subseteq mail,
           \A x \in mail \ mail' : x.id \in removed' \/ \E f \in Calls : Removing(f) /\ x.id = call[f].email,
           \A d \in Drafts : /\ row'[d].email \in {0, row[d].email}
                             /\ row'[d].cleanup \in {0, row[d].email, row[d].cleanup},
           \A f \in Calls : Removing(f)' => \/ Removing(f) /\ call'[f].email = call[f].email
                                            \/ \E d \in Drafts : call'[f].email \in {row[d].email, row[d].cleanup},
           \A f \in Calls : call'[f].at = "complete" => call'[f] = call[f]
    PROVE  FreshInv'
  <1> SUFFICES ASSUME NEW c \in Calls, call'[c].at = "complete"
               PROVE  /\ call[c].email # 0
                      /\ \A d \in Drafts : call[c].email # row'[d].email /\ call[c].email # row'[d].cleanup
                      /\ \A f \in Calls : Removing(f)' => call'[f].email # call[c].email
                      /\ \A f \in Calls \ {c} : call'[f].at = "complete" => call'[f].email # call[c].email
                      /\ \A x \in mail' : x.op = call[c].op <=> x.id = call[c].email
                      /\ call[c].email \in removed' \/ \E x \in mail' : x.id = call[c].email
    BY DEF FreshInv
  <1>1. /\ call[c].at = "complete" /\ call[c].email # 0
        /\ \A d \in Drafts : call[c].email # row[d].email /\ call[c].email # row[d].cleanup
        /\ \A f \in Calls : Removing(f) => call[f].email # call[c].email
        /\ \A f \in Calls \ {c} : call[f].at = "complete" => call[f].email # call[c].email
        /\ \A x \in mail : x.op = call[c].op <=> x.id = call[c].email
        /\ call[c].email \in removed \/ \E x \in mail : x.id = call[c].email
    BY DEF FreshInv
  <1>2. \A d \in Drafts : call[c].email # row'[d].email /\ call[c].email # row'[d].cleanup
    BY <1>1
  <1>3. \A f \in Calls : Removing(f)' => call'[f].email # call[c].email
    BY <1>1
  <1>4. call[c].email \in removed' \/ \E x \in mail' : x.id = call[c].email
    BY <1>1
  <1> QED
    BY <1>1, <1>2, <1>3, <1>4

LEMMA RemovalStays ==
    ASSUME RemovalInv, dropping \subseteq dropping', mail' \subseteq mail,
           \A d \in Drafts : row'[d].email \in {0, row[d].email} /\ row'[d].revision = row[d].revision,
           \A f \in Calls : Removing(f)' =>
             /\ Removing(f) /\ call'[f].draft = call[f].draft /\ call'[f].email = call[f].email
             /\ call'[f].kind = call[f].kind /\ call'[f].revision = call[f].revision
             /\ call'[f].at = "done" => call[f].at = "done" \/ \A x \in mail' : x.id # call[f].email
    PROVE  RemovalInv'
  <1> SUFFICES ASSUME NEW c \in Calls, Removing(c)'
               PROVE  /\ call[c].draft \in Drafts /\ call[c].email # 0
                      /\ call[c].kind = "save" => \A d \in Drafts : row'[d].email # call[c].email
                      /\ call[c].kind = "discard" =>
                           /\ [draft |-> call[c].draft, revision |-> call[c].revision] \in dropping
                           /\ \A d \in Drafts : row'[d].email = call[c].email =>
                                d = call[c].draft /\ row'[d].revision = call[c].revision
                      /\ call'[c].at = "done" => \A x \in mail' : x.id # call[c].email
    BY DEF RemovalInv
  <1>1. Removing(c)
    OBVIOUS
  <1> QED
    BY <1>1 DEF RemovalInv

\* A request ends, or goes on from "prepare" or "check"; nothing else happens.
LEMMA QuietKeeps ==
    ASSUME DraftInv, UNCHANGED <<row, mail, asked, sent, dropping, removed>>,
           \A f \in Calls :
             \/ call'[f] = call[f] \/ call'[f] = Idle
             \/ call[f].at = "prepare" /\ call'[f] = [call[f] EXCEPT !.at = "append"]
             \/ call[f].at = "check" /\ call'[f] = [call[f] EXCEPT !.at = "expunge"]
    PROVE  Rest'
  <1>2. RowInv' /\ AskedInv' /\ OnceInv' /\ MailInv' /\ OwnCopies' /\ CopyIsKept'
    BY DEF DraftInv, RowInv, Blocked, AskedInv, OnceInv, Spent, MailInv, NothingForgotten,
           OwnCopies, CopyIsKept
  <1>3. \A f \in Calls : Saving(f)' => /\ Saving(f) /\ call'[f].draft = call[f].draft
                                       /\ call'[f].op = call[f].op /\ call'[f].kind = call[f].kind
                                       /\ call'[f].at \in {"prepare", "append"} => call[f].at \in {"prepare", "append"}
    <2> SUFFICES ASSUME NEW f \in Calls, Saving(f)'
                 PROVE  /\ Saving(f) /\ call'[f].draft = call[f].draft
                        /\ call'[f].op = call[f].op /\ call'[f].kind = call[f].kind
                        /\ call'[f].at \in {"prepare", "append"} => call[f].at \in {"prepare", "append"}
      OBVIOUS
    <2>1. call[f] \in CallType
      BY DEF DraftInv, TypeOK
    <2>2. CASE call[f].at = "prepare" /\ call'[f] = [call[f] EXCEPT !.at = "append"]
      BY <2>1, <2>2 DEF Saving, CallType
    <2>3. CASE call'[f] = call[f]
      BY <2>3 DEF Saving
    <2>4. CASE call'[f] = Idle
      BY <2>4 DEF Saving, Idle
    <2>5. CASE call[f].at = "check" /\ call'[f] = [call[f] EXCEPT !.at = "expunge"]
      BY <2>1, <2>5 DEF Saving, CallType
    <2> QED
      BY <2>2, <2>3, <2>4, <2>5
  <1>4. \A f \in Calls : Removing(f)' =>
          /\ Removing(f) /\ call'[f].draft = call[f].draft /\ call'[f].email = call[f].email
          /\ call'[f].kind = call[f].kind /\ call'[f].revision = call[f].revision
          /\ call'[f].at = "done" => call[f].at = "done"
    <2> SUFFICES ASSUME NEW f \in Calls, Removing(f)'
                 PROVE  /\ Removing(f) /\ call'[f].draft = call[f].draft
                        /\ call'[f].email = call[f].email /\ call'[f].kind = call[f].kind
                        /\ call'[f].revision = call[f].revision
                        /\ call'[f].at = "done" => call[f].at = "done"
      OBVIOUS
    <2>1. call[f] \in CallType
      BY DEF DraftInv, TypeOK
    <2>2. ~(call[f].at = "prepare" /\ call'[f] = [call[f] EXCEPT !.at = "append"])
      BY <2>1 DEF Removing, CallType
    <2>3. call'[f] # Idle
      BY DEF Removing, Idle
    <2>4. CASE call'[f] = call[f]
      BY <2>4 DEF Removing
    <2>5. CASE call[f].at = "check" /\ call'[f] = [call[f] EXCEPT !.at = "expunge"]
      BY <2>1, <2>5 DEF Removing, CallType
    <2> QED
      BY <2>2, <2>3, <2>4, <2>5
  <1>5. \A f \in Calls : call'[f].at = "complete" => call'[f] = call[f]
    <2> SUFFICES ASSUME NEW f \in Calls, call'[f].at = "complete"
                 PROVE  call'[f] = call[f]
      OBVIOUS
    <2>1. call[f] \in CallType
      BY DEF DraftInv, TypeOK
    <2>2. ~(call[f].at = "prepare" /\ call'[f] = [call[f] EXCEPT !.at = "append"])
      BY <2>1 DEF CallType
    <2>3. ~(call[f].at = "check" /\ call'[f] = [call[f] EXCEPT !.at = "expunge"])
      BY <2>1 DEF CallType
    <2>4. call'[f] # Idle
      BY DEF Idle
    <2> QED
      BY <2>2, <2>3, <2>4
  <1>6. ClaimInv'
    BY <1>3, ClaimStays DEF DraftInv
  <1>7. FreshInv'
    BY <1>4, <1>5, FreshStays DEF DraftInv
  <1>8. RemovalInv'
    BY <1>4, RemovalStays DEF DraftInv
  <1> QED
    BY <1>2, <1>6, <1>7, <1>8 DEF Rest

\* A claim: no operation that was sent may claim again, and its draft has no
\* copy left to clean up.
LEMMA SaveKeeps ==
    ASSUME DraftInv, NEW c \in Calls, NEW d \in Drafts, NEW o \in Ops, NEW b \in 0..issued,
           Save(c, d, o, b)
    PROVE  Rest'
  <1> DEFINE q == [op |-> o, draft |-> d, revision |-> b]
  <1>1. /\ UNCHANGED <<mail, moved, sent, dropping, removed, issued, posted>>
        /\ asked' = asked \cup {q}
        /\ \A k \in Drafts \ {d} : row'[k] = row[k]
        /\ row'[d] = [row[d] EXCEPT !.state = "claimed", !.op = o]
        /\ \A f \in Calls \ {c} : call'[f] = call[f]
        /\ call[c] = Idle
        /\ call'[c] = [Idle EXCEPT !.at = "prepare", !.draft = d, !.op = o, !.revision = b]
    BY DEF Save, Enter, DraftInv, TypeOK
  <1>2. /\ row[d].state \in {"none", "saved", "refused"}
        /\ row[d].revision = b /\ row[d].cleanup = 0
    <2>1. CASE row[d].state = "none" /\ b = 0
      BY <2>1 DEF DraftInv, RowInv
    <2>2. CASE Settled(d) /\ Expected(d, b) /\ Clean(d)
      BY <2>2 DEF Settled, Expected, Clean
    <2> QED
      BY <2>1, <2>2 DEF Save, Claimable
  <1>3. /\ \A k \in Drafts : /\ row'[k].revision = row[k].revision /\ row'[k].email = row[k].email
                             /\ row'[k].cleanup = row[k].cleanup
        /\ row'[d].state = "claimed" /\ row'[d].op = o
    <2>1. row[d] \in RowType
      BY DEF DraftInv, TypeOK
    <2>2. /\ row'[d].revision = row[d].revision /\ row'[d].email = row[d].email
          /\ row'[d].cleanup = row[d].cleanup
          /\ row'[d].state = "claimed" /\ row'[d].op = o
      <3> HIDE DEF q
      <3> QED
        BY <1>1, <2>1, SMT DEF RowType
    <2>3. \A k \in Drafts \ {d} : row'[k] = row[k]
      BY <1>1
    <2> QED
      BY <2>2, <2>3
  <1>4. AskedInv' /\ \A p \in asked : p.op = o => p = q
    BY <1>1 DEF DraftInv, TypeOK, AskedInv, Save, SameRequest
  <1> HIDE DEF q
  <1>5. /\ call'[c].at = "prepare" /\ call'[c].draft = d /\ call'[c].op = o
        /\ call'[c].kind = "save" /\ Saving(c)' /\ ~Removing(c)'
    BY <1>1 DEF Idle, Saving, Removing
  <1>6. RowInv'
    <2>1. RowInv!(d)'
      BY <1>1, <1>2, <1>3 DEF Blocked, q
    <2>2. \A k \in Drafts \ {d} : RowInv!(k)'
      BY <1>1 DEF DraftInv, RowInv, Blocked
    <2> QED
      BY <2>1, <2>2 DEF RowInv
  <1>7. sent[o] = 0
    <2> SUFFICES ASSUME sent[o] = 1 PROVE FALSE
      BY DEF DraftInv, OnceInv
    <2>1. Spent(q) /\ b \in Nat
      BY <1>4 DEF DraftInv, OnceInv
    <2> QED
      BY <1>2, <2>1 DEF Spent, Blocked, q
  <1>8. OnceInv'
    <2>1. \A p \in asked : Spent(p) => Spent(p)'
      BY <1>1, <1>2, <1>3 DEF DraftInv, TypeOK, Spent, Blocked
    <2> QED
      BY <1>1, <2>1 DEF DraftInv, OnceInv
  <1>9. ClaimInv'
    <2>1. \A f \in Calls : Saving(f) => call[f].draft # d
      BY <1>2 DEF DraftInv, ClaimInv
    <2>2. \A f \in Calls \ {c} : Saving(f)' <=> Saving(f)
      BY <1>1 DEF Saving
    <2> QED
      <3> SUFFICES ASSUME NEW f \in Calls, Saving(f)'
                   PROVE  ClaimInv!(f)!2'
        BY DEF ClaimInv
      <3>1. CASE f = c
        BY <1>1, <1>3, <1>5, <1>7, <2>1, <2>2, <3>1
      <3>2. CASE f # c
        <4>1. Saving(f) /\ call'[f] = call[f] /\ ClaimInv!(f)!2
          BY <1>1, <2>2, <3>2 DEF DraftInv, ClaimInv
        <4>2. row'[call[f].draft] = row[call[f].draft]
          BY <1>1, <2>1, <4>1
        <4>3. \A g \in Calls \ {f} : Saving(g)' => call'[g].draft # call[f].draft
          BY <1>1, <1>5, <2>1, <2>2, <4>1
        <4> QED
          BY <1>1, <4>1, <4>2, <4>3
      <3> QED
        BY <3>1, <3>2
  <1>10. MailInv'
    <2>1. NothingForgotten'
      <3> SUFFICES ASSUME NEW x \in mail
                   PROVE  \/ x.id \in {row'[x.draft].email, row'[x.draft].cleanup}
                          \/ row'[x.draft].op = x.op /\ row'[x.draft].state \in {"claimed", "uncertain"}
        BY <1>1 DEF NothingForgotten
      <3>1. x.draft \in Drafts
        BY DEF DraftInv, TypeOK
      <3> QED
        BY <1>1, <1>2, <1>3, <3>1 DEF DraftInv, MailInv, NothingForgotten
    <2> QED
      BY <1>1, <2>1 DEF DraftInv, MailInv
  <1>11. FreshInv' /\ RemovalInv'
    <2>1. \A f \in Calls : Removing(f)' \/ call'[f].at = "complete" => call'[f] = call[f]
      BY <1>1, <1>5
    <2>2. \A f \in Calls : Removing(f)' => Removing(f)
      BY <2>1 DEF Removing
    <2> QED
      BY <1>1, <1>3, <2>1, <2>2, FreshStays, RemovalStays DEF DraftInv
  <1>12. OwnCopies' /\ CopyIsKept'
    BY <1>1, <1>3 DEF DraftInv, OwnCopies, CopyIsKept
  <1> QED
    BY <1>4, <1>6, <1>8, <1>9, <1>10, <1>11, <1>12 DEF Rest

\* A request that is to remove a message: the copy before the present one.
LEMMA CleanupKeeps ==
    ASSUME DraftInv, NEW c \in Calls, NEW d \in Drafts, Cleanup(c, d)
    PROVE  Rest'
  <1>1. /\ UNCHANGED <<row, mail, asked, sent, dropping, removed, posted>>
        /\ \A f \in Calls \ {c} : call'[f] = call[f]
        /\ call'[c] = [Idle EXCEPT !.at = "check", !.draft = d, !.email = row[d].cleanup]
        /\ row[d].cleanup # 0 /\ row[d].cleanup # row[d].email
    BY DEF Cleanup, Enter, DraftInv, TypeOK, history
  <1>2. RowInv' /\ AskedInv' /\ OnceInv' /\ MailInv' /\ OwnCopies' /\ CopyIsKept'
    BY <1>1 DEF DraftInv, RowInv, Blocked, AskedInv, OnceInv, Spent, MailInv, NothingForgotten,
                OwnCopies, CopyIsKept
  <1>3. /\ call'[c].at = "check" /\ call'[c].kind = "save" /\ call'[c].draft = d
        /\ call'[c].email = row[d].cleanup /\ ~Saving(c)' /\ Removing(c)'
    BY <1>1 DEF Idle, Saving, Removing
  <1>4. \A f \in Calls \ {c} : Saving(f)' = Saving(f) /\ Removing(f)' = Removing(f)
    BY <1>1 DEF Saving, Removing
  <1>5. ClaimInv'
    BY <1>1, <1>3, <1>4, ClaimStays DEF DraftInv
  <1>6. FreshInv'
    BY <1>1, <1>3, <1>4, FreshStays DEF DraftInv
  <1>7. RemovalInv'
    <2>1. \A k \in Drafts : row[k].email # row[d].cleanup
      BY <1>1 DEF DraftInv, OwnCopies
    <2> QED
      <3> SUFFICES ASSUME NEW f \in Calls, Removing(f)'
                   PROVE  RemovalInv!(f)!2'
        BY DEF RemovalInv
      <3>1. CASE f = c
        BY <1>1, <1>3, <2>1, <3>1
      <3>2. CASE f # c
        BY <1>1, <1>4, <3>2 DEF DraftInv, RemovalInv
      <3> QED
        BY <3>1, <3>2
  <1> QED
    BY <1>2, <1>5, <1>6, <1>7 DEF Rest

\* A claim ends without a new copy: it is given back before anything was sent,
\* or its outcome stays open.
LEMMA EndKeeps ==
    ASSUME DraftInv, NEW c \in Calls, Refuse(c) \/ MarkUncertain(c)
    PROVE  Rest'
  <1>1. Saving(c) /\ ~Removing(c) /\ call[c].at # "complete"
    BY DEF Refuse, MarkUncertain, Saving, Removing
  <1>2. PICK d \in Drafts :
          /\ call[c].draft = d /\ row[d].op = call[c].op /\ row[d].state = "claimed"
          /\ \A f \in Calls \ {c} : Saving(f) => call[f].draft # d
    BY <1>1 DEF DraftInv, ClaimInv
  <1>3. /\ UNCHANGED <<mail, asked, sent, dropping, removed>>
        /\ \A f \in Calls \ {c} : call'[f] = call[f]
        /\ call'[c] = Idle
        /\ \A k \in Drafts \ {d} : row'[k] = row[k]
    BY <1>2 DEF Refuse, MarkUncertain, Leave, IfClaimed, DraftInv, TypeOK, history
  <1>4. PICK s \in {"refused", "uncertain"} :
          /\ row'[d] = [row[d] EXCEPT !.state = s]
          /\ s = "refused" => call[c].at = "prepare"
    BY <1>2 DEF Refuse, MarkUncertain, IfClaimed, DraftInv, TypeOK
  <1>5. /\ row'[d].state = s /\ row'[d].op = row[d].op /\ row'[d].revision = row[d].revision
        /\ row'[d].email = row[d].email /\ row'[d].cleanup = row[d].cleanup
    BY <1>2, <1>4 DEF DraftInv, TypeOK, RowType
  <1>6. \A k \in Drafts : /\ row'[k].email = row[k].email /\ row'[k].cleanup = row[k].cleanup
                          /\ row'[k].revision = row[k].revision /\ row'[k].op = row[k].op
    BY <1>3, <1>5
  <1>7. \A f \in Calls : /\ Saving(f)' => f # c /\ Saving(f)
                         /\ Removing(f)' \/ call'[f].at = "complete" => call'[f] = call[f]
                         /\ Removing(f)' => Removing(f)
    BY <1>3 DEF Saving, Removing, Idle
  <1>8. RowInv'
    <2>1. RowInv!(d)'
      BY <1>2, <1>3, <1>4, <1>5 DEF DraftInv, RowInv, Blocked
    <2>2. \A k \in Drafts \ {d} : RowInv!(k)'
      BY <1>3 DEF DraftInv, RowInv, Blocked
    <2> QED
      BY <2>1, <2>2 DEF RowInv
  <1>9. OnceInv'
    <2> SUFFICES ASSUME NEW o \in Ops, sent[o] = 1
                 PROVE  \E q \in asked : q.op = o /\ Spent(q)'
      BY <1>3 DEF DraftInv, OnceInv
    <2>1. PICK q \in asked : q.op = o /\ Spent(q)
      BY DEF DraftInv, OnceInv
    <2>2. q.draft \in Drafts
      BY DEF DraftInv, TypeOK
    <2>3. CASE q.draft # d
      BY <1>3, <2>1, <2>2, <2>3 DEF Spent, Blocked
    <2>4. CASE q.draft = d
      <3>1. row[d].op = o => s = "uncertain"
        <4>1. call[c].at = "prepare" => sent[call[c].op] = 0
          BY <1>1 DEF DraftInv, ClaimInv
        <4> QED
          BY <1>2, <1>4, <4>1
      <3>2. row[d].revision > q.revision \/ row[d].op = o
        BY <1>2, <2>1, <2>4 DEF Spent
      <3>3. CASE row[d].revision > q.revision
        BY <1>5, <2>1, <2>4, <3>3 DEF Spent
      <3>4. CASE row[d].op = o
        BY <1>5, <2>1, <2>4, <3>1, <3>4 DEF Spent, Blocked
      <3> QED
        BY <3>2, <3>3, <3>4
    <2> QED
      BY <2>3, <2>4
  <1>10. ClaimInv'
    <2>1. ASSUME NEW f \in Calls, Saving(f)'
          PROVE  Saving(f) /\ call'[f] = call[f] /\ row'[call[f].draft] = row[call[f].draft]
      <3>1. f \in Calls \ {c} /\ Saving(f)
        BY <1>7, <2>1 DEF Saving
      <3>2. call[f].draft \in Drafts
        BY <3>1 DEF DraftInv, ClaimInv
      <3> QED
        BY <1>2, <1>3, <3>1, <3>2
    <2>2. ClaimInv /\ TypeOK
      BY DEF DraftInv
    <2> QED
      BY <1>3, <2>1, <2>2, ClaimStays
  <1>11. MailInv'
    <2>1. NothingForgotten'
      <3> SUFFICES ASSUME NEW x \in mail
                   PROVE  \/ x.id \in {row'[x.draft].email, row'[x.draft].cleanup}
                          \/ row'[x.draft].op = x.op /\ row'[x.draft].state \in {"claimed", "uncertain"}
        BY <1>3 DEF NothingForgotten
      <3>1. x.draft \in Drafts /\ x.op \in Ops /\ sent[x.op] = 1
        BY DEF DraftInv, TypeOK, MailInv
      <3>2. CASE x.draft = d /\ s = "refused"
        <4>1. x.op # row[d].op
          <5>1. call[c].at = "prepare" => sent[call[c].op] = 0
            BY <1>1 DEF DraftInv, ClaimInv
          <5> QED
            BY <1>2, <1>4, <3>1, <3>2, <5>1
        <4>2. x.id \in {row[x.draft].email, row[x.draft].cleanup}
          BY <3>2, <4>1 DEF DraftInv, MailInv, NothingForgotten
        <4> QED
          BY <1>6, <3>1, <4>2
      <3>3. \/ x.id \in {row[x.draft].email, row[x.draft].cleanup}
            \/ row[x.draft].op = x.op /\ row[x.draft].state \in {"claimed", "uncertain"}
        BY DEF DraftInv, MailInv, NothingForgotten
      <3>4. CASE x.draft # d
        BY <1>3, <3>1, <3>3, <3>4
      <3>5. CASE x.draft = d /\ s = "uncertain"
        BY <1>5, <3>3, <3>5
      <3> QED
        BY <3>2, <3>4, <3>5
    <2> QED
      BY <1>3, <2>1 DEF DraftInv, MailInv
  <1>12. FreshInv' /\ RemovalInv'
    <2>1. FreshInv /\ RemovalInv
      BY DEF DraftInv
    <2>2. \A f \in Calls : Removing(f)' => Removing(f) /\ call'[f] = call[f]
      BY <1>7 DEF Removing
    <2>3. \A f \in Calls : call'[f].at = "complete" => call'[f] = call[f]
      BY <1>7 DEF Removing
    <2>4. FreshInv'
      BY <1>3, <1>6, <2>1, <2>2, <2>3, FreshStays
    <2> QED
      BY <1>3, <1>6, <2>1, <2>2, <2>4, RemovalStays
  <1>13. AskedInv' /\ OwnCopies' /\ CopyIsKept'
    BY <1>3, <1>6 DEF DraftInv, AskedInv, OwnCopies, CopyIsKept
  <1> QED
    BY <1>8, <1>9, <1>10, <1>11, <1>12, <1>13 DEF Rest

\* A discard: a draft without a message is gone, and has left none; another has
\* its copy reserved.
LEMMA DiscardKeeps ==
    ASSUME DraftInv, NEW c \in Calls, NEW d \in Drafts, NEW b \in 0..issued, Discard(c, d, b)
    PROVE  Rest'
  <1>1. /\ UNCHANGED <<mail, asked, sent, removed>>
        /\ dropping' = dropping \cup {[draft |-> d, revision |-> row[d].revision]}
        /\ \A f \in Calls \ {c} : call'[f] = call[f]
        /\ \A k \in Drafts \ {d} : row'[k] = row[k]
        /\ row[d].state \in {"saved", "refused"} /\ row[d].cleanup \in {0, row[d].email}
    BY DEF Discard, Enter, Settled, Expected, DraftInv, TypeOK
  <1>2. /\ row'[d].email = row[d].email /\ row'[d].revision = row[d].revision
        /\ row'[d].op = row[d].op
        /\ \/ row'[d].state = "gone" /\ row'[d].cleanup = row[d].cleanup /\ row[d].email = 0
              /\ call' = call
           \/ row'[d].state = row[d].state /\ row'[d].cleanup = row[d].email /\ row[d].email # 0
              /\ call'[c] = [Idle EXCEPT !.at = "check", !.kind = "discard", !.draft = d,
                               !.revision = row[d].revision, !.email = row[d].email]
    <2>1. row[d] \in RowType
      BY DEF DraftInv, TypeOK
    <2>2. CASE row[d].email = 0
      BY <2>1, <2>2 DEF Discard, RowType, DraftInv, TypeOK
    <2>3. CASE row[d].email # 0
      BY <2>1, <2>3 DEF Discard, Enter, RowType, DraftInv, TypeOK
    <2> QED
      BY <2>2, <2>3
  <1>3. \/ call' = call
        \/ /\ call'[c].at = "check" /\ call'[c].kind = "discard" /\ call'[c].draft = d
           /\ call'[c].revision = row[d].revision /\ call'[c].email = row[d].email
           /\ row[d].email # 0
    BY <1>2 DEF Idle
  <1>4. \A k \in Drafts : /\ row'[k].email = row[k].email /\ row'[k].revision = row[k].revision
                          /\ row'[k].op = row[k].op
                          /\ row'[k].cleanup \in {row[k].cleanup, row[k].email}
    BY <1>1, <1>2
  <1>5. \A f \in Calls : /\ Saving(f)' => Saving(f) /\ call'[f] = call[f]
                         /\ call'[f].at = "complete" => call'[f] = call[f]
                         /\ Removing(f)' => \/ Removing(f) /\ call'[f] = call[f]
                                            \/ f = c /\ call' # call
    BY <1>1, <1>3 DEF Saving, Removing
  <1>6. RowInv'
    <2>1. RowInv!(d)'
      BY <1>1, <1>2 DEF Blocked
    <2>2. \A k \in Drafts \ {d} : RowInv!(k)'
      BY <1>1 DEF DraftInv, RowInv, Blocked
    <2> QED
      BY <2>1, <2>2 DEF RowInv
  <1>7. OnceInv'
    <2>1. \A q \in asked : Spent(q) => Spent(q)'
      BY <1>1, <1>2, <1>4 DEF DraftInv, TypeOK, Spent, Blocked
    <2> QED
      BY <1>1, <2>1 DEF DraftInv, OnceInv
  <1>8. ClaimInv'
    <2>1. ASSUME NEW f \in Calls, Saving(f)'
          PROVE  Saving(f) /\ call'[f] = call[f] /\ row'[call[f].draft] = row[call[f].draft]
      <3>1. Saving(f) /\ call'[f] = call[f]
        BY <1>5, <2>1 DEF Saving
      <3>2. call[f].draft \in Drafts /\ row[call[f].draft].state = "claimed"
        BY <3>1 DEF DraftInv, ClaimInv
      <3> QED
        BY <1>1, <3>1, <3>2
    <2>2. ClaimInv /\ TypeOK
      BY DEF DraftInv
    <2> QED
      BY <1>1, <2>1, <2>2, ClaimStays
  <1>9. MailInv'
    <2>1. NothingForgotten'
      <3> SUFFICES ASSUME NEW x \in mail
                   PROVE  \/ x.id \in {row'[x.draft].email, row'[x.draft].cleanup}
                          \/ row'[x.draft].op = x.op /\ row'[x.draft].state \in {"claimed", "uncertain"}
        BY <1>1 DEF NothingForgotten
      <3>1. x.draft \in Drafts /\ x.id # 0
        BY DEF DraftInv, TypeOK
      <3>2. CASE x.draft = d
        BY <1>1, <1>2, <3>1, <3>2 DEF DraftInv, MailInv, NothingForgotten
      <3>3. CASE x.draft # d
        BY <1>1, <3>1, <3>3 DEF DraftInv, MailInv, NothingForgotten
      <3> QED
        BY <3>2, <3>3
    <2> QED
      BY <1>1, <2>1 DEF DraftInv, MailInv
  <1>10. FreshInv'
    <2>1. ASSUME NEW f \in Calls, Removing(f)'
          PROVE  \/ Removing(f) /\ call'[f].email = call[f].email
                 \/ \E k \in Drafts : call'[f].email \in {row[k].email, row[k].cleanup}
      <3>1. CASE Removing(f) /\ call'[f] = call[f]
        BY <3>1
      <3>2. CASE f = c /\ call' # call
        BY <1>3, <3>2
      <3> QED
        BY <1>5, <2>1, <3>1, <3>2 DEF Removing
    <2>2. FreshInv
      BY DEF DraftInv
    <2>3. \A f \in Calls : call'[f].at = "complete" => call'[f] = call[f]
      BY <1>5 DEF Removing
    <2>4. \A k \in Drafts : /\ row'[k].email \in {0, row[k].email}
                            /\ row'[k].cleanup \in {0, row[k].email, row[k].cleanup}
      BY <1>4
    <2> QED
      BY <1>1, <2>1, <2>2, <2>3, <2>4, FreshStays
  <1>11. RemovalInv'
    <2> SUFFICES ASSUME NEW f \in Calls, Removing(f)'
                 PROVE  RemovalInv!(f)!2'
      BY DEF RemovalInv
    <2>1. CASE f = c /\ call' # call
      <3>1. \A k \in Drafts : row[k].email = row[d].email => k = d
        BY <1>3, <2>1 DEF DraftInv, OwnCopies
      <3> QED
        BY <1>1, <1>2, <1>3, <1>4, <2>1, <3>1
    <2>2. CASE ~(f = c /\ call' # call)
      <3>1. Removing(f) /\ call'[f] = call[f]
        BY <1>5, <2>2 DEF Removing
      <3>2. RemovalInv!(f)!2
        BY <3>1 DEF DraftInv, RemovalInv
      <3> QED
        BY <1>1, <1>4, <3>1, <3>2
    <2> QED
      BY <2>1, <2>2
  <1>12. AskedInv' /\ CopyIsKept'
    BY <1>1, <1>4 DEF DraftInv, AskedInv, CopyIsKept
  <1>13. OwnCopies'
    BY <1>4 DEF DraftInv, OwnCopies
  <1> QED
    BY <1>6, <1>7, <1>8, <1>9, <1>10, <1>11, <1>12, <1>13 DEF Rest

\* An operation that was asked for blocks one draft.
LEMMA OneDraft ==
    ASSUME DraftInv, NEW d \in Drafts, NEW k \in Drafts, Blocked(d), Blocked(k), row[d].op = row[k].op
    PROVE  d = k
  <1> DEFINE p == [op |-> row[d].op, draft |-> d, revision |-> row[d].revision]
             q == [op |-> row[k].op, draft |-> k, revision |-> row[k].revision]
  <1>1. p \in asked /\ q \in asked
    BY DEF DraftInv, RowInv
  <1>2. p = q
    BY <1>1 DEF DraftInv, AskedInv
  <1> QED
    BY <1>2

\* An APPEND: the first one of its operation, with a message that is new.
LEMMA AppendKeeps ==
    ASSUME DraftInv, NEW c \in Calls, Append(c) \/ AppendUnconfirmed(c)
    PROVE  Rest'
  <1>1. Saving(c) /\ ~Removing(c) /\ call[c].at = "append"
    BY DEF Append, AppendUnconfirmed, Saving, Removing
  <1>2. PICK d \in Drafts, o \in Ops :
          /\ call[c].draft = d /\ call[c].op = o /\ call[c].kind = "save"
          /\ row[d].op = o /\ row[d].state = "claimed" /\ sent[o] = 0
          /\ \A f \in Calls \ {c} : Saving(f) => call[f].draft # d
    BY <1>1 DEF DraftInv, ClaimInv
  <1> DEFINE m == [id |-> posted + 1, draft |-> d, op |-> o]
  <1>3. /\ UNCHANGED <<row, asked, dropping, removed>>
        /\ sent' = [sent EXCEPT ![o] = @ + 1]
        /\ mail' = mail \/ mail' = mail \cup {m}
        /\ \A f \in Calls \ {c} : call'[f] = call[f]
    BY <1>2 DEF Append, AppendUnconfirmed, Go, DraftInv, TypeOK
  <1>4. /\ call'[c].draft = d /\ call'[c].op = o /\ call'[c].kind = "save"
        /\ \/ call'[c].at = "mark"
           \/ call'[c].at = "complete" /\ call'[c].email = posted + 1 /\ mail' = mail \cup {m}
    <2>1. call[c] \in CallType
      BY DEF DraftInv, TypeOK
    <2>2. CASE Append(c)
      BY <1>2, <2>1, <2>2 DEF Append, CallType, DraftInv, TypeOK
    <2>3. CASE AppendUnconfirmed(c)
      BY <1>2, <2>1, <2>3 DEF AppendUnconfirmed, Go, CallType, DraftInv, TypeOK
    <2> QED
      BY <2>2, <2>3
  <1>5. /\ sent'[o] = 1
        /\ \A p \in Ops \ {o} : sent'[p] = sent[p]
    BY <1>2, <1>3 DEF DraftInv, TypeOK
  <1>6. /\ posted \in Nat
        /\ \A x \in mail : x.id \in 1..posted /\ x.op # o /\ x.op \in Ops /\ x.draft \in Drafts
        /\ \A k \in Drafts : row[k].email \in 0..posted /\ row[k].cleanup \in 0..posted
        /\ \A f \in Calls : call[f].email \in 0..posted
    <2>1. \A x \in mail : x.id \in 1..posted /\ x.op # o /\ x.op \in Ops /\ x.draft \in Drafts
      BY <1>2 DEF DraftInv, TypeOK, MailInv
    <2>2. ASSUME NEW k \in Drafts PROVE row[k].email \in 0..posted /\ row[k].cleanup \in 0..posted
      <3>1. row[k] \in RowType
        BY DEF DraftInv, TypeOK
      <3> QED
        BY <3>1 DEF RowType
    <2>3. ASSUME NEW f \in Calls PROVE call[f].email \in 0..posted
      <3>1. call[f] \in CallType
        BY DEF DraftInv, TypeOK
      <3> QED
        BY <3>1 DEF CallType
    <2> QED
      BY <2>1, <2>2, <2>3 DEF DraftInv, TypeOK
  <1>7. ASSUME NEW f \in Calls \ {c}, Saving(f)
        PROVE  /\ call[f].draft \in Drafts /\ call[f].op \in Ops
               /\ call[f].draft # d /\ call[f].op # o
    <2>1. /\ call[f].draft \in Drafts /\ call[f].op \in Ops /\ row[call[f].draft].op = call[f].op
          /\ row[call[f].draft].state = "claimed"
      BY <1>7 DEF DraftInv, ClaimInv
    <2>2. call[f].draft # d
      BY <1>2, <1>7
    <2> QED
      BY <1>2, <2>1, <2>2, OneDraft DEF Blocked
  <1> HIDE DEF m
  <1>8. RowInv' /\ AskedInv' /\ OwnCopies' /\ CopyIsKept'
    BY <1>3 DEF DraftInv, RowInv, Blocked, AskedInv, OwnCopies, CopyIsKept
  <1>9. OnceInv'
    <2>1. \A q \in asked : Spent(q)' = Spent(q)
      BY <1>3 DEF Spent, Blocked
    <2> SUFFICES ASSUME NEW p \in Ops
                 PROVE  sent'[p] \in {0, 1} /\ (sent'[p] = 1 => \E q \in asked : q.op = p /\ Spent(q))
      BY <1>3, <2>1 DEF OnceInv
    <2>2. CASE p = o
      <3> DEFINE q == [op |-> row[d].op, draft |-> d, revision |-> row[d].revision]
      <3>1. q \in asked
        BY <1>2 DEF DraftInv, RowInv, Blocked
      <3>2. q.op = o /\ Spent(q)
        BY <1>2 DEF Spent, Blocked
      <3> HIDE DEF q
      <3> QED
        BY <1>5, <2>2, <3>1, <3>2
    <2>3. CASE p # o
      BY <1>5, <2>3 DEF DraftInv, OnceInv
    <2> QED
      BY <2>2, <2>3
  <1>10. ClaimInv'
    <2> SUFFICES ASSUME NEW f \in Calls, Saving(f)'
                 PROVE  ClaimInv!(f)!2'
      BY DEF ClaimInv
    <2>1. \A g \in Calls \ {c} : Saving(g)' <=> Saving(g)
      BY <1>3 DEF Saving
    <2>2. CASE f = c
      <3>1. \A g \in Calls \ {c} : Saving(g)' => call'[g].draft # d
        BY <1>2, <1>3, <2>1 DEF Saving
      <3> QED
        BY <1>2, <1>3, <1>4, <2>2, <3>1
    <2>3. CASE f # c
      <3>1. Saving(f) /\ call'[f] = call[f]
        BY <1>3, <2>3 DEF Saving
      <3>2. ClaimInv!(f)!2 /\ call[f].draft # d /\ call[f].op \in Ops \ {o}
        BY <1>7, <2>3, <3>1 DEF DraftInv, ClaimInv
      <3>3. \A g \in Calls \ {f} : Saving(g)' => call'[g].draft # call[f].draft
        BY <1>3, <1>4, <2>1, <3>2 DEF Saving
      <3> QED
        BY <1>3, <1>5, <3>1, <3>2, <3>3
    <2> QED
      BY <2>2, <2>3
  <1>11. m.id = posted + 1 /\ m.op = o /\ m.draft = d
    BY DEF m
  <1>12. MailInv'
    <2>1. \A x \in mail' : sent'[x.op] = 1
      BY <1>3, <1>5, <1>6, <1>11 DEF DraftInv, MailInv
    <2>2. \A x \in mail', y \in mail' : x.op = y.op \/ x.id = y.id => x = y
      BY <1>3, <1>6, <1>11 DEF DraftInv, MailInv
    <2>3. NothingForgotten'
      BY <1>2, <1>3, <1>6, <1>11 DEF DraftInv, MailInv, NothingForgotten
    <2> QED
      BY <2>1, <2>2, <2>3 DEF MailInv
  <1>13. \A f \in Calls : Removing(f)' => Removing(f) /\ call'[f] = call[f]
    BY <1>3, <1>4 DEF Removing
  <1>14. FreshInv'
    <2> SUFFICES ASSUME NEW f \in Calls, call'[f].at = "complete"
                 PROVE  FreshInv!(f)!2'
      BY DEF FreshInv
    <2>1. CASE f = c
      <3>1. call'[c].email = posted + 1 /\ call'[c].op = o /\ mail' = mail \cup {m} /\ posted + 1 # 0
        BY <1>4, <1>6, <2>1
      <3>2. \A k \in Drafts : posted + 1 # row'[k].email /\ posted + 1 # row'[k].cleanup
        BY <1>3, <1>6
      <3>3. \A g \in Calls : Removing(g)' => call'[g].email # posted + 1
        BY <1>6, <1>13 DEF Removing
      <3>4. \A g \in Calls \ {c} : call'[g].at = "complete" => call'[g].email # posted + 1
        BY <1>3, <1>6
      <3>5. \A x \in mail' : x.op = o <=> x.id = posted + 1
        BY <1>6, <1>11, <3>1
      <3>6. \E x \in mail' : x.id = posted + 1
        BY <1>11, <3>1
      <3> QED
        BY <2>1, <3>1, <3>2, <3>3, <3>4, <3>5, <3>6
    <2>2. CASE f # c
      <3>1. call'[f] = call[f] /\ call[f].at = "complete" /\ Saving(f)
        BY <1>3, <2>2 DEF Saving
      <3>2. FreshInv!(f)!2 /\ call[f].op # o /\ call[f].email # posted + 1
        BY <1>6, <1>7, <2>2, <3>1 DEF DraftInv, FreshInv
      <3>3. \A g \in Calls : Removing(g)' => call'[g].email # call[f].email
        BY <1>13, <3>2 DEF Removing
      <3>4. \A g \in Calls \ {f} : call'[g].at = "complete" => call'[g].email # call[f].email
        BY <1>3, <1>4, <3>2
      <3>5. \A x \in mail' : x.op = call[f].op <=> x.id = call[f].email
        BY <1>3, <1>11, <3>2
      <3>6. call[f].email \in removed' \/ \E x \in mail' : x.id = call[f].email
        BY <1>3, <3>2
      <3> QED
        BY <1>3, <3>1, <3>2, <3>3, <3>4, <3>5, <3>6
    <2> QED
      BY <2>1, <2>2
  <1>15. RemovalInv'
    <2> SUFFICES ASSUME NEW f \in Calls, Removing(f)'
                 PROVE  RemovalInv!(f)!2'
      BY DEF RemovalInv
    <2>1. Removing(f) /\ call'[f] = call[f]
      BY <1>13 DEF Removing
    <2>2. RemovalInv!(f)!2 /\ call[f].email # posted + 1
      BY <1>6, <2>1 DEF DraftInv, RemovalInv
    <2> QED
      BY <1>3, <1>11, <2>1, <2>2
  <1> QED
    BY <1>8, <1>9, <1>10, <1>12, <1>14, <1>15 DEF Rest

\* What Complete does: the claimed row takes the new copy, and the one before
\* is left to clean up.
LEMMA CompleteEffect ==
    ASSUME DraftInv, NEW c \in Calls, Complete(c)
    PROVE  \E d \in Drafts :
             /\ call[c].at = "complete" /\ call[c].draft = d /\ row[d].op = call[c].op
             /\ row[d].state = "claimed" /\ row[d].cleanup = 0
             /\ row[d].revision \in 0..issued /\ issued \in Nat
             /\ [op |-> row[d].op, draft |-> d, revision |-> row[d].revision] \in asked
             /\ \A f \in Calls \ {c} : call'[f] = call[f] /\ (Saving(f) => call[f].draft # d)
             /\ \A k \in Drafts \ {d} : row'[k] = row[k]
             /\ row'[d].state = "saved" /\ row'[d].op = row[d].op /\ row'[d].revision = issued + 1
             /\ row'[d].email = call[c].email /\ row'[d].cleanup = row[d].email
             /\ \/ call'[c] = Idle
                \/ /\ call'[c].at = "check" /\ call'[c].kind = "save" /\ call'[c].draft = d
                   /\ call'[c].email = row[d].email /\ row[d].email # 0
  <1>1. Saving(c) /\ call[c].at = "complete"
    BY DEF Complete, Saving
  <1>2. PICK d \in Drafts :
          /\ call[c].draft = d /\ call[c].kind = "save" /\ row[d].op = call[c].op
          /\ row[d].state = "claimed"
          /\ \A f \in Calls \ {c} : Saving(f) => call[f].draft # d
    BY <1>1 DEF DraftInv, ClaimInv
  <1>3. /\ row[d].cleanup = 0
        /\ [op |-> row[d].op, draft |-> d, revision |-> row[d].revision] \in asked
    BY <1>2 DEF DraftInv, RowInv, Blocked
  <1>4. row[d] \in RowType /\ call[c] \in CallType /\ issued \in Nat
    BY DEF DraftInv, TypeOK
  <1>5. row' = [row EXCEPT ![d] = [row[d] EXCEPT !.state = "saved", !.revision = issued + 1,
                                       !.email = call[c].email, !.cleanup = row[d].email]]
    BY <1>2 DEF Complete, IfClaimed
  <1>6. /\ row'[d].state = "saved" /\ row'[d].op = row[d].op /\ row'[d].revision = issued + 1
        /\ row'[d].email = call[c].email /\ row'[d].cleanup = row[d].email
        /\ \A k \in Drafts \ {d} : row'[k] = row[k]
    BY <1>4, <1>5 DEF RowType, DraftInv, TypeOK
  <1>7. /\ \A f \in Calls \ {c} : call'[f] = call[f]
        /\ \/ call'[c] = Idle
           \/ call'[c] = [call[c] EXCEPT !.at = "check", !.email = row[d].email] /\ row[d].email # 0
    BY <1>2 DEF Complete, Leave, DraftInv, TypeOK
  <1>8. \/ call'[c] = Idle
        \/ /\ call'[c].at = "check" /\ call'[c].kind = "save" /\ call'[c].draft = d
           /\ call'[c].email = row[d].email /\ row[d].email # 0
    BY <1>2, <1>4, <1>7 DEF CallType
  <1> QED
    BY <1>1, <1>2, <1>3, <1>4, <1>6, <1>7, <1>8 DEF RowType

LEMMA CompleteKeeps ==
    ASSUME DraftInv, NEW c \in Calls, Complete(c)
    PROVE  Rest'
  <1>1. PICK d \in Drafts :
          /\ call[c].at = "complete" /\ call[c].draft = d /\ row[d].op = call[c].op
          /\ row[d].state = "claimed" /\ row[d].cleanup = 0
          /\ row[d].revision \in 0..issued /\ issued \in Nat
          /\ [op |-> row[d].op, draft |-> d, revision |-> row[d].revision] \in asked
          /\ \A f \in Calls \ {c} : call'[f] = call[f] /\ (Saving(f) => call[f].draft # d)
          /\ \A k \in Drafts \ {d} : row'[k] = row[k]
          /\ row'[d].state = "saved" /\ row'[d].op = row[d].op /\ row'[d].revision = issued + 1
          /\ row'[d].email = call[c].email /\ row'[d].cleanup = row[d].email
          /\ \/ call'[c] = Idle
             \/ /\ call'[c].at = "check" /\ call'[c].kind = "save" /\ call'[c].draft = d
                /\ call'[c].email = row[d].email /\ row[d].email # 0
    BY CompleteEffect
  <1>2. UNCHANGED <<mail, asked, sent, dropping, removed>>
    BY DEF Complete, history
  <1>3. /\ call[c].email # 0
        /\ \A k \in Drafts : call[c].email # row[k].email /\ call[c].email # row[k].cleanup
        /\ \A f \in Calls : Removing(f) => call[f].email # call[c].email
        /\ \A f \in Calls \ {c} : call[f].at = "complete" => call[f].email # call[c].email
        /\ \A x \in mail : x.op = call[c].op <=> x.id = call[c].email
        /\ call[c].email \in removed \/ \E x \in mail : x.id = call[c].email
    BY <1>1 DEF DraftInv, FreshInv
  <1>4. ~Saving(c)' /\ ~Removing(c) /\ call'[c].at # "complete"
    BY <1>1 DEF Saving, Removing, Idle
  <1>5. \A f \in Calls \ {c} : Saving(f)' = Saving(f) /\ Removing(f)' = Removing(f)
    BY <1>1 DEF Saving, Removing
  <1>6. RowInv' /\ AskedInv'
    BY <1>1, <1>2 DEF DraftInv, RowInv, Blocked, AskedInv
  <1>7. OnceInv'
    <2>1. ASSUME NEW q \in asked, Spent(q)
          PROVE  Spent(q)'
      <3>1. q.draft \in Drafts /\ q.revision \in Nat
        BY DEF DraftInv, TypeOK
      <3>2. CASE q.draft # d
        BY <1>1, <2>1, <3>1, <3>2 DEF Spent, Blocked
      <3>3. CASE q.draft = d
        <4>1. row[d].revision > q.revision \/ row[d].op = q.op
          BY <1>1, <2>1, <3>3 DEF Spent
        <4>2. row[d].op = q.op => q.revision = row[d].revision
          BY <1>1 DEF DraftInv, AskedInv
        <4>3. issued + 1 > q.revision
          BY <1>1, <3>1, <4>1, <4>2
        <4> QED
          BY <1>1, <3>3, <4>3 DEF Spent
      <3> QED
        BY <3>2, <3>3
    <2> QED
      BY <1>2, <2>1 DEF DraftInv, OnceInv
  <1>8. ClaimInv'
    <2>1. ASSUME NEW f \in Calls, Saving(f)'
          PROVE  Saving(f) /\ call'[f] = call[f] /\ row'[call[f].draft] = row[call[f].draft]
      <3>1. f \in Calls \ {c} /\ Saving(f)
        BY <1>4, <1>5, <2>1
      <3>2. call[f].draft \in Drafts
        BY <3>1 DEF DraftInv, ClaimInv
      <3> QED
        BY <1>1, <3>1, <3>2
    <2>2. ClaimInv /\ TypeOK
      BY DEF DraftInv
    <2> QED
      BY <1>2, <2>1, <2>2, ClaimStays
  <1>9. MailInv'
    <2>1. NothingForgotten'
      <3> SUFFICES ASSUME NEW x \in mail
                   PROVE  \/ x.id \in {row'[x.draft].email, row'[x.draft].cleanup}
                          \/ row'[x.draft].op = x.op /\ row'[x.draft].state \in {"claimed", "uncertain"}
        BY <1>2 DEF NothingForgotten
      <3>1. x.draft \in Drafts /\ x.id # 0
        BY DEF DraftInv, TypeOK
      <3>2. \/ x.id \in {row[x.draft].email, row[x.draft].cleanup}
            \/ row[x.draft].op = x.op /\ row[x.draft].state \in {"claimed", "uncertain"}
        BY DEF DraftInv, MailInv, NothingForgotten
      <3>3. CASE x.draft # d
        BY <1>1, <3>1, <3>2, <3>3
      <3>4. CASE x.draft = d
        BY <1>1, <1>3, <3>1, <3>2, <3>4
      <3> QED
        BY <3>3, <3>4
    <2> QED
      BY <1>2, <2>1 DEF DraftInv, MailInv
  <1>10. FreshInv'
    <2> SUFFICES ASSUME NEW f \in Calls, call'[f].at = "complete"
                 PROVE  FreshInv!(f)!2'
      BY DEF FreshInv
    <2>1. f \in Calls \ {c} /\ call'[f] = call[f] /\ call[f].at = "complete"
      BY <1>1, <1>4
    <2>2. FreshInv!(f)!2 /\ call[f].email # call[c].email
      BY <1>3, <2>1 DEF DraftInv, FreshInv
    <2>3. \A k \in Drafts : call[f].email # row'[k].email /\ call[f].email # row'[k].cleanup
      BY <1>1, <2>2
    <2>4. \A g \in Calls : Removing(g)' => call'[g].email # call[f].email
      <3> SUFFICES ASSUME NEW g \in Calls, Removing(g)' PROVE call'[g].email # call[f].email
        OBVIOUS
      <3>1. CASE g = c
        BY <1>1, <2>2, <3>1 DEF Removing, Idle
      <3>2. CASE g # c
        BY <1>1, <1>5, <2>2, <3>2
      <3> QED
        BY <3>1, <3>2
    <2>5. \A g \in Calls \ {f} : call'[g].at = "complete" => call'[g].email # call[f].email
      BY <1>1, <1>4, <2>2
    <2> QED
      BY <1>2, <2>1, <2>2, <2>3, <2>4, <2>5
  <1>11. OwnCopies'
    <2> SUFFICES ASSUME NEW j \in Drafts, NEW k \in Drafts, j # k, row'[j].email # 0
                 PROVE  row'[j].email # row'[k].email /\ row'[j].email # row'[k].cleanup
      BY DEF OwnCopies
    <2>1. CASE j = d
      BY <1>1, <1>3, <2>1
    <2>2. CASE k = d
      BY <1>1, <1>3, <2>2 DEF DraftInv, OwnCopies
    <2>3. CASE j # d /\ k # d
      BY <1>1, <2>3 DEF DraftInv, OwnCopies
    <2> QED
      BY <2>1, <2>2, <2>3
  <1>12. RemovalInv'
    <2> SUFFICES ASSUME NEW f \in Calls, Removing(f)'
                 PROVE  RemovalInv!(f)!2'
      BY DEF RemovalInv
    <2>1. CASE f = c
      <3>1. /\ call'[c].at = "check" /\ call'[c].kind = "save" /\ call'[c].draft = d
            /\ call'[c].email = row[d].email /\ row[d].email # 0
        BY <1>1, <2>1 DEF Removing, Idle
      <3>2. \A k \in Drafts : row'[k].email # row[d].email
        BY <1>1, <1>3, <3>1 DEF DraftInv, OwnCopies
      <3> QED
        BY <2>1, <3>1, <3>2
    <2>2. CASE f # c
      <3>1. Removing(f) /\ call'[f] = call[f]
        BY <1>1, <1>5, <2>2
      <3>2. RemovalInv!(f)!2 /\ call[f].email # call[c].email
        BY <1>3, <3>1 DEF DraftInv, RemovalInv
      <3> QED
        BY <1>1, <1>2, <3>1, <3>2
    <2> QED
      BY <2>1, <2>2
  <1>13. CopyIsKept'
    BY <1>1, <1>2, <1>3 DEF DraftInv, CopyIsKept
  <1> QED
    BY <1>6, <1>7, <1>8, <1>9, <1>10, <1>11, <1>12, <1>13 DEF Rest

\* A message is removed from the folder: it was no draft's copy, or a client
\* discards that draft.
LEMMA ExpungeKeeps ==
    ASSUME DraftInv, NEW c \in Calls, Expunge(c)
    PROVE  Rest'
  <1>1. /\ UNCHANGED <<row, asked, sent, dropping, removed>>
        /\ mail' = {x \in mail : x.id # call[c].email}
        /\ \A f \in Calls \ {c} : call'[f] = call[f]
        /\ call'[c] = [call[c] EXCEPT !.at = "done"]
        /\ call[c].at = "expunge" /\ call[c] \in CallType
    BY DEF Expunge, Go, history, DraftInv, TypeOK
  <1>2. /\ call'[c].at = "done" /\ call'[c].kind = call[c].kind /\ call'[c].draft = call[c].draft
        /\ call'[c].email = call[c].email /\ call'[c].revision = call[c].revision
        /\ Removing(c) /\ Removing(c)' /\ ~Saving(c)'
    BY <1>1 DEF CallType, Removing, Saving
  <1>3. \A f \in Calls \ {c} : Saving(f)' = Saving(f) /\ Removing(f)' = Removing(f)
    BY <1>1 DEF Saving, Removing
  <1>4. RowInv' /\ AskedInv' /\ OnceInv' /\ MailInv' /\ OwnCopies'
    BY <1>1 DEF DraftInv, RowInv, Blocked, AskedInv, OnceInv, Spent, MailInv, NothingForgotten,
       OwnCopies
  <1>5. ClaimInv'
    <2>1. ASSUME NEW f \in Calls, Saving(f)'
          PROVE  Saving(f) /\ call'[f] = call[f]
      BY <1>1, <1>2, <1>3, <2>1
    <2>2. ClaimInv /\ TypeOK
      BY DEF DraftInv
    <2> QED
      BY <1>1, <2>1, <2>2, ClaimStays
  <1>6. FreshInv'
    <2>1. ASSUME NEW f \in Calls, Removing(f)'
          PROVE  Removing(f) /\ call'[f].email = call[f].email
      BY <1>1, <1>2, <1>3, <2>1
    <2>2. \A f \in Calls : call'[f].at = "complete" => call'[f] = call[f]
      BY <1>1, <1>2
    <2>3. \A x \in mail \ mail' : \E f \in Calls : Removing(f) /\ x.id = call[f].email
      BY <1>1, <1>2
    <2>4. FreshInv
      BY DEF DraftInv
    <2> QED
      BY <1>1, <2>1, <2>2, <2>3, <2>4, FreshStays
  <1>7. RemovalInv'
    <2> SUFFICES ASSUME NEW f \in Calls, Removing(f)'
                 PROVE  RemovalInv!(f)!2'
      BY DEF RemovalInv
    <2>1. Removing(f)
      BY <1>2, <1>3
    <2>2. RemovalInv!(f)!2
      BY <2>1 DEF DraftInv, RemovalInv
    <2>3. CASE f = c
      BY <1>1, <1>2, <2>2, <2>3
    <2>4. CASE f # c
      BY <1>1, <2>2, <2>4
    <2> QED
      BY <2>3, <2>4
  <1>8. CopyIsKept'
    <2> SUFFICES ASSUME NEW d \in Drafts, row[d].email # 0, row[d].email \notin removed,
                        [draft |-> d, revision |-> row[d].revision] \notin dropping
                 PROVE  \E x \in mail' : x.id = row[d].email
      BY <1>1 DEF CopyIsKept
    <2>1. PICK x \in mail : x.id = row[d].email
      BY DEF DraftInv, CopyIsKept
    <2>2. row[d].email # call[c].email
      BY <1>1, <1>2 DEF DraftInv, RemovalInv, CallType
    <2> QED
      BY <1>1, <2>1, <2>2
  <1> QED
    BY <1>4, <1>5, <1>6, <1>7, <1>8 DEF Rest

\* The copy before the present one is cleaned up.
LEMMA CleanupDoneKeeps ==
    ASSUME DraftInv, NEW c \in Calls, CleanupDone(c)
    PROVE  Rest'
  <1>1. CASE row' = row
    BY <1>1, QuietKeeps DEF CleanupDone, Leave, history, DraftInv, TypeOK
  <1>2. CASE row' # row
    <2>1. PICK d \in Drafts : call[c].draft = d
      BY DEF DraftInv, RemovalInv, Removing, CleanupDone
    <2>2. row[d] \in RowType
      BY DEF DraftInv, TypeOK
    <2>3. /\ UNCHANGED <<mail, asked, sent, dropping, removed>>
          /\ \A f \in Calls \ {c} : call'[f] = call[f]
          /\ call'[c] = Idle
          /\ row[d].cleanup = call[c].email
          /\ row' = [row EXCEPT ![d] = [row[d] EXCEPT !.cleanup = 0]]
      BY <1>2, <2>1 DEF CleanupDone, Leave, history, DraftInv, TypeOK
    <2>4. /\ row'[d].cleanup = 0 /\ row'[d].state = row[d].state /\ row'[d].op = row[d].op
          /\ row'[d].email = row[d].email /\ row'[d].revision = row[d].revision
          /\ \A k \in Drafts \ {d} : row'[k] = row[k]
      BY <2>2, <2>3 DEF RowType, DraftInv, TypeOK
    <2>5. \A x \in mail : x.id # row[d].cleanup
      BY <2>3, ZenonT(40) DEF DraftInv, RemovalInv, Removing, CleanupDone
    <2>6. \A k \in Drafts : /\ row'[k].email = row[k].email /\ row'[k].revision = row[k].revision
                            /\ row'[k].state = row[k].state /\ row'[k].op = row[k].op
                            /\ row'[k].cleanup \in {0, row[k].cleanup}
      BY <2>4
    <2>7. RowInv' /\ AskedInv'
      BY <2>3, <2>6 DEF DraftInv, RowInv, Blocked, AskedInv
    <2>8. OnceInv'
      <3>1. \A q \in asked : Spent(q) => Spent(q)'
        BY <2>6 DEF DraftInv, TypeOK, Spent, Blocked
      <3> QED
        BY <2>3, <3>1 DEF DraftInv, OnceInv
    <2>9. NothingForgotten'
      BY <2>3, <2>4, <2>5 DEF DraftInv, TypeOK, MailInv, NothingForgotten
    <2>10. MailInv'
      BY <2>3, <2>9 DEF DraftInv, MailInv
    <2>11. OwnCopies' /\ CopyIsKept'
      BY <2>3, <2>6 DEF DraftInv, OwnCopies, CopyIsKept
    <2>12. \A f \in Calls : /\ Saving(f)' => Saving(f) /\ call'[f] = call[f]
                            /\ Removing(f)' => Removing(f) /\ call'[f] = call[f]
                            /\ call'[f].at = "complete" => call'[f] = call[f]
      BY <2>3 DEF Saving, Removing, Idle
    <2>13. ClaimInv'
      <3>1. ASSUME NEW f \in Calls, Saving(f)'
            PROVE  /\ Saving(f) /\ call'[f] = call[f] /\ row'[call[f].draft].op = row[call[f].draft].op
                   /\ row'[call[f].draft].state = row[call[f].draft].state
        <4>1. Saving(f) /\ call'[f] = call[f]
          BY <2>12, <3>1 DEF Saving
        <4> QED
          BY <2>6, <4>1 DEF DraftInv, ClaimInv
      <3>2. ClaimInv /\ TypeOK
        BY DEF DraftInv
      <3> QED
        BY <2>3, <3>1, <3>2, ClaimStays
    <2>14. FreshInv' /\ RemovalInv'
      <3>1. \A f \in Calls : Removing(f)' => Removing(f) /\ call'[f] = call[f]
        BY <2>12 DEF Removing
      <3>2. \A f \in Calls : call'[f].at = "complete" => call'[f] = call[f]
        BY <2>12 DEF Removing
      <3>3. FreshInv /\ RemovalInv
        BY DEF DraftInv
      <3>4. FreshInv'
        BY <2>3, <2>6, <3>1, <3>2, <3>3, FreshStays
      <3> QED
        BY <2>3, <2>6, <3>1, <3>3, <3>4, RemovalStays
    <2> QED
      BY <2>7, <2>8, <2>10, <2>11, <2>13, <2>14 DEF Rest
  <1> QED
    BY <1>1, <1>2

\* What DiscardDone does to the rows: nothing, or one draft whose message is
\* removed becomes a tombstone.
LEMMA DiscardDoneEffect ==
    ASSUME DraftInv, NEW c \in Calls, DiscardDone(c), row' # row
    PROVE  \E d \in Drafts :
             /\ row[d].email = call[c].email /\ row[d].cleanup = call[c].email
             /\ row[d].state \in {"saved", "refused"}
             /\ row'[d].state = "gone" /\ row'[d].email = 0 /\ row'[d].cleanup = 0
             /\ row'[d].revision = row[d].revision
             /\ row' \in [Drafts -> RowType] /\ \A k \in Drafts \ {d} : row'[k] = row[k]
  <1>1. PICK d \in Drafts : call[c].draft = d
    BY DEF DraftInv, RemovalInv, Removing, DiscardDone
  <1>2. row[d] \in RowType
    BY DEF DraftInv, TypeOK
  <1> DEFINE new == [row[d] EXCEPT !.state = "gone", !.email = 0, !.cleanup = 0]
  <1>3. /\ row[d].email = call[c].email /\ row[d].cleanup = call[c].email
        /\ row[d].state \in {"saved", "refused"}
        /\ row' = [row EXCEPT ![d] = new]
    BY <1>1 DEF DiscardDone, Reserved, DraftInv, TypeOK
  <1>4. new \in RowType
    BY TypeRow DEF DraftInv
  <1>5. new.state = "gone" /\ new.email = 0 /\ new.cleanup = 0 /\ new.revision = row[d].revision
    BY <1>2 DEF RowType
  <1> HIDE DEF new
  <1> QED
    BY <1>3, <1>4, <1>5 DEF DraftInv, TypeOK

LEMMA DiscardDoneKeeps ==
    ASSUME DraftInv, NEW c \in Calls, DiscardDone(c)
    PROVE  Rest'
  <1>1. CASE row' = row
    BY <1>1, QuietKeeps DEF DiscardDone, Leave, history, DraftInv, TypeOK
  <1>2. CASE row' # row
    <2>1. PICK d \in Drafts :
            /\ row[d].email = call[c].email /\ row[d].cleanup = call[c].email
            /\ row[d].state \in {"saved", "refused"}
            /\ row'[d].state = "gone" /\ row'[d].email = 0 /\ row'[d].cleanup = 0
            /\ row'[d].revision = row[d].revision
            /\ row' \in [Drafts -> RowType] /\ \A k \in Drafts \ {d} : row'[k] = row[k]
      BY <1>2, DiscardDoneEffect
    <2>2. /\ UNCHANGED <<mail, asked, sent, dropping, removed>>
          /\ \A f \in Calls \ {c} : call'[f] = call[f]
          /\ call'[c] = Idle
      BY DEF DiscardDone, Leave, history, DraftInv, TypeOK
    <2>3. \A x \in mail : x.id # row[d].email /\ x.id # row[d].cleanup
      <3>1. \A x \in mail : x.id # call[c].email
        BY DEF DraftInv, RemovalInv, Removing, DiscardDone
      <3> QED
        BY <2>1, <3>1
    <2>4. \A k \in Drafts : /\ row'[k].email \in {0, row[k].email}
                            /\ row'[k].revision = row[k].revision
                            /\ row'[k].cleanup \in {0, row[k].cleanup}
      BY <2>1
    <2>5. RowInv' /\ AskedInv'
      BY <2>1, <2>2 DEF DraftInv, RowInv, Blocked, AskedInv
    <2>6. OnceInv'
      <3>1. ASSUME NEW q \in asked, Spent(q)
            PROVE  Spent(q)'
        <4>1. q.draft \in Drafts
          BY DEF DraftInv, TypeOK
        <4>2. CASE q.draft = d
          BY <2>1, <4>2 DEF Spent
        <4>3. CASE q.draft # d
          BY <2>1, <3>1, <4>1, <4>3 DEF Spent, Blocked
        <4> QED
          BY <4>2, <4>3
      <3> QED
        BY <2>2, <3>1 DEF DraftInv, OnceInv
    <2>7. NothingForgotten'
      <3> SUFFICES ASSUME NEW x \in mail
                   PROVE  \/ x.id \in {row'[x.draft].email, row'[x.draft].cleanup}
                          \/ row'[x.draft].op = x.op /\ row'[x.draft].state \in {"claimed", "uncertain"}
        BY <2>2 DEF NothingForgotten
      <3>1. x.draft \in Drafts
        BY DEF DraftInv, TypeOK
      <3>2. \/ x.id \in {row[x.draft].email, row[x.draft].cleanup}
            \/ row[x.draft].op = x.op /\ row[x.draft].state \in {"claimed", "uncertain"}
        BY DEF DraftInv, MailInv, NothingForgotten
      <3> QED
        BY <2>1, <2>3, <3>1, <3>2
    <2>8. MailInv'
      BY <2>2, <2>7 DEF DraftInv, MailInv
    <2>9. OwnCopies'
      <3> SUFFICES ASSUME NEW j \in Drafts, NEW k \in Drafts, j # k, row'[j].email # 0
                   PROVE  row'[j].email # row'[k].email /\ row'[j].email # row'[k].cleanup
        BY DEF OwnCopies
      <3>1. row'[j].email = row[j].email /\ row[j].email # row[k].email /\ row[j].email # row[k].cleanup
        BY <2>4 DEF DraftInv, OwnCopies
      <3> QED
        BY <2>4, <3>1
    <2>10. CopyIsKept'
      BY <2>2, <2>4 DEF DraftInv, CopyIsKept
    <2>11. \A f \in Calls : /\ Saving(f)' => Saving(f) /\ call'[f] = call[f]
                            /\ Removing(f)' => Removing(f) /\ call'[f] = call[f]
                            /\ call'[f].at = "complete" => call'[f] = call[f]
      BY <2>2 DEF Saving, Removing, Idle
    <2>12. ClaimInv'
      <3>1. ASSUME NEW f \in Calls, Saving(f)'
            PROVE  /\ Saving(f) /\ call'[f] = call[f] /\ row'[call[f].draft] = row[call[f].draft]
        <4>1. Saving(f) /\ call'[f] = call[f]
          BY <2>11, <3>1 DEF Saving
        <4>2. call[f].draft \in Drafts /\ row[call[f].draft].state = "claimed"
          BY <4>1 DEF DraftInv, ClaimInv
        <4> QED
          BY <2>1, <4>1, <4>2
      <3>2. ClaimInv /\ TypeOK
        BY DEF DraftInv
      <3> QED
        BY <2>2, <3>1, <3>2, ClaimStays
    <2>13. FreshInv' /\ RemovalInv'
      <3>1. \A f \in Calls : Removing(f)' => Removing(f) /\ call'[f] = call[f]
        BY <2>11 DEF Removing
      <3>2. \A f \in Calls : call'[f].at = "complete" => call'[f] = call[f]
        BY <2>11 DEF Removing
      <3>3. FreshInv /\ RemovalInv
        BY DEF DraftInv
      <3>4. FreshInv'
        BY <2>2, <2>4, <3>1, <3>2, <3>3, FreshStays
      <3> QED
        BY <2>2, <2>4, <3>1, <3>3, <3>4, RemovalStays
    <2> QED
      BY <2>5, <2>6, <2>8, <2>9, <2>10, <2>12, <2>13 DEF Rest
  <1> QED
    BY <1>1, <1>2

\* The user takes a message out of the folder.
LEMMA RemoveKeeps ==
    ASSUME DraftInv, NEW x \in mail, Remove(x)
    PROVE  Rest'
  <1>1. /\ UNCHANGED <<row, call, asked, sent, dropping>>
        /\ mail' = mail \ {x} /\ removed' = removed \cup {x.id}
    BY DEF Remove
  <1>2. RowInv' /\ AskedInv' /\ OnceInv' /\ MailInv' /\ OwnCopies'
    BY <1>1
       DEF DraftInv, RowInv, Blocked, AskedInv, OnceInv, Spent, MailInv, NothingForgotten, OwnCopies
  <1>3. CopyIsKept'
    BY <1>1 DEF DraftInv, CopyIsKept
  <1>4. ClaimInv'
    BY <1>1 DEF DraftInv, ClaimInv, Saving
  <1>5. RemovalInv'
    BY <1>1 DEF DraftInv, RemovalInv, Removing
  <1>6. FreshInv'
    <2> SUFFICES ASSUME NEW f \in Calls, call[f].at = "complete"
                 PROVE  FreshInv!(f)!2'
      BY <1>1 DEF FreshInv
    <2>1. FreshInv!(f)!2
      BY DEF DraftInv, FreshInv
    <2>2. call[f].email \in removed' \/ \E y \in mail' : y.id = call[f].email
      BY <1>1, <2>1
    <2> QED
      BY <1>1, <2>1, <2>2 DEF Removing
  <1> QED
    BY <1>2, <1>3, <1>4, <1>5, <1>6 DEF Rest

-----------------------------------------------------------------------------
LEMMA DraftInit == Init => DraftInv
  <1> SUFFICES ASSUME Init PROVE DraftInv
    OBVIOUS
  <1>1. TypeOK
    BY TypeInit
  <1>2. /\ \A d \in Drafts : row[d].state = "none" /\ row[d].revision = 0 /\ row[d].email = 0 /\ row[d].cleanup = 0
        /\ \A c \in Calls : ~Saving(c) /\ ~Removing(c) /\ call[c].at = "idle"
        /\ mail = {} /\ asked = {} /\ \A o \in Ops : sent[o] = 0
    BY DEF Init, NoRow, Idle, Saving, Removing
  <1> QED
    BY <1>1, <1>2 DEF DraftInv, RowInv, Blocked, AskedInv, ClaimInv, OnceInv, MailInv,
       NothingForgotten, FreshInv, OwnCopies, RemovalInv, CopyIsKept

LEMMA DraftStep == DraftInv /\ [Next]_vars => DraftInv'
  <1> SUFFICES ASSUME DraftInv, [Next]_vars PROVE DraftInv'
    OBVIOUS
  <1>1. TypeOK'
    BY TypeStep DEF DraftInv
  <1>2. ASSUME NEW c \in Calls, NEW d \in Drafts, Request(c, d)
        PROVE  Rest'
    BY <1>2, SaveKeeps, CleanupKeeps, DiscardKeeps DEF Request
  <1>3. ASSUME NEW c \in Calls, Step(c)
        PROVE  Rest'
    <2>1. CASE Prepare(c)
      BY <2>1, QuietKeeps DEF Prepare, Go, history, DraftInv, TypeOK
    <2>2. CASE Refuse(c) \/ MarkUncertain(c)
      BY <2>2, EndKeeps
    <2>3. CASE Append(c) \/ AppendUnconfirmed(c)
      BY <2>3, AppendKeeps
    <2>4. CASE Complete(c)
      BY <2>4, CompleteKeeps
    <2>5. CASE Expunge(c)
      BY <2>5, ExpungeKeeps
    <2>7. CASE Check(c)
      BY <2>7, QuietKeeps DEF Check, Go, Leave, history, DraftInv, TypeOK
    <2>6. CASE CleanupDone(c) \/ DiscardDone(c)
      BY <2>6, CleanupDoneKeeps, DiscardDoneKeeps
    <2> QED
      BY <1>3, <2>1, <2>2, <2>3, <2>4, <2>5, <2>6, <2>7 DEF Step
  <1>4. ASSUME NEW c \in Calls, Drop(c)
        PROVE  Rest'
    BY <1>4, QuietKeeps DEF Drop, Leave, history, DraftInv, TypeOK
  <1>5. ASSUME NEW x \in mail, Unmark(x) \/ Remove(x)
        PROVE  Rest'
    BY <1>5, QuietKeeps, RemoveKeeps DEF Unmark, history
  <1>6. ASSUME UNCHANGED vars
        PROVE  Rest'
    BY <1>6, QuietKeeps DEF vars, history
  <1>7. Rest'
    BY <1>2, <1>3, <1>4, <1>5, <1>6 DEF Next
  <1> QED
    BY <1>1, <1>7 DEF Rest, DraftInv

LEMMA DraftsInvariant == Spec => []DraftInv
  BY DraftInit, DraftStep, PTL DEF Spec

\* Every variable has its type, however many drafts, operations and requests.
THEOREM DraftsAreTyped == Spec => []TypeOK
  <1>1. DraftInv => TypeOK
    BY DEF DraftInv
  <1> QED
    BY <1>1, DraftsInvariant, PTL

\* However often the request of an operation is repeated, and wherever one of
\* its attempts stops, the message is sent once at most.
THEOREM OneAppend == Spec => []AppendedOnce
  <1>1. DraftInv => AppendedOnce
    BY DEF DraftInv, OnceInv, AppendedOnce
  <1> QED
    BY <1>1, DraftsInvariant, PTL

\* A message that a save left in the account is known to its draft.
THEOREM EveryCopyIsKnown == Spec => []NothingForgotten
  <1>1. DraftInv => NothingForgotten
    BY DEF DraftInv, MailInv
  <1> QED
    BY <1>1, DraftsInvariant, PTL

\* The copy of a draft's revision stays until somebody asks for it to go.
THEOREM CopyStays == Spec => []CopyIsKept
  <1>1. DraftInv => CopyIsKept
    BY DEF DraftInv
  <1> QED
    BY <1>1, DraftsInvariant, PTL

-----------------------------------------------------------------------------
(* What a step does to the revisions of the drafts and to their copies. *)

\* A message that is not yet the copy of its draft is later than that copy.
LaterInv ==
  \A c \in Calls : call[c].at = "complete" => row[call[c].draft].email < call[c].email

\* Steps that leave every revision, every copy and every tombstone alone.
Still ==
  \A d \in Drafts : /\ row'[d].revision = row[d].revision /\ row'[d].email = row[d].email
                    /\ row'[d].state = "gone" <=> row[d].state = "gone"

\* A draft becomes a tombstone.
Gone(d) ==
  /\ row[d].state \in {"saved", "refused"} /\ row'[d].state = "gone" /\ row'[d].email = 0
  /\ row'[d].revision = row[d].revision
  /\ \A k \in Drafts \ {d} : row'[k] = row[k]

LEMMA StepKinds ==
    ASSUME DraftInv, [Next]_vars
    PROVE  \/ Still
           \/ \E d \in Drafts : Gone(d)
           \/ \E c \in Calls : Complete(c)
  <1>0. row \in [Drafts -> RowType]
    BY DEF DraftInv, TypeOK
  <1>1. CASE row' = row
    BY <1>1 DEF Still
  <1>2. ASSUME NEW c \in Calls, NEW d \in Drafts, NEW o \in Ops, NEW b \in 0..issued, Save(c, d, o, b)
        PROVE  Still
    <2>1. row' = [row EXCEPT ![d] = [row[d] EXCEPT !.state = "claimed", !.op = o]]
      BY <1>0, <1>2 DEF Save
    <2>2. row[d].state # "gone" /\ row[d] \in RowType
      BY <1>0, <1>2 DEF Save, Claimable, Settled
    <2>3. /\ row'[d].state = "claimed" /\ row'[d].revision = row[d].revision /\ row'[d].email = row[d].email
          /\ \A k \in Drafts \ {d} : row'[k] = row[k]
      BY <1>0, <2>1, <2>2 DEF RowType
    <2> QED
      BY <2>2, <2>3 DEF Still
  <1>3. ASSUME NEW c \in Calls, NEW d \in Drafts, NEW b \in 0..issued, Discard(c, d, b)
        PROVE  Still \/ Gone(d)
    <2>1. row[d] \in RowType /\ row[d].state \in {"saved", "refused"}
      BY <1>0, <1>3 DEF Discard, Settled
    <2>2. CASE row[d].email = 0
      <3>1. row' = [row EXCEPT ![d] = [row[d] EXCEPT !.state = "gone"]]
        BY <1>0, <1>3, <2>2 DEF Discard
      <3>2. /\ row'[d].state = "gone" /\ row'[d].email = 0 /\ row'[d].revision = row[d].revision
            /\ \A k \in Drafts \ {d} : row'[k] = row[k]
        BY <1>0, <2>1, <2>2, <3>1 DEF RowType
      <3> QED
        BY <2>1, <3>2 DEF Gone
    <2>3. CASE row[d].email # 0
      <3>1. row' = [row EXCEPT ![d] = [row[d] EXCEPT !.cleanup = row[d].email]]
        BY <1>0, <1>3, <2>3 DEF Discard
      <3>2. /\ row'[d].state = row[d].state /\ row'[d].email = row[d].email
            /\ row'[d].revision = row[d].revision /\ \A k \in Drafts \ {d} : row'[k] = row[k]
        BY <1>0, <2>1, <3>1 DEF RowType
      <3> QED
        BY <3>2 DEF Still
    <2> QED
      BY <2>2, <2>3
  <1>4. ASSUME NEW c \in Calls, Refuse(c) \/ MarkUncertain(c), row' # row
        PROVE  Still
    <2>1. PICK d \in Drafts : call[c].draft = d /\ row[d].state = "claimed"
      BY <1>4 DEF DraftInv, ClaimInv, Saving, Refuse, MarkUncertain
    <2>2. PICK s \in {"refused", "uncertain"} : row' = [row EXCEPT ![d] = [row[d] EXCEPT !.state = s]]
      BY <1>4, <2>1 DEF Refuse, MarkUncertain, IfClaimed
    <2>3. /\ row'[d].state = s /\ row'[d].revision = row[d].revision /\ row'[d].email = row[d].email
          /\ \A k \in Drafts \ {d} : row'[k] = row[k]
      BY <1>0, <2>2 DEF RowType
    <2> QED
      BY <2>1, <2>3 DEF Still
  <1>5. ASSUME NEW c \in Calls, CleanupDone(c), row' # row
        PROVE  Still
    <2>1. PICK d \in Drafts : row' = [row EXCEPT ![d] = [row[d] EXCEPT !.cleanup = 0]]
      <3>1. call[c].draft \in Drafts
        BY <1>5 DEF DraftInv, RemovalInv, Removing, CleanupDone
      <3> QED
        BY <1>0, <1>5, <3>1 DEF CleanupDone
    <2>2. /\ row'[d].state = row[d].state /\ row'[d].revision = row[d].revision
          /\ row'[d].email = row[d].email /\ \A k \in Drafts \ {d} : row'[k] = row[k]
      BY <1>0, <2>1 DEF RowType
    <2> QED
      BY <2>2 DEF Still
  <1>6. ASSUME NEW c \in Calls, DiscardDone(c), row' # row
        PROVE  \E d \in Drafts : Gone(d)
    BY <1>6, DiscardDoneEffect DEF Gone
  <1> QED
    BY <1>1, <1>2, <1>3, <1>4, <1>5, <1>6
       DEF Next, Step, Request, Cleanup, Prepare, Append, AppendUnconfirmed, Check, Expunge,
           Drop, Unmark, Remove, vars

LEMMA LaterStep ==
    ASSUME DraftInv, LaterInv, [Next]_vars
    PROVE  LaterInv'
  <1> SUFFICES ASSUME NEW f \in Calls, call'[f].at = "complete"
               PROVE  row'[call'[f].draft].email < call'[f].email
    BY DEF LaterInv
  <1>1. ASSUME Append(f)
        PROVE  row'[call'[f].draft].email < call'[f].email
    <2>1. call[f].draft \in Drafts /\ call[f] \in CallType /\ posted \in Nat
      BY <1>1 DEF DraftInv, TypeOK, ClaimInv, Saving, Append
    <2>2. row[call[f].draft].email \in 0..posted
      BY <2>1 DEF DraftInv, TypeOK, RowType
    <2>3. call'[f] = [call[f] EXCEPT !.at = "complete", !.email = posted + 1] /\ row' = row
      BY <1>1 DEF Append, DraftInv, TypeOK
    <2>4. call'[f].draft = call[f].draft /\ call'[f].email = posted + 1
      BY <2>1, <2>3 DEF CallType
    <2> QED
      BY <2>1, <2>2, <2>3, <2>4
  <1>2. ASSUME ~Append(f)
        PROVE  call'[f] = call[f]
    <2>1. call[f] \in CallType /\ Idle.at = "idle" /\ call \in [Calls -> CallType]
      BY DEF DraftInv, TypeOK, Idle
    <2>2. ASSUME NEW c \in Calls, NEW d \in Drafts, Request(c, d)
          PROVE  call'[f] = call[f]
      BY <2>1, <2>2, ZenonT(40) DEF Request, Save, Cleanup, Discard, Enter, Idle
    <2>3. ASSUME NEW c \in Calls, Step(c) \/ Drop(c), c # f
          PROVE  call'[f] = call[f]
      BY <2>1, <2>3 DEF Step, Prepare, Refuse, Append, AppendUnconfirmed, MarkUncertain, Complete,
                        Check, Expunge, CleanupDone, DiscardDone, Drop, Go, Leave
    <2>4. ASSUME Step(f) \/ Drop(f)
          PROVE  FALSE
      <3>1. ASSUME NEW at \in {"append", "mark", "expunge", "done"}
            PROVE  [call[f] EXCEPT !.at = at].at = at
        BY <2>1 DEF CallType
      <3>2. ~Leave(f) /\ ~Go(f, "append") /\ ~Go(f, "mark") /\ ~Go(f, "expunge") /\ ~Go(f, "done")
        BY <2>1, <3>1 DEF Leave, Go
      <3>3. Complete(f) => call'[f] = [call[f] EXCEPT !.at = "check", !.email = row[call[f].draft].email]
        BY <2>1, <3>2 DEF Complete
      <3>4. ~Complete(f)
        BY <2>1, <3>3 DEF CallType
      <3> QED
        BY <1>2, <2>4, <3>2, <3>4 DEF Step, Prepare, Refuse, AppendUnconfirmed, MarkUncertain,
             Check, Expunge, CleanupDone, DiscardDone, Drop
    <2> QED
      BY <2>2, <2>3, <2>4 DEF Next, Unmark, Remove, vars
  <1>3. ASSUME ~Append(f)
        PROVE  row'[call'[f].draft].email < call'[f].email
    <2>1. call'[f] = call[f] /\ Saving(f) /\ row[call[f].draft].email < call[f].email
      BY <1>2, <1>3 DEF Saving, LaterInv
    <2>2. PICK d \in Drafts :
            /\ call[f].draft = d /\ row[d].state = "claimed"
            /\ \A c \in Calls \ {f} : Saving(c) => call[c].draft # d
      BY <2>1 DEF DraftInv, ClaimInv
    <2>3. CASE Still
      BY <2>1, <2>2, <2>3 DEF Still
    <2>4. ASSUME NEW k \in Drafts, Gone(k)
          PROVE  row'[d].email = row[d].email
      BY <2>2, <2>4 DEF Gone
    <2>5. ASSUME NEW c \in Calls, Complete(c)
          PROVE  row'[d].email = row[d].email
      <3>1. c # f
        <4>1. ~(c = f)
          <5> SUFFICES ASSUME c = f PROVE FALSE
            OBVIOUS
          <5>1. \E k \in Drafts : call'[f] = Idle \/ call'[f].at = "check"
            BY <2>5, CompleteEffect
          <5> QED
            BY <5>1 DEF Idle
        <4> QED
          BY <4>1
      <3>2. PICK k \in Drafts : call[c].at = "complete" /\ call[c].draft = k /\ \A j \in Drafts \ {k} : row'[j] = row[j]
        BY <2>5, CompleteEffect
      <3>3. k # d
        BY <2>2, <3>1, <3>2 DEF Saving
      <3> QED
        BY <3>2, <3>3
    <2> QED
      BY <2>1, <2>2, <2>3, <2>4, <2>5, StepKinds
  <1> QED
    BY <1>1, <1>3

LEMMA LaterInvariant == Spec => []LaterInv
  <1>1. Init => LaterInv
    BY DEF Init, LaterInv, Idle
  <1>2. DraftInv /\ LaterInv /\ [Next]_vars => LaterInv'
    BY LaterStep
  <1> QED
    BY <1>1, <1>2, DraftsInvariant, PTL DEF Spec

\* A new revision was asked for by the operation that made it, on top of the
\* revision that it replaces.
THEOREM NoSaveIsLost == Spec => NothingOverwritten
  <1>1. ASSUME DraftInv, [Next]_vars, NEW d \in Drafts, row'[d].revision # row[d].revision
        PROVE  \E q \in asked : q.op = row'[d].op /\ q.draft = d /\ q.revision = row[d].revision
    <2>1. PICK c \in Calls : Complete(c)
      BY <1>1, StepKinds DEF Still, Gone
    <2>2. PICK k \in Drafts :
            /\ [op |-> row[k].op, draft |-> k, revision |-> row[k].revision] \in asked
            /\ row'[k].op = row[k].op /\ \A j \in Drafts \ {k} : row'[j] = row[j]
      BY <1>1, <2>1, CompleteEffect
    <2>3. k = d
      BY <1>1, <2>2
    <2> QED
      BY <2>2, <2>3
  <1>2. DraftInv /\ [Next]_vars =>
          [\A d \in Drafts : row'[d].revision # row[d].revision =>
             \E q \in asked : /\ q.op = row'[d].op /\ q.draft = d
                              /\ q.revision = row[d].revision]_vars
    BY <1>1
  <1> QED
    BY <1>2, DraftsInvariant, PTL DEF Spec, NothingOverwritten

-----------------------------------------------------------------------------
(* The promise. *)

LEMMA PromiseInit == Init => Promise!Init
  BY DEF Init, NoRow, Promise!Init

LEMMA PromiseStep ==
    ASSUME DraftInv, LaterInv, [Next]_vars
    PROVE  [Promise!Next]_(Promise!vars)
  <1> DEFINE revision == [d \in Drafts |-> row[d].revision]
             copy == [d \in Drafts |-> row[d].email]
             gone == {d \in Drafts : row[d].state = "gone"}
  <1>1. CASE Still
    BY <1>1 DEF Still, Promise!vars
  <1>2. ASSUME NEW d \in Drafts, Gone(d)
        PROVE  Promise!Discard(d)
    <2>1. {k \in Drafts : row'[k].state = "gone"} = gone \cup {d}
      BY <1>2 DEF Gone
    <2>2. [k \in Drafts |-> row'[k].email] = [copy EXCEPT ![d] = 0]
      BY <1>2 DEF Gone
    <2>3. [k \in Drafts |-> row'[k].revision] = revision
      BY <1>2 DEF Gone
    <2> QED
      BY <2>1, <2>2, <2>3 DEF Promise!Discard
  <1>3. ASSUME NEW c \in Calls, Complete(c)
        PROVE  \E d \in Drafts : Promise!Save(d)
    <2>1. PICK d \in Drafts :
            /\ call[c].at = "complete" /\ call[c].draft = d /\ row[d].state = "claimed"
            /\ row[d].revision \in 0..issued /\ issued \in Nat
            /\ \A k \in Drafts \ {d} : row'[k] = row[k]
            /\ row'[d].state = "saved" /\ row'[d].revision = issued + 1 /\ row'[d].email = call[c].email
      BY <1>3, CompleteEffect
    <2>2. row[d].email < call[c].email /\ \A k \in Drafts : call[c].email # row[k].email
      BY <2>1 DEF LaterInv, DraftInv, FreshInv
    <2>3. {k \in Drafts : row'[k].state = "gone"} = gone
      BY <2>1
    <2>4. [k \in Drafts |-> row'[k].email] = [copy EXCEPT ![d] = call[c].email]
      BY <2>1
    <2>5. [k \in Drafts |-> row'[k].revision] = [revision EXCEPT ![d] = issued + 1]
      BY <2>1
    <2>6. /\ d \notin gone /\ revision[d] < issued + 1 /\ copy[d] < call[c].email
          /\ \A k \in Drafts \ {d} : call[c].email # copy[k]
      BY <2>1, <2>2
    <2>7. [k \in Drafts |-> row'[k].email][d] = call[c].email /\ [k \in Drafts |-> row'[k].revision][d] = issued + 1
      BY <2>1
    <2> HIDE DEF revision, copy, gone
    <2>8. Promise!Save(d)
      BY <2>3, <2>4, <2>5, <2>6, <2>7 DEF Promise!Save, revision, copy, gone
    <2> QED
      BY <2>8
  <1> QED
    BY <1>1, <1>2, <1>3, StepKinds DEF Promise!Next

\* The drafts keep what DraftPromise promises the devices.
THEOREM DraftsKeepPromise == Spec => KeepsPromise
  <1>1. DraftInv /\ LaterInv /\ [Next]_vars => [Promise!Next]_(Promise!vars)
    BY PromiseStep
  <1> QED
    BY <1>1, PromiseInit, DraftsInvariant, LaterInvariant, PTL DEF Spec, KeepsPromise, Promise!Spec
=============================================================================
