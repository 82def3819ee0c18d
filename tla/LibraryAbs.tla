----------------------------- MODULE LibraryAbs -----------------------------
(***************************************************************************)
(* What books.Service promises the readers and the editors of one book: a  *)
(* versioned text.  A reader is given the text of the current revision.    *)
(* An edit is accepted only on top of the current revision: it keeps every *)
(* edit made before and adds its own.  A restoration brings back a text    *)
(* the book had, under a new revision.  Revisions only grow; the upload,   *)
(* the current revision and the Kept newest edited ones can be restored    *)
(* until the book is withdrawn.                                            *)
(***************************************************************************)
EXTENDS Naturals, FiniteSets

CONSTANT Kept           \* how many edited revisions are always kept

VARIABLES
  shelf,      \* "empty", "live" or "withdrawn"
  first,      \* the revision of the upload
  head,       \* the current revision
  edits,      \* the edits in the text a reader is given
  past        \* the revisions that may be restored: [revision, edits]

vars == <<shelf, first, head, edits, past>>

Init == shelf = "empty" /\ first = 0 /\ head = 0 /\ edits = {} /\ past = {}

Upload ==
  /\ shelf = "empty" /\ shelf' = "live"
  /\ head' \in Nat \ {0}
  /\ first' = head'
  /\ edits' = {}
  /\ past' = {[revision |-> head', edits |-> {}]}

Advance ==
  /\ shelf = "live" /\ shelf' = "live"
  /\ head' \in Nat /\ head' > head
  /\ past' = past \cup {[revision |-> head', edits |-> edits']}
  /\ UNCHANGED first

Edit == Advance /\ edits' = edits \cup {head'}

Restore == Advance /\ \E p \in past : edits' = p.edits

NewerEdited(p) == {q \in past : q.revision > p.revision /\ q.revision # first}

Forget ==
  /\ shelf = "live"
  /\ past' \subseteq past
  /\ \A p \in past \ past' : p.revision # first /\ Cardinality(NewerEdited(p)) >= Kept
  /\ UNCHANGED <<shelf, first, head, edits>>

Withdraw ==
  /\ shelf = "live" /\ shelf' = "withdrawn"
  /\ first' = 0 /\ head' = 0 /\ edits' = {} /\ past' = {}

Next == Upload \/ Edit \/ Restore \/ Forget \/ Withdraw

Spec == Init /\ [][Next]_vars
=============================================================================
