------------------------- MODULE LibraryProperties -------------------------
(***************************************************************************)
(* What the library must never do, whatever the requests interleave with.  *)
(***************************************************************************)
EXTENDS Library

Points ==
  {"idle", "createSave", "createInsert", "undo", "restoreFind", "restoreRead", "lock",
   "publishGet", "publishMutate", "publishSave", "publishCover", "publishCommit",
   "publishReply", "pruneSelect", "pruneRow", "pruneObject", "pruneCheck", "pruneCover",
   "updateGet", "updateRename", "updateCommit", "updateBack", "deleteGet", "deleteList",
   "deleteCommit", "deleteSweep", "archive", "openGet", "openRead"}

RequestType ==
  [op : AllOperations \cup {"none"}, pc : Points, base : Nat, book : BookRow,
   source : Entry, entry : Entry, items : SUBSET Entry]

\* Rows, files and local variables have the types the code gives them.
TypeOK ==
  /\ book \in BookRow
  /\ revisions \subseteq Entry
  /\ objects \subseteq Object
  /\ previews \subseteq Nat
  /\ mutex \in Requests \cup {NoRequest}
  /\ req \in [Requests -> RequestType]
  /\ drawn \in Nat
  /\ accepted \in Nat /\ faults \in Nat /\ lapses \in Nat /\ crashes \in Nat

Exists == book.state \in {"live", "archived"}

(***************************************************************************)
(* The rows alone.                                                         *)
(***************************************************************************)

\* The book's row and its revision rows agree, whatever runs at the same time
\* and wherever the process dies: the current revision is listed, with the
\* checksum and the cover the book shows, it is the newest one, no revision is
\* listed twice, exactly one is the original, and a deleted book has none.
Ledger ==
  /\ ~Exists => revisions = {}
  /\ Exists =>
       /\ \E e \in revisions : /\ e.revision = book.revision
                               /\ e.text = book.text /\ e.cover = book.cover
       /\ \A e \in revisions : e.revision <= book.revision
       /\ \A d, e \in revisions : d.revision = e.revision => d = e
       /\ \E e \in revisions : e.original
       /\ \A d, e \in revisions : d.original /\ e.original => d = e

\* A publication replaces exactly the revision its client edited: from the
\* moment it accepts the base until it commits, nobody else moves the book, so
\* two editors of one revision never both succeed.
PublishesOnItsBase ==
  \A r \in Requests :
    req[r].pc \in {"publishSave", "publishCover", "publishCommit"} =>
      /\ mutex = r
      /\ Exists => book.revision = req[r].base
      /\ req[r].entry.revision > req[r].base

\* How many newer edited revisions a revision that is pruned is owed: as many as
\* the setting says, but a prune that cannot read the setting goes by the
\* default, and keeps no more than that.
Floor == IF Retention < DefaultRetention THEN Retention ELSE DefaultRetention

Owed == IF faults = 0 THEN Retention ELSE Floor

\* A row of book_revisions disappears alone only when it is no original, is not
\* the current one, and newer edited ones stay: Retention of them while no call
\* has failed, and after a failed read of the setting never fewer than the lesser
\* of Retention and the default; the current revision of a book only grows.
OnlyOldRowsArePruned ==
  [][Exists /\ Exists' =>
       /\ book'.revision >= book.revision
       /\ \A e \in revisions :
            \/ \E d \in revisions' : d.revision = e.revision /\ d.original = e.original
            \/ /\ ~e.original /\ e.revision < book'.revision
               /\ Cardinality({d \in revisions' : ~d.original /\ d.revision > e.revision})
                    >= Owed']_vars

\* Pruning keeps up: when no publication is under way, a live book has at most
\* Retention edited revisions, and one more for each call that failed and each
\* crash.
HistoryIsBounded ==
  Live /\ mutex = NoRequest =>
    Cardinality({e \in revisions : ~e.original}) <= Retention + faults + crashes

\* Two revisions show the same cover picture exactly when their EPUBs hold the
\* same one: a restoration brings the preview back with the text.
PreviewsFollowTexts ==
  \A d, e \in revisions : (d.cover = e.cover) <=> (d.text.art = e.text.art)

(***************************************************************************)
(* Why the rows agree: the inductive invariant behind Ledger and           *)
(* PublishesOnItsBase.  Proper is what it says of one request.             *)
(***************************************************************************)
Checked == {"publishSave", "publishCover", "publishCommit"}

Committed == {"publishReply", "pruneSelect", "pruneRow", "pruneObject", "pruneCheck",
              "pruneCover"}

LockPoints == {"publishGet", "publishMutate"} \cup Checked \cup Committed

\* publish holds publishMu from its first read to its last deletion.
LockHeld(r) == req[r].pc \in LockPoints => mutex = r

\* The row publish has read stays current until it commits, and what it
\* committed stays current until it unlocks.
ReadIsCurrent(r) ==
  /\ req[r].pc \in {"publishMutate"} \cup Checked =>
       (Exists => book.revision = req[r].book.revision)
  /\ req[r].pc \in Checked =>
       /\ req[r].base = req[r].book.revision
       /\ req[r].entry.revision > req[r].base
       /\ ~req[r].entry.original
  /\ req[r].pc \in Committed => (Exists => book.revision = req[r].entry.revision)

\* The upload finds no row, and what follows on a row never runs before it.
UploadIsFirst(r) ==
  /\ req[r].pc \in {"createSave", "createInsert"} => req[r].op = "create"
  /\ req[r].pc = "createInsert" => req[r].entry.original /\ req[r].entry.cover = 0
  /\ req[r].op = "create" => book.state = "none"
  /\ req[r].pc \in {"publishMutate"} \cup Checked \cup Committed
                      \cup {"deleteList", "deleteCommit"} => book.state # "none"

Proper(r) == LockHeld(r) /\ ReadIsCurrent(r) /\ UploadIsFirst(r)

OneUpload == \A p, q \in Requests : req[p].op = "create" /\ req[q].op = "create" => p = q

RowsAgree == TypeOK /\ Ledger /\ OneUpload /\ \A r \in Requests : Proper(r)

(***************************************************************************)
(* Rows and files.                                                         *)
(***************************************************************************)
Holds(key, text) == [key |-> key, text |-> text] \in objects

\* The bytes of the current revision are there and have its checksum.
CurrentIsReadable == Live => Holds(book.key, book.text)

\* So are those of every revision that can be restored.
HistoryIsReadable == Live => \A e \in revisions : Holds(e.key, e.text)

\* The cover preview of the book and of every listed revision is there.
PreviewsAreKept ==
  Live => \A e \in revisions : e.cover # 0 => e.cover \in previews

\* When nothing is running, every file belongs to a row: failed uploads and
\* publications, pruning and deletion leave nothing behind, unless a call that
\* cleans up failed itself.
Quiet == \A r \in Requests : req[r].op = "none"

NoOrphans ==
  Quiet /\ lapses = 0 =>
    /\ \A o \in objects : \E e \in revisions : e.key = o.key
    /\ \A c \in previews : \E e \in revisions : e.cover = c

\* Renaming, publishing and deleting one at a time never leave a live book, or a
\* revision that can be restored, without its bytes, although calls fail on the
\* way: UpdateDetails renames the file back.
RestIsReadable ==
  Quiet /\ lapses = 0 => CurrentIsReadable /\ HistoryIsReadable

\* A download that started on a revision is given the bytes with that revision's
\* checksum, or fails because the book has since moved on or been withdrawn.
DownloadIsWhole ==
  [][\A r \in Requests :
       At(r, "openRead") /\ OpenRead(r) /\ ~Holds(req[r].book.key, req[r].book.text)
         => /\ ~Stored(objects, req[r].book.key)
            /\ ~Live \/ book.revision > req[r].book.revision]_vars

(***************************************************************************)
(* What the documents say and the code does not keep.                      *)
(***************************************************************************)

\* docs/superpowers/specs/2026-07-06-epub-editing-revisions-design.md:46: "The
\* `books` row continues to reference the current storage key, checksum, size,
\* cover key, and `content_revision`."  Not so after UpdateDetails ran next to
\* another UpdateDetails or to a publication.
BookRowIsCurrent == Quiet /\ Live => Holds(book.key, book.text)

\* server/internal/books/revision_service_test.go:232: "shared current cover was
\* pruned".  It is when RestoreRevision reads a revision that is pruned before
\* the restoration gets publishMu.
CurrentCoverIsKept == Quiet /\ Live /\ book.cover # 0 => book.cover \in previews

(***************************************************************************)
(* Every request is answered, and publishMu never stays locked.            *)
(***************************************************************************)
RequestsEnd == \A r \in Requests : req[r].op # "none" ~> req[r].op = "none"

(***************************************************************************)
(* Seen by readers and editors the library is the versioned text of        *)
(* LibraryAbs.  The text is the bytes found under the book's key, not the  *)
(* checksum of its row, and a restoration that has read its revision can   *)
(* still publish it after the revision was pruned.  It keeps Floor edited  *)
(* revisions, since a prune may have to go by the default.                 *)
(***************************************************************************)
Served == UNION {o.text.edits : o \in {x \in objects : x.key = book.key}}

HeldRevisions ==
  revisions \cup {req[r].source : r \in {q \in Requests : /\ req[q].op = "restore"
                                                          /\ req[q].pc # "restoreFind"}}

Past == {[revision |-> e.revision, edits |-> e.text.edits] : e \in HeldRevisions}

Upload == CHOOSE e \in revisions : e.original

Abs == INSTANCE LibraryAbs WITH
  Kept <- Floor,
  shelf <- CASE book.state = "none" -> "empty"
             [] Live -> "live"
             [] OTHER -> "withdrawn",
  first <- IF Live THEN Upload.revision ELSE 0,
  head <- IF Live THEN book.revision ELSE 0,
  edits <- IF Live THEN Served ELSE {},
  past <- IF Live THEN Past ELSE {}

\* The rows and files implement the versioned text.
VersionedText == Abs!Spec
=============================================================================
