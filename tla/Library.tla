------------------------------ MODULE Library ------------------------------
(***************************************************************************)
(* books.Service: the life of one book in the database and in the object   *)
(* store, under concurrent requests, failing calls and crashes.            *)
(*                                                                         *)
(* Rows of SQLite are the variables book (the row of table books) and      *)
(* revisions (its rows of table book_revisions).  Files are objects (the   *)
(* EPUBs) and previews (the cover pictures).  A request runs in a slot of  *)
(* Requests, one step per database statement, transaction or file call:    *)
(* between two steps of a request any other request may run.  A            *)
(* transaction is one step, because the server has a single connection     *)
(* and keeps it from BEGIN to COMMIT.                                      *)
(*                                                                         *)
(* Book identifiers are random and no statement reads two books, so the    *)
(* module follows one book from its upload to its deletion.                *)
(*                                                                         *)
(* An operator whose name ends in Bug is not part of the model: it is the  *)
(* definition after it with a plausible mistake, kept to make sure that a  *)
(* property notices the mistake.                                           *)
(***************************************************************************)
EXTENDS Storage, FiniteSets

CONSTANTS
  Requests,       \* slots in which the server handles requests
  NoRequest,      \* nobody holds publishMu
  Operations,     \* the operations clients call
  Times,          \* the instants the wall clock may show, in any order
  Retention,      \* revision_retention: edited revisions kept per book
  DefaultRetention,  \* what is kept when the setting cannot be read: 5 in the code
  MaxAccepted,    \* bound: requests accepted over a behaviour
  MaxFaults,      \* bound: calls of the database and the object store that fail
  MaxLapses,      \* bound: calls that fail while cleaning up
  MaxCrashes      \* bound: crashes of the process

Edits == {"edit", "cover", "restore"}       \* the operations that publish

AllOperations == Edits \cup {"create", "update", "delete", "archive", "open"}

ASSUME NoRequestAssumption == NoRequest \notin Requests
ASSUME OperationsAssumption == Operations \subseteq AllOperations
ASSUME TimesAssumption == Times \subseteq Nat \ {0} /\ Times # {}
ASSUME RetentionAssumption == Retention \in 1..100 /\ DefaultRetention \in 1..100
ASSUME BoundsAssumption ==
  {MaxAccepted, MaxFaults, MaxLapses, MaxCrashes} \subseteq Nat

VARIABLES
  book,           \* the row of table books
  revisions,      \* the rows of table book_revisions
  objects,        \* EPUB files
  previews,       \* cover files
  mutex,          \* who holds publishMu
  req,            \* what every request is doing, and its local variables
  drawn,          \* random object identifiers drawn so far
  accepted,       \* requests accepted so far
  faults,         \* failed calls so far
  lapses,         \* failed clean-up calls so far
  crashes         \* crashes so far

db == <<book, revisions>>
files == <<objects, previews>>
budgets == <<accepted, faults, lapses, crashes>>
vars == <<book, revisions, objects, previews, mutex, req, drawn, accepted, faults, lapses,
          crashes>>

(***************************************************************************)
(* Rows and the local variables of requests.  A cover key is the number    *)
(* of its random identifier, 0 for the empty string.  The revision of a    *)
(* book is the instant it was published at.                                *)
(***************************************************************************)
BookRow ==
  [state : {"none", "live", "archived", "gone"},
   revision : Nat, key : Key, cover : Nat, text : Text]

Entry ==
  [revision : Nat, key : Key, cover : Nat, text : Text, original : BOOLEAN]

Blank == [edits |-> {}, art |-> 0]

NoBook == [state |-> "none", revision |-> 0, key |-> NoKey, cover |-> 0, text |-> Blank]

NoEntry ==
  [revision |-> 0, key |-> NoKey, cover |-> 0, text |-> Blank, original |-> FALSE]

Idle ==
  [op |-> "none", pc |-> "idle",
   base |-> 0,            \* the base revision the client sent
   book |-> NoBook,       \* the row of the book as this request read it
   source |-> NoEntry,    \* restore: the revision restored, and its bytes
   entry |-> NoEntry,     \* the row being inserted, or the new storage key
   items |-> {}]          \* rows whose objects are still to be deleted

(***************************************************************************)
(* Helpers: how a request goes on, ends or fails.  Return also unlocks     *)
(* publishMu, which publish releases with defer.                           *)
(***************************************************************************)
At(r, pc) == req[r].pc = pc

Become(r, next) == req' = [req EXCEPT ![r] = next]

Goto(r, pc) == Become(r, [req[r] EXCEPT !.pc = pc])

ReturnBug(r) == Become(r, Idle) /\ UNCHANGED mutex

Return(r) ==
  /\ Become(r, Idle)
  /\ mutex' = IF mutex = r THEN NoRequest ELSE mutex

\* A call fails: the context is cancelled, the disk is full, SQLite gives up.
Fault ==
  /\ faults < MaxFaults
  /\ faults' = faults + 1
  /\ UNCHANGED <<accepted, lapses, crashes>>

\* A call that deletes an object, or renames it back, fails.
Lapse ==
  /\ lapses < MaxLapses
  /\ lapses' = lapses + 1
  /\ UNCHANGED <<accepted, faults, crashes>>

NoFault == UNCHANGED budgets

Live == book.state = "live"

Listed(revision) == \E e \in revisions : e.revision = revision

NextRevisionBug(current, now) == now

\* Strictly later than the current revision, whatever the clock shows.
NextRevision(current, now) == IF now > current THEN now ELSE current + 1

Init ==
  /\ book = NoBook
  /\ revisions = {}
  /\ objects = {}
  /\ previews = {}
  /\ mutex = NoRequest
  /\ req = [r \in Requests |-> Idle]
  /\ drawn = 0
  /\ accepted = 0
  /\ faults = 0
  /\ lapses = 0
  /\ crashes = 0

(***************************************************************************)
(* A client calls.                                                         *)
(***************************************************************************)
Accept(r, op) ==
  /\ At(r, "idle")
  /\ op \in Operations
  /\ accepted < MaxAccepted
  /\ accepted' = accepted + 1
  /\ UNCHANGED <<db, files, mutex, drawn, faults, lapses, crashes>>

\* One book is followed: it is uploaded once.
AcceptCreate(r) ==
  /\ Accept(r, "create")
  /\ book.state = "none"
  /\ \A q \in Requests : req[q].op # "create"
  /\ Become(r, [Idle EXCEPT !.op = "create", !.pc = "createSave"])

\* The client edits any revision it has seen, not only the latest.
AcceptEdit(r, op) ==
  /\ Accept(r, op)
  /\ op \in {"edit", "cover"}
  /\ \E e \in revisions :
       Become(r, [Idle EXCEPT !.op = op, !.pc = "lock", !.base = e.revision])

AcceptRestore(r) ==
  /\ Accept(r, "restore")
  /\ \E base, target \in revisions :
       Become(r, [Idle EXCEPT !.op = "restore", !.pc = "restoreFind", !.base = base.revision,
                              !.source = [NoEntry EXCEPT !.revision = target.revision]])

AcceptUpdate(r) ==
  /\ Accept(r, "update")
  /\ book.state # "none"
  /\ \E name \in Filenames :
       Become(r, [Idle EXCEPT !.op = "update", !.pc = "updateGet",
                              !.entry = [NoEntry EXCEPT !.key = [NoKey EXCEPT !.name = name]]])

AcceptOther(r, op, pc) ==
  /\ Accept(r, op)
  /\ book.state # "none"
  /\ Become(r, [Idle EXCEPT !.op = op, !.pc = pc])

(***************************************************************************)
(* Create: save the uploaded bytes, then insert the book and its original  *)
(* revision in one transaction; delete the object if that fails.           *)
(***************************************************************************)
CreateSave(r) ==
  /\ At(r, "createSave")
  /\ \/ /\ \E now \in Times, name \in Filenames :
             LET key == [dir |-> drawn + 1, name |-> name]
             IN  /\ objects' = Save(objects, key, Blank)
                 /\ Become(r, [req[r] EXCEPT
                                 !.pc = "createInsert",
                                 !.entry = [revision |-> now, key |-> key, cover |-> 0,
                                            text |-> Blank, original |-> TRUE]])
        /\ drawn' = drawn + 1
        /\ NoFault /\ UNCHANGED mutex
     \/ /\ Fault /\ Return(r)
        /\ UNCHANGED <<objects, drawn>>
  /\ UNCHANGED <<db, previews>>

CreateInsert(r) ==
  /\ At(r, "createInsert")
  /\ \/ /\ book' = [state |-> "live", revision |-> req[r].entry.revision,
                    key |-> req[r].entry.key, cover |-> 0, text |-> req[r].entry.text]
        /\ revisions' = revisions \cup {req[r].entry}
        /\ NoFault /\ Return(r)
     \/ /\ Fault /\ Goto(r, "undo") /\ UNCHANGED mutex
        /\ UNCHANGED db
  /\ UNCHANGED <<files, drawn>>

(***************************************************************************)
(* RestoreRevision reads the revision and its bytes before it asks for     *)
(* publishMu.                                                              *)
(***************************************************************************)
RestoreFind(r) ==
  /\ At(r, "restoreFind")
  /\ \/ /\ \E e \in revisions :
             /\ e.revision = req[r].source.revision
             /\ Become(r, [req[r] EXCEPT !.source = e, !.pc = "restoreRead"])
        /\ NoFault /\ UNCHANGED mutex
     \/ /\ ~Listed(req[r].source.revision)
        /\ NoFault /\ Return(r)
     \/ Fault /\ Return(r)
  /\ UNCHANGED <<db, files, drawn>>

RestoreRead(r) ==
  /\ At(r, "restoreRead")
  /\ \/ /\ \E o \in objects :
             /\ o.key = req[r].source.key
             /\ Become(r, [req[r] EXCEPT !.source.text = o.text, !.pc = "lock"])
        /\ NoFault /\ UNCHANGED mutex
     \/ /\ ~Stored(objects, req[r].source.key)
        /\ NoFault /\ Return(r)
     \/ Fault /\ Return(r)
  /\ UNCHANGED <<db, files, drawn>>

(***************************************************************************)
(* publish.  Under publishMu: read the book and its bytes, refuse a stale  *)
(* base revision, edit the bytes, save the result under new keys, advance  *)
(* the book in one transaction, then prune old revisions.                  *)
(***************************************************************************)
UnlockedBug == TRUE

Unlocked == mutex = NoRequest

PublishLock(r) ==
  /\ At(r, "lock")
  /\ Unlocked
  /\ mutex' = r
  /\ Goto(r, "publishGet")
  /\ NoFault
  /\ UNCHANGED <<db, files, drawn>>

PublishGet(r) ==
  /\ At(r, "publishGet")
  /\ \/ /\ Live
        /\ Become(r, [req[r] EXCEPT !.book = book, !.pc = "publishMutate"])
        /\ NoFault /\ UNCHANGED mutex
     \/ ~Live /\ NoFault /\ Return(r)
     \/ Fault /\ Return(r)
  /\ UNCHANGED <<db, files, drawn>>

\* The text a publication starts from: the current bytes, or those restored.
BaseText(r, current) == IF req[r].op = "restore" THEN req[r].source.text ELSE current

\* What publication makes of it.
EditedText(r, text, revision) ==
  CASE req[r].op = "edit" -> [text EXCEPT !.edits = @ \cup {revision}]
    [] req[r].op = "cover" -> [edits |-> text.edits \cup {revision}, art |-> revision]
    [] OTHER -> text

EditedCoverBug(r) == IF req[r].op = "cover" THEN drawn + 2 ELSE req[r].book.cover

\* The preview that goes with it: a new one, the restored one, or the book's.
EditedCover(r) ==
  CASE req[r].op = "cover" -> drawn + 2
    [] req[r].op = "restore" -> req[r].source.cover
    [] OTHER -> req[r].book.cover

RevisionStorageKeyBug(r) == req[r].book.key

\* A key nothing else uses: its directory is named after a random identifier.
RevisionStorageKey(r) == [dir |-> drawn + 1, name |-> req[r].book.key.name]

PublishMutate(r) ==
  /\ At(r, "publishMutate")
  /\ \/ /\ req[r].base = req[r].book.revision
        /\ \E o \in objects, now \in Times :
             /\ o.key = req[r].book.key
             /\ LET revision == NextRevision(req[r].book.revision, now)
                    entry == [revision |-> revision,
                              key |-> RevisionStorageKey(r),
                              cover |-> EditedCover(r),
                              text |-> EditedText(r, BaseText(r, o.text), revision),
                              original |-> FALSE]
                IN  Become(r, [req[r] EXCEPT !.entry = entry, !.pc = "publishSave"])
        /\ drawn' = drawn + 2
        /\ NoFault /\ UNCHANGED mutex
     \/ \* the object is missing, the base is stale, or the content is not valid
        NoFault /\ Return(r) /\ UNCHANGED drawn
     \/ Fault /\ Return(r) /\ UNCHANGED drawn
  /\ UNCHANGED <<db, files>>

PublishSave(r) ==
  /\ At(r, "publishSave")
  /\ \/ /\ objects' = Save(objects, req[r].entry.key, req[r].entry.text)
        /\ Goto(r, IF req[r].op = "cover" THEN "publishCover" ELSE "publishCommit")
        /\ NoFault /\ UNCHANGED mutex
     \/ Fault /\ Return(r) /\ UNCHANGED objects
  /\ UNCHANGED <<db, previews, drawn>>

PublishCover(r) ==
  /\ At(r, "publishCover")
  /\ \/ /\ previews' = previews \cup {req[r].entry.cover}
        /\ Goto(r, "publishCommit")
        /\ NoFault
     \/ Fault /\ Goto(r, "undo") /\ UNCHANGED previews
  /\ UNCHANGED <<db, objects, mutex, drawn>>

MayCommitBug(r) == ~Listed(req[r].entry.revision)

\* The INSERT fails on a revision already listed, the UPDATE matches no row
\* when the book moved on, was archived or deleted.
MayCommit(r) ==
  /\ Live
  /\ book.revision = req[r].book.revision
  /\ ~Listed(req[r].entry.revision)

PublishCommit(r) ==
  /\ At(r, "publishCommit")
  /\ \/ /\ MayCommit(r)
        /\ revisions' = revisions \cup {req[r].entry}
        /\ book' = [book EXCEPT !.revision = req[r].entry.revision, !.key = req[r].entry.key,
                                !.cover = req[r].entry.cover, !.text = req[r].entry.text]
        /\ Goto(r, "publishReply")
        /\ NoFault
     \/ /\ ~MayCommit(r)
        /\ Goto(r, "undo")
        /\ NoFault
        /\ UNCHANGED db
     \/ Fault /\ Goto(r, "undo") /\ UNCHANGED db
  /\ UNCHANGED mutex
  /\ UNCHANGED <<files, drawn>>

SavedPreviewsBug(r) == {}

\* The cover objects among the keys to clean up: never the one of another revision.
SavedPreviews(r) == IF req[r].op = "cover" THEN {req[r].entry.cover} ELSE {}

\* Create and publish delete the objects they saved when they fail; a deletion
\* that fails is ignored.
Undo(r) ==
  /\ At(r, "undo")
  /\ \/ /\ objects' = Delete(objects, req[r].entry.key)
        /\ previews' = previews \ SavedPreviews(r)
        /\ NoFault
     \/ Lapse /\ UNCHANGED files
  /\ Return(r)
  /\ UNCHANGED <<db, drawn>>

\* The reply reads the book and its new revision back; without them, or on an
\* error, nothing is pruned.
PublishReply(r) ==
  /\ At(r, "publishReply")
  /\ \/ Live /\ Listed(req[r].entry.revision) /\ Goto(r, "pruneSelect") /\ NoFault /\ UNCHANGED mutex
     \/ ~(Live /\ Listed(req[r].entry.revision)) /\ NoFault /\ Return(r)
     \/ Fault /\ Return(r)
  /\ UNCHANGED <<db, files, drawn>>

(***************************************************************************)
(* pruneRevisions: every edited revision older than the newest ones, as    *)
(* many as the setting says, loses its row, then its object, then its      *)
(* preview unless a row still names it.  Failures are ignored: when the    *)
(* setting cannot be read the prune goes on with the default, and when the *)
(* rows cannot be listed, or some of them not scanned, it goes on with     *)
(* those it has.                                                           *)
(***************************************************************************)
Newer(rows, e) == {d \in rows : d.revision > e.revision}

PrunableLateBug(limit) ==
  LET edited == {e \in revisions : ~e.original}
  IN  {e \in edited : Cardinality(Newer(edited, e)) > limit}

PrunableEarlyBug(limit) ==
  LET edited == {e \in revisions : ~e.original}
  IN  {e \in edited : Cardinality(Newer(edited, e)) + 1 >= limit}

Prunable(limit) ==
  LET edited == {e \in revisions : ~e.original}
  IN  {e \in edited : Cardinality(Newer(edited, e)) >= limit}

\* One Fault stands for the failure of either read, or of both.
PruneSelect(r) ==
  /\ At(r, "pruneSelect")
  /\ \E limit \in {Retention, DefaultRetention} : \E rows \in SUBSET Prunable(limit) :
       /\ Become(r, [req[r] EXCEPT !.items = rows, !.pc = "pruneRow"])
       /\ \/ limit = Retention /\ rows = Prunable(limit) /\ NoFault
          \/ Fault
  /\ UNCHANGED <<db, files, mutex, drawn>>

\* Candidates are taken newest first.
IsNext(r, e) == e \in req[r].items /\ Newer(req[r].items, e) = {}

NextItem(r, e) ==
  Become(r, [req[r] EXCEPT !.items = @ \ {e}, !.pc = "pruneRow"])

\* The rows the DELETE of a candidate matches.
Matched(r, e) ==
  {d \in revisions : /\ d.revision = e.revision
                     /\ ~d.original
                     /\ d.revision # req[r].entry.revision}

PruneRow(r) ==
  /\ At(r, "pruneRow")
  /\ \/ req[r].items = {} /\ Return(r) /\ NoFault /\ UNCHANGED revisions
     \/ \E e \in req[r].items :
          /\ IsNext(r, e)
          /\ \/ /\ revisions' = revisions \ Matched(r, e)
                /\ IF Matched(r, e) = {} THEN NextItem(r, e) ELSE Goto(r, "pruneObject")
                /\ NoFault
             \/ Fault /\ NextItem(r, e) /\ UNCHANGED revisions
          /\ UNCHANGED mutex
  /\ UNCHANGED <<book, files, drawn>>

PruneObject(r) ==
  /\ At(r, "pruneObject")
  /\ \E e \in req[r].items :
       /\ IsNext(r, e)
       /\ \/ objects' = Delete(objects, e.key) /\ NoFault
          \/ Lapse /\ UNCHANGED objects
       /\ IF e.cover = 0 THEN NextItem(r, e) ELSE Goto(r, "pruneCheck")
  /\ UNCHANGED mutex
  /\ UNCHANGED <<db, previews, drawn>>

CoverReferencedBug(cover) == book.cover = cover

CoverReferenced(cover) ==
  \/ book.state \in {"live", "archived"} /\ book.cover = cover
  \/ \E e \in revisions : e.cover = cover

PruneCheck(r) ==
  /\ At(r, "pruneCheck")
  /\ \E e \in req[r].items :
       /\ IsNext(r, e)
       /\ \/ CoverReferenced(e.cover) /\ NextItem(r, e) /\ NoFault
          \/ ~CoverReferenced(e.cover) /\ Goto(r, "pruneCover") /\ NoFault
          \/ Lapse /\ NextItem(r, e)
  /\ UNCHANGED mutex
  /\ UNCHANGED <<db, files, drawn>>

PruneCover(r) ==
  /\ At(r, "pruneCover")
  /\ \E e \in req[r].items :
       /\ IsNext(r, e)
       /\ \/ previews' = previews \ {e.cover} /\ NoFault
          \/ Lapse /\ UNCHANGED previews
       /\ NextItem(r, e)
  /\ UNCHANGED <<db, objects, mutex, drawn>>

(***************************************************************************)
(* UpdateDetails renames the object of the current revision, then updates  *)
(* the rows in one transaction, and renames back if that fails.  It takes  *)
(* no lock.                                                                *)
(***************************************************************************)
UpdateGet(r) ==
  /\ At(r, "updateGet")
  /\ \/ /\ Live
        /\ LET key == [book.key EXCEPT !.name = req[r].entry.key.name]
           IN  Become(r, [req[r] EXCEPT
                            !.book = book, !.entry.key = key,
                            !.pc = IF key = book.key THEN "updateCommit" ELSE "updateRename"])
        /\ NoFault /\ UNCHANGED mutex
     \/ ~Live /\ NoFault /\ Return(r)
     \/ Fault /\ Return(r)
  /\ UNCHANGED <<db, files, drawn>>

UpdateRename(r) ==
  /\ At(r, "updateRename")
  /\ \/ /\ Stored(objects, req[r].book.key)
        /\ objects' = Rename(objects, req[r].book.key, req[r].entry.key)
        /\ Goto(r, "updateCommit")
        /\ NoFault /\ UNCHANGED mutex
     \/ ~Stored(objects, req[r].book.key) /\ NoFault /\ Return(r) /\ UNCHANGED objects
     \/ Fault /\ Return(r) /\ UNCHANGED objects
  /\ UNCHANGED <<db, previews, drawn>>

Moved(r) == req[r].entry.key # req[r].book.key

Rekeyed(r) ==
  {IF Moved(r) /\ e.revision = req[r].book.revision
     THEN [e EXCEPT !.key = req[r].entry.key] ELSE e : e \in revisions}

UpdateCommit(r) ==
  /\ At(r, "updateCommit")
  /\ \/ /\ Moved(r) => Listed(req[r].book.revision)
        /\ book' = IF Live THEN [book EXCEPT !.key = req[r].entry.key] ELSE book
        /\ revisions' = Rekeyed(r)
        /\ NoFault /\ Return(r)
     \/ /\ \/ Moved(r) /\ ~Listed(req[r].book.revision) /\ NoFault
           \/ Fault
        /\ IF Moved(r) THEN Goto(r, "updateBack") /\ UNCHANGED mutex ELSE Return(r)
        /\ UNCHANGED db
  /\ UNCHANGED <<files, drawn>>

RenamedBackBug(r) == objects

RenamedBack(r) == Rename(objects, req[r].entry.key, req[r].book.key)

UpdateBack(r) ==
  /\ At(r, "updateBack")
  /\ \/ objects' = RenamedBack(r) /\ NoFault
     \/ Lapse /\ UNCHANGED objects
  /\ Return(r)
  /\ UNCHANGED <<db, previews, drawn>>

(***************************************************************************)
(* Delete lists the object keys, deletes the rows in one transaction, then *)
(* deletes the objects and stops at the first failure.                     *)
(***************************************************************************)
DeleteGet(r) ==
  /\ At(r, "deleteGet")
  /\ \/ /\ Live
        /\ Become(r, [req[r] EXCEPT !.book = book, !.pc = "deleteList"])
        /\ NoFault /\ UNCHANGED mutex
     \/ ~Live /\ NoFault /\ Return(r)
     \/ Fault /\ Return(r)
  /\ UNCHANGED <<db, files, drawn>>

\* The book's own object keys come with those of its revisions.
CurrentItem(row) ==
  [revision |-> row.revision, key |-> row.key, cover |-> row.cover,
   text |-> row.text, original |-> FALSE]

DeleteList(r) ==
  /\ At(r, "deleteList")
  /\ \/ /\ Become(r, [req[r] EXCEPT !.items = revisions \cup {CurrentItem(req[r].book)},
                                      !.pc = "deleteCommit"])
        /\ NoFault /\ UNCHANGED mutex
     \/ Fault /\ Return(r)
  /\ UNCHANGED <<db, files, drawn>>

DeleteCommit(r) ==
  /\ At(r, "deleteCommit")
  /\ \/ /\ book' = [NoBook EXCEPT !.state = "gone"]
        /\ revisions' = {}
        /\ Goto(r, "deleteSweep")
        /\ NoFault /\ UNCHANGED mutex
     \/ Fault /\ Return(r) /\ UNCHANGED db
  /\ UNCHANGED <<files, drawn>>

DeleteSweep(r) ==
  /\ At(r, "deleteSweep")
  /\ \/ req[r].items = {} /\ Return(r) /\ NoFault /\ UNCHANGED files
     \/ \E e \in req[r].items :
          \/ /\ objects' = Delete(objects, e.key)
             /\ previews' = previews \ {e.cover}
             /\ Become(r, [req[r] EXCEPT !.items = @ \ {e}])
             /\ NoFault /\ UNCHANGED mutex
          \/ /\ Lapse /\ Return(r)
             /\ objects' \in {objects, Delete(objects, e.key)}
             /\ UNCHANGED previews
  /\ UNCHANGED <<db, drawn>>

Archive(r) ==
  /\ At(r, "archive")
  /\ \/ book' = [book EXCEPT !.state = IF Live THEN "archived" ELSE @] /\ NoFault
     \/ Fault /\ UNCHANGED book
  /\ Return(r)
  /\ UNCHANGED <<revisions, files, drawn>>

(***************************************************************************)
(* Open, behind the downloads and GetContent: the row, then the object.    *)
(***************************************************************************)
OpenGet(r) ==
  /\ At(r, "openGet")
  /\ \/ /\ Live
        /\ Become(r, [req[r] EXCEPT !.book = book, !.pc = "openRead"])
        /\ NoFault /\ UNCHANGED mutex
     \/ ~Live /\ NoFault /\ Return(r)
     \/ Fault /\ Return(r)
  /\ UNCHANGED <<db, files, drawn>>

\* Serves the object, or fails when it is missing.
OpenRead(r) ==
  /\ At(r, "openRead")
  /\ NoFault
  /\ Return(r)
  /\ UNCHANGED <<db, files, drawn>>

(***************************************************************************)
(* The process dies: requests and the mutex are lost, rows and files stay. *)
(* Starting again runs no repair.                                          *)
(***************************************************************************)
Crash ==
  /\ crashes < MaxCrashes
  /\ crashes' = crashes + 1
  /\ req' = [r \in Requests |-> Idle]
  /\ mutex' = NoRequest
  /\ UNCHANGED <<db, files, drawn, accepted, faults, lapses>>

AcceptAny(r) ==
  \/ AcceptCreate(r) \/ AcceptEdit(r, "edit") \/ AcceptEdit(r, "cover")
  \/ AcceptRestore(r) \/ AcceptUpdate(r)
  \/ AcceptOther(r, "delete", "deleteGet")
  \/ AcceptOther(r, "archive", "archive")
  \/ AcceptOther(r, "open", "openGet")

Publish(r) ==
  \/ PublishGet(r) \/ PublishMutate(r) \/ PublishSave(r) \/ PublishCover(r)
  \/ PublishCommit(r) \/ Undo(r) \/ PublishReply(r)

Prune(r) ==
  \/ PruneSelect(r) \/ PruneRow(r) \/ PruneObject(r) \/ PruneCheck(r) \/ PruneCover(r)

Step(r) ==
  \/ CreateSave(r) \/ CreateInsert(r)
  \/ RestoreFind(r) \/ RestoreRead(r)
  \/ Publish(r) \/ Prune(r)
  \/ UpdateGet(r) \/ UpdateRename(r) \/ UpdateCommit(r) \/ UpdateBack(r)
  \/ DeleteGet(r) \/ DeleteList(r) \/ DeleteCommit(r) \/ DeleteSweep(r)
  \/ Archive(r) \/ OpenGet(r) \/ OpenRead(r)

Next ==
  \/ \E r \in Requests : AcceptAny(r) \/ PublishLock(r) \/ Step(r)
  \/ Crash

Spec == Init /\ [][Next]_vars

(***************************************************************************)
(* A goroutine keeps running (weak fairness), and a waiter on publishMu    *)
(* gets it: after 1 ms of waiting, a Go mutex is handed over in order.     *)
(***************************************************************************)
Fairness == \A r \in Requests : WF_vars(Step(r)) /\ SF_vars(PublishLock(r))

FairSpec == Spec /\ Fairness
=============================================================================
