------------------------------ MODULE FileProofs ------------------------------
(***************************************************************************)
(* Rows and files, for any number of requests, failures and crashes, where *)
(* nobody renames: every listed revision has its bytes, every download is  *)
(* whole, and equal preview pictures mean equal covers.  Rows and files    *)
(* together are then the versioned text of LibraryAbs.                     *)
(*                                                                         *)
(* The hypothesis NobodyRenames is needed.  UpdateDetails takes no lock,   *)
(* and next to a second one or to a publication it makes the row name      *)
(* bytes that are not there, or those of another revision.                 *)
(*                                                                         *)
(* The last part lets clients rename, one at a time and beside no          *)
(* publication: the bytes are then there whenever the library is at rest.  *)
(***************************************************************************)
EXTENDS HistoryProofs

NobodyRenames == "update" \notin Operations

(***************************************************************************)
(* An edition is a key and the text that belongs under it: the shape of an *)
(* object.  The editions known are those of the rows and those requests    *)
(* have read from rows and still act on.                                   *)
(***************************************************************************)
Edition(e) == [key |-> e.key, text |-> e.text]

\* Where a request has an entry that is not a row yet, or never becomes one,
\* and where the bytes of the entry have been saved and are still wanted.
Entered == {"createInsert", "publishSave", "publishCover", "publishCommit", "undo"}

Saved == {"createInsert", "publishCover", "publishCommit"}

\* Where a request acts on the row it has read.  A download is followed only
\* where nobody renames: a rename beside it takes its bytes away.
Acting ==
  {"publishMutate"} \cup Checked \cup (IF NobodyRenames THEN {"openRead"} ELSE {})

HasEntry(r) == req[r].pc \in Entered

Remembers(r, k) ==
  \/ req[r].pc \in Acting /\ k = Edition(req[r].book)
  \/ HasSource(r) /\ k = Edition(req[r].source)
  \/ req[r].pc \in Pruning /\ \E e \in req[r].items : k = Edition(e)

Known(k) ==
  \/ \E e \in revisions : k = Edition(e)
  \/ \E r \in Requests : Remembers(r, k)

(***************************************************************************)
(* The inductive invariant: of the store, of the rows and of one request.  *)
(***************************************************************************)
Unique == \A o, p \in objects : o.key = p.key => o = p

\* What is stored under a known key is the known text.
Genuine ==
  \A k \in Object : Known(k) =>
    k.key.dir <= drawn /\ \A o \in objects : o.key = k.key => o = k

KeysDiffer == \A d, e \in revisions : d.key.dir = e.key.dir => d = e

RowsHold == Exists => \A e \in revisions : Holds(e.key, e.text)

BookIsListed ==
  Live => \E e \in revisions : /\ e.revision = book.revision /\ e.key = book.key
                                 /\ e.text = book.text /\ e.cover = book.cover

NoRename(r) == req[r].op # "update" /\ req[r].pc \notin RenamePoints

Begun(r) == book.state = "none" => req[r].pc \in {"idle", "createSave", "createInsert", "undo"}

Swept(r) == req[r].pc = "deleteSweep" => book.state = "gone"

\* The key of an entry is nobody else's, and the bytes are there once saved.
Fresh(r) ==
  HasEntry(r) =>
    /\ req[r].entry.key.dir <= drawn
    /\ \A k \in Object : Known(k) => k.key.dir # req[r].entry.key.dir
    /\ \A q \in Requests :
         q # r /\ HasEntry(q) => req[q].entry.key.dir # req[r].entry.key.dir
    /\ req[r].pc \in Saved /\ book.state # "gone"
         => Holds(req[r].entry.key, req[r].entry.text)

\* What is pruned has no row but its own.
Leaves(r) ==
  req[r].pc \in Pruning /\ Exists =>
    \A e \in req[r].items : ~e.original /\ \A d \in revisions : d.key = e.key => d = e

\* The row read is the current one, or an older one.
Seen(r) ==
  req[r].pc \in Acting /\ Exists =>
    /\ req[r].book.revision <= book.revision
    /\ req[r].book.revision = book.revision =>
         /\ req[r].book.key = book.key /\ req[r].book.text = book.text
         /\ req[r].book.cover = book.cover

Orderly(r) == NoRename(r) /\ Begun(r) /\ Swept(r) /\ Fresh(r) /\ Leaves(r) /\ Seen(r)

StoreInv == Unique /\ Genuine /\ KeysDiffer /\ RowsHold /\ BookIsListed

FileInv == StoreInv /\ \A r \in Requests : Orderly(r)

(***************************************************************************)
(* The store.                                                              *)
(***************************************************************************)
LEMMA SaveObjects ==
  ASSUME NEW store, NEW key, NEW text, NEW o
  PROVE  o \in Save(store, key, text)
           <=> (o \in store /\ o.key # key) \/ o = [key |-> key, text |-> text]
  BY DEF Save, Without

LEMMA DeleteObjects ==
  ASSUME NEW store, NEW key, NEW o
  PROVE  o \in Delete(store, key) <=> o \in store /\ o.key # key
  BY DEF Delete, Without

LEMMA EditionType ==
  ASSUME NEW e, e.key \in Key, e.text \in Text
  PROVE  Edition(e) \in Object /\ Edition(e).key = e.key /\ Edition(e).text = e.text
  BY DEF Edition, Object

LEMMA RowEdition ==
  ASSUME RowsAgree, NEW e \in revisions
  PROVE  /\ Edition(e) \in Object /\ Edition(e).key = e.key /\ Edition(e).text = e.text
         /\ Known(Edition(e))
         /\ Holds(e.key, e.text) <=> Edition(e) \in objects
<1>1. e.key \in Key /\ e.text \in Text
  BY DEF RowsAgree, TypeOK, Entry
<1>2. QED
  BY <1>1, EditionType DEF Known, Holds, Edition

LEMMA EntryEdition ==
  ASSUME TypeOK, NEW r \in Requests
  PROVE  /\ Edition(req[r].entry) \in Object
         /\ Edition(req[r].entry).key = req[r].entry.key
         /\ Edition(req[r].entry).text = req[r].entry.text
         /\ Holds(req[r].entry.key, req[r].entry.text) <=> Edition(req[r].entry) \in objects
<1>1. req[r].entry.key \in Key /\ req[r].entry.text \in Text
  BY DEF TypeOK, RequestType, Entry
<1>2. QED
  BY <1>1, EditionType DEF Holds, Edition

(***************************************************************************)
(* A step that makes no entry a row.                                       *)
(***************************************************************************)

\* Rows only go, and a book that is there stays as it is or is withdrawn.
RowsOnlyGo ==
  /\ revisions' \subseteq revisions
  /\ Exists' => /\ Exists
                /\ book'.revision = book.revision /\ book'.key = book.key
                /\ book'.text = book.text /\ book'.cover = book.cover
  /\ Live' => Live
  /\ book'.state = "none" => book.state = "none"
  /\ book.state = "gone" => book'.state = "gone"

\* What is known stays under its key and gets nothing else there.
StoreIsKept(r) ==
  /\ Unique'
  /\ \A k \in Object : Known(k) => \A o \in objects' : o.key = k.key => o \in objects
  /\ Exists' => \A e \in revisions' : Edition(e) \in objects => Edition(e) \in objects'
  /\ book'.state # "gone" =>
       \A q \in Requests : q # r /\ HasEntry(q) /\ Edition(req[q].entry) \in objects
                             => Edition(req[q].entry) \in objects'

RemembersKnown(r) == \A k \in Object : Remembers(r, k)' => Known(k)

LEMMA KnownStays ==
  ASSUME RowsAgree, TypeOK', NEW r \in Requests, Own(r), RowsOnlyGo, RemembersKnown(r),
         NEW k \in Object, Known(k)'
  PROVE  Known(k)
<1>1. CASE \E e \in revisions' : k = Edition(e)
  BY <1>1 DEF Known, RowsOnlyGo
<1>2. ASSUME NEW q \in Requests, Remembers(q, k)'
      PROVE  Known(k)
  <2>1. CASE q = r
    BY <1>2, <2>1 DEF RemembersKnown
  <2>2. CASE q # r
    <3>1. Remembers(q, k)
      BY <1>2, <2>2, OthersAreUntouched DEF Remembers, HasSource
    <3>2. QED
      BY <3>1 DEF Known
  <2>3. QED
    BY <2>1, <2>2
<1>3. QED
  BY <1>1, <1>2 DEF Known

LEMMA OthersStayOrderly ==
  ASSUME RowsAgree, TypeOK', FileInv, NEW r \in Requests, Own(r), RowsOnlyGo,
         RemembersKnown(r), StoreIsKept(r), drawn' \in Nat, drawn' >= drawn, Fresh(r)',
         NEW q \in Requests, q # r
  PROVE  Orderly(q)'
<1>1. req'[q] = req[q]
  BY OthersAreUntouched
<1>2. Orderly(q)
  BY DEF FileInv
<1>3. NoRename(q)' /\ Begun(q)' /\ Swept(q)'
  BY <1>1, <1>2 DEF Orderly, NoRename, Begun, Swept, RowsOnlyGo
<1>4. Leaves(q)' /\ Seen(q)'
  BY <1>1, <1>2 DEF Orderly, Leaves, Seen, RowsOnlyGo
<1>5. ASSUME HasEntry(q)
      PROVE  Fresh(q)'
  <2>1. req[q].entry.key.dir <= drawn'
    <3>1. req[q].entry.key.dir <= drawn
      BY <1>2, <1>5 DEF Orderly, Fresh
    <3>2. req[q].entry.key.dir \in Nat /\ drawn \in Nat
      BY DEF RowsAgree, TypeOK, RequestType, Entry, Key
    <3>3. QED
      BY <3>1, <3>2
  <2>2. \A k \in Object : Known(k)' => k.key.dir # req[q].entry.key.dir
    BY <1>2, <1>5, KnownStays DEF Orderly, Fresh
  <2>3. ASSUME NEW p \in Requests, p # q, HasEntry(p)'
        PROVE  req'[p].entry.key.dir # req[q].entry.key.dir
    <3>1. CASE p = r
      BY <1>1, <1>5, <2>3, <3>1 DEF Fresh, HasEntry
    <3>2. CASE p # r
      BY <1>2, <1>5, <2>3, <3>2, OthersAreUntouched DEF Orderly, Fresh, HasEntry
    <3>3. QED
      BY <3>1, <3>2
  <2>4. ASSUME req[q].pc \in Saved, book'.state # "gone"
        PROVE  Holds(req[q].entry.key, req[q].entry.text)'
    <3>1. Edition(req[q].entry) \in objects
      BY <1>2, <1>5, <2>4, EntryEdition DEF Orderly, Fresh, RowsOnlyGo, RowsAgree
    <3>2. Edition(req[q].entry) \in objects'
      BY <1>5, <2>4, <3>1 DEF StoreIsKept
    <3>3. QED
      BY <1>1, <3>2 DEF Holds, Edition
  <2>5. QED
    BY <1>1, <2>1, <2>2, <2>3, <2>4 DEF Fresh, HasEntry
<1>6. ASSUME ~HasEntry(q)
      PROVE  Fresh(q)'
  BY <1>1, <1>6 DEF Fresh, HasEntry
<1>7. QED
  BY <1>3, <1>4, <1>5, <1>6 DEF Orderly

LEMMA GenuineStays ==
  ASSUME RowsAgree, TypeOK', FileInv, NEW r \in Requests, Own(r), RowsOnlyGo,
         RemembersKnown(r), StoreIsKept(r), drawn' \in Nat, drawn' >= drawn
  PROVE  Genuine'
<1>1. SUFFICES ASSUME NEW k \in Object, Known(k)'
               PROVE  k.key.dir <= drawn' /\ \A o \in objects' : o.key = k.key => o = k
  BY DEF Genuine
<1>2. Known(k)
  BY <1>1, KnownStays
<1>3. k.key.dir <= drawn /\ \A o \in objects : o.key = k.key => o = k
  BY <1>2 DEF FileInv, StoreInv, Genuine
<1>4. k.key.dir <= drawn'
  <2>1. k.key.dir \in Nat /\ drawn \in Nat
    BY DEF Object, Key, RowsAgree, TypeOK
  <2>2. QED
    BY <1>3, <2>1
<1>5. QED
  BY <1>2, <1>3, <1>4 DEF StoreIsKept

LEMMA RowsStayListed ==
  ASSUME RowsAgree, RowsAgree', FileInv, RowsOnlyGo
  PROVE  BookIsListed' /\ KeysDiffer'
<1>1. KeysDiffer'
  BY DEF FileInv, StoreInv, KeysDiffer, RowsOnlyGo
<1>2. ASSUME Live'
      PROVE  \E e \in revisions' : /\ e.revision = book'.revision /\ e.key = book'.key
                                   /\ e.text = book'.text /\ e.cover = book'.cover
  <2>1. Live /\ Exists /\ Exists'
    BY <1>2 DEF RowsOnlyGo, Live, Exists
  <2>2. PICK e \in revisions' : e.revision = book'.revision
    BY <2>1 DEF RowsAgree, Ledger
  <2>3. PICK d \in revisions : /\ d.revision = book.revision /\ d.key = book.key
                               /\ d.text = book.text /\ d.cover = book.cover
    BY <2>1 DEF FileInv, StoreInv, BookIsListed
  <2>4. d = e
    BY <2>1, <2>2, <2>3 DEF RowsAgree, Ledger, RowsOnlyGo
  <2>5. QED
    BY <2>1, <2>2, <2>3, <2>4 DEF RowsOnlyGo
<1>3. QED
  BY <1>1, <1>2 DEF BookIsListed

LEMMA RowsStillHold ==
  ASSUME RowsAgree, RowsAgree', FileInv, NEW r \in Requests, RowsOnlyGo, StoreIsKept(r)
  PROVE  RowsHold'
<1>1. SUFFICES ASSUME Exists', NEW e \in revisions'
               PROVE  Holds(e.key, e.text)'
  BY DEF RowsHold
<1>2. Exists /\ e \in revisions
  BY <1>1 DEF RowsOnlyGo
<1>3. Edition(e) \in objects
  BY <1>2, RowEdition DEF FileInv, StoreInv, RowsHold
<1>4. Edition(e) \in objects'
  BY <1>1, <1>3 DEF StoreIsKept
<1>5. QED
  BY <1>4 DEF Holds, Edition

LEMMA FilesStay ==
  ASSUME RowsAgree, RowsAgree', FileInv, NEW r \in Requests, Own(r), RowsOnlyGo,
         RemembersKnown(r), StoreIsKept(r), drawn' \in Nat, drawn' >= drawn, Orderly(r)'
  PROVE  FileInv'
<1>1. TypeOK' /\ Fresh(r)'
  BY DEF RowsAgree, Orderly
<1>2. \A q \in Requests : Orderly(q)'
  BY <1>1, OthersStayOrderly
<1>3. QED
  BY <1>1, <1>2, GenuineStays, RowsStayListed, RowsStillHold
     DEF FileInv, StoreInv, StoreIsKept

(***************************************************************************)
(* Where the request that takes the step may be afterwards.                *)
(***************************************************************************)
Claiming == Entered \cup Acting \cup Pruning \cup RenamePoints \cup {"deleteSweep"}

LEMMA PlainIsOrderly ==
  ASSUME NEW r \in Requests, req'[r].pc \notin Claiming, req'[r].op # "update",
         book'.state = "none" => req'[r].pc \in {"idle", "createSave"}
  PROVE  Orderly(r)'
<1>1. NoRename(r)' /\ Begun(r)' /\ Swept(r)'
  BY DEF Claiming, NoRename, Begun, Swept
<1>2. Fresh(r)'
  BY DEF Claiming, Fresh, HasEntry
<1>3. Leaves(r)' /\ Seen(r)'
  BY DEF Claiming, Leaves, Seen
<1>4. QED
  BY <1>1, <1>2, <1>3 DEF Orderly

LEMMA PlainRemembersNothing ==
  ASSUME NEW r \in Requests, req'[r].pc \notin Claiming, req'[r].pc \notin Restoring
  PROVE  RemembersKnown(r)
  BY DEF RemembersKnown, Remembers, HasSource, Claiming

LEMMA StoreUntouched ==
  ASSUME FileInv, NEW r \in Requests, UNCHANGED objects
  PROVE  StoreIsKept(r)
  BY DEF FileInv, StoreInv, Unique, StoreIsKept

LEMMA RowsUnchanged ==
  ASSUME UNCHANGED db
  PROVE  RowsOnlyGo
  BY DEF db, RowsOnlyGo, Exists, Live

LEMMA CalmFiles ==
  ASSUME RowsAgree, RowsAgree', FileInv, NEW r \in Requests, Own(r),
         UNCHANGED <<db, objects, drawn>>, RemembersKnown(r), Orderly(r)'
  PROVE  FileInv'
<1>1. drawn \in Nat /\ drawn >= drawn
  BY DEF RowsAgree, TypeOK
<1>2. QED
  BY <1>1, StoreUntouched, RowsUnchanged, FilesStay

LEMMA IdleIsOrderly ==
  ASSUME NEW r \in Requests, req'[r] = Idle
  PROVE  Orderly(r)' /\ RemembersKnown(r)
<1>1. req'[r].pc = "idle" /\ req'[r].op = "none"
  BY DEF Idle
<1>2. QED
  BY <1>1, PlainIsOrderly, PlainRemembersNothing
     DEF Claiming, Entered, Acting, Checked, Pruning, RenamePoints, Restoring

LEMMA EndFiles ==
  ASSUME RowsAgree, RowsAgree', FileInv, NEW r \in Requests, Return(r),
         UNCHANGED <<db, objects, drawn>>
  PROVE  FileInv'
<1>1. req'[r] = Idle /\ Own(r)
  BY Becomes DEF Return, Own
<1>2. QED
  BY <1>1, IdleIsOrderly, CalmFiles

\* An entry that is kept is still nobody else's.
LEMMA FreshStays ==
  ASSUME RowsAgree, RowsAgree', FileInv, NEW r \in Requests, Own(r), RowsOnlyGo,
         RemembersKnown(r), UNCHANGED drawn, HasEntry(r), req'[r].entry = req[r].entry,
         req'[r].pc \in Saved /\ book'.state # "gone" => Edition(req[r].entry) \in objects'
  PROVE  Fresh(r)'
<1>1. Fresh(r)
  BY DEF FileInv, Orderly
<1>2. \A k \in Object : Known(k)' => k.key.dir # req[r].entry.key.dir
  BY <1>1, KnownStays DEF Fresh, RowsAgree
<1>3. \A q \in Requests : q # r => req'[q] = req[q]
  BY OthersAreUntouched
<1>4. \A q \in Requests :
        q # r /\ HasEntry(q)' => req'[q].entry.key.dir # req[r].entry.key.dir
  BY <1>1, <1>3 DEF Fresh, HasEntry
<1>5. req'[r].pc \in Saved /\ book'.state # "gone"
        => Holds(req[r].entry.key, req[r].entry.text)'
  BY DEF Holds, Edition
<1>6. QED
  BY <1>1, <1>2, <1>4, <1>5 DEF Fresh

LEMMA BookIsThere ==
  ASSUME RowsAgree, FileInv, NEW r \in Requests,
         req[r].pc \notin {"idle", "createSave", "createInsert", "undo"}
  PROVE  book.state # "none"
  BY DEF FileInv, Orderly, Begun

(***************************************************************************)
(* The steps that leave rows and files alone.                              *)
(***************************************************************************)
LEMMA AcceptFiles ==
  ASSUME RowsAgree, RowsAgree', FileInv, NEW r \in Requests, AcceptAny(r), ~AcceptUpdate(r)
  PROVE  FileInv'
<1>1. PICK op : Accept(r, op)
  BY DEF AcceptAny, AcceptCreate, AcceptEdit, AcceptRestore, AcceptUpdate, AcceptOther
<1>2. UNCHANGED <<db, objects, drawn, mutex>> /\ UNCHANGED book
  BY <1>1 DEF Accept, files, db
<1>3. revisions # {} => book.state # "none"
  BY DEF RowsAgree, Ledger, Exists
<1> DEFINE Plainly(next) ==
             /\ next.pc \notin Claiming /\ next.pc # "restoreRead" /\ next.op # "update"
             /\ next.pc \in Restoring => next.op # "restore"
             /\ book.state = "none" => next.pc = "createSave"
<1>4. ASSUME NEW next, Become(r, next), Plainly(next)
      PROVE  FileInv'
  <2>1. req'[r] = next /\ Own(r)
    BY <1>2, <1>4, Becomes DEF Own
  <2>2. Orderly(r)'
    BY <1>2, <1>4, <2>1, PlainIsOrderly
  <2>3. RemembersKnown(r)
    BY <1>4, <2>1 DEF RemembersKnown, Remembers, HasSource, Claiming
  <2>4. QED
    BY <1>2, <2>1, <2>2, <2>3, CalmFiles
<1>5. {"createSave", "lock", "restoreFind", "deleteGet", "archive", "openGet"} \cap Claiming = {}
  BY DEF Claiming, Entered, Acting, Checked, Pruning, RenamePoints
<1>6. CASE AcceptCreate(r)
  <2>1. Plainly([Idle EXCEPT !.op = "create", !.pc = "createSave"])
    BY <1>5 DEF Idle, Restoring
  <2>2. QED
    BY <1>4, <1>6, <2>1 DEF AcceptCreate
<1>7. ASSUME NEW kind \in {"edit", "cover"}, AcceptEdit(r, kind)
      PROVE  FileInv'
  <2>1. PICK e \in revisions :
          Become(r, [Idle EXCEPT !.op = kind, !.pc = "lock", !.base = e.revision])
    BY <1>7 DEF AcceptEdit
  <2>2. Plainly([Idle EXCEPT !.op = kind, !.pc = "lock", !.base = e.revision])
    BY <1>3, <1>5 DEF Idle, Restoring
  <2>3. QED
    BY <1>4, <2>1, <2>2
<1>8. CASE AcceptRestore(r)
  <2>1. PICK base \in revisions, target \in revisions :
          Become(r, [Idle EXCEPT !.op = "restore", !.pc = "restoreFind",
                                 !.base = base.revision,
                                 !.source = [NoEntry EXCEPT !.revision = target.revision]])
    BY <1>8 DEF AcceptRestore
  <2>2. Plainly([Idle EXCEPT !.op = "restore", !.pc = "restoreFind",
                             !.base = base.revision,
                             !.source = [NoEntry EXCEPT !.revision = target.revision]])
    BY <1>3, <1>5 DEF Idle, Restoring
  <2>3. QED
    BY <1>4, <2>1, <2>2
<1>9. ASSUME NEW kind \in {"delete", "archive", "open"},
             NEW pc \in {"deleteGet", "archive", "openGet"}, AcceptOther(r, kind, pc)
      PROVE  FileInv'
  <2>1. Plainly([Idle EXCEPT !.op = kind, !.pc = pc])
    BY <1>5, <1>9 DEF Idle, Restoring, AcceptOther
  <2>2. QED
    BY <1>4, <1>9, <2>1 DEF AcceptOther
<1>10. QED
  BY <1>6, <1>7, <1>8, <1>9 DEF AcceptAny

LEMMA OpStays ==
  ASSUME FileInv, NEW r \in Requests
  PROVE  req[r].op # "update"
  BY DEF FileInv, Orderly, NoRename

LEMMA ActingIsOrderly ==
  ASSUME NEW r \in Requests, req'[r].pc \in {"publishMutate", "openRead"},
         req'[r].op # "update", book'.state # "none", Seen(r)'
  PROVE  Orderly(r)'
<1>1. NoRename(r)' /\ Begun(r)' /\ Swept(r)'
  BY DEF RenamePoints, NoRename, Begun, Swept
<1>2. Fresh(r)'
  BY DEF Entered, Fresh, HasEntry
<1>3. Leaves(r)'
  BY DEF Pruning, Leaves
<1>4. QED
  BY <1>1, <1>2, <1>3 DEF Orderly

LEMMA BookIsKnown ==
  ASSUME RowsAgree, FileInv, Live
  PROVE  Known(Edition(book))
<1>1. PICK e \in revisions : e.key = book.key /\ e.text = book.text
  BY DEF FileInv, StoreInv, BookIsListed
<1>2. Edition(e) = Edition(book)
  BY <1>1 DEF Edition
<1>3. QED
  BY <1>2, RowEdition

LEMMA RestoreFiles ==
  ASSUME RowsAgree, RowsAgree', FileInv, NEW r \in Requests, RestoreFind(r) \/ RestoreRead(r)
  PROVE  FileInv'
<1>1. UNCHANGED <<db, objects, drawn>> /\ UNCHANGED book
  BY DEF RestoreFind, RestoreRead, db, files
<1>2. book.state # "none" /\ req[r].op # "update"
  BY BookIsThere, OpStays DEF RestoreFind, RestoreRead, At
<1>3. CASE Return(r)
  BY <1>1, <1>3, EndFiles
<1>4. ASSUME NEW next, Become(r, next), UNCHANGED mutex, next.op = req[r].op,
             next.pc \in {"restoreRead", "lock"},
             next.op = "restore" => Known(Edition(next.source))
      PROVE  FileInv'
  <2>1. req'[r] = next /\ Own(r)
    BY <1>4, Becomes DEF Own
  <2>2. next.pc \notin Claiming
    BY <1>4 DEF Claiming, Entered, Acting, Checked, Pruning, RenamePoints
  <2>3. Orderly(r)'
    BY <1>1, <1>2, <1>4, <2>1, <2>2, PlainIsOrderly
  <2>4. RemembersKnown(r)
    BY <1>4, <2>1, <2>2 DEF RemembersKnown, Remembers, HasSource, Claiming
  <2>5. QED
    BY <1>1, <2>1, <2>3, <2>4, CalmFiles
<1>5. CASE RestoreFind(r)
  <2>1. ASSUME NEW e \in revisions, UNCHANGED mutex,
               Become(r, [req[r] EXCEPT !.source = e, !.pc = "restoreRead"])
        PROVE  FileInv'
    <3> DEFINE next == [req[r] EXCEPT !.source = e, !.pc = "restoreRead"]
    <3>1. next.pc = "restoreRead" /\ next.op = req[r].op /\ next.source = e
      BY DEF RowsAgree, TypeOK, RequestType
    <3>2. Become(r, next)
      BY <2>1
    <3>3. Known(Edition(e))
      BY RowEdition
    <3> HIDE DEF next
    <3>4. QED
      BY <1>4, <2>1, <3>1, <3>2, <3>3
  <2>2. QED
    BY <1>3, <1>5, <2>1 DEF RestoreFind
<1>6. CASE RestoreRead(r)
  <2>1. ASSUME NEW o \in objects, o.key = req[r].source.key, UNCHANGED mutex,
               Become(r, [req[r] EXCEPT !.source.text = o.text, !.pc = "lock"])
        PROVE  FileInv'
    <3> DEFINE next == [req[r] EXCEPT !.source.text = o.text, !.pc = "lock"]
    <3>1. next.pc = "lock" /\ next.op = req[r].op /\ next.source.key = req[r].source.key
          /\ next.source.text = o.text
      BY DEF RowsAgree, TypeOK, RequestType, Entry
    <3>2. Become(r, next)
      BY <2>1
    <3> HIDE DEF next
    <3>3. ASSUME req[r].op = "restore"
          PROVE  Known(Edition(next.source))
      <4>1. req[r].source.key \in Key /\ req[r].source.text \in Text
        BY DEF RowsAgree, TypeOK, RequestType, Entry
      <4>2. PICK k \in Object : k = Edition(req[r].source) /\ k.key = req[r].source.key
        BY <4>1, EditionType
      <4>3. Known(k)
        BY <1>6, <3>3, <4>2 DEF Known, Remembers, HasSource, RestoreRead, At, Restoring
      <4>4. o = k
        BY <2>1, <4>2, <4>3 DEF FileInv, StoreInv, Genuine
      <4>5. Edition(next.source) = k
        BY <3>1, <4>1, <4>2, <4>4, EditionType DEF Edition
      <4>6. QED
        BY <4>3, <4>5
    <3>4. QED
      BY <1>4, <2>1, <3>1, <3>2, <3>3
  <2>2. QED
    BY <1>3, <1>6, <2>1 DEF RestoreRead
<1>7. QED
  BY <1>5, <1>6

LEMMA OpenFiles ==
  ASSUME RowsAgree, RowsAgree', FileInv, NEW r \in Requests,
         OpenGet(r) \/ OpenRead(r) \/ PublishGet(r)
  PROVE  FileInv'
<1>1. UNCHANGED <<db, objects, drawn>> /\ UNCHANGED book
  BY DEF OpenGet, OpenRead, PublishGet, db, files
<1>2. CASE Return(r)
  BY <1>1, <1>2, EndFiles
<1>3. ASSUME NEW pc \in {"publishMutate", "openRead"}, Live, UNCHANGED mutex,
             Become(r, [req[r] EXCEPT !.book = book, !.pc = pc]),
             pc = "publishMutate" => req[r].pc = "publishGet"
      PROVE  FileInv'
  <2> DEFINE next == [req[r] EXCEPT !.book = book, !.pc = pc]
  <2>1. next.pc = pc /\ next.op = req[r].op /\ next.book = book
        /\ next.source = req[r].source
    BY DEF RowsAgree, TypeOK, RequestType
  <2>2. Become(r, next)
    BY <1>3
  <2> HIDE DEF next
  <2>3. req'[r] = next /\ Own(r)
    BY <1>3, <2>2, Becomes DEF Own
  <2>4. Exists /\ book.state # "none" /\ book.revision <= book.revision
    BY <1>3 DEF Live, Exists, RowsAgree, TypeOK, BookRow
  <2>5. Seen(r)'
    BY <1>1, <2>1, <2>3, <2>4 DEF Seen
  <2>6. Orderly(r)'
    BY <1>1, <2>1, <2>3, <2>4, <2>5, OpStays, ActingIsOrderly
  <2>7. RemembersKnown(r)
    <3>1. SUFFICES ASSUME NEW k \in Object, Remembers(r, k)'
                   PROVE  Known(k)
      BY DEF RemembersKnown
    <3>2. CASE k = Edition(book)
      BY <1>3, <3>2, BookIsKnown
    <3>3. CASE HasSource(r)' /\ k = Edition(req[r].source)
      <4>1. HasSource(r)
        BY <1>3, <2>1, <2>3, <3>3 DEF HasSource, Restoring
      <4>2. QED
        BY <3>3, <4>1 DEF Known, Remembers
    <3>4. req'[r].pc \notin Pruning
      BY <2>1, <2>3 DEF Pruning
    <3>5. QED
      BY <2>1, <2>3, <3>1, <3>2, <3>3, <3>4 DEF Remembers
  <2>8. QED
    BY <1>1, <2>3, <2>6, <2>7, CalmFiles
<1>4. CASE OpenGet(r)
  BY <1>2, <1>3, <1>4 DEF OpenGet
<1>5. CASE OpenRead(r)
  BY <1>2, <1>5 DEF OpenRead
<1>6. CASE PublishGet(r)
  BY <1>2, <1>3, <1>6 DEF PublishGet, At
<1>7. QED
  BY <1>4, <1>5, <1>6

\* A request that goes on to a point where it claims nothing new.
LEMMA GoesPlainly ==
  ASSUME RowsAgree, RowsAgree', FileInv, NEW r \in Requests, NEW pc, Goto(r, pc),
         mutex' = mutex \/ mutex = NoRequest,
         UNCHANGED <<db, objects, drawn>>, book.state # "none",
         pc \notin Claiming, pc \in Restoring => req[r].pc \in Restoring
  PROVE  FileInv'
<1> DEFINE next == [req[r] EXCEPT !.pc = pc]
<1>1. next.pc = pc /\ next.op = req[r].op /\ next.source = req[r].source
  BY DEF RowsAgree, TypeOK, RequestType
<1>2. Become(r, next)
  BY DEF Goto
<1> HIDE DEF next
<1>3. req'[r] = next /\ Own(r)
  BY <1>2, Becomes DEF Own
<1>4. Orderly(r)'
  BY <1>1, <1>3, OpStays, PlainIsOrderly DEF db
<1>5. RemembersKnown(r)
  <2>1. SUFFICES ASSUME NEW k \in Object, Remembers(r, k)'
                 PROVE  Known(k)
    BY DEF RemembersKnown
  <2>2. HasSource(r)' /\ k = Edition(req[r].source)
    BY <1>1, <1>3, <2>1 DEF Remembers, Claiming
  <2>3. HasSource(r)
    BY <1>1, <1>3, <2>2 DEF HasSource
  <2>4. QED
    BY <2>2, <2>3 DEF Known, Remembers
<1>6. QED
  BY <1>3, <1>4, <1>5, CalmFiles

\* A request that goes on where it claims nothing and remembers nothing.
LEMMA GoesOn ==
  ASSUME RowsAgree, RowsAgree', FileInv, NEW r \in Requests, NEW next, Become(r, next),
         UNCHANGED mutex, UNCHANGED <<db, objects, drawn>>, book.state # "none",
         next.op = req[r].op, next.pc \notin Claiming, next.pc \notin Restoring
  PROVE  FileInv'
<1>1. req'[r] = next /\ Own(r)
  BY Becomes DEF Own
<1>2. Orderly(r)'
  BY <1>1, OpStays, PlainIsOrderly DEF db
<1>3. RemembersKnown(r)
  BY <1>1, PlainRemembersNothing
<1>4. QED
  BY <1>1, <1>2, <1>3, CalmFiles

LEMMA PlainSteps ==
  ASSUME RowsAgree, RowsAgree', FileInv, NEW r \in Requests,
         PublishLock(r) \/ PublishReply(r) \/ DeleteGet(r) \/ DeleteList(r)
  PROVE  FileInv'
<1>1. UNCHANGED <<db, objects, drawn>> /\ book.state # "none"
  BY BookIsThere
     DEF PublishLock, PublishReply, DeleteGet, DeleteList, At, db, files
<1>2. CASE Return(r)
  BY <1>1, <1>2, EndFiles
<1>3. {"publishGet", "pruneSelect", "deleteList", "deleteCommit"} \cap Claiming = {}
  BY DEF Claiming, Entered, Acting, Checked, Pruning, RenamePoints
<1>4. CASE PublishLock(r)
  BY <1>1, <1>3, <1>4, GoesPlainly DEF PublishLock, At, Unlocked, Restoring
<1>5. CASE PublishReply(r)
  BY <1>1, <1>2, <1>3, <1>5, GoesPlainly DEF PublishReply, Restoring
<1>6. CASE DeleteGet(r)
  <2>1. ASSUME Become(r, [req[r] EXCEPT !.book = book, !.pc = "deleteList"]), UNCHANGED mutex
        PROVE  FileInv'
    <3> DEFINE next == [req[r] EXCEPT !.book = book, !.pc = "deleteList"]
    <3>1. next.pc = "deleteList" /\ next.op = req[r].op
      BY DEF RowsAgree, TypeOK, RequestType
    <3>2. Become(r, next)
      BY <2>1
    <3> HIDE DEF next
    <3>3. QED
      BY <1>1, <1>3, <2>1, <3>1, <3>2, GoesOn DEF Restoring
  <2>2. QED
    BY <1>2, <1>6, <2>1 DEF DeleteGet
<1>7. CASE DeleteList(r)
  <2>1. ASSUME NEW rows, UNCHANGED mutex,
               Become(r, [req[r] EXCEPT !.items = rows, !.pc = "deleteCommit"])
        PROVE  FileInv'
    <3> DEFINE next == [req[r] EXCEPT !.items = rows, !.pc = "deleteCommit"]
    <3>1. next.pc = "deleteCommit" /\ next.op = req[r].op
      BY DEF RowsAgree, TypeOK, RequestType
    <3>2. Become(r, next)
      BY <2>1
    <3> HIDE DEF next
    <3>3. QED
      BY <1>1, <1>3, <2>1, <3>1, <3>2, GoesOn DEF Restoring
  <2>2. QED
    BY <1>2, <1>7, <2>1 DEF DeleteList
<1>8. QED
  BY <1>4, <1>5, <1>6, <1>7

LEMMA ArchiveFiles ==
  ASSUME RowsAgree, RowsAgree', FileInv, NEW r \in Requests, Archive(r)
  PROVE  FileInv'
<1>1. req'[r] = Idle /\ Own(r)
  BY Becomes DEF Archive, Return, Own
<1>2. RowsOnlyGo
  BY DEF Archive, RowsAgree, TypeOK, BookRow, RowsOnlyGo, Exists, Live
<1>3. UNCHANGED objects /\ drawn' \in Nat /\ drawn' >= drawn
  BY DEF Archive, files, RowsAgree, TypeOK
<1>4. QED
  BY <1>1, <1>2, <1>3, IdleIsOrderly, StoreUntouched, FilesStay

LEMMA CrashFiles ==
  ASSUME RowsAgree, RowsAgree', FileInv, Crash
  PROVE  FileInv'
<1>1. \A q \in Requests : req'[q] = Idle
  BY DEF Crash
<1>2. UNCHANGED <<db, objects, drawn>> /\ UNCHANGED book
  BY DEF Crash, db, files
<1>3. \A q \in Requests : Orderly(q)' /\ RemembersKnown(q)
  BY <1>1, IdleIsOrderly
<1>4. \A k \in Object : Known(k)' => Known(k)
  BY <1>2, <1>3 DEF Known, RemembersKnown, db
<1>5. StoreInv'
  BY <1>2, <1>4 DEF FileInv, StoreInv, Unique, Genuine, KeysDiffer, RowsHold, BookIsListed,
                    Holds, Exists, Live, db
<1>6. QED
  BY <1>3, <1>5 DEF FileInv

(***************************************************************************)
(* A request that keeps what it knows.                                     *)
(***************************************************************************)
LEMMA KeepsWhatItKnows ==
  ASSUME NEW r \in Requests, Keeps(r),
         req'[r].pc \in Acting => req[r].pc \in Acting,
         req'[r].pc \in Restoring => req[r].pc \in Restoring,
         req'[r].pc \in Pruning => req[r].pc \in Pruning
  PROVE  RemembersKnown(r)
  BY DEF Keeps, RemembersKnown, Remembers, HasSource, Known

LEMMA KeptFiles ==
  ASSUME RowsAgree, RowsAgree', FileInv, NEW r \in Requests, Own(r), Keeps(r), RowsOnlyGo,
         StoreIsKept(r), UNCHANGED drawn,
         req'[r].pc \in Entered => req[r].pc \in Entered,
         req'[r].pc \in Acting => req[r].pc \in Acting,
         req'[r].pc \in Pruning => req[r].pc \in Pruning,
         req'[r].pc \notin Restoring \cup RenamePoints,
         req'[r].pc = "deleteSweep" => book'.state = "gone",
         book'.state = "none" => req'[r].pc = "undo",
         req'[r].pc \in Saved /\ book'.state # "gone" => Edition(req[r].entry) \in objects'
  PROVE  FileInv'
<1>1. RemembersKnown(r)
  BY KeepsWhatItKnows
<1>2. Orderly(r)
  BY DEF FileInv
<1>3. NoRename(r)' /\ Begun(r)' /\ Swept(r)'
  BY OpStays DEF Keeps, NoRename, Begun, Swept
<1>4. Fresh(r)'
  <2>1. CASE HasEntry(r)
    BY <1>1, <2>1, FreshStays DEF Keeps
  <2>2. CASE ~HasEntry(r)
    BY <2>2 DEF Fresh, HasEntry
  <2>3. QED
    BY <2>1, <2>2
<1>5. Leaves(r)' /\ Seen(r)'
  BY <1>2 DEF Keeps, Orderly, Leaves, Seen, RowsOnlyGo
<1>6. Orderly(r)'
  BY <1>3, <1>4, <1>5 DEF Orderly
<1>7. drawn' \in Nat /\ drawn' >= drawn
  BY DEF RowsAgree, TypeOK
<1>8. QED
  BY <1>1, <1>6, <1>7, FilesStay

\* Saving under a key that is nobody else's.
LEMMA StoreGrows ==
  ASSUME RowsAgree, FileInv, RowsOnlyGo, NEW r \in Requests, NEW key, NEW text,
         objects' = Save(objects, key, text),
         \A k \in Object : Known(k) => k.key # key,
         \A q \in Requests : q # r /\ HasEntry(q) => req[q].entry.key # key
  PROVE  StoreIsKept(r) /\ [key |-> key, text |-> text] \in objects'
<1>1. \A o : o \in objects' <=> (o \in objects /\ o.key # key)
                                \/ o = [key |-> key, text |-> text]
  BY SaveObjects
<1>2. Unique'
  BY <1>1 DEF FileInv, StoreInv, Unique
<1>3. \A k \in Object : Known(k) => \A o \in objects' : o.key = k.key => o \in objects
  BY <1>1
<1>4. \A e \in revisions' : Edition(e) \in objects => Edition(e) \in objects'
  BY <1>1, RowEdition DEF RowsOnlyGo
<1>5. \A q \in Requests : q # r /\ HasEntry(q) /\ Edition(req[q].entry) \in objects
                            => Edition(req[q].entry) \in objects'
  BY <1>1, EntryEdition DEF RowsAgree
<1>6. QED
  BY <1>1, <1>2, <1>3, <1>4, <1>5 DEF StoreIsKept

\* Deleting under a key that no row left has.
LEMMA StoreShrinks ==
  ASSUME RowsAgree, FileInv, RowsOnlyGo, NEW r \in Requests, NEW key,
         objects' = Delete(objects, key),
         Exists' => \A e \in revisions' : e.key # key,
         book'.state # "gone" =>
           \A q \in Requests : q # r /\ HasEntry(q) => req[q].entry.key # key
  PROVE  StoreIsKept(r)
<1>1. \A o : o \in objects' <=> o \in objects /\ o.key # key
  BY DeleteObjects
<1>2. Unique'
  BY <1>1 DEF FileInv, StoreInv, Unique
<1>3. Exists' => \A e \in revisions' : Edition(e) \in objects => Edition(e) \in objects'
  BY <1>1, RowEdition DEF RowsOnlyGo
<1>4. book'.state # "gone" =>
        \A q \in Requests : q # r /\ HasEntry(q) /\ Edition(req[q].entry) \in objects
                              => Edition(req[q].entry) \in objects'
  BY <1>1, EntryEdition DEF RowsAgree
<1>5. QED
  BY <1>1, <1>2, <1>3, <1>4 DEF StoreIsKept

(***************************************************************************)
(* The steps of an upload and of a publication that save, or fail.         *)
(***************************************************************************)
LEMMA PublishSaveFiles ==
  ASSUME RowsAgree, RowsAgree', FileInv, NEW r \in Requests, PublishSave(r)
  PROVE  FileInv'
<1>1. UNCHANGED <<db, drawn>> /\ UNCHANGED book /\ RowsOnlyGo /\ book.state # "none"
      /\ req[r].pc = "publishSave"
  BY RowsUnchanged, BookIsThere DEF PublishSave, At, db
<1>2. CASE Return(r) /\ UNCHANGED objects
  BY <1>1, <1>2, EndFiles
<1>3. ASSUME objects' = Save(objects, req[r].entry.key, req[r].entry.text),
             NEW pc \in {"publishCover", "publishCommit"}, Goto(r, pc), UNCHANGED mutex
      PROVE  FileInv'
  <2>1. req'[r].pc = pc /\ Keeps(r) /\ Own(r)
    BY <1>3, GotoKeeps DEF Goto, Own
  <2>2. HasEntry(r) /\ Fresh(r)
    BY <1>1 DEF HasEntry, Entered, FileInv, Orderly
  <2>3. StoreIsKept(r) /\ Edition(req[r].entry) \in objects'
    BY <1>1, <1>3, <2>2, StoreGrows DEF Fresh, Edition
  <2>4. req[r].pc \in Entered /\ req[r].pc \in Acting /\ pc \notin Pruning
        /\ pc \notin Restoring \cup RenamePoints /\ pc # "deleteSweep"
    BY <1>1 DEF Entered, Acting, Checked, Pruning, Restoring, RenamePoints
  <2>5. QED
    BY <1>1, <2>1, <2>3, <2>4, KeptFiles
<1>4. QED
  BY <1>2, <1>3 DEF PublishSave

LEMMA SavedEntry ==
  ASSUME RowsAgree, FileInv, NEW r \in Requests, req[r].pc \in Saved, book.state # "gone"
  PROVE  Edition(req[r].entry) \in objects
<1>1. Holds(req[r].entry.key, req[r].entry.text)
  BY DEF FileInv, Orderly, Fresh, HasEntry, Saved, Entered
<1>2. QED
  BY <1>1 DEF Holds, Edition

LEMMA PublishCoverFiles ==
  ASSUME RowsAgree, RowsAgree', FileInv, NEW r \in Requests, PublishCover(r)
  PROVE  FileInv'
<1>1. UNCHANGED <<db, objects, drawn>> /\ UNCHANGED book /\ RowsOnlyGo
      /\ book.state # "none" /\ req[r].pc = "publishCover" /\ UNCHANGED mutex
  BY RowsUnchanged, BookIsThere DEF PublishCover, At, db
<1>2. PICK pc \in {"publishCommit", "undo"} : Goto(r, pc)
  BY DEF PublishCover
<1>3. req'[r].pc = pc /\ Keeps(r) /\ Own(r)
  BY <1>1, <1>2, GotoKeeps DEF Goto, Own
<1>4. req[r].pc \in Entered /\ req[r].pc \in Acting /\ req[r].pc \in Saved /\ pc \notin Pruning
      /\ pc \notin Restoring \cup RenamePoints /\ pc # "deleteSweep"
  BY <1>1 DEF Entered, Saved, Acting, Checked, Pruning, Restoring, RenamePoints
<1>5. book.state # "gone" => Edition(req[r].entry) \in objects'
  BY <1>1, <1>4, SavedEntry
<1>6. StoreIsKept(r)
  BY <1>1, StoreUntouched
<1>7. QED
  BY <1>1, <1>3, <1>4, <1>5, <1>6, KeptFiles

\* A publication or an upload that failed.
LEMMA FailsFiles ==
  ASSUME RowsAgree, RowsAgree', FileInv, NEW r \in Requests,
         req[r].pc \in {"createInsert", "publishCommit"}, Goto(r, "undo"),
         UNCHANGED <<db, objects, drawn, mutex>>
  PROVE  FileInv'
<1>1. req'[r].pc = "undo" /\ Keeps(r) /\ Own(r)
  BY GotoKeeps DEF Goto, Own
<1>2. RowsOnlyGo /\ StoreIsKept(r)
  BY RowsUnchanged, StoreUntouched
<1>3. req[r].pc \in Entered /\ "undo" \notin Pruning /\ "undo" \notin Acting
      /\ "undo" \notin Restoring \cup RenamePoints /\ "undo" \notin Saved
  BY DEF Entered, Saved, Acting, Checked, Pruning, Restoring, RenamePoints
<1>4. QED
  BY <1>1, <1>2, <1>3, KeptFiles

LEMMA UndoFiles ==
  ASSUME RowsAgree, RowsAgree', FileInv, NEW r \in Requests, Undo(r)
  PROVE  FileInv'
<1>1. UNCHANGED <<db, drawn>> /\ UNCHANGED book /\ RowsOnlyGo /\ req[r].pc = "undo"
      /\ UNCHANGED revisions
  BY RowsUnchanged DEF Undo, At, db
<1>2. req'[r] = Idle /\ Own(r) /\ Return(r)
  BY Becomes DEF Undo, Return, Own
<1>3. CASE UNCHANGED objects
  BY <1>1, <1>2, <1>3, EndFiles
<1>4. CASE objects' = Delete(objects, req[r].entry.key)
  <2>1. Fresh(r) /\ HasEntry(r)
    BY <1>1 DEF FileInv, Orderly, HasEntry, Entered
  <2>2. \A e \in revisions' : e.key # req[r].entry.key
    BY <1>1, <2>1, RowEdition DEF Fresh
  <2>3. StoreIsKept(r)
    BY <1>1, <1>4, <2>1, <2>2, StoreShrinks DEF Fresh
  <2>4. drawn' \in Nat /\ drawn' >= drawn
    BY <1>1 DEF RowsAgree, TypeOK
  <2>5. QED
    BY <1>1, <1>2, <2>3, <2>4, IdleIsOrderly, FilesStay
<1>5. QED
  BY <1>3, <1>4 DEF Undo, files

(***************************************************************************)
(* The prune and the deletion.                                             *)
(***************************************************************************)
LEMMA PruneSelectFiles ==
  ASSUME RowsAgree, RowsAgree', FileInv, NEW r \in Requests, PruneSelect(r)
  PROVE  FileInv'
<1>1. UNCHANGED <<db, objects, drawn>> /\ UNCHANGED <<book, revisions>>
      /\ book.state # "none"
  BY BookIsThere DEF PruneSelect, At, db, files
<1>3. ASSUME NEW limit, NEW rows \in SUBSET Prunable(limit), UNCHANGED mutex,
             Become(r, [req[r] EXCEPT !.items = rows, !.pc = "pruneRow"])
      PROVE  FileInv'
  <2> DEFINE next == [req[r] EXCEPT !.items = rows, !.pc = "pruneRow"]
  <2>1. next.pc = "pruneRow" /\ next.op = req[r].op /\ next.items = rows
    BY DEF RowsAgree, TypeOK, RequestType
  <2>2. Become(r, next)
    BY <1>3
  <2> HIDE DEF next
  <2>3. req'[r] = next /\ Own(r)
    BY <1>3, <2>2, Becomes DEF Own
  <2>4. \A e \in rows : e \in revisions /\ ~e.original
    BY DEF Prunable
  <2>5. NoRename(r)' /\ Begun(r)' /\ Swept(r)'
    BY <1>1, <2>1, <2>3, OpStays DEF NoRename, RenamePoints, Begun, Swept
  <2>6. Fresh(r)' /\ Seen(r)'
    BY <2>1, <2>3 DEF Fresh, HasEntry, Entered, Seen, Acting, Checked
  <2>7. Leaves(r)'
    BY <1>1, <2>1, <2>3, <2>4 DEF Leaves, FileInv, StoreInv, KeysDiffer
  <2>8. RemembersKnown(r)
    BY <2>1, <2>3, <2>4
       DEF RemembersKnown, Remembers, HasSource, Known, Acting, Checked, Restoring
  <2>9. QED
    BY <1>1, <2>3, <2>5, <2>6, <2>7, <2>8, CalmFiles DEF Orderly
<1>4. QED
  BY <1>3 DEF PruneSelect

LEMMA PruneFiles ==
  ASSUME RowsAgree, RowsAgree', FileInv, NEW r \in Requests, Own(r), Keeps(r),
         req[r].pc \in Pruning, req'[r].pc \in Pruning, UNCHANGED <<book, drawn>>,
         revisions' \subseteq revisions, StoreIsKept(r)
  PROVE  FileInv'
<1>1. book.state # "none"
  BY BookIsThere DEF Pruning
<1>2. RowsOnlyGo
  BY DEF RowsOnlyGo, Exists, Live
<1>3. /\ req'[r].pc \notin Entered /\ req'[r].pc \notin Acting /\ req'[r].pc \notin Saved
      /\ req'[r].pc \notin Restoring \cup RenamePoints /\ req'[r].pc # "deleteSweep"
  BY DEF Pruning, Entered, Saved, Acting, Checked, Restoring, RenamePoints
<1>4. QED
  BY <1>1, <1>2, <1>3, KeptFiles

LEMMA PruneRowFiles ==
  ASSUME RowsAgree, RowsAgree', FileInv, NEW r \in Requests, PruneRow(r)
  PROVE  FileInv'
<1>1. UNCHANGED <<book, objects, drawn>> /\ req[r].pc \in Pruning /\ StoreIsKept(r)
  BY StoreUntouched DEF PruneRow, At, files, Pruning
<1>2. CASE Return(r) /\ UNCHANGED revisions
  BY <1>1, <1>2, EndFiles DEF db
<1>3. ASSUME NEW e, UNCHANGED mutex, revisions' \subseteq revisions,
             NextItem(r, e) \/ Goto(r, "pruneObject")
      PROVE  FileInv'
  <2>1. Own(r) /\ Keeps(r) /\ req'[r].pc \in Pruning
    BY <1>3, GotoKeeps, NextItemKeeps DEF Own, Goto, NextItem, Pruning
  <2>2. QED
    BY <1>1, <1>3, <2>1, PruneFiles
<1>4. QED
  BY <1>2, <1>3 DEF PruneRow

\* The object of a pruned revision is no row's and no publication's.
LEMMA PruneObjectFiles ==
  ASSUME RowsAgree, RowsAgree', HistoryInv, FileInv, NEW r \in Requests, PruneObject(r)
  PROVE  FileInv'
<1>1. UNCHANGED <<book, revisions, drawn, mutex>> /\ UNCHANGED db
      /\ req[r].pc = "pruneObject" /\ req[r].pc \in Pruning
  BY DEF PruneObject, At, db, Pruning
<1>2. PICK e \in req[r].items :
        /\ IsNext(r, e)
        /\ objects' = Delete(objects, e.key) \/ UNCHANGED objects
        /\ NextItem(r, e) \/ Goto(r, "pruneCheck")
  BY DEF PruneObject
<1>3. Own(r) /\ Keeps(r) /\ req'[r].pc \in Pruning
  BY <1>1, <1>2, GotoKeeps, NextItemKeeps DEF Own, Goto, NextItem, Pruning
<1>4. CASE UNCHANGED objects
  BY <1>1, <1>3, <1>4, StoreUntouched, PruneFiles
<1>5. CASE objects' = Delete(objects, e.key)
  <2>1. ASSUME Exists, NEW d \in revisions, d.key = e.key
        PROVE  FALSE
    <3>1. d = e /\ ~e.original
      BY <1>1, <1>2, <2>1 DEF FileInv, Orderly, Leaves
    <3>2. e.revision \notin EditedNumbers
      BY <1>1, <1>2, <2>1 DEF HistoryInv, History, RowIsGone, Pruning
    <3>3. QED
      BY <3>1, <3>2 DEF EditedNumbers, NumbersOf, Edited
  <2>2. Edition(e) \in Object /\ Edition(e).key = e.key
    BY <1>2, EditionType DEF RowsAgree, TypeOK, RequestType, Entry
  <2>3. Known(Edition(e))
    BY <1>1, <1>2 DEF Known, Remembers
  <2>4. \A q \in Requests : q # r /\ HasEntry(q) => req[q].entry.key # e.key
    BY <2>2, <2>3 DEF FileInv, Orderly, Fresh
  <2>5. RowsOnlyGo
    BY <1>1, RowsUnchanged
  <2>6. StoreIsKept(r)
    BY <1>1, <1>5, <2>1, <2>4, <2>5, StoreShrinks DEF Exists
  <2>7. QED
    BY <1>1, <1>3, <2>6, PruneFiles
<1>6. QED
  BY <1>2, <1>4, <1>5

LEMMA PruneCoverFiles ==
  ASSUME RowsAgree, RowsAgree', FileInv, NEW r \in Requests, PruneCheck(r) \/ PruneCover(r)
  PROVE  FileInv'
<1>1. UNCHANGED <<book, revisions, objects, drawn, mutex>> /\ req[r].pc \in Pruning
  BY DEF PruneCheck, PruneCover, At, db, files, Pruning
<1>2. PICK e \in req[r].items : NextItem(r, e) \/ Goto(r, "pruneCover")
  BY DEF PruneCheck, PruneCover
<1>3. Own(r) /\ Keeps(r) /\ req'[r].pc \in Pruning
  BY <1>1, <1>2, GotoKeeps, NextItemKeeps DEF Own, Goto, NextItem, Pruning
<1>4. QED
  BY <1>1, <1>3, StoreUntouched, PruneFiles

LEMMA DeleteCommitFiles ==
  ASSUME RowsAgree, RowsAgree', FileInv, NEW r \in Requests, DeleteCommit(r)
  PROVE  FileInv'
<1>1. UNCHANGED <<objects, drawn>>
  BY DEF DeleteCommit, files
<1>2. CASE Return(r) /\ UNCHANGED db
  BY <1>1, <1>2, EndFiles
<1>3. CASE /\ book' = [NoBook EXCEPT !.state = "gone"] /\ revisions' = {}
           /\ Goto(r, "deleteSweep") /\ UNCHANGED mutex
  <2>1. req'[r].pc = "deleteSweep" /\ Keeps(r) /\ Own(r)
    BY <1>3, GotoKeeps DEF Goto, Own
  <2>2. book'.state = "gone" /\ RowsOnlyGo
    BY <1>3 DEF NoBook, RowsOnlyGo, Exists, Live
  <2>3. "deleteSweep" \notin Entered /\ "deleteSweep" \notin Acting
        /\ "deleteSweep" \notin Pruning /\ "deleteSweep" \notin Restoring \cup RenamePoints
    BY DEF Entered, Pruning, Acting, Checked, Restoring, RenamePoints
  <2>4. QED
    BY <1>1, <2>1, <2>2, <2>3, StoreUntouched, KeptFiles
<1>4. QED
  BY <1>2, <1>3 DEF DeleteCommit

LEMMA DeleteSweepFiles ==
  ASSUME RowsAgree, RowsAgree', FileInv, NEW r \in Requests, DeleteSweep(r)
  PROVE  FileInv'
<1>1. UNCHANGED <<db, drawn>> /\ UNCHANGED book /\ RowsOnlyGo
      /\ req[r].pc = "deleteSweep" /\ book.state = "gone"
  BY RowsUnchanged DEF DeleteSweep, At, db, FileInv, Orderly, Swept
<1>2. drawn' \in Nat /\ drawn' >= drawn
  BY <1>1 DEF RowsAgree, TypeOK
<1>3. ASSUME NEW key, objects' \in {objects, Delete(objects, key)}
      PROVE  StoreIsKept(r)
  BY <1>1, <1>3, StoreUntouched, StoreShrinks DEF Exists
<1>4. CASE req[r].items = {} /\ Return(r) /\ UNCHANGED files
  BY <1>1, <1>4, EndFiles DEF files
<1>5. ASSUME NEW e \in req[r].items, Return(r), objects' \in {objects, Delete(objects, e.key)}
      PROVE  FileInv'
  <2>1. req'[r] = Idle /\ Own(r)
    BY <1>5, Becomes DEF Return, Own
  <2>2. QED
    BY <1>1, <1>2, <1>3, <1>5, <2>1, IdleIsOrderly, FilesStay
<1>6. ASSUME NEW e \in req[r].items, objects' = Delete(objects, e.key), UNCHANGED mutex,
             Become(r, [req[r] EXCEPT !.items = req[r].items \ {e}])
      PROVE  FileInv'
  <2> DEFINE next == [req[r] EXCEPT !.items = req[r].items \ {e}]
  <2>1. /\ next.pc = req[r].pc /\ next.op = req[r].op /\ next.source = req[r].source
        /\ next.book = req[r].book /\ next.entry = req[r].entry
        /\ next.items \subseteq req[r].items
    BY DEF RowsAgree, TypeOK, RequestType
  <2>2. Become(r, next)
    BY <1>6
  <2> HIDE DEF next
  <2>3. req'[r].pc = "deleteSweep" /\ Keeps(r) /\ Own(r)
    BY <1>1, <1>6, <2>1, <2>2, Becomes DEF Own, Keeps
  <2>4. "deleteSweep" \notin Entered /\ "deleteSweep" \notin Acting
        /\ "deleteSweep" \notin Pruning /\ "deleteSweep" \notin Restoring \cup RenamePoints
    BY DEF Entered, Pruning, Acting, Checked, Restoring, RenamePoints
  <2>5. QED
    BY <1>1, <1>3, <1>6, <2>3, <2>4, KeptFiles
<1>7. QED
  BY <1>4, <1>5, <1>6 DEF DeleteSweep

(***************************************************************************)
(* A new entry: its directory has just been drawn.                         *)
(***************************************************************************)
LEMMA DrawnIsNew ==
  ASSUME RowsAgree, FileInv, NEW key, key.dir = drawn + 1
  PROVE  /\ \A k \in Object : Known(k) => k.key # key
         /\ \A q \in Requests : HasEntry(q) => req[q].entry.key # key
<1>1. drawn \in Nat
  BY DEF RowsAgree, TypeOK
<1>2. ASSUME NEW k \in Object, Known(k)
      PROVE  k.key # key
  <2>1. k.key.dir <= drawn /\ k.key.dir \in Nat
    BY <1>2 DEF FileInv, StoreInv, Genuine, Object, Key
  <2>2. QED
    BY <1>1, <2>1
<1>3. ASSUME NEW q \in Requests, HasEntry(q)
      PROVE  req[q].entry.key # key
  <2>1. req[q].entry.key.dir <= drawn
    BY <1>3 DEF FileInv, Orderly, Fresh
  <2>2. req[q].entry.key.dir \in Nat
    BY DEF RowsAgree, TypeOK, RequestType, Entry, Key
  <2>3. QED
    BY <1>1, <2>1, <2>2
<1>4. QED
  BY <1>2, <1>3

LEMMA NewEntryIsFresh ==
  ASSUME RowsAgree, RowsAgree', FileInv, NEW r \in Requests, Own(r), RowsOnlyGo,
         RemembersKnown(r), req'[r].entry.key.dir = drawn + 1, drawn' >= drawn + 1,
         req'[r].pc \in Saved => Edition(req'[r].entry) \in objects'
  PROVE  Fresh(r)'
<1>1. req'[r].entry.key.dir <= drawn'
  BY DEF RowsAgree, TypeOK
<1>2. \A k \in Object : Known(k)' => k.key.dir # req'[r].entry.key.dir
  BY KnownStays, DrawnIsNew DEF RowsAgree
<1>3. \A q \in Requests :
        q # r /\ HasEntry(q)' => req'[q].entry.key.dir # req'[r].entry.key.dir
  BY OthersAreUntouched, DrawnIsNew DEF HasEntry
<1>4. req'[r].pc \in Saved => Holds(req[r].entry.key, req[r].entry.text)'
  BY DEF Holds, Edition
<1>5. QED
  BY <1>1, <1>2, <1>3, <1>4 DEF Fresh

LEMMA CreateSaveFiles ==
  ASSUME RowsAgree, RowsAgree', FileInv, NEW r \in Requests, CreateSave(r)
  PROVE  FileInv'
<1>1. UNCHANGED db /\ UNCHANGED book /\ RowsOnlyGo
  BY RowsUnchanged DEF CreateSave, db
<1>2. CASE Return(r) /\ UNCHANGED <<objects, drawn>>
  BY <1>1, <1>2, EndFiles
<1>3. ASSUME NEW entry, entry.key.dir = drawn + 1, objects' = Save(objects, entry.key, entry.text),
             Become(r, [req[r] EXCEPT !.pc = "createInsert", !.entry = entry]),
             drawn' = drawn + 1, UNCHANGED mutex
      PROVE  FileInv'
  <2> DEFINE next == [req[r] EXCEPT !.pc = "createInsert", !.entry = entry]
  <2>1. next.pc = "createInsert" /\ next.op = req[r].op /\ next.entry = entry
    BY DEF RowsAgree, TypeOK, RequestType
  <2>2. Become(r, next)
    BY <1>3
  <2> HIDE DEF next
  <2>3. req'[r] = next /\ Own(r)
    BY <1>3, <2>2, Becomes DEF Own
  <2>4. RemembersKnown(r)
    BY <2>1, <2>3 DEF RemembersKnown, Remembers, HasSource, Acting, Checked, Restoring, Pruning
  <2>5. StoreIsKept(r) /\ Edition(entry) \in objects'
    BY <1>1, <1>3, DrawnIsNew, StoreGrows DEF Edition
  <2>6. drawn' \in Nat /\ drawn' >= drawn /\ drawn' >= drawn + 1
    BY <1>3 DEF RowsAgree, TypeOK
  <2>7. Fresh(r)'
    BY <1>1, <1>3, <2>1, <2>3, <2>4, <2>5, <2>6, NewEntryIsFresh
  <2>8. NoRename(r)' /\ Begun(r)' /\ Swept(r)' /\ Leaves(r)' /\ Seen(r)'
    BY <2>1, <2>3, OpStays
       DEF NoRename, Begun, Swept, Leaves, Seen, RenamePoints, Acting, Checked, Pruning
  <2>9. QED
    BY <1>1, <2>3, <2>4, <2>5, <2>6, <2>7, <2>8, FilesStay DEF Orderly
<1>4. ASSUME NEW now \in Times, NEW name \in Filenames, UNCHANGED mutex, drawn' = drawn + 1,
             objects' = Save(objects, [dir |-> drawn + 1, name |-> name], Blank),
             Become(r, [req[r] EXCEPT
                          !.pc = "createInsert",
                          !.entry = [revision |-> now,
                                     key |-> [dir |-> drawn + 1, name |-> name], cover |-> 0,
                                     text |-> Blank, original |-> TRUE]])
      PROVE  FileInv'
  <2> DEFINE entry == [revision |-> now, key |-> [dir |-> drawn + 1, name |-> name],
                       cover |-> 0, text |-> Blank, original |-> TRUE]
  <2>1. entry.key.dir = drawn + 1 /\ objects' = Save(objects, entry.key, entry.text)
    BY <1>4
  <2>2. Become(r, [req[r] EXCEPT !.pc = "createInsert", !.entry = entry])
    BY <1>4
  <2> HIDE DEF entry
  <2> QED
    BY <1>3, <1>4, <2>1, <2>2
<1>5. QED
  BY <1>2, <1>4 DEF CreateSave

LEMMA PublishMutateFiles ==
  ASSUME RowsAgree, RowsAgree', FileInv, NEW r \in Requests, PublishMutate(r)
  PROVE  FileInv'
<1>1. UNCHANGED <<db, objects>> /\ UNCHANGED book /\ RowsOnlyGo
      /\ req[r].pc = "publishMutate" /\ book.state # "none"
  BY RowsUnchanged, BookIsThere DEF PublishMutate, At, db, files
<1>2. CASE Return(r) /\ UNCHANGED drawn
  BY <1>1, <1>2, EndFiles
<1>3. ASSUME NEW entry, entry.key.dir = drawn + 1, UNCHANGED mutex, drawn' = drawn + 2,
             Become(r, [req[r] EXCEPT !.entry = entry, !.pc = "publishSave"])
      PROVE  FileInv'
  <2> DEFINE next == [req[r] EXCEPT !.entry = entry, !.pc = "publishSave"]
  <2>1. next.pc = "publishSave" /\ next.op = req[r].op /\ next.entry = entry
        /\ next.book = req[r].book
    BY DEF RowsAgree, TypeOK, RequestType
  <2>2. Become(r, next)
    BY <1>3
  <2> HIDE DEF next
  <2>3. req'[r] = next /\ Own(r)
    BY <1>3, <2>2, Becomes DEF Own
  <2>4. RemembersKnown(r)
    BY <1>1, <2>1, <2>3
       DEF RemembersKnown, Remembers, HasSource, Known, Acting, Restoring, Pruning
  <2>5. StoreIsKept(r)
    BY <1>1, StoreUntouched
  <2>6. drawn' \in Nat /\ drawn' >= drawn /\ drawn' >= drawn + 1
    BY <1>3 DEF RowsAgree, TypeOK
  <2>7. Fresh(r)'
    BY <1>1, <1>3, <2>1, <2>3, <2>4, <2>6, NewEntryIsFresh DEF Saved
  <2>8. Seen(r)'
    BY <1>1, <2>1, <2>3 DEF FileInv, Orderly, Seen, Acting, Exists
  <2>9. NoRename(r)' /\ Begun(r)' /\ Swept(r)' /\ Leaves(r)'
    BY <1>1, <2>1, <2>3, OpStays
       DEF NoRename, Begun, Swept, Leaves, RenamePoints, Pruning
  <2>10. QED
    BY <1>1, <2>3, <2>4, <2>5, <2>6, <2>7, <2>8, <2>9, FilesStay DEF Orderly
<1>4. ASSUME NEW revision, NEW text, UNCHANGED mutex, drawn' = drawn + 2,
             Become(r, [req[r] EXCEPT
                          !.entry = [revision |-> revision, key |-> RevisionStorageKey(r),
                                     cover |-> EditedCover(r), text |-> text,
                                     original |-> FALSE],
                          !.pc = "publishSave"])
      PROVE  FileInv'
  <2> DEFINE entry == [revision |-> revision, key |-> RevisionStorageKey(r),
                       cover |-> EditedCover(r), text |-> text, original |-> FALSE]
  <2>1. entry.key.dir = drawn + 1
    BY DEF RevisionStorageKey
  <2>2. Become(r, [req[r] EXCEPT !.entry = entry, !.pc = "publishSave"])
    BY <1>4
  <2> HIDE DEF entry
  <2> QED
    BY <1>3, <1>4, <2>1, <2>2
<1>5. QED
  BY <1>2, <1>4 DEF PublishMutate

(***************************************************************************)
(* An entry becomes a row.                                                 *)
(***************************************************************************)
Enters(r) ==
  /\ req[r].pc \in {"createInsert", "publishCommit"} /\ req'[r].pc \in {"idle", "publishReply"}
  /\ req'[r].op # "update" /\ Own(r)
  /\ revisions' = revisions \cup {req[r].entry}
  /\ book.state \in {"none", "live"} /\ book'.state = "live"
  /\ book.state = "live" => req[r].entry.revision > book.revision
  /\ book'.revision = req[r].entry.revision /\ book'.key = req[r].entry.key
  /\ book'.cover = req[r].entry.cover /\ book'.text = req[r].entry.text
  /\ UNCHANGED <<objects, drawn>>

LEMMA EntersKnown ==
  ASSUME NEW r \in Requests, RowsAgree, Enters(r), NEW k \in Object, Known(k)'
  PROVE  Known(k) \/ k = Edition(req[r].entry)
<1>1. ~Remembers(r, k)'
  BY DEF Enters, Remembers, HasSource, Acting, Checked, Restoring, Pruning
<1>2. \A q \in Requests : Remembers(q, k)' => Remembers(q, k)
  BY <1>1, OthersAreUntouched DEF Enters, Remembers, HasSource
<1>3. QED
  BY <1>2 DEF Known, Enters

LEMMA EntersStore ==
  ASSUME RowsAgree, RowsAgree', FileInv, NEW r \in Requests, Enters(r)
  PROVE  StoreInv' /\ Fresh(r) /\ HasEntry(r)
<1>1. Fresh(r) /\ HasEntry(r) /\ Edition(req[r].entry) \in objects
  BY SavedEntry DEF Enters, FileInv, Orderly, HasEntry, Entered, Saved
<1>2. /\ Edition(req[r].entry) \in Object
      /\ Edition(req[r].entry).key = req[r].entry.key
  BY EntryEdition DEF RowsAgree
<1>3. ASSUME NEW k \in Object, Known(k)'
      PROVE  k.key.dir <= drawn' /\ \A o \in objects' : o.key = k.key => o = k
  <2>1. CASE Known(k)
    BY <2>1 DEF FileInv, StoreInv, Genuine, Enters
  <2>2. CASE k = Edition(req[r].entry)
    BY <1>1, <1>2, <2>2 DEF FileInv, StoreInv, Unique, Fresh, Enters
  <2>3. QED
    BY <1>3, <2>1, <2>2, EntersKnown
<1>4. \A e \in revisions : e.key.dir # req[r].entry.key.dir
  BY <1>1, RowEdition DEF Fresh
<1>5. KeysDiffer'
  BY <1>4 DEF FileInv, StoreInv, KeysDiffer, Enters
<1>6. ASSUME NEW e \in revisions'
      PROVE  Holds(e.key, e.text)'
  <2>1. CASE e = req[r].entry
    BY <1>1, <2>1 DEF Enters, Holds, Edition
  <2>2. CASE e \in revisions
    <3>1. Exists
      BY <2>2 DEF RowsAgree, Ledger
    <3>2. Holds(e.key, e.text)
      BY <2>2, <3>1 DEF FileInv, StoreInv, RowsHold
    <3>3. QED
      BY <3>2 DEF Holds, Enters
  <2>3. QED
    BY <1>6, <2>1, <2>2 DEF Enters
<1>7. BookIsListed'
  BY DEF BookIsListed, Enters
<1>8. Unique'
  BY DEF FileInv, StoreInv, Unique, Enters
<1>9. QED
  BY <1>1, <1>3, <1>5, <1>6, <1>7, <1>8 DEF StoreInv, Genuine, RowsHold

LEMMA EntersOthers ==
  ASSUME RowsAgree, RowsAgree', FileInv, NEW r \in Requests, Enters(r),
         NEW q \in Requests, q # r
  PROVE  Orderly(q)'
<1>1. req'[q] = req[q] /\ Orderly(q)
  BY OthersAreUntouched DEF Enters, FileInv
<1>2. Fresh(r) /\ HasEntry(r)
  BY EntersStore
<1>3. NoRename(q)' /\ Begun(q)' /\ Swept(q)'
  BY <1>1 DEF Orderly, NoRename, Begun, Swept, Enters
<1>4. Fresh(q)'
  <2>1. SUFFICES ASSUME HasEntry(q)
                 PROVE  Fresh(q)'
    BY <1>1 DEF Fresh, HasEntry
  <2>2. req[q].entry.key.dir <= drawn'
    BY <1>1, <2>1 DEF Orderly, Fresh, Enters
  <2>3. req[r].entry.key.dir # req[q].entry.key.dir
    BY <1>1, <1>2, <2>1 DEF Orderly, Fresh
  <2>4. \A k \in Object : Known(k)' => k.key.dir # req[q].entry.key.dir
    BY <1>1, <2>1, <2>3, EntersKnown, EntryEdition DEF Orderly, Fresh, RowsAgree
  <2>5. ASSUME NEW p \in Requests, p # q, HasEntry(p)'
        PROVE  req'[p].entry.key.dir # req[q].entry.key.dir
    <3>1. p # r
      BY <2>5 DEF Enters, HasEntry, Entered
    <3>2. req'[p] = req[p]
      BY <3>1, OthersAreUntouched DEF Enters
    <3>3. QED
      BY <1>1, <2>1, <2>5, <3>2 DEF Orderly, Fresh, HasEntry
  <2>6. req[q].pc \in Saved => Holds(req[q].entry.key, req[q].entry.text)'
    BY <1>1, <2>1 DEF Orderly, Fresh, Enters, Holds
  <2>7. QED
    BY <1>1, <2>2, <2>4, <2>5, <2>6 DEF Fresh
<1>5. req[q].pc \in Pruning \cup Acting => book.state = "live" /\ Exists
  BY <1>1 DEF Enters, Orderly, Begun, Pruning, Acting, Checked, Exists
<1>6. Leaves(q)'
  <2>1. SUFFICES ASSUME req[q].pc \in Pruning, NEW e \in req[q].items,
                        NEW d \in revisions', d.key = e.key
                 PROVE  ~e.original /\ d = e
    <3>1. req[q].pc \in Pruning => \A e \in req[q].items : ~e.original
      BY <1>1, <1>5 DEF Orderly, Leaves
    <3>2. QED
      BY <1>1, <2>1, <3>1 DEF Leaves
  <2>2. Edition(e) \in Object /\ Edition(e).key = e.key /\ Known(Edition(e))
    BY <2>1, EditionType DEF RowsAgree, TypeOK, RequestType, Entry, Known, Remembers
  <2>3. d \in revisions
    BY <1>2, <2>1, <2>2 DEF Fresh, Enters
  <2>4. QED
    BY <1>1, <1>5, <2>1, <2>3 DEF Orderly, Leaves
<1>7. Seen(q)'
  <2>1. SUFFICES ASSUME req[q].pc \in Acting
                 PROVE  req[q].book.revision < book'.revision
    BY <1>1 DEF Seen, RowsAgree, TypeOK, RequestType, BookRow
  <2>2. req[q].book.revision <= book.revision
    BY <1>1, <1>5, <2>1 DEF Orderly, Seen
  <2>3. book.revision < book'.revision
    BY <1>5, <2>1 DEF Enters, RowsAgree, TypeOK, BookRow
  <2>4. QED
    BY <2>2, <2>3 DEF RowsAgree, TypeOK, RequestType, BookRow
<1>8. QED
  BY <1>3, <1>4, <1>6, <1>7 DEF Orderly

LEMMA EntersFiles ==
  ASSUME RowsAgree, RowsAgree', FileInv, NEW r \in Requests, Enters(r)
  PROVE  FileInv'
<1>1. Orderly(r)'
  BY PlainIsOrderly
     DEF Enters, Claiming, Entered, Acting, Checked, Pruning, RenamePoints
<1>2. QED
  BY <1>1, EntersStore, EntersOthers DEF FileInv

\* A transaction that commits an upload or a publication makes its entry a row.
LEMMA CommitEnters ==
  ASSUME RowsAgree, FileInv, NEW r \in Requests, CreateInsert(r) \/ PublishCommit(r)
  PROVE  Enters(r) \/ (Goto(r, "undo") /\ UNCHANGED mutex /\ UNCHANGED db)
<1>1. UNCHANGED <<objects, drawn>> /\ req[r].pc \in {"createInsert", "publishCommit"}
  BY DEF CreateInsert, PublishCommit, At, files
<1>2. ASSUME CreateInsert(r), Return(r), revisions' = revisions \cup {req[r].entry},
             book' = [state |-> "live", revision |-> req[r].entry.revision,
                      key |-> req[r].entry.key, cover |-> 0, text |-> req[r].entry.text]
      PROVE  Enters(r)
  <2>1. req'[r].pc = "idle" /\ req'[r].op = "none" /\ Own(r)
    BY <1>2, Becomes DEF Return, Own, Idle
  <2>2. book.state = "none" /\ req[r].entry.cover = 0
    BY <1>2 DEF RowsAgree, Proper, UploadIsFirst, CreateInsert, At
  <2>3. QED
    BY <1>1, <1>2, <2>1, <2>2 DEF Enters
<1>3. ASSUME PublishCommit(r), MayCommit(r), revisions' = revisions \cup {req[r].entry},
             book' = [book EXCEPT !.revision = req[r].entry.revision,
                                  !.key = req[r].entry.key, !.cover = req[r].entry.cover,
                                  !.text = req[r].entry.text],
             Goto(r, "publishReply"), UNCHANGED mutex
      PROVE  Enters(r)
  <2>1. req'[r].pc = "publishReply" /\ req'[r].op # "update" /\ Own(r)
    BY <1>3, GotoKeeps, OpStays DEF Keeps, Goto, Own
  <2>2. book.state = "live" /\ Exists
    BY <1>3 DEF MayCommit, Live, Exists
  <2>3. req[r].entry.revision > book.revision
    BY <1>3, <2>2 DEF RowsAgree, Proper, ReadIsCurrent, Checked, PublishCommit, At
  <2>4. /\ book'.state = "live" /\ book'.revision = req[r].entry.revision
        /\ book'.key = req[r].entry.key /\ book'.cover = req[r].entry.cover
        /\ book'.text = req[r].entry.text
    BY <1>3, <2>2 DEF RowsAgree, TypeOK, BookRow
  <2>5. QED
    BY <1>1, <1>3, <2>1, <2>2, <2>3, <2>4 DEF Enters
<1>4. CASE CreateInsert(r)
  BY <1>2, <1>4 DEF CreateInsert
<1>5. CASE PublishCommit(r)
  BY <1>3, <1>5 DEF PublishCommit
<1>6. QED
  BY <1>4, <1>5

LEMMA CommitFiles ==
  ASSUME RowsAgree, RowsAgree', FileInv, NEW r \in Requests,
         CreateInsert(r) \/ PublishCommit(r)
  PROVE  FileInv'
<1>1. UNCHANGED <<objects, drawn>> /\ req[r].pc \in {"createInsert", "publishCommit"}
  BY DEF CreateInsert, PublishCommit, At, files
<1>2. CASE Goto(r, "undo") /\ UNCHANGED mutex /\ UNCHANGED db
  BY <1>1, <1>2, FailsFiles
<1>3. QED
  BY <1>2, CommitEnters, EntersFiles

(***************************************************************************)
(* Put together.                                                           *)
(***************************************************************************)
LEMMA NobodyIsRenaming ==
  ASSUME FileInv, NEW r \in Requests
  PROVE  ~(UpdateGet(r) \/ UpdateRename(r) \/ UpdateCommit(r) \/ UpdateBack(r))
  BY DEF FileInv, Orderly, NoRename, RenamePoints, UpdateGet, UpdateRename, UpdateCommit,
         UpdateBack, At

LEMMA FileStep ==
  ASSUME RowsAgree, RowsAgree', HistoryInv, FileInv, [Next]_vars,
         \A r \in Requests : ~AcceptUpdate(r)
  PROVE  FileInv'
<1>1. CASE UNCHANGED vars
  <2>1. \A k : Known(k)' <=> Known(k)
    BY <1>1 DEF vars, Known, Remembers, HasSource
  <2>2. StoreInv'
    BY <1>1, <2>1 DEF vars, FileInv, StoreInv, Unique, Genuine, KeysDiffer, RowsHold,
                      BookIsListed, Holds, Exists, Live
  <2>3. \A r \in Requests : Orderly(r)'
    BY <1>1, <2>1 DEF vars, FileInv, Orderly, NoRename, Begun, Swept, Fresh, HasEntry, Leaves,
                      Seen, Holds, Exists
  <2>4. QED
    BY <2>2, <2>3 DEF FileInv
<1>2. ASSUME NEW r \in Requests, AcceptAny(r) \/ PublishLock(r) \/ Step(r)
      PROVE  FileInv'
  <2>1. CASE AcceptAny(r) \/ PublishLock(r)
    BY <2>1, AcceptFiles, PlainSteps
  <2>2. CASE Publish(r)
    BY <2>2, OpenFiles, PublishMutateFiles, PublishSaveFiles, PublishCoverFiles, CommitFiles,
       UndoFiles, PlainSteps DEF Publish
  <2>3. CASE Prune(r)
    BY <2>3, PruneSelectFiles, PruneRowFiles, PruneObjectFiles, PruneCoverFiles DEF Prune
  <2>4. CASE DeleteGet(r) \/ DeleteList(r) \/ DeleteCommit(r) \/ DeleteSweep(r)
    BY <2>4, PlainSteps, DeleteCommitFiles, DeleteSweepFiles
  <2>5. QED
    BY <1>2, <2>1, <2>2, <2>3, <2>4, CreateSaveFiles, CommitFiles, RestoreFiles, ArchiveFiles,
       OpenFiles, NobodyIsRenaming DEF Step
<1>3. QED
  BY <1>1, <1>2, CrashFiles DEF Next

LEMMA FileInit == Init => FileInv
<1> SUFFICES ASSUME Init
             PROVE  FileInv
  OBVIOUS
<1>1. \A q \in Requests : req[q].pc = "idle" /\ req[q].op = "none"
  BY DEF Init, Idle
<1>2. \A q \in Requests : Orderly(q)
  BY <1>1 DEF Init, NoBook, Orderly, NoRename, RenamePoints, Begun, Swept, Fresh, HasEntry,
              Entered, Leaves, Pruning, Seen, Acting, Checked
<1>3. \A k : ~Known(k)
  BY <1>1 DEF Init, Known, Remembers, HasSource, Acting, Checked, Restoring, Pruning
<1>4. StoreInv
  BY <1>3 DEF Init, NoBook, StoreInv, Unique, Genuine, KeysDiffer, RowsHold, BookIsListed,
              Exists, Live
<1>5. QED
  BY <1>2, <1>4 DEF FileInv

\* The invariant behind the theorems below.
THEOREM FilesAreKept ==
  ASSUME NobodyRenames
  PROVE  Spec => []FileInv
<1>1. \A r \in Requests : ~AcceptUpdate(r)
  BY DEF NobodyRenames, AcceptUpdate, Accept
<1>2. RowsAgree /\ RowsAgree' /\ HistoryInv /\ FileInv /\ [Next]_vars => FileInv'
  BY <1>1, FileStep
<1>3. QED
  BY <1>2, FileInit, HistoryIsKept, RowsAlwaysAgree, PTL DEF Spec

\* The bytes of the current revision are under its key and have its checksum,
\* through failed calls, prunes and crashes, and next to any publication,
\* restoration, deletion or download.
THEOREM CurrentStaysReadable ==
  ASSUME NobodyRenames
  PROVE  Spec => []CurrentIsReadable
<1>1. FileInv => CurrentIsReadable
  BY DEF FileInv, StoreInv, RowsHold, BookIsListed, CurrentIsReadable, Live, Exists
<1>2. QED
  BY <1>1, FilesAreKept, PTL

\* So are those of every older revision, as long as it can be restored: nothing
\* deletes the bytes of a revision before its row.
THEOREM HistoryStaysReadable ==
  ASSUME NobodyRenames
  PROVE  Spec => []HistoryIsReadable
<1>1. FileInv => HistoryIsReadable
  BY DEF FileInv, StoreInv, RowsHold, HistoryIsReadable, Live, Exists
<1>2. QED
  BY <1>1, FilesAreKept, PTL

\* A download is given the bytes of the revision whose row it has read, or none,
\* and none only if the book has moved on or been withdrawn since.
THEOREM DownloadsAreWhole ==
  ASSUME NobodyRenames
  PROVE  Spec => DownloadIsWhole
<1> DEFINE Whole == \A r \in Requests :
             At(r, "openRead") /\ OpenRead(r) /\ ~Holds(req[r].book.key, req[r].book.text)
               => /\ ~Stored(objects, req[r].book.key)
                  /\ ~Live \/ book.revision > req[r].book.revision
<1>1. RowsAgree /\ FileInv /\ [Next]_vars => [Whole]_vars
  <2>1. SUFFICES ASSUME RowsAgree, FileInv, NEW r \in Requests, At(r, "openRead"),
                        ~Holds(req[r].book.key, req[r].book.text)
                 PROVE  /\ ~Stored(objects, req[r].book.key)
                        /\ ~Live \/ book.revision > req[r].book.revision
    OBVIOUS
  <2>2. req[r].book.key \in Key /\ req[r].book.text \in Text
    BY <2>1 DEF RowsAgree, TypeOK, RequestType, BookRow
  <2>3. PICK k \in Object : k = Edition(req[r].book) /\ k.key = req[r].book.key
    BY <2>2, EditionType
  <2>4. k \notin objects
    BY <2>1, <2>3 DEF Holds, Edition
  <2>5. Known(k)
    BY <2>1, <2>3 DEF Known, Remembers, Acting, At
  <2>6. ~Stored(objects, req[r].book.key)
    BY <2>1, <2>3, <2>4, <2>5 DEF FileInv, StoreInv, Genuine, Stored
  <2>7. ASSUME Live
        PROVE  book.revision > req[r].book.revision
    <3>1. Exists
      BY <2>7 DEF Live, Exists
    <3>2. Holds(book.key, book.text)
      BY <2>1, <2>7, <3>1 DEF FileInv, StoreInv, RowsHold, BookIsListed
    <3>3. req[r].book.revision <= book.revision /\ req[r].book.revision # book.revision
      BY <2>1, <3>1, <3>2 DEF FileInv, Orderly, Seen, Acting, At
    <3>4. QED
      BY <2>1, <3>3 DEF RowsAgree, TypeOK, RequestType, BookRow
  <2>8. QED
    BY <2>6, <2>7
<1>2. Spec => [][Whole]_vars
  BY <1>1, FilesAreKept, RowsAlwaysAgree, PTL DEF Spec
<1>3. QED
  BY <1>2 DEF DownloadIsWhole

(***************************************************************************)
(* Pictures.  What a row shows, and what a restoration is about to bring   *)
(* back, is a cover preview and the picture inside the EPUB.               *)
(***************************************************************************)
Shown(cover, art) ==
  \/ \E e \in revisions : cover = e.cover /\ art = e.text.art
  \/ \E r \in Requests : /\ HasSource(r)
                         /\ cover = req[r].source.cover /\ art = req[r].source.text.art

Matching ==
  \A c, a, d, b \in Nat : Shown(c, a) /\ Shown(d, b) => (c = d <=> a = b)

\* Previews are numbered as they are drawn, pictures after revisions.
Dated == \A c, a \in Nat : Shown(c, a) => c <= drawn /\ a <= book.revision

\* So what is being published matches what is shown.
Matches(r) ==
  req[r].pc \in Checked =>
    /\ \A c, a \in Nat :
         Shown(c, a) => (c = req[r].entry.cover <=> a = req[r].entry.text.art)
    /\ req[r].entry.cover <= drawn
    /\ req[r].entry.text.art <= req[r].entry.revision

UploadIsBare(r) == req[r].pc = "createInsert" => req[r].entry.text.art = 0

PictureInv ==
  /\ Exists => Matching /\ Dated /\ \A r \in Requests : Matches(r)
  /\ \A r \in Requests : UploadIsBare(r)

LEMMA PictureTypes ==
  ASSUME RowsAgree
  PROVE  /\ \A e \in revisions : e.cover \in Nat /\ e.text.art \in Nat
         /\ \A r \in Requests : /\ req[r].source.cover \in Nat /\ req[r].source.text.art \in Nat
                                /\ req[r].entry.cover \in Nat /\ req[r].entry.text.art \in Nat
                                /\ req[r].entry.revision \in Nat
         /\ drawn \in Nat /\ book.revision \in Nat
  BY DEF RowsAgree, TypeOK, RequestType, Entry, Text, BookRow

\* A step after which the pictures shown are among those shown before.
LEMMA PicturesStay ==
  ASSUME RowsAgree, RowsAgree', PictureInv, NEW r \in Requests, Own(r),
         Exists' => Exists /\ book'.revision >= book.revision,
         drawn' >= drawn, revisions' \subseteq revisions,
         HasSource(r)' => Shown(req'[r].source.cover, req'[r].source.text.art),
         Exists' => Matches(r)', UploadIsBare(r)'
  PROVE  PictureInv'
<1>1. \A q \in Requests : q # r => req'[q] = req[q]
  BY OthersAreUntouched
<1>2. ASSUME NEW c \in Nat, NEW a \in Nat, Shown(c, a)'
      PROVE  Shown(c, a)
  <2>1. CASE \E e \in revisions' : c = e.cover /\ a = e.text.art
    BY <2>1 DEF Shown
  <2>2. CASE \E q \in Requests : /\ HasSource(q)'
                                 /\ c = req'[q].source.cover /\ a = req'[q].source.text.art
    BY <1>1, <2>2 DEF Shown, HasSource
  <2>3. QED
    BY <1>2, <2>1, <2>2 DEF Shown
<1>3. ASSUME Exists'
      PROVE  Matching' /\ Dated'
  <2>1. Matching'
    BY <1>2, <1>3 DEF PictureInv, Matching
  <2>2. ASSUME NEW c \in Nat, NEW a \in Nat, Shown(c, a)'
        PROVE  c <= drawn' /\ a <= book'.revision
    <3>1. c <= drawn /\ a <= book.revision
      BY <1>2, <1>3, <2>2 DEF PictureInv, Dated
    <3>2. drawn \in Nat /\ book.revision \in Nat /\ drawn' \in Nat /\ book'.revision \in Nat
      BY DEF RowsAgree, TypeOK, BookRow
    <3>3. QED
      BY <1>3, <3>1, <3>2
  <2>3. QED
    BY <2>1, <2>2 DEF Dated
<1>4. ASSUME NEW q \in Requests, q # r
      PROVE  (Exists' => Matches(q)') /\ UploadIsBare(q)'
  <2>1. UploadIsBare(q)'
    BY <1>1, <1>4 DEF PictureInv, UploadIsBare
  <2>2. SUFFICES ASSUME Exists', req[q].pc \in Checked
                 PROVE  Matches(q)'
    BY <1>1, <1>4, <2>1 DEF Matches
  <2>3. Matches(q)
    BY <2>2 DEF PictureInv
  <2>4. req[q].entry.cover <= drawn'
    <3>1. drawn \in Nat /\ drawn' \in Nat /\ req[q].entry.cover \in Nat
      BY PictureTypes DEF RowsAgree, TypeOK
    <3>2. QED
      BY <2>2, <2>3, <3>1 DEF Matches
  <2>5. QED
    BY <1>1, <1>2, <1>4, <2>2, <2>3, <2>4 DEF Matches
<1>5. QED
  BY <1>3, <1>4 DEF PictureInv

Depicting == Restoring \cup Checked \cup {"createInsert"}

\* The request that takes the step claims nothing of pictures.
LEMMA LeavesPictures ==
  ASSUME RowsAgree, RowsAgree', PictureInv, NEW r \in Requests, Own(r),
         UNCHANGED book \/ (Exists' => Exists /\ book'.revision = book.revision),
         drawn' >= drawn, revisions' \subseteq revisions,
         req'[r].pc \notin Depicting
  PROVE  PictureInv'
<1>1. ~HasSource(r)' /\ Matches(r)' /\ UploadIsBare(r)'
  BY DEF Depicting, HasSource, Matches, UploadIsBare
<1>2. Exists' => Exists /\ book'.revision >= book.revision
  BY DEF Exists, RowsAgree, TypeOK, BookRow
<1>3. QED
  BY <1>1, <1>2, PicturesStay

LEMMA EndPictures ==
  ASSUME RowsAgree, RowsAgree', PictureInv, NEW r \in Requests, Return(r),
         UNCHANGED book \/ (Exists' => Exists /\ book'.revision = book.revision),
         UNCHANGED drawn, revisions' \subseteq revisions
  PROVE  PictureInv'
<1>1. req'[r].pc = "idle" /\ Own(r)
  BY Becomes DEF Return, Own, Idle
<1>2. drawn' >= drawn
  BY DEF RowsAgree, TypeOK
<1>3. QED
  BY <1>1, <1>2, LeavesPictures DEF Depicting, Restoring, Checked

\* It goes on with what it had.
LEMMA KeepsPictures ==
  ASSUME RowsAgree, RowsAgree', PictureInv, NEW r \in Requests, Own(r), UNCHANGED book,
         UNCHANGED drawn, revisions' \subseteq revisions,
         req'[r].op = req[r].op, req'[r].source = req[r].source, req'[r].entry = req[r].entry,
         req'[r].pc \in Restoring => req[r].pc \in Restoring,
         req'[r].pc \in Checked => req[r].pc \in Checked,
         req'[r].pc # "createInsert", \/ req'[r].pc \notin Checked
                                      \/ UNCHANGED revisions
  PROVE  PictureInv'
<1>1. HasSource(r)' => Shown(req'[r].source.cover, req'[r].source.text.art)
  BY DEF HasSource, Shown
<1>2. UploadIsBare(r)'
  BY DEF UploadIsBare
<1>3. ASSUME Exists', req'[r].pc \in Checked
      PROVE  Matches(r)'
  <2>1. Matches(r)
    BY <1>3 DEF PictureInv, Exists
  <2>2. \A c, a \in Nat : Shown(c, a)' => Shown(c, a)
    BY <1>3, OthersAreUntouched DEF Shown, HasSource, Restoring, Checked
  <2>3. QED
    BY <1>3, <2>1, <2>2 DEF Matches
<1>4. Exists' => Exists /\ book'.revision >= book.revision
  BY DEF Exists, RowsAgree, TypeOK, BookRow
<1>5. drawn' >= drawn
  BY DEF RowsAgree, TypeOK
<1>6. Exists' => Matches(r)'
  BY <1>3 DEF Matches
<1>7. QED
  BY <1>1, <1>2, <1>4, <1>5, <1>6, PicturesStay

(***************************************************************************)
(* The steps that make no picture.                                         *)
(***************************************************************************)
LEMMA DepictingPoints ==
  {"idle", "createSave", "undo", "restoreFind", "publishReply", "deleteGet", "deleteList",
   "deleteCommit", "deleteSweep", "archive", "openGet", "openRead", "pruneSelect"}
    \cup Pruning \subseteq Points \ Depicting
  BY PointMembers DEF Depicting, Restoring, Checked, Pruning

LEMMA AcceptPictures ==
  ASSUME NobodyRenames, RowsAgree, RowsAgree', PictureInv, NEW r \in Requests, AcceptAny(r)
  PROVE  PictureInv'
<1>1. PICK op : Accept(r, op)
  BY DEF AcceptAny, AcceptCreate, AcceptEdit, AcceptRestore, AcceptUpdate, AcceptOther
<1>2. UNCHANGED <<book, revisions, drawn, mutex>> /\ drawn' >= drawn
  BY <1>1 DEF Accept, db, RowsAgree, TypeOK
<1>3. ASSUME NEW next, Become(r, next), next.pc \notin Checked, next.pc # "createInsert",
             next.pc \in Restoring => next.op # "restore"
      PROVE  PictureInv'
  <2>1. req'[r] = next /\ Own(r)
    BY <1>2, <1>3, Becomes DEF Own
  <2>2. ~HasSource(r)' /\ Matches(r)' /\ UploadIsBare(r)'
    BY <1>3, <2>1 DEF HasSource, Matches, UploadIsBare
  <2>3. Exists' => Exists /\ book'.revision >= book.revision
    BY <1>2 DEF Exists, RowsAgree, TypeOK, BookRow
  <2>4. QED
    BY <1>2, <2>1, <2>2, <2>3, PicturesStay
<1>4. CASE AcceptCreate(r)
  BY <1>3, <1>4 DEF AcceptCreate, Idle, Checked, Restoring
<1>5. ASSUME NEW kind \in {"edit", "cover"}, AcceptEdit(r, kind)
      PROVE  PictureInv'
  BY <1>3, <1>5 DEF AcceptEdit, Idle, Checked, Restoring
<1>6. CASE AcceptRestore(r)
  BY <1>3, <1>6 DEF AcceptRestore, Idle, Checked, Restoring
<1>7. ~AcceptUpdate(r)
  BY DEF NobodyRenames, AcceptUpdate, Accept
<1>8. ASSUME NEW kind \in {"delete", "archive", "open"},
             NEW pc \in {"deleteGet", "archive", "openGet"}, AcceptOther(r, kind, pc)
      PROVE  PictureInv'
  BY <1>3, <1>8 DEF AcceptOther, Idle, Checked, Restoring
<1>9. QED
  BY <1>4, <1>5, <1>6, <1>7, <1>8 DEF AcceptAny

\* A restoration reads the picture that goes with the preview.
LEMMA RestorePictures ==
  ASSUME RowsAgree, RowsAgree', FileInv, PictureInv, NEW r \in Requests,
         RestoreFind(r) \/ RestoreRead(r)
  PROVE  PictureInv'
<1>0. UNCHANGED <<book, revisions, drawn>>
  BY DEF RestoreFind, RestoreRead, db, files
<1>1. UNCHANGED <<book, revisions, drawn>> /\ drawn' >= drawn
      /\ (Exists' => Exists /\ book'.revision >= book.revision)
  BY <1>0 DEF RowsAgree, TypeOK, BookRow, Exists
<1>2. CASE Return(r)
  BY <1>1, <1>2, EndPictures
<1>3. ASSUME NEW next, Become(r, next), UNCHANGED mutex, next.op = req[r].op,
             next.pc \in {"restoreRead", "lock"},
             next.op = "restore" => Shown(next.source.cover, next.source.text.art)
      PROVE  PictureInv'
  <2>1. req'[r] = next /\ Own(r)
    BY <1>3, Becomes DEF Own
  <2>2. Matches(r)' /\ UploadIsBare(r)'
    BY <1>3, <2>1 DEF Matches, UploadIsBare, Checked
  <2>3. HasSource(r)' => Shown(req'[r].source.cover, req'[r].source.text.art)
    BY <1>3, <2>1 DEF HasSource
  <2>4. QED
    BY <1>1, <2>1, <2>2, <2>3, PicturesStay
<1>4. CASE RestoreFind(r)
  <2>1. ASSUME NEW e \in revisions, UNCHANGED mutex,
               Become(r, [req[r] EXCEPT !.source = e, !.pc = "restoreRead"])
        PROVE  PictureInv'
    <3> DEFINE next == [req[r] EXCEPT !.source = e, !.pc = "restoreRead"]
    <3>1. next.pc = "restoreRead" /\ next.op = req[r].op /\ next.source = e
      BY DEF RowsAgree, TypeOK, RequestType
    <3>2. Become(r, next)
      BY <2>1
    <3> HIDE DEF next
    <3>3. Shown(e.cover, e.text.art)
      BY DEF Shown
    <3>4. QED
      BY <1>3, <2>1, <3>1, <3>2, <3>3
  <2>2. QED
    BY <1>2, <1>4, <2>1 DEF RestoreFind
<1>5. CASE RestoreRead(r)
  <2>1. ASSUME NEW o \in objects, o.key = req[r].source.key, UNCHANGED mutex,
               Become(r, [req[r] EXCEPT !.source.text = o.text, !.pc = "lock"])
        PROVE  PictureInv'
    <3> DEFINE next == [req[r] EXCEPT !.source.text = o.text, !.pc = "lock"]
    <3>1. next.pc = "lock" /\ next.op = req[r].op
          /\ next.source.cover = req[r].source.cover /\ next.source.text = o.text
      BY DEF RowsAgree, TypeOK, RequestType, Entry
    <3>2. Become(r, next)
      BY <2>1
    <3> HIDE DEF next
    <3>3. ASSUME req[r].op = "restore"
          PROVE  Shown(next.source.cover, next.source.text.art)
      <4>1. req[r].source.key \in Key /\ req[r].source.text \in Text
        BY DEF RowsAgree, TypeOK, RequestType, Entry
      <4>2. HasSource(r)
        BY <1>5, <3>3 DEF HasSource, RestoreRead, At, Restoring
      <4>3. PICK k \in Object : /\ k = Edition(req[r].source) /\ k.key = req[r].source.key
                                /\ k.text = req[r].source.text
        BY <4>1, EditionType
      <4>4. o = k
        BY <2>1, <4>2, <4>3 DEF FileInv, StoreInv, Genuine, Known, Remembers
      <4>5. QED
        BY <3>1, <4>2, <4>3, <4>4 DEF Shown
    <3>4. QED
      BY <1>3, <2>1, <3>1, <3>2, <3>3
  <2>2. QED
    BY <1>2, <1>5, <2>1 DEF RestoreRead
<1>6. QED
  BY <1>4, <1>5

\* A request goes on to a point where nothing is claimed of pictures.
LEMMA PlainPictures ==
  ASSUME RowsAgree, RowsAgree', PictureInv, NEW r \in Requests, NEW next, Become(r, next),
         next.pc \notin Depicting, UNCHANGED mutex, UNCHANGED drawn,
         UNCHANGED book \/ (Exists' => Exists /\ book'.revision = book.revision),
         revisions' \subseteq revisions
  PROVE  PictureInv'
<1>1. req'[r] = next /\ Own(r)
  BY Becomes DEF Own
<1>2. drawn' >= drawn
  BY DEF RowsAgree, TypeOK
<1>3. QED
  BY <1>1, <1>2, LeavesPictures

LEMMA GotoPictures ==
  ASSUME RowsAgree, RowsAgree', PictureInv, NEW r \in Requests, NEW pc, Goto(r, pc),
         pc \notin Depicting, UNCHANGED mutex, UNCHANGED drawn,
         UNCHANGED book \/ (Exists' => Exists /\ book'.revision = book.revision),
         revisions' \subseteq revisions
  PROVE  PictureInv'
<1>1. [req[r] EXCEPT !.pc = pc].pc = pc
  BY DEF RowsAgree, TypeOK, RequestType
<1>2. QED
  BY <1>1, PlainPictures DEF Goto

LEMMA NextItemPictures ==
  ASSUME RowsAgree, RowsAgree', PictureInv, NEW r \in Requests, NEW e, NextItem(r, e),
         UNCHANGED mutex, UNCHANGED drawn, UNCHANGED book, revisions' \subseteq revisions
  PROVE  PictureInv'
<1>1. req'[r].pc = "pruneRow" /\ Own(r)
  BY NextItemKeeps DEF NextItem, Own
<1>2. req'[r].pc \notin Depicting /\ drawn' >= drawn
  BY <1>1 DEF Depicting, Restoring, Checked, RowsAgree, TypeOK
<1>3. QED
  BY <1>1, <1>2, LeavesPictures

LEMMA PublishPictures ==
  ASSUME RowsAgree, RowsAgree', PictureInv, NEW r \in Requests,
         PublishLock(r) \/ PublishGet(r) \/ PublishSave(r) \/ PublishCover(r)
  PROVE  PictureInv'
<1>1. UNCHANGED <<book, revisions, drawn>>
  BY DEF PublishLock, PublishGet, PublishSave, PublishCover, db, files
<1>2. CASE Return(r)
  BY <1>1, <1>2, EndPictures
<1>3. ASSUME NEW pc \in {"publishGet", "publishCover", "publishCommit"}, Goto(r, pc),
             UNCHANGED mutex \/ mutex = NoRequest,
             pc = "publishGet" => req[r].pc = "lock",
             pc # "publishGet" => req[r].pc \in Checked
      PROVE  PictureInv'
  <2>1. req'[r].pc = pc /\ Keeps(r) /\ Own(r)
    BY <1>3, GotoKeeps DEF Goto, Own
  <2>2. QED
    BY <1>1, <1>3, <2>1, KeepsPictures DEF Keeps, Restoring, Checked
<1>4. CASE PublishLock(r)
  BY <1>3, <1>4 DEF PublishLock, At, Unlocked
<1>5. ASSUME PublishGet(r), UNCHANGED mutex,
             Become(r, [req[r] EXCEPT !.book = book, !.pc = "publishMutate"])
      PROVE  PictureInv'
  <2> DEFINE next == [req[r] EXCEPT !.book = book, !.pc = "publishMutate"]
  <2>1. next.pc = "publishMutate" /\ next.op = req[r].op /\ next.source = req[r].source
        /\ next.entry = req[r].entry
    BY DEF RowsAgree, TypeOK, RequestType
  <2>2. Become(r, next)
    BY <1>5
  <2> HIDE DEF next
  <2>3. req'[r] = next /\ Own(r)
    BY <1>5, <2>2, Becomes DEF Own
  <2>4. req[r].pc \in Restoring /\ "publishMutate" \notin Checked
    BY <1>5 DEF PublishGet, At, Restoring, Checked
  <2>5. QED
    BY <1>1, <2>1, <2>3, <2>4, KeepsPictures
<1>6. CASE PublishGet(r)
  BY <1>2, <1>5, <1>6 DEF PublishGet
<1>7. CASE PublishSave(r)
  BY <1>2, <1>3, <1>7 DEF PublishSave, At, Checked
<1>8. CASE PublishCover(r)
  <2>1. CASE Goto(r, "undo")
    BY <1>1, <1>8, <2>1, DepictingPoints, GotoPictures DEF PublishCover
  <2>2. QED
    BY <1>3, <1>8, <2>1 DEF PublishCover, At, Checked
<1>9. QED
  BY <1>4, <1>6, <1>7, <1>8

LEMMA OtherPictures ==
  ASSUME RowsAgree, RowsAgree', PictureInv, NEW r \in Requests,
         PublishReply(r) \/ Undo(r) \/ OpenGet(r) \/ OpenRead(r) \/ Archive(r)
  PROVE  PictureInv'
<1>1. UNCHANGED <<revisions, drawn>>
  BY DEF PublishReply, Undo, OpenGet, OpenRead, Archive, db, files
<1>2. UNCHANGED book \/ (Exists' => Exists /\ book'.revision = book.revision)
  BY DEF PublishReply, Undo, OpenGet, OpenRead, Archive, db, RowsAgree, TypeOK, BookRow,
         Exists, Live
<1>3. CASE Return(r)
  BY <1>1, <1>2, <1>3, EndPictures
<1>4. CASE PublishReply(r)
  BY <1>1, <1>2, <1>3, <1>4, DepictingPoints, GotoPictures DEF PublishReply
<1>5. CASE OpenGet(r)
  <2>1. ASSUME Become(r, [req[r] EXCEPT !.book = book, !.pc = "openRead"]), UNCHANGED mutex
        PROVE  PictureInv'
    <3>1. [req[r] EXCEPT !.book = book, !.pc = "openRead"].pc = "openRead"
      BY DEF RowsAgree, TypeOK, RequestType
    <3>2. QED
      BY <1>1, <1>2, <2>1, <3>1, DepictingPoints, PlainPictures
  <2>2. QED
    BY <1>3, <1>5, <2>1 DEF OpenGet
<1>6. CASE Undo(r) \/ OpenRead(r) \/ Archive(r)
  BY <1>3, <1>6 DEF Undo, OpenRead, Archive
<1>7. QED
  BY <1>4, <1>5, <1>6

LEMMA PrunePictures ==
  ASSUME RowsAgree, RowsAgree', PictureInv, NEW r \in Requests, Prune(r)
  PROVE  PictureInv'
<1>1. UNCHANGED <<book, drawn>> /\ revisions' \subseteq revisions
  BY DEF Prune, PruneSelect, PruneRow, PruneObject, PruneCheck, PruneCover, db, files
<1>2. CASE Return(r)
  BY <1>1, <1>2, EndPictures
<1>3. ASSUME NEW e, NextItem(r, e), UNCHANGED mutex
      PROVE  PictureInv'
  BY <1>1, <1>3, NextItemPictures
<1>4. ASSUME NEW pc \in Pruning, Goto(r, pc), UNCHANGED mutex
      PROVE  PictureInv'
  BY <1>1, <1>4, DepictingPoints, GotoPictures
<1>5. CASE PruneSelect(r)
  <2>1. \A rows : [req[r] EXCEPT !.items = rows, !.pc = "pruneRow"].pc = "pruneRow"
    BY DEF RowsAgree, TypeOK, RequestType
  <2>2. "pruneRow" \notin Depicting
    BY DEF Depicting, Restoring, Checked
  <2>3. QED
    BY <1>1, <1>5, <2>1, <2>2, PlainPictures DEF PruneSelect
<1>6. CASE PruneRow(r)
  BY <1>2, <1>3, <1>4, <1>6 DEF PruneRow, Pruning
<1>7. CASE PruneObject(r) \/ PruneCheck(r) \/ PruneCover(r)
  BY <1>3, <1>4, <1>7 DEF PruneObject, PruneCheck, PruneCover, Pruning
<1>8. QED
  BY <1>5, <1>6, <1>7 DEF Prune

LEMMA DeletePictures ==
  ASSUME RowsAgree, RowsAgree', PictureInv, NEW r \in Requests,
         DeleteGet(r) \/ DeleteList(r) \/ DeleteCommit(r) \/ DeleteSweep(r)
  PROVE  PictureInv'
<1>1. UNCHANGED drawn /\ revisions' \subseteq revisions
  BY DEF DeleteGet, DeleteList, DeleteCommit, DeleteSweep, db, files
<1>2. UNCHANGED book \/ (Exists' => Exists /\ book'.revision = book.revision)
  BY DEF DeleteGet, DeleteList, DeleteCommit, DeleteSweep, db, NoBook, Exists
<1>3. CASE Return(r)
  BY <1>1, <1>2, <1>3, EndPictures
<1>4. ASSUME NEW next, Become(r, next), UNCHANGED mutex,
             next.pc \in {"deleteList", "deleteCommit", "deleteSweep"}
      PROVE  PictureInv'
  BY <1>1, <1>2, <1>4, DepictingPoints, PlainPictures
<1>5. CASE DeleteGet(r)
  <2>1. [req[r] EXCEPT !.book = book, !.pc = "deleteList"].pc = "deleteList"
    BY DEF RowsAgree, TypeOK, RequestType
  <2>2. QED
    BY <1>3, <1>4, <1>5, <2>1 DEF DeleteGet
<1>6. CASE DeleteList(r)
  <2>1. \A rows : [req[r] EXCEPT !.items = rows, !.pc = "deleteCommit"].pc = "deleteCommit"
    BY DEF RowsAgree, TypeOK, RequestType
  <2>2. QED
    BY <1>3, <1>4, <1>6, <2>1 DEF DeleteList
<1>7. CASE DeleteCommit(r)
  <2>1. [req[r] EXCEPT !.pc = "deleteSweep"].pc = "deleteSweep"
    BY DEF RowsAgree, TypeOK, RequestType
  <2>2. QED
    BY <1>3, <1>4, <1>7, <2>1 DEF DeleteCommit, Goto
<1>8. CASE DeleteSweep(r)
  <2>1. \A rows : [req[r] EXCEPT !.items = rows].pc = req[r].pc
    BY DEF RowsAgree, TypeOK, RequestType
  <2>2. req[r].pc = "deleteSweep"
    BY <1>8 DEF DeleteSweep, At
  <2>3. QED
    BY <1>3, <1>4, <1>8, <2>1, <2>2 DEF DeleteSweep
<1>9. QED
  BY <1>5, <1>6, <1>7, <1>8

LEMMA CrashPictures ==
  ASSUME RowsAgree, PictureInv, Crash
  PROVE  PictureInv'
<1>1. \A q \in Requests : req'[q].pc = "idle"
  BY DEF Crash, Idle
<1>2. UNCHANGED <<book, revisions, drawn>>
  BY DEF Crash, db, files
<1>3. \A c, a : Shown(c, a)' => Shown(c, a)
  BY <1>1, <1>2 DEF Shown, HasSource, Restoring
<1>4. Exists' => Matching' /\ Dated'
  BY <1>2, <1>3 DEF PictureInv, Matching, Dated, Exists
<1>5. \A q \in Requests : Matches(q)' /\ UploadIsBare(q)'
  BY <1>1 DEF Matches, UploadIsBare, Checked
<1>6. QED
  BY <1>4, <1>5 DEF PictureInv

(***************************************************************************)
(* The steps that make one.                                                *)
(***************************************************************************)
LEMMA CreateSavePictures ==
  ASSUME RowsAgree, RowsAgree', PictureInv, NEW r \in Requests, CreateSave(r)
  PROVE  PictureInv'
<1>1. UNCHANGED book /\ UNCHANGED revisions
  BY DEF CreateSave, db
<1>2. CASE Return(r) /\ UNCHANGED drawn
  BY <1>1, <1>2, EndPictures
<1>3. ASSUME NEW entry, entry.text = Blank, drawn' = drawn + 1, UNCHANGED mutex,
             Become(r, [req[r] EXCEPT !.pc = "createInsert", !.entry = entry])
      PROVE  PictureInv'
  <2> DEFINE next == [req[r] EXCEPT !.pc = "createInsert", !.entry = entry]
  <2>1. next.pc = "createInsert" /\ next.entry = entry
    BY DEF RowsAgree, TypeOK, RequestType
  <2>2. Become(r, next)
    BY <1>3
  <2> HIDE DEF next
  <2>3. req'[r] = next /\ Own(r)
    BY <1>3, <2>2, Becomes DEF Own
  <2>4. ~HasSource(r)' /\ Matches(r)' /\ UploadIsBare(r)'
    BY <1>3, <2>1, <2>3 DEF HasSource, Restoring, Matches, Checked, UploadIsBare, Blank
  <2>5. drawn' >= drawn /\ (Exists' => Exists /\ book'.revision >= book.revision)
    BY <1>1, <1>3 DEF RowsAgree, TypeOK, BookRow, Exists
  <2>6. QED
    BY <1>1, <2>3, <2>4, <2>5, PicturesStay
<1>4. ASSUME NEW now \in Times, NEW name \in Filenames, UNCHANGED mutex, drawn' = drawn + 1,
             Become(r, [req[r] EXCEPT
                          !.pc = "createInsert",
                          !.entry = [revision |-> now,
                                     key |-> [dir |-> drawn + 1, name |-> name], cover |-> 0,
                                     text |-> Blank, original |-> TRUE]])
      PROVE  PictureInv'
  <2> DEFINE entry == [revision |-> now, key |-> [dir |-> drawn + 1, name |-> name],
                       cover |-> 0, text |-> Blank, original |-> TRUE]
  <2>1. entry.text = Blank
    OBVIOUS
  <2>2. Become(r, [req[r] EXCEPT !.pc = "createInsert", !.entry = entry])
    BY <1>4
  <2> HIDE DEF entry
  <2> QED
    BY <1>3, <1>4, <2>1, <2>2
<1>5. QED
  BY <1>2, <1>4 DEF CreateSave

LEMMA EditedArt ==
  ASSUME NEW r \in Requests, NEW text \in Text, NEW revision \in Nat
  PROVE  EditedText(r, text, revision).art = IF req[r].op = "cover" THEN revision ELSE text.art
  BY DEF EditedText, Text

\* What a publication is made of shows a picture of its own, or one that is shown.
NewPicture(cover, art, revision) ==
  \/ Shown(cover, art)
  \/ cover = drawn + 2 /\ art = revision

LEMMA MutateMakes ==
  ASSUME RowsAgree, FileInv, NEW r \in Requests, At(r, "publishMutate"), Exists,
         NEW o \in objects, o.key = req[r].book.key, NEW revision \in Nat
  PROVE  NewPicture(EditedCover(r), EditedText(r, BaseText(r, o.text), revision).art, revision)
<1>1. req[r].pc = "publishMutate" /\ book.revision = req[r].book.revision
  BY DEF At, RowsAgree, Proper, ReadIsCurrent
<1>2. /\ req[r].book.key = book.key /\ req[r].book.text = book.text
      /\ req[r].book.cover = book.cover
  BY <1>1 DEF FileInv, Orderly, Seen, Acting
<1>3. Shown(book.cover, book.text.art)
  BY DEF RowsAgree, Ledger, Shown
<1>4. o.text = req[r].book.text
  <2>1. req[r].book.key \in Key /\ req[r].book.text \in Text
    BY DEF RowsAgree, TypeOK, RequestType, BookRow
  <2>2. PICK k \in Object : /\ k = Edition(req[r].book) /\ k.key = req[r].book.key
                            /\ k.text = req[r].book.text
    BY <2>1, EditionType
  <2>3. o = k
    BY <1>1, <2>2 DEF FileInv, StoreInv, Genuine, Known, Remembers, Acting
  <2>4. QED
    BY <2>2, <2>3
<1>5. o.text \in Text /\ req[r].source.text \in Text
  BY DEF RowsAgree, TypeOK, RequestType, Entry, Object
<1>6. CASE req[r].op = "cover"
  <2>1. EditedCover(r) = drawn + 2
    BY <1>6 DEF EditedCover
  <2>2. BaseText(r, o.text) = o.text
    BY <1>6 DEF BaseText
  <2>3. EditedText(r, BaseText(r, o.text), revision).art = revision
    BY <1>5, <1>6, <2>2, EditedArt
  <2>4. QED
    BY <2>1, <2>3 DEF NewPicture
<1>7. CASE req[r].op = "restore"
  <2>1. EditedCover(r) = req[r].source.cover /\ BaseText(r, o.text) = req[r].source.text
    BY <1>7 DEF EditedCover, BaseText
  <2>2. EditedText(r, BaseText(r, o.text), revision).art = req[r].source.text.art
    BY <1>5, <1>7, <2>1, EditedArt
  <2>3. HasSource(r)
    BY <1>1, <1>7 DEF HasSource, Restoring
  <2>4. QED
    BY <2>1, <2>2, <2>3 DEF NewPicture, Shown
<1>8. CASE req[r].op \notin {"cover", "restore"}
  <2>1. EditedCover(r) = book.cover /\ BaseText(r, o.text) = book.text
    BY <1>2, <1>4, <1>8 DEF EditedCover, BaseText
  <2>2. EditedText(r, BaseText(r, o.text), revision).art = book.text.art
    BY <1>2, <1>4, <1>5, <1>8, <2>1, EditedArt
  <2>3. QED
    BY <1>3, <2>1, <2>2 DEF NewPicture
<1>9. QED
  BY <1>6, <1>7, <1>8

LEMMA MutatePictures ==
  ASSUME RowsAgree, RowsAgree', FileInv, PictureInv, NEW r \in Requests, PublishMutate(r)
  PROVE  PictureInv'
<1>1. UNCHANGED book /\ UNCHANGED revisions /\ At(r, "publishMutate")
  BY DEF PublishMutate, db
<1>2. CASE Return(r) /\ UNCHANGED drawn
  BY <1>1, <1>2, EndPictures
<1>3. ASSUME NEW entry, UNCHANGED mutex, drawn' = drawn + 2,
             Become(r, [req[r] EXCEPT !.entry = entry, !.pc = "publishSave"]),
             entry.revision > req[r].book.revision,
             Exists => NewPicture(entry.cover, entry.text.art, entry.revision)
      PROVE  PictureInv'
  <2> DEFINE next == [req[r] EXCEPT !.entry = entry, !.pc = "publishSave"]
  <2>1. next.pc = "publishSave" /\ next.entry = entry
    BY DEF RowsAgree, TypeOK, RequestType
  <2>2. Become(r, next)
    BY <1>3
  <2> HIDE DEF next
  <2>3. req'[r] = next /\ Own(r)
    BY <1>3, <2>2, Becomes DEF Own
  <2>4. ~HasSource(r)' /\ UploadIsBare(r)'
    BY <2>1, <2>3 DEF HasSource, Restoring, UploadIsBare
  <2>5. drawn' >= drawn /\ (Exists' => Exists /\ book'.revision >= book.revision)
    BY <1>1, <1>3 DEF RowsAgree, TypeOK, BookRow, Exists
  <2>6. ASSUME Exists'
        PROVE  Matches(r)'
    <3>1. Exists /\ Matching /\ Dated
      BY <1>1, <2>6 DEF Exists, PictureInv
    <3>2. \A c, a : Shown(c, a)' => Shown(c, a)
      BY <1>1, <2>4, <2>3, OthersAreUntouched DEF Shown, HasSource
    <3>3. entry.cover \in Nat /\ entry.text.art \in Nat /\ entry.revision \in Nat
      BY <2>1, <2>3, PictureTypes DEF RowsAgree, TypeOK, RequestType, Entry, Text
    <3>4. drawn \in Nat /\ book.revision \in Nat /\ entry.revision > book.revision
      BY <1>1, <1>3, <3>1, PictureTypes DEF At, RowsAgree, Proper, ReadIsCurrent
    <3>5. CASE Shown(entry.cover, entry.text.art)
      <4>1. \A c, a \in Nat : Shown(c, a) => (c = entry.cover <=> a = entry.text.art)
        BY <3>1, <3>3, <3>5 DEF Matching
      <4>2. entry.cover <= drawn /\ entry.text.art <= book.revision
        BY <3>1, <3>3, <3>5 DEF Dated
      <4>3. entry.cover <= drawn' /\ entry.text.art <= entry.revision
        BY <1>3, <3>3, <3>4, <4>2
      <4>4. QED
        BY <2>1, <2>3, <3>2, <4>1, <4>3 DEF Matches
    <3>6. CASE entry.cover = drawn + 2 /\ entry.text.art = entry.revision
      <4>1. \A c, a \in Nat : Shown(c, a) => c <= drawn /\ a <= book.revision
        BY <3>1 DEF Dated
      <4>2. ASSUME NEW c \in Nat, NEW a \in Nat, Shown(c, a)
            PROVE  c # entry.cover /\ a # entry.text.art
        <5>1. c <= drawn /\ a <= book.revision
          BY <4>1, <4>2
        <5>2. QED
          BY <3>4, <3>6, <5>1
      <4>3. entry.cover <= drawn' /\ entry.text.art <= entry.revision
        BY <1>3, <3>3, <3>4, <3>6
      <4>4. QED
        BY <2>1, <2>3, <3>2, <4>2, <4>3 DEF Matches
    <3>7. QED
      BY <1>3, <3>1, <3>5, <3>6 DEF NewPicture
  <2>7. QED
    BY <1>1, <2>3, <2>4, <2>5, <2>6, PicturesStay
<1>4. ASSUME NEW o \in objects, NEW now \in Times, o.key = req[r].book.key, UNCHANGED mutex,
             drawn' = drawn + 2,
             Become(r, [req[r] EXCEPT
                          !.entry = [revision |-> NextRevision(req[r].book.revision, now),
                                     key |-> RevisionStorageKey(r), cover |-> EditedCover(r),
                                     text |-> EditedText(r, BaseText(r, o.text),
                                                NextRevision(req[r].book.revision, now)),
                                     original |-> FALSE],
                          !.pc = "publishSave"])
      PROVE  PictureInv'
  <2> DEFINE revision == NextRevision(req[r].book.revision, now)
             entry == [revision |-> revision, key |-> RevisionStorageKey(r),
                       cover |-> EditedCover(r),
                       text |-> EditedText(r, BaseText(r, o.text), revision),
                       original |-> FALSE]
  <2>1. revision \in Nat /\ revision > req[r].book.revision
    BY TimesAssumption DEF RowsAgree, TypeOK, RequestType, BookRow, NextRevision
  <2>2. Become(r, [req[r] EXCEPT !.entry = entry, !.pc = "publishSave"])
    BY <1>4
  <2> HIDE DEF revision
  <2>3. Exists => NewPicture(EditedCover(r), EditedText(r, BaseText(r, o.text), revision).art,
                             revision)
    BY <1>1, <1>4, <2>1, MutateMakes
  <2>4. /\ entry.revision = revision /\ entry.cover = EditedCover(r)
        /\ entry.text = EditedText(r, BaseText(r, o.text), revision)
    OBVIOUS
  <2> HIDE DEF entry
  <2>5. QED
    BY <1>3, <1>4, <2>1, <2>2, <2>3, <2>4
<1>5. QED
  BY <1>2, <1>4 DEF PublishMutate

LEMMA EntersPictures ==
  ASSUME RowsAgree, RowsAgree', FileInv, PictureInv, NEW r \in Requests, Enters(r)
  PROVE  PictureInv'
<1>1. ASSUME NEW c, NEW a, Shown(c, a)'
      PROVE  Shown(c, a) \/ (c = req[r].entry.cover /\ a = req[r].entry.text.art)
  BY <1>1, OthersAreUntouched DEF Shown, HasSource, Enters, Restoring
<1>2. /\ req[r].entry.cover \in Nat /\ req[r].entry.text.art \in Nat
      /\ req[r].entry.revision \in Nat /\ drawn \in Nat /\ book.revision \in Nat
  BY PictureTypes
<1>3. \A q \in Requests : UploadIsBare(q)'
  <2>1. \A q \in Requests : q # r => req'[q] = req[q]
    BY OthersAreUntouched DEF Enters
  <2>2. QED
    BY <2>1 DEF PictureInv, UploadIsBare, Enters
<1>4. CASE book.state = "none"
  <2>1. req[r].pc = "createInsert"
    BY <1>4 DEF Enters, FileInv, Orderly, Begun
  <2>2. req[r].entry.cover = 0 /\ req[r].entry.text.art = 0
    BY <2>1 DEF RowsAgree, Proper, UploadIsFirst, PictureInv, UploadIsBare
  <2>3. \A c, a : ~Shown(c, a)
    BY <1>4 DEF Shown, HasSource, Restoring, RowsAgree, Ledger, Exists, FileInv, Orderly, Begun
  <2>4. Matching' /\ Dated'
    BY <1>1, <1>2, <2>2, <2>3 DEF Matching, Dated, Enters
  <2>5. ASSUME NEW q \in Requests
        PROVE  Matches(q)'
    <3>1. req'[q].pc \notin Checked
      BY <1>4, OthersAreUntouched
         DEF Enters, Checked, FileInv, Orderly, Begun
    <3>2. QED
      BY <3>1 DEF Matches
  <2>6. QED
    BY <1>3, <2>4, <2>5 DEF PictureInv
<1>5. CASE book.state = "live"
  <2>1. Exists /\ Matching /\ Dated /\ req[r].entry.revision > book.revision
    BY <1>5 DEF Exists, PictureInv, Enters
  <2>2. req[r].pc = "publishCommit" /\ mutex = r
    BY <1>5 DEF Enters, RowsAgree, Proper, LockHeld, LockPoints, Checked, UploadIsFirst
  <2>3. Matches(r)
    BY <2>1 DEF PictureInv
  <2>4. /\ \A c, a \in Nat :
             Shown(c, a) => (c = req[r].entry.cover <=> a = req[r].entry.text.art)
        /\ req[r].entry.cover <= drawn /\ req[r].entry.text.art <= req[r].entry.revision
    BY <2>2, <2>3 DEF Matches, Checked
  <2>5. Matching'
    <3>1. SUFFICES ASSUME NEW c \in Nat, NEW a \in Nat, NEW d \in Nat, NEW b \in Nat,
                          Shown(c, a)', Shown(d, b)'
                   PROVE  c = d <=> a = b
      BY DEF Matching
    <3>2. Shown(c, a) \/ (c = req[r].entry.cover /\ a = req[r].entry.text.art)
      BY <1>1, <3>1
    <3>3. Shown(d, b) \/ (d = req[r].entry.cover /\ b = req[r].entry.text.art)
      BY <1>1, <3>1
    <3>4. CASE Shown(c, a) /\ Shown(d, b)
      BY <2>1, <3>4 DEF Matching
    <3>5. QED
      BY <2>4, <3>2, <3>3, <3>4
  <2>6. ASSUME NEW c \in Nat, NEW a \in Nat, Shown(c, a)'
        PROVE  c <= drawn' /\ a <= book'.revision
    <3>1. drawn' = drawn /\ book'.revision = req[r].entry.revision
      BY DEF Enters
    <3>2. CASE Shown(c, a)
      <4>1. c <= drawn /\ a <= book.revision
        BY <2>1, <3>2 DEF Dated
      <4>2. QED
        BY <1>2, <2>1, <3>1, <4>1
    <3>3. CASE c = req[r].entry.cover /\ a = req[r].entry.text.art
      BY <2>4, <3>1, <3>3
    <3>4. QED
      BY <1>1, <2>6, <3>2, <3>3
  <2>7. ASSUME NEW q \in Requests
        PROVE  Matches(q)'
    <3>1. req'[q].pc \notin Checked
      BY <2>2, OthersAreUntouched DEF Enters, Checked, LockPoints
    <3>2. QED
      BY <3>1 DEF Matches
  <2>8. QED
    BY <1>3, <2>5, <2>6, <2>7 DEF PictureInv, Dated
<1>6. QED
  BY <1>4, <1>5 DEF Enters

\* A commit that fails leaves the pictures as they are; one that succeeds is
\* an entry that becomes a row.
LEMMA CommitPictures ==
  ASSUME RowsAgree, RowsAgree', FileInv, PictureInv, NEW r \in Requests,
         CreateInsert(r) \/ PublishCommit(r)
  PROVE  PictureInv'
<1>1. CASE Goto(r, "undo") /\ UNCHANGED mutex /\ UNCHANGED db
  <2>1. UNCHANGED <<book, revisions, drawn>>
    BY <1>1 DEF CreateInsert, PublishCommit, db, files
  <2>2. QED
    BY <1>1, <2>1, DepictingPoints, GotoPictures
<1>2. CASE Enters(r)
  BY <1>2, EntersPictures
<1>3. QED
  BY <1>1, <1>2, CommitEnters

LEMMA PictureStep ==
  ASSUME NobodyRenames, RowsAgree, RowsAgree', FileInv, PictureInv, [Next]_vars
  PROVE  PictureInv'
<1>1. CASE UNCHANGED vars
  <2>1. UNCHANGED <<book, revisions, req, drawn>>
    BY <1>1 DEF vars
  <2>2. \A c, a : Shown(c, a)' <=> Shown(c, a)
    BY <2>1 DEF Shown, HasSource
  <2>3. QED
    BY <2>1, <2>2 DEF PictureInv, Matching, Dated, Matches, UploadIsBare, Exists
<1>2. ASSUME NEW r \in Requests, AcceptAny(r) \/ PublishLock(r) \/ Step(r)
      PROVE  PictureInv'
  <2>1. CASE AcceptAny(r) \/ PublishLock(r)
    BY <2>1, AcceptPictures, PublishPictures
  <2>2. CASE Publish(r)
    BY <2>2, PublishPictures, MutatePictures, CommitPictures, OtherPictures DEF Publish
  <2>3. CASE DeleteGet(r) \/ DeleteList(r) \/ DeleteCommit(r) \/ DeleteSweep(r)
    BY <2>3, DeletePictures
  <2>4. QED
    BY <1>2, <2>1, <2>2, <2>3, CreateSavePictures, CommitPictures, RestorePictures,
       PrunePictures, OtherPictures, NobodyIsRenaming DEF Step
<1>3. QED
  BY <1>1, <1>2, CrashPictures DEF Next

\* Two revisions that can be restored show the same cover preview exactly when
\* the pictures inside their EPUBs are the same: a restoration brings the
\* preview back with the text, although it reads both before it gets publishMu
\* and the revision may have been pruned since.
THEOREM PreviewsAlwaysFollow ==
  ASSUME NobodyRenames
  PROVE  Spec => []PreviewsFollowTexts
<1>1. Init => PictureInv
  <2>1. SUFFICES ASSUME Init
                 PROVE  PictureInv
    OBVIOUS
  <2>2. \A q \in Requests : UploadIsBare(q)
    BY <2>1 DEF Init, Idle, UploadIsBare
  <2>3. QED
    BY <2>1, <2>2 DEF Init, NoBook, Exists, PictureInv
<1>2. RowsAgree /\ RowsAgree' /\ FileInv /\ PictureInv /\ [Next]_vars => PictureInv'
  BY PictureStep
<1>3. RowsAgree /\ PictureInv => PreviewsFollowTexts
  <2>1. SUFFICES ASSUME RowsAgree, PictureInv, NEW d \in revisions, NEW e \in revisions
                 PROVE  d.cover = e.cover <=> d.text.art = e.text.art
    BY DEF PreviewsFollowTexts
  <2>2. Exists
    BY <2>1 DEF RowsAgree, Ledger
  <2>3. Shown(d.cover, d.text.art) /\ Shown(e.cover, e.text.art)
    BY DEF Shown
  <2>4. QED
    BY <2>1, <2>2, <2>3, PictureTypes DEF PictureInv, Matching
<1>4. QED
  BY <1>1, <1>2, <1>3, FilesAreKept, RowsAlwaysAgree, PTL DEF Spec

(***************************************************************************)
(* The versioned text.  What a reader or an editor sees of a live book, in *)
(* the terms of LibraryAbs, and each of its steps in these terms.          *)
(***************************************************************************)
HasRead(r) == req[r].op = "restore" /\ req[r].pc # "restoreFind"

Record(e) == [revision |-> e.revision, edits |-> e.text.edits]

ShelfNow == CASE book.state = "none" -> "empty"
              [] Live -> "live"
              [] OTHER -> "withdrawn"

FirstNow == IF Live THEN Upload.revision ELSE 0

HeadNow == IF Live THEN book.revision ELSE 0

EditsNow == IF Live THEN Served ELSE {}

PastNow == IF Live THEN Past ELSE {}

NewerPast(p) == {q \in PastNow : q.revision > p.revision /\ q.revision # FirstNow}

MayForget(p) == p.revision # FirstNow /\ Cardinality(NewerPast(p)) >= Floor

LEMMA PastMembers ==
  ASSUME NEW p
  PROVE  /\ p \in Past <=> \/ \E e \in revisions : p = Record(e)
                           \/ \E r \in Requests : HasRead(r) /\ p = Record(req[r].source)
         /\ p \in Past' <=> \/ \E e \in revisions' : p = Record(e)
                            \/ \E r \in Requests : HasRead(r)' /\ p = Record(req'[r].source)
  BY DEF Past, HeldRevisions, HasRead, Record

LEMMA Stutters ==
  ASSUME ShelfNow' = ShelfNow, FirstNow' = FirstNow, HeadNow' = HeadNow,
         EditsNow' = EditsNow, PastNow' = PastNow
  PROVE  [Abs!Next]_(Abs!vars)
  BY DEF ShelfNow, FirstNow, HeadNow, EditsNow, PastNow, Abs!vars

LEMMA Uploads ==
  ASSUME ShelfNow = "empty", ShelfNow' = "live", FirstNow' = HeadNow',
         HeadNow' \in Nat \ {0}, EditsNow' = {},
         PastNow' = {[revision |-> HeadNow', edits |-> {}]}
  PROVE  Abs!Upload
  BY DEF ShelfNow, FirstNow, HeadNow, EditsNow, PastNow, Abs!Upload

LEMMA Advances ==
  ASSUME ShelfNow = "live", ShelfNow' = "live", FirstNow' = FirstNow,
         HeadNow' \in Nat, HeadNow' > HeadNow,
         PastNow' = PastNow \cup {[revision |-> HeadNow', edits |-> EditsNow']},
         \/ EditsNow' = EditsNow \cup {HeadNow'}
         \/ \E p \in PastNow : EditsNow' = p.edits
  PROVE  Abs!Edit \/ Abs!Restore
  BY DEF ShelfNow, FirstNow, HeadNow, EditsNow, PastNow, Abs!Edit, Abs!Restore, Abs!Advance

LEMMA Withdraws ==
  ASSUME ShelfNow = "live", ShelfNow' = "withdrawn", FirstNow' = 0, HeadNow' = 0,
         EditsNow' = {}, PastNow' = {}
  PROVE  Abs!Withdraw
  BY DEF ShelfNow, FirstNow, HeadNow, EditsNow, PastNow, Abs!Withdraw

LEMMA SameCardinality ==
  ASSUME NEW S
  PROVE  Abs!Cardinality(S) = Cardinality(S)
  BY DEF Abs!Cardinality, Cardinality

LEMMA Forgets ==
  ASSUME ShelfNow = "live", ShelfNow' = "live", FirstNow' = FirstNow, HeadNow' = HeadNow,
         EditsNow' = EditsNow, PastNow' \subseteq PastNow,
         \A p \in PastNow \ PastNow' : MayForget(p)
  PROVE  Abs!Forget
<1> DEFINE past == IF Live THEN Past ELSE {}
           left == (IF Live THEN Past ELSE {})'
           first == IF Live THEN Upload.revision ELSE 0
<1>1. past = PastNow /\ left = PastNow' /\ first = FirstNow
  BY DEF PastNow, FirstNow
<1>2. ASSUME NEW p \in past \ left
      PROVE  p.revision # first /\ Cardinality(Abs!NewerEdited(p)) >= Floor
  <2>1. NewerPast(p) = Abs!NewerEdited(p)
    BY DEF NewerPast, Abs!NewerEdited, PastNow, FirstNow
  <2> HIDE DEF past, left, first
  <2>2. MayForget(p)
    BY <1>1, <1>2
  <2>3. QED
    BY <1>1, <2>1, <2>2 DEF MayForget
<1>3. left \subseteq past
  <2> HIDE DEF past, left
  <2> QED
    BY <1>1
<1>4. \A p \in (IF Live THEN Past ELSE {}) \ (IF Live THEN Past ELSE {})' :
        /\ p.revision # IF Live THEN Upload.revision ELSE 0
        /\ Abs!Cardinality(Abs!NewerEdited(p)) >= Floor
  BY <1>2, SameCardinality
<1>5. QED
  BY <1>3, <1>4 DEF ShelfNow, FirstNow, HeadNow, EditsNow, Abs!Forget

LEMMA StartsEmpty == Init => Abs!Init
  BY DEF Init, Abs!Init, NoBook, Live

(***************************************************************************)
(* The invariant: what requests have read, as far as it becomes a text or  *)
(* a revision that can be restored.                                        *)
(***************************************************************************)
Changing == {"restoreFind", "restoreRead", "lock", "publishGet", "publishMutate"} \cup Checked

NewerEdited(n) == {d \in revisions : ~d.original /\ d.revision > n}

\* No row is needed for it: Floor newer edited ones are there.
Spent(n) ==
  /\ Cardinality(NewerEdited(n)) >= Floor
  /\ \A e \in revisions : e.original => e.revision # n

Backed(d) == \E e \in revisions : Record(e) = Record(d)

\* A revision read to be restored has its row, or pruning may have taken it.
Recallable(r) ==
  HasRead(r) /\ Exists => Backed(req[r].source) \/ Spent(req[r].source.revision)

\* What is being published continues the current text or brings one back.
Continues(r) ==
  req[r].pc \in Checked /\ Exists =>
    req[r].entry.text.edits =
      IF req[r].op = "restore" THEN req[r].source.text.edits
      ELSE book.text.edits \cup {req[r].entry.revision}

UploadIsBlank(r) ==
  req[r].pc = "createInsert" => req[r].entry.text = Blank /\ req[r].entry.revision # 0

OnlyEdits(r) ==
  /\ req[r].pc \in Changing => req[r].op \in Edits
  /\ req[r].op = "restore" => book.state # "none"

Meant(r) == Continues(r) /\ UploadIsBlank(r) /\ OnlyEdits(r)

Restorers == {r \in Requests : req[r].op = "restore"}

TextInv == IsFiniteSet(Restorers) /\ \A r \in Requests : Recallable(r) /\ Meant(r)

(***************************************************************************)
(* Counting what is kept.                                                  *)
(***************************************************************************)
LEMMA ImageIsFinite ==
  ASSUME NEW S, IsFiniteSet(S), NEW f, NEW T, f \in [S -> T], \A t \in T : \E s \in S : f[s] = t
  PROVE  IsFiniteSet(T)
<1>1. f \in Surjection(S, T)
  BY DEF Surjection
<1>2. QED
  BY <1>1, FS_Surjection

LEMMA RowsAreFinite ==
  ASSUME RowsAgree
  PROVE  IsFiniteSet(revisions)
<1>1. \A e \in revisions : e.revision \in Nat
  BY DEF RowsAgree, TypeOK, Entry
<1>2. CASE Exists
  <2>1. \A n \in NumbersOf(revisions) : n <= book.revision
    BY <1>2 DEF RowsAgree, Ledger, NumbersOf
  <2>2. NumbersOf(revisions) \in SUBSET Nat /\ book.revision \in Nat
    BY <1>1 DEF NumbersOf, RowsAgree, TypeOK, BookRow
  <2>3. IsFiniteSet(NumbersOf(revisions))
    BY <2>1, <2>2, FS_BoundedSetOfNaturals
  <2>4. \A d, e \in revisions : d.revision = e.revision => d = e
    BY <1>2 DEF RowsAgree, Ledger
  <2>5. QED
    BY <2>3, <2>4, RowsAreNumbers
<1>3. CASE ~Exists
  BY <1>3, FS_EmptySet DEF RowsAgree, Ledger
<1>4. QED
  BY <1>2, <1>3

LEMMA PastIsFinite ==
  ASSUME RowsAgree, IsFiniteSet(Restorers)
  PROVE  IsFiniteSet(Past)
<1> DEFINE ofRows == {Record(e) : e \in revisions}
           readers == {r \in Restorers : HasRead(r)}
           ofReaders == {Record(req[r].source) : r \in readers}
<1>1. IsFiniteSet(ofRows)
  <2>1. PICK f : f = [e \in revisions |-> Record(e)]
    OBVIOUS
  <2>2. f \in [revisions -> ofRows] /\ \A t \in ofRows : \E e \in revisions : f[e] = t
    BY <2>1
  <2> HIDE DEF ofRows
  <2>3. QED
    BY <2>2, RowsAreFinite, ImageIsFinite
<1>2. IsFiniteSet(ofReaders)
  <2>1. PICK f : f = [r \in readers |-> Record(req[r].source)]
    OBVIOUS
  <2>2. f \in [readers -> ofReaders] /\ \A t \in ofReaders : \E r \in readers : f[r] = t
    BY <2>1
  <2>3. IsFiniteSet(readers)
    BY FS_Subset
  <2> HIDE DEF ofReaders, readers
  <2>4. QED
    BY <2>2, <2>3, ImageIsFinite
<1>3. \A p \in Past : p \in ofRows \cup ofReaders
  BY PastMembers DEF Restorers, HasRead
<1> HIDE DEF ofRows, ofReaders, readers
<1>4. IsFiniteSet(ofRows \cup ofReaders)
  BY <1>1, <1>2, FS_Union
<1>5. Past \in SUBSET (ofRows \cup ofReaders)
  BY <1>3
<1>6. QED
  BY <1>4, <1>5, FS_Subset

LEMMA NewerEditedRows ==
  ASSUME RowsAgree, NEW n \in Nat
  PROVE  /\ NewerEdited(n) \in SUBSET Edited
         /\ IsFiniteSet(NewerEdited(n)) /\ Cardinality(NewerEdited(n)) \in Nat
         /\ \A d : d \in NewerEdited(n) <=> d \in revisions /\ ~d.original /\ d.revision > n
<1>1. NewerEdited(n) \in SUBSET revisions /\ NewerEdited(n) \in SUBSET Edited
  BY DEF NewerEdited, Edited
<1>2. IsFiniteSet(NewerEdited(n)) /\ Cardinality(NewerEdited(n)) \in Nat
  BY <1>1, RowsAreFinite, FS_Subset, FS_CardinalityType
<1>3. QED
  BY <1>1, <1>2 DEF NewerEdited

\* The original row, which a set of rows has once.
LEMMA OneOriginal ==
  ASSUME NEW rows, \E e \in rows : e.original,
         \A d, e \in rows : d.original /\ e.original => d = e
  PROVE  /\ (CHOOSE e \in rows : e.original) \in rows
         /\ (CHOOSE e \in rows : e.original).original
         /\ \A e \in rows : e.original => e = (CHOOSE d \in rows : d.original)
  OBVIOUS

LEMMA UploadIsOriginal ==
  ASSUME RowsAgree, Exists
  PROVE  /\ Upload \in revisions /\ Upload.original
         /\ \A e \in revisions : e.original => e = Upload
<1>1. /\ \E e \in revisions : e.original
      /\ \A d, e \in revisions : d.original /\ e.original => d = e
  BY DEF RowsAgree, Ledger
<1>2. QED
  BY <1>1, OneOriginal DEF Upload

LEMMA SpentMayGo ==
  ASSUME RowsAgree, IsFiniteSet(Restorers), Live, NEW p, p.revision \in Nat, Spent(p.revision)
  PROVE  MayForget(p)
<1>1. Exists
  BY DEF Live, Exists
<1>2. FirstNow = Upload.revision /\ PastNow = Past
  BY DEF FirstNow, PastNow
<1>3. p.revision # FirstNow
  BY <1>1, <1>2, UploadIsOriginal DEF Spent
<1>4. PICK f : f = [d \in NewerEdited(p.revision) |-> Record(d)]
  OBVIOUS
<1>5. ASSUME NEW d \in NewerEdited(p.revision)
      PROVE  Record(d) \in NewerPast(p)
  <2>1. d \in revisions /\ ~d.original /\ d.revision > p.revision
    BY <1>5, NewerEditedRows
  <2>2. Record(d) \in PastNow /\ Record(d).revision = d.revision
    BY <1>2, <2>1, PastMembers DEF Record
  <2>3. d.revision # FirstNow
    BY <1>1, <1>2, <2>1, UploadIsOriginal DEF RowsAgree, Ledger
  <2>4. QED
    BY <2>1, <2>2, <2>3 DEF NewerPast
<1>6. ASSUME NEW d \in NewerEdited(p.revision), NEW e \in NewerEdited(p.revision),
             Record(d) = Record(e)
      PROVE  d = e
  <2>1. d.revision = e.revision
    BY <1>6 DEF Record
  <2>2. QED
    BY <1>1, <2>1, NewerEditedRows DEF RowsAgree, Ledger
<1>7. f \in Injection(NewerEdited(p.revision), NewerPast(p))
  BY <1>4, <1>5, <1>6 DEF Injection, IsInjective
<1>8. IsFiniteSet(NewerPast(p))
  <2>1. NewerPast(p) \in SUBSET Past
    BY <1>2 DEF NewerPast
  <2>2. QED
    BY <2>1, PastIsFinite, FS_Subset
<1>9. Cardinality(NewerEdited(p.revision)) <= Cardinality(NewerPast(p))
  BY <1>7, <1>8, FS_Injection
<1>10. Cardinality(NewerPast(p)) >= Floor
  <2>1. Cardinality(NewerEdited(p.revision)) \in Nat /\ Cardinality(NewerPast(p)) \in Nat
    BY <1>8, NewerEditedRows, FS_CardinalityType
  <2>2. QED
    BY <1>9, <2>1, OwedBounds DEF Spent
<1>11. QED
  BY <1>3, <1>10 DEF MayForget

(***************************************************************************)
(* A step that makes no entry a row: what it forgets may be forgotten.     *)
(***************************************************************************)

\* What has been read is what had been read, or a row.
Recalls(r) ==
  HasRead(r)' => \/ HasRead(r) /\ Record(req'[r].source) = Record(req[r].source)
                 \/ \E e \in revisions : Record(e) = Record(req'[r].source)

Fades ==
  /\ RowsOnlyGo
  /\ book'.state = "none" <=> book.state = "none"
  /\ Live' => Live

LEMMA RecordFields ==
  ASSUME NEW d, NEW e, Record(d) = Record(e)
  PROVE  d.revision = e.revision /\ d.text.edits = e.text.edits
<1>1. Record(d).revision = d.revision /\ Record(e).revision = e.revision
      /\ Record(d).edits = d.text.edits /\ Record(e).edits = e.text.edits
  BY DEF Record
<1>2. QED
  BY <1>1

LEMMA GoneIsSpent ==
  ASSUME RowsAgree, RowsAgree', RowsOnlyGo, OnlyOldGo, Exists',
         NEW e \in revisions, e \notin revisions'
  PROVE  e.revision \in Nat /\ Spent(e.revision) /\ Spent(e.revision)'
<1>1. Exists /\ revisions' \subseteq revisions
  BY DEF RowsOnlyGo
<1>2. \A d \in revisions : d.revision = e.revision => d = e
  BY <1>1 DEF RowsAgree, Ledger
<1>3. ~Remains(e)
  BY <1>1, <1>2 DEF Remains
<1>4. MayGo(e)
  BY <1>3 DEF OnlyOldGo
<1>5. e.revision \in Nat
  BY DEF RowsAgree, TypeOK, Entry
<1>6. \A d \in revisions : d.original => d.revision # e.revision
  BY <1>2, <1>4 DEF MayGo
<1>7. Cardinality(NewerEdited(e.revision)') >= Owed'
  BY <1>4 DEF MayGo, NewerEdited
<1>8. NewerEdited(e.revision)' \in SUBSET NewerEdited(e.revision)
  BY <1>1 DEF NewerEdited
<1>9. /\ Cardinality(NewerEdited(e.revision)') \in Nat
      /\ Cardinality(NewerEdited(e.revision)) \in Nat
      /\ Cardinality(NewerEdited(e.revision)') <= Cardinality(NewerEdited(e.revision))
  BY <1>5, <1>8, NewerEditedRows, FS_Subset, FS_CardinalityType
<1>10. /\ Cardinality(NewerEdited(e.revision)) >= Floor
       /\ Cardinality(NewerEdited(e.revision)') >= Floor
  BY <1>7, <1>9, OwedBounds
<1>11. QED
  BY <1>1, <1>5, <1>6, <1>10 DEF Spent

LEMMA SpentStays ==
  ASSUME RowsAgree, RowsAgree', RowsOnlyGo, OnlyOldGo, Exists', NEW n \in Nat, Spent(n)
  PROVE  Spent(n)'
<1>1. revisions' \subseteq revisions
  BY DEF RowsOnlyGo
<1>2. \A e \in revisions' : e.original => e.revision # n
  BY <1>1 DEF Spent
<1>3. Cardinality(NewerEdited(n)') >= Floor
  <2>1. CASE NewerEdited(n) \subseteq revisions'
    <3>1. NewerEdited(n)' = NewerEdited(n)
      BY <1>1, <2>1 DEF NewerEdited
    <3>2. QED
      BY <3>1 DEF Spent
  <2>2. ASSUME NEW e \in NewerEdited(n), e \notin revisions'
        PROVE  Cardinality(NewerEdited(n)') >= Floor
    <3>1. e \in revisions /\ e.revision > n
      BY <2>2, NewerEditedRows
    <3>2. e.revision \in Nat /\ Spent(e.revision)'
      BY <2>2, <3>1, GoneIsSpent
    <3>3. NewerEdited(e.revision)' \in SUBSET NewerEdited(n)'
      <4>1. \A d \in revisions' : d.revision \in Nat
        BY DEF RowsAgree, TypeOK, Entry
      <4>2. QED
        BY <3>1, <3>2, <4>1 DEF NewerEdited
    <3>4. IsFiniteSet(NewerEdited(n)')
      <4>1. NewerEdited(n)' \in SUBSET revisions
        BY <1>1 DEF NewerEdited
      <4>2. QED
        BY <4>1, RowsAreFinite, FS_Subset
    <3>5. /\ Cardinality(NewerEdited(e.revision)') \in Nat
          /\ Cardinality(NewerEdited(n)') \in Nat
          /\ Cardinality(NewerEdited(e.revision)') <= Cardinality(NewerEdited(n)')
      BY <3>3, <3>4, FS_Subset, FS_CardinalityType
    <3>6. Cardinality(NewerEdited(e.revision)') >= Floor
      BY <3>2 DEF Spent
    <3>7. QED
      BY <3>5, <3>6, OwedBounds
  <2>3. QED
    BY <2>1, <2>2
<1>4. QED
  BY <1>2, <1>3 DEF Spent

LEMMA SourceType ==
  ASSUME RowsAgree, NEW r \in Requests
  PROVE  req[r].source.revision \in Nat
  BY DEF RowsAgree, TypeOK, RequestType, Entry

LEMMA RecallableStays ==
  ASSUME RowsAgree, RowsAgree', RowsOnlyGo, Exists' => OnlyOldGo,
         NEW q \in Requests, Recalls(q), Recallable(q)
  PROVE  Recallable(q)'
<1>1. SUFFICES ASSUME HasRead(q)', Exists'
               PROVE  Backed(req[q].source)' \/ Spent(req[q].source.revision)'
  BY DEF Recallable
<1>2. Exists /\ OnlyOldGo
  BY <1>1 DEF RowsOnlyGo
<1> PICK n : n = req'[q].source.revision
  OBVIOUS
<1>3. ASSUME NEW e \in revisions, Record(e) = Record(req'[q].source)
      PROVE  Backed(req[q].source)' \/ Spent(n)'
  <2>1. CASE e \in revisions'
    BY <1>3, <2>1 DEF Backed, Record
  <2>2. CASE e \notin revisions'
    <3>1. e.revision = n
      BY <1>3, RecordFields
    <3>2. QED
      BY <1>1, <1>2, <2>2, <3>1, GoneIsSpent
  <2>3. QED
    BY <2>1, <2>2
<1>4. CASE HasRead(q) /\ Record(req'[q].source) = Record(req[q].source)
  <2>1. CASE Backed(req[q].source)
    BY <1>3, <1>4, <2>1 DEF Backed
  <2>2. CASE Spent(req[q].source.revision)
    <3>1. n = req[q].source.revision /\ n \in Nat
      BY <1>4, RecordFields, SourceType
    <3>2. QED
      BY <1>1, <1>2, <2>2, <3>1, SpentStays
  <2>3. QED
    BY <1>2, <1>4, <2>1, <2>2 DEF Recallable
<1>5. Backed(req[q].source)' \/ Spent(n)'
  BY <1>1, <1>3, <1>4 DEF Recalls
<1>6. QED
  BY <1>5 DEF Spent, NewerEdited

LEMMA PastFades ==
  ASSUME RowsAgree, RowsAgree', TextInv, RowsOnlyGo, OnlyOldGo, Live, Exists',
         \A q \in Requests : Recalls(q)
  PROVE  Past' \subseteq Past /\ \A p \in Past \ Past' : MayForget(p)
<1>1. revisions' \subseteq revisions /\ Exists
  BY DEF RowsOnlyGo, Live, Exists
<1>2. ASSUME NEW p \in Past'
      PROVE  p \in Past
  <2>1. CASE \E e \in revisions' : p = Record(e)
    BY <1>1, <2>1, PastMembers
  <2>2. ASSUME NEW q \in Requests, HasRead(q)', p = Record(req'[q].source)
        PROVE  p \in Past
    BY <2>2, PastMembers DEF Recalls
  <2>3. QED
    BY <1>2, <2>1, <2>2, PastMembers
<1>3. ASSUME NEW e \in revisions, Record(e) \notin Past'
      PROVE  Spent(e.revision) /\ Record(e).revision = e.revision /\ e.revision \in Nat
  <2>1. e \notin revisions'
    BY <1>3, PastMembers
  <2>2. QED
    BY <2>1, GoneIsSpent DEF Record
<1>4. ASSUME NEW p \in Past, p \notin Past'
      PROVE  MayForget(p)
  <2>1. ASSUME NEW e \in revisions, p = Record(e)
        PROVE  MayForget(p)
    BY <1>3, <1>4, <2>1, SpentMayGo DEF TextInv
  <2>2. ASSUME NEW q \in Requests, HasRead(q), p = Record(req[q].source)
        PROVE  MayForget(p)
    <3>1. CASE Backed(req[q].source)
      BY <2>1, <2>2, <3>1 DEF Backed
    <3>2. CASE Spent(req[q].source.revision)
      <4>1. p.revision = req[q].source.revision /\ p.revision \in Nat
        BY <2>2, SourceType DEF Record
      <4>2. QED
        BY <3>2, <4>1, SpentMayGo DEF TextInv
    <3>3. QED
      BY <1>1, <2>2, <3>1, <3>2 DEF TextInv, Recallable
  <2>3. QED
    BY <1>4, <2>1, <2>2, PastMembers
<1>5. QED
  BY <1>2, <1>4

\* A reader is given the text the row names.
LEMMA ServedIsCurrent ==
  ASSUME FileInv, Live
  PROVE  Served = book.text.edits
<1>1. Holds(book.key, book.text)
  BY DEF FileInv, StoreInv, RowsHold, BookIsListed, Live, Exists
<1>2. PICK o \in objects : o.key = book.key /\ o.text = book.text
  BY <1>1 DEF Holds
<1>3. \A x \in objects : x.key = book.key => x = o
  BY <1>2 DEF FileInv, StoreInv, Unique
<1>4. {x \in objects : x.key = book.key} = {o}
  BY <1>2, <1>3
<1>5. Served = UNION {x.text.edits : x \in {o}}
  BY <1>4 DEF Served
<1>6. QED
  BY <1>2, <1>5

\* The same of the next state.
LEMMA NextServed ==
  ASSUME FileInv', Live'
  PROVE  Served' = book'.text.edits
<1>1. Holds(book.key, book.text)'
  BY DEF FileInv, StoreInv, RowsHold, BookIsListed, Live, Exists
<1>2. PICK o \in objects' : o.key = book'.key /\ o.text = book'.text
  BY <1>1 DEF Holds
<1>3. \A x \in objects' : x.key = book'.key => x = o
  BY <1>2 DEF FileInv, StoreInv, Unique
<1>4. {x \in objects' : x.key = book'.key} = {o}
  BY <1>2, <1>3
<1>5. Served' = UNION {x.text.edits : x \in {o}}
  BY <1>4 DEF Served
<1>6. QED
  BY <1>2, <1>5

LEMMA NextUpload ==
  ASSUME RowsAgree', Exists'
  PROVE  /\ Upload' \in revisions' /\ (Upload').original
         /\ \A e \in revisions' : e.original => e = Upload'
<1>1. /\ \E e \in revisions' : e.original
      /\ \A d, e \in revisions' : d.original /\ e.original => d = e
  BY DEF RowsAgree, Ledger
<1>2. QED
  BY <1>1, OneOriginal DEF Upload

LEMMA Shelves ==
  /\ ShelfNow = IF book.state = "none" THEN "empty" ELSE IF Live THEN "live" ELSE "withdrawn"
  /\ ShelfNow' = IF book'.state = "none" THEN "empty"
                 ELSE IF Live' THEN "live" ELSE "withdrawn"
<1>1. Live => book.state # "none"
  BY DEF Live
<1>2. Live' => book'.state # "none"
  BY DEF Live
<1>3. QED
  BY <1>1, <1>2 DEF ShelfNow

LEMMA FadesStep ==
  ASSUME RowsAgree, RowsAgree', FileInv, FileInv', TextInv, Fades,
         Exists /\ Exists' => OnlyOldGo, \A q \in Requests : Recalls(q)
  PROVE  [Abs!Next]_(Abs!vars)
<1>1. Live => Exists /\ book.state # "none"
  BY DEF Live, Exists
<1>2. Live' => Exists' /\ book'.state # "none"
  BY DEF Live, Exists
<1>3. CASE ~Live
  <2>1. ~Live'
    BY <1>3 DEF Fades
  <2>2. ShelfNow' = ShelfNow
    BY <1>3, <2>1, Shelves DEF Fades
  <2>3. QED
    BY <1>3, <2>1, <2>2, Stutters DEF FirstNow, HeadNow, EditsNow, PastNow
<1>4. CASE Live /\ ~Live'
  <2>1. ShelfNow = "live" /\ ShelfNow' = "withdrawn"
    BY <1>1, <1>4, Shelves DEF Fades
  <2>2. QED
    BY <1>4, <2>1, Withdraws DEF FirstNow, HeadNow, EditsNow, PastNow, Abs!Next
<1>5. CASE Live /\ Live'
  <2>1. ShelfNow = "live" /\ ShelfNow' = "live"
    BY <1>1, <1>2, <1>5, Shelves
  <2>2. Exists /\ Exists' /\ OnlyOldGo /\ RowsOnlyGo
    BY <1>1, <1>2, <1>5 DEF Fades
  <2>3. FirstNow' = FirstNow
    <3>1. Upload' \in revisions /\ (Upload').original
      BY <2>2, NextUpload DEF RowsOnlyGo
    <3>2. Upload' = Upload
      BY <2>2, <3>1, UploadIsOriginal
    <3>3. QED
      BY <1>5, <3>2 DEF FirstNow
  <2>4. HeadNow' = HeadNow
    BY <1>5, <2>2 DEF HeadNow, RowsOnlyGo
  <2>5. EditsNow' = EditsNow
    BY <1>5, <2>2, ServedIsCurrent, NextServed DEF EditsNow, RowsOnlyGo
  <2>6. PastNow = Past /\ PastNow' = Past'
    BY <1>5 DEF PastNow
  <2>7. PastNow' \subseteq PastNow /\ \A p \in PastNow \ PastNow' : MayForget(p)
    BY <1>5, <2>2, <2>6, PastFades
  <2>8. QED
    BY <2>1, <2>3, <2>4, <2>5, <2>7, Forgets DEF Abs!Next
<1>6. QED
  BY <1>3, <1>4, <1>5

(***************************************************************************)
(* An entry becomes a row: an upload, or a new revision of what is there.  *)
(***************************************************************************)
Arrives(r) == Enters(r) /\ req[r].pc = "createInsert" /\ req'[r].op = "none"

Appears(r) == Enters(r) /\ req[r].pc = "publishCommit" /\ Keeps(r) /\ req'[r].pc = "publishReply"

LEMMA EntersKinds ==
  ASSUME RowsAgree, NEW r \in Requests, Enters(r), CreateInsert(r) \/ PublishCommit(r)
  PROVE  Arrives(r) \/ Appears(r)
<1>1. ~Goto(r, "undo")
  BY GotoKeeps DEF Enters
<1>2. CASE CreateInsert(r)
  <2>1. Return(r) /\ req[r].pc = "createInsert"
    BY <1>1, <1>2 DEF CreateInsert, At
  <2>2. QED
    BY <2>1, Becomes DEF Arrives, Return, Idle
<1>3. CASE PublishCommit(r)
  <2>1. Goto(r, "publishReply") /\ req[r].pc = "publishCommit"
    BY <1>1, <1>3 DEF PublishCommit, At
  <2>2. QED
    BY <2>1, GotoKeeps DEF Appears
<1>4. QED
  BY <1>2, <1>3

LEMMA ArrivesStep ==
  ASSUME RowsAgree, RowsAgree', FileInv', TextInv, NEW r \in Requests, Arrives(r)
  PROVE  [Abs!Next]_(Abs!vars)
<1>1. book.state = "none" /\ revisions = {}
  BY DEF Arrives, Enters, RowsAgree, Proper, UploadIsFirst, Ledger, Exists
<1>2. Live' /\ Exists' /\ revisions' = {req[r].entry}
  BY <1>1 DEF Arrives, Enters, Live, Exists
<1>3. /\ req[r].entry.text = Blank /\ req[r].entry.revision # 0
      /\ req[r].entry.revision \in Nat
  BY PictureTypes DEF TextInv, Meant, UploadIsBlank, Arrives
<1>4. \A q \in Requests : ~HasRead(q)'
  <2>1. \A q \in Requests : req[q].op # "restore"
    BY <1>1 DEF TextInv, Meant, OnlyEdits
  <2>2. QED
    BY <2>1, OthersAreUntouched DEF Arrives, Enters, HasRead
<1>5. ShelfNow = "empty" /\ ShelfNow' = "live"
  BY <1>1, <1>2, Shelves DEF Arrives, Enters
<1>6. HeadNow' = req[r].entry.revision
  BY <1>2 DEF HeadNow, Arrives, Enters
<1>7. FirstNow' = HeadNow'
  <2>1. Upload' = req[r].entry
    BY <1>2, NextUpload
  <2>2. QED
    BY <1>2, <1>6, <2>1 DEF FirstNow
<1>8. EditsNow' = {}
  BY <1>2, <1>3, NextServed DEF EditsNow, Arrives, Enters, Blank
<1>9. PastNow' = {[revision |-> HeadNow', edits |-> {}]}
  <2>1. Record(req[r].entry) = [revision |-> HeadNow', edits |-> {}]
    BY <1>3, <1>6 DEF Record, Blank
  <2>2. Past' = {Record(req[r].entry)}
    BY <1>2, <1>4, PastMembers
  <2>3. QED
    BY <1>2, <2>1, <2>2 DEF PastNow
<1>10. QED
  BY <1>3, <1>5, <1>6, <1>7, <1>8, <1>9, Uploads DEF Abs!Next

LEMMA AppearsPast ==
  ASSUME RowsAgree, NEW r \in Requests, Appears(r)
  PROVE  Past' = Past \cup {Record(req[r].entry)}
<1>1. \A q \in Requests : /\ HasRead(q)' <=> HasRead(q)
                          /\ req'[q].source = req[q].source
  BY OthersAreUntouched DEF Appears, Keeps, Enters, HasRead
<1>2. revisions' = revisions \cup {req[r].entry}
  BY DEF Appears, Enters
<1>3. QED
  BY <1>1, <1>2, PastMembers

LEMMA AppearsStep ==
  ASSUME RowsAgree, RowsAgree', FileInv, FileInv', TextInv, NEW r \in Requests, Appears(r)
  PROVE  [Abs!Next]_(Abs!vars)
<1>1. Live /\ Exists /\ Live' /\ Exists'
  BY DEF Appears, Enters, RowsAgree, Proper, UploadIsFirst, Checked, Live, Exists
<1>2. ShelfNow = "live" /\ ShelfNow' = "live"
  BY <1>1, Shelves DEF Live
<1>3. req[r].pc \in Checked /\ ~req[r].entry.original
  BY DEF Appears, Checked, RowsAgree, Proper, ReadIsCurrent
<1>4. FirstNow' = FirstNow
  <2>1. Upload' \in revisions
    BY <1>1, <1>3, NextUpload DEF Appears, Enters
  <2>2. Upload' = Upload
    BY <1>1, <2>1, NextUpload, UploadIsOriginal
  <2>3. QED
    BY <1>1, <2>2 DEF FirstNow
<1>5. HeadNow' = req[r].entry.revision /\ HeadNow = book.revision
  BY <1>1 DEF HeadNow, Appears, Enters
<1>6. HeadNow' \in Nat /\ HeadNow' > HeadNow
  BY <1>1, <1>5, PictureTypes DEF Appears, Enters, Live
<1>7. EditsNow' = req[r].entry.text.edits /\ EditsNow = book.text.edits
  BY <1>1, ServedIsCurrent, NextServed DEF EditsNow, Appears, Enters
<1>8. PastNow' = PastNow \cup {[revision |-> HeadNow', edits |-> EditsNow']}
  <2>1. Record(req[r].entry) = [revision |-> HeadNow', edits |-> EditsNow']
    BY <1>5, <1>7 DEF Record
  <2>2. QED
    BY <1>1, <2>1, AppearsPast DEF PastNow
<1>9. \/ EditsNow' = EditsNow \cup {HeadNow'}
      \/ \E p \in PastNow : EditsNow' = p.edits
  <2>1. CASE req[r].op = "restore"
    <3>1. req[r].entry.text.edits = req[r].source.text.edits
      BY <1>1, <1>3, <2>1 DEF TextInv, Meant, Continues
    <3>2. HasRead(r)
      BY <2>1 DEF HasRead, Appears
    <3>3. Record(req[r].source) \in PastNow
      BY <1>1, <3>2, PastMembers DEF PastNow
    <3>4. Record(req[r].source).edits = EditsNow'
      BY <1>7, <3>1 DEF Record
    <3>5. QED
      BY <3>3, <3>4
  <2>2. CASE req[r].op # "restore"
    BY <1>1, <1>3, <1>5, <1>7, <2>2 DEF TextInv, Meant, Continues
  <2>3. QED
    BY <2>1, <2>2
<1>10. QED
  BY <1>2, <1>4, <1>6, <1>8, <1>9, Advances DEF Abs!Next

\* New rows leave what may be recalled as it is.
LEMMA EntersRecallable ==
  ASSUME RowsAgree, RowsAgree', TextInv, NEW r \in Requests, Arrives(r) \/ Appears(r),
         NEW q \in Requests
  PROVE  Recallable(q)'
<1>1. CASE Arrives(r)
  <2>1. book.state = "none"
    BY <1>1 DEF Arrives, Enters, RowsAgree, Proper, UploadIsFirst
  <2>2. req'[q].op # "restore"
    BY <1>1, <2>1, OthersAreUntouched DEF TextInv, Meant, OnlyEdits, Arrives, Enters
  <2>3. QED
    BY <2>2 DEF Recallable, HasRead
<1>2. CASE Appears(r)
  <2>1. /\ Exists /\ ~req[r].entry.original
        /\ revisions' = revisions \cup {req[r].entry}
    BY <1>2 DEF Appears, Enters, RowsAgree, Proper, UploadIsFirst, ReadIsCurrent, Checked,
                Exists
  <2>2. (HasRead(q)' <=> HasRead(q)) /\ req'[q].source = req[q].source
    BY <1>2, OthersAreUntouched DEF Appears, Keeps, Enters, HasRead
  <2>3. SUFFICES ASSUME HasRead(q)
                 PROVE  Backed(req[q].source)' \/ Spent(req[q].source.revision)'
    BY <2>2 DEF Recallable
  <2> PICK n : n = req[q].source.revision
    OBVIOUS
  <2>4. CASE Backed(req[q].source)
    BY <2>1, <2>2, <2>4 DEF Backed, Record
  <2>5. CASE Spent(n)
    <3>1. \A e \in revisions' : e.original => e.revision # n
      BY <2>1, <2>5 DEF Spent
    <3>2. NewerEdited(n) \in SUBSET NewerEdited(n)'
      BY <2>1 DEF NewerEdited
    <3>3. IsFiniteSet(NewerEdited(n)')
      <4>1. IsFiniteSet(revisions')
        BY <2>1, RowsAreFinite, FS_AddElement
      <4>2. NewerEdited(n)' \in SUBSET revisions'
        BY DEF NewerEdited
      <4>3. QED
        BY <4>1, <4>2, FS_Subset
    <3>4. /\ Cardinality(NewerEdited(n)) \in Nat /\ Cardinality(NewerEdited(n)') \in Nat
          /\ Cardinality(NewerEdited(n)) <= Cardinality(NewerEdited(n)')
      BY <3>2, <3>3, FS_Subset, FS_CardinalityType
    <3>5. Cardinality(NewerEdited(n)') >= Floor
      BY <2>5, <3>4, OwedBounds DEF Spent
    <3>6. Spent(n)'
      BY <3>1, <3>5 DEF Spent
    <3>7. QED
      BY <2>2, <3>6 DEF Spent, NewerEdited
  <2>6. QED
    BY <2>1, <2>3, <2>4, <2>5 DEF TextInv, Recallable
<1>3. QED
  BY <1>1, <1>2

(***************************************************************************)
(* One step of one request.                                                *)
(***************************************************************************)

\* It ends, or goes on with what it has.
Abides(r) ==
  \/ req'[r].op = "none" /\ req'[r].pc = "idle"
  \/ /\ req'[r].op = req[r].op
     /\ req'[r].source = req[r].source /\ req'[r].entry = req[r].entry
     /\ req[r].pc # "restoreFind" /\ req'[r].pc \notin {"restoreFind", "createInsert"}
     /\ req'[r].pc \in Checked => req[r].pc \in Checked
     /\ req'[r].pc \in Changing => req[r].pc \in Changing

LEMMA AbidesMeant ==
  ASSUME TextInv, NEW r \in Requests, Abides(r),
         book'.state = "none" => book.state = "none",
         \/ req'[r].pc \notin Checked
         \/ Exists' => Exists /\ book'.text = book.text
  PROVE  Recalls(r) /\ Meant(r)'
<1>1. Recalls(r)
  BY DEF Abides, Recalls, HasRead
<1>2. UploadIsBlank(r)'
  BY DEF Abides, UploadIsBlank
<1>3. OnlyEdits(r)'
  BY DEF Abides, TextInv, Meant, OnlyEdits, Changing, Checked
<1>4. Continues(r)'
  BY DEF Abides, TextInv, Meant, Continues, Checked
<1>5. QED
  BY <1>1, <1>2, <1>3, <1>4 DEF Meant

LEMMA EndAbides ==
  ASSUME RowsAgree, NEW r \in Requests, Return(r)
  PROVE  Abides(r) /\ Own(r)
<1>1. req'[r] = Idle /\ Own(r)
  BY Becomes DEF Return, Own
<1>2. QED
  BY <1>1 DEF Abides, Idle

LEMMA GotoAbides ==
  ASSUME RowsAgree, NEW r \in Requests, NEW pc, Goto(r, pc),
         mutex' = mutex \/ mutex = NoRequest,
         req[r].pc # "restoreFind", pc \notin {"restoreFind", "createInsert"},
         pc \in Checked => req[r].pc \in Checked, pc \in Changing => req[r].pc \in Changing
  PROVE  Abides(r) /\ Own(r)
  BY GotoKeeps DEF Keeps, Abides, Goto, Own

LEMMA NextItemAbides ==
  ASSUME RowsAgree, NEW r \in Requests, NEW e, NextItem(r, e), UNCHANGED mutex,
         req[r].pc # "restoreFind"
  PROVE  Abides(r) /\ Own(r)
  BY NextItemKeeps DEF Keeps, Abides, NextItem, Own, Changing, Checked

\* It reads something that is neither an entry nor a source.
LEMMA ReadsAbides ==
  ASSUME RowsAgree, NEW r \in Requests, NEW pc, NEW next,
         next.op = req[r].op, next.source = req[r].source, next.entry = req[r].entry,
         next.pc = pc, Become(r, next), UNCHANGED mutex,
         req[r].pc # "restoreFind", pc \notin {"restoreFind", "createInsert"} \cup Checked,
         pc \in Changing => req[r].pc \in Changing
  PROVE  Abides(r) /\ Own(r)
<1>1. req'[r] = next /\ Own(r)
  BY Becomes DEF Own
<1>2. QED
  BY <1>1 DEF Abides

LEMMA PublishAbides ==
  ASSUME RowsAgree, NEW r \in Requests,
         \/ PublishLock(r) \/ PublishGet(r) \/ PublishSave(r) \/ PublishCover(r)
         \/ PublishCommit(r) \/ CreateInsert(r) \/ Undo(r) \/ PublishReply(r)
  PROVE  Abides(r) /\ Own(r)
<1>1. CASE Return(r)
  BY <1>1, EndAbides
<1>2. CASE PublishLock(r)
  BY <1>2, GotoAbides DEF PublishLock, At, Unlocked, Checked, Changing
<1>3. CASE PublishGet(r)
  <2>1. ASSUME UNCHANGED mutex,
               Become(r, [req[r] EXCEPT !.book = book, !.pc = "publishMutate"])
        PROVE  Abides(r) /\ Own(r)
    <3> DEFINE next == [req[r] EXCEPT !.book = book, !.pc = "publishMutate"]
    <3>1. /\ next.op = req[r].op /\ next.source = req[r].source /\ next.entry = req[r].entry
          /\ next.pc = "publishMutate"
      BY DEF RowsAgree, TypeOK, RequestType
    <3>2. Become(r, next)
      BY <2>1
    <3> HIDE DEF next
    <3>3. QED
      BY <1>3, <2>1, <3>1, <3>2, ReadsAbides DEF PublishGet, At, Checked, Changing
  <2>2. QED
    BY <1>1, <1>3, <2>1 DEF PublishGet
<1>4. CASE PublishSave(r)
  BY <1>1, <1>4, GotoAbides DEF PublishSave, At, Checked, Changing
<1>5. CASE PublishCover(r)
  BY <1>1, <1>5, GotoAbides DEF PublishCover, At, Checked, Changing
<1>6. CASE PublishCommit(r)
  BY <1>1, <1>6, GotoAbides DEF PublishCommit, At, Checked, Changing
<1>7. CASE CreateInsert(r)
  BY <1>1, <1>7, GotoAbides DEF CreateInsert, At, Checked, Changing
<1>8. CASE Undo(r)
  BY <1>1, <1>8 DEF Undo
<1>9. CASE PublishReply(r)
  BY <1>1, <1>9, GotoAbides DEF PublishReply, At, Checked, Changing
<1>10. QED
  BY <1>2, <1>3, <1>4, <1>5, <1>6, <1>7, <1>8, <1>9

LEMMA PruneAbides ==
  ASSUME RowsAgree, NEW r \in Requests, Prune(r)
  PROVE  Abides(r) /\ Own(r)
<1>1. CASE Return(r)
  BY <1>1, EndAbides
<1>2. req[r].pc # "restoreFind"
  BY DEF Prune, PruneSelect, PruneRow, PruneObject, PruneCheck, PruneCover, At
<1>3. ASSUME NEW e, NextItem(r, e), UNCHANGED mutex
      PROVE  Abides(r) /\ Own(r)
  BY <1>2, <1>3, NextItemAbides
<1>4. ASSUME NEW pc \in {"pruneObject", "pruneCheck", "pruneCover"}, Goto(r, pc),
             UNCHANGED mutex
      PROVE  Abides(r) /\ Own(r)
  BY <1>2, <1>4, GotoAbides DEF Checked, Changing
<1>5. CASE PruneSelect(r)
  <2>1. ASSUME UNCHANGED mutex, NEW rows,
               Become(r, [req[r] EXCEPT !.items = rows, !.pc = "pruneRow"])
        PROVE  Abides(r) /\ Own(r)
    <3> DEFINE next == [req[r] EXCEPT !.items = rows, !.pc = "pruneRow"]
    <3>1. /\ next.op = req[r].op /\ next.source = req[r].source /\ next.entry = req[r].entry
          /\ next.pc = "pruneRow"
      BY DEF RowsAgree, TypeOK, RequestType
    <3>2. Become(r, next)
      BY <2>1
    <3> HIDE DEF next
    <3>3. QED
      BY <1>2, <2>1, <3>1, <3>2, ReadsAbides DEF Checked, Changing
  <2>2. QED
    BY <1>5, <2>1 DEF PruneSelect
<1>6. CASE PruneRow(r)
  BY <1>1, <1>3, <1>4, <1>6 DEF PruneRow
<1>7. CASE PruneObject(r) \/ PruneCheck(r) \/ PruneCover(r)
  BY <1>3, <1>4, <1>7 DEF PruneObject, PruneCheck, PruneCover
<1>8. QED
  BY <1>5, <1>6, <1>7 DEF Prune

LEMMA DeleteAbides ==
  ASSUME RowsAgree, NEW r \in Requests,
         DeleteGet(r) \/ DeleteList(r) \/ DeleteCommit(r) \/ DeleteSweep(r)
  PROVE  Abides(r) /\ Own(r)
<1>1. CASE Return(r)
  BY <1>1, EndAbides
<1>2. req[r].pc # "restoreFind"
  BY DEF DeleteGet, DeleteList, DeleteCommit, DeleteSweep, At
<1>3. ASSUME NEW next, Become(r, next), UNCHANGED mutex, next.op = req[r].op,
             next.source = req[r].source, next.entry = req[r].entry,
             next.pc \in {"deleteList", "deleteCommit", "deleteSweep"}
      PROVE  Abides(r) /\ Own(r)
  BY <1>2, <1>3, ReadsAbides DEF Checked, Changing
<1>4. CASE DeleteGet(r)
  <2>1. ASSUME Become(r, [req[r] EXCEPT !.book = book, !.pc = "deleteList"]), UNCHANGED mutex
        PROVE  Abides(r) /\ Own(r)
    <3> DEFINE next == [req[r] EXCEPT !.book = book, !.pc = "deleteList"]
    <3>1. /\ next.op = req[r].op /\ next.source = req[r].source /\ next.entry = req[r].entry
          /\ next.pc = "deleteList"
      BY DEF RowsAgree, TypeOK, RequestType
    <3>2. Become(r, next)
      BY <2>1
    <3> HIDE DEF next
    <3>3. QED
      BY <1>3, <2>1, <3>1, <3>2
  <2>2. QED
    BY <1>1, <1>4, <2>1 DEF DeleteGet
<1>5. ASSUME NEW rows, NEW pc \in {"deleteCommit", "deleteSweep"}, UNCHANGED mutex,
             Become(r, [req[r] EXCEPT !.items = rows, !.pc = pc])
      PROVE  Abides(r) /\ Own(r)
  <2> DEFINE next == [req[r] EXCEPT !.items = rows, !.pc = pc]
  <2>1. /\ next.op = req[r].op /\ next.source = req[r].source /\ next.entry = req[r].entry
        /\ next.pc = pc
    BY DEF RowsAgree, TypeOK, RequestType
  <2>2. Become(r, next)
    BY <1>5
  <2> HIDE DEF next
  <2>3. QED
    BY <1>3, <1>5, <2>1, <2>2
<1>6. CASE DeleteList(r)
  BY <1>1, <1>5, <1>6 DEF DeleteList
<1>7. CASE DeleteCommit(r)
  BY <1>1, <1>2, <1>7, GotoAbides DEF DeleteCommit, Checked, Changing
<1>8. ASSUME DeleteSweep(r), NEW rows, Become(r, [req[r] EXCEPT !.items = rows]),
             UNCHANGED mutex
      PROVE  Abides(r) /\ Own(r)
  <2> DEFINE next == [req[r] EXCEPT !.items = rows]
  <2>1. /\ next.op = req[r].op /\ next.source = req[r].source /\ next.entry = req[r].entry
        /\ next.pc = req[r].pc
    BY DEF RowsAgree, TypeOK, RequestType
  <2>2. Become(r, next) /\ req[r].pc = "deleteSweep"
    BY <1>8 DEF DeleteSweep, At
  <2> HIDE DEF next
  <2>3. QED
    BY <1>3, <1>8, <2>1, <2>2
<1>9. CASE DeleteSweep(r)
  BY <1>1, <1>8, <1>9 DEF DeleteSweep
<1>10. QED
  BY <1>4, <1>6, <1>7, <1>9

LEMMA OpenAbides ==
  ASSUME RowsAgree, NEW r \in Requests, OpenGet(r) \/ OpenRead(r) \/ Archive(r)
  PROVE  Abides(r) /\ Own(r)
<1>1. CASE Return(r)
  BY <1>1, EndAbides
<1>2. ASSUME OpenGet(r), UNCHANGED mutex,
             Become(r, [req[r] EXCEPT !.book = book, !.pc = "openRead"])
      PROVE  Abides(r) /\ Own(r)
  <2> DEFINE next == [req[r] EXCEPT !.book = book, !.pc = "openRead"]
  <2>1. /\ next.op = req[r].op /\ next.source = req[r].source /\ next.entry = req[r].entry
        /\ next.pc = "openRead"
    BY DEF RowsAgree, TypeOK, RequestType
  <2>2. Become(r, next) /\ req[r].pc = "openGet"
    BY <1>2 DEF OpenGet, At
  <2> HIDE DEF next
  <2>3. QED
    BY <1>2, <2>1, <2>2, ReadsAbides DEF Checked, Changing
<1>3. QED
  BY <1>1, <1>2 DEF OpenGet, OpenRead, Archive

\* The steps by which a request gets an entry or a source.
LEMMA AcceptMeant ==
  ASSUME NobodyRenames, RowsAgree, NEW r \in Requests, AcceptAny(r)
  PROVE  Own(r) /\ Recalls(r) /\ Meant(r)'
<1>1. PICK op : Accept(r, op)
  BY DEF AcceptAny, AcceptCreate, AcceptEdit, AcceptRestore, AcceptUpdate, AcceptOther
<1>2. UNCHANGED <<book, revisions, mutex>>
  BY <1>1 DEF Accept, db
<1>3. ASSUME NEW next, Become(r, next), next.pc \notin Checked, next.pc # "createInsert",
             next.op = "restore" => next.pc = "restoreFind" /\ book.state # "none",
             next.pc \in Changing => next.op \in Edits
      PROVE  Own(r) /\ Recalls(r) /\ Meant(r)'
  <2>1. req'[r] = next /\ Own(r)
    BY <1>2, <1>3, Becomes DEF Own
  <2>2. QED
    BY <1>2, <1>3, <2>1 DEF Recalls, HasRead, Meant, Continues, UploadIsBlank, OnlyEdits
<1>4. CASE AcceptCreate(r)
  BY <1>3, <1>4 DEF AcceptCreate, Idle, Checked, Changing
<1>5. ASSUME NEW kind \in {"edit", "cover"}, AcceptEdit(r, kind)
      PROVE  Own(r) /\ Recalls(r) /\ Meant(r)'
  BY <1>3, <1>5 DEF AcceptEdit, Idle, Checked, Changing, Edits
<1>6. CASE AcceptRestore(r)
  <2>1. revisions # {} => book.state # "none"
    BY DEF RowsAgree, Ledger, Exists
  <2>2. QED
    BY <1>3, <1>6, <2>1 DEF AcceptRestore, Idle, Checked, Changing, Edits
<1>7. ~AcceptUpdate(r)
  BY DEF NobodyRenames, AcceptUpdate, Accept
<1>8. ASSUME NEW kind \in {"delete", "archive", "open"},
             NEW pc \in {"deleteGet", "archive", "openGet"}, AcceptOther(r, kind, pc)
      PROVE  Own(r) /\ Recalls(r) /\ Meant(r)'
  BY <1>3, <1>8 DEF AcceptOther, Idle, Checked, Changing
<1>9. QED
  BY <1>4, <1>5, <1>6, <1>7, <1>8 DEF AcceptAny

LEMMA AbidesInPlace ==
  ASSUME TextInv, NEW r \in Requests, Abides(r), UNCHANGED book
  PROVE  Recalls(r) /\ Meant(r)'
<1>1. Exists' => Exists /\ book'.text = book.text
  BY DEF Exists
<1>2. QED
  BY <1>1, AbidesMeant

LEMMA CreateSaveMeant ==
  ASSUME RowsAgree, TextInv, NEW r \in Requests, CreateSave(r)
  PROVE  Own(r) /\ Recalls(r) /\ Meant(r)'
<1>1. UNCHANGED book /\ req[r].op = "create"
  BY DEF CreateSave, db, At, RowsAgree, Proper, UploadIsFirst
<1>2. CASE Return(r)
  BY <1>1, <1>2, EndAbides, AbidesInPlace
<1>3. ASSUME NEW entry, entry.text = Blank, entry.revision # 0, UNCHANGED mutex,
             Become(r, [req[r] EXCEPT !.pc = "createInsert", !.entry = entry])
      PROVE  Own(r) /\ Recalls(r) /\ Meant(r)'
  <2> DEFINE next == [req[r] EXCEPT !.pc = "createInsert", !.entry = entry]
  <2>1. next.pc = "createInsert" /\ next.entry = entry /\ next.op = req[r].op
    BY DEF RowsAgree, TypeOK, RequestType
  <2>2. Become(r, next)
    BY <1>3
  <2> HIDE DEF next
  <2>3. req'[r] = next /\ Own(r)
    BY <1>3, <2>2, Becomes DEF Own
  <2>4. QED
    BY <1>1, <1>3, <2>1, <2>3
       DEF Recalls, HasRead, Meant, Continues, UploadIsBlank, OnlyEdits, Checked, Changing
<1>4. ASSUME NEW now \in Times, NEW name \in Filenames, UNCHANGED mutex,
             Become(r, [req[r] EXCEPT
                          !.pc = "createInsert",
                          !.entry = [revision |-> now,
                                     key |-> [dir |-> drawn + 1, name |-> name], cover |-> 0,
                                     text |-> Blank, original |-> TRUE]])
      PROVE  Own(r) /\ Recalls(r) /\ Meant(r)'
  <2> DEFINE entry == [revision |-> now, key |-> [dir |-> drawn + 1, name |-> name],
                       cover |-> 0, text |-> Blank, original |-> TRUE]
  <2>1. entry.text = Blank /\ entry.revision # 0
    BY TimesAssumption
  <2>2. Become(r, [req[r] EXCEPT !.pc = "createInsert", !.entry = entry])
    BY <1>4
  <2> HIDE DEF entry
  <2> QED
    BY <1>3, <1>4, <2>1, <2>2
<1>5. QED
  BY <1>2, <1>4 DEF CreateSave

LEMMA RestoreMeant ==
  ASSUME RowsAgree, FileInv, TextInv, NEW r \in Requests, RestoreFind(r) \/ RestoreRead(r)
  PROVE  Own(r) /\ Recalls(r) /\ Meant(r)'
<1>1. UNCHANGED book /\ book.state # "none" /\ req[r].op \in Edits
  BY BookIsThere
     DEF RestoreFind, RestoreRead, db, At, TextInv, Meant, OnlyEdits, Changing
<1>2. CASE Return(r)
  BY <1>1, <1>2, EndAbides, AbidesInPlace
<1>3. ASSUME NEW next, Become(r, next), UNCHANGED mutex, next.op = req[r].op,
             next.pc \in {"restoreRead", "lock"},
             \/ HasRead(r) /\ Record(next.source) = Record(req[r].source)
             \/ req[r].op # "restore"
             \/ \E e \in revisions : Record(e) = Record(next.source)
      PROVE  Own(r) /\ Recalls(r) /\ Meant(r)'
  <2>1. req'[r] = next /\ Own(r)
    BY <1>3, Becomes DEF Own
  <2>2. Recalls(r)
    BY <1>3, <2>1 DEF Recalls, HasRead
  <2>3. QED
    BY <1>1, <1>3, <2>1, <2>2 DEF Meant, Continues, UploadIsBlank, OnlyEdits, Checked
<1>4. CASE RestoreFind(r)
  <2>1. ASSUME NEW e \in revisions, UNCHANGED mutex,
               Become(r, [req[r] EXCEPT !.source = e, !.pc = "restoreRead"])
        PROVE  Own(r) /\ Recalls(r) /\ Meant(r)'
    <3> DEFINE next == [req[r] EXCEPT !.source = e, !.pc = "restoreRead"]
    <3>1. next.pc = "restoreRead" /\ next.op = req[r].op /\ next.source = e
      BY DEF RowsAgree, TypeOK, RequestType
    <3>2. Become(r, next)
      BY <2>1
    <3> HIDE DEF next
    <3>3. QED
      BY <1>3, <2>1, <3>1, <3>2
  <2>2. QED
    BY <1>2, <1>4, <2>1 DEF RestoreFind
<1>5. CASE RestoreRead(r)
  <2>1. ASSUME NEW o \in objects, o.key = req[r].source.key, UNCHANGED mutex,
               Become(r, [req[r] EXCEPT !.source.text = o.text, !.pc = "lock"])
        PROVE  Own(r) /\ Recalls(r) /\ Meant(r)'
    <3> DEFINE next == [req[r] EXCEPT !.source.text = o.text, !.pc = "lock"]
    <3>1. /\ next.pc = "lock" /\ next.op = req[r].op
          /\ next.source.revision = req[r].source.revision /\ next.source.text = o.text
      BY DEF RowsAgree, TypeOK, RequestType, Entry
    <3>2. Become(r, next)
      BY <2>1
    <3> HIDE DEF next
    <3>3. ASSUME req[r].op = "restore"
          PROVE  HasRead(r) /\ Record(next.source) = Record(req[r].source)
      <4>1. req[r].source.key \in Key /\ req[r].source.text \in Text
        BY DEF RowsAgree, TypeOK, RequestType, Entry
      <4>2. HasSource(r) /\ HasRead(r)
        BY <1>5, <3>3 DEF HasSource, HasRead, RestoreRead, At, Restoring
      <4>3. PICK k \in Object : /\ k = Edition(req[r].source) /\ k.key = req[r].source.key
                                /\ k.text = req[r].source.text
        BY <4>1, EditionType
      <4>4. o = k
        BY <2>1, <4>2, <4>3 DEF FileInv, StoreInv, Genuine, Known, Remembers
      <4>5. QED
        BY <3>1, <4>2, <4>3, <4>4 DEF Record
    <3>4. QED
      BY <1>3, <2>1, <3>1, <3>2, <3>3
  <2>2. QED
    BY <1>2, <1>5, <2>1 DEF RestoreRead
<1>6. QED
  BY <1>4, <1>5

LEMMA EditedEdits ==
  ASSUME NEW r \in Requests, req[r].op \in Edits, NEW text \in Text, NEW revision \in Nat
  PROVE  EditedText(r, BaseText(r, text), revision).edits =
           IF req[r].op = "restore" THEN req[r].source.text.edits
           ELSE text.edits \cup {revision}
  BY DEF EditedText, BaseText, Text, Edits

LEMMA MutateMeant ==
  ASSUME RowsAgree, FileInv, TextInv, NEW r \in Requests, PublishMutate(r)
  PROVE  Own(r) /\ Recalls(r) /\ Meant(r)'
<1>1. UNCHANGED book /\ req[r].pc = "publishMutate" /\ req[r].op \in Edits
  BY DEF PublishMutate, db, At, TextInv, Meant, OnlyEdits, Changing
<1>2. CASE Return(r)
  BY <1>1, <1>2, EndAbides, AbidesInPlace
<1>3. ASSUME NEW entry, UNCHANGED mutex,
             Become(r, [req[r] EXCEPT !.entry = entry, !.pc = "publishSave"]),
             Exists => entry.text.edits =
                         IF req[r].op = "restore" THEN req[r].source.text.edits
                         ELSE book.text.edits \cup {entry.revision}
      PROVE  Own(r) /\ Recalls(r) /\ Meant(r)'
  <2> DEFINE next == [req[r] EXCEPT !.entry = entry, !.pc = "publishSave"]
  <2>1. /\ next.pc = "publishSave" /\ next.entry = entry /\ next.op = req[r].op
        /\ next.source = req[r].source
    BY DEF RowsAgree, TypeOK, RequestType
  <2>2. Become(r, next)
    BY <1>3
  <2> HIDE DEF next
  <2>3. req'[r] = next /\ Own(r)
    BY <1>3, <2>2, Becomes DEF Own
  <2>4. Recalls(r)
    BY <1>1, <2>1, <2>3 DEF Recalls, HasRead
  <2>5. Continues(r)'
    BY <1>1, <1>3, <2>1, <2>3 DEF Continues, Exists
  <2>6. OnlyEdits(r)' /\ UploadIsBlank(r)'
    BY <1>1, <2>1, <2>3 DEF OnlyEdits, UploadIsBlank, TextInv, Meant
  <2>7. QED
    BY <2>3, <2>4, <2>5, <2>6 DEF Meant
<1>4. ASSUME NEW o \in objects, NEW now \in Times, o.key = req[r].book.key, UNCHANGED mutex,
             Become(r, [req[r] EXCEPT
                          !.entry = [revision |-> NextRevision(req[r].book.revision, now),
                                     key |-> RevisionStorageKey(r), cover |-> EditedCover(r),
                                     text |-> EditedText(r, BaseText(r, o.text),
                                                NextRevision(req[r].book.revision, now)),
                                     original |-> FALSE],
                          !.pc = "publishSave"])
      PROVE  Own(r) /\ Recalls(r) /\ Meant(r)'
  <2> DEFINE revision == NextRevision(req[r].book.revision, now)
             entry == [revision |-> revision, key |-> RevisionStorageKey(r),
                       cover |-> EditedCover(r),
                       text |-> EditedText(r, BaseText(r, o.text), revision),
                       original |-> FALSE]
  <2>1. revision \in Nat
    BY TimesAssumption DEF RowsAgree, TypeOK, RequestType, BookRow, NextRevision
  <2>2. Become(r, [req[r] EXCEPT !.entry = entry, !.pc = "publishSave"])
    BY <1>4
  <2> HIDE DEF revision
  <2>3. o.text \in Text
    BY DEF RowsAgree, TypeOK, Object
  <2>4. Exists => o.text = book.text
    <3>1. SUFFICES ASSUME Exists
                   PROVE  o.text = book.text
      OBVIOUS
    <3>2. req[r].book.revision = book.revision
      BY <1>1, <3>1 DEF RowsAgree, Proper, ReadIsCurrent
    <3>3. req[r].book.text = book.text
      BY <1>1, <3>1, <3>2 DEF FileInv, Orderly, Seen, Acting
    <3>4. req[r].book.key \in Key /\ req[r].book.text \in Text
      BY DEF RowsAgree, TypeOK, RequestType, BookRow
    <3>5. PICK k \in Object : /\ k = Edition(req[r].book) /\ k.key = req[r].book.key
                              /\ k.text = req[r].book.text
      BY <3>4, EditionType
    <3>6. o = k
      BY <1>1, <1>4, <3>5 DEF FileInv, StoreInv, Genuine, Known, Remembers, Acting
    <3>7. QED
      BY <3>3, <3>5, <3>6
  <2>5. /\ entry.revision = revision
        /\ entry.text = EditedText(r, BaseText(r, o.text), revision)
    OBVIOUS
  <2> HIDE DEF entry
  <2>6. entry.text.edits = IF req[r].op = "restore" THEN req[r].source.text.edits
                           ELSE o.text.edits \cup {revision}
    BY <1>1, <2>1, <2>3, <2>5, EditedEdits
  <2>7. Exists => entry.text.edits =
                    IF req[r].op = "restore" THEN req[r].source.text.edits
                    ELSE book.text.edits \cup {entry.revision}
    BY <2>4, <2>5, <2>6
  <2>8. QED
    BY <1>3, <1>4, <2>2, <2>7
<1>5. QED
  BY <1>2, <1>4 DEF PublishMutate

(***************************************************************************)
(* Put together.                                                           *)
(***************************************************************************)
LEMMA SameFades ==
  ASSUME UNCHANGED db
  PROVE  Fades
  BY RowsUnchanged DEF Fades, db, Live

LEMMA FadesOrEnters ==
  ASSUME RowsAgree, FileInv, NEW r \in Requests, AcceptAny(r) \/ PublishLock(r) \/ Step(r)
  PROVE  Fades \/ Arrives(r) \/ Appears(r)
<1>1. CASE ~Writes(r)
  BY <1>1, OthersLeaveRows, SameFades
<1>2. CASE CreateInsert(r) \/ PublishCommit(r)
  BY <1>2, CommitEnters, EntersKinds, SameFades
<1>3. CASE PruneRow(r)
  BY <1>3 DEF PruneRow, Fades, RowsOnlyGo, Exists, Live
<1>4. CASE DeleteCommit(r)
  <2>1. CASE UNCHANGED db
    BY <2>1, SameFades
  <2>2. CASE book' = [NoBook EXCEPT !.state = "gone"] /\ revisions' = {}
    <3>1. book'.state = "gone"
      BY <2>2 DEF NoBook
    <3>2. book.state # "none"
      BY <1>4 DEF DeleteCommit, At, RowsAgree, Proper, UploadIsFirst
    <3>3. QED
      BY <2>2, <3>1, <3>2 DEF Fades, RowsOnlyGo, Exists, Live
  <2>3. QED
    BY <1>4, <2>1, <2>2 DEF DeleteCommit
<1>5. CASE Archive(r)
  <2>1. book.state # "none"
    BY <1>5, BookIsThere DEF Archive, At
  <2>2. QED
    BY <1>5, <2>1 DEF Archive, Fades, RowsOnlyGo, Exists, Live, RowsAgree, TypeOK, BookRow
<1>6. QED
  BY <1>1, <1>2, <1>3, <1>4, <1>5, NobodyIsRenaming DEF Writes

LEMMA StepMeant ==
  ASSUME NobodyRenames, RowsAgree, FileInv, TextInv, NEW r \in Requests,
         AcceptAny(r) \/ PublishLock(r) \/ Step(r)
  PROVE  Own(r) /\ Recalls(r) /\ Meant(r)'
<1>1. CASE Abides(r) /\ Own(r)
  <2>1. CASE Fades
    BY <1>1, <2>1, AbidesMeant DEF Fades, RowsOnlyGo
  <2>2. CASE Arrives(r) \/ Appears(r)
    <3>1. book'.state = "live" /\ req'[r].pc \notin Checked
      BY <2>2 DEF Arrives, Appears, Enters, Checked
    <3>2. QED
      BY <1>1, <3>1, AbidesMeant
  <2>3. QED
    BY <1>1, <2>1, <2>2, FadesOrEnters
<1>2. CASE AcceptAny(r) \/ CreateSave(r) \/ RestoreFind(r) \/ RestoreRead(r) \/ PublishMutate(r)
  BY <1>2, AcceptMeant, CreateSaveMeant, RestoreMeant, MutateMeant
<1>3. QED
  BY <1>1, <1>2, PublishAbides, PruneAbides, DeleteAbides, OpenAbides, NobodyIsRenaming
     DEF Step, Publish

LEMMA OthersMeant ==
  ASSUME RowsAgree, TextInv, NEW r \in Requests, Own(r), Fades \/ Arrives(r) \/ Appears(r),
         NEW q \in Requests, q # r
  PROVE  Meant(q)' /\ Recalls(q)
<1>1. req'[q] = req[q] /\ Meant(q)
  BY OthersAreUntouched DEF TextInv
<1>2. Recalls(q)
  BY <1>1 DEF Recalls, HasRead
<1>3. UploadIsBlank(q)'
  BY <1>1 DEF Meant, UploadIsBlank
<1>4. OnlyEdits(q)'
  BY <1>1 DEF Meant, OnlyEdits, Fades, RowsOnlyGo, Arrives, Appears, Enters
<1>5. Continues(q)'
  <2>1. CASE Fades
    BY <1>1, <2>1 DEF Meant, Continues, Fades, RowsOnlyGo
  <2>2. CASE Arrives(r)
    <3>1. book.state = "none"
      BY <2>2 DEF Arrives, RowsAgree, Proper, UploadIsFirst, Enters
    <3>2. req[q].pc \notin Checked
      BY <3>1 DEF RowsAgree, Proper, UploadIsFirst
    <3>3. QED
      BY <1>1, <3>2 DEF Continues
  <2>3. CASE Appears(r)
    <3>1. mutex = r
      BY <2>3 DEF Appears, RowsAgree, Proper, LockHeld, LockPoints, Checked
    <3>2. req[q].pc \notin Checked
      BY <3>1, OthersAreUntouched DEF LockPoints
    <3>3. QED
      BY <1>1, <3>2 DEF Continues
  <2>4. QED
    BY <2>1, <2>2, <2>3
<1>6. QED
  BY <1>2, <1>3, <1>4, <1>5 DEF Meant

LEMMA RestorersStayFinite ==
  ASSUME RowsAgree, TextInv, NEW r \in Requests, Own(r)
  PROVE  IsFiniteSet(Restorers')
<1>1. Restorers' \in SUBSET (Restorers \cup {r})
  BY OthersAreUntouched DEF Restorers
<1>2. IsFiniteSet(Restorers \cup {r})
  BY FS_AddElement DEF TextInv
<1>3. QED
  BY <1>1, <1>2, FS_Subset

LEMMA TextStep ==
  ASSUME NobodyRenames, RowsAgree, RowsAgree', HistoryInv, FileInv, FileInv', TextInv,
         [Next]_vars
  PROVE  TextInv' /\ [Abs!Next]_(Abs!vars)
<1>0. Exists /\ Exists' => OnlyOldGo
  BY StepTakesOld
<1>1. ASSUME Fades, \A q \in Requests : Recalls(q) /\ Meant(q)', IsFiniteSet(Restorers')
      PROVE  TextInv' /\ [Abs!Next]_(Abs!vars)
  <2>1. RowsOnlyGo /\ (Exists' => OnlyOldGo)
    BY <1>0, <1>1 DEF Fades, RowsOnlyGo
  <2>2. \A q \in Requests : Recallable(q)'
    BY <1>1, <2>1, RecallableStays DEF TextInv
  <2>3. TextInv'
    BY <1>1, <2>2 DEF TextInv
  <2>4. QED
    BY <1>0, <1>1, <2>3, FadesStep
<1>2. CASE UNCHANGED vars
  <2>1. Fades
    BY <1>2, SameFades DEF vars, db
  <2>2. \A q \in Requests : Recalls(q) /\ Meant(q)'
    BY <1>2 DEF vars, TextInv, Recalls, HasRead, Meant, Continues, UploadIsBlank, OnlyEdits,
                Exists
  <2>3. IsFiniteSet(Restorers')
    BY <1>2 DEF vars, TextInv, Restorers
  <2>4. QED
    BY <1>1, <2>1, <2>2, <2>3
<1>3. ASSUME NEW r \in Requests, AcceptAny(r) \/ PublishLock(r) \/ Step(r)
      PROVE  TextInv' /\ [Abs!Next]_(Abs!vars)
  <2>1. Own(r) /\ Recalls(r) /\ Meant(r)'
    BY <1>3, StepMeant
  <2>2. Fades \/ Arrives(r) \/ Appears(r)
    BY <1>3, FadesOrEnters
  <2>3. \A q \in Requests : Recalls(q) /\ Meant(q)'
    BY <2>1, <2>2, OthersMeant
  <2>4. IsFiniteSet(Restorers')
    BY <2>1, RestorersStayFinite
  <2>5. CASE Fades
    BY <1>1, <2>3, <2>4, <2>5
  <2>6. CASE Arrives(r) \/ Appears(r)
    <3>1. \A q \in Requests : Recallable(q)'
      BY <2>6, EntersRecallable
    <3>2. QED
      BY <2>3, <2>4, <2>6, <3>1, ArrivesStep, AppearsStep DEF TextInv
  <2>7. QED
    BY <2>2, <2>5, <2>6
<1>4. CASE Crash
  <2>1. Fades
    BY <1>4, SameFades DEF Crash
  <2>2. \A q \in Requests : req'[q].op = "none" /\ req'[q].pc = "idle"
    BY <1>4 DEF Crash, Idle
  <2>3. \A q \in Requests : Recalls(q) /\ Meant(q)'
    BY <2>2 DEF Recalls, HasRead, Meant, Continues, UploadIsBlank, OnlyEdits, Checked, Changing
  <2>4. Restorers' = {}
    BY <2>2 DEF Restorers
  <2>5. QED
    BY <1>1, <2>1, <2>3, <2>4, FS_EmptySet
<1>5. QED
  BY <1>2, <1>3, <1>4 DEF Next

LEMMA TextInit == Init => TextInv
<1>1. SUFFICES ASSUME Init
               PROVE  TextInv
  OBVIOUS
<1>2. \A q \in Requests : req[q].op = "none" /\ req[q].pc = "idle"
  BY <1>1 DEF Init, Idle
<1>3. Restorers = {}
  BY <1>2 DEF Restorers
<1>4. \A q \in Requests : Recallable(q) /\ Meant(q)
  BY <1>2 DEF Recallable, HasRead, Meant, Continues, UploadIsBlank, OnlyEdits, Checked, Changing
<1>5. QED
  BY <1>3, <1>4, FS_EmptySet DEF TextInv

\* Seen by readers and editors the library is the versioned text of LibraryAbs:
\* every step of every request, failure and crash is an upload, an edit on top
\* of the current revision, a restoration of a text the book had, the end of
\* revisions that may be forgotten, a withdrawal, or nothing.
THEOREM LibraryIsVersionedText ==
  ASSUME NobodyRenames
  PROVE  Spec => VersionedText
<1>1. RowsAgree /\ RowsAgree' /\ HistoryInv /\ FileInv /\ FileInv' /\ TextInv /\ [Next]_vars
        => TextInv' /\ [Abs!Next]_(Abs!vars)
  BY TextStep
<1>2. QED
  BY <1>1, TextInit, StartsEmpty, FilesAreKept, HistoryIsKept, RowsAlwaysAgree, PTL
     DEF Spec, VersionedText, Abs!Spec

(***************************************************************************)
(* Renames.  Where clients do rename, the bytes are there whenever the     *)
(* library is at rest, as long as no rename runs beside another one or     *)
(* beside an operation that publishes, and the process does not die while  *)
(* one is under way.  Deletions, archiving and downloads may come at any   *)
(* time, any call may fail, and the process may die at any other time.     *)
(*                                                                         *)
(* While nobody renames, FileInv holds as above.  During a rename the      *)
(* bytes of the current revision are under one of two keys, and the others *)
(* run nothing that writes files of a book that is there.                  *)
(***************************************************************************)
RenamesRunAlone ==
  \A p, q \in Requests :
    p # q /\ req[p].op = "update" => req[q].op \notin Edits \cup {"update"}

CrashesSpareRenames == (\E r \in Requests : req[r].op = "update") => UNCHANGED crashes

\* The rename holds the current row, and its new key lies in the directory of
\* the current revision.
HoldsCurrent(r) ==
  req[r].pc \in {"updateRename", "updateCommit", "updateBack"} =>
    /\ req[r].book.revision = book.revision
    /\ req[r].book.key = book.key /\ req[r].book.text = book.text
    /\ req[r].entry.key.dir = book.key.dir
    /\ \E e \in revisions : e.revision = book.revision /\ e.key = book.key
    /\ req[r].pc # "updateCommit" => Moved(r)

\* The bytes of the current revision are under the new key already.
IsAway(r) == req[r].pc \in {"updateCommit", "updateBack"} /\ Moved(r)

RowsHoldBut(key) == \A e \in revisions : e.key # key => Holds(e.key, e.text)

BytesAreAround(r) ==
  IF IsAway(r)
  THEN /\ ~Stored(objects, req[r].book.key)
       /\ Holds(req[r].entry.key, req[r].book.text)
       /\ RowsHoldBut(req[r].book.key)
  ELSE RowsHold

\* Genuine, of the rows alone.
RowsGenuine ==
  \A e \in revisions :
    e.key.dir <= drawn /\ \A o \in objects : o.key = e.key => o.text = e.text

Renaming(r) ==
  /\ req[r].pc \in RenamePoints /\ Unique
  /\ book.state # "none" /\ \A q \in Requests : Swept(q)
  /\ Exists => /\ RowsGenuine /\ KeysDiffer /\ BookIsListed
               /\ HoldsCurrent(r) /\ BytesAreAround(r)

RestInv ==
  lapses = 0 =>
    /\ (\A r \in Requests : req[r].op # "update") => FileInv
    /\ \A r \in Requests : req[r].op = "update" => Renaming(r)

(***************************************************************************)
(* The others during a rename, and what is known then.                     *)
(***************************************************************************)
Aside == Calm \cup DeletePoints

LEMMA OthersAreAside ==
  ASSUME RowsAgree, OnDuty, RenamesRunAlone, book.state # "none",
         NEW p \in Requests, req[p].op = "update", NEW q \in Requests, q # p
  PROVE  req[q].pc \in Aside /\ req[q].op # "update"
<1>1. req[q].op \notin Edits \cup {"update"}
  BY DEF RenamesRunAlone
<1>2. req[q].op # "create"
  BY DEF RowsAgree, Proper, UploadIsFirst
<1>3. req[q].pc \notin Editing \cup RenamePoints \cup {"undo", "createSave", "createInsert"}
  BY <1>1, <1>2 DEF OnDuty, Duty, RowsAgree, Proper, UploadIsFirst
<1>4. req[q].pc \in Points
  BY DEF RowsAgree, TypeOK, RequestType
<1>5. QED
  BY <1>1, <1>3, <1>4
     DEF Points, Aside, Calm, DeletePoints, Editing, RenamePoints, LockPoints, Checked,
         Committed

LEMMA AsideIsOrderly ==
  ASSUME ~NobodyRenames, NEW q \in Requests, req'[q].pc \in Aside, req'[q].op # "update",
         book'.state # "none", Swept(q)'
  PROVE  Orderly(q)' /\ \A k : ~Remembers(q, k)'
<1>1. /\ req'[q].pc \notin Entered \cup Acting \cup Pruning \cup Restoring \cup RenamePoints
      /\ req'[q].pc # "undo"
  BY DEF Aside, Calm, DeletePoints, Entered, Acting, Checked, Pruning, Restoring, RenamePoints
<1>2. QED
  BY <1>1 DEF Orderly, NoRename, Begun, Fresh, HasEntry, Leaves, Seen, Remembers, HasSource

LEMMA RestIsBack ==
  ASSUME ~NobodyRenames, RowsAgree', Unique', book'.state # "none",
         \A q \in Requests : req'[q].pc \in Aside /\ req'[q].op # "update" /\ Swept(q)',
         Exists' => RowsGenuine' /\ KeysDiffer' /\ BookIsListed' /\ RowsHold'
  PROVE  FileInv'
<1>1. \A q \in Requests : Orderly(q)' /\ \A k : ~Remembers(q, k)'
  BY AsideIsOrderly
<1>2. ~Exists' => revisions' = {}
  BY DEF RowsAgree, Ledger
<1>3. ASSUME NEW k \in Object, Known(k)'
      PROVE  k.key.dir <= drawn' /\ \A o \in objects' : o.key = k.key => o = k
  <2>1. PICK e \in revisions' : k = Edition(e)
    BY <1>1, <1>3 DEF Known
  <2>2. k.key = e.key /\ k.text = e.text
    BY <2>1 DEF Edition
  <2>3. k.key.dir <= drawn' /\ \A o \in objects' : o.key = k.key => o.text = k.text
    BY <1>2, <2>1, <2>2 DEF RowsGenuine
  <2>4. \A o \in objects' : o \in Object
    BY DEF RowsAgree, TypeOK
  <2>5. QED
    BY <2>3, <2>4 DEF Object
<1>4. KeysDiffer' /\ RowsHold' /\ BookIsListed'
  BY <1>2 DEF KeysDiffer, RowsHold, BookIsListed, Live, Exists
<1>5. QED
  BY <1>1, <1>3, <1>4 DEF FileInv, StoreInv, Genuine

\* A rename ends: what is needed of rows and files.
LEMMA RenameEnds ==
  ASSUME ~NobodyRenames, RowsAgree, RowsAgree', OnDuty, RenamesRunAlone, NEW r \in Requests,
         req[r].op = "update", Renaming(r), Return(r), Unique', UNCHANGED book.state,
         Exists' => RowsGenuine' /\ KeysDiffer' /\ BookIsListed' /\ RowsHold'
  PROVE  FileInv'
<1>1. req'[r] = Idle /\ \A q \in Requests : q # r => req'[q] = req[q]
  BY Becomes, OthersAreUntouched DEF Return, Own
<1>2. book.state # "none" /\ book'.state # "none"
  BY DEF Renaming
<1>3. Idle.pc \in Aside /\ Idle.op # "update" /\ Idle.pc # "deleteSweep"
  BY DEF Idle, Aside, Calm
<1>4. \A q \in Requests : q # r => req[q].pc \in Aside /\ req[q].op # "update" /\ Swept(q)
  BY <1>2, OthersAreAside DEF Renaming
<1>5. \A q \in Requests : req'[q].pc \in Aside /\ req'[q].op # "update" /\ Swept(q)'
  BY <1>1, <1>3, <1>4 DEF Swept
<1>6. QED
  BY <1>2, <1>5, RestIsBack

(***************************************************************************)
(* It begins.                                                              *)
(***************************************************************************)
LEMMA RowsAreGenuine ==
  ASSUME RowsAgree, FileInv
  PROVE  RowsGenuine
<1>1. SUFFICES ASSUME NEW e \in revisions
               PROVE  e.key.dir <= drawn /\ \A o \in objects : o.key = e.key => o.text = e.text
  BY DEF RowsGenuine
<1>2. PICK k \in Object : Known(k) /\ k.key = e.key /\ k.text = e.text
  BY RowEdition
<1>3. QED
  BY <1>2 DEF FileInv, StoreInv, Genuine

LEMMA RenameBegins ==
  ASSUME RowsAgree, RowsAgree', FileInv, NEW r \in Requests, AcceptUpdate(r)
  PROVE  /\ Renaming(r)' /\ req'[r].op = "update"
         /\ \A q \in Requests : q # r => req'[q] = req[q]
<1>1. UNCHANGED <<book, revisions, objects, drawn>> /\ UNCHANGED mutex
  BY DEF AcceptUpdate, Accept, db, files
<1>2. PICK name : Become(r, [Idle EXCEPT !.op = "update", !.pc = "updateGet",
                                 !.entry = [NoEntry EXCEPT !.key = [NoKey EXCEPT !.name = name]]])
  BY DEF AcceptUpdate
<1>3. req'[r].op = "update" /\ req'[r].pc = "updateGet" /\ Own(r)
  BY <1>1, <1>2, Becomes DEF Own, Idle
<1>4. \A q \in Requests : q # r => req'[q] = req[q]
  BY <1>3, OthersAreUntouched
<1>5. \A q \in Requests : Swept(q)'
  BY <1>1, <1>3, <1>4 DEF Swept, FileInv, Orderly
<1>6. Unique' /\ KeysDiffer' /\ BookIsListed' /\ RowsGenuine' /\ RowsHold'
  BY <1>1, RowsAreGenuine
     DEF FileInv, StoreInv, Unique, KeysDiffer, BookIsListed, Live, RowsGenuine, RowsHold,
         Holds, Exists
<1>7. HoldsCurrent(r)' /\ BytesAreAround(r)'
  BY <1>3, <1>6 DEF HoldsCurrent, BytesAreAround, IsAway
<1>8. book'.state # "none"
  BY <1>1 DEF AcceptUpdate
<1>9. QED
  BY <1>3, <1>4, <1>5, <1>6, <1>7, <1>8 DEF Renaming, RenamePoints

(***************************************************************************)
(* Another request takes a step.                                           *)
(***************************************************************************)
LEMMA RenamingStays ==
  ASSUME NEW p \in Requests, Renaming(p), UNCHANGED <<revisions, objects, drawn>>,
         req'[p] = req[p], Exists' => Exists, Live' => Live, book'.state # "none",
         book'.revision = book.revision, book'.key = book.key, book'.text = book.text,
         book'.cover = book.cover, \A q \in Requests : Swept(q)'
  PROVE  Renaming(p)'
<1>1. Unique'
  BY DEF Renaming, Unique
<1>2. SUFFICES ASSUME Exists'
               PROVE  /\ RowsGenuine' /\ KeysDiffer' /\ BookIsListed'
                      /\ HoldsCurrent(p)' /\ BytesAreAround(p)'
  BY <1>1 DEF Renaming
<1>3. RowsGenuine' /\ KeysDiffer' /\ BookIsListed'
  BY <1>2 DEF Renaming, RowsGenuine, KeysDiffer, BookIsListed
<1>4. HoldsCurrent(p)'
  BY <1>2 DEF Renaming, HoldsCurrent, Moved
<1>5. BytesAreAround(p)'
  BY <1>2 DEF Renaming, BytesAreAround, IsAway, Moved, Stored, Holds, RowsHoldBut, RowsHold
<1>6. QED
  BY <1>3, <1>4, <1>5

LEMMA WithdrawnRenaming ==
  ASSUME NEW p \in Requests, Renaming(p), req'[p] = req[p], objects' \subseteq objects,
         book'.state = "gone"
  PROVE  Renaming(p)'
  BY DEF Renaming, Unique, Swept, Exists

LEMMA BesideRename ==
  ASSUME RowsAgree, RowsAgree', OnDuty, RenamesRunAlone, NEW p \in Requests,
         req[p].op = "update", Renaming(p), NEW q \in Requests, q # p,
         AcceptAny(q) \/ PublishLock(q) \/ Step(q)
  PROVE  Renaming(p)' /\ req'[p] = req[p]
<1>1. book.state # "none"
  BY DEF Renaming
<1>2. req[q].pc \in Aside
  BY <1>1, OthersAreAside
<1>3. ASSUME UNCHANGED <<revisions, objects, drawn>>, Own(q), UNCHANGED book \/ Archive(q),
             req'[q].pc # "deleteSweep"
      PROVE  Renaming(p)' /\ req'[p] = req[p]
  <2>1. \A s \in Requests : s # q => req'[s] = req[s]
    BY <1>3, OthersAreUntouched
  <2>2. /\ Exists' => Exists
        /\ Live' => Live
        /\ book'.state # "none" /\ (book.state = "gone" => book'.state = "gone")
        /\ book'.revision = book.revision /\ book'.key = book.key
        /\ book'.text = book.text /\ book'.cover = book.cover
    BY <1>1, <1>3 DEF Archive, Exists, Live, RowsAgree, TypeOK, BookRow
  <2>3. \A s \in Requests : Swept(s)'
    BY <1>3, <2>1, <2>2 DEF Renaming, Swept
  <2>4. QED
    BY <1>3, <2>1, <2>2, <2>3, RenamingStays
<1>4. ASSUME Return(q)
      PROVE  Own(q) /\ req'[q].pc # "deleteSweep"
  BY <1>4, Becomes DEF Return, Own, Idle
<1>5. CASE AcceptAny(q)
  <2>1. PICK op : Accept(q, op)
    BY <1>5 DEF AcceptAny, AcceptCreate, AcceptEdit, AcceptRestore, AcceptUpdate, AcceptOther
  <2>2. UNCHANGED <<revisions, objects, drawn>> /\ UNCHANGED book /\ UNCHANGED mutex
    BY <2>1 DEF Accept, db, files
  <2>3. ASSUME NEW next, Become(q, next), next.pc # "deleteSweep"
        PROVE  req'[q].pc # "deleteSweep" /\ Own(q)
    BY <2>2, <2>3, Becomes DEF Own
  <2>4. req'[q].pc # "deleteSweep" /\ Own(q)
    <3>1. CASE AcceptCreate(q)
      BY <2>3, <3>1 DEF AcceptCreate, Idle
    <3>2. ASSUME NEW kind, AcceptEdit(q, kind)
          PROVE  req'[q].pc # "deleteSweep" /\ Own(q)
      BY <2>3, <3>2 DEF AcceptEdit, Idle
    <3>3. CASE AcceptRestore(q)
      BY <2>3, <3>3 DEF AcceptRestore, Idle
    <3>4. CASE AcceptUpdate(q)
      BY <2>3, <3>4 DEF AcceptUpdate, Idle
    <3>5. ASSUME NEW kind, NEW pc \in {"deleteGet", "archive", "openGet"},
                 AcceptOther(q, kind, pc)
          PROVE  req'[q].pc # "deleteSweep" /\ Own(q)
      BY <2>3, <3>5 DEF AcceptOther, Idle
    <3>6. QED
      BY <1>5, <3>1, <3>2, <3>3, <3>4, <3>5 DEF AcceptAny
  <2>5. QED
    BY <1>3, <2>2, <2>4
<1>6. CASE DeleteGet(q)
  <2>1. UNCHANGED <<revisions, objects, drawn>> /\ UNCHANGED book
    BY <1>6 DEF DeleteGet, db, files
  <2>2. ASSUME Become(q, [req[q] EXCEPT !.book = book, !.pc = "deleteList"]), UNCHANGED mutex
        PROVE  Own(q) /\ req'[q].pc # "deleteSweep"
    BY <2>2, Becomes DEF Own, RowsAgree, TypeOK, RequestType
  <2>3. QED
    BY <1>3, <1>4, <1>6, <2>1, <2>2 DEF DeleteGet
<1>7. CASE DeleteList(q)
  <2>1. UNCHANGED <<revisions, objects, drawn>> /\ UNCHANGED book
    BY <1>7 DEF DeleteList, db, files
  <2>2. ASSUME NEW rows, UNCHANGED mutex,
               Become(q, [req[q] EXCEPT !.items = rows, !.pc = "deleteCommit"])
        PROVE  Own(q) /\ req'[q].pc # "deleteSweep"
    BY <2>2, Becomes DEF Own, RowsAgree, TypeOK, RequestType
  <2>3. QED
    BY <1>3, <1>4, <1>7, <2>1, <2>2 DEF DeleteList
<1>8. CASE DeleteCommit(q)
  <2>1. CASE Return(q)
    <3>1. UNCHANGED <<revisions, objects, drawn>> /\ UNCHANGED book
      BY <1>8, <2>1, GotoKeeps, Becomes DEF DeleteCommit, db, files, Return, Idle, Goto
    <3>2. QED
      BY <1>3, <1>4, <2>1, <3>1
  <2>2. CASE ~Return(q)
    <3>1. book'.state = "gone" /\ objects' = objects /\ Goto(q, "deleteSweep")
          /\ UNCHANGED mutex
      BY <1>8, <2>2 DEF DeleteCommit, files, NoBook
    <3>2. req'[p] = req[p]
      BY <3>1, GotoKeeps, OthersAreUntouched DEF Goto, Own
    <3>3. QED
      BY <3>1, <3>2, WithdrawnRenaming
  <2>3. QED
    BY <2>1, <2>2
<1>9. CASE DeleteSweep(q)
  <2>1. book.state = "gone" /\ UNCHANGED book
    BY <1>9 DEF Renaming, Swept, DeleteSweep, At, db
  <2>2. objects' \subseteq objects
    BY <1>9 DEF DeleteSweep, files, Delete, Without
  <2>3. Own(q)
    BY <1>9, <1>4, Becomes DEF DeleteSweep, Own
  <2>4. QED
    BY <2>1, <2>2, <2>3, WithdrawnRenaming, OthersAreUntouched
<1>10. CASE Archive(q)
  BY <1>3, <1>4, <1>10 DEF Archive, files
<1>11. CASE OpenGet(q) \/ OpenRead(q)
  <2>1. UNCHANGED <<revisions, objects, drawn>> /\ UNCHANGED book
    BY <1>11 DEF OpenGet, OpenRead, db, files
  <2>2. ASSUME Become(q, [req[q] EXCEPT !.book = book, !.pc = "openRead"]), UNCHANGED mutex
        PROVE  Own(q) /\ req'[q].pc # "deleteSweep"
    BY <2>2, Becomes DEF Own, RowsAgree, TypeOK, RequestType
  <2>3. QED
    BY <1>3, <1>4, <1>11, <2>1, <2>2 DEF OpenGet, OpenRead
<1>12. ~(CreateSave(q) \/ CreateInsert(q) \/ RestoreFind(q) \/ RestoreRead(q) \/ PublishLock(q))
  BY <1>2 DEF CreateSave, CreateInsert, RestoreFind, RestoreRead, PublishLock, At, Aside, Calm,
              DeletePoints
<1>13. ~Publish(q)
  BY <1>2 DEF Publish, PublishGet, PublishMutate, PublishSave, PublishCover, PublishCommit,
              Undo, PublishReply, At, Aside, Calm, DeletePoints
<1>14. ~Prune(q)
  BY <1>2 DEF Prune, PruneSelect, PruneRow, PruneObject, PruneCheck, PruneCover, At, Aside,
              Calm, DeletePoints
<1>15. ~(UpdateGet(q) \/ UpdateRename(q) \/ UpdateCommit(q) \/ UpdateBack(q))
  BY <1>2 DEF UpdateGet, UpdateRename, UpdateCommit, UpdateBack, At, Aside, Calm, DeletePoints
<1>16. QED
  BY <1>5, <1>6, <1>7, <1>8, <1>9, <1>10, <1>11, <1>12, <1>13, <1>14, <1>15 DEF Step

(***************************************************************************)
(* The rename takes a step.                                                *)
(***************************************************************************)
Runs(r) ==
  /\ ~NobodyRenames /\ RowsAgree /\ OnDuty /\ RenamesRunAlone
  /\ req[r].op = "update" /\ Renaming(r)

\* Where the step leads.
Rests(r) == FileInv' \/ (Renaming(r)' /\ req'[r].op = "update")

LEMMA RenameObjects ==
  ASSUME NEW store, NEW old, NEW new, old # new, NEW o
  PROVE  o \in Rename(store, old, new)
           <=> \/ o \in store /\ o.key # old /\ o.key # new
               \/ \E x \in store : x.key = old /\ o = [key |-> new, text |-> x.text]
  BY DEF Rename, Without

LEMMA RenameStaysUnique ==
  ASSUME Unique, NEW old, NEW new, old # new, objects' = Rename(objects, old, new)
  PROVE  Unique'
<1>1. SUFFICES ASSUME NEW o \in objects', NEW p \in objects', o.key = p.key
               PROVE  o = p
  BY DEF Unique
<1>2. CASE o \in objects /\ p \in objects
  BY <1>1, <1>2 DEF Unique
<1>3. CASE ~(o \in objects /\ o.key # old /\ o.key # new)
  <2>1. PICK x \in objects : x.key = old /\ o = [key |-> new, text |-> x.text]
    BY <1>1, <1>3, RenameObjects
  <2>2. PICK y \in objects : y.key = old /\ p = [key |-> new, text |-> y.text]
    BY <1>1, <2>1, RenameObjects
  <2>3. QED
    BY <2>1, <2>2 DEF Unique
<1>4. CASE ~(p \in objects /\ p.key # old /\ p.key # new)
  <2>1. PICK x \in objects : x.key = old /\ p = [key |-> new, text |-> x.text]
    BY <1>1, <1>4, RenameObjects
  <2>2. PICK y \in objects : y.key = old /\ o = [key |-> new, text |-> y.text]
    BY <1>1, <2>1, RenameObjects
  <2>3. QED
    BY <2>1, <2>2 DEF Unique
<1>5. QED
  BY <1>2, <1>3, <1>4

\* The current row, which alone may have the new key.
LEMMA CurrentRow ==
  ASSUME NEW r \in Requests, Runs(r), Exists,
         req[r].pc \in {"updateRename", "updateCommit", "updateBack"}
  PROVE  \E c \in revisions :
           /\ c.revision = book.revision /\ c.key = book.key
           /\ c.text = book.text /\ c.cover = book.cover
           /\ \A e \in revisions : e.key.dir = req[r].entry.key.dir => e = c
           /\ \A e \in revisions : e.key = req[r].book.key => e = c
           /\ \A e \in revisions : e.revision = req[r].book.revision => e = c
<1>1. HoldsCurrent(r) /\ KeysDiffer
  BY DEF Runs, Renaming
<1>2. PICK c \in revisions : c.revision = book.revision /\ c.key = book.key
  BY <1>1 DEF HoldsCurrent
<1>3. c.text = book.text /\ c.cover = book.cover
  BY <1>2 DEF Runs, RowsAgree, Ledger
<1>4. \A e \in revisions : e.key.dir = req[r].entry.key.dir => e = c
  BY <1>1, <1>2 DEF HoldsCurrent, KeysDiffer
<1>5. \A e \in revisions : e.revision = req[r].book.revision => e = c
  BY <1>1, <1>2 DEF HoldsCurrent, Runs, RowsAgree, Ledger
<1>6. \A e \in revisions : e.key = req[r].book.key => e = c
  BY <1>1, <1>2 DEF HoldsCurrent, KeysDiffer
<1>7. QED
  BY <1>2, <1>3, <1>4, <1>5, <1>6

LEMMA RenameGoesOn ==
  ASSUME NEW r \in Requests, Runs(r), Own(r), req'[r].pc \in RenamePoints,
         UNCHANGED book.state, Unique',
         Exists' => /\ RowsGenuine' /\ KeysDiffer' /\ BookIsListed'
                    /\ HoldsCurrent(r)' /\ BytesAreAround(r)'
  PROVE  Renaming(r)'
<1>1. \A q \in Requests : q # r => req'[q] = req[q]
  BY OthersAreUntouched DEF Runs
<1>2. \A q \in Requests : Swept(q)'
  BY <1>1 DEF Runs, Renaming, Swept, RenamePoints
<1>3. QED
  BY <1>2 DEF Runs, Renaming

LEMMA AsTheyWere ==
  ASSUME NEW r \in Requests, Runs(r), UNCHANGED <<book, revisions, objects, drawn>>
  PROVE  /\ Unique'
         /\ Exists' => Exists /\ RowsGenuine' /\ KeysDiffer' /\ BookIsListed'
         /\ Exists' /\ RowsHold => RowsHold'
  BY DEF Runs, Renaming, Unique, Exists, Live, RowsGenuine, KeysDiffer, BookIsListed, RowsHold,
         Holds

\* A rename that has moved nothing gives up.
LEMMA RenameGivesUp ==
  ASSUME NEW r \in Requests, Runs(r), RowsAgree', Return(r),
         UNCHANGED <<book, revisions, objects, drawn>>, ~IsAway(r)
  PROVE  FileInv'
<1>1. Exists => RowsHold
  BY DEF Runs, Renaming, BytesAreAround
<1>2. QED
  BY <1>1, AsTheyWere, RenameEnds DEF Runs

LEMMA UpdateGetRests ==
  ASSUME NEW r \in Requests, Runs(r), RowsAgree', UpdateGet(r)
  PROVE  Rests(r)
<1>1. UNCHANGED <<book, revisions, objects, drawn>> /\ ~IsAway(r) /\ UNCHANGED book.state
  BY DEF UpdateGet, At, files, db, IsAway
<1>2. ASSUME NEW name, Live, UNCHANGED mutex,
             Become(r, [req[r] EXCEPT !.book = book, !.entry.key = [book.key EXCEPT !.name = name],
                                      !.pc = IF [book.key EXCEPT !.name = name] = book.key
                                               THEN "updateCommit" ELSE "updateRename"])
      PROVE  Renaming(r)' /\ req'[r].op = "update"
  <2> DEFINE key == [book.key EXCEPT !.name = name]
             pc == IF key = book.key THEN "updateCommit" ELSE "updateRename"
             next == [req[r] EXCEPT !.book = book, !.entry.key = key, !.pc = pc]
  <2>1. key.dir = book.key.dir
    BY DEF Runs, RowsAgree, TypeOK, BookRow, Key
  <2>2. Become(r, next)
    BY <1>2
  <2> HIDE DEF key
  <2>3. next.pc = pc /\ next.book = book /\ next.entry.key = key /\ next.op = req[r].op
    BY DEF Runs, RowsAgree, TypeOK, RequestType, Entry
  <2> HIDE DEF next
  <2>4. req'[r] = next /\ Own(r)
    BY <1>2, <2>2, Becomes DEF Own, Runs
  <2>5. Moved(r)' <=> key # book.key
    BY <2>3, <2>4 DEF Moved
  <2>6. req'[r].pc \in RenamePoints /\ ~IsAway(r)'
    BY <2>3, <2>4, <2>5 DEF RenamePoints, IsAway
  <2>7. Exists' => HoldsCurrent(r)'
    <3>1. \E e \in revisions : e.revision = book.revision /\ e.key = book.key
      BY <1>2 DEF Runs, Renaming, BookIsListed, Live, Exists
    <3>2. QED
      BY <1>1, <2>1, <2>3, <2>4, <2>5, <3>1 DEF HoldsCurrent
  <2>8. Exists' => BytesAreAround(r)'
    BY <1>1, <2>6, AsTheyWere DEF Runs, Renaming, BytesAreAround
  <2>9. QED
    BY <1>1, <2>3, <2>4, <2>6, <2>7, <2>8, AsTheyWere, RenameGoesOn DEF Runs
<1>3. CASE Return(r)
  BY <1>1, <1>3, RenameGivesUp DEF Rests
<1>4. QED
  BY <1>2, <1>3 DEF UpdateGet, Rests

LEMMA UpdateRenameRests ==
  ASSUME NEW r \in Requests, Runs(r), RowsAgree', UpdateRename(r)
  PROVE  Rests(r)
<1>1. /\ UNCHANGED <<book, revisions, drawn>> /\ UNCHANGED book.state
      /\ req[r].pc = "updateRename"
  BY DEF UpdateRename, At, db
<1>2. CASE Return(r)
  <2>1. UNCHANGED objects
    BY <1>1, <1>2, GotoKeeps, Becomes DEF UpdateRename, Return, Idle, Goto, Runs
  <2>2. QED
    BY <1>1, <1>2, <2>1, RenameGivesUp DEF Rests, IsAway
<1>3. ASSUME objects' = Rename(objects, req[r].book.key, req[r].entry.key),
             Stored(objects, req[r].book.key), Goto(r, "updateCommit"), UNCHANGED mutex
      PROVE  Renaming(r)' /\ req'[r].op = "update"
  <2>1. req'[r].pc = "updateCommit" /\ Keeps(r) /\ Own(r)
    BY <1>3, GotoKeeps DEF Goto, Own, Runs
  <2>2. PICK old, new : old = req[r].book.key /\ new = req[r].entry.key
    OBVIOUS
  <2>3. req'[r].book.key = old /\ req'[r].entry.key = new /\ (Moved(r)' <=> old # new)
    BY <2>1, <2>2 DEF Keeps, Moved
  <2>4. ASSUME old = new
        PROVE  ~Exists
    BY <1>1, <2>2, <2>4 DEF Runs, Renaming, HoldsCurrent, Moved
  <2>5. Unique'
    <3>1. CASE old = new
      BY <1>3, <2>2, <3>1 DEF Rename, Runs, Renaming, Unique
    <3>2. CASE old # new
      BY <1>3, <2>2, <3>2, RenameStaysUnique DEF Runs, Renaming
    <3>3. QED
      BY <3>1, <3>2
  <2>6. ASSUME Exists'
        PROVE  /\ RowsGenuine' /\ KeysDiffer' /\ BookIsListed'
               /\ HoldsCurrent(r)' /\ BytesAreAround(r)'
    <3>1. Exists /\ old # new
      BY <1>1, <2>4, <2>6 DEF Exists
    <3>2. PICK c \in revisions :
            /\ c.revision = book.revision /\ c.key = book.key /\ c.text = book.text
            /\ \A e \in revisions : e.key.dir = new.dir => e = c
      BY <1>1, <2>2, <3>1, CurrentRow
    <3>3. HoldsCurrent(r) /\ RowsGenuine /\ KeysDiffer /\ BookIsListed /\ RowsHold
      BY <1>1, <3>1 DEF Runs, Renaming, BytesAreAround, IsAway
    <3>4. old = book.key /\ req[r].book.text = book.text
      BY <1>1, <2>2, <3>3 DEF HoldsCurrent
    <3>5. \A e \in revisions : e.key # new
      BY <3>1, <3>2, <3>4
    <3>6. \A o \in objects' : o.key # new => o \in objects
      BY <1>3, <2>2, <3>1, RenameObjects
    <3>7. RowsGenuine'
      BY <1>1, <3>3, <3>5, <3>6 DEF RowsGenuine
    <3>8. KeysDiffer' /\ BookIsListed'
      BY <1>1, <3>3 DEF KeysDiffer, BookIsListed, Live
    <3>9. HoldsCurrent(r)'
      BY <1>1, <2>1, <3>3 DEF HoldsCurrent, Keeps
    <3>10. ~Stored(objects', old)
      BY <1>3, <2>2, <3>1, RenameObjects DEF Stored
    <3>11. Holds(new, book.text)'
      <4>1. PICK x \in objects : x.key = old
        BY <1>3, <2>2 DEF Stored
      <4>2. x.text = book.text
        BY <3>2, <3>3, <3>4, <4>1 DEF RowsGenuine
      <4>3. QED
        BY <1>1, <1>3, <2>2, <3>1, <4>1, <4>2, RenameObjects DEF Holds
    <3>12. RowsHoldBut(old)'
      <4>1. SUFFICES ASSUME NEW e \in revisions, e.key # old
                     PROVE  [key |-> e.key, text |-> e.text] \in objects'
        BY <1>1 DEF RowsHoldBut, Holds
      <4>2. [key |-> e.key, text |-> e.text] \in objects
        BY <3>1, <3>3 DEF RowsHold, Holds
      <4>3. QED
        BY <1>3, <2>2, <3>1, <3>5, <4>1, <4>2, RenameObjects
    <3>13. BytesAreAround(r)'
      BY <1>1, <2>1, <2>3, <3>1, <3>4, <3>10, <3>11, <3>12
         DEF BytesAreAround, IsAway, RowsHoldBut, Holds, Keeps
    <3>14. QED
      BY <3>7, <3>8, <3>9, <3>13
  <2>7. QED
    BY <1>1, <2>1, <2>5, <2>6, RenameGoesOn DEF Keeps, Runs, RenamePoints
<1>4. QED
  BY <1>2, <1>3 DEF UpdateRename, Rests

LEMMA RekeyedRows ==
  ASSUME NEW r \in Requests, Runs(r), Exists, req[r].pc = "updateCommit", Moved(r),
         NEW c \in revisions, \A e \in revisions : e.revision = req[r].book.revision => e = c,
         c.revision = req[r].book.revision
  PROVE  \A e : e \in Rekeyed(r)
                  <=> \/ e \in revisions /\ e # c
                      \/ e = [c EXCEPT !.key = req[r].entry.key]
<1>1. \A d \in revisions : d.revision = req[r].book.revision <=> d = c
  OBVIOUS
<1>2. Rekeyed(r) = {IF d = c THEN [d EXCEPT !.key = req[r].entry.key] ELSE d : d \in revisions}
  BY <1>1 DEF Rekeyed
<1>3. QED
  BY <1>2

LEMMA UpdateCommitRests ==
  ASSUME NEW r \in Requests, Runs(r), RowsAgree', UpdateCommit(r)
  PROVE  Rests(r)
<1>1. UNCHANGED <<objects, drawn>> /\ req[r].pc = "updateCommit"
  BY DEF UpdateCommit, At, files
<1>2. CASE Return(r) /\ UNCHANGED db /\ ~Moved(r)
  BY <1>1, <1>2, RenameGivesUp DEF IsAway, db, Rests
<1>3. CASE Goto(r, "updateBack") /\ UNCHANGED mutex /\ UNCHANGED db /\ Moved(r)
  <2>1. req'[r].pc = "updateBack" /\ Keeps(r) /\ Own(r)
    BY <1>3, GotoKeeps DEF Goto, Own, Runs
  <2>2. UNCHANGED <<book, revisions>> /\ UNCHANGED book.state
    BY <1>3 DEF db
  <2>3. Moved(r)'
    BY <1>3, <2>1 DEF Moved, Keeps
  <2>4. Exists' => HoldsCurrent(r)'
    BY <1>1, <2>1, <2>2, <2>3 DEF HoldsCurrent, Runs, Renaming, Exists, Keeps
  <2>5. Exists' => BytesAreAround(r)'
    BY <1>1, <1>3, <2>1, <2>2, <2>3
       DEF BytesAreAround, Runs, Renaming, Exists, Keeps, IsAway, Stored, Holds, RowsHoldBut
  <2>6. QED
    BY <1>1, <2>1, <2>2, <2>4, <2>5, AsTheyWere, RenameGoesOn
       DEF Rests, Runs, Keeps, RenamePoints
<1>4. ASSUME Return(r), revisions' = Rekeyed(r),
             book' = IF Live THEN [book EXCEPT !.key = req[r].entry.key] ELSE book
      PROVE  FileInv'
  <2>1. Unique' /\ UNCHANGED book.state
    BY <1>1, <1>4 DEF Runs, Renaming, Unique, RowsAgree, TypeOK, BookRow
  <2>2. ASSUME Exists'
        PROVE  RowsGenuine' /\ KeysDiffer' /\ BookIsListed' /\ RowsHold'
    <3>1. Exists
      BY <2>1, <2>2 DEF Exists
    <3>2. PICK c \in revisions :
            /\ c.revision = book.revision /\ c.key = book.key
            /\ c.text = book.text /\ c.cover = book.cover
            /\ \A e \in revisions : e.key = req[r].book.key => e = c
            /\ \A e \in revisions : e.revision = req[r].book.revision => e = c
      BY <1>1, <3>1, CurrentRow
    <3>3. /\ HoldsCurrent(r) /\ RowsGenuine /\ KeysDiffer /\ BookIsListed
          /\ BytesAreAround(r)
      BY <1>1, <3>1 DEF Runs, Renaming
    <3>4. req[r].book.key = book.key /\ req[r].book.revision = book.revision
          /\ req[r].book.text = book.text /\ req[r].entry.key.dir = book.key.dir
      BY <1>1, <3>3 DEF HoldsCurrent
    <3>5. CASE ~Moved(r)
      <4>1. revisions' = revisions
        BY <1>4, <3>5 DEF Rekeyed
      <4>2. book' = book
        BY <1>4, <3>4, <3>5 DEF Moved, Runs, RowsAgree, TypeOK, BookRow
      <4>3. RowsHold
        BY <3>3, <3>5 DEF BytesAreAround, IsAway
      <4>4. QED
        BY <1>1, <2>2, <3>1, <4>1, <4>2, <4>3, AsTheyWere
    <3>6. CASE Moved(r)
      <4>1. PICK d : d = [c EXCEPT !.key = req[r].entry.key]
        OBVIOUS
      <4>2. /\ d.key = req[r].entry.key /\ d.revision = c.revision /\ d.text = c.text
            /\ d.cover = c.cover
        BY <4>1 DEF Runs, RowsAgree, TypeOK, Entry
      <4>3. \A e : e \in revisions' <=> (e \in revisions /\ e # c) \/ e = d
        BY <1>1, <1>4, <3>1, <3>2, <3>4, <3>6, <4>1, RekeyedRows
      <4>4. /\ Holds(d.key, d.text) /\ ~Stored(objects, book.key)
            /\ \A e \in revisions : e.key # book.key => Holds(e.key, e.text)
        BY <1>1, <3>2, <3>3, <3>4, <3>6, <4>2 DEF BytesAreAround, IsAway, RowsHoldBut
      <4>5. RowsGenuine'
        <5>1. d.key.dir <= drawn
          BY <3>2, <3>3, <3>4, <4>2 DEF RowsGenuine
        <5>2. \A o \in objects : o.key = d.key => o.text = d.text
          BY <4>4 DEF Holds, Runs, Renaming, Unique
        <5>3. QED
          BY <1>1, <3>3, <4>3, <5>1, <5>2 DEF RowsGenuine
      <4>6. KeysDiffer'
        <5>1. d.key.dir = c.key.dir
          BY <3>2, <3>4, <4>2
        <5>2. QED
          BY <3>3, <4>3, <5>1 DEF KeysDiffer
      <4>7. ASSUME Live'
            PROVE  /\ d.revision = book'.revision /\ d.key = book'.key
                   /\ d.text = book'.text /\ d.cover = book'.cover
        <5>1. book' = [book EXCEPT !.key = req[r].entry.key]
          BY <1>4, <2>1, <4>7 DEF Live
        <5>2. QED
          BY <3>2, <4>2, <5>1 DEF Runs, RowsAgree, TypeOK, BookRow
      <4>8. BookIsListed'
        BY <4>3, <4>7 DEF BookIsListed
      <4>9. ASSUME NEW e \in revisions'
            PROVE  Holds(e.key, e.text)'
        <5>1. CASE e = d
          BY <1>1, <4>4, <5>1 DEF Holds
        <5>2. CASE e \in revisions /\ e # c
          <6>1. e.key # book.key
            BY <3>2, <3>4, <5>2
          <6>2. QED
            BY <1>1, <4>4, <5>2, <6>1 DEF Holds
        <5>3. QED
          BY <4>3, <4>9, <5>1, <5>2
      <4>10. QED
        BY <4>5, <4>6, <4>8, <4>9 DEF RowsHold
    <3>7. QED
      BY <3>5, <3>6
  <2>3. QED
    BY <1>4, <2>1, <2>2, RenameEnds DEF Runs
<1>5. QED
  BY <1>2, <1>3, <1>4 DEF UpdateCommit, Rests

LEMMA UpdateBackRests ==
  ASSUME NEW r \in Requests, Runs(r), RowsAgree', UpdateBack(r), lapses = 0, lapses' = 0
  PROVE  Rests(r)
<1>1. /\ UNCHANGED <<book, revisions, drawn>> /\ UNCHANGED book.state
      /\ req[r].pc = "updateBack" /\ Return(r)
  BY DEF UpdateBack, At, db
<1>2. PICK old, new : old = req[r].book.key /\ new = req[r].entry.key
  OBVIOUS
<1>3. objects' = Rename(objects, new, old)
  BY <1>2 DEF UpdateBack, Lapse, RenamedBack
<1>4. Unique'
  <2>1. CASE old = new
    BY <1>3, <2>1 DEF Rename, Runs, Renaming, Unique
  <2>2. CASE old # new
    BY <1>3, <2>2, RenameStaysUnique DEF Runs, Renaming
  <2>3. QED
    BY <2>1, <2>2
<1>5. ASSUME Exists'
      PROVE  RowsGenuine' /\ KeysDiffer' /\ BookIsListed' /\ RowsHold'
  <2>1. Exists
    BY <1>1, <1>5 DEF Exists
  <2>2. PICK c \in revisions :
          /\ c.revision = book.revision /\ c.key = book.key /\ c.text = book.text
          /\ \A e \in revisions : e.key.dir = new.dir => e = c
          /\ \A e \in revisions : e.key = old => e = c
    BY <1>1, <1>2, <2>1, CurrentRow
  <2>3. /\ HoldsCurrent(r) /\ RowsGenuine /\ KeysDiffer /\ BookIsListed /\ BytesAreAround(r)
    BY <1>1, <2>1 DEF Runs, Renaming
  <2>4. old = book.key /\ req[r].book.text = book.text /\ old # new
    BY <1>1, <1>2, <2>3 DEF HoldsCurrent, Moved
  <2>5. Holds(new, book.text) /\ \A e \in revisions : e.key # old => Holds(e.key, e.text)
    BY <1>1, <1>2, <2>3, <2>4 DEF BytesAreAround, IsAway, Moved, RowsHoldBut
  <2>6. \A e \in revisions : e.key # new
    BY <2>2, <2>4
  <2>7. \A o \in objects : o.key = new => o.text = book.text
    BY <2>5 DEF Holds, Runs, Renaming, Unique
  <2>8. ASSUME NEW e \in revisions, NEW o \in objects', o.key = e.key
        PROVE  o.text = e.text
    <3>1. CASE o \in objects
      BY <2>3, <2>8, <3>1 DEF RowsGenuine
    <3>2. ASSUME NEW x \in objects, x.key = new, o = [key |-> old, text |-> x.text]
          PROVE  o.text = e.text
      <4>1. e = c
        BY <2>2, <2>8, <3>2
      <4>2. QED
        BY <2>2, <2>7, <3>2, <4>1
    <3>3. QED
      BY <1>3, <2>4, <2>8, <3>1, <3>2, RenameObjects
  <2>9. ASSUME NEW e \in revisions
        PROVE  [key |-> e.key, text |-> e.text] \in objects'
    <3>1. CASE e.key = old
      <4>1. e = c /\ [key |-> new, text |-> book.text] \in objects
        BY <2>2, <2>5, <3>1 DEF Holds
      <4>2. QED
        BY <1>3, <2>2, <2>4, <3>1, <4>1, RenameObjects
    <3>2. CASE e.key # old
      <4>1. [key |-> e.key, text |-> e.text] \in objects
        BY <2>5, <3>2 DEF Holds
      <4>2. QED
        BY <1>3, <2>4, <2>6, <3>2, <4>1, RenameObjects
    <3>3. QED
      BY <3>1, <3>2
  <2>10. RowsGenuine'
    BY <1>1, <2>3, <2>8 DEF RowsGenuine
  <2>11. KeysDiffer' /\ BookIsListed'
    BY <1>1, <2>3 DEF KeysDiffer, BookIsListed, Live
  <2>12. RowsHold'
    BY <1>1, <2>9 DEF RowsHold, Holds
  <2>13. QED
    BY <2>10, <2>11, <2>12
<1>6. QED
  BY <1>1, <1>4, <1>5, RenameEnds DEF Runs, Rests

LEMMA RenameRests ==
  ASSUME NEW r \in Requests, Runs(r), RowsAgree', lapses = 0, lapses' = 0,
         AcceptAny(r) \/ PublishLock(r) \/ Step(r)
  PROVE  Rests(r)
<1>1. req[r].pc \in RenamePoints
  BY DEF Runs, Renaming
<1>2. ~AcceptAny(r) /\ ~PublishLock(r)
  BY <1>1 DEF AcceptAny, AcceptCreate, AcceptEdit, AcceptRestore, AcceptUpdate, AcceptOther,
              Accept, PublishLock, At, RenamePoints
<1>3. ~Publish(r)
  BY <1>1 DEF Publish, PublishGet, PublishMutate, PublishSave, PublishCover, PublishCommit,
              Undo, PublishReply, At, RenamePoints
<1>4. ~Prune(r)
  BY <1>1 DEF Prune, PruneSelect, PruneRow, PruneObject, PruneCheck, PruneCover, At,
              RenamePoints
<1>5. ~(CreateSave(r) \/ CreateInsert(r) \/ RestoreFind(r) \/ RestoreRead(r))
  BY <1>1 DEF CreateSave, CreateInsert, RestoreFind, RestoreRead, At, RenamePoints
<1>6. ~(DeleteGet(r) \/ DeleteList(r) \/ DeleteCommit(r) \/ DeleteSweep(r))
  BY <1>1 DEF DeleteGet, DeleteList, DeleteCommit, DeleteSweep, At, RenamePoints
<1>7. ~(Archive(r) \/ OpenGet(r) \/ OpenRead(r))
  BY <1>1 DEF Archive, OpenGet, OpenRead, At, RenamePoints
<1>8. QED
  BY <1>2, <1>3, <1>4, <1>5, <1>6, <1>7, UpdateGetRests, UpdateRenameRests,
     UpdateCommitRests, UpdateBackRests DEF Step

(***************************************************************************)
(* Put together.                                                           *)
(***************************************************************************)
LEMMA RestStep ==
  ASSUME ~NobodyRenames, RowsAgree, RowsAgree', OnDuty, HistoryInv, RestInv,
         RenamesRunAlone, RenamesRunAlone', [Next]_vars, [CrashesSpareRenames]_vars
  PROVE  RestInv'
<1>1. SUFFICES ASSUME lapses' = 0
               PROVE  /\ (\A q \in Requests : req'[q].op # "update") => FileInv'
                      /\ \A q \in Requests : req'[q].op = "update" => Renaming(q)'
  BY DEF RestInv
<1>2. lapses = 0
  BY <1>1, LapsesOnlyGrow
<1>3. FileInv' => \A q \in Requests : req'[q].op # "update"
  BY DEF FileInv, Orderly, NoRename
<1>4. ASSUME NEW r \in Requests, req'[r].op = "update",
             NEW q \in Requests, req'[q].op = "update"
      PROVE  q = r
  BY <1>4 DEF RenamesRunAlone
<1>5. CASE \A q \in Requests : req[q].op # "update"
  <2>1. FileInv
    BY <1>2, <1>5 DEF RestInv
  <2>2. ASSUME NEW r \in Requests, AcceptUpdate(r)
        PROVE  /\ (\A q \in Requests : req'[q].op # "update") => FileInv'
               /\ \A q \in Requests : req'[q].op = "update" => Renaming(q)'
    BY <1>4, <2>1, <2>2, RenameBegins
  <2>3. CASE \A r \in Requests : ~AcceptUpdate(r)
    BY <1>3, <2>1, <2>3, FileStep
  <2>4. QED
    BY <2>2, <2>3
<1>6. ASSUME NEW p \in Requests, req[p].op = "update"
      PROVE  /\ (\A q \in Requests : req'[q].op # "update") => FileInv'
             /\ \A q \in Requests : req'[q].op = "update" => Renaming(q)'
  <2>1. Runs(p)
    BY <1>2, <1>6 DEF Runs, RestInv
  <2>2. ASSUME Rests(p)
        PROVE  /\ (\A q \in Requests : req'[q].op # "update") => FileInv'
               /\ \A q \in Requests : req'[q].op = "update" => Renaming(q)'
    BY <1>3, <1>4, <2>2 DEF Rests
  <2>3. CASE UNCHANGED vars
    <3>1. Renaming(p)' /\ req'[p].op = "update"
      BY <1>6, <2>1, <2>3
         DEF vars, Runs, Renaming, Unique, Swept, RowsGenuine, KeysDiffer, BookIsListed,
             HoldsCurrent, BytesAreAround, IsAway, Moved, RowsHold, RowsHoldBut, Holds, Exists,
             Live
    <3>2. QED
      BY <2>2, <3>1 DEF Rests
  <2>4. CASE Crash
    BY <1>6, <2>4 DEF Crash, CrashesSpareRenames, vars, RowsAgree, TypeOK
  <2>5. ASSUME NEW q \in Requests, q # p, AcceptAny(q) \/ PublishLock(q) \/ Step(q)
        PROVE  Rests(p)
    BY <1>6, <2>1, <2>5, BesideRename DEF Runs, Rests
  <2>6. ASSUME AcceptAny(p) \/ PublishLock(p) \/ Step(p)
        PROVE  Rests(p)
    BY <1>1, <1>2, <2>1, <2>6, RenameRests
  <2>7. QED
    BY <2>2, <2>3, <2>4, <2>5, <2>6 DEF Next
<1>7. QED
  BY <1>5, <1>6

\* Renames, publications and deletions never leave a live book, or a revision
\* that can be restored, without its bytes once they have ended: UpdateDetails
\* renames the file back when its transaction fails.
THEOREM RestStaysReadable ==
  Spec /\ []RenamesRunAlone /\ [][CrashesSpareRenames]_vars => []RestIsReadable
<1>1. FileInv => CurrentIsReadable /\ HistoryIsReadable
  BY DEF FileInv, StoreInv, RowsHold, BookIsListed, CurrentIsReadable, HistoryIsReadable, Live,
         Exists
<1>2. CASE NobodyRenames
  <2>1. FileInv => RestIsReadable
    BY <1>1 DEF RestIsReadable
  <2>2. QED
    BY <1>2, <2>1, FilesAreKept, PTL
<1>3. CASE ~NobodyRenames
  <2>1. Init => RestInv
    <3>1. Init => \A r \in Requests : req[r].op # "update"
      BY DEF Init, Idle
    <3>2. QED
      BY <3>1, FileInit DEF RestInv
  <2>2. RestInv => RestIsReadable
    BY <1>1 DEF RestInv, RestIsReadable, Quiet
  <2>3. RowsAgree /\ RowsAgree' /\ OnDuty /\ HistoryInv /\ RestInv /\ RenamesRunAlone
          /\ RenamesRunAlone' /\ [Next]_vars /\ [CrashesSpareRenames]_vars => RestInv'
    BY <1>3, RestStep
  <2>4. QED
    BY <2>1, <2>2, <2>3, RowsAlwaysAgree, DutyIsKept, HistoryIsKept, PTL DEF Spec
<1>4. QED
  BY <1>2, <1>3
===============================================================================
