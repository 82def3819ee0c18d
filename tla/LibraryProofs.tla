--------------------------- MODULE LibraryProofs ---------------------------
(***************************************************************************)
(* What holds of the library for every set of requests, every choice of    *)
(* operations, every retention and every bound.                            *)
(***************************************************************************)
EXTENDS LibraryProperties, TLAPS

(***************************************************************************)
(* Types.                                                                  *)
(***************************************************************************)
LEMMA PointMembers ==
  /\ {"idle", "createSave", "createInsert", "undo", "restoreFind", "restoreRead", "lock"}
       \subseteq Points
  /\ {"publishGet", "publishMutate", "publishSave", "publishCover", "publishCommit",
      "publishReply"} \subseteq Points
  /\ {"pruneSelect", "pruneRow", "pruneObject", "pruneCheck", "pruneCover"} \subseteq Points
  /\ {"updateGet", "updateRename", "updateCommit", "updateBack"} \subseteq Points
  /\ {"deleteGet", "deleteList", "deleteCommit", "deleteSweep", "archive"} \subseteq Points
  /\ {"openGet", "openRead"} \subseteq Points
  BY DEF Points

LEMMA RowTypes ==
  /\ NoKey \in Key
  /\ Blank \in Text
  /\ NoBook \in BookRow
  /\ NoEntry \in Entry
  /\ Idle \in RequestType
<1>1. NoKey \in Key /\ Blank \in Text
  BY DEF NoKey, Key, Blank, Text
<1>2. NoBook \in BookRow /\ NoEntry \in Entry
  BY <1>1 DEF NoBook, BookRow, NoEntry, Entry
<1> QED
  BY <1>1, <1>2, PointMembers DEF Idle, RequestType

\* Storing and moving objects keeps the store a set of objects.
LEMMA StoreTypes ==
  ASSUME NEW store, store \subseteq Object,
         NEW k \in Key, NEW l \in Key, NEW t \in Text
  PROVE  /\ Save(store, k, t) \subseteq Object
         /\ Delete(store, k) \subseteq Object
         /\ Rename(store, k, l) \subseteq Object
  BY DEF Save, Delete, Rename, Without, Object

\* What a request becomes is typed if its new local variables are.
LEMMA BecomeType ==
  ASSUME TypeOK, NEW r \in Requests, NEW next \in RequestType, Become(r, next)
  PROVE  req' \in [Requests -> RequestType]
  BY DEF TypeOK, Become

LEMMA ReturnType ==
  ASSUME TypeOK, NEW r \in Requests, Return(r)
  PROVE  /\ req' \in [Requests -> RequestType]
         /\ mutex' \in Requests \cup {NoRequest}
  BY RowTypes, BecomeType DEF TypeOK, Return

LEMMA GotoType ==
  ASSUME TypeOK, NEW r \in Requests, NEW pc \in Points, Goto(r, pc)
  PROVE  req' \in [Requests -> RequestType]
<1>1. [req[r] EXCEPT !.pc = pc] \in RequestType
  BY DEF TypeOK, RequestType
<1> QED
  BY <1>1, BecomeType DEF Goto

LEMMA NextItemType ==
  ASSUME TypeOK, NEW r \in Requests, NEW e, NextItem(r, e)
  PROVE  req' \in [Requests -> RequestType]
<1>1. [req[r] EXCEPT !.items = req[r].items \ {e}, !.pc = "pruneRow"] \in RequestType
  BY PointMembers DEF TypeOK, RequestType
<1> QED
  BY <1>1, BecomeType DEF NextItem

BudgetType == accepted \in Nat /\ faults \in Nat /\ lapses \in Nat /\ crashes \in Nat

LEMMA BudgetTypes ==
  ASSUME TypeOK, NoFault \/ Fault \/ Lapse
  PROVE  BudgetType'
  BY DEF TypeOK, NoFault, Fault, Lapse, budgets, BudgetType

(***************************************************************************)
(* A step of a request, by the part of the system it belongs to.           *)
(***************************************************************************)
LEMMA AcceptTypes ==
  ASSUME TypeOK, NEW r \in Requests, AcceptAny(r)
  PROVE  TypeOK'
<1>1. req' \in [Requests -> RequestType]
  <2>1. CASE AcceptCreate(r)
    <3>1. [Idle EXCEPT !.op = "create", !.pc = "createSave"] \in RequestType
      BY RowTypes, PointMembers DEF RequestType, AllOperations
    <3> QED
      BY <2>1, <3>1, BecomeType DEF AcceptCreate
  <2>2. ASSUME NEW op \in {"edit", "cover"}, AcceptEdit(r, op)
        PROVE  req' \in [Requests -> RequestType]
    <3>1. \A e \in revisions :
            [Idle EXCEPT !.op = op, !.pc = "lock", !.base = e.revision] \in RequestType
      BY RowTypes, PointMembers DEF TypeOK, RequestType, AllOperations, Edits, Entry
    <3> QED
      BY <2>2, <3>1, BecomeType DEF AcceptEdit
  <2>3. CASE AcceptRestore(r)
    <3>1. \A base, target \in revisions :
            [Idle EXCEPT !.op = "restore", !.pc = "restoreFind", !.base = base.revision,
                         !.source = [NoEntry EXCEPT !.revision = target.revision]]
              \in RequestType
      BY RowTypes, PointMembers DEF TypeOK, RequestType, AllOperations, Edits, Entry
    <3> QED
      BY <2>3, <3>1, BecomeType DEF AcceptRestore
  <2>4. CASE AcceptUpdate(r)
    <3>1. \A name \in Filenames :
            [Idle EXCEPT !.op = "update", !.pc = "updateGet",
                         !.entry = [NoEntry EXCEPT !.key = [NoKey EXCEPT !.name = name]]]
              \in RequestType
      BY RowTypes, PointMembers DEF RequestType, AllOperations, Entry, Key
    <3> QED
      BY <2>4, <3>1, BecomeType DEF AcceptUpdate
  <2>5. ASSUME NEW op \in {"delete", "archive", "open"},
               NEW pc \in {"deleteGet", "archive", "openGet"}, AcceptOther(r, op, pc)
        PROVE  req' \in [Requests -> RequestType]
    <3>1. [Idle EXCEPT !.op = op, !.pc = pc] \in RequestType
      BY RowTypes, PointMembers DEF RequestType, AllOperations
    <3> QED
      BY <2>5, <3>1, BecomeType DEF AcceptOther
  <2> QED
    BY <2>1, <2>2, <2>3, <2>4, <2>5 DEF AcceptAny
<1>2. \E op : Accept(r, op)
  BY DEF AcceptAny, AcceptCreate, AcceptEdit, AcceptRestore, AcceptUpdate, AcceptOther
<1> QED
  BY <1>1, <1>2 DEF TypeOK, Accept, db, files

LEMMA CreateTypes ==
  ASSUME TypeOK, NEW r \in Requests, CreateSave(r) \/ CreateInsert(r)
  PROVE  TypeOK'
<1>1. CASE CreateSave(r)
  <2> DEFINE key(name) == [dir |-> drawn + 1, name |-> name]
             entry(now, name) == [revision |-> now, key |-> key(name), cover |-> 0,
                                  text |-> Blank, original |-> TRUE]
             next(now, name) == [req[r] EXCEPT !.pc = "createInsert", !.entry = entry(now, name)]
  <2>0. drawn + 1 \in Nat
    BY DEF TypeOK
  <2>1. \A name \in Filenames : key(name) \in Key
    BY <2>0 DEF Key
  <2>2. \A now \in Times, name \in Filenames : entry(now, name) \in Entry
    BY <2>1, RowTypes, TimesAssumption DEF Entry
  <2>3. \A now \in Times, name \in Filenames : next(now, name) \in RequestType
    <3> HIDE DEF entry
    <3> QED
      BY <2>2, PointMembers DEF TypeOK, RequestType
  <2>4. CASE Fault /\ Return(r) /\ UNCHANGED <<objects, drawn>>
    BY <1>1, <2>4, ReturnType, BudgetTypes DEF TypeOK, CreateSave, BudgetType, db
  <2>5. ASSUME NEW now \in Times, NEW name \in Filenames,
               objects' = Save(objects, key(name), Blank),
               Become(r, next(now, name)),
               drawn' = drawn + 1, NoFault, UNCHANGED mutex
        PROVE  TypeOK'
    <3>1. objects' \subseteq Object
      BY <2>1, <2>5, RowTypes, StoreTypes DEF TypeOK
    <3>2. req' \in [Requests -> RequestType]
      <4> HIDE DEF next
      <4> QED
        BY <2>3, <2>5, BecomeType
    <3>3. BudgetType'
      BY <2>5, BudgetTypes
    <3>4. UNCHANGED <<db, previews>>
      BY <1>1 DEF CreateSave
    <3> QED
      BY <2>0, <2>5, <3>1, <3>2, <3>3, <3>4 DEF TypeOK, BudgetType, db
  <2> QED
    BY <1>1, <2>4, <2>5 DEF CreateSave
<1>2. CASE CreateInsert(r)
  <2>1. /\ req' \in [Requests -> RequestType]
        /\ mutex' \in Requests \cup {NoRequest}
    BY <1>2, PointMembers, ReturnType, GotoType DEF TypeOK, CreateInsert
  <2>2. book' \in BookRow /\ revisions' \subseteq Entry
    BY <1>2 DEF TypeOK, CreateInsert, RequestType, Entry, BookRow, db
  <2>3. BudgetType'
    BY <1>2, BudgetTypes DEF CreateInsert
  <2> QED
    BY <1>2, <2>1, <2>2, <2>3 DEF TypeOK, CreateInsert, BudgetType, files
<1> QED
  BY <1>1, <1>2

LEMMA RestoreTypes ==
  ASSUME TypeOK, NEW r \in Requests, RestoreFind(r) \/ RestoreRead(r)
  PROVE  TypeOK'
<1>1. \A e \in revisions : [req[r] EXCEPT !.source = e, !.pc = "restoreRead"] \in RequestType
  BY PointMembers DEF TypeOK, RequestType
<1>2. \A o \in objects : [req[r] EXCEPT !.source.text = o.text, !.pc = "lock"] \in RequestType
  BY PointMembers DEF TypeOK, RequestType, Object, Entry
<1>3. req' \in [Requests -> RequestType] /\ mutex' \in Requests \cup {NoRequest}
  BY <1>1, <1>2, ReturnType, BecomeType DEF TypeOK, RestoreFind, RestoreRead
<1>4. BudgetType'
  BY BudgetTypes DEF RestoreFind, RestoreRead
<1> QED
  BY <1>3, <1>4 DEF TypeOK, BudgetType, RestoreFind, RestoreRead, db, files

LEMMA PublishTypes ==
  ASSUME TypeOK, NEW r \in Requests, PublishLock(r) \/ Publish(r)
  PROVE  TypeOK'
<1> DEFINE entry(o, revision) == [revision |-> revision,
                                  key |-> RevisionStorageKey(r),
                                  cover |-> EditedCover(r),
                                  text |-> EditedText(r, BaseText(r, o.text), revision),
                                  original |-> FALSE]
           next(o, now) == [req[r] EXCEPT
                              !.entry = entry(o, NextRevision(req[r].book.revision, now)),
                              !.pc = "publishSave"]
<1>1. drawn + 1 \in Nat /\ drawn + 2 \in Nat
  BY DEF TypeOK
<1>2. req[r] \in RequestType
  BY DEF TypeOK
<1>3. RevisionStorageKey(r) \in Key
  BY <1>1, <1>2 DEF RevisionStorageKey, RequestType, BookRow, Key
<1>4. EditedCover(r) \in Nat
  BY <1>1, <1>2 DEF EditedCover, RequestType, BookRow, Entry
<1>5. \A text \in Text, revision \in Nat : EditedText(r, BaseText(r, text), revision) \in Text
  BY <1>2 DEF EditedText, BaseText, RequestType, Entry, Text
<1>6. \A now \in Times : NextRevision(req[r].book.revision, now) \in Nat
  BY <1>2, TimesAssumption DEF NextRevision, RequestType, BookRow
<1>7. \A o \in objects, now \in Times : next(o, now) \in RequestType
  <2>1. \A o \in objects, revision \in Nat : entry(o, revision) \in Entry
    BY <1>3, <1>4, <1>5 DEF TypeOK, Object, Entry
  <2> HIDE DEF entry
  <2> QED
    BY <1>2, <1>6, <2>1, PointMembers DEF RequestType
<1>8. [req[r] EXCEPT !.book = book, !.pc = "publishMutate"] \in RequestType
  BY <1>2, PointMembers DEF TypeOK, RequestType
<1> HIDE DEF next
<1>9. CASE PublishLock(r)
  BY <1>9, PointMembers, GotoType, BudgetTypes DEF TypeOK, PublishLock, BudgetType, db, files
<1>10. CASE PublishGet(r)
  <2>1. req' \in [Requests -> RequestType] /\ mutex' \in Requests \cup {NoRequest}
    BY <1>8, <1>10, ReturnType, BecomeType DEF TypeOK, PublishGet
  <2>2. BudgetType'
    BY <1>10, BudgetTypes DEF PublishGet
  <2> QED
    BY <1>10, <2>1, <2>2 DEF TypeOK, PublishGet, BudgetType, db, files
<1>11. CASE PublishMutate(r)
  <2>1. req' \in [Requests -> RequestType] /\ mutex' \in Requests \cup {NoRequest}
    BY <1>7, <1>11, ReturnType, BecomeType DEF TypeOK, PublishMutate, next
  <2>2. BudgetType'
    BY <1>11, BudgetTypes DEF PublishMutate
  <2>3. drawn' \in Nat
    BY <1>1, <1>11 DEF TypeOK, PublishMutate
  <2> QED
    BY <1>11, <2>1, <2>2, <2>3 DEF TypeOK, PublishMutate, BudgetType, db, files
<1>12. CASE PublishSave(r)
  <2>1. req' \in [Requests -> RequestType] /\ mutex' \in Requests \cup {NoRequest}
    BY <1>12, PointMembers, ReturnType, GotoType DEF TypeOK, PublishSave
  <2>2. BudgetType'
    BY <1>12, BudgetTypes DEF PublishSave
  <2>3. objects' \subseteq Object
    <3>1. req[r].entry.key \in Key /\ req[r].entry.text \in Text
      BY <1>2 DEF RequestType, Entry
    <3> QED
      BY <1>12, <3>1, StoreTypes DEF TypeOK, PublishSave
  <2> QED
    BY <1>12, <2>1, <2>2, <2>3 DEF TypeOK, PublishSave, BudgetType, db
<1>13. CASE PublishCover(r)
  <2>1. req' \in [Requests -> RequestType] /\ BudgetType'
    BY <1>13, PointMembers, GotoType, BudgetTypes DEF PublishCover
  <2>2. previews' \subseteq Nat
    BY <1>2, <1>13 DEF TypeOK, PublishCover, RequestType, Entry
  <2> QED
    BY <1>13, <2>1, <2>2 DEF TypeOK, PublishCover, BudgetType, db
<1>14. CASE PublishCommit(r)
  <2>1. req' \in [Requests -> RequestType] /\ BudgetType'
    BY <1>14, PointMembers, GotoType, BudgetTypes DEF PublishCommit
  <2>2. book' \in BookRow /\ revisions' \subseteq Entry
    BY <1>2, <1>14 DEF TypeOK, PublishCommit, RequestType, Entry, BookRow, db
  <2> QED
    BY <1>14, <2>1, <2>2 DEF TypeOK, PublishCommit, BudgetType, files
<1>15. CASE Undo(r)
  <2>1. req' \in [Requests -> RequestType] /\ mutex' \in Requests \cup {NoRequest}
    BY <1>15, ReturnType DEF Undo
  <2>2. BudgetType'
    BY <1>15, BudgetTypes DEF Undo
  <2>3. objects' \subseteq Object /\ previews' \subseteq Nat
    BY <1>2, <1>15 DEF TypeOK, Undo, Delete, Without, files
  <2> QED
    BY <1>15, <2>1, <2>2, <2>3 DEF TypeOK, Undo, BudgetType, db
<1>16. CASE PublishReply(r)
  <2>1. req' \in [Requests -> RequestType] /\ mutex' \in Requests \cup {NoRequest}
    BY <1>16, PointMembers, ReturnType, GotoType DEF TypeOK, PublishReply
  <2>2. BudgetType'
    BY <1>16, BudgetTypes DEF PublishReply
  <2> QED
    BY <1>16, <2>1, <2>2 DEF TypeOK, PublishReply, BudgetType, db, files
<1> QED
  BY <1>9, <1>10, <1>11, <1>12, <1>13, <1>14, <1>15, <1>16 DEF Publish

LEMMA PruneTypes ==
  ASSUME TypeOK, NEW r \in Requests, Prune(r)
  PROVE  TypeOK'
<1>1. req[r] \in RequestType /\ \A limit : Prunable(limit) \subseteq Entry
  BY DEF TypeOK, Prunable
<1>2. \A limit : \A rows \in SUBSET Prunable(limit) :
        [req[r] EXCEPT !.items = rows, !.pc = "pruneRow"] \in RequestType
  BY <1>1, PointMembers DEF RequestType
<1>3. BudgetType'
  BY BudgetTypes DEF Prune, PruneSelect, PruneRow, PruneObject, PruneCheck, PruneCover
<1>4. CASE PruneSelect(r)
  <2>1. req' \in [Requests -> RequestType] /\ mutex' \in Requests \cup {NoRequest}
    BY <1>2, <1>4, BecomeType DEF TypeOK, PruneSelect
  <2> QED
    BY <1>3, <1>4, <2>1 DEF TypeOK, PruneSelect, BudgetType, db, files
<1>5. CASE PruneRow(r)
  <2>1. req' \in [Requests -> RequestType] /\ mutex' \in Requests \cup {NoRequest}
    BY <1>5, PointMembers, ReturnType, GotoType, NextItemType DEF TypeOK, PruneRow
  <2>2. revisions' \subseteq Entry
    BY <1>5 DEF TypeOK, PruneRow, Matched
  <2> QED
    BY <1>3, <1>5, <2>1, <2>2 DEF TypeOK, PruneRow, BudgetType, files
<1>6. CASE PruneObject(r)
  <2>1. req' \in [Requests -> RequestType]
    BY <1>6, PointMembers, GotoType, NextItemType DEF PruneObject
  <2>2. objects' \subseteq Object
    BY <1>6 DEF TypeOK, PruneObject, Delete, Without
  <2> QED
    BY <1>3, <1>6, <2>1, <2>2 DEF TypeOK, PruneObject, BudgetType, db
<1>7. CASE PruneCheck(r)
  <2>1. req' \in [Requests -> RequestType]
    BY <1>7, PointMembers, GotoType, NextItemType DEF PruneCheck
  <2> QED
    BY <1>3, <1>7, <2>1 DEF TypeOK, PruneCheck, BudgetType, db, files
<1>8. CASE PruneCover(r)
  <2>1. req' \in [Requests -> RequestType] /\ previews' \subseteq Nat
    BY <1>8, NextItemType DEF TypeOK, PruneCover
  <2> QED
    BY <1>3, <1>8, <2>1 DEF TypeOK, PruneCover, BudgetType, db
<1> QED
  BY <1>4, <1>5, <1>6, <1>7, <1>8 DEF Prune

LEMMA UpdateTypes ==
  ASSUME TypeOK, NEW r \in Requests,
         UpdateGet(r) \/ UpdateRename(r) \/ UpdateCommit(r) \/ UpdateBack(r)
  PROVE  TypeOK'
<1> DEFINE key == [book.key EXCEPT !.name = req[r].entry.key.name]
           next == [req[r] EXCEPT
                      !.book = book, !.entry.key = key,
                      !.pc = IF key = book.key THEN "updateCommit" ELSE "updateRename"]
<1>1. req[r] \in RequestType
  BY DEF TypeOK
<1>2. req[r].entry.key \in Key /\ req[r].book.key \in Key
  BY <1>1 DEF RequestType, Entry, BookRow
<1>3. key \in Key
  BY <1>2 DEF TypeOK, BookRow, Key
<1>4. next \in RequestType
  <2> HIDE DEF key
  <2> QED
    BY <1>1, <1>3, PointMembers DEF TypeOK, RequestType, Entry
<1>5. BudgetType'
  BY BudgetTypes DEF UpdateGet, UpdateRename, UpdateCommit, UpdateBack
<1>6. CASE UpdateGet(r)
  <2>1. req' \in [Requests -> RequestType] /\ mutex' \in Requests \cup {NoRequest}
    BY <1>4, <1>6, ReturnType, BecomeType DEF TypeOK, UpdateGet
  <2> QED
    BY <1>5, <1>6, <2>1 DEF TypeOK, UpdateGet, BudgetType, db, files
<1>7. CASE UpdateRename(r)
  <2>1. req' \in [Requests -> RequestType] /\ mutex' \in Requests \cup {NoRequest}
    BY <1>7, PointMembers, ReturnType, GotoType DEF TypeOK, UpdateRename
  <2>2. objects' \subseteq Object
    BY <1>2, <1>7, RowTypes, StoreTypes DEF TypeOK, UpdateRename
  <2> QED
    BY <1>5, <1>7, <2>1, <2>2 DEF TypeOK, UpdateRename, BudgetType, db
<1>8. CASE UpdateCommit(r)
  <2>1. req' \in [Requests -> RequestType] /\ mutex' \in Requests \cup {NoRequest}
    BY <1>8, PointMembers, ReturnType, GotoType DEF TypeOK, UpdateCommit
  <2>2. book' \in BookRow
    BY <1>2, <1>8 DEF TypeOK, UpdateCommit, BookRow, db
  <2>3. Rekeyed(r) \subseteq Entry
    BY <1>2 DEF TypeOK, Rekeyed, Entry
  <2>4. revisions' \subseteq Entry
    BY <1>8, <2>3 DEF TypeOK, UpdateCommit, db
  <2> QED
    BY <1>5, <1>8, <2>1, <2>2, <2>4 DEF TypeOK, UpdateCommit, BudgetType, files
<1>9. CASE UpdateBack(r)
  <2>1. req' \in [Requests -> RequestType] /\ mutex' \in Requests \cup {NoRequest}
    BY <1>9, ReturnType DEF UpdateBack
  <2>2. objects' \subseteq Object
    BY <1>2, <1>9, RowTypes, StoreTypes DEF TypeOK, UpdateBack, RenamedBack
  <2> QED
    BY <1>5, <1>9, <2>1, <2>2 DEF TypeOK, UpdateBack, BudgetType, db
<1> QED
  BY <1>6, <1>7, <1>8, <1>9

LEMMA DeleteTypes ==
  ASSUME TypeOK, NEW r \in Requests,
         DeleteGet(r) \/ DeleteList(r) \/ DeleteCommit(r) \/ DeleteSweep(r) \/ Archive(r)
  PROVE  TypeOK'
<1>1. req[r] \in RequestType
  BY DEF TypeOK
<1>2. CurrentItem(req[r].book) \in Entry
  BY <1>1 DEF CurrentItem, RequestType, BookRow, Entry
<1>3. BudgetType'
  BY BudgetTypes DEF DeleteGet, DeleteList, DeleteCommit, DeleteSweep, Archive
<1>4. CASE DeleteGet(r)
  <2>1. [req[r] EXCEPT !.book = book, !.pc = "deleteList"] \in RequestType
    BY <1>1, PointMembers DEF TypeOK, RequestType
  <2>2. req' \in [Requests -> RequestType] /\ mutex' \in Requests \cup {NoRequest}
    BY <1>4, <2>1, ReturnType, BecomeType DEF TypeOK, DeleteGet
  <2> QED
    BY <1>3, <1>4, <2>2 DEF TypeOK, DeleteGet, BudgetType, db, files
<1>5. CASE DeleteList(r)
  <2>1. [req[r] EXCEPT !.items = revisions \cup {CurrentItem(req[r].book)},
                       !.pc = "deleteCommit"] \in RequestType
    BY <1>1, <1>2, PointMembers DEF TypeOK, RequestType
  <2>2. req' \in [Requests -> RequestType] /\ mutex' \in Requests \cup {NoRequest}
    BY <1>5, <2>1, ReturnType, BecomeType DEF TypeOK, DeleteList
  <2> QED
    BY <1>3, <1>5, <2>2 DEF TypeOK, DeleteList, BudgetType, db, files
<1>6. CASE DeleteCommit(r)
  <2>1. req' \in [Requests -> RequestType] /\ mutex' \in Requests \cup {NoRequest}
    BY <1>6, PointMembers, ReturnType, GotoType DEF TypeOK, DeleteCommit
  <2>2. book' \in BookRow /\ revisions' \subseteq Entry
    BY <1>6, RowTypes DEF TypeOK, DeleteCommit, BookRow, db
  <2> QED
    BY <1>3, <1>6, <2>1, <2>2 DEF TypeOK, DeleteCommit, BudgetType, files
<1>7. CASE DeleteSweep(r)
  <2>1. \A e : [req[r] EXCEPT !.items = req[r].items \ {e}] \in RequestType
    BY <1>1 DEF RequestType
  <2>2. req' \in [Requests -> RequestType] /\ mutex' \in Requests \cup {NoRequest}
    BY <1>7, <2>1, ReturnType, BecomeType DEF TypeOK, DeleteSweep
  <2>3. objects' \subseteq Object /\ previews' \subseteq Nat
    BY <1>7 DEF TypeOK, DeleteSweep, Delete, Without, files
  <2> QED
    BY <1>3, <1>7, <2>2, <2>3 DEF TypeOK, DeleteSweep, BudgetType, db
<1>8. CASE Archive(r)
  <2>1. req' \in [Requests -> RequestType] /\ mutex' \in Requests \cup {NoRequest}
    BY <1>8, ReturnType DEF Archive
  <2>2. book' \in BookRow
    BY <1>8 DEF TypeOK, Archive, BookRow
  <2> QED
    BY <1>3, <1>8, <2>1, <2>2 DEF TypeOK, Archive, BudgetType, files
<1> QED
  BY <1>4, <1>5, <1>6, <1>7, <1>8

LEMMA OpenTypes ==
  ASSUME TypeOK, NEW r \in Requests, OpenGet(r) \/ OpenRead(r)
  PROVE  TypeOK'
<1>1. [req[r] EXCEPT !.book = book, !.pc = "openRead"] \in RequestType
  BY PointMembers DEF TypeOK, RequestType
<1>2. req' \in [Requests -> RequestType] /\ mutex' \in Requests \cup {NoRequest}
  BY <1>1, ReturnType, BecomeType DEF TypeOK, OpenGet, OpenRead
<1>3. BudgetType'
  BY BudgetTypes DEF OpenGet, OpenRead
<1> QED
  BY <1>2, <1>3 DEF TypeOK, OpenGet, OpenRead, BudgetType, db, files

LEMMA CrashTypes ==
  ASSUME TypeOK, Crash
  PROVE  TypeOK'
  BY RowTypes DEF TypeOK, Crash, db, files

LEMMA TypedInit == Init => TypeOK
  BY RowTypes DEF Init, TypeOK

LEMMA TypedStep == TypeOK /\ [Next]_vars => TypeOK'
<1> SUFFICES ASSUME TypeOK, [Next]_vars PROVE TypeOK'
  OBVIOUS
<1>1. CASE UNCHANGED vars
  BY <1>1 DEF TypeOK, vars
<1>2. ASSUME NEW r \in Requests, AcceptAny(r) \/ PublishLock(r) \/ Step(r)
      PROVE  TypeOK'
  BY <1>2, AcceptTypes, CreateTypes, RestoreTypes, PublishTypes, PruneTypes, UpdateTypes,
     DeleteTypes, OpenTypes DEF Step
<1> QED
  BY <1>1, <1>2, CrashTypes DEF Next

\* Rows, files and local variables keep their types whatever runs.
THEOREM Typed == Spec => []TypeOK
  BY TypedInit, TypedStep, PTL DEF Spec

(***************************************************************************)
(* The rows agree.  RowsAgree is inductive: what it says of one request is *)
(* Proper, and a step that leaves the rows alone can only disturb Proper   *)
(* of the request that takes it.                                           *)
(***************************************************************************)
\* A step of r touches only the local variables of r, and publishMu only when
\* it is free or r's own.
Own(r) ==
  /\ \E next : Become(r, next)
  /\ mutex' = mutex \/ mutex = r \/ mutex = NoRequest

LEMMA OthersAreUntouched ==
  ASSUME RowsAgree, NEW r \in Requests, Own(r), NEW q \in Requests, q # r
  PROVE  /\ req'[q] = req[q]
         /\ req[q].pc \in LockPoints => mutex = q /\ mutex' = q
  BY NoRequestAssumption DEF Own, Become, RowsAgree, TypeOK, Proper, LockHeld

\* A step that leaves the rows alone and starts no upload keeps RowsAgree if
\* the request that takes it stays proper.
LEMMA RowsUntouched ==
  ASSUME RowsAgree, TypeOK', NEW r \in Requests, Own(r), UNCHANGED db,
         req'[r].op = "create" => req[r].op = "create",
         Proper(r)'
  PROVE  RowsAgree'
<1>1. Ledger'
  BY DEF RowsAgree, Ledger, Exists, db
<1>2. ASSUME NEW q \in Requests, q # r PROVE Proper(q)'
  <2>1. LockHeld(q)'
    BY <1>2, OthersAreUntouched DEF LockHeld
  <2>2. ReadIsCurrent(q)' /\ UploadIsFirst(q)'
    BY <1>2, OthersAreUntouched
       DEF RowsAgree, Proper, ReadIsCurrent, UploadIsFirst, Exists, db
  <2> QED
    BY <2>1, <2>2 DEF Proper
<1>3. OneUpload'
  BY OthersAreUntouched DEF RowsAgree, OneUpload
<1> QED
  BY <1>1, <1>2, <1>3 DEF RowsAgree

LEMMA Becomes ==
  ASSUME RowsAgree, NEW r \in Requests, NEW next, Become(r, next)
  PROVE  req'[r] = next
  BY DEF Become, RowsAgree, TypeOK

\* A request that ends, or waits where nothing is claimed of it.
Plain == Points \ (LockPoints \cup {"createSave", "createInsert", "deleteList", "deleteCommit"})

LEMMA EndKeepsRows ==
  ASSUME RowsAgree, TypeOK', NEW r \in Requests, Return(r), UNCHANGED db
  PROVE  RowsAgree'
<1>1. req'[r] = Idle /\ Own(r)
  BY Becomes DEF Return, Own
<1>2. Proper(r)'
  BY <1>1 DEF Proper, LockHeld, ReadIsCurrent, UploadIsFirst, Idle, LockPoints, Checked,
              Committed
<1> QED
  BY <1>1, <1>2, RowsUntouched DEF Idle

LEMMA PlainKeepsRows ==
  ASSUME RowsAgree, TypeOK', NEW r \in Requests, NEW next, Become(r, next),
         next.pc \in Plain, next.op = "create" => req[r].op = "create",
         UNCHANGED <<db, mutex>>
  PROVE  RowsAgree'
<1>1. req'[r] = next /\ Own(r)
  BY Becomes DEF Own
<1>2. UploadIsFirst(r)'
  BY <1>1 DEF RowsAgree, Proper, UploadIsFirst, Plain, LockPoints, db
<1>3. Proper(r)'
  BY <1>1, <1>2 DEF Proper, LockHeld, ReadIsCurrent, Plain, LockPoints
<1> QED
  BY <1>1, <1>3, RowsUntouched

LEMMA PlainPoints ==
  {"idle", "undo", "restoreFind", "restoreRead", "lock", "updateGet", "updateRename",
   "updateCommit", "updateBack", "deleteGet", "deleteSweep", "archive", "openGet",
   "openRead"} \subseteq Plain
  BY DEF Plain, Points, LockPoints, Checked, Committed

\* A request that moves on under publishMu with what it has read unchanged.
Moves(r, next) ==
  /\ Become(r, next)
  /\ \/ next.pc \in Plain
     \/ req[r].pc \in Checked /\ next.pc \in Checked
     \/ req[r].pc \in Committed /\ next.pc \in Committed
  /\ next.op = req[r].op /\ next.base = req[r].base
  /\ next.book = req[r].book /\ next.entry = req[r].entry

LEMMA MovesKeepRows ==
  ASSUME RowsAgree, TypeOK', NEW r \in Requests, NEW next, Moves(r, next),
         UNCHANGED <<db, mutex>>
  PROVE  RowsAgree'
<1>1. req'[r] = next /\ Own(r)
  BY Becomes DEF Own, Moves
<1>2. CASE next.pc \in Plain
  BY <1>2, PlainKeepsRows DEF Moves
<1>3. CASE \/ req[r].pc \in Checked /\ next.pc \in Checked
           \/ req[r].pc \in Committed /\ next.pc \in Committed
  <2>1. LockHeld(r)' /\ ReadIsCurrent(r)' /\ UploadIsFirst(r)'
    BY <1>1, <1>3
       DEF RowsAgree, Proper, LockHeld, ReadIsCurrent, UploadIsFirst, Exists, LockPoints,
           Checked, Committed, db, Moves
  <2> QED
    BY <1>1, <2>1, RowsUntouched DEF Proper, Moves
<1> QED
  BY <1>2, <1>3 DEF Moves

LEMMA GotoKeepsRows ==
  ASSUME RowsAgree, TypeOK', NEW r \in Requests, NEW pc, Goto(r, pc),
         \/ pc \in Plain
         \/ req[r].pc \in Checked /\ pc \in Checked
         \/ req[r].pc \in Committed /\ pc \in Committed,
         UNCHANGED <<db, mutex>>
  PROVE  RowsAgree'
<1> DEFINE next == [req[r] EXCEPT !.pc = pc]
<1>1. next.pc = pc /\ next.op = req[r].op /\ next.base = req[r].base
      /\ next.book = req[r].book /\ next.entry = req[r].entry
  BY DEF RowsAgree, TypeOK, RequestType
<1>2. Become(r, next)
  BY DEF Goto
<1> HIDE DEF next
<1> QED
  BY <1>1, <1>2, MovesKeepRows DEF Moves

(***************************************************************************)
(* A step of a request that leaves the rows alone.                         *)
(***************************************************************************)
LEMMA AcceptRows ==
  ASSUME RowsAgree, TypeOK', NEW r \in Requests, AcceptAny(r)
  PROVE  RowsAgree'
<1>0. UNCHANGED <<db, mutex>>
  BY DEF AcceptAny, AcceptCreate, AcceptEdit, AcceptRestore, AcceptUpdate, AcceptOther, Accept
<1>1. CASE AcceptCreate(r)
  <2>1. req'[r] = [Idle EXCEPT !.op = "create", !.pc = "createSave"] /\ Own(r)
    BY <1>1, <1>0, Becomes DEF AcceptCreate, Own
  <2>2. req'[r].op = "create" /\ req'[r].pc = "createSave"
    BY <2>1 DEF Idle
  <2>3. Proper(r)'
    BY <1>0, <1>1, <2>2
       DEF Proper, LockHeld, ReadIsCurrent, UploadIsFirst, AcceptCreate, LockPoints, Checked,
           Committed, db
  <2>4. \A q \in Requests : q # r => Proper(q)'
    BY <1>0, <2>1, OthersAreUntouched
       DEF RowsAgree, Proper, LockHeld, ReadIsCurrent, UploadIsFirst, Exists, db
  <2>5. OneUpload'
    BY <1>1, <2>1, OthersAreUntouched DEF AcceptCreate, OneUpload
  <2>6. Ledger'
    BY <1>0 DEF RowsAgree, Ledger, Exists, db
  <2> QED
    BY <2>3, <2>4, <2>5, <2>6 DEF RowsAgree
<1>2. ASSUME NEW next, Become(r, next), next.pc \in Plain, next.op # "create"
      PROVE  RowsAgree'
  BY <1>0, <1>2, PlainKeepsRows
<1>3. ASSUME NEW op \in {"edit", "cover"}, AcceptEdit(r, op)
      PROVE  RowsAgree'
  BY <1>2, <1>3, PlainPoints DEF AcceptEdit, Idle
<1>4. CASE AcceptRestore(r)
  BY <1>2, <1>4, PlainPoints DEF AcceptRestore, Idle
<1>5. CASE AcceptUpdate(r)
  BY <1>2, <1>5, PlainPoints DEF AcceptUpdate, Idle
<1>6. ASSUME NEW op \in {"delete", "archive", "open"},
             NEW pc \in {"deleteGet", "archive", "openGet"}, AcceptOther(r, op, pc)
      PROVE  RowsAgree'
  BY <1>2, <1>6, PlainPoints DEF AcceptOther, Idle
<1> QED
  BY <1>1, <1>3, <1>4, <1>5, <1>6 DEF AcceptAny

LEMMA CreateSaveRows ==
  ASSUME RowsAgree, TypeOK', NEW r \in Requests, CreateSave(r)
  PROVE  RowsAgree'
<1>1. UNCHANGED db
  BY DEF CreateSave
<1>2. CASE Return(r)
  BY <1>1, <1>2, EndKeepsRows
<1>3. ASSUME NEW entry, entry.original, entry.cover = 0, UNCHANGED mutex,
             Become(r, [req[r] EXCEPT !.pc = "createInsert", !.entry = entry])
      PROVE  RowsAgree'
  <2> DEFINE next == [req[r] EXCEPT !.pc = "createInsert", !.entry = entry]
  <2>1. next.pc = "createInsert" /\ next.op = req[r].op /\ next.entry = entry
    BY DEF RowsAgree, TypeOK, RequestType
  <2>2. Become(r, next)
    BY <1>3
  <2> HIDE DEF next
  <2>3. req'[r] = next /\ Own(r)
    BY <1>3, <2>2, Becomes DEF Own
  <2>4. Proper(r)'
    BY <1>1, <1>3, <2>1, <2>3
       DEF RowsAgree, Proper, LockHeld, ReadIsCurrent, UploadIsFirst, LockPoints, Checked,
           Committed, CreateSave, At, db
  <2> QED
    BY <1>1, <2>1, <2>3, <2>4, RowsUntouched
<1>4. ASSUME NEW now \in Times, NEW name \in Filenames, UNCHANGED mutex,
             Become(r, [req[r] EXCEPT
                          !.pc = "createInsert",
                          !.entry = [revision |-> now,
                                     key |-> [dir |-> drawn + 1, name |-> name], cover |-> 0,
                                     text |-> Blank, original |-> TRUE]])
      PROVE  RowsAgree'
  <2> DEFINE entry == [revision |-> now, key |-> [dir |-> drawn + 1, name |-> name],
                       cover |-> 0, text |-> Blank, original |-> TRUE]
  <2>1. entry.original /\ entry.cover = 0
    OBVIOUS
  <2>2. Become(r, [req[r] EXCEPT !.pc = "createInsert", !.entry = entry]) /\ UNCHANGED mutex
    BY <1>4
  <2> HIDE DEF entry
  <2> QED
    BY <1>3, <2>1, <2>2
<1> QED
  BY <1>2, <1>4 DEF CreateSave

LEMMA RestoreRows ==
  ASSUME RowsAgree, TypeOK', NEW r \in Requests, RestoreFind(r) \/ RestoreRead(r)
  PROVE  RowsAgree'
<1>1. UNCHANGED db
  BY DEF RestoreFind, RestoreRead
<1>2. CASE Return(r)
  BY <1>1, <1>2, EndKeepsRows
<1>3. ASSUME NEW e, UNCHANGED mutex,
             Become(r, [req[r] EXCEPT !.source = e, !.pc = "restoreRead"])
      PROVE  RowsAgree'
  <2> DEFINE next == [req[r] EXCEPT !.source = e, !.pc = "restoreRead"]
  <2>1. next.pc = "restoreRead" /\ next.op = req[r].op
    BY DEF RowsAgree, TypeOK, RequestType
  <2>2. Become(r, next)
    BY <1>3
  <2> HIDE DEF next
  <2> QED
    BY <1>1, <1>3, <2>1, <2>2, PlainPoints, PlainKeepsRows
<1>4. ASSUME NEW o, UNCHANGED mutex,
             Become(r, [req[r] EXCEPT !.source.text = o.text, !.pc = "lock"])
      PROVE  RowsAgree'
  <2> DEFINE next == [req[r] EXCEPT !.source.text = o.text, !.pc = "lock"]
  <2>1. next.pc = "lock" /\ next.op = req[r].op
    BY DEF RowsAgree, TypeOK, RequestType
  <2>2. Become(r, next)
    BY <1>4
  <2> HIDE DEF next
  <2> QED
    BY <1>1, <1>4, <2>1, <2>2, PlainPoints, PlainKeepsRows
<1> QED
  BY <1>2, <1>3, <1>4 DEF RestoreFind, RestoreRead

LEMMA PublishRows ==
  ASSUME RowsAgree, TypeOK', NEW r \in Requests,
         PublishLock(r) \/ (Publish(r) /\ ~PublishCommit(r))
  PROVE  RowsAgree'
<1>1. UNCHANGED db
  BY DEF PublishLock, Publish, PublishGet, PublishMutate, PublishSave, PublishCover, Undo,
         PublishReply
<1>2. CASE Return(r)
  BY <1>1, <1>2, EndKeepsRows
<1>3. CASE PublishLock(r)
  <2> DEFINE next == [req[r] EXCEPT !.pc = "publishGet"]
  <2>1. next.pc = "publishGet" /\ next.op = req[r].op
    BY DEF RowsAgree, TypeOK, RequestType
  <2>2. Become(r, next) /\ mutex' = r /\ mutex = NoRequest
    BY <1>3 DEF PublishLock, Goto, Unlocked
  <2> HIDE DEF next
  <2>3. req'[r] = next /\ Own(r)
    BY <2>2, Becomes DEF Own
  <2>4. Proper(r)'
    BY <1>1, <2>1, <2>2, <2>3
       DEF RowsAgree, Proper, LockHeld, ReadIsCurrent, UploadIsFirst, Checked, Committed, db
  <2> QED
    BY <1>1, <2>1, <2>3, <2>4, RowsUntouched
<1>4. ASSUME PublishGet(r), Live, UNCHANGED mutex,
             Become(r, [req[r] EXCEPT !.book = book, !.pc = "publishMutate"])
      PROVE  RowsAgree'
  <2> DEFINE next == [req[r] EXCEPT !.book = book, !.pc = "publishMutate"]
  <2>1. next.pc = "publishMutate" /\ next.op = req[r].op /\ next.book = book
    BY DEF RowsAgree, TypeOK, RequestType
  <2>2. Become(r, next)
    BY <1>4
  <2> HIDE DEF next
  <2>3. req'[r] = next /\ Own(r)
    BY <1>4, <2>2, Becomes DEF Own
  <2>4. mutex = r
    BY <1>4 DEF RowsAgree, Proper, LockHeld, LockPoints, PublishGet, At
  <2>5. Proper(r)'
    BY <1>1, <1>4, <2>1, <2>3, <2>4
       DEF RowsAgree, Proper, LockHeld, ReadIsCurrent, UploadIsFirst, Checked, Committed, Live,
           db
  <2> QED
    BY <1>1, <2>1, <2>3, <2>5, RowsUntouched
<1>5. ASSUME PublishMutate(r), NEW now \in Times, NEW key, NEW cover, NEW text,
             req[r].base = req[r].book.revision, UNCHANGED mutex,
             Become(r, [req[r] EXCEPT
                          !.entry = [revision |-> NextRevision(req[r].book.revision, now),
                                     key |-> key, cover |-> cover, text |-> text,
                                     original |-> FALSE],
                          !.pc = "publishSave"])
      PROVE  RowsAgree'
  <2> DEFINE entry == [revision |-> NextRevision(req[r].book.revision, now),
                       key |-> key, cover |-> cover, text |-> text, original |-> FALSE]
             next == [req[r] EXCEPT !.entry = entry, !.pc = "publishSave"]
  <2>1. entry.revision > req[r].book.revision /\ ~entry.original
    BY TimesAssumption DEF RowsAgree, TypeOK, RequestType, BookRow, NextRevision
  <2>2. next.pc = "publishSave" /\ next.op = req[r].op /\ next.base = req[r].base
        /\ next.book = req[r].book /\ next.entry = entry
    <3> HIDE DEF entry
    <3> QED
      BY DEF RowsAgree, TypeOK, RequestType
  <2>3. Become(r, next)
    BY <1>5
  <2> HIDE DEF next, entry
  <2>4. req'[r] = next /\ Own(r)
    BY <1>5, <2>3, Becomes DEF Own
  <2>5. req[r].pc = "publishMutate"
    BY <1>5 DEF PublishMutate, At
  <2>6. LockHeld(r)' /\ UploadIsFirst(r)'
    BY <1>1, <1>5, <2>2, <2>4, <2>5
       DEF RowsAgree, Proper, LockHeld, UploadIsFirst, LockPoints, Checked, Committed, db
  <2>7. ReadIsCurrent(r)'
    BY <1>1, <1>5, <2>1, <2>2, <2>4, <2>5
       DEF RowsAgree, Proper, ReadIsCurrent, Checked, Committed, Exists, db
  <2> QED
    BY <1>1, <2>2, <2>4, <2>6, <2>7, RowsUntouched DEF Proper
<1>6. CASE PublishGet(r)
  BY <1>2, <1>4, <1>6 DEF PublishGet
<1>7. CASE PublishMutate(r)
  BY <1>2, <1>5, <1>7 DEF PublishMutate
<1>8. CASE PublishSave(r)
  BY <1>1, <1>2, <1>8, GotoKeepsRows DEF PublishSave, At, Checked
<1>9. CASE PublishCover(r)
  BY <1>1, <1>9, PlainPoints, GotoKeepsRows DEF PublishCover, At, Checked
<1>10. CASE Undo(r)
  BY <1>2, <1>10 DEF Undo
<1>11. CASE PublishReply(r)
  BY <1>1, <1>2, <1>11, GotoKeepsRows DEF PublishReply, At, Committed
<1> QED
  BY <1>3, <1>6, <1>7, <1>8, <1>9, <1>10, <1>11 DEF Publish

LEMMA NextItemRows ==
  ASSUME RowsAgree, TypeOK', NEW r \in Requests, NEW e, NextItem(r, e),
         req[r].pc \in Committed, UNCHANGED <<db, mutex>>
  PROVE  RowsAgree'
<1> DEFINE next == [req[r] EXCEPT !.items = @ \ {e}, !.pc = "pruneRow"]
<1>1. next.pc = "pruneRow" /\ next.op = req[r].op /\ next.base = req[r].base
      /\ next.book = req[r].book /\ next.entry = req[r].entry
  BY DEF RowsAgree, TypeOK, RequestType
<1>2. Become(r, next)
  BY DEF NextItem
<1> HIDE DEF next
<1> QED
  BY <1>1, <1>2, MovesKeepRows DEF Moves, Committed

LEMMA PruneRows ==
  ASSUME RowsAgree, TypeOK', NEW r \in Requests, Prune(r), ~PruneRow(r)
  PROVE  RowsAgree'
<1>1. UNCHANGED db /\ req[r].pc \in Committed
  BY DEF Prune, PruneSelect, PruneObject, PruneCheck, PruneCover, At, Committed
<1>2. CASE Return(r)
  BY <1>1, <1>2, EndKeepsRows
<1>3. CASE PruneSelect(r)
  <2>1. PICK rows : Become(r, [req[r] EXCEPT !.items = rows, !.pc = "pruneRow"])
    BY <1>3 DEF PruneSelect
  <2> DEFINE next == [req[r] EXCEPT !.items = rows, !.pc = "pruneRow"]
  <2>2. next.pc = "pruneRow" /\ next.op = req[r].op /\ next.base = req[r].base
        /\ next.book = req[r].book /\ next.entry = req[r].entry
    BY DEF RowsAgree, TypeOK, RequestType
  <2>3. Become(r, next) /\ UNCHANGED mutex
    BY <1>3, <2>1 DEF PruneSelect
  <2> HIDE DEF next
  <2> QED
    BY <1>1, <2>2, <2>3, MovesKeepRows DEF Moves, Committed
<1>4. CASE PruneObject(r)
  BY <1>1, <1>4, GotoKeepsRows, NextItemRows DEF PruneObject, Committed
<1>5. CASE PruneCheck(r)
  BY <1>1, <1>5, GotoKeepsRows, NextItemRows DEF PruneCheck, Committed
<1>6. CASE PruneCover(r)
  BY <1>1, <1>6, NextItemRows DEF PruneCover
<1> QED
  BY <1>3, <1>4, <1>5, <1>6 DEF Prune

LEMMA UpdateRows ==
  ASSUME RowsAgree, TypeOK', NEW r \in Requests,
         UpdateGet(r) \/ UpdateRename(r) \/ UpdateBack(r)
  PROVE  RowsAgree'
<1>1. UNCHANGED db
  BY DEF UpdateGet, UpdateRename, UpdateBack
<1>2. CASE Return(r)
  BY <1>1, <1>2, EndKeepsRows
<1>3. CASE UpdateGet(r)
  <2> DEFINE key == [book.key EXCEPT !.name = req[r].entry.key.name]
             next == [req[r] EXCEPT
                        !.book = book, !.entry.key = key,
                        !.pc = IF key = book.key THEN "updateCommit" ELSE "updateRename"]
  <2>1. next.op = req[r].op /\ next.pc \in {"updateCommit", "updateRename"}
    <3> HIDE DEF key
    <3> QED
      BY DEF RowsAgree, TypeOK, RequestType
  <2>2. ~Return(r) => Become(r, next) /\ UNCHANGED mutex
    BY <1>3 DEF UpdateGet
  <2> HIDE DEF next
  <2> QED
    BY <1>1, <1>2, <2>1, <2>2, PlainPoints, PlainKeepsRows
<1>4. CASE UpdateRename(r)
  BY <1>1, <1>2, <1>4, PlainPoints, GotoKeepsRows DEF UpdateRename
<1>5. CASE UpdateBack(r)
  BY <1>2, <1>5 DEF UpdateBack
<1> QED
  BY <1>3, <1>4, <1>5

LEMMA DeleteRows ==
  ASSUME RowsAgree, TypeOK', NEW r \in Requests,
         DeleteGet(r) \/ DeleteList(r) \/ DeleteSweep(r)
  PROVE  RowsAgree'
<1>1. UNCHANGED db
  BY DEF DeleteGet, DeleteList, DeleteSweep
<1>2. CASE Return(r)
  BY <1>1, <1>2, EndKeepsRows
<1>3. ASSUME NEW next, Become(r, next), next.op = req[r].op, UNCHANGED mutex,
             next.pc \in {"deleteList", "deleteCommit"}, book.state # "none"
      PROVE  RowsAgree'
  <2>1. req'[r] = next /\ Own(r)
    BY <1>3, Becomes DEF Own
  <2>2. Proper(r)'
    BY <1>1, <1>3, <2>1
       DEF RowsAgree, Proper, LockHeld, ReadIsCurrent, UploadIsFirst, LockPoints, Checked,
           Committed, db
  <2> QED
    BY <1>1, <1>3, <2>1, <2>2, RowsUntouched
<1>4. CASE DeleteGet(r)
  <2> DEFINE next == [req[r] EXCEPT !.book = book, !.pc = "deleteList"]
  <2>1. next.op = req[r].op /\ next.pc = "deleteList"
    BY DEF RowsAgree, TypeOK, RequestType
  <2>2. ~Return(r) => Become(r, next) /\ UNCHANGED mutex /\ book.state # "none"
    BY <1>4 DEF DeleteGet, Live
  <2> HIDE DEF next
  <2> QED
    BY <1>2, <1>3, <2>1, <2>2
<1>5. CASE DeleteList(r)
  <2> DEFINE next == [req[r] EXCEPT !.items = revisions \cup {CurrentItem(req[r].book)},
                                    !.pc = "deleteCommit"]
  <2>1. next.op = req[r].op /\ next.pc = "deleteCommit"
    BY DEF RowsAgree, TypeOK, RequestType
  <2>2. ~Return(r) => Become(r, next) /\ UNCHANGED mutex
    BY <1>5 DEF DeleteList
  <2>3. book.state # "none"
    BY <1>5 DEF RowsAgree, Proper, UploadIsFirst, DeleteList, At
  <2> HIDE DEF next
  <2> QED
    BY <1>2, <1>3, <2>1, <2>2, <2>3
<1>6. CASE DeleteSweep(r)
  <2>1. ASSUME NEW e, UNCHANGED mutex, Become(r, [req[r] EXCEPT !.items = @ \ {e}])
        PROVE  RowsAgree'
    <3> DEFINE next == [req[r] EXCEPT !.items = @ \ {e}]
    <3>1. next.op = req[r].op /\ next.pc = "deleteSweep"
      BY <1>6 DEF RowsAgree, TypeOK, RequestType, DeleteSweep, At
    <3>2. Become(r, next)
      BY <2>1
    <3> HIDE DEF next
    <3> QED
      BY <1>1, <2>1, <3>1, <3>2, PlainPoints, PlainKeepsRows
  <2> QED
    BY <1>2, <1>6, <2>1 DEF DeleteSweep
<1> QED
  BY <1>4, <1>5, <1>6

LEMMA OpenRows ==
  ASSUME RowsAgree, TypeOK', NEW r \in Requests, OpenGet(r) \/ OpenRead(r)
  PROVE  RowsAgree'
<1>1. UNCHANGED db
  BY DEF OpenGet, OpenRead
<1> DEFINE next == [req[r] EXCEPT !.book = book, !.pc = "openRead"]
<1>2. next.op = req[r].op /\ next.pc = "openRead"
  BY DEF RowsAgree, TypeOK, RequestType
<1>3. ~Return(r) => Become(r, next) /\ UNCHANGED mutex
  BY DEF OpenGet, OpenRead
<1> HIDE DEF next
<1> QED
  BY <1>1, <1>2, <1>3, EndKeepsRows, PlainPoints, PlainKeepsRows

LEMMA CrashRows ==
  ASSUME RowsAgree, TypeOK', Crash
  PROVE  RowsAgree'
<1>1. Ledger'
  BY DEF RowsAgree, Ledger, Exists, Crash, db
<1>2. ASSUME NEW r \in Requests PROVE Proper(r)'
  BY DEF Crash, Proper, LockHeld, ReadIsCurrent, UploadIsFirst, Idle, LockPoints, Checked,
         Committed
<1>3. OneUpload'
  BY DEF Crash, OneUpload, Idle
<1> QED
  BY <1>1, <1>2, <1>3 DEF RowsAgree

(***************************************************************************)
(* The six transactions that write rows.                                   *)
(***************************************************************************)

\* Whatever becomes of the row and its revisions: the other requests stay
\* proper as long as the row stays at its revision, or only the holder of
\* publishMu moves it.
LEMMA OthersStayProper ==
  ASSUME RowsAgree, NEW r \in Requests, Own(r), NEW q \in Requests, q # r,
         book'.state = "none" <=> book.state = "none",
         Exists' => Exists,
         Exists' => book'.revision = book.revision \/ mutex = r
  PROVE  Proper(q)'
<1>1. req'[q] = req[q] /\ (req[q].pc \in LockPoints => mutex = q /\ mutex' = q)
  BY OthersAreUntouched
<1>2. LockHeld(q)'
  BY <1>1 DEF LockHeld
<1>3. ReadIsCurrent(q)'
  BY <1>1 DEF RowsAgree, Proper, ReadIsCurrent, LockPoints
<1>4. UploadIsFirst(q)'
  BY <1>1 DEF RowsAgree, Proper, UploadIsFirst
<1> QED
  BY <1>2, <1>3, <1>4 DEF Proper

LEMMA CreateInsertRows ==
  ASSUME RowsAgree, TypeOK', NEW r \in Requests, CreateInsert(r)
  PROVE  RowsAgree'
<1>1. /\ book.state = "none" /\ revisions = {}
      /\ req[r].entry.original /\ req[r].entry.cover = 0 /\ req[r].op = "create"
  BY DEF CreateInsert, At, RowsAgree, Proper, UploadIsFirst, Ledger, Exists
<1>2. CASE UNCHANGED <<db, mutex>> /\ Goto(r, "undo")
  BY <1>2, PlainPoints, GotoKeepsRows
<1>3. ASSUME book' = [state |-> "live", revision |-> req[r].entry.revision,
                      key |-> req[r].entry.key, cover |-> 0, text |-> req[r].entry.text],
             revisions' = revisions \cup {req[r].entry},
             Return(r)
      PROVE  RowsAgree'
  <2>1. req'[r] = Idle /\ Own(r)
    BY <1>3, Becomes DEF Return, Own
  <2>2. Ledger'
    <3>1. revisions' = {req[r].entry} /\ req[r].entry.revision \in Nat
      BY <1>1, <1>3 DEF RowsAgree, TypeOK, RequestType, Entry
    <3> QED
      BY <1>1, <1>3, <3>1 DEF Ledger, Exists
  <2>3. Proper(r)'
    BY <2>1 DEF Proper, LockHeld, ReadIsCurrent, UploadIsFirst, Idle, LockPoints, Checked,
                Committed
  <2>4. ASSUME NEW q \in Requests, q # r PROVE Proper(q)'
    <3>1. LockHeld(q)'
      BY <2>1, <2>4, OthersAreUntouched DEF LockHeld
    <3>2. ReadIsCurrent(q)' /\ UploadIsFirst(q)'
      BY <1>1, <2>1, <2>4, OthersAreUntouched
         DEF RowsAgree, OneUpload, Proper, ReadIsCurrent, UploadIsFirst, Committed, Checked
    <3> QED
      BY <3>1, <3>2 DEF Proper
  <2>5. OneUpload'
    BY <2>1, OthersAreUntouched DEF RowsAgree, OneUpload, Idle
  <2> QED
    BY <2>2, <2>3, <2>4, <2>5 DEF RowsAgree
<1> QED
  BY <1>2, <1>3 DEF CreateInsert

\* The other five write a row that exists, and nobody is uploading then.
LEMMA ExistingRow ==
  ASSUME RowsAgree, TypeOK', NEW r \in Requests, Own(r),
         book'.state = "none" <=> book.state = "none",
         Exists' => Exists,
         Exists' => book'.revision = book.revision \/ mutex = r,
         req'[r].op = "create" => req[r].op = "create",
         Proper(r)', Ledger'
  PROVE  RowsAgree'
<1>1. \A q \in Requests : Proper(q)'
  BY OthersStayProper
<1>2. OneUpload'
  BY OthersAreUntouched DEF RowsAgree, OneUpload
<1> QED
  BY <1>1, <1>2 DEF RowsAgree

LEMMA IdleIsProper ==
  ASSUME NEW r \in Requests, req'[r] = Idle
  PROVE  Proper(r)' /\ req'[r].op # "create"
  BY DEF Proper, LockHeld, ReadIsCurrent, UploadIsFirst, Idle, LockPoints, Checked, Committed

LEMMA PublishCommitRows ==
  ASSUME RowsAgree, TypeOK', NEW r \in Requests, PublishCommit(r)
  PROVE  RowsAgree'
<1>1. CASE UNCHANGED <<db, mutex>> /\ Goto(r, "undo")
  BY <1>1, PlainPoints, GotoKeepsRows
<1>2. ASSUME MayCommit(r),
             revisions' = revisions \cup {req[r].entry},
             book' = [book EXCEPT !.revision = req[r].entry.revision,
                                  !.key = req[r].entry.key,
                                  !.cover = req[r].entry.cover, !.text = req[r].entry.text],
             Goto(r, "publishReply"), UNCHANGED mutex
      PROVE  RowsAgree'
  <2> DEFINE next == [req[r] EXCEPT !.pc = "publishReply"]
  <2>1. next.pc = "publishReply" /\ next.op = req[r].op /\ next.entry = req[r].entry
    BY DEF RowsAgree, TypeOK, RequestType
  <2>2. Become(r, next)
    BY <1>2 DEF Goto
  <2> HIDE DEF next
  <2>3. req'[r] = next /\ Own(r)
    BY <1>2, <2>2, Becomes DEF Own
  <2>4. /\ book'.state = book.state /\ book'.revision = req[r].entry.revision
        /\ book'.cover = req[r].entry.cover /\ book'.text = req[r].entry.text
    BY <1>2 DEF RowsAgree, TypeOK, BookRow
  <2>5. /\ Live /\ mutex = r /\ ~req[r].entry.original
        /\ req[r].entry.revision > book.revision /\ book.revision \in Nat
        /\ req[r].entry.revision \in Nat
    BY <1>2 DEF RowsAgree, TypeOK, RequestType, Entry, BookRow, Proper, LockHeld, ReadIsCurrent,
                MayCommit, PublishCommit, At, LockPoints, Checked
  <2>6. Ledger'
    <3>1. Exists /\ \A e \in revisions : e.revision \in Nat
      BY <2>5 DEF RowsAgree, TypeOK, Entry, Exists, Live
    <3>2. \A e \in revisions' : e.revision <= book'.revision
      BY <1>2, <2>4, <2>5, <3>1 DEF RowsAgree, Ledger
    <3>3. \A d, e \in revisions' : d.revision = e.revision => d = e
      BY <1>2, <2>5, <3>1 DEF RowsAgree, Ledger, MayCommit, Listed
    <3>4. /\ \E e \in revisions' : e.original
          /\ \A d, e \in revisions' : d.original /\ e.original => d = e
      BY <1>2, <2>5, <3>1 DEF RowsAgree, Ledger
    <3>5. Exists'
      BY <2>4, <3>1 DEF Exists
    <3> QED
      BY <1>2, <2>4, <3>2, <3>3, <3>4, <3>5 DEF Ledger
  <2>7. Proper(r)'
    BY <1>2, <2>1, <2>3, <2>4, <2>5
       DEF RowsAgree, Proper, LockHeld, ReadIsCurrent, UploadIsFirst, Live, LockPoints, Checked,
           Committed
  <2> QED
    BY <2>1, <2>3, <2>4, <2>5, <2>6, <2>7, ExistingRow DEF Exists, Live
<1> QED
  BY <1>1, <1>2 DEF PublishCommit

LEMMA PruneRowRows ==
  ASSUME RowsAgree, TypeOK', NEW r \in Requests, PruneRow(r)
  PROVE  RowsAgree'
<1>1. CASE Return(r) /\ UNCHANGED revisions
  BY <1>1, EndKeepsRows DEF PruneRow, db
<1>2. req[r].pc \in Committed
  BY DEF PruneRow, At, Committed
<1>3. ASSUME NEW e, NextItem(r, e) \/ Goto(r, "pruneObject"), UNCHANGED mutex,
             revisions' = revisions \/ revisions' = revisions \ Matched(r, e)
      PROVE  RowsAgree'
  <2> DEFINE next1 == [req[r] EXCEPT !.items = @ \ {e}, !.pc = "pruneRow"]
             next2 == [req[r] EXCEPT !.pc = "pruneObject"]
             Same(next) == /\ next.op = req[r].op /\ next.entry = req[r].entry
                           /\ next.pc \in Committed
  <2>1. Same(next1) /\ Same(next2)
    BY DEF RowsAgree, TypeOK, RequestType, Committed
  <2>2. Become(r, next1) \/ Become(r, next2)
    BY <1>3 DEF NextItem, Goto
  <2> HIDE DEF next1, next2
  <2>3. PICK next : Become(r, next) /\ Same(next)
    BY <2>1, <2>2
  <2>4. req'[r] = next /\ Own(r)
    BY <1>3, <2>3, Becomes DEF Own
  <2>5. UNCHANGED book
    BY DEF PruneRow
  <2>6. Proper(r)'
    BY <1>2, <1>3, <2>3, <2>4, <2>5
       DEF RowsAgree, Proper, LockHeld, ReadIsCurrent, UploadIsFirst, Exists, LockPoints,
           Checked, Committed
  <2>7. Ledger'
    <3>1. revisions' \subseteq revisions
      BY <1>3
    <3>2. ASSUME Exists PROVE \A d \in revisions : d.revision = book.revision \/ d.original
                                                     => d \in revisions'
      BY <1>2, <1>3, <3>2 DEF RowsAgree, Proper, ReadIsCurrent, Matched
    <3>3. ~Exists' => revisions' = {}
      BY <2>5, <3>1 DEF RowsAgree, Ledger, Exists
    <3>4. ASSUME Exists'
          PROVE  /\ \E d \in revisions' : /\ d.revision = book'.revision
                                          /\ d.text = book'.text /\ d.cover = book'.cover
                 /\ \E d \in revisions' : d.original
      BY <2>5, <3>2, <3>4 DEF RowsAgree, Ledger, Exists
    <3> QED
      BY <2>5, <3>1, <3>3, <3>4 DEF RowsAgree, Ledger, Exists
  <2> QED
    BY <2>3, <2>4, <2>5, <2>6, <2>7, ExistingRow DEF Exists
<1> QED
  BY <1>1, <1>3 DEF PruneRow

LEMMA UpdateCommitRows ==
  ASSUME RowsAgree, TypeOK', NEW r \in Requests, UpdateCommit(r)
  PROVE  RowsAgree'
<1>1. CASE UNCHANGED <<db, mutex>> /\ Goto(r, "updateBack")
  BY <1>1, PlainPoints, GotoKeepsRows
<1>2. CASE UNCHANGED db /\ Return(r)
  BY <1>2, EndKeepsRows
<1>3. ASSUME book' = IF Live THEN [book EXCEPT !.key = req[r].entry.key] ELSE book,
             revisions' = Rekeyed(r), Return(r)
      PROVE  RowsAgree'
  <2>1. req'[r] = Idle /\ Own(r)
    BY <1>3, Becomes DEF Return, Own
  <2>2. /\ book'.state = book.state /\ book'.revision = book.revision
        /\ book'.text = book.text /\ book'.cover = book.cover
    BY <1>3 DEF RowsAgree, TypeOK, BookRow
  <2> DEFINE moved(e) == IF Moved(r) /\ e.revision = req[r].book.revision
                           THEN [e EXCEPT !.key = req[r].entry.key] ELSE e
  <2>3. revisions' = {moved(e) : e \in revisions}
    BY <1>3 DEF Rekeyed
  <2>4. \A e \in revisions : /\ moved(e).revision = e.revision /\ moved(e).text = e.text
                             /\ moved(e).cover = e.cover /\ moved(e).original = e.original
    BY DEF RowsAgree, TypeOK, Entry
  <2> HIDE DEF moved
  <2>5. Exists' = Exists
    BY <2>2 DEF Exists
  <2>6. Ledger'
    BY <2>2, <2>3, <2>4, <2>5 DEF RowsAgree, Ledger
  <2> QED
    BY <2>1, <2>2, <2>5, <2>6, IdleIsProper, ExistingRow
<1> QED
  BY <1>1, <1>2, <1>3 DEF UpdateCommit

LEMMA DeleteCommitRows ==
  ASSUME RowsAgree, TypeOK', NEW r \in Requests, DeleteCommit(r)
  PROVE  RowsAgree'
<1>1. CASE UNCHANGED db /\ Return(r)
  BY <1>1, EndKeepsRows
<1>2. ASSUME book' = [NoBook EXCEPT !.state = "gone"], revisions' = {},
             Goto(r, "deleteSweep"), UNCHANGED mutex
      PROVE  RowsAgree'
  <2> DEFINE next == [req[r] EXCEPT !.pc = "deleteSweep"]
  <2>1. next.pc = "deleteSweep" /\ next.op = req[r].op
    BY DEF RowsAgree, TypeOK, RequestType
  <2>2. Become(r, next)
    BY <1>2 DEF Goto
  <2> HIDE DEF next
  <2>3. req'[r] = next /\ Own(r)
    BY <1>2, <2>2, Becomes DEF Own
  <2>4. book'.state = "gone" /\ ~Exists'
    BY <1>2 DEF NoBook, Exists
  <2>5. book.state # "none" /\ req[r].op # "create"
    BY DEF RowsAgree, Proper, UploadIsFirst, DeleteCommit, At
  <2>6. Ledger'
    BY <1>2, <2>4 DEF Ledger
  <2>7. Proper(r)'
    BY <2>1, <2>3, <2>5 DEF Proper, LockHeld, ReadIsCurrent, UploadIsFirst, LockPoints, Checked,
                            Committed
  <2> QED
    BY <2>1, <2>3, <2>4, <2>5, <2>6, <2>7, ExistingRow
<1> QED
  BY <1>1, <1>2 DEF DeleteCommit

LEMMA ArchiveRows ==
  ASSUME RowsAgree, TypeOK', NEW r \in Requests, Archive(r)
  PROVE  RowsAgree'
<1>1. req'[r] = Idle /\ Own(r)
  BY Becomes DEF Archive, Return, Own
<1>2. /\ book'.revision = book.revision /\ book'.text = book.text /\ book'.cover = book.cover
      /\ book'.state = book.state \/ (Live /\ book'.state = "archived")
      /\ revisions' = revisions
  BY DEF RowsAgree, TypeOK, BookRow, Archive
<1>3. Exists' = Exists
  BY <1>2 DEF Exists, Live
<1>4. Ledger'
  BY <1>2, <1>3 DEF RowsAgree, Ledger
<1> QED
  BY <1>1, <1>2, <1>3, <1>4, IdleIsProper, ExistingRow DEF Live

(***************************************************************************)
(* Put together.                                                           *)
(***************************************************************************)
LEMMA RowsAgreeStep == RowsAgree /\ [Next]_vars => RowsAgree'
<1> SUFFICES ASSUME RowsAgree, [Next]_vars PROVE RowsAgree'
  OBVIOUS
<1>1. TypeOK'
  BY TypedStep DEF RowsAgree
<1>2. CASE UNCHANGED vars
  BY <1>2 DEF RowsAgree, TypeOK, Ledger, Exists, OneUpload, Proper, LockHeld, ReadIsCurrent,
              UploadIsFirst, vars
<1>3. ASSUME NEW r \in Requests, AcceptAny(r) \/ PublishLock(r) \/ Step(r)
      PROVE  RowsAgree'
  BY <1>1, <1>3, AcceptRows, CreateSaveRows, CreateInsertRows, RestoreRows, PublishRows,
     PublishCommitRows, PruneRows, PruneRowRows, UpdateRows, UpdateCommitRows, DeleteRows,
     DeleteCommitRows, ArchiveRows, OpenRows DEF Step
<1> QED
  BY <1>1, <1>2, <1>3, CrashRows DEF Next

\* The invariant behind the next two theorems: the rows agree, publishMu is
\* held where the code relies on it, and what publish has read is current.
THEOREM RowsAlwaysAgree == Spec => []RowsAgree
<1>1. Init => RowsAgree
  BY TypedInit, NoRequestAssumption
     DEF Init, RowsAgree, Ledger, Exists, OneUpload, Proper, LockHeld, ReadIsCurrent,
         UploadIsFirst, Idle, NoBook, LockPoints, Checked, Committed
<1> QED
  BY <1>1, RowsAgreeStep, PTL DEF Spec

\* Whatever runs at the same time and wherever the process dies: the book's row
\* and its revision rows agree.
THEOREM LedgerIsConsistent == Spec => []Ledger
<1>1. RowsAgree => Ledger
  BY DEF RowsAgree
<1> QED
  BY <1>1, RowsAlwaysAgree, PTL

\* No publication overwrites another: each replaces the revision its client
\* edited.
THEOREM NoLostEdit == Spec => []PublishesOnItsBase
<1>1. RowsAgree => PublishesOnItsBase
  BY DEF RowsAgree, Proper, LockHeld, ReadIsCurrent, PublishesOnItsBase, LockPoints, Checked
<1> QED
  BY <1>1, RowsAlwaysAgree, PTL

(***************************************************************************)
(* What a request may be doing at each point, whatever the others do.      *)
(***************************************************************************)
\* The operations that write files, and where the others are.
Writing == Edits \cup {"create", "update", "delete"}

Calm == {"idle", "archive", "openGet", "openRead"}

\* The points of a publication, of its prune, of a rename and of a deletion.
Editing == {"restoreFind", "restoreRead", "lock"} \cup LockPoints

Pruning == {"pruneRow", "pruneObject", "pruneCheck", "pruneCover"}

RenamePoints == {"updateGet", "updateRename", "updateCommit", "updateBack"}

DeletePoints == {"deleteGet", "deleteList", "deleteCommit", "deleteSweep"}

Duty(r) ==
  /\ req[r].op \notin Writing => req[r].pc \in Calm
  /\ req[r].pc \in RenamePoints => req[r].op = "update"
  /\ req[r].pc \in Editing => req[r].op \in Edits
  /\ req[r].pc = "undo" => req[r].op \in Edits \cup {"create"}
  /\ req[r].pc \in DeletePoints => req[r].op = "delete"
  /\ req[r].pc = "publishCover" => req[r].op = "cover"
  /\ req[r].pc \in Checked \cup {"undo"} /\ req[r].op = "cover" => req[r].entry.cover # 0
  /\ req[r].pc \in Pruning =>
       \A d, e \in req[r].items : d.revision = e.revision => d = e

OnDuty == \A r \in Requests : Duty(r)

LEMMA OthersStayOnDuty ==
  ASSUME RowsAgree, OnDuty, NEW r \in Requests, NEW next, Become(r, next), Duty(r)'
  PROVE  OnDuty'
<1>1. ASSUME NEW q \in Requests, q # r
      PROVE  Duty(q)'
  <2>1. req'[q] = req[q]
    BY <1>1 DEF Become, RowsAgree, TypeOK
  <2>2. QED
    BY <2>1 DEF OnDuty, Duty
<1>2. QED
  BY <1>1 DEF OnDuty

LEMMA CalmIsOnDuty ==
  ASSUME NEW r \in Requests, req'[r].pc \in Calm
  PROVE  Duty(r)'
<1>1. /\ Calm \cap RenamePoints = {} /\ Calm \cap Editing = {} /\ Calm \cap DeletePoints = {}
      /\ Calm \cap Checked = {} /\ Calm \cap Pruning = {} /\ "undo" \notin Calm
      /\ "publishCover" \notin Calm
  BY DEF Calm, RenamePoints, Editing, LockPoints, DeletePoints, Checked, Committed, Pruning
<1>2. QED
  BY <1>1 DEF Duty

LEMMA EndOnDuty ==
  ASSUME RowsAgree, OnDuty, NEW r \in Requests, Return(r)
  PROVE  OnDuty'
<1>1. req'[r] = Idle /\ Become(r, Idle)
  BY Becomes DEF Return
<1>2. req'[r].pc \in Calm
  BY <1>1 DEF Idle, Calm
<1>3. QED
  BY <1>1, <1>2, CalmIsOnDuty, OthersStayOnDuty

LEMMA GoesOnDuty ==
  ASSUME RowsAgree, OnDuty, NEW r \in Requests, NEW next, Become(r, next),
         next.op = req[r].op,
         next.pc \in Calm \/ req[r].pc \notin Calm,
         next.pc \in RenamePoints => req[r].pc \in RenamePoints,
         next.pc \in Editing => req[r].pc \in Editing,
         next.pc = "undo" => req[r].pc \in Editing \/ req[r].op = "create",
         next.pc \in DeletePoints => req[r].pc \in DeletePoints,
         next.pc = "publishCover" => req[r].op = "cover",
         next.pc \in Checked \cup {"undo"} /\ req[r].op = "cover" => next.entry.cover # 0,
         next.pc \in Pruning => \A d, e \in next.items : d.revision = e.revision => d = e
  PROVE  OnDuty'
<1>1. req'[r] = next
  BY Becomes
<1>2. Duty(r)
  BY DEF OnDuty
<1>3. Duty(r)'
  <2>1. CASE next.pc \in Calm
    BY <1>1, <2>1, CalmIsOnDuty
  <2>2. CASE next.pc \notin Calm
    BY <1>1, <1>2, <2>2 DEF Duty
  <2>3. QED
    BY <2>1, <2>2
<1>4. QED
  BY <1>3, OthersStayOnDuty

LEMMA GotoOnDuty ==
  ASSUME RowsAgree, OnDuty, NEW r \in Requests, NEW pc, Goto(r, pc),
         req[r].pc \notin Calm,
         pc \in RenamePoints => req[r].pc \in RenamePoints,
         pc \in Editing => req[r].pc \in Editing,
         pc = "undo" => req[r].pc \in Editing \/ req[r].op = "create",
         pc \in DeletePoints => req[r].pc \in DeletePoints,
         pc = "publishCover" => req[r].op = "cover",
         pc \in Checked \cup {"undo"} /\ req[r].op = "cover" => req[r].pc \in Checked,
         pc \in Pruning => req[r].pc \in Pruning
  PROVE  OnDuty'
<1> DEFINE next == [req[r] EXCEPT !.pc = pc]
<1>1. /\ next.pc = pc /\ next.op = req[r].op /\ next.entry = req[r].entry
      /\ next.items = req[r].items
  BY DEF RowsAgree, TypeOK, RequestType
<1>2. Become(r, next)
  BY DEF Goto
<1>3. Duty(r)
  BY DEF OnDuty
<1> HIDE DEF next
<1>4. QED
  BY <1>1, <1>2, <1>3, GoesOnDuty DEF Duty

LEMMA NextItemOnDuty ==
  ASSUME RowsAgree, OnDuty, NEW r \in Requests, NEW e, NextItem(r, e), req[r].pc \in Pruning
  PROVE  OnDuty'
<1> DEFINE next == [req[r] EXCEPT !.items = req[r].items \ {e}, !.pc = "pruneRow"]
<1>1. next.pc = "pruneRow" /\ next.op = req[r].op /\ next.items = req[r].items \ {e}
  BY DEF RowsAgree, TypeOK, RequestType
<1>2. Become(r, next)
  BY DEF NextItem
<1>3. \A c, d \in req[r].items : c.revision = d.revision => c = d
  BY DEF OnDuty, Duty
<1> HIDE DEF next
<1>4. QED
  BY <1>1, <1>2, <1>3, GoesOnDuty
     DEF Calm, RenamePoints, DeletePoints, Editing, LockPoints, Checked, Committed, Pruning

LEMMA AcceptOnDuty ==
  ASSUME RowsAgree, OnDuty, NEW r \in Requests, AcceptAny(r)
  PROVE  OnDuty'
<1>1. ASSUME NEW next, Become(r, next),
             \/ next.pc \in Calm
             \/ next.pc = "createSave" /\ next.op \in Writing
             \/ next.pc \in {"lock", "restoreFind"} /\ next.op \in Edits
             \/ next.pc = "updateGet" /\ next.op = "update"
             \/ next.pc = "deleteGet" /\ next.op = "delete"
      PROVE  OnDuty'
  <2>1. req'[r] = next
    BY <1>1, Becomes
  <2>2. CASE next.pc \in Calm
    BY <1>1, <2>1, <2>2, CalmIsOnDuty, OthersStayOnDuty
  <2>3. CASE next.pc \notin Calm
    <3>1. Duty(r)'
      BY <1>1, <2>1, <2>3
         DEF Duty, Writing, RenamePoints, DeletePoints, Editing, LockPoints, Checked, Committed,
             Pruning
    <3>2. QED
      BY <1>1, <3>1, OthersStayOnDuty
  <2>4. QED
    BY <2>2, <2>3
<1>2. CASE AcceptCreate(r)
  BY <1>1, <1>2 DEF AcceptCreate, Idle, Writing
<1>3. ASSUME NEW kind \in {"edit", "cover"}, AcceptEdit(r, kind)
      PROVE  OnDuty'
  BY <1>1, <1>3 DEF AcceptEdit, Idle, Edits
<1>4. CASE AcceptRestore(r)
  BY <1>1, <1>4 DEF AcceptRestore, Idle, Edits
<1>5. CASE AcceptUpdate(r)
  BY <1>1, <1>5 DEF AcceptUpdate, Idle
<1>6. CASE AcceptOther(r, "delete", "deleteGet")
  BY <1>1, <1>6 DEF AcceptOther, Idle
<1>7. CASE AcceptOther(r, "archive", "archive") \/ AcceptOther(r, "open", "openGet")
  BY <1>1, <1>7 DEF AcceptOther, Idle, Calm
<1>8. QED
  BY <1>2, <1>3, <1>4, <1>5, <1>6, <1>7 DEF AcceptAny

\* The points outside the sets above.
LEMMA DutyPoints ==
  /\ {"createSave", "createInsert", "undo"}
       \cap (Calm \cup RenamePoints \cup Editing \cup DeletePoints \cup Checked \cup Pruning) = {}
  /\ RenamePoints \cap (Calm \cup Editing \cup DeletePoints \cup Checked \cup Pruning) = {}
  /\ DeletePoints \cap (Calm \cup Editing \cup RenamePoints \cup Checked \cup Pruning) = {}
  /\ Editing \cap (Calm \cup RenamePoints \cup DeletePoints) = {}
  /\ "publishCover" \notin RenamePoints \cup DeletePoints
  /\ "undo" \notin RenamePoints \cup DeletePoints \cup Editing
  BY DEF Calm, RenamePoints, DeletePoints, Editing, LockPoints, Checked, Committed, Pruning

LEMMA CreateOnDuty ==
  ASSUME RowsAgree, OnDuty, NEW r \in Requests, CreateSave(r) \/ CreateInsert(r)
  PROVE  OnDuty'
<1>1. req[r].op = "create" /\ req[r].pc \notin Calm
  BY DEF CreateSave, CreateInsert, At, RowsAgree, Proper, UploadIsFirst, Calm
<1>2. CASE Return(r)
  BY <1>2, EndOnDuty
<1>3. CASE Goto(r, "undo")
  BY <1>1, <1>3, DutyPoints, GotoOnDuty
<1>4. CASE CreateSave(r)
  <2>1. ASSUME NEW entry, Become(r, [req[r] EXCEPT !.pc = "createInsert", !.entry = entry])
        PROVE  OnDuty'
    <3> DEFINE next == [req[r] EXCEPT !.pc = "createInsert", !.entry = entry]
    <3>1. next.pc = "createInsert" /\ next.op = req[r].op
      BY DEF RowsAgree, TypeOK, RequestType
    <3>2. Become(r, next)
      BY <2>1
    <3> HIDE DEF next
    <3>3. QED
      BY <1>1, <3>1, <3>2, DutyPoints, GoesOnDuty
  <2>2. QED
    BY <1>2, <1>4, <2>1 DEF CreateSave
<1>5. CASE CreateInsert(r)
  BY <1>2, <1>3, <1>5 DEF CreateInsert
<1>6. QED
  BY <1>4, <1>5

LEMMA RestoreOnDuty ==
  ASSUME RowsAgree, OnDuty, NEW r \in Requests, RestoreFind(r) \/ RestoreRead(r)
  PROVE  OnDuty'
<1>1. req[r].pc \in Editing /\ req[r].pc \notin Calm
  BY DEF RestoreFind, RestoreRead, At, Editing, Calm
<1>2. ASSUME NEW source, NEW pc \in {"restoreRead", "lock"},
             Become(r, [req[r] EXCEPT !.source = source, !.pc = pc])
      PROVE  OnDuty'
  <2> DEFINE next == [req[r] EXCEPT !.source = source, !.pc = pc]
  <2>1. next.pc = pc /\ next.op = req[r].op
    BY DEF RowsAgree, TypeOK, RequestType
  <2>2. Become(r, next)
    BY <1>2
  <2>3. pc \in Editing /\ pc \notin RenamePoints \cup DeletePoints \cup Checked \cup Pruning
        /\ pc # "undo" /\ pc # "publishCover"
    BY DEF Editing, RenamePoints, DeletePoints, Checked, Pruning
  <2> HIDE DEF next
  <2>4. QED
    BY <1>1, <2>1, <2>2, <2>3, GoesOnDuty
<1>3. CASE RestoreFind(r)
  BY <1>2, <1>3, EndOnDuty DEF RestoreFind
<1>4. CASE RestoreRead(r)
  <2>1. ASSUME NEW text, Become(r, [req[r] EXCEPT !.source.text = text, !.pc = "lock"])
        PROVE  OnDuty'
    <3> DEFINE source == [req[r].source EXCEPT !.text = text]
    <3>1. [req[r] EXCEPT !.source.text = text, !.pc = "lock"]
            = [req[r] EXCEPT !.source = source, !.pc = "lock"]
      OBVIOUS
    <3> HIDE DEF source
    <3>2. QED
      BY <1>2, <2>1, <3>1
  <2>2. QED
    BY <1>4, <2>1, EndOnDuty DEF RestoreRead
<1>5. QED
  BY <1>3, <1>4

LEMMA MutateOnDuty ==
  ASSUME RowsAgree, OnDuty, NEW r \in Requests, PublishMutate(r)
  PROVE  OnDuty'
<1>1. req[r].pc \in Editing /\ req[r].pc \notin Calm
  BY DEF PublishMutate, At, Editing, LockPoints, Calm
<1>2. ASSUME NEW revision, NEW text,
             Become(r, [req[r] EXCEPT
                          !.entry = [revision |-> revision, key |-> RevisionStorageKey(r),
                                     cover |-> EditedCover(r), text |-> text,
                                     original |-> FALSE],
                          !.pc = "publishSave"])
      PROVE  OnDuty'
  <2> DEFINE entry == [revision |-> revision, key |-> RevisionStorageKey(r),
                       cover |-> EditedCover(r), text |-> text, original |-> FALSE]
             next == [req[r] EXCEPT !.entry = entry, !.pc = "publishSave"]
  <2>1. next.pc = "publishSave" /\ next.op = req[r].op /\ next.entry.cover = EditedCover(r)
    BY DEF RowsAgree, TypeOK, RequestType
  <2>2. Become(r, next)
    BY <1>2
  <2>3. req[r].op = "cover" => EditedCover(r) # 0
    BY DEF EditedCover, RowsAgree, TypeOK
  <2> HIDE DEF next
  <2>4. "publishSave" \notin RenamePoints \cup DeletePoints \cup Pruning
    BY DEF RenamePoints, DeletePoints, Pruning
  <2>5. QED
    BY <1>1, <2>1, <2>2, <2>3, <2>4, GoesOnDuty
<1>3. QED
  BY <1>2, EndOnDuty DEF PublishMutate

LEMMA PublishOnDuty ==
  ASSUME RowsAgree, OnDuty, NEW r \in Requests, PublishLock(r) \/ Publish(r)
  PROVE  OnDuty'
<1>1. CASE Return(r)
  BY <1>1, EndOnDuty
<1>2. CASE PublishLock(r)
  BY <1>2, GotoOnDuty
     DEF PublishLock, At, Calm, RenamePoints, DeletePoints, Editing, Checked, Pruning
<1>3. CASE PublishGet(r)
  <2>1. ASSUME Become(r, [req[r] EXCEPT !.book = book, !.pc = "publishMutate"])
        PROVE  OnDuty'
    <3> DEFINE next == [req[r] EXCEPT !.book = book, !.pc = "publishMutate"]
    <3>1. next.pc = "publishMutate" /\ next.op = req[r].op
      BY DEF RowsAgree, TypeOK, RequestType
    <3>2. Become(r, next)
      BY <2>1
    <3> HIDE DEF next
    <3>3. QED
      BY <1>3, <3>1, <3>2, GoesOnDuty
         DEF PublishGet, At, Calm, RenamePoints, DeletePoints, Editing, LockPoints, Checked,
             Pruning
  <2>2. QED
    BY <1>1, <1>3, <2>1 DEF PublishGet
<1>4. CASE PublishSave(r)
  BY <1>1, <1>4, GotoOnDuty
     DEF PublishSave, At, Calm, RenamePoints, DeletePoints, Editing, LockPoints, Checked, Pruning
<1>5. CASE PublishCover(r)
  BY <1>5, GotoOnDuty
     DEF PublishCover, At, Calm, RenamePoints, DeletePoints, Editing, LockPoints, Checked, Pruning
<1>6. CASE PublishCommit(r)
  BY <1>6, DutyPoints, GotoOnDuty
     DEF PublishCommit, At, Calm, RenamePoints, DeletePoints, Editing, LockPoints, Checked,
         Committed, Pruning
<1>7. CASE Undo(r)
  BY <1>1, <1>7 DEF Undo
<1>8. CASE PublishReply(r)
  BY <1>1, <1>8, GotoOnDuty
     DEF PublishReply, At, Calm, RenamePoints, DeletePoints, Editing, LockPoints, Checked,
         Committed, Pruning
<1>9. QED
  BY <1>2, <1>3, <1>4, <1>5, <1>6, <1>7, <1>8, MutateOnDuty DEF Publish

LEMMA PruneOnDuty ==
  ASSUME RowsAgree, OnDuty, NEW r \in Requests, Prune(r)
  PROVE  OnDuty'
<1>1. CASE Return(r)
  BY <1>1, EndOnDuty
<1>2. CASE PruneSelect(r)
  <2>1. ASSUME NEW limit, NEW rows \in SUBSET Prunable(limit),
               Become(r, [req[r] EXCEPT !.items = rows, !.pc = "pruneRow"])
        PROVE  OnDuty'
    <3> DEFINE next == [req[r] EXCEPT !.items = rows, !.pc = "pruneRow"]
    <3>1. next.pc = "pruneRow" /\ next.op = req[r].op /\ next.items = rows
      BY DEF RowsAgree, TypeOK, RequestType
    <3>2. Become(r, next)
      BY <2>1
    <3>3. \A d, e \in rows : d.revision = e.revision => d = e
      BY DEF Prunable, RowsAgree, Ledger
    <3> HIDE DEF next
    <3>4. QED
      BY <1>2, <3>1, <3>2, <3>3, GoesOnDuty
         DEF PruneSelect, At, Calm, RenamePoints, DeletePoints, Editing, LockPoints, Checked,
             Committed
  <2>2. QED
    BY <1>2, <2>1 DEF PruneSelect
<1>3. CASE PruneRow(r) \/ PruneObject(r) \/ PruneCheck(r) \/ PruneCover(r)
  <2>1. req[r].pc \in Pruning /\ req[r].pc \in Editing /\ req[r].pc \notin Calm
    BY <1>3 DEF PruneRow, PruneObject, PruneCheck, PruneCover, At, Pruning, Editing, LockPoints,
                Committed, Calm
  <2>2. ASSUME NEW e, NextItem(r, e)
        PROVE  OnDuty'
    BY <2>1, <2>2, NextItemOnDuty
  <2>3. ASSUME NEW pc \in {"pruneObject", "pruneCheck", "pruneCover"}, Goto(r, pc)
        PROVE  OnDuty'
    <3>1. pc \notin RenamePoints \cup DeletePoints \cup Checked \cup {"publishCover", "undo"}
      BY DEF RenamePoints, DeletePoints, Checked
    <3>2. QED
      BY <2>1, <2>3, <3>1, GotoOnDuty
  <2>4. QED
    BY <1>1, <1>3, <2>2, <2>3 DEF PruneRow, PruneObject, PruneCheck, PruneCover
<1>4. QED
  BY <1>2, <1>3 DEF Prune

LEMMA UpdateOnDuty ==
  ASSUME RowsAgree, OnDuty, NEW r \in Requests,
         UpdateGet(r) \/ UpdateRename(r) \/ UpdateCommit(r) \/ UpdateBack(r)
  PROVE  OnDuty'
<1>1. CASE Return(r)
  BY <1>1, EndOnDuty
<1>2. req[r].pc \in RenamePoints /\ req[r].pc \notin Calm
  BY DEF UpdateGet, UpdateRename, UpdateCommit, UpdateBack, At, RenamePoints, Calm
<1>3. ASSUME NEW pc \in {"updateCommit", "updateBack"}, Goto(r, pc)
      PROVE  OnDuty'
  <2>1. pc \in RenamePoints /\ pc # "undo" /\ pc # "publishCover"
    BY DEF RenamePoints
  <2>2. QED
    BY <1>2, <1>3, <2>1, DutyPoints, GotoOnDuty
<1>4. ASSUME NEW key, NEW pc \in {"updateCommit", "updateRename"},
             Become(r, [req[r] EXCEPT !.book = book, !.entry.key = key, !.pc = pc])
      PROVE  OnDuty'
  <2> DEFINE next == [req[r] EXCEPT !.book = book, !.entry.key = key, !.pc = pc]
  <2>1. next.pc = pc /\ next.op = req[r].op
    BY DEF RowsAgree, TypeOK, RequestType
  <2>2. Become(r, next)
    BY <1>4
  <2>3. pc \in RenamePoints /\ pc # "undo" /\ pc # "publishCover"
    BY DEF RenamePoints
  <2> HIDE DEF next
  <2>4. QED
    BY <1>2, <2>1, <2>2, <2>3, DutyPoints, GoesOnDuty
<1>5. CASE UpdateGet(r)
  <2>1. ASSUME NEW key, Become(r, [req[r] EXCEPT
                                     !.book = book, !.entry.key = key,
                                     !.pc = IF key = book.key THEN "updateCommit"
                                                              ELSE "updateRename"])
        PROVE  OnDuty'
    BY <1>4, <2>1
  <2>2. QED
    BY <1>1, <1>5, <2>1 DEF UpdateGet
<1>6. QED
  BY <1>1, <1>3, <1>5 DEF UpdateRename, UpdateCommit, UpdateBack

LEMMA DeleteOnDuty ==
  ASSUME RowsAgree, OnDuty, NEW r \in Requests,
         DeleteGet(r) \/ DeleteList(r) \/ DeleteCommit(r) \/ DeleteSweep(r)
  PROVE  OnDuty'
<1>1. CASE Return(r)
  BY <1>1, EndOnDuty
<1>2. req[r].pc \in DeletePoints /\ req[r].pc \notin Calm
  BY DEF DeleteGet, DeleteList, DeleteCommit, DeleteSweep, At, DeletePoints, Calm
<1>3. ASSUME NEW next, Become(r, next), next.op = req[r].op, next.pc \in DeletePoints
      PROVE  OnDuty'
  <2>1. next.pc # "undo" /\ next.pc # "publishCover"
    BY <1>3 DEF DeletePoints
  <2>2. QED
    BY <1>2, <1>3, <2>1, DutyPoints, GoesOnDuty
<1>4. CASE DeleteGet(r)
  <2>1. ASSUME Become(r, [req[r] EXCEPT !.book = book, !.pc = "deleteList"])
        PROVE  OnDuty'
    BY <1>3, <2>1 DEF RowsAgree, TypeOK, RequestType, DeletePoints
  <2>2. QED
    BY <1>1, <1>4, <2>1 DEF DeleteGet
<1>5. CASE DeleteList(r)
  <2>1. ASSUME NEW rows, Become(r, [req[r] EXCEPT !.items = rows, !.pc = "deleteCommit"])
        PROVE  OnDuty'
    BY <1>3, <2>1 DEF RowsAgree, TypeOK, RequestType, DeletePoints
  <2>2. QED
    BY <1>1, <1>5, <2>1 DEF DeleteList
<1>6. CASE DeleteCommit(r)
  <2>1. ASSUME Goto(r, "deleteSweep")
        PROVE  OnDuty'
    BY <1>3, <2>1 DEF Goto, RowsAgree, TypeOK, RequestType, DeletePoints
  <2>2. QED
    BY <1>1, <1>6, <2>1 DEF DeleteCommit
<1>7. CASE DeleteSweep(r)
  <2>1. ASSUME NEW rows, Become(r, [req[r] EXCEPT !.items = rows])
        PROVE  OnDuty'
    BY <1>2, <1>3, <2>1 DEF RowsAgree, TypeOK, RequestType
  <2>2. QED
    BY <1>1, <1>7, <2>1 DEF DeleteSweep
<1>8. QED
  BY <1>4, <1>5, <1>6, <1>7

LEMMA OpenOnDuty ==
  ASSUME RowsAgree, OnDuty, NEW r \in Requests, Archive(r) \/ OpenGet(r) \/ OpenRead(r)
  PROVE  OnDuty'
<1>1. CASE Return(r)
  BY <1>1, EndOnDuty
<1>2. ASSUME Become(r, [req[r] EXCEPT !.book = book, !.pc = "openRead"])
      PROVE  OnDuty'
  <2> DEFINE next == [req[r] EXCEPT !.book = book, !.pc = "openRead"]
  <2>1. next.pc = "openRead"
    BY DEF RowsAgree, TypeOK, RequestType
  <2>2. Become(r, next)
    BY <1>2
  <2> HIDE DEF next
  <2>3. req'[r].pc \in Calm
    BY <2>1, <2>2, Becomes DEF Calm
  <2>4. QED
    BY <2>2, <2>3, CalmIsOnDuty, OthersStayOnDuty
<1>3. QED
  BY <1>1, <1>2 DEF Archive, OpenGet, OpenRead

LEMMA DutyStep ==
  ASSUME RowsAgree, OnDuty, [Next]_vars
  PROVE  OnDuty'
<1>1. CASE UNCHANGED vars
  BY <1>1 DEF vars, OnDuty, Duty
<1>2. CASE Crash
  <2>1. \A q \in Requests : req'[q].pc \in Calm
    BY <1>2 DEF Crash, Idle, Calm
  <2>2. QED
    BY <2>1, CalmIsOnDuty DEF OnDuty
<1>3. ASSUME NEW r \in Requests, AcceptAny(r) \/ PublishLock(r) \/ Step(r)
      PROVE  OnDuty'
  BY <1>3, AcceptOnDuty, CreateOnDuty, RestoreOnDuty, PublishOnDuty, PruneOnDuty, UpdateOnDuty,
     DeleteOnDuty, OpenOnDuty DEF Step
<1>4. QED
  BY <1>1, <1>2, <1>3 DEF Next

LEMMA DutyIsKept == Spec => []OnDuty
<1>1. Init => OnDuty
  <2>1. SUFFICES ASSUME Init, NEW r \in Requests
                 PROVE  Duty(r)
    BY DEF OnDuty
  <2>2. req[r].pc = "idle" /\ "idle" \in Calm
    BY <2>1 DEF Init, Idle, Calm
  <2>3. QED
    BY <2>2 DEF Duty, RenamePoints, Editing, LockPoints, DeletePoints, Checked, Committed,
                Pruning
<1>2. QED
  BY <1>1, DutyStep, RowsAlwaysAgree, PTL DEF Spec
=============================================================================
