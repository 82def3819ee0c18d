---------------------------- MODULE HistoryProofs ----------------------------
(***************************************************************************)
(* What pruning leaves of the history of a book, for every retention and   *)
(* any number of requests, failures and crashes: never less than was       *)
(* promised, and never more than failed or died prunes explain.  The       *)
(* second part is about the previews of the revisions it leaves, the third *)
(* about the files of those it takes away and all other files without row. *)
(*                                                                         *)
(* Rows are counted by their revisions.  A rename gives a row another key, *)
(* and then it is another element of the set of rows; its revision stays.  *)
(***************************************************************************)
EXTENDS LibraryProofs, Induction

NumbersOf(rows) == {e.revision : e \in rows}

Edited == {e \in revisions : ~e.original}

EditedNumbers == NumbersOf(Edited)

\* What HistoryIsBounded allows a live book.
Allowance == Retention + faults + crashes

(***************************************************************************)
(* The inductive invariant.                                                *)
(***************************************************************************)

\* Whatever a prune still has to take away is older than as many edited
\* revisions as it is owed, and those are left.
Spares(r) ==
  req[r].pc \in Pruning /\ Exists /\ req[r].items # {} =>
    \E kept \in SUBSET EditedNumbers :
      /\ Cardinality(kept) >= Owed
      /\ \A n \in kept, e \in req[r].items : n > e.revision

\* Without what it still has to take away the history is short enough.
KeepsUp(r) ==
  req[r].pc \in Pruning /\ Live =>
    Cardinality(EditedNumbers \ NumbersOf(req[r].items)) <= Allowance

\* The files of a row go after the row.
RowIsGone(r) ==
  req[r].pc \in Pruning \ {"pruneRow"} /\ Exists =>
    \A e \in req[r].items : IsNext(r, e) => e.revision \notin EditedNumbers

History(r) == Spares(r) /\ KeepsUp(r) /\ RowIsGone(r)

Publishing == \E r \in Requests : req[r].pc \in Committed

\* A publication that has committed and not unlocked accounts for one revision.
Size ==
  Live => /\ Cardinality(EditedNumbers) <= Allowance + 1
          /\ ~Publishing => Cardinality(EditedNumbers) <= Allowance

HistoryInv == Size /\ \A r \in Requests : History(r)

(***************************************************************************)
(* Counting.                                                               *)
(***************************************************************************)

\* Rows of different revisions are as many as their revisions.
LEMMA RowsAreNumbers ==
  ASSUME NEW rows, IsFiniteSet(NumbersOf(rows)),
         \A d, e \in rows : d.revision = e.revision => d = e
  PROVE  IsFiniteSet(rows) /\ Cardinality(rows) = Cardinality(NumbersOf(rows))
<1> PICK f : f = [e \in rows |-> e.revision]
  OBVIOUS
<1>1. f \in Injection(rows, NumbersOf(rows))
  BY DEF Injection, IsInjective, NumbersOf
<1>2. f \in Surjection(rows, NumbersOf(rows))
  BY DEF Surjection, NumbersOf
<1>3. QED
  BY <1>1, <1>2, FS_Injection

LEMMA NumbersAreFinite ==
  ASSUME RowsAgree
  PROVE  /\ EditedNumbers \in SUBSET Nat /\ IsFiniteSet(EditedNumbers)
         /\ Exists => \A n \in EditedNumbers : n <= book.revision
         /\ ~Exists => EditedNumbers = {}
<1>1. \A e \in revisions : e.revision \in Nat
  BY DEF RowsAgree, TypeOK, Entry
<1>2. EditedNumbers \in SUBSET Nat
  BY <1>1 DEF EditedNumbers, NumbersOf, Edited
<1>3. ~Exists => EditedNumbers = {}
  BY DEF RowsAgree, Ledger, EditedNumbers, NumbersOf, Edited
<1>4. Exists => \A n \in EditedNumbers : n <= book.revision
  BY DEF RowsAgree, Ledger, EditedNumbers, NumbersOf, Edited
<1>5. book.revision \in Nat
  BY DEF RowsAgree, TypeOK, BookRow
<1>6. IsFiniteSet(EditedNumbers)
  BY <1>2, <1>3, <1>4, <1>5, FS_BoundedSetOfNaturals, FS_EmptySet
<1>7. QED
  BY <1>2, <1>3, <1>4, <1>6

LEMMA SomeAreFinite ==
  ASSUME RowsAgree, NEW S \in SUBSET EditedNumbers
  PROVE  /\ IsFiniteSet(S) /\ Cardinality(S) \in Nat
         /\ Cardinality(S) <= Cardinality(EditedNumbers)
  BY NumbersAreFinite, FS_Subset, FS_CardinalityType

LEMMA Smaller ==
  ASSUME RowsAgree, NEW T \in SUBSET EditedNumbers, NEW S \in SUBSET T
  PROVE  /\ Cardinality(S) \in Nat /\ Cardinality(T) \in Nat
         /\ Cardinality(S) <= Cardinality(T)
  BY SomeAreFinite, FS_Subset, FS_CardinalityType

\* The edited rows of some revisions are as many as those revisions.
LEMMA RowsOfNumbers ==
  ASSUME RowsAgree, NEW rows \in SUBSET Edited
  PROVE  /\ IsFiniteSet(rows) /\ Cardinality(rows) = Cardinality(NumbersOf(rows))
         /\ NumbersOf(rows) \in SUBSET EditedNumbers
<1>1. NumbersOf(rows) \in SUBSET EditedNumbers
  BY DEF NumbersOf, EditedNumbers
<1>2. \A d, e \in rows : d.revision = e.revision => d = e
  <2>1. CASE Exists
    BY <2>1 DEF RowsAgree, Ledger, Edited
  <2>2. CASE ~Exists
    BY <2>2 DEF RowsAgree, Ledger, Edited
  <2>3. QED
    BY <2>1, <2>2
<1>3. IsFiniteSet(NumbersOf(rows))
  BY <1>1, SomeAreFinite
<1>4. QED
  BY <1>1, <1>2, <1>3, RowsAreNumbers

(***************************************************************************)
(* The choice of what to prune.                                            *)
(***************************************************************************)
LEMMA PrunableRows ==
  ASSUME NEW limit
  PROVE  /\ Prunable(limit) \in SUBSET Edited
         /\ \A e \in Edited :
              e \in Prunable(limit) <=> Cardinality(Newer(Edited, e)) >= limit
  BY DEF Prunable, Edited

LEMMA OwedBounds ==
  /\ Floor \in Nat /\ Floor >= 1 /\ Owed \in Nat /\ Owed' \in Nat
  /\ Owed >= Floor /\ Owed' >= Floor /\ Owed' <= Retention
  /\ Retention \in Nat /\ DefaultRetention \in Nat
  /\ Retention >= Floor /\ DefaultRetention >= Floor
  BY RetentionAssumption DEF Owed, Floor

LEMMA NewerRows ==
  ASSUME NEW e
  PROVE  /\ Newer(Edited, e) \in SUBSET Edited
         /\ \A d \in Edited : d \in Newer(Edited, e) <=> d.revision > e.revision
  BY DEF Newer

\* At least limit revisions, all newer than the rows.
Outlive(kept, limit, rows) ==
  Cardinality(kept) >= limit /\ \A n \in kept, e \in rows : n > e.revision

\* Rows chosen of it are older than as many edited revisions as the limit says:
\* those newer than the newest of them.
LEMMA PrunableIsOld ==
  ASSUME RowsAgree, NEW limit, NEW rows \in SUBSET Prunable(limit), rows # {}
  PROVE  \E kept \in SUBSET EditedNumbers : Outlive(kept, limit, rows)
<1>0. rows \in SUBSET Edited
  BY PrunableRows
<1>1. \A e \in Edited : e.revision \in EditedNumbers /\ e.revision \in Nat
  BY NumbersAreFinite DEF EditedNumbers, NumbersOf
<1>2. PICK last \in Nat : \A n \in EditedNumbers : n <= last
  <2>1. CASE Exists
    BY <2>1, NumbersAreFinite DEF RowsAgree, TypeOK, BookRow
  <2>2. CASE ~Exists
    BY <2>2, NumbersAreFinite
  <2>3. QED
    BY <2>1, <2>2
<1> DEFINE T == {last - e.revision : e \in rows}
<1>3. T \in SUBSET Nat /\ T # {}
  BY <1>0, <1>1, <1>2
<1>4. PICK x \in T : \A y \in T : x <= y
  <2> HIDE DEF T
  <2>1. QED
    BY <1>3, LeastElement
<1>5. PICK c \in rows : x = last - c.revision
  BY <1>4
<1>6. ASSUME NEW e \in rows
      PROVE  e.revision <= c.revision
  <2>1. x <= last - e.revision
    BY <1>4
  <2>2. e.revision \in Nat /\ c.revision \in Nat
    BY <1>0, <1>1
  <2>3. QED
    BY <1>5, <2>1, <2>2
<1> DEFINE kept == NumbersOf(Newer(Edited, c))
<1>7. kept \in SUBSET EditedNumbers /\ Cardinality(kept) >= limit
  BY <1>0, RowsOfNumbers, NewerRows, PrunableRows
<1>8. \A n \in kept : n > c.revision
  BY <1>0, NewerRows DEF NumbersOf
<1>9. ASSUME NEW n \in kept, NEW e \in rows
      PROVE  n > e.revision
  <2>1. n > c.revision /\ e.revision <= c.revision
    BY <1>6, <1>8
  <2>2. n \in Nat /\ c.revision \in Nat /\ e.revision \in Nat
    BY <1>0, <1>1, <1>7, NumbersAreFinite
  <2>3. QED
    BY <2>1, <2>2
<1>10. QED
  BY <1>7, <1>9 DEF Outlive

\* At most Retention edited revisions are left: the oldest of them has fewer
\* than Retention newer ones.
LEMMA FewAreLeft ==
  ASSUME RowsAgree
  PROVE  Cardinality(EditedNumbers \ NumbersOf(Prunable(Retention))) <= Retention
<1> DEFINE left == EditedNumbers \ NumbersOf(Prunable(Retention))
<1>1. left \in SUBSET EditedNumbers /\ left \in SUBSET Nat
  BY NumbersAreFinite
<1>2. CASE left = {}
  BY <1>2, FS_EmptySet, RetentionAssumption
<1>3. CASE left # {}
  <2>1. PICK m \in left : \A n \in left : m <= n
    <3> HIDE DEF left
    <3>1. QED
      BY <1>1, <1>3, LeastElement
  <2>2. PICK e \in Edited : e.revision = m
    BY DEF EditedNumbers, NumbersOf
  <2>3. e \notin Prunable(Retention)
    BY <2>2 DEF NumbersOf
  <2> DEFINE newer == NumbersOf(Newer(Edited, e))
  <2>4. newer \in SUBSET EditedNumbers /\ ~(Cardinality(newer) >= Retention)
    BY <2>2, <2>3, RowsOfNumbers, NewerRows, PrunableRows
  <2>5. left \ {m} \in SUBSET newer
    <3>1. SUFFICES ASSUME NEW n \in left \ {m}
                   PROVE  n \in newer
      OBVIOUS
    <3>2. n > m
      BY <1>1, <2>1
    <3>3. PICK d \in Edited : d.revision = n
      BY DEF EditedNumbers, NumbersOf
    <3>4. d \in Newer(Edited, e)
      BY <2>2, <3>2, <3>3, NewerRows
    <3>5. QED
      BY <3>3, <3>4 DEF NumbersOf
  <2> HIDE DEF newer
  <2>6. Cardinality(left \ {m}) \in Nat /\ Cardinality(newer) \in Nat
        /\ Cardinality(left \ {m}) <= Cardinality(newer)
    BY <2>4, <2>5, Smaller
  <2>7. IsFiniteSet(left) /\ Cardinality(left) \in Nat
    BY <1>1, SomeAreFinite
  <2>8. Cardinality(left \ {m}) = Cardinality(left) - 1
    BY <2>7, FS_RemoveElement
  <2>9. QED
    BY <2>4, <2>6, <2>7, <2>8, RetentionAssumption
<1>4. QED
  BY <1>2, <1>3

(***************************************************************************)
(* What a step does to the history.                                        *)
(***************************************************************************)

\* The rows keep their revisions, and no book comes back.
RowsStay ==
  /\ EditedNumbers' = EditedNumbers
  /\ Live' => Live
  /\ Exists' => Exists

Grows == Allowance' \in Nat /\ Allowance' >= Allowance /\ Owed' <= Owed

LEMMA AllowanceType ==
  ASSUME RowsAgree
  PROVE  Allowance \in Nat
  BY RetentionAssumption DEF RowsAgree, TypeOK, Allowance

LEMMA AllowanceGrows ==
  ASSUME RowsAgree
  PROVE  /\ NoFault \/ Lapse => Grows /\ Allowance' = Allowance
         /\ Fault => Grows /\ Allowance' = Allowance + 1 /\ Owed' = Floor
<1>1. faults \in Nat /\ Retention \in Nat /\ crashes \in Nat
  BY RetentionAssumption DEF RowsAgree, TypeOK
<1>2. NoFault \/ Lapse => Owed' <= Owed
  BY OwedBounds DEF NoFault, Lapse, budgets, Owed
<1>3. Fault => Owed' = Floor
  BY <1>1 DEF Fault, Owed
<1>4. /\ NoFault \/ Lapse => Allowance' = Allowance
      /\ Fault => Allowance' = Allowance + 1
  BY <1>1 DEF NoFault, Fault, Lapse, budgets, Allowance
<1>5. Allowance \in Nat
  BY <1>1 DEF Allowance
<1>6. QED
  BY <1>2, <1>3, <1>4, <1>5, OwedBounds DEF Grows

LEMMA SameRows ==
  ASSUME UNCHANGED db
  PROVE  RowsStay
  BY DEF db, RowsStay, EditedNumbers, NumbersOf, Edited, Live, Exists

\* Only the holder of publishMu prunes, so what it claims of the rows can be
\* disturbed by others only where they change revisions.
LEMMA OthersKeepHistory ==
  ASSUME RowsAgree, NEW r \in Requests, Own(r), NEW q \in Requests, q # r, History(q),
         Grows, RowsStay \/ mutex = r
  PROVE  History(q)'
<1>1. req'[q] = req[q] /\ (req[q].pc \in LockPoints => mutex = q)
  BY OthersAreUntouched
<1>2. CASE req[q].pc \notin Pruning
  BY <1>1, <1>2 DEF History, Spares, KeepsUp, RowIsGone, Pruning
<1>3. CASE req[q].pc \in Pruning
  <2>1. RowsStay
    BY <1>1, <1>3 DEF Pruning, LockPoints, Committed
  <2>2. Spares(q)'
    <3>1. SUFFICES ASSUME Exists, req[q].items # {}
                   PROVE  \E kept \in SUBSET EditedNumbers :
                            /\ Cardinality(kept) >= Owed'
                            /\ \A n \in kept, e \in req[q].items : n > e.revision
      BY <1>1, <2>1 DEF Spares, RowsStay
    <3>2. PICK kept \in SUBSET EditedNumbers :
            /\ Cardinality(kept) >= Owed
            /\ \A n \in kept, e \in req[q].items : n > e.revision
      BY <1>3, <3>1 DEF History, Spares
    <3>3. Cardinality(kept) \in Nat
      BY SomeAreFinite
    <3>4. QED
      BY <3>2, <3>3, OwedBounds DEF Grows
  <2>3. RowIsGone(q)'
    BY <1>1, <2>1 DEF History, RowIsGone, RowsStay, IsNext
  <2>4. KeepsUp(q)'
    <3>1. SUFFICES ASSUME Live'
                   PROVE  Cardinality(EditedNumbers \ NumbersOf(req[q].items)) <= Allowance'
      BY <1>1, <2>1 DEF KeepsUp, RowsStay
    <3>2. Cardinality(EditedNumbers \ NumbersOf(req[q].items)) <= Allowance
      BY <1>3, <2>1, <3>1 DEF History, KeepsUp, RowsStay
    <3>3. Cardinality(EditedNumbers \ NumbersOf(req[q].items)) \in Nat
      BY SomeAreFinite
    <3>4. QED
      BY <3>2, <3>3, AllowanceType DEF Grows
  <2>5. QED
    BY <2>2, <2>3, <2>4 DEF History
<1>4. QED
  BY <1>2, <1>3

\* A request that is not pruning has nothing to claim.
LEMMA NotPruning ==
  ASSUME NEW r \in Requests, req'[r].pc \notin Pruning
  PROVE  History(r)'
  BY DEF History, Spares, KeepsUp, RowIsGone, Pruning

LEMMA SizeStays ==
  ASSUME RowsAgree, Size, RowsStay, Grows,
         Live' /\ Publishing => Publishing'
  PROVE  Size'
<1>1. SUFFICES ASSUME Live'
               PROVE  /\ Cardinality(EditedNumbers) <= Allowance' + 1
                      /\ ~Publishing' => Cardinality(EditedNumbers) <= Allowance'
  BY DEF Size, RowsStay
<1>2. Cardinality(EditedNumbers) \in Nat /\ Allowance \in Nat
  BY SomeAreFinite, AllowanceType
<1>3. QED
  BY <1>1, <1>2 DEF Size, RowsStay, Grows

\* Whoever publishes goes on, except the request that takes the step.
LEMMA OthersPublish ==
  ASSUME RowsAgree, NEW r \in Requests, Own(r),
         req[r].pc \in Committed => req'[r].pc \in Committed
  PROVE  Publishing => Publishing'
  BY OthersAreUntouched DEF Publishing

\* A step outside the prune.
LEMMA BesidePruning ==
  ASSUME RowsAgree, HistoryInv, NEW r \in Requests, Own(r), RowsStay, Grows,
         req[r].pc \notin Committed, req'[r].pc \notin Committed
  PROVE  HistoryInv'
<1>1. Size'
  BY OthersPublish, SizeStays DEF HistoryInv
<1>2. History(r)'
  BY NotPruning DEF Pruning, Committed
<1>3. QED
  BY <1>1, <1>2, OthersKeepHistory DEF HistoryInv

\* A publication ends, at the end of its prune or before.
LEMMA EndsPublication ==
  ASSUME RowsAgree, HistoryInv, NEW r \in Requests, Return(r), RowsStay, Grows,
         Live => Cardinality(EditedNumbers) <= Allowance'
  PROVE  HistoryInv'
<1>1. req'[r] = Idle /\ Own(r)
  BY Becomes DEF Return, Own
<1>2. Size'
  <2>1. SUFFICES ASSUME Live'
                 PROVE  Cardinality(EditedNumbers) <= Allowance'
    <3>1. Cardinality(EditedNumbers) \in Nat
      BY SomeAreFinite
    <3>2. QED
      BY <2>1, <3>1 DEF Size, RowsStay, Grows
  <2>2. QED
    BY <2>1 DEF RowsStay
<1>3. History(r)'
  BY <1>1, NotPruning DEF Pruning, Idle
<1>4. QED
  BY <1>1, <1>2, <1>3, OthersKeepHistory DEF HistoryInv

\* A publication goes on.
LEMMA InsidePublication ==
  ASSUME RowsAgree, HistoryInv, NEW r \in Requests, Own(r), RowsStay, Grows,
         req'[r].pc \in Committed, History(r)'
  PROVE  HistoryInv'
<1>1. Size'
  BY OthersPublish, SizeStays DEF HistoryInv
<1>2. QED
  BY <1>1, OthersKeepHistory DEF HistoryInv

LEMMA WithoutBook ==
  ASSUME ~Exists'
  PROVE  HistoryInv'
<1>1. ~Live'
  BY DEF Live, Exists
<1>2. QED
  BY <1>1 DEF HistoryInv, Size, History, Spares, KeepsUp, RowIsGone

(***************************************************************************)
(* The steps outside the prune.                                            *)
(***************************************************************************)
Elsewhere(r) ==
  \/ Return(r)
  \/ \E next : /\ Become(r, next)
               /\ next.pc \notin Committed
               /\ mutex' = mutex \/ mutex = NoRequest

LEMMA OutsideHistory ==
  ASSUME RowsAgree, HistoryInv, NEW r \in Requests, Elsewhere(r), RowsStay,
         NoFault \/ Fault \/ Lapse, req[r].pc \notin Committed
  PROVE  HistoryInv'
<1>1. Grows
  BY AllowanceGrows
<1>2. CASE Return(r)
  <2>1. Own(r) /\ req'[r].pc \notin Committed
    BY <1>2, Becomes DEF Return, Own, Idle, Committed
  <2>2. QED
    BY <1>1, <2>1, BesidePruning
<1>3. ASSUME NEW next, Become(r, next), next.pc \notin Committed,
             mutex' = mutex \/ mutex = NoRequest
      PROVE  HistoryInv'
  <2>1. Own(r) /\ req'[r].pc \notin Committed
    BY <1>3, Becomes DEF Own
  <2>2. QED
    BY <1>1, <2>1, BesidePruning
<1>4. QED
  BY <1>2, <1>3 DEF Elsewhere

LEMMA GoesElsewhere ==
  ASSUME RowsAgree, NEW r \in Requests, NEW pc, pc \notin Committed, Goto(r, pc),
         mutex' = mutex \/ mutex = NoRequest
  PROVE  Elsewhere(r)
<1>1. [req[r] EXCEPT !.pc = pc].pc = pc
  BY DEF RowsAgree, TypeOK, RequestType
<1>2. QED
  BY <1>1 DEF Goto, Elsewhere

LEMMA AcceptHistory ==
  ASSUME RowsAgree, HistoryInv, NEW r \in Requests, AcceptAny(r)
  PROVE  HistoryInv'
<1>1. PICK op : Accept(r, op)
  BY DEF AcceptAny, AcceptCreate, AcceptEdit, AcceptRestore, AcceptUpdate, AcceptOther
<1>2. Grows
  BY <1>1, AllowanceType, OwedBounds DEF Accept, Allowance, Owed, Grows
<1>3. RowsStay /\ mutex' = mutex /\ req[r].pc = "idle"
  BY <1>1, SameRows DEF Accept, At
<1>4. ASSUME NEW next, Become(r, next), next.pc \notin Committed
      PROVE  HistoryInv'
  <2>1. Own(r) /\ req'[r].pc \notin Committed /\ req[r].pc \notin Committed
    BY <1>3, <1>4, Becomes DEF Own, Committed
  <2>2. QED
    BY <1>2, <1>3, <2>1, BesidePruning
<1>5. CASE AcceptCreate(r)
  BY <1>4, <1>5 DEF AcceptCreate, Idle, Committed
<1>6. CASE AcceptEdit(r, "edit") \/ AcceptEdit(r, "cover")
  BY <1>4, <1>6 DEF AcceptEdit, Idle, Committed
<1>7. CASE AcceptRestore(r)
  BY <1>4, <1>7 DEF AcceptRestore, Idle, Committed
<1>8. CASE AcceptUpdate(r)
  BY <1>4, <1>8 DEF AcceptUpdate, Idle, Committed
<1>9. CASE \/ AcceptOther(r, "delete", "deleteGet") \/ AcceptOther(r, "archive", "archive")
           \/ AcceptOther(r, "open", "openGet")
  BY <1>4, <1>9 DEF AcceptOther, Idle, Committed
<1>10. QED
  BY <1>5, <1>6, <1>7, <1>8, <1>9 DEF AcceptAny

LEMMA CreateSaveHistory ==
  ASSUME RowsAgree, HistoryInv, NEW r \in Requests, CreateSave(r)
  PROVE  HistoryInv'
<1>1. \A entry : [req[r] EXCEPT !.pc = "createInsert", !.entry = entry].pc = "createInsert"
  BY DEF RowsAgree, TypeOK, RequestType
<1>2. Elsewhere(r)
  BY <1>1 DEF CreateSave, Elsewhere, Committed
<1>3. QED
  BY <1>2, SameRows, OutsideHistory DEF CreateSave, At, Committed

LEMMA RestoreHistory ==
  ASSUME RowsAgree, HistoryInv, NEW r \in Requests, RestoreFind(r) \/ RestoreRead(r)
  PROVE  HistoryInv'
<1>1. /\ \A e : [req[r] EXCEPT !.source = e, !.pc = "restoreRead"].pc = "restoreRead"
      /\ \A o : [req[r] EXCEPT !.source.text = o.text, !.pc = "lock"].pc = "lock"
  BY DEF RowsAgree, TypeOK, RequestType
<1>2. Elsewhere(r)
  BY <1>1 DEF RestoreFind, RestoreRead, Elsewhere, Committed
<1>3. QED
  BY <1>2, SameRows, OutsideHistory DEF RestoreFind, RestoreRead, At, Committed

LEMMA PublishHistory ==
  ASSUME RowsAgree, HistoryInv, NEW r \in Requests,
         \/ PublishLock(r) \/ PublishGet(r) \/ PublishMutate(r) \/ PublishSave(r)
         \/ PublishCover(r) \/ Undo(r)
  PROVE  HistoryInv'
<1>1. UNCHANGED db /\ req[r].pc \notin Committed /\ (NoFault \/ Fault \/ Lapse)
  BY DEF PublishLock, PublishGet, PublishMutate, PublishSave, PublishCover, Undo, At, Committed
<1>2. /\ \A row : [req[r] EXCEPT !.book = row, !.pc = "publishMutate"].pc = "publishMutate"
      /\ \A entry : [req[r] EXCEPT !.entry = entry, !.pc = "publishSave"].pc = "publishSave"
  BY DEF RowsAgree, TypeOK, RequestType
<1>3. Elsewhere(r)
  <2>1. CASE PublishLock(r)
    BY <2>1, GoesElsewhere DEF PublishLock, Unlocked, Committed
  <2>2. CASE PublishGet(r)
    BY <1>2, <2>2 DEF PublishGet, Elsewhere, Committed
  <2>3. CASE PublishMutate(r)
    BY <1>2, <2>3 DEF PublishMutate, Elsewhere, Committed
  <2>4. CASE PublishSave(r)
    BY <2>4, GoesElsewhere DEF PublishSave, Elsewhere, Committed
  <2>5. CASE PublishCover(r)
    BY <2>5, GoesElsewhere DEF PublishCover, Elsewhere, Committed
  <2>6. CASE Undo(r)
    BY <2>6 DEF Undo, Elsewhere
  <2>7. QED
    BY <2>1, <2>2, <2>3, <2>4, <2>5, <2>6
<1>4. QED
  BY <1>1, <1>3, SameRows, OutsideHistory

LEMMA UpdateHistory ==
  ASSUME RowsAgree, HistoryInv, NEW r \in Requests,
         UpdateGet(r) \/ UpdateRename(r) \/ UpdateCommit(r) \/ UpdateBack(r)
  PROVE  HistoryInv'
<1>1. req[r].pc \notin Committed /\ (NoFault \/ Fault \/ Lapse)
  BY DEF UpdateGet, UpdateRename, UpdateCommit, UpdateBack, At, Committed
<1>2. CASE UpdateGet(r)
  <2>1. \A key, pc : [req[r] EXCEPT !.book = book, !.entry.key = key, !.pc = pc].pc = pc
    BY DEF RowsAgree, TypeOK, RequestType
  <2>2. Elsewhere(r)
    BY <1>2, <2>1 DEF UpdateGet, Elsewhere, Committed
  <2>3. QED
    BY <1>1, <1>2, <2>2, SameRows, OutsideHistory DEF UpdateGet
<1>3. CASE UpdateRename(r)
  BY <1>1, <1>3, SameRows, OutsideHistory, GoesElsewhere
     DEF UpdateRename, Elsewhere, Committed
<1>4. CASE UpdateBack(r)
  BY <1>1, <1>4, SameRows, OutsideHistory DEF UpdateBack, Elsewhere
<1>5. CASE UpdateCommit(r)
  <2>1. Elsewhere(r)
    BY <1>5, GoesElsewhere DEF UpdateCommit, Elsewhere, Committed
  <2>2. RowsStay
    <3>1. CASE UNCHANGED db
      BY <3>1, SameRows
    <3>2. ASSUME book' = IF Live THEN [book EXCEPT !.key = req[r].entry.key] ELSE book,
                 revisions' = Rekeyed(r)
          PROVE  RowsStay
      <4>1. book'.state = book.state
        BY <3>2 DEF RowsAgree, TypeOK, BookRow
      <4> DEFINE moved(e) == IF Moved(r) /\ e.revision = req[r].book.revision
                               THEN [e EXCEPT !.key = req[r].entry.key] ELSE e
      <4>2. revisions' = {moved(e) : e \in revisions}
        BY <3>2 DEF Rekeyed
      <4>3. \A e \in revisions : moved(e).revision = e.revision /\ moved(e).original = e.original
        BY DEF RowsAgree, TypeOK, Entry
      <4> HIDE DEF moved
      <4>4. EditedNumbers' = EditedNumbers
        BY <4>2, <4>3 DEF EditedNumbers, NumbersOf, Edited
      <4>5. QED
        BY <4>1, <4>4 DEF RowsStay, Live, Exists
    <3>3. QED
      BY <1>5, <3>1, <3>2 DEF UpdateCommit
  <2>3. QED
    BY <1>1, <2>1, <2>2, OutsideHistory
<1>6. QED
  BY <1>2, <1>3, <1>4, <1>5

LEMMA DeleteHistory ==
  ASSUME RowsAgree, HistoryInv, NEW r \in Requests,
         DeleteGet(r) \/ DeleteList(r) \/ DeleteSweep(r)
  PROVE  HistoryInv'
<1>1. UNCHANGED db /\ req[r].pc \notin Committed /\ (NoFault \/ Fault \/ Lapse)
  BY DEF DeleteGet, DeleteList, DeleteSweep, At, Committed
<1>2. /\ [req[r] EXCEPT !.book = book, !.pc = "deleteList"].pc = "deleteList"
      /\ \A items : [req[r] EXCEPT !.items = items, !.pc = "deleteCommit"].pc = "deleteCommit"
      /\ \A items : [req[r] EXCEPT !.items = items].pc = req[r].pc
  BY DEF RowsAgree, TypeOK, RequestType
<1>3. Elsewhere(r)
  <2>1. CASE DeleteGet(r)
    BY <1>2, <2>1 DEF DeleteGet, Elsewhere, Committed
  <2>2. CASE DeleteList(r)
    BY <1>2, <2>2 DEF DeleteList, Elsewhere, Committed
  <2>3. CASE DeleteSweep(r)
    BY <1>1, <1>2, <2>3 DEF DeleteSweep, Elsewhere
  <2>4. QED
    BY <2>1, <2>2, <2>3
<1>4. QED
  BY <1>1, <1>3, SameRows, OutsideHistory

LEMMA OpenHistory ==
  ASSUME RowsAgree, HistoryInv, NEW r \in Requests, OpenGet(r) \/ OpenRead(r)
  PROVE  HistoryInv'
<1>1. [req[r] EXCEPT !.book = book, !.pc = "openRead"].pc = "openRead"
  BY DEF RowsAgree, TypeOK, RequestType
<1>2. Elsewhere(r)
  BY <1>1 DEF OpenGet, OpenRead, Elsewhere, Committed
<1>3. QED
  BY <1>2, SameRows, OutsideHistory DEF OpenGet, OpenRead, At, Committed

LEMMA ArchiveHistory ==
  ASSUME RowsAgree, HistoryInv, NEW r \in Requests, Archive(r)
  PROVE  HistoryInv'
<1>1. RowsStay
  BY DEF RowsAgree, TypeOK, BookRow, Archive, RowsStay, EditedNumbers, NumbersOf, Edited, Live,
         Exists
<1>2. QED
  BY <1>1, OutsideHistory DEF Archive, Elsewhere, At, Committed

(***************************************************************************)
(* The upload, the deletion and the publication.                           *)
(***************************************************************************)
LEMMA CreateInsertHistory ==
  ASSUME RowsAgree, HistoryInv, NEW r \in Requests, CreateInsert(r)
  PROVE  HistoryInv'
<1>1. req[r].pc = "createInsert"
  BY DEF CreateInsert, At
<1>2. CASE Fault /\ Goto(r, "undo") /\ UNCHANGED mutex /\ UNCHANGED db
  BY <1>1, <1>2, GoesElsewhere, SameRows, OutsideHistory DEF Committed
<1>3. CASE revisions' = revisions \cup {req[r].entry} /\ NoFault /\ Return(r)
  <2>1. book.state = "none" /\ req[r].entry.original /\ revisions = {}
    BY <1>1 DEF RowsAgree, Proper, UploadIsFirst, Ledger, Exists
  <2>2. EditedNumbers' = {}
    BY <1>3, <2>1 DEF EditedNumbers, NumbersOf, Edited
  <2>3. req'[r] = Idle /\ Own(r)
    BY <1>3, Becomes DEF Return, Own
  <2>4. ASSUME NEW q \in Requests
        PROVE  req'[q].pc \notin Committed
    BY <2>1, <2>3, OthersAreUntouched DEF RowsAgree, Proper, UploadIsFirst, Idle, Committed
  <2>5. \A q \in Requests : History(q)'
    BY <2>4, NotPruning DEF Pruning, Committed
  <2>6. Size'
    <3>1. Cardinality(EditedNumbers') = 0
      BY <2>2, FS_EmptySet
    <3>2. PICK a \in Nat : a = Allowance'
      BY <1>3, AllowanceGrows DEF Grows
    <3>3. 0 <= a /\ 0 <= a + 1
      OBVIOUS
    <3>4. 0 <= Allowance' /\ 0 <= Allowance' + 1
      BY <3>2, <3>3, Zenon
    <3>5. QED
      BY <3>1, <3>4, Zenon DEF Size
  <2>7. QED
    BY <2>5, <2>6 DEF HistoryInv
<1>4. QED
  BY <1>2, <1>3 DEF CreateInsert

LEMMA DeleteCommitHistory ==
  ASSUME RowsAgree, HistoryInv, NEW r \in Requests, DeleteCommit(r)
  PROVE  HistoryInv'
<1>1. CASE book' = [NoBook EXCEPT !.state = "gone"]
  BY <1>1, WithoutBook DEF NoBook, Exists
<1>2. CASE Fault /\ Return(r) /\ UNCHANGED db
  BY <1>2, SameRows, OutsideHistory DEF DeleteCommit, At, Elsewhere, Committed
<1>3. QED
  BY <1>1, <1>2 DEF DeleteCommit

LEMMA PublishCommitHistory ==
  ASSUME RowsAgree, HistoryInv, NEW r \in Requests, PublishCommit(r)
  PROVE  HistoryInv'
<1>1. req[r].pc = "publishCommit" /\ UNCHANGED mutex /\ (NoFault \/ Fault \/ Lapse)
  BY DEF PublishCommit, At
<1>2. CASE UNCHANGED db /\ Goto(r, "undo")
  BY <1>1, <1>2, GoesElsewhere, SameRows, OutsideHistory DEF Committed
<1>3. CASE /\ MayCommit(r) /\ Goto(r, "publishReply") /\ NoFault
           /\ revisions' = revisions \cup {req[r].entry}
  <2>1. [req[r] EXCEPT !.pc = "publishReply"].pc = "publishReply"
    BY DEF RowsAgree, TypeOK, RequestType
  <2>2. req'[r].pc = "publishReply" /\ Own(r)
    BY <1>1, <1>3, <2>1, Becomes DEF Goto, Own
  <2>3. mutex = r /\ ~req[r].entry.original /\ Live
    BY <1>1, <1>3 DEF RowsAgree, Proper, LockHeld, ReadIsCurrent, LockPoints, Checked, MayCommit
  <2>4. Grows
    BY <1>1, AllowanceGrows
  <2>5. EditedNumbers' = EditedNumbers \cup {req[r].entry.revision}
    BY <1>3, <2>3 DEF EditedNumbers, NumbersOf, Edited
  <2>6. ~Publishing
    BY <1>1, <2>3 DEF Publishing, RowsAgree, Proper, LockHeld, LockPoints, Committed
  <2>7. Cardinality(EditedNumbers) <= Allowance
    BY <2>3, <2>6 DEF HistoryInv, Size
  <2>8. IsFiniteSet(EditedNumbers) /\ Cardinality(EditedNumbers) \in Nat
    BY NumbersAreFinite, SomeAreFinite
  <2>9. Cardinality(EditedNumbers') <= Cardinality(EditedNumbers) + 1
        /\ Cardinality(EditedNumbers') \in Nat
    <3>1. PICK n : n = req[r].entry.revision
      OBVIOUS
    <3>2. Cardinality(EditedNumbers \cup {n})
            = IF n \in EditedNumbers THEN Cardinality(EditedNumbers)
              ELSE Cardinality(EditedNumbers) + 1
      BY <2>8, FS_AddElement
    <3>3. QED
      BY <2>5, <2>8, <3>1, <3>2
  <2>10. Cardinality(EditedNumbers') <= Allowance' + 1
    BY <2>4, <2>7, <2>8, <2>9, AllowanceType DEF Grows
  <2>11. Size'
    BY <2>2, <2>10 DEF Size, Publishing, Committed
  <2>12. History(r)'
    BY <2>2, NotPruning DEF Pruning
  <2>13. QED
    BY <2>2, <2>3, <2>4, <2>11, <2>12, OthersKeepHistory DEF HistoryInv
<1>4. QED
  BY <1>1, <1>2, <1>3 DEF PublishCommit

\* The answer reads back what was published: as long as the book is live it is
\* still listed.
LEMMA PublishReplyHistory ==
  ASSUME RowsAgree, HistoryInv, NEW r \in Requests, PublishReply(r)
  PROVE  HistoryInv'
<1>1. req[r].pc = "publishReply" /\ RowsStay
  BY SameRows DEF PublishReply, At
<1>2. CASE Goto(r, "pruneSelect") /\ NoFault /\ UNCHANGED mutex
  <2>1. [req[r] EXCEPT !.pc = "pruneSelect"].pc = "pruneSelect"
    BY DEF RowsAgree, TypeOK, RequestType
  <2>2. req'[r].pc = "pruneSelect" /\ Own(r)
    BY <1>2, <2>1, Becomes DEF Goto, Own
  <2>3. Grows /\ History(r)'
    BY <1>2, <2>2, AllowanceGrows, NotPruning DEF Pruning
  <2>4. QED
    BY <1>1, <2>2, <2>3, InsidePublication DEF Committed
<1>3. CASE ~(Live /\ Listed(req[r].entry.revision)) /\ NoFault /\ Return(r)
  <2>1. Live => Listed(req[r].entry.revision)
    BY <1>1 DEF RowsAgree, Ledger, Proper, ReadIsCurrent, Committed, Live, Exists, Listed
  <2>2. Grows
    BY <1>3, AllowanceGrows
  <2>3. QED
    BY <1>1, <1>3, <2>1, <2>2, EndsPublication
<1>4. CASE Fault /\ Return(r)
  <2>1. Grows /\ Allowance' = Allowance + 1
    BY <1>4, AllowanceGrows
  <2>2. QED
    BY <1>1, <1>4, <2>1, EndsPublication DEF HistoryInv, Size
<1>5. QED
  BY <1>2, <1>3, <1>4 DEF PublishReply

(***************************************************************************)
(* The prune.                                                              *)
(***************************************************************************)
LEMMA PruneSelectHistory ==
  ASSUME RowsAgree, HistoryInv, NEW r \in Requests, PruneSelect(r)
  PROVE  HistoryInv'
<1>1. req[r].pc = "pruneSelect" /\ RowsStay /\ UNCHANGED mutex
  BY SameRows DEF PruneSelect, At
<1>2. PICK limit \in {Retention, DefaultRetention} : \E rows \in SUBSET Prunable(limit) :
        /\ Become(r, [req[r] EXCEPT !.items = rows, !.pc = "pruneRow"])
        /\ \/ limit = Retention /\ rows = Prunable(limit) /\ NoFault
           \/ Fault
  BY DEF PruneSelect
<1>3. PICK rows \in SUBSET Prunable(limit) :
        /\ Become(r, [req[r] EXCEPT !.items = rows, !.pc = "pruneRow"])
        /\ \/ limit = Retention /\ rows = Prunable(limit) /\ NoFault
           \/ Fault
  BY <1>2
<1> DEFINE next == [req[r] EXCEPT !.items = rows, !.pc = "pruneRow"]
<1>4. next.pc = "pruneRow" /\ next.items = rows
  BY DEF RowsAgree, TypeOK, RequestType
<1> HIDE DEF next
<1>5. req'[r] = next /\ Own(r)
  BY <1>1, <1>3, Becomes DEF Own, next
<1>6. Grows
  BY <1>3, AllowanceGrows
<1>7. limit \in Nat /\ limit >= Owed'
  BY <1>2, <1>3, AllowanceGrows, OwedBounds
<1>8. Spares(r)'
  <2>1. SUFFICES ASSUME rows # {}
                 PROVE  \E kept \in SUBSET EditedNumbers :
                          /\ Cardinality(kept) >= Owed'
                          /\ \A n \in kept, e \in rows : n > e.revision
    BY <1>1, <1>4, <1>5 DEF Spares, RowsStay
  <2>2. PICK kept \in SUBSET EditedNumbers : Outlive(kept, limit, rows)
    BY <2>1, PrunableIsOld
  <2>3. Cardinality(kept) \in Nat
    BY SomeAreFinite
  <2>4. QED
    BY <1>7, <2>2, <2>3, OwedBounds DEF Outlive
<1>9. KeepsUp(r)'
  <2> DEFINE left == EditedNumbers \ NumbersOf(rows)
  <2>1. SUFFICES ASSUME Live
                 PROVE  Cardinality(left) <= Allowance'
    BY <1>1, <1>4, <1>5 DEF KeepsUp, RowsStay
  <2>2. /\ Cardinality(left) \in Nat /\ Cardinality(EditedNumbers) \in Nat
        /\ Cardinality(left) <= Cardinality(EditedNumbers)
    BY SomeAreFinite
  <2>3. CASE limit = Retention /\ rows = Prunable(limit) /\ NoFault
    <3>1. Cardinality(left) <= Retention
      BY <2>3, FewAreLeft
    <3>2. Retention \in Nat /\ Retention <= Allowance
      BY RetentionAssumption DEF RowsAgree, TypeOK, Allowance
    <3>3. Allowance' = Allowance /\ Allowance \in Nat
      BY <2>3, AllowanceGrows, AllowanceType
    <3> HIDE DEF left
    <3>4. QED
      BY <2>2, <3>1, <3>2, <3>3
  <2>4. CASE Fault
    <3>1. Cardinality(EditedNumbers) <= Allowance + 1
      BY <2>1 DEF HistoryInv, Size
    <3>2. Allowance' = Allowance + 1 /\ Allowance \in Nat
      BY <2>4, AllowanceGrows, AllowanceType
    <3> HIDE DEF left
    <3>3. QED
      BY <2>2, <3>1, <3>2
  <2>5. QED
    BY <1>3, <2>3, <2>4
<1>10. RowIsGone(r)'
  BY <1>4, <1>5 DEF RowIsGone
<1>11. QED
  BY <1>1, <1>4, <1>5, <1>6, <1>8, <1>9, <1>10, InsidePublication DEF History, Committed

\* What a candidate is to the rows: older than the current revision.
LEMMA CandidateIsOld ==
  ASSUME RowsAgree, HistoryInv, NEW r \in Requests, req[r].pc \in Pruning, Exists,
         NEW e \in req[r].items
  PROVE  /\ e.revision \in Nat /\ e.revision < book.revision
         /\ book.revision = req[r].entry.revision
<1>1. PICK kept \in SUBSET EditedNumbers :
        /\ Cardinality(kept) >= Owed
        /\ \A n \in kept : n > e.revision
  BY DEF HistoryInv, History, Spares
<1>2. kept # {}
  BY <1>1, FS_EmptySet, OwedBounds
<1>3. PICK n \in kept : n > e.revision
  BY <1>1, <1>2
<1>4. n \in Nat /\ n <= book.revision /\ book.revision \in Nat
  BY NumbersAreFinite DEF RowsAgree, TypeOK, BookRow
<1>5. e.revision \in Nat
  BY DEF RowsAgree, TypeOK, RequestType, Entry
<1>6. book.revision = req[r].entry.revision
  BY DEF RowsAgree, Proper, ReadIsCurrent, Pruning, Committed
<1>7. QED
  BY <1>3, <1>4, <1>5, <1>6

\* One candidate is dealt with: its row goes, or is left because the call
\* fails; it stays at hand for its files, or the next one is taken.
LEMMA PruneGoesOn ==
  ASSUME RowsAgree, HistoryInv, NEW r \in Requests, Own(r), UNCHANGED book, Grows,
         req[r].pc \in Pruning, NEW e \in req[r].items, IsNext(r, e),
         EditedNumbers' = EditedNumbers \ {e.revision}
           \/ (EditedNumbers' = EditedNumbers /\ Allowance' = Allowance + 1
               /\ req'[r].pc = "pruneRow"),
         \/ req'[r].pc = "pruneRow" /\ req'[r].items = req[r].items \ {e}
         \/ /\ req'[r].pc \in Pruning \ {"pruneRow"} /\ req'[r].items = req[r].items
  PROVE  HistoryInv'
<1> PICK before : before = EditedNumbers
  OBVIOUS
<1> PICK after : after = EditedNumbers'
  OBVIOUS
<1> PICK items : items = req[r].items
  OBVIOUS
<1> PICK rest : rest = req'[r].items
  OBVIOUS
<1>1. after \in SUBSET before /\ rest \in SUBSET items /\ items # {}
      /\ \A n \in before : n # e.revision => n \in after
  OBVIOUS
<1>2. (Live' <=> Live) /\ (Exists' <=> Exists) /\ (Live => Exists)
  BY DEF Live, Exists
<1>3. CASE ~Exists
  BY <1>2, <1>3, WithoutBook
<1>4. CASE Exists
  <2>1. PICK kept \in SUBSET before :
          /\ Cardinality(kept) >= Owed
          /\ \A n \in kept, d \in items : n > d.revision
    BY <1>4 DEF HistoryInv, History, Spares
  <2>2. before \in SUBSET Nat /\ \A d \in items : d.revision \in Nat
    BY NumbersAreFinite DEF RowsAgree, TypeOK, RequestType, Entry
  <2>3. kept \in SUBSET after
    <3>1. \A n \in kept : n # e.revision
      BY <2>1, <2>2
    <3>2. QED
      BY <1>1, <3>1
  <2>4. Spares(r)'
    <3>1. \A n \in kept, d \in rest : n > d.revision
      BY <1>1, <2>1
    <3>2. \E k \in SUBSET after :
            Cardinality(k) >= Owed' /\ \A n \in k, d \in rest : n > d.revision
      <4>1. Cardinality(kept) \in Nat
        BY SomeAreFinite
      <4>2. Cardinality(kept) >= Owed'
        BY <2>1, <4>1, OwedBounds DEF Grows
      <4>3. QED
        BY <2>3, <3>1, <4>2
    <3>3. QED
      BY <3>2 DEF Spares
  <2>5. RowIsGone(r)'
    <3>1. SUFFICES ASSUME req'[r].pc \in Pruning \ {"pruneRow"},
                          NEW d \in rest, Newer(rest, d) = {}
                   PROVE  d.revision \notin after
      BY DEF RowIsGone, IsNext
    <3>2. rest = items /\ after = before \ {e.revision}
      BY <3>1 DEF Pruning
    <3>3. d.revision = e.revision
      <4>1. Newer(items, e) = {}
        BY DEF IsNext
      <4>2. ~(d.revision > e.revision) /\ ~(e.revision > d.revision)
        BY <3>1, <3>2, <4>1 DEF Newer
      <4>3. d.revision \in Nat /\ e.revision \in Nat
        BY <2>2, <3>2
      <4>4. QED
        BY <4>2, <4>3
    <3>4. QED
      BY <3>2, <3>3
  <2>6. KeepsUp(r)'
    <3>1. SUFFICES ASSUME Live
                   PROVE  Cardinality(after \ NumbersOf(rest)) <= Allowance'
      BY <1>2 DEF KeepsUp
    <3> DEFINE L == before \ NumbersOf(items)
               M == after \ NumbersOf(rest)
    <3>2. Cardinality(L) <= Allowance
      BY <3>1 DEF HistoryInv, History, KeepsUp
    <3>3. L \in SUBSET EditedNumbers /\ M \in SUBSET EditedNumbers
      BY <1>1
    <3>4. \A n \in M : n \in L \/ n = e.revision
      BY <1>1 DEF NumbersOf
    <3> HIDE DEF L, M
    <3>5. /\ IsFiniteSet(L) /\ IsFiniteSet(M)
          /\ Cardinality(L) \in Nat /\ Cardinality(M) \in Nat
      BY <3>3, SomeAreFinite
    <3>6. PICK a \in Nat : a = Allowance
      BY AllowanceType
    <3>7. PICK b \in Nat : b = Allowance'
      BY DEF Grows
    <3>8. b >= a
      BY <3>6, <3>7, Zenon DEF Grows
    <3>9. CASE after = before \ {e.revision}
      <4>1. M \in SUBSET L
        BY <3>4, <3>9 DEF M
      <4>2. Cardinality(M) <= Cardinality(L)
        BY <3>5, <4>1, FS_Subset
      <4>3. Cardinality(M) <= b
        BY <3>2, <3>5, <3>6, <3>8, <4>2
      <4>4. QED
        BY <3>7, <4>3, Zenon DEF M
    <3>10. CASE Allowance' = Allowance + 1
      <4>1. PICK n : n = e.revision
        OBVIOUS
      <4>2. M \in SUBSET (L \cup {n})
        BY <3>4, <4>1
      <4>3. IsFiniteSet(L \cup {n}) /\ Cardinality(L \cup {n}) \in Nat
            /\ Cardinality(L \cup {n}) <= Cardinality(L) + 1
        <5>1. Cardinality(L \cup {n}) = IF n \in L THEN Cardinality(L) ELSE Cardinality(L) + 1
          BY <3>5, FS_AddElement
        <5>2. QED
          BY <3>5, <5>1, FS_AddElement
      <4>4. Cardinality(M) <= Cardinality(L \cup {n})
        BY <4>2, <4>3, FS_Subset
      <4>5. b = a + 1
        BY <3>6, <3>7, <3>10, Zenon
      <4>6. Cardinality(M) <= b
        BY <3>2, <3>5, <3>6, <4>3, <4>4, <4>5
      <4>7. QED
        BY <3>7, <4>6, Zenon DEF M
    <3>11. QED
      BY <3>9, <3>10
  <2>7. mutex = r
    BY DEF RowsAgree, Proper, LockHeld, LockPoints, Pruning, Committed
  <2>8. Size'
    <3>1. SUFFICES ASSUME Live
                   PROVE  Cardinality(after) <= Allowance' + 1 /\ Publishing'
      BY <1>2 DEF Size
    <3>2. Publishing'
      BY DEF Publishing, Pruning, Committed
    <3>3. Cardinality(before) <= Allowance + 1
      BY <3>1 DEF HistoryInv, Size
    <3>4. Cardinality(after) \in Nat /\ Cardinality(before) \in Nat
          /\ Cardinality(after) <= Cardinality(before)
      BY <1>1, Smaller
    <3>5. PICK a \in Nat : a = Allowance
      BY AllowanceType
    <3>6. PICK b \in Nat : b = Allowance'
      BY DEF Grows
    <3>7. b >= a
      BY <3>5, <3>6, Zenon DEF Grows
    <3>8. Cardinality(after) <= b + 1
      BY <3>3, <3>4, <3>5, <3>7
    <3>9. QED
      BY <3>2, <3>6, <3>8, Zenon
  <2>9. QED
    BY <2>4, <2>5, <2>6, <2>7, <2>8, OthersKeepHistory DEF HistoryInv, History
<1>5. QED
  BY <1>3, <1>4

LEMMA TakesNext ==
  ASSUME RowsAgree, NEW r \in Requests, NEW e, NextItem(r, e), UNCHANGED mutex
  PROVE  Own(r) /\ req'[r].pc = "pruneRow" /\ req'[r].items = req[r].items \ {e}
<1> DEFINE next == [req[r] EXCEPT !.items = @ \ {e}, !.pc = "pruneRow"]
<1>1. next.pc = "pruneRow" /\ next.items = req[r].items \ {e}
  BY DEF RowsAgree, TypeOK, RequestType
<1> HIDE DEF next
<1>2. Become(r, next)
  BY DEF NextItem, next
<1>3. QED
  BY <1>1, <1>2, Becomes DEF Own

LEMMA StaysAtHand ==
  ASSUME RowsAgree, NEW r \in Requests, NEW pc, Goto(r, pc), UNCHANGED mutex
  PROVE  Own(r) /\ req'[r].pc = pc /\ req'[r].items = req[r].items
<1> DEFINE next == [req[r] EXCEPT !.pc = pc]
<1>1. next.pc = pc /\ next.items = req[r].items
  BY DEF RowsAgree, TypeOK, RequestType
<1> HIDE DEF next
<1>2. Become(r, next)
  BY DEF Goto, next
<1>3. QED
  BY <1>1, <1>2, Becomes DEF Own

LEMMA PruneRowHistory ==
  ASSUME RowsAgree, HistoryInv, NEW r \in Requests, PruneRow(r)
  PROVE  HistoryInv'
<1>1. req[r].pc = "pruneRow" /\ req[r].pc \in Pruning /\ UNCHANGED book
  BY DEF PruneRow, At, Pruning
<1>2. CASE req[r].items = {} /\ Return(r) /\ NoFault /\ UNCHANGED revisions
  <2>1. RowsStay /\ Grows /\ Allowance' = Allowance
    BY <1>1, <1>2, SameRows, AllowanceGrows DEF db
  <2>2. Live => Cardinality(EditedNumbers) <= Allowance
    <3>1. EditedNumbers \ NumbersOf({}) = EditedNumbers
      BY DEF NumbersOf
    <3>2. QED
      BY <1>1, <1>2, <3>1 DEF HistoryInv, History, KeepsUp
  <2>3. QED
    BY <1>2, <2>1, <2>2, EndsPublication
<1>3. CASE ~Exists
  BY <1>1, <1>3, WithoutBook DEF Exists
<1>4. ASSUME Exists, NEW e \in req[r].items, IsNext(r, e), UNCHANGED mutex,
             revisions' = revisions \ Matched(r, e), NoFault,
             IF Matched(r, e) = {} THEN NextItem(r, e) ELSE Goto(r, "pruneObject")
      PROVE  HistoryInv'
  <2>1. e.revision # req[r].entry.revision
    BY <1>1, <1>4, CandidateIsOld DEF RowsAgree, TypeOK, BookRow
  <2>2. \A d \in revisions : d \in Matched(r, e) <=> (~d.original /\ d.revision = e.revision)
    BY <2>1 DEF Matched
  <2>3. EditedNumbers' = EditedNumbers \ {e.revision}
    BY <1>4, <2>2 DEF EditedNumbers, NumbersOf, Edited
  <2>4. Grows
    BY <1>4, AllowanceGrows
  <2>5. CASE NextItem(r, e)
    BY <1>1, <1>4, <2>3, <2>4, <2>5, TakesNext, PruneGoesOn
  <2>6. CASE Goto(r, "pruneObject")
    BY <1>1, <1>4, <2>3, <2>4, <2>6, StaysAtHand, PruneGoesOn DEF Pruning
  <2>7. QED
    BY <1>4, <2>5, <2>6
<1>5. ASSUME NEW e \in req[r].items, IsNext(r, e), UNCHANGED <<mutex, revisions>>,
             Fault, NextItem(r, e)
      PROVE  HistoryInv'
  <2>1. Grows /\ Allowance' = Allowance + 1
    BY <1>5, AllowanceGrows
  <2>2. EditedNumbers' = EditedNumbers
    BY <1>5 DEF EditedNumbers, NumbersOf, Edited
  <2>3. QED
    BY <1>1, <1>5, <2>1, <2>2, TakesNext, PruneGoesOn
<1>6. QED
  BY <1>2, <1>3, <1>4, <1>5 DEF PruneRow

LEMMA PruneFilesHistory ==
  ASSUME RowsAgree, HistoryInv, NEW r \in Requests,
         PruneObject(r) \/ PruneCheck(r) \/ PruneCover(r)
  PROVE  HistoryInv'
<1>1. /\ req[r].pc \in Pruning \ {"pruneRow"} /\ UNCHANGED db /\ UNCHANGED mutex
      /\ NoFault \/ Lapse
  BY DEF PruneObject, PruneCheck, PruneCover, At, Pruning
<1>2. PICK e \in req[r].items :
        /\ IsNext(r, e)
        /\ NextItem(r, e) \/ Goto(r, "pruneCheck") \/ Goto(r, "pruneCover")
  BY DEF PruneObject, PruneCheck, PruneCover
<1>3. CASE ~Exists
  BY <1>1, <1>3, WithoutBook DEF Exists, db
<1>4. CASE Exists
  <2>1. e.revision \notin EditedNumbers
    BY <1>1, <1>2, <1>4 DEF HistoryInv, History, RowIsGone
  <2>2. EditedNumbers' = EditedNumbers \ {e.revision} /\ UNCHANGED book /\ Grows
    BY <1>1, <2>1, SameRows, AllowanceGrows DEF RowsStay, db
  <2>3. CASE NextItem(r, e)
    BY <1>1, <1>2, <2>2, <2>3, TakesNext, PruneGoesOn
  <2>4. CASE Goto(r, "pruneCheck") \/ Goto(r, "pruneCover")
    BY <1>1, <1>2, <2>2, <2>4, StaysAtHand, PruneGoesOn DEF Pruning
  <2>5. QED
    BY <1>2, <2>3, <2>4
<1>5. QED
  BY <1>3, <1>4

LEMMA CrashHistory ==
  ASSUME RowsAgree, HistoryInv, Crash
  PROVE  HistoryInv'
<1>1. RowsStay
  BY SameRows DEF Crash
<1>2. \A q \in Requests : req'[q].pc \notin Pruning
  BY DEF Crash, Idle, Pruning
<1>3. \A q \in Requests : History(q)'
  BY <1>2, NotPruning
<1>4. Allowance' = Allowance + 1
  BY RetentionAssumption DEF RowsAgree, TypeOK, Crash, Allowance
<1>5. Size'
  <2>1. PICK a \in Nat : a = Allowance
    BY AllowanceType
  <2>2. PICK b : b = Allowance'
    OBVIOUS
  <2>3. b = a + 1
    BY <1>4, <2>1, <2>2, Zenon
  <2>4. Live' => Cardinality(EditedNumbers') <= b
    BY <1>1, <2>1, <2>3 DEF HistoryInv, Size, RowsStay
  <2>5. Cardinality(EditedNumbers') \in Nat
    BY <1>1, SomeAreFinite DEF RowsStay
  <2>6. Live' => Cardinality(EditedNumbers') <= b + 1
    BY <2>1, <2>3, <2>4, <2>5
  <2>7. QED
    BY <2>2, <2>4, <2>6, Zenon DEF Size
<1>6. QED
  BY <1>3, <1>5 DEF HistoryInv

(***************************************************************************)
(* Put together.                                                           *)
(***************************************************************************)
LEMMA HistoryStep == RowsAgree /\ HistoryInv /\ [Next]_vars => HistoryInv'
<1> SUFFICES ASSUME RowsAgree, HistoryInv, [Next]_vars
             PROVE  HistoryInv'
  OBVIOUS
<1>1. CASE UNCHANGED vars
  BY <1>1 DEF vars, HistoryInv, Size, Live, EditedNumbers, NumbersOf, Edited, Allowance, Owed,
              Publishing, History, Spares, KeepsUp, RowIsGone, Exists, IsNext
<1>2. ASSUME NEW r \in Requests, AcceptAny(r) \/ PublishLock(r) \/ Step(r)
      PROVE  HistoryInv'
  BY <1>2, AcceptHistory, CreateSaveHistory, CreateInsertHistory, RestoreHistory,
     PublishHistory, PublishCommitHistory, PublishReplyHistory, PruneSelectHistory,
     PruneRowHistory, PruneFilesHistory, UpdateHistory, DeleteHistory, DeleteCommitHistory,
     ArchiveHistory, OpenHistory DEF Step, Publish, Prune
<1>3. QED
  BY <1>1, <1>2, CrashHistory DEF Next

\* The invariant behind the next two theorems, on top of RowsAgree.
THEOREM HistoryIsKept == Spec => []HistoryInv
<1>1. Init => HistoryInv
  BY DEF Init, HistoryInv, Size, Live, NoBook, History, Spares, KeepsUp, RowIsGone, Idle, Pruning
<1>2. QED
  BY <1>1, HistoryStep, RowsAlwaysAgree, PTL DEF Spec

\* Pruning keeps up: when no publication is under way, a live book has at most
\* Retention edited revisions, and one more for each call that failed and each
\* crash.
THEOREM HistoryStaysBounded == Spec => []HistoryIsBounded
<1>1. ASSUME RowsAgree, HistoryInv
      PROVE  HistoryIsBounded
  <2>1. SUFFICES ASSUME Live, mutex = NoRequest
                 PROVE  Cardinality(Edited) <= Retention + faults + crashes
    BY DEF HistoryIsBounded, Edited
  <2>2. ~Publishing
    BY <1>1, <2>1, NoRequestAssumption
       DEF RowsAgree, Proper, LockHeld, LockPoints, Publishing
  <2>3. Cardinality(EditedNumbers) <= Allowance
    BY <1>1, <2>1, <2>2 DEF HistoryInv, Size
  <2>4. Cardinality(Edited) = Cardinality(EditedNumbers)
    BY <1>1, RowsOfNumbers DEF EditedNumbers
  <2>5. QED
    BY <2>3, <2>4 DEF Allowance
<1>2. QED
  BY <1>1, HistoryIsKept, RowsAlwaysAgree, PTL

(***************************************************************************)
(* What one step takes away.                                               *)
(***************************************************************************)

\* A row stays, under whatever key, or it is one that pruning may take.
Remains(e) == \E d \in revisions' : d.revision = e.revision /\ d.original = e.original

MayGo(e) ==
  /\ ~e.original /\ e.revision < book'.revision
  /\ Cardinality({d \in revisions' : ~d.original /\ d.revision > e.revision}) >= Owed'

OnlyOldGo ==
  /\ book'.revision >= book.revision
  /\ \A e \in revisions : Remains(e) \/ MayGo(e)

\* The actions that write rows.
Writes(r) ==
  \/ CreateInsert(r) \/ PublishCommit(r) \/ PruneRow(r) \/ UpdateCommit(r)
  \/ DeleteCommit(r) \/ Archive(r)

LEMMA OthersLeaveRows ==
  ASSUME NEW r \in Requests, AcceptAny(r) \/ PublishLock(r) \/ Step(r), ~Writes(r)
  PROVE  UNCHANGED db
<1>1. CASE AcceptAny(r)
  BY <1>1 DEF AcceptAny, AcceptCreate, AcceptEdit, AcceptRestore, AcceptUpdate, AcceptOther,
              Accept
<1>2. CASE PublishLock(r) \/ Publish(r)
  BY <1>2 DEF PublishLock, Publish, PublishGet, PublishMutate, PublishSave, PublishCover, Undo,
              PublishReply, Writes
<1>3. CASE Prune(r)
  BY <1>3 DEF Prune, PruneSelect, PruneObject, PruneCheck, PruneCover, Writes
<1>4. CASE \/ CreateSave(r) \/ RestoreFind(r) \/ RestoreRead(r)
           \/ UpdateGet(r) \/ UpdateRename(r) \/ UpdateBack(r)
           \/ DeleteGet(r) \/ DeleteList(r) \/ DeleteSweep(r)
           \/ OpenGet(r) \/ OpenRead(r)
  BY <1>4 DEF CreateSave, RestoreFind, RestoreRead, UpdateGet, UpdateRename, UpdateBack,
              DeleteGet, DeleteList, DeleteSweep, OpenGet, OpenRead
<1>5. QED
  BY <1>1, <1>2, <1>3, <1>4 DEF Step, Writes

LEMMA NothingGoes ==
  ASSUME RowsAgree, revisions \subseteq revisions', book'.revision >= book.revision
  PROVE  OnlyOldGo
  BY DEF OnlyOldGo, Remains

LEMMA SameNothingGoes ==
  ASSUME RowsAgree, UNCHANGED db
  PROVE  OnlyOldGo
<1>1. book.revision >= book.revision
  BY DEF RowsAgree, TypeOK, BookRow
<1>2. QED
  BY <1>1, NothingGoes DEF db

LEMMA PruneTakesOld ==
  ASSUME RowsAgree, HistoryInv, NEW r \in Requests, PruneRow(r), Exists
  PROVE  OnlyOldGo
<1>1. req[r].pc \in Pruning /\ UNCHANGED book /\ (NoFault \/ Fault)
  BY DEF PruneRow, At, Pruning
<1>2. CASE UNCHANGED revisions
  BY <1>1, <1>2, SameNothingGoes DEF db
<1>3. ASSUME NEW c \in req[r].items, revisions' = revisions \ Matched(r, c)
      PROVE  OnlyOldGo
  <2>1. PICK kept \in SUBSET EditedNumbers :
          Cardinality(kept) >= Owed /\ \A n \in kept : n > c.revision
    BY <1>1 DEF HistoryInv, History, Spares
  <2>2. c.revision \in Nat /\ c.revision < book.revision
    BY <1>1, CandidateIsOld
  <2> DEFINE rows == {d \in revisions' : ~d.original /\ d.revision > c.revision}
  <2>3. rows \in SUBSET Edited
    BY <1>3 DEF Edited
  <2>4. kept \in SUBSET NumbersOf(rows)
    <3>1. SUFFICES ASSUME NEW n \in kept
                   PROVE  n \in NumbersOf(rows)
      OBVIOUS
    <3>2. PICK d \in Edited : d.revision = n
      BY <2>1 DEF EditedNumbers, NumbersOf
    <3>3. n > c.revision /\ n \in Nat
      BY <2>1, NumbersAreFinite
    <3>4. d \notin Matched(r, c)
      BY <2>2, <3>2, <3>3 DEF Matched
    <3>5. d \in rows
      BY <1>3, <3>2, <3>3, <3>4 DEF Edited
    <3>6. QED
      BY <3>2, <3>5 DEF NumbersOf
  <2> HIDE DEF rows
  <2>5. Cardinality(kept) \in Nat /\ Cardinality(NumbersOf(rows)) \in Nat
        /\ Cardinality(kept) <= Cardinality(NumbersOf(rows))
        /\ Cardinality(rows) = Cardinality(NumbersOf(rows))
    BY <2>3, <2>4, RowsOfNumbers, Smaller
  <2>6. Cardinality(rows) >= Owed'
    BY <1>1, <2>1, <2>5, AllowanceGrows, OwedBounds DEF Grows
  <2>7. ASSUME NEW e \in revisions
        PROVE  Remains(e) \/ MayGo(e)
    <3>1. CASE e \in revisions'
      BY <3>1 DEF Remains
    <3>2. CASE e \notin revisions'
      <4>1. ~e.original /\ e.revision = c.revision
        BY <1>3, <3>2 DEF Matched
      <4>2. e.revision < book'.revision
        BY <1>1, <2>2, <4>1
      <4>3. {d \in revisions' : ~d.original /\ d.revision > e.revision} = rows
        BY <4>1 DEF rows
      <4>4. Cardinality({d \in revisions' : ~d.original /\ d.revision > e.revision}) >= Owed'
        BY <2>6, <4>3
      <4>5. QED
        BY <4>1, <4>2, <4>4 DEF MayGo
    <3>3. QED
      BY <3>1, <3>2
  <2>8. book'.revision >= book.revision
    BY <1>1 DEF RowsAgree, TypeOK, BookRow
  <2>9. QED
    BY <2>7, <2>8 DEF OnlyOldGo
<1>4. QED
  BY <1>2, <1>3 DEF PruneRow

LEMMA WritesTakeOld ==
  ASSUME RowsAgree, HistoryInv, NEW r \in Requests, Writes(r), Exists, Exists'
  PROVE  OnlyOldGo
<1>0. book.revision \in Nat /\ book.revision >= book.revision
  BY DEF RowsAgree, TypeOK, BookRow
<1>1. CASE CreateInsert(r)
  BY <1>1 DEF CreateInsert, At, RowsAgree, Proper, UploadIsFirst, Exists
<1>2. CASE PublishCommit(r)
  <2>1. CASE UNCHANGED db
    BY <2>1, SameNothingGoes
  <2>2. CASE /\ revisions' = revisions \cup {req[r].entry}
             /\ book' = [book EXCEPT !.revision = req[r].entry.revision,
                                     !.key = req[r].entry.key,
                                     !.cover = req[r].entry.cover, !.text = req[r].entry.text]
    <3>1. book'.revision = req[r].entry.revision /\ req[r].entry.revision \in Nat
      BY <2>2 DEF RowsAgree, TypeOK, BookRow, RequestType, Entry
    <3>2. req[r].entry.revision > book.revision
      BY <1>2 DEF RowsAgree, Proper, ReadIsCurrent, PublishCommit, At, Checked
    <3>3. QED
      BY <1>0, <2>2, <3>1, <3>2, NothingGoes
  <2>3. QED
    BY <1>2, <2>1, <2>2 DEF PublishCommit
<1>3. CASE PruneRow(r)
  BY <1>3, PruneTakesOld
<1>4. CASE UpdateCommit(r)
  <2>1. CASE UNCHANGED db
    BY <2>1, SameNothingGoes
  <2>2. CASE /\ book' = IF Live THEN [book EXCEPT !.key = req[r].entry.key] ELSE book
             /\ revisions' = Rekeyed(r)
    <3>1. book'.revision = book.revision
      BY <2>2 DEF RowsAgree, TypeOK, BookRow
    <3> DEFINE moved(e) == IF Moved(r) /\ e.revision = req[r].book.revision
                             THEN [e EXCEPT !.key = req[r].entry.key] ELSE e
    <3>2. \A e \in revisions : moved(e) \in revisions'
      BY <2>2 DEF Rekeyed
    <3>3. \A e \in revisions : moved(e).revision = e.revision /\ moved(e).original = e.original
      BY DEF RowsAgree, TypeOK, Entry
    <3> HIDE DEF moved
    <3>4. QED
      BY <1>0, <3>1, <3>2, <3>3 DEF OnlyOldGo, Remains
  <2>3. QED
    BY <1>4, <2>1, <2>2 DEF UpdateCommit
<1>5. CASE DeleteCommit(r)
  <2>1. CASE UNCHANGED db
    BY <2>1, SameNothingGoes
  <2>2. CASE book' = [NoBook EXCEPT !.state = "gone"]
    BY <2>2 DEF NoBook, Exists
  <2>3. QED
    BY <1>5, <2>1, <2>2 DEF DeleteCommit
<1>6. CASE Archive(r)
  <2>1. book'.revision = book.revision /\ revisions' = revisions
    BY <1>6 DEF Archive, RowsAgree, TypeOK, BookRow
  <2>2. QED
    BY <1>0, <2>1, NothingGoes
<1>7. QED
  BY <1>1, <1>2, <1>3, <1>4, <1>5, <1>6 DEF Writes

LEMMA StepTakesOld ==
  ASSUME RowsAgree, HistoryInv, [Next]_vars, Exists, Exists'
  PROVE  OnlyOldGo
<1>1. CASE UNCHANGED vars
  BY <1>1, SameNothingGoes DEF vars, db
<1>2. ASSUME NEW r \in Requests, AcceptAny(r) \/ PublishLock(r) \/ Step(r)
      PROVE  OnlyOldGo
  BY <1>2, OthersLeaveRows, SameNothingGoes, WritesTakeOld
<1>3. CASE Crash
  BY <1>3, SameNothingGoes DEF Crash
<1>4. QED
  BY <1>1, <1>2, <1>3 DEF Next

\* A row of the history disappears alone only when it is no original, is not the
\* current one, and newer edited ones stay: Retention of them while no call has
\* failed, and after a failed read of the setting never fewer than the lesser of
\* Retention and the default; the current revision of a book only grows.
THEOREM OnlyOldRowsGo == Spec => OnlyOldRowsArePruned
<1>1. ASSUME RowsAgree, HistoryInv, [Next]_vars
      PROVE  [Exists /\ Exists' =>
                /\ book'.revision >= book.revision
                /\ \A e \in revisions :
                     \/ \E d \in revisions' : d.revision = e.revision /\ d.original = e.original
                     \/ /\ ~e.original /\ e.revision < book'.revision
                        /\ Cardinality({d \in revisions' : ~d.original
                                                             /\ d.revision > e.revision})
                             >= Owed']_vars
  BY <1>1, StepTakesOld DEF OnlyOldGo, Remains, MayGo
<1>2. QED
  BY <1>1, HistoryIsKept, RowsAlwaysAgree, PTL DEF Spec, OnlyOldRowsArePruned

(***************************************************************************)
(* Previews.  A listed revision keeps its cover preview as long as a       *)
(* restoration runs beside no other operation that publishes: it reads its *)
(* revision before it gets publishMu, and beside another publication that  *)
(* revision, and its preview, may be pruned in between.  Renames,          *)
(* deletions, failed calls and crashes may come at any time.               *)
(***************************************************************************)
\* Where a request to restore has read its revision and has not published it.
Restoring == {"restoreRead", "lock", "publishGet", "publishMutate"}

HasSource(r) == req[r].op = "restore" /\ req[r].pc \in Restoring

RestoresRunAlone ==
  \A p, q \in Requests : p # q /\ req[p].op = "restore" => req[q].op \notin Edits

Named(c) == \E e \in revisions : e.cover = c

Kept(c) == c = 0 \/ c \in previews

\* What a request has read from rows, and may still bring back, is there.
Recovers(r) ==
  /\ Exists /\ req[r].pc \in {"publishMutate"} \cup Checked => req[r].book.cover = book.cover
  /\ Exists /\ HasSource(r) => Kept(req[r].source.cover)

\* A new preview is nobody else's; any other that is published is there.
Supplies(r) ==
  /\ req[r].pc \in Checked \cup {"undo"} /\ req[r].op = "cover" =>
       /\ req[r].entry.cover # 0 /\ req[r].entry.cover <= drawn
       /\ Exists => ~Named(req[r].entry.cover)
  /\ Exists /\ req[r].pc \in Checked /\ req[r].op # "cover" => Kept(req[r].entry.cover)
  /\ Exists /\ req[r].pc = "publishCommit" => Kept(req[r].entry.cover)
  /\ req[r].pc = "publishCover" => req[r].op = "cover"

\* What is about to be deleted is no row's.
Spoils(r) ==
  /\ req[r].pc \in Pruning =>
       \A d, e \in req[r].items : d.revision = e.revision => d = e
  /\ req[r].pc = "pruneCover" /\ Exists =>
       \A e \in req[r].items : IsNext(r, e) => ~Named(e.cover)
  /\ req[r].pc = "deleteSweep" => book.state = "gone"

\* Only operations that publish delete previews of a book that is there.
Charged(r) ==
  /\ req[r].pc \in Editing => req[r].op \in Edits
  /\ req[r].pc = "undo" /\ req[r].op = "cover" => mutex = r
  /\ req[r].pc = "undo" => req[r].op \in Edits \cup {"create"}
  /\ req[r].op \in Edits => book.state # "none"

Careful(r) == Recovers(r) /\ Supplies(r) /\ Spoils(r) /\ Charged(r)

PreviewInv ==
  /\ \A c \in previews : c <= drawn
  /\ Exists => \A e \in revisions : Kept(e.cover)
  /\ \A r \in Requests : Careful(r)

(***************************************************************************)
(* A request that keeps what it knows.                                     *)
(***************************************************************************)
Keeps(r) ==
  /\ req'[r].op = req[r].op /\ req'[r].book = req[r].book
  /\ req'[r].source = req[r].source /\ req'[r].entry = req[r].entry
  /\ req'[r].items \subseteq req[r].items

LEMMA GotoKeeps ==
  ASSUME RowsAgree, NEW r \in Requests, NEW pc, Goto(r, pc)
  PROVE  req'[r].pc = pc /\ Keeps(r) /\ req'[r].items = req[r].items
<1> DEFINE next == [req[r] EXCEPT !.pc = pc]
<1>1. /\ next.pc = pc /\ next.op = req[r].op /\ next.source = req[r].source
      /\ next.book = req[r].book /\ next.entry = req[r].entry /\ next.items = req[r].items
  BY DEF RowsAgree, TypeOK, RequestType
<1>2. Become(r, next)
  BY DEF Goto
<1> HIDE DEF next
<1>3. QED
  BY <1>1, <1>2, Becomes DEF Keeps

LEMMA NextItemKeeps ==
  ASSUME RowsAgree, NEW r \in Requests, NEW e, NextItem(r, e)
  PROVE  req'[r].pc = "pruneRow" /\ Keeps(r) /\ req'[r].items = req[r].items \ {e}
<1> DEFINE next == [req[r] EXCEPT !.items = req[r].items \ {e}, !.pc = "pruneRow"]
<1>1. /\ next.pc = "pruneRow" /\ next.op = req[r].op /\ next.source = req[r].source
      /\ next.book = req[r].book /\ next.entry = req[r].entry
      /\ next.items = req[r].items \ {e}
  BY DEF RowsAgree, TypeOK, RequestType
<1>2. Become(r, next)
  BY DEF NextItem
<1> HIDE DEF next
<1>3. QED
  BY <1>1, <1>2, Becomes DEF Keeps

(***************************************************************************)
(* A step that makes no entry a row.                                       *)
(***************************************************************************)
CoversStay ==
  /\ \A e \in revisions' : Named(e.cover)
  /\ Exists' => Exists /\ book'.cover = book.cover
  /\ book.state = "gone" => book'.state = "gone"
  /\ book.state # "none" => book'.state # "none"

\* A preview is deleted by the operation that publishes, when no row names it.
TakesNoCover(r) ==
  \A c \in previews : c \notin previews' /\ Exists' =>
    ~Named(c) /\ mutex = r /\ req[r].op \in Edits

LEMMA SameRowsSameCovers ==
  ASSUME UNCHANGED db
  PROVE  CoversStay
  BY DEF db, CoversStay, Named, Exists

LEMMA SamePreviews ==
  ASSUME NEW r \in Requests, UNCHANGED previews
  PROVE  TakesNoCover(r)
  BY DEF TakesNoCover

LEMMA CoverTypes ==
  ASSUME RowsAgree
  PROVE  /\ drawn \in Nat /\ previews \subseteq Nat
         /\ \A e \in revisions : e.cover \in Nat
         /\ \A r \in Requests : req[r].entry.cover \in Nat /\ req[r].source.cover \in Nat
  BY DEF RowsAgree, TypeOK, RequestType, Entry

LEMMA OthersStayCareful ==
  ASSUME RestoresRunAlone, RowsAgree, RowsAgree', PreviewInv, NEW r \in Requests, Own(r),
         CoversStay, TakesNoCover(r), drawn' >= drawn, NEW q \in Requests, q # r
  PROVE  Careful(q)'
<1>1. req'[q] = req[q] /\ Careful(q)
  BY OthersAreUntouched DEF PreviewInv
<1>2. \A c : Named(c)' => Named(c)
  BY DEF CoversStay, Named
<1>3. req[q].pc \in LockPoints => mutex = q
  BY OthersAreUntouched
<1>4. ASSUME NEW c, Exists', Kept(c), mutex # r \/ req[r].op \notin Edits
      PROVE  Kept(c)'
  BY <1>4 DEF Kept, TakesNoCover
<1>5. Recovers(q)'
  <2>1. HasSource(q) => req[r].op \notin Edits
    BY DEF HasSource, RestoresRunAlone
  <2>2. Exists' /\ HasSource(q) => Kept(req[q].source.cover)'
    BY <1>1, <1>4, <2>1 DEF Careful, Recovers, CoversStay
  <2>3. QED
    BY <1>1, <2>2 DEF Careful, Recovers, CoversStay, HasSource
<1>6. Supplies(q)'
  <2>1. req[q].entry.cover <= drawn => req[q].entry.cover <= drawn'
    BY CoverTypes DEF RowsAgree, TypeOK
  <2>2. req[q].pc \in Checked => mutex # r
    BY <1>3 DEF LockPoints
  <2>3. Exists' /\ req[q].pc \in Checked /\ req[q].op # "cover" => Kept(req[q].entry.cover)'
    BY <1>1, <1>4, <2>2 DEF Careful, Supplies, CoversStay
  <2>4. Exists' /\ req[q].pc = "publishCommit" => Kept(req[q].entry.cover)'
    BY <1>1, <1>4, <2>2 DEF Careful, Supplies, CoversStay, Checked
  <2>5. req[q].pc \in Checked \cup {"undo"} /\ req[q].op = "cover" =>
          /\ req[q].entry.cover # 0 /\ req[q].entry.cover <= drawn'
          /\ Exists' => ~Named(req[q].entry.cover)'
    BY <1>1, <1>2, <2>1 DEF Careful, Supplies, CoversStay
  <2>6. req[q].pc = "publishCover" => req[q].op = "cover"
    BY <1>1 DEF Careful, Supplies
  <2>7. QED
    BY <1>1, <2>3, <2>4, <2>5, <2>6 DEF Supplies
<1>7. Spoils(q)'
  BY <1>1, <1>2 DEF Careful, Spoils, CoversStay, IsNext
<1>8. Charged(q)'
  BY <1>1, OthersAreUntouched, NoRequestAssumption DEF Careful, Charged, CoversStay, Own
<1>9. QED
  BY <1>5, <1>6, <1>7, <1>8 DEF Careful

LEMMA PreviewsStay ==
  ASSUME RestoresRunAlone, RowsAgree, RowsAgree', PreviewInv, NEW r \in Requests, Own(r),
         CoversStay, TakesNoCover(r), drawn' >= drawn,
         \A c \in previews' : c \in previews \/ c <= drawn', Careful(r)'
  PROVE  PreviewInv'
<1>1. \A q \in Requests : Careful(q)'
  BY OthersStayCareful
<1>2. ASSUME NEW c \in previews'
      PROVE  c <= drawn'
  <2>1. CASE c \in previews
    <3>1. c <= drawn /\ c \in Nat /\ drawn \in Nat /\ drawn' \in Nat
      BY <2>1, CoverTypes DEF PreviewInv, RowsAgree, TypeOK
    <3>2. QED
      BY <3>1
  <2>2. QED
    BY <1>2, <2>1
<1>3. ASSUME Exists', NEW e \in revisions'
      PROVE  Kept(e.cover)'
  <2>1. PICK d \in revisions : d.cover = e.cover
    BY <1>3 DEF CoversStay, Named
  <2>2. Kept(d.cover) /\ Named(d.cover)
    BY <1>3 DEF PreviewInv, CoversStay, Named
  <2>3. QED
    BY <1>3, <2>1, <2>2 DEF Kept, TakesNoCover
<1>4. QED
  BY <1>1, <1>2, <1>3 DEF PreviewInv

\* A step that leaves previews and rows alone.
LEMMA CalmPreviews ==
  ASSUME RestoresRunAlone, RowsAgree, RowsAgree', PreviewInv, NEW r \in Requests, Own(r),
         UNCHANGED <<db, previews>>, drawn' >= drawn, Careful(r)'
  PROVE  PreviewInv'
  BY SameRowsSameCovers, SamePreviews, PreviewsStay

(***************************************************************************)
(* Where the request that takes the step may be afterwards.                *)
(***************************************************************************)
Watched == Editing \cup Restoring \cup Pruning \cup {"undo", "deleteSweep"}

LEMMA PlainIsCareful ==
  ASSUME NEW r \in Requests, req'[r].pc \notin Watched,
         req'[r].op \in Edits => book'.state # "none"
  PROVE  Careful(r)'
<1>1. Recovers(r)' /\ Supplies(r)'
  BY DEF Watched, Editing, LockPoints, Recovers, Supplies, HasSource, Checked
<1>2. Spoils(r)' /\ Charged(r)'
  BY DEF Watched, Editing, LockPoints, Spoils, Charged, Pruning, Committed
<1>3. QED
  BY <1>1, <1>2 DEF Careful

LEMMA IdleIsCareful ==
  ASSUME NEW r \in Requests, req'[r] = Idle
  PROVE  Careful(r)'
<1>1. req'[r].pc \notin Watched /\ req'[r].op \notin Edits
  BY DEF Idle, Watched, Editing, LockPoints, Restoring, Checked, Committed, Pruning, Edits
<1>2. QED
  BY <1>1, PlainIsCareful

LEMMA EndPreviews ==
  ASSUME RestoresRunAlone, RowsAgree, RowsAgree', PreviewInv, NEW r \in Requests, Return(r),
         CoversStay, TakesNoCover(r), UNCHANGED drawn, previews' \subseteq previews
  PROVE  PreviewInv'
<1>1. req'[r] = Idle /\ Own(r)
  BY Becomes DEF Return, Own
<1>2. drawn' >= drawn
  BY DEF RowsAgree, TypeOK
<1>3. QED
  BY <1>1, <1>2, IdleIsCareful, PreviewsStay

LEMMA EndsQuietly ==
  ASSUME RestoresRunAlone, RowsAgree, RowsAgree', PreviewInv, NEW r \in Requests, Return(r),
         UNCHANGED <<db, previews, drawn>>
  PROVE  PreviewInv'
  BY SameRowsSameCovers, SamePreviews, EndPreviews

\* It goes on to a point nothing is claimed of.
LEMMA GoesCalmly ==
  ASSUME RestoresRunAlone, RowsAgree, RowsAgree', PreviewInv, NEW r \in Requests, NEW next,
         Become(r, next), mutex' = mutex, UNCHANGED <<db, previews>>, drawn' >= drawn,
         next.pc \notin Watched, next.op = req[r].op
  PROVE  PreviewInv'
<1>1. req'[r] = next /\ Own(r)
  BY Becomes DEF Own
<1>2. req'[r].op \in Edits => book'.state # "none"
  BY <1>1 DEF PreviewInv, Careful, Charged, db
<1>3. QED
  BY <1>1, <1>2, PlainIsCareful, CalmPreviews

\* It goes on with what it had.
LEMMA KeepsCareful ==
  ASSUME RowsAgree, PreviewInv, NEW r \in Requests, Keeps(r), CoversStay,
         UNCHANGED drawn,
         req'[r].pc \in Editing => req[r].pc \in Editing,
         req'[r].pc \in Checked => req[r].pc \in Checked,
         req'[r].pc # "publishMutate",
         req'[r].pc \in Restoring => req[r].pc \in Restoring /\ UNCHANGED previews,
         req'[r].pc = "publishCover" => req[r].op = "cover",
         req'[r].pc \in Checked => TakesNoCover(r) /\ previews \subseteq previews',
         req'[r].pc = "publishCommit" /\ Exists' => Kept(req[r].entry.cover)',
         req'[r].pc = "undo" =>
           \/ req[r].pc = "createInsert" /\ req[r].op = "create"
           \/ req[r].pc \in Checked /\ mutex' = r,
         req'[r].pc \in Pruning => req[r].pc \in Pruning,
         req'[r].pc = "pruneCover" => Spoils(r)',
         req'[r].pc = "deleteSweep" => book'.state = "gone"
  PROVE  Careful(r)'
<1>1. Careful(r)
  BY DEF PreviewInv
<1>2. \A c : Named(c)' => Named(c)
  BY DEF CoversStay, Named
<1>3. Recovers(r)'
  BY <1>1 DEF Careful, Recovers, HasSource, Keeps, CoversStay, Kept
<1>4. Supplies(r)'
  <2>1. Exists' /\ req'[r].pc \in Checked /\ req[r].op # "cover" => Kept(req[r].entry.cover)'
    BY <1>1 DEF Careful, Supplies, CoversStay, Kept, Keeps
  <2>2. req'[r].pc \in Checked \cup {"undo"} /\ req[r].op = "cover" =>
          /\ req[r].entry.cover # 0 /\ req[r].entry.cover <= drawn
          /\ Exists' => ~Named(req[r].entry.cover)'
    BY <1>1, <1>2 DEF Careful, Supplies, CoversStay, Keeps
  <2>3. QED
    BY <2>1, <2>2 DEF Supplies, Keeps
<1>5. Spoils(r)'
  <2>1. CASE req'[r].pc = "pruneCover"
    BY <2>1
  <2>2. CASE req'[r].pc # "pruneCover"
    BY <1>1, <2>2 DEF Careful, Spoils, Keeps
  <2>3. QED
    BY <2>1, <2>2
<1>6. Charged(r)'
  <2>1. req[r].pc \in Checked => req[r].op \in Edits
    BY <1>1 DEF Careful, Charged, Editing, LockPoints
  <2>2. QED
    BY <1>1, <2>1 DEF Careful, Charged, Keeps, CoversStay
<1>7. QED
  BY <1>3, <1>4, <1>5, <1>6 DEF Careful

LEMMA GotoPreviews ==
  ASSUME RestoresRunAlone, RowsAgree, RowsAgree', PreviewInv, NEW r \in Requests, NEW pc,
         Goto(r, pc), UNCHANGED mutex \/ mutex = NoRequest, UNCHANGED <<previews, drawn>>,
         CoversStay, pc # "publishMutate",
         pc \in Editing => req[r].pc \in Editing,
         pc \in Checked => req[r].pc \in Checked,
         pc \in Restoring => req[r].pc \in Restoring,
         pc = "publishCover" => req[r].op = "cover",
         pc = "publishCommit" /\ Exists' => req[r].op # "cover" /\ UNCHANGED db,
         pc = "undo" =>
           \/ req[r].pc = "createInsert" /\ req[r].op = "create"
           \/ req[r].pc \in Checked /\ mutex' = r,
         pc \in Pruning => req[r].pc \in Pruning,
         pc = "pruneCover" => Spoils(r)',
         pc = "deleteSweep" => book'.state = "gone"
  PROVE  PreviewInv'
<1>1. req'[r].pc = pc /\ Keeps(r) /\ Own(r)
  BY GotoKeeps DEF Goto, Own
<1>2. drawn' >= drawn /\ TakesNoCover(r)
  BY SamePreviews DEF RowsAgree, TypeOK
<1>3. pc = "publishCommit" /\ Exists' => Kept(req[r].entry.cover)'
  <2>1. SUFFICES ASSUME pc = "publishCommit", Exists'
                 PROVE  Kept(req[r].entry.cover)'
    OBVIOUS
  <2>2. Exists /\ req[r].pc \in Checked /\ req[r].op # "cover"
    BY <2>1 DEF CoversStay, Checked
  <2>3. Kept(req[r].entry.cover)
    BY <2>2 DEF PreviewInv, Careful, Supplies
  <2>4. QED
    BY <1>1, <2>3 DEF Kept, Keeps
<1>4. Careful(r)'
  BY <1>1, <1>2, <1>3, KeepsCareful
<1>5. QED
  BY <1>1, <1>2, <1>4, PreviewsStay

(***************************************************************************)
(* The steps that neither add nor delete a preview.                        *)
(***************************************************************************)
LEMMA WatchedPoints ==
  {"idle", "createSave", "createInsert", "updateGet", "updateRename", "updateCommit",
   "updateBack", "deleteGet", "deleteList", "deleteCommit", "archive", "openGet", "openRead"}
    \cap Watched = {}
  BY DEF Watched, Editing, LockPoints, Restoring, Checked, Committed, Pruning

LEMMA AcceptPreviews ==
  ASSUME RestoresRunAlone, RowsAgree, RowsAgree', PreviewInv, NEW r \in Requests, AcceptAny(r)
  PROVE  PreviewInv'
<1>1. PICK op : Accept(r, op)
  BY DEF AcceptAny, AcceptCreate, AcceptEdit, AcceptRestore, AcceptUpdate, AcceptOther
<1>2. UNCHANGED <<db, previews, mutex>> /\ drawn' >= drawn /\ UNCHANGED book
  BY <1>1 DEF Accept, files, db, RowsAgree, TypeOK
<1>3. revisions # {} => book.state # "none"
  BY DEF RowsAgree, Ledger, Exists
<1>4. ASSUME NEW next, Become(r, next), Careful(r)'
      PROVE  PreviewInv'
  <2>1. Own(r)
    BY <1>2, <1>4 DEF Own
  <2>2. QED
    BY <1>2, <1>4, <2>1, CalmPreviews
<1>5. ASSUME NEW next, Become(r, next), next.pc \notin Watched, next.op \notin Edits
      PROVE  PreviewInv'
  <2>1. Careful(r)'
    BY <1>5, Becomes, PlainIsCareful
  <2>2. QED
    BY <1>4, <1>5, <2>1
<1>6. ASSUME NEW next, Become(r, next), next.op \in Edits, revisions # {},
             next.pc = "restoreFind" \/ (next.pc = "lock" /\ next.op # "restore")
      PROVE  PreviewInv'
  <2>1. req'[r] = next
    BY <1>6, Becomes
  <2>2. Recovers(r)' /\ Supplies(r)'
    BY <1>6, <2>1 DEF Recovers, HasSource, Restoring, Supplies, Checked
  <2>3. Spoils(r)' /\ Charged(r)'
    BY <1>2, <1>3, <1>6, <2>1 DEF Spoils, Pruning, Charged
  <2>4. QED
    BY <1>4, <1>6, <2>2, <2>3 DEF Careful
<1>7. CASE AcceptCreate(r)
  BY <1>5, <1>7, WatchedPoints DEF AcceptCreate, Idle, Edits
<1>8. ASSUME NEW kind \in {"edit", "cover"}, AcceptEdit(r, kind)
      PROVE  PreviewInv'
  BY <1>6, <1>8 DEF AcceptEdit, Idle, Edits
<1>9. CASE AcceptRestore(r)
  BY <1>6, <1>9 DEF AcceptRestore, Idle, Edits
<1>10. CASE AcceptUpdate(r)
  BY <1>5, <1>10, WatchedPoints DEF AcceptUpdate, Idle, Edits
<1>11. ASSUME NEW kind \in {"delete", "archive", "open"},
              NEW pc \in {"deleteGet", "archive", "openGet"}, AcceptOther(r, kind, pc)
       PROVE  PreviewInv'
  BY <1>5, <1>11, WatchedPoints DEF AcceptOther, Idle, Edits
<1>12. QED
  BY <1>7, <1>8, <1>9, <1>10, <1>11 DEF AcceptAny

\* A request that reads something it will not publish.
LEMMA ReadsPreviews ==
  ASSUME RestoresRunAlone, RowsAgree, RowsAgree', PreviewInv, NEW r \in Requests,
         \/ OpenGet(r) \/ OpenRead(r) \/ DeleteGet(r) \/ DeleteList(r) \/ UpdateGet(r)
         \/ CreateSave(r)
  PROVE  PreviewInv'
<1>0. UNCHANGED <<db, previews>> /\ drawn' \in {drawn, drawn + 1}
  BY DEF OpenGet, OpenRead, DeleteGet, DeleteList, UpdateGet, CreateSave, files
<1>1. UNCHANGED <<db, previews>> /\ drawn' >= drawn
  BY <1>0 DEF RowsAgree, TypeOK
<1>2. CASE Return(r) /\ UNCHANGED drawn
  BY <1>1, <1>2, EndsQuietly
<1>3. ASSUME NEW next, Become(r, next), UNCHANGED mutex, next.op = req[r].op,
             next.pc \in {"createInsert", "openRead", "deleteList", "deleteCommit",
                          "updateCommit", "updateRename"}
      PROVE  PreviewInv'
  BY <1>1, <1>3, WatchedPoints, GoesCalmly
<1>4. CASE OpenGet(r)
  <2>1. /\ [req[r] EXCEPT !.book = book, !.pc = "openRead"].pc = "openRead"
        /\ [req[r] EXCEPT !.book = book, !.pc = "openRead"].op = req[r].op
    BY DEF RowsAgree, TypeOK, RequestType
  <2>2. QED
    BY <1>2, <1>3, <1>4, <2>1 DEF OpenGet
<1>5. CASE OpenRead(r)
  BY <1>2, <1>5 DEF OpenRead
<1>6. CASE DeleteGet(r)
  <2>1. /\ [req[r] EXCEPT !.book = book, !.pc = "deleteList"].pc = "deleteList"
        /\ [req[r] EXCEPT !.book = book, !.pc = "deleteList"].op = req[r].op
    BY DEF RowsAgree, TypeOK, RequestType
  <2>2. QED
    BY <1>2, <1>3, <1>6, <2>1 DEF DeleteGet
<1>7. CASE DeleteList(r)
  <2>1. \A rows : /\ [req[r] EXCEPT !.items = rows, !.pc = "deleteCommit"].pc = "deleteCommit"
                  /\ [req[r] EXCEPT !.items = rows, !.pc = "deleteCommit"].op = req[r].op
    BY DEF RowsAgree, TypeOK, RequestType
  <2>2. QED
    BY <1>2, <1>3, <1>7, <2>1 DEF DeleteList
<1>8. CASE UpdateGet(r)
  <2>1. ASSUME NEW key, NEW pc \in {"updateCommit", "updateRename"}, UNCHANGED mutex,
               Become(r, [req[r] EXCEPT !.book = book, !.entry.key = key, !.pc = pc])
        PROVE  PreviewInv'
    <3>1. /\ [req[r] EXCEPT !.book = book, !.entry.key = key, !.pc = pc].pc = pc
          /\ [req[r] EXCEPT !.book = book, !.entry.key = key, !.pc = pc].op = req[r].op
      BY DEF RowsAgree, TypeOK, RequestType
    <3>2. QED
      BY <1>3, <2>1, <3>1
  <2>2. QED
    BY <1>2, <1>8, <2>1 DEF UpdateGet
<1>9. CASE CreateSave(r)
  <2>1. \A entry : /\ [req[r] EXCEPT !.pc = "createInsert", !.entry = entry].pc = "createInsert"
                   /\ [req[r] EXCEPT !.pc = "createInsert", !.entry = entry].op = req[r].op
    BY DEF RowsAgree, TypeOK, RequestType
  <2>2. QED
    BY <1>2, <1>3, <1>9, <2>1 DEF CreateSave
<1>10. QED
  BY <1>4, <1>5, <1>6, <1>7, <1>8, <1>9

\* A restoration reads the preview it is going to bring back from a row.
LEMMA RestorePreviews ==
  ASSUME RestoresRunAlone, RowsAgree, RowsAgree', PreviewInv, NEW r \in Requests,
         RestoreFind(r) \/ RestoreRead(r)
  PROVE  PreviewInv'
<1>0. UNCHANGED <<db, previews, drawn>> /\ UNCHANGED book
  BY DEF RestoreFind, RestoreRead, db, files
<1>1. drawn' >= drawn
  BY <1>0 DEF RowsAgree, TypeOK
<1>2. CASE Return(r)
  BY <1>0, <1>2, EndsQuietly
<1>3. req[r].pc \in Editing /\ Careful(r)
  BY DEF RestoreFind, RestoreRead, At, Editing, PreviewInv
<1>4. ASSUME NEW next, Become(r, next), UNCHANGED mutex, next.op = req[r].op,
             next.pc \in {"restoreRead", "lock"},
             Exists /\ next.op = "restore" => Kept(next.source.cover)
      PROVE  PreviewInv'
  <2>1. req'[r] = next /\ Own(r)
    BY <1>4, Becomes DEF Own
  <2>2. Recovers(r)' /\ Supplies(r)'
    BY <1>0, <1>4, <2>1 DEF Recovers, HasSource, Supplies, Checked, Exists, Kept
  <2>3. Spoils(r)' /\ Charged(r)'
    BY <1>0, <1>3, <1>4, <2>1 DEF Spoils, Pruning, Charged, Careful
  <2>4. QED
    BY <1>0, <1>1, <2>1, <2>2, <2>3, CalmPreviews DEF Careful
<1>5. CASE RestoreFind(r)
  <2>1. ASSUME NEW e \in revisions, UNCHANGED mutex,
               Become(r, [req[r] EXCEPT !.source = e, !.pc = "restoreRead"])
        PROVE  PreviewInv'
    <3> DEFINE next == [req[r] EXCEPT !.source = e, !.pc = "restoreRead"]
    <3>1. next.pc = "restoreRead" /\ next.op = req[r].op /\ next.source = e
      BY DEF RowsAgree, TypeOK, RequestType
    <3>2. Become(r, next)
      BY <2>1
    <3>3. Exists => Kept(e.cover)
      BY DEF PreviewInv
    <3> HIDE DEF next
    <3>4. QED
      BY <1>4, <2>1, <3>1, <3>2, <3>3
  <2>2. QED
    BY <1>2, <1>5, <2>1 DEF RestoreFind
<1>6. CASE RestoreRead(r)
  <2>1. ASSUME NEW text, UNCHANGED mutex,
               Become(r, [req[r] EXCEPT !.source.text = text, !.pc = "lock"])
        PROVE  PreviewInv'
    <3> DEFINE next == [req[r] EXCEPT !.source.text = text, !.pc = "lock"]
    <3>1. next.pc = "lock" /\ next.op = req[r].op
          /\ next.source.cover = req[r].source.cover
      BY DEF RowsAgree, TypeOK, RequestType, Entry
    <3>2. Become(r, next)
      BY <2>1
    <3> HIDE DEF next
    <3>3. Exists /\ req[r].op = "restore" => Kept(req[r].source.cover)
      BY <1>3, <1>6 DEF Careful, Recovers, HasSource, RestoreRead, At, Restoring
    <3>4. QED
      BY <1>4, <2>1, <3>1, <3>2, <3>3
  <2>2. QED
    BY <1>2, <1>6, <2>1 DEF RestoreRead
<1>7. QED
  BY <1>5, <1>6

LEMMA PublishGetPreviews ==
  ASSUME RestoresRunAlone, RowsAgree, RowsAgree', PreviewInv, NEW r \in Requests,
         PublishGet(r)
  PROVE  PreviewInv'
<1>0. UNCHANGED <<db, previews, drawn>> /\ UNCHANGED book /\ req[r].pc = "publishGet"
  BY DEF PublishGet, At, db, files
<1>1. drawn' >= drawn /\ Careful(r)
  BY <1>0 DEF RowsAgree, TypeOK, PreviewInv
<1>2. CASE Return(r)
  BY <1>0, <1>2, EndsQuietly
<1>3. ASSUME UNCHANGED mutex, Become(r, [req[r] EXCEPT !.book = book, !.pc = "publishMutate"])
      PROVE  PreviewInv'
  <2> DEFINE next == [req[r] EXCEPT !.book = book, !.pc = "publishMutate"]
  <2>1. next.pc = "publishMutate" /\ next.op = req[r].op /\ next.book = book
        /\ next.source = req[r].source
    BY DEF RowsAgree, TypeOK, RequestType
  <2>2. Become(r, next)
    BY <1>3
  <2> HIDE DEF next
  <2>3. req'[r] = next /\ Own(r)
    BY <1>3, <2>2, Becomes DEF Own
  <2>4. Recovers(r)'
    <3>1. Exists /\ req[r].op = "restore" => Kept(req[r].source.cover)
      BY <1>0, <1>1 DEF Careful, Recovers, HasSource, Restoring
    <3>2. QED
      BY <1>0, <2>1, <2>3, <3>1 DEF Recovers, HasSource, Exists, Kept
  <2>5. Supplies(r)' /\ Spoils(r)'
    BY <2>1, <2>3 DEF Supplies, Checked, Spoils, Pruning
  <2>6. Charged(r)'
    BY <1>0, <1>1, <2>1, <2>3 DEF Careful, Charged, Editing, LockPoints
  <2>7. QED
    BY <1>0, <1>1, <2>3, <2>4, <2>5, <2>6, CalmPreviews DEF Careful
<1>4. QED
  BY <1>2, <1>3 DEF PublishGet

\* A publication gives its revision a preview nobody has, the one of the book
\* or the one of the revision it restores.
LEMMA PublishMutatePreviews ==
  ASSUME RestoresRunAlone, RowsAgree, RowsAgree', PreviewInv, NEW r \in Requests,
         PublishMutate(r)
  PROVE  PreviewInv'
<1>1. UNCHANGED <<db, previews>> /\ UNCHANGED <<book, revisions>> /\ req[r].pc = "publishMutate"
      /\ Careful(r)
  BY DEF PublishMutate, At, db, files, PreviewInv
<1>2. CASE Return(r) /\ UNCHANGED drawn
  BY <1>1, <1>2, EndsQuietly
<1>3. ASSUME NEW entry, entry.cover = EditedCover(r), UNCHANGED mutex, drawn' = drawn + 2,
             Become(r, [req[r] EXCEPT !.entry = entry, !.pc = "publishSave"])
      PROVE  PreviewInv'
  <2> DEFINE next == [req[r] EXCEPT !.entry = entry, !.pc = "publishSave"]
  <2>1. next.pc = "publishSave" /\ next.op = req[r].op /\ next.entry = entry
        /\ next.book = req[r].book
    BY DEF RowsAgree, TypeOK, RequestType
  <2>2. Become(r, next)
    BY <1>3
  <2> HIDE DEF next
  <2>3. req'[r] = next /\ Own(r)
    BY <1>3, <2>2, Becomes DEF Own
  <2>4. drawn \in Nat /\ drawn' >= drawn
    BY <1>3 DEF RowsAgree, TypeOK
  <2>5. Recovers(r)'
    BY <1>1, <2>1, <2>3 DEF Careful, Recovers, HasSource, Restoring, Exists
  <2>6. ASSUME req[r].op = "cover"
        PROVE  entry.cover # 0 /\ entry.cover <= drawn' /\ (Exists => ~Named(entry.cover))
    <3>1. entry.cover = drawn + 2
      BY <1>3, <2>6 DEF EditedCover
    <3>2. ASSUME Exists, NEW e \in revisions
          PROVE  e.cover # drawn + 2
      <4>1. e.cover = 0 \/ e.cover <= drawn
        BY <3>2 DEF PreviewInv, Kept
      <4>2. e.cover \in Nat
        BY CoverTypes
      <4>3. QED
        BY <2>4, <4>1, <4>2
    <3>3. QED
      BY <1>3, <2>4, <3>1, <3>2 DEF Named
  <2>7. ASSUME req[r].op # "cover", Exists
        PROVE  Kept(entry.cover)
    <3>1. CASE req[r].op = "restore"
      <4>1. entry.cover = req[r].source.cover
        BY <1>3, <3>1 DEF EditedCover
      <4>2. HasSource(r)
        BY <1>1, <3>1 DEF HasSource, Restoring
      <4>3. QED
        BY <1>1, <2>7, <4>1, <4>2 DEF Careful, Recovers
    <3>2. CASE req[r].op # "restore"
      <4>1. entry.cover = req[r].book.cover
        BY <1>3, <2>7, <3>2 DEF EditedCover
      <4>2. entry.cover = book.cover
        BY <1>1, <2>7, <4>1 DEF Careful, Recovers
      <4>3. QED
        BY <2>7, <4>2 DEF RowsAgree, Ledger, PreviewInv
    <3>3. QED
      BY <3>1, <3>2
  <2>8. Supplies(r)'
    BY <1>1, <2>1, <2>3, <2>6, <2>7 DEF Supplies, Named, Kept, Exists
  <2>9. Spoils(r)' /\ Charged(r)'
    BY <1>1, <2>1, <2>3 DEF Spoils, Pruning, Careful, Charged, Editing, LockPoints
  <2>10. QED
    BY <1>1, <2>3, <2>4, <2>5, <2>8, <2>9, CalmPreviews DEF Careful
<1>4. ASSUME NEW revision, NEW text, UNCHANGED mutex, drawn' = drawn + 2,
             Become(r, [req[r] EXCEPT
                          !.entry = [revision |-> revision, key |-> RevisionStorageKey(r),
                                     cover |-> EditedCover(r), text |-> text,
                                     original |-> FALSE],
                          !.pc = "publishSave"])
      PROVE  PreviewInv'
  <2> DEFINE entry == [revision |-> revision, key |-> RevisionStorageKey(r),
                       cover |-> EditedCover(r), text |-> text, original |-> FALSE]
  <2>1. entry.cover = EditedCover(r)
    OBVIOUS
  <2>2. Become(r, [req[r] EXCEPT !.entry = entry, !.pc = "publishSave"])
    BY <1>4
  <2> HIDE DEF entry
  <2> QED
    BY <1>3, <1>4, <2>1, <2>2
<1>5. QED
  BY <1>2, <1>4 DEF PublishMutate

\* The steps that only move on.
LEMMA MovePreviews ==
  ASSUME RestoresRunAlone, RowsAgree, RowsAgree', PreviewInv, NEW r \in Requests,
         \/ PublishLock(r) \/ PublishSave(r) \/ PublishReply(r)
         \/ UpdateRename(r) \/ UpdateCommit(r) \/ UpdateBack(r) \/ Archive(r)
  PROVE  PreviewInv'
<1>1. UNCHANGED <<previews, drawn>>
  BY DEF PublishLock, PublishSave, PublishReply, UpdateRename, UpdateCommit, UpdateBack,
         Archive, files
<1>2. CoversStay
  <2>1. CASE UNCHANGED db
    BY <2>1, SameRowsSameCovers
  <2>2. CASE UpdateCommit(r) /\ revisions' = Rekeyed(r)
    <3>1. ASSUME NEW e \in revisions'
          PROVE  Named(e.cover)
      <4>1. PICK d \in revisions :
              e = IF Moved(r) /\ d.revision = req[r].book.revision
                    THEN [d EXCEPT !.key = req[r].entry.key] ELSE d
        BY <2>2 DEF Rekeyed
      <4>2. e.cover = d.cover
        BY <4>1 DEF RowsAgree, TypeOK, Entry
      <4>3. QED
        BY <4>2 DEF Named
    <3>2. book'.state = book.state /\ book'.cover = book.cover
      BY <2>2 DEF UpdateCommit, RowsAgree, TypeOK, BookRow, db
    <3>3. QED
      BY <3>1, <3>2 DEF CoversStay, Exists
  <2>3. CASE Archive(r)
    <3>1. /\ book'.cover = book.cover /\ UNCHANGED revisions
          /\ book'.state = book.state \/ (book.state = "live" /\ book'.state = "archived")
      BY <2>3 DEF Archive, Live, RowsAgree, TypeOK, BookRow
    <3>2. QED
      BY <3>1 DEF CoversStay, Exists, Named
  <2>4. QED
    BY <2>1, <2>2, <2>3
       DEF PublishLock, PublishSave, PublishReply, UpdateRename, UpdateCommit, UpdateBack
<1>3. CASE Return(r)
  BY <1>1, <1>2, <1>3, SamePreviews, EndPreviews
<1>4. ASSUME NEW pc \in {"updateCommit", "updateBack"}, Goto(r, pc), UNCHANGED mutex
      PROVE  PreviewInv'
  <2>1. pc \notin Watched /\ pc \notin Editing /\ pc \notin Checked /\ pc \notin Restoring
        /\ pc \notin Pruning
    BY <1>4, WatchedPoints DEF Watched, Editing, LockPoints
  <2>2. QED
    BY <1>1, <1>2, <1>4, <2>1, GotoPreviews
<1>5. CASE PublishLock(r)
  BY <1>1, <1>2, <1>5, GotoPreviews
     DEF PublishLock, At, Unlocked, Editing, Checked, Restoring, Pruning
<1>6. CASE PublishSave(r)
  BY <1>1, <1>2, <1>3, <1>6, GotoPreviews
     DEF PublishSave, At, Editing, LockPoints, Checked, Restoring, Pruning
<1>7. CASE PublishReply(r)
  BY <1>1, <1>2, <1>3, <1>7, GotoPreviews
     DEF PublishReply, At, Editing, LockPoints, Committed, Checked, Restoring, Pruning
<1>8. CASE UpdateRename(r)
  BY <1>3, <1>4, <1>8 DEF UpdateRename
<1>9. CASE UpdateCommit(r)
  BY <1>3, <1>4, <1>9 DEF UpdateCommit
<1>10. CASE UpdateBack(r) \/ Archive(r)
  BY <1>3, <1>10 DEF UpdateBack, Archive
<1>11. QED
  BY <1>5, <1>6, <1>7, <1>8, <1>9, <1>10

LEMMA CrashPreviews ==
  ASSUME RowsAgree, PreviewInv, Crash
  PROVE  PreviewInv'
<1>1. \A q \in Requests : req'[q] = Idle
  BY DEF Crash
<1>2. UNCHANGED <<book, revisions, previews, drawn>>
  BY DEF Crash, db, files
<1>3. \A q \in Requests : Careful(q)'
  BY <1>1, IdleIsCareful
<1>4. QED
  BY <1>2, <1>3 DEF PreviewInv, Kept, Exists

(***************************************************************************)
(* The steps that add a preview, or a row that names one.                  *)
(***************************************************************************)
LEMMA PublishCoverPreviews ==
  ASSUME RestoresRunAlone, RowsAgree, RowsAgree', PreviewInv, NEW r \in Requests,
         PublishCover(r)
  PROVE  PreviewInv'
<1>1. UNCHANGED <<db, drawn, mutex>> /\ req[r].pc = "publishCover" /\ CoversStay
  BY SameRowsSameCovers DEF PublishCover, At
<1>2. CASE Goto(r, "undo") /\ UNCHANGED previews
  <2>1. mutex' = r /\ req[r].pc \in Checked
    BY <1>1 DEF RowsAgree, Proper, LockHeld, LockPoints, Checked
  <2>2. "undo" \notin Editing /\ "undo" \notin Checked /\ "undo" \notin Restoring
        /\ "undo" \notin Pruning
    BY DEF Editing, LockPoints, Committed, Checked, Restoring, Pruning
  <2>3. QED
    BY <1>1, <1>2, <2>1, <2>2, GotoPreviews
<1>3. CASE previews' = previews \cup {req[r].entry.cover} /\ Goto(r, "publishCommit")
  <2>1. req'[r].pc = "publishCommit" /\ Keeps(r) /\ Own(r)
    BY <1>1, <1>3, GotoKeeps DEF Goto, Own
  <2>2. drawn' >= drawn /\ TakesNoCover(r) /\ previews \subseteq previews'
    BY <1>1, <1>3 DEF RowsAgree, TypeOK, TakesNoCover
  <2>3. req[r].op = "cover" \/ Kept(req[r].entry.cover) \/ ~Exists
    BY <1>1 DEF PreviewInv, Careful, Supplies, Checked
  <2>4. req[r].entry.cover \in previews'
    BY <1>3
  <2>5. Kept(req[r].entry.cover)'
    BY <2>1, <2>4 DEF Kept, Keeps
  <2>6. Careful(r)'
    BY <1>1, <2>1, <2>2, <2>5, KeepsCareful
       DEF Editing, LockPoints, Checked, Restoring, Pruning
  <2>7. req[r].entry.cover <= drawn'
    BY <1>1 DEF PreviewInv, Careful, Supplies, Checked
  <2>8. \A c \in previews' : c \in previews \/ c <= drawn'
    BY <1>3, <2>7
  <2>9. QED
    BY <1>1, <1>3, <2>1, <2>2, <2>6, <2>8, PreviewsStay
<1>4. QED
  BY <1>2, <1>3 DEF PublishCover

\* An entry becomes a row: of an upload, without a preview, or of the
\* publication that holds publishMu, with one that is there.
Adds(r) ==
  /\ revisions' = revisions \cup {req[r].entry} /\ UNCHANGED <<previews, drawn>>
  /\ book'.state \notin {"none", "gone"}
  /\ \/ book.state = "none" /\ req[r].pc = "createInsert"
     \/ Exists /\ mutex = r /\ req[r].pc = "publishCommit"

LEMMA AddsOthers ==
  ASSUME RowsAgree, RowsAgree', PreviewInv, NEW r \in Requests, Own(r), Adds(r),
         NEW q \in Requests, q # r
  PROVE  Careful(q)'
<1>1. req'[q] = req[q] /\ Careful(q)
  BY OthersAreUntouched DEF PreviewInv
<1>2. book.state = "none" => req[q].op \notin Edits /\ req[q].pc \notin Editing
  BY <1>1 DEF Careful, Charged
<1>3. req[q].pc \in LockPoints => mutex = q /\ req[q].pc \in Editing
  BY OthersAreUntouched DEF Editing
<1>4. req[q].pc \notin LockPoints
  BY <1>2, <1>3 DEF Adds
<1>5. HasSource(q) => Exists
  BY <1>2 DEF HasSource, Edits, Adds
<1>6. ~(req[q].pc = "undo" /\ req[q].op = "cover")
  BY <1>1, <1>2 DEF Careful, Charged, Edits, Adds
<1>7. Recovers(q)'
  BY <1>1, <1>4, <1>5 DEF Careful, Recovers, HasSource, LockPoints, Kept, Adds
<1>8. Supplies(q)'
  BY <1>1, <1>4, <1>6 DEF Supplies, LockPoints, Checked
<1>9. Spoils(q)'
  BY <1>1, <1>4 DEF Careful, Spoils, LockPoints, Committed, Adds, Exists, Pruning
<1>10. Charged(q)'
  BY <1>1, OthersAreUntouched, NoRequestAssumption DEF Careful, Charged, Own, Adds
<1>11. QED
  BY <1>7, <1>8, <1>9, <1>10 DEF Careful

LEMMA AddsPreviews ==
  ASSUME RowsAgree, RowsAgree', PreviewInv, NEW r \in Requests, Own(r), Adds(r), Careful(r)'
  PROVE  PreviewInv'
<1>1. ASSUME NEW e \in revisions'
      PROVE  Kept(e.cover)'
  <2>1. CASE e \in revisions
    <3>1. Exists
      BY <2>1 DEF RowsAgree, Ledger
    <3>2. QED
      BY <2>1, <3>1 DEF PreviewInv, Kept, Adds
  <2>2. CASE e = req[r].entry /\ req[r].pc = "createInsert"
    BY <2>2 DEF RowsAgree, Proper, UploadIsFirst, Kept
  <2>3. CASE e = req[r].entry /\ req[r].pc = "publishCommit" /\ Exists
    BY <2>3 DEF PreviewInv, Careful, Supplies, Kept, Adds
  <2>4. QED
    BY <1>1, <2>1, <2>2, <2>3 DEF Adds
<1>2. \A c \in previews' : c <= drawn'
  BY DEF PreviewInv, Adds
<1>3. QED
  BY <1>1, <1>2, AddsOthers DEF PreviewInv

LEMMA CommitPreviews ==
  ASSUME RestoresRunAlone, RowsAgree, RowsAgree', PreviewInv, NEW r \in Requests,
         CreateInsert(r) \/ PublishCommit(r)
  PROVE  PreviewInv'
<1>1. UNCHANGED <<previews, drawn>>
  BY DEF CreateInsert, PublishCommit, files
<1>2. CASE Goto(r, "undo") /\ UNCHANGED mutex /\ UNCHANGED db
  <2>1. \/ req[r].pc = "createInsert" /\ req[r].op = "create"
        \/ req[r].pc \in Checked /\ mutex' = r
    BY <1>2 DEF CreateInsert, PublishCommit, At, RowsAgree, Proper, LockHeld, UploadIsFirst,
                LockPoints, Checked
  <2>2. "undo" \notin Editing /\ "undo" \notin Checked /\ "undo" \notin Restoring
        /\ "undo" \notin Pruning
    BY DEF Editing, LockPoints, Committed, Checked, Restoring, Pruning
  <2>3. QED
    BY <1>1, <1>2, <2>1, <2>2, SameRowsSameCovers, GotoPreviews
<1>3. ASSUME CreateInsert(r), Return(r), revisions' = revisions \cup {req[r].entry},
             book'.state = "live"
      PROVE  PreviewInv'
  <2>1. req'[r] = Idle /\ Own(r)
    BY <1>3, Becomes DEF Return, Own
  <2>2. Adds(r)
    BY <1>1, <1>3 DEF Adds, CreateInsert, At, RowsAgree, Proper, UploadIsFirst
  <2>3. QED
    BY <2>1, <2>2, IdleIsCareful, AddsPreviews
<1>4. ASSUME PublishCommit(r), MayCommit(r), revisions' = revisions \cup {req[r].entry},
             book'.state = "live", Goto(r, "publishReply"), UNCHANGED mutex
      PROVE  PreviewInv'
  <2>1. req'[r].pc = "publishReply" /\ Keeps(r) /\ Own(r)
    BY <1>4, GotoKeeps DEF Goto, Own
  <2>2. Adds(r)
    BY <1>1, <1>4
       DEF Adds, PublishCommit, At, RowsAgree, Proper, LockHeld, LockPoints, Checked, MayCommit,
           Live, Exists
  <2>3. Recovers(r)' /\ Supplies(r)' /\ Spoils(r)'
    BY <2>1 DEF Recovers, HasSource, Restoring, Supplies, Checked, Spoils, Pruning
  <2>4. req[r].op \in Edits
    BY <1>4 DEF PreviewInv, Careful, Charged, Editing, LockPoints, Checked, PublishCommit, At
  <2>5. Charged(r)'
    BY <1>4, <2>1, <2>4 DEF Charged, Keeps
  <2>6. QED
    BY <2>1, <2>2, <2>3, <2>5, AddsPreviews DEF Careful
<1>5. CASE CreateInsert(r)
  BY <1>2, <1>3, <1>5 DEF CreateInsert
<1>6. CASE PublishCommit(r)
  <2>1. MayCommit(r) => [book EXCEPT !.revision = req[r].entry.revision,
                                     !.key = req[r].entry.key, !.cover = req[r].entry.cover,
                                     !.text = req[r].entry.text].state = "live"
    BY DEF RowsAgree, TypeOK, BookRow, MayCommit, Live
  <2>2. QED
    BY <1>2, <1>4, <1>6, <2>1 DEF PublishCommit
<1>7. QED
  BY <1>5, <1>6

(***************************************************************************)
(* The steps that delete previews.                                         *)
(***************************************************************************)
LEMMA UndoPreviews ==
  ASSUME RestoresRunAlone, RowsAgree, RowsAgree', PreviewInv, NEW r \in Requests, Undo(r)
  PROVE  PreviewInv'
<1>1. UNCHANGED <<db, drawn>> /\ Return(r) /\ req[r].pc = "undo" /\ CoversStay
      /\ UNCHANGED <<book, revisions>>
  BY SameRowsSameCovers DEF Undo, At, db
<1>2. previews' = previews \/ previews' = previews \ SavedPreviews(r)
  BY DEF Undo, files
<1>3. ASSUME NEW c \in previews, c \notin previews', Exists'
      PROVE  ~Named(c) /\ mutex = r /\ req[r].op \in Edits
  <2>1. req[r].op = "cover" /\ c = req[r].entry.cover
    BY <1>2, <1>3 DEF SavedPreviews
  <2>2. Exists
    BY <1>1, <1>3 DEF Exists
  <2>3. QED
    BY <1>1, <2>1, <2>2 DEF PreviewInv, Careful, Supplies, Charged, Edits
<1>4. previews' \subseteq previews
  BY <1>2
<1>5. QED
  BY <1>1, <1>3, <1>4, EndPreviews DEF TakesNoCover

LEMMA NextItemPreviews ==
  ASSUME RestoresRunAlone, RowsAgree, RowsAgree', PreviewInv, NEW r \in Requests, NEW e,
         NextItem(r, e), UNCHANGED <<mutex, drawn>>, CoversStay, TakesNoCover(r),
         previews' \subseteq previews, req[r].pc \in Pruning
  PROVE  PreviewInv'
<1>1. req'[r].pc = "pruneRow" /\ Keeps(r) /\ Own(r)
  BY NextItemKeeps DEF NextItem, Own
<1>2. req[r].pc \in Editing
  BY DEF Pruning, Editing, LockPoints, Committed
<1>3. Careful(r)'
  BY <1>1, <1>2, KeepsCareful DEF Checked, Restoring, Pruning
<1>4. drawn' >= drawn
  BY DEF RowsAgree, TypeOK
<1>5. QED
  BY <1>1, <1>3, <1>4, PreviewsStay

LEMMA PruneSelectPreviews ==
  ASSUME RestoresRunAlone, RowsAgree, RowsAgree', PreviewInv, NEW r \in Requests,
         PruneSelect(r)
  PROVE  PreviewInv'
<1>1. UNCHANGED <<db, previews, drawn>> /\ UNCHANGED book /\ req[r].pc = "pruneSelect"
      /\ Careful(r)
  BY DEF PruneSelect, At, db, files, PreviewInv
<1>3. ASSUME UNCHANGED mutex, NEW limit, NEW rows \in SUBSET Prunable(limit),
             Become(r, [req[r] EXCEPT !.items = rows, !.pc = "pruneRow"])
      PROVE  PreviewInv'
  <2> DEFINE next == [req[r] EXCEPT !.items = rows, !.pc = "pruneRow"]
  <2>1. next.pc = "pruneRow" /\ next.op = req[r].op /\ next.items = rows
    BY DEF RowsAgree, TypeOK, RequestType
  <2>2. Become(r, next)
    BY <1>3
  <2> HIDE DEF next
  <2>3. req'[r] = next /\ Own(r)
    BY <1>3, <2>2, Becomes DEF Own
  <2>4. \A d, e \in rows : d.revision = e.revision => d = e
    BY DEF Prunable, RowsAgree, Ledger
  <2>5. Recovers(r)' /\ Supplies(r)' /\ Spoils(r)'
    BY <2>1, <2>3, <2>4 DEF Recovers, HasSource, Restoring, Supplies, Checked, Spoils
  <2>6. Charged(r)'
    BY <1>1, <2>1, <2>3 DEF Careful, Charged, Editing, LockPoints, Committed
  <2>7. drawn' >= drawn
    BY <1>1 DEF RowsAgree, TypeOK
  <2>8. QED
    BY <1>1, <2>3, <2>5, <2>6, <2>7, CalmPreviews DEF Careful
<1>4. QED
  BY <1>3 DEF PruneSelect

LEMMA PrunePreviews ==
  ASSUME RestoresRunAlone, RowsAgree, RowsAgree', PreviewInv, NEW r \in Requests,
         PruneRow(r) \/ PruneObject(r) \/ PruneCheck(r)
  PROVE  PreviewInv'
<1>1. UNCHANGED <<book, previews, drawn>> /\ revisions' \subseteq revisions
      /\ req[r].pc \in Pruning
  BY DEF PruneRow, PruneObject, PruneCheck, At, db, files, Pruning
<1>2. CoversStay /\ TakesNoCover(r) /\ req[r].pc \in Editing
  BY <1>1 DEF CoversStay, Named, Exists, TakesNoCover, Pruning, Editing, LockPoints, Committed
<1>3. CASE Return(r)
  BY <1>1, <1>2, <1>3, EndPreviews
<1>4. ASSUME NEW e, NextItem(r, e), UNCHANGED mutex
      PROVE  PreviewInv'
  BY <1>1, <1>2, <1>4, NextItemPreviews
<1>5. ASSUME NEW pc \in {"pruneObject", "pruneCheck", "pruneCover"}, Goto(r, pc),
             UNCHANGED mutex, pc = "pruneCover" => Spoils(r)'
      PROVE  PreviewInv'
  BY <1>1, <1>2, <1>5, GotoPreviews DEF Checked, Restoring, Pruning
<1>6. CASE PruneRow(r)
  BY <1>3, <1>4, <1>5, <1>6 DEF PruneRow
<1>7. CASE PruneObject(r)
  BY <1>4, <1>5, <1>7 DEF PruneObject
<1>8. CASE PruneCheck(r)
  <2>1. ASSUME NEW e \in req[r].items, IsNext(r, e), ~CoverReferenced(e.cover),
               Goto(r, "pruneCover"), UNCHANGED mutex
        PROVE  PreviewInv'
    <3>1. req'[r].pc = "pruneCover" /\ req'[r].items = req[r].items
      BY <2>1, GotoKeeps
    <3>2. \A c, d \in req[r].items : c.revision = d.revision => c = d
      BY <1>1 DEF PreviewInv, Careful, Spoils
    <3>3. ASSUME NEW d \in req[r].items, IsNext(r, d)
          PROVE  d = e
      <4>1. d.revision \in Nat /\ e.revision \in Nat
        BY <2>1, <3>3 DEF RowsAgree, TypeOK, RequestType, Entry
      <4>2. ~(d.revision > e.revision) /\ ~(e.revision > d.revision)
        BY <2>1, <3>3 DEF IsNext, Newer
      <4>3. QED
        BY <2>1, <3>2, <3>3, <4>1, <4>2
    <3>4. ~Named(e.cover)'
      BY <1>8, <2>1 DEF CoverReferenced, Named, PruneCheck, db
    <3>5. Spoils(r)'
      BY <3>1, <3>2, <3>3, <3>4 DEF Spoils, IsNext
    <3>6. QED
      BY <1>5, <2>1, <3>5
  <2>2. QED
    BY <1>4, <1>8, <2>1 DEF PruneCheck
<1>9. QED
  BY <1>6, <1>7, <1>8

LEMMA PruneCoverPreviews ==
  ASSUME RestoresRunAlone, RowsAgree, RowsAgree', PreviewInv, NEW r \in Requests,
         PruneCover(r)
  PROVE  PreviewInv'
<1>1. UNCHANGED <<db, drawn, mutex>> /\ req[r].pc = "pruneCover" /\ CoversStay
      /\ UNCHANGED <<book, revisions>>
  BY SameRowsSameCovers DEF PruneCover, At, db
<1>2. PICK e \in req[r].items : /\ IsNext(r, e) /\ NextItem(r, e)
                                /\ previews' = previews \ {e.cover} \/ UNCHANGED previews
  BY DEF PruneCover
<1>3. mutex = r /\ req[r].op \in Edits /\ req[r].pc \in Pruning
  BY <1>1 DEF RowsAgree, Proper, LockHeld, PreviewInv, Careful, Charged, Editing, LockPoints,
              Committed, Pruning
<1>4. Exists' => ~Named(e.cover)
  BY <1>1, <1>2 DEF PreviewInv, Careful, Spoils, Exists
<1>5. TakesNoCover(r) /\ previews' \subseteq previews
  BY <1>2, <1>3, <1>4 DEF TakesNoCover
<1>6. QED
  BY <1>1, <1>2, <1>3, <1>5, NextItemPreviews

LEMMA DeletePreviews ==
  ASSUME RestoresRunAlone, RowsAgree, RowsAgree', PreviewInv, NEW r \in Requests,
         DeleteCommit(r) \/ DeleteSweep(r)
  PROVE  PreviewInv'
<1>1. UNCHANGED drawn /\ previews' \subseteq previews
  BY DEF DeleteCommit, DeleteSweep, files
<1>2. "deleteSweep" \notin Editing /\ "deleteSweep" \notin Checked
      /\ "deleteSweep" \notin Restoring /\ "deleteSweep" \notin Pruning
  BY DEF Editing, LockPoints, Committed, Checked, Restoring, Pruning
<1>3. CASE DeleteCommit(r)
  <2>1. UNCHANGED previews
    BY <1>3 DEF DeleteCommit, files
  <2>2. CASE Return(r) /\ UNCHANGED db
    BY <1>1, <2>1, <2>2, EndsQuietly
  <2>3. CASE /\ book' = [NoBook EXCEPT !.state = "gone"] /\ revisions' = {}
             /\ Goto(r, "deleteSweep") /\ UNCHANGED mutex
    <3>1. book'.state = "gone" /\ CoversStay
      BY <2>3 DEF NoBook, CoversStay, Exists
    <3>2. QED
      BY <1>1, <1>2, <2>1, <2>3, <3>1, GotoPreviews
  <2>4. QED
    BY <1>3, <2>2, <2>3 DEF DeleteCommit
<1>4. CASE DeleteSweep(r)
  <2>1. UNCHANGED db /\ UNCHANGED book /\ req[r].pc = "deleteSweep" /\ CoversStay
    BY <1>4, SameRowsSameCovers DEF DeleteSweep, At, db
  <2>2. book'.state = "gone" /\ TakesNoCover(r)
    BY <2>1 DEF PreviewInv, Careful, Spoils, TakesNoCover, Exists
  <2>3. CASE Return(r)
    BY <1>1, <2>1, <2>2, <2>3, EndPreviews
  <2>4. ASSUME NEW rows, UNCHANGED mutex, Become(r, [req[r] EXCEPT !.items = rows])
        PROVE  PreviewInv'
    <3> DEFINE next == [req[r] EXCEPT !.items = rows]
    <3>1. next.pc = "deleteSweep" /\ next.op = req[r].op
      BY <2>1 DEF RowsAgree, TypeOK, RequestType
    <3>2. Become(r, next)
      BY <2>4
    <3> HIDE DEF next
    <3>3. req'[r] = next /\ Own(r)
      BY <2>4, <3>2, Becomes DEF Own
    <3>4. Recovers(r)' /\ Supplies(r)'
      BY <1>2, <3>1, <3>3 DEF Recovers, HasSource, Supplies
    <3>5. Spoils(r)' /\ Charged(r)'
      BY <1>2, <2>1, <2>2, <3>1, <3>3 DEF Spoils, Charged, PreviewInv, Careful
    <3>6. drawn' >= drawn
      BY <1>1 DEF RowsAgree, TypeOK
    <3>7. QED
      BY <1>1, <2>1, <2>2, <3>3, <3>4, <3>5, <3>6, PreviewsStay DEF Careful
  <2>5. QED
    BY <1>4, <2>3, <2>4 DEF DeleteSweep
<1>5. QED
  BY <1>3, <1>4

(***************************************************************************)
(* Put together.                                                           *)
(***************************************************************************)
LEMMA PreviewStep ==
  ASSUME RestoresRunAlone, RowsAgree, RowsAgree', PreviewInv, [Next]_vars
  PROVE  PreviewInv'
<1>1. CASE UNCHANGED vars
  BY <1>1 DEF vars, PreviewInv, Careful, Recovers, HasSource, Supplies, Spoils, Charged, Named,
              Kept, IsNext, Exists
<1>2. ASSUME NEW r \in Requests, AcceptAny(r) \/ PublishLock(r) \/ Step(r)
      PROVE  PreviewInv'
  <2>1. CASE AcceptAny(r) \/ PublishLock(r)
    BY <2>1, AcceptPreviews, MovePreviews
  <2>2. CASE Publish(r)
    BY <2>2, PublishGetPreviews, PublishMutatePreviews, MovePreviews, PublishCoverPreviews,
       CommitPreviews, UndoPreviews DEF Publish
  <2>3. CASE Prune(r)
    BY <2>3, PruneSelectPreviews, PrunePreviews, PruneCoverPreviews DEF Prune
  <2>4. CASE DeleteGet(r) \/ DeleteList(r) \/ DeleteCommit(r) \/ DeleteSweep(r)
    BY <2>4, ReadsPreviews, DeletePreviews
  <2>5. CASE UpdateGet(r) \/ UpdateRename(r) \/ UpdateCommit(r) \/ UpdateBack(r)
    BY <2>5, ReadsPreviews, MovePreviews
  <2>6. QED
    BY <1>2, <2>1, <2>2, <2>3, <2>4, <2>5, ReadsPreviews, CommitPreviews, RestorePreviews,
       MovePreviews DEF Step
<1>3. QED
  BY <1>1, <1>2, CrashPreviews DEF Next

\* Every listed revision of a live book has its cover preview, next to any
\* publications, renames and deletions and through failed calls, failed
\* clean-up and crashes, as long as a restoration runs beside no other
\* operation that publishes.
THEOREM PreviewsStayKept == Spec /\ []RestoresRunAlone => []PreviewsAreKept
<1>1. Init => PreviewInv
  <2>1. SUFFICES ASSUME Init
                 PROVE  PreviewInv
    OBVIOUS
  <2>2. \A r \in Requests : req[r] = Idle
    BY <2>1 DEF Init
  <2>3. ASSUME NEW r \in Requests
        PROVE  Careful(r)
    <3>1. req[r].pc = "idle" /\ req[r].op = "none"
      BY <2>2 DEF Idle
    <3>2. Recovers(r) /\ Supplies(r)
      BY <3>1 DEF Recovers, HasSource, Restoring, Supplies, Checked
    <3>3. Spoils(r) /\ Charged(r)
      BY <3>1 DEF Spoils, Pruning, Charged, Editing, LockPoints, Checked, Committed, Edits
    <3>4. QED
      BY <3>2, <3>3 DEF Careful
  <2>4. QED
    BY <2>1, <2>3 DEF Init, PreviewInv
<1>2. RestoresRunAlone /\ RowsAgree /\ RowsAgree' /\ PreviewInv /\ [Next]_vars => PreviewInv'
  BY PreviewStep
<1>3. PreviewInv => PreviewsAreKept
  BY DEF PreviewInv, PreviewsAreKept, Kept, Live, Exists
<1>4. QED
  BY <1>1, <1>2, <1>3, RowsAlwaysAgree, PTL DEF Spec

(***************************************************************************)
(* Files without a row.  When nothing is running none is left, as long as  *)
(* a rename runs beside nothing that writes, a deletion beside nothing     *)
(* that publishes, and the process never dies while a request that writes  *)
(* is under way.  Uploads, edits, cover changes, restorations and their    *)
(* prunes may interleave, and any call may fail.                           *)
(***************************************************************************)
WritesKeepApart ==
  \A p, q \in Requests : p # q =>
    /\ req[p].op = "update" => req[q].op \notin Writing
    /\ req[p].op = "delete" => req[q].op \notin Edits

CrashesSpareWrites == (\E r \in Requests : req[r].op \in Writing) => UNCHANGED crashes

Keyed(k) == \E e \in revisions : e.key = k

\* The files without a row that a request under way will still delete, make a
\* row's, or rename to a row's.
ClaimsKey(r, k) ==
  \/ req[r].pc \in {"createInsert", "publishCover", "publishCommit", "undo"}
       /\ k = req[r].entry.key
  \/ req[r].pc = "pruneObject" /\ \E e \in req[r].items : IsNext(r, e) /\ k = e.key
  \/ req[r].pc = "deleteSweep" /\ \E e \in req[r].items : k = e.key
  \/ req[r].pc \in {"updateCommit", "updateBack"} /\ Moved(r) /\ k = req[r].entry.key

ClaimsCover(r, c) ==
  \/ req[r].pc \in {"publishCommit", "undo"} /\ req[r].op = "cover" /\ c = req[r].entry.cover
  \/ /\ req[r].pc \in {"pruneObject", "pruneCheck", "pruneCover"}
     /\ \E e \in req[r].items : IsNext(r, e) /\ c = e.cover
  \/ req[r].pc = "deleteSweep" /\ \E e \in req[r].items : c = e.cover

Accounted ==
  /\ \A o \in objects : Keyed(o.key) \/ \E r \in Requests : ClaimsKey(r, o.key)
  /\ \A c \in previews : Named(c) \/ \E r \in Requests : ClaimsCover(r, c)

\* What is pruned is a row as it still stands; what a deletion lists are all rows.
Lists(r) ==
  /\ req[r].pc \in Pruning =>
       \A e \in req[r].items, d \in revisions : d.revision = e.revision => d = e
  /\ req[r].pc = "deleteCommit" => revisions \subseteq req[r].items

\* What is renamed is the file of the current row, and moves away from its key.
Renames(r) ==
  /\ req[r].pc \in {"updateRename", "updateCommit", "updateBack"} =>
       /\ Exists /\ req[r].book.revision = book.revision
       /\ \A e \in revisions : e.revision = book.revision => e.key = req[r].book.key
  /\ req[r].pc \in {"updateRename", "updateBack"} => Moved(r)
  /\ req[r].pc \in {"updateCommit", "updateBack"} /\ Moved(r) =>
       ~Stored(objects, req[r].book.key)

CurrentKey == Live => \A e \in revisions : e.revision = book.revision => e.key = book.key

TidyInv ==
  /\ CurrentKey /\ 0 \notin previews
  /\ \A r \in Requests : Lists(r) /\ Renames(r)
  /\ lapses = 0 => Accounted

(***************************************************************************)
(* One step of one request.                                                *)
(***************************************************************************)
Underway == /\ RowsAgree /\ RowsAgree' /\ OnDuty /\ TidyInv /\ WritesKeepApart
            /\ lapses' = 0 => lapses = 0

\* A request that writes may change rows and files beside others that do.
Steady(r) ==
  \/ req[r].op \in Writing
  \/ /\ UNCHANGED <<revisions, objects>>
     /\ book'.revision = book.revision /\ (Exists => Exists')

\* Rows are added by an upload or a publication, and rekeyed by a rename.
RowsMove(r) ==
  \/ revisions' \subseteq revisions
  \/ req[r].pc = "createInsert" /\ book.state = "none"
  \/ req[r].pc = "publishCommit"
  \/ req[r].op = "update"

LEMMA OthersStayTidy ==
  ASSUME Underway, NEW r \in Requests, Own(r), Steady(r), RowsMove(r),
         NEW q \in Requests, q # r
  PROVE  Lists(q)' /\ Renames(q)'
<1>1. req'[q] = req[q] /\ (req[q].pc \in LockPoints => mutex = q)
  BY OthersAreUntouched DEF Underway
<1>2. Duty(q) /\ Duty(r) /\ Lists(q) /\ Renames(q)
  BY DEF Underway, OnDuty, TidyInv
<1>3. ASSUME req[q].pc \in Pruning \cup {"deleteCommit"}
      PROVE  revisions' \subseteq revisions
  <2>1. book.state # "none"
    BY <1>3 DEF Underway, RowsAgree, Proper, UploadIsFirst, Pruning, Committed
  <2>2. req[q].op \in Edits \cup {"delete"}
    BY <1>2, <1>3 DEF Duty, Pruning, Editing, LockPoints, Committed, DeletePoints
  <2>3. req[r].op # "update"
    BY <1>3, <2>2 DEF Underway, WritesKeepApart, Writing
  <2>4. req[r].pc # "publishCommit"
    <3>1. SUFFICES ASSUME req[r].pc = "publishCommit"
                   PROVE  FALSE
      OBVIOUS
    <3>2. mutex = r /\ req[r].op \in Edits
      BY <1>2, <3>1 DEF Underway, RowsAgree, Proper, LockHeld, LockPoints, Checked, Duty, Editing
    <3>3. req[q].pc \notin Pruning
      BY <1>1, <3>2 DEF LockPoints, Committed, Pruning
    <3>4. req[q].op = "delete"
      BY <1>2, <1>3, <3>3 DEF Duty, DeletePoints
    <3>5. QED
      BY <3>2, <3>4 DEF Underway, WritesKeepApart
  <2>5. QED
    BY <2>1, <2>3, <2>4 DEF RowsMove
<1>4. Lists(q)'
  BY <1>1, <1>2, <1>3 DEF Lists
<1>5. Renames(q)'
  <2>1. CASE req[q].pc \in RenamePoints
    <3>1. req[r].op \notin Writing
      BY <1>2, <2>1 DEF Duty, Underway, WritesKeepApart
    <3>2. QED
      BY <1>1, <1>2, <3>1 DEF Steady, Renames, Moved, Stored
  <2>2. CASE req[q].pc \notin RenamePoints
    BY <1>1, <2>2 DEF Renames, RenamePoints
  <2>3. QED
    BY <2>1, <2>2
<1>6. QED
  BY <1>4, <1>5

LEMMA TidyStays ==
  ASSUME Underway, NEW r \in Requests, Own(r), Steady(r), RowsMove(r), Lists(r)', Renames(r)',
         CurrentKey', 0 \notin previews', lapses' = 0 => Accounted'
  PROVE  TidyInv'
  BY OthersStayTidy DEF TidyInv

\* What files and rows do to what is accounted for, in a step of one request.
KeysMove(r) ==
  \A o \in objects' :
    \/ Keyed(o.key)' \/ ClaimsKey(r, o.key)'
    \/ Stored(objects, o.key) /\ ~Keyed(o.key) /\ ~ClaimsKey(r, o.key)

CoversMove(r) ==
  \A c \in previews' :
    \/ Named(c)' \/ ClaimsCover(r, c)'
    \/ c \in previews /\ ~Named(c) /\ ~ClaimsCover(r, c)

LEMMA AccountStays ==
  ASSUME RowsAgree, Accounted, NEW r \in Requests, Own(r), KeysMove(r), CoversMove(r)
  PROVE  Accounted'
<1>1. ASSUME NEW q \in Requests, q # r
      PROVE  /\ \A k : ClaimsKey(q, k) => ClaimsKey(q, k)'
             /\ \A c : ClaimsCover(q, c) => ClaimsCover(q, c)'
  <2>1. req'[q] = req[q]
    BY <1>1, OthersAreUntouched
  <2>2. QED
    BY <2>1 DEF ClaimsKey, ClaimsCover, IsNext, Moved
<1>2. ASSUME NEW o \in objects'
      PROVE  Keyed(o.key)' \/ \E q \in Requests : ClaimsKey(q, o.key)'
  <2>1. CASE Keyed(o.key)' \/ ClaimsKey(r, o.key)'
    BY <2>1
  <2>2. CASE Stored(objects, o.key) /\ ~Keyed(o.key) /\ ~ClaimsKey(r, o.key)
    <3>1. PICK q \in Requests : ClaimsKey(q, o.key)
      BY <2>2 DEF Accounted, Stored
    <3>2. QED
      BY <1>1, <2>2, <3>1
  <2>3. QED
    BY <1>2, <2>1, <2>2 DEF KeysMove
<1>3. ASSUME NEW c \in previews'
      PROVE  Named(c)' \/ \E q \in Requests : ClaimsCover(q, c)'
  <2>1. CASE Named(c)' \/ ClaimsCover(r, c)'
    BY <2>1
  <2>2. CASE c \in previews /\ ~Named(c) /\ ~ClaimsCover(r, c)
    <3>1. PICK q \in Requests : ClaimsCover(q, c)
      BY <2>2 DEF Accounted
    <3>2. QED
      BY <1>1, <2>2, <3>1
  <2>3. QED
    BY <1>3, <2>1, <2>2 DEF CoversMove
<1>4. QED
  BY <1>2, <1>3 DEF Accounted

\* Where nothing is claimed, and where nothing is said at all.
Claimants == {"createInsert", "publishCover", "publishCommit", "undo", "pruneObject",
              "pruneCheck", "pruneCover", "deleteSweep", "updateCommit", "updateBack"}

Bound == Claimants \cup Pruning \cup {"deleteCommit", "updateRename"}

LEMMA ClaimsNothing ==
  ASSUME NEW r \in Requests, req[r].pc \notin Claimants
  PROVE  \A k : ~ClaimsKey(r, k) /\ ~ClaimsCover(r, k)
  BY DEF Claimants, ClaimsKey, ClaimsCover

LEMMA UnboundIsTidy ==
  ASSUME NEW r \in Requests, req'[r].pc \notin Bound
  PROVE  Lists(r)' /\ Renames(r)'
  BY DEF Bound, Claimants, Lists, Renames

\* A step that leaves rows and files alone.
LEMMA StillTidy ==
  ASSUME Underway, NEW r \in Requests, Own(r), UNCHANGED <<db, objects, previews>>,
         \A k : ClaimsKey(r, k) => ClaimsKey(r, k)',
         \A c : ClaimsCover(r, c) => ClaimsCover(r, c)',
         Lists(r)', Renames(r)'
  PROVE  TidyInv'
<1>1. UNCHANGED <<book, revisions, objects, previews>>
  BY DEF db
<1>2. KeysMove(r)
  BY <1>1 DEF KeysMove, Keyed, Stored
<1>3. CoversMove(r)
  BY <1>1 DEF CoversMove, Named
<1>4. lapses' = 0 => Accounted'
  BY <1>2, <1>3, AccountStays DEF Underway, TidyInv
<1>5. CurrentKey' /\ 0 \notin previews' /\ Steady(r) /\ RowsMove(r)
  BY <1>1 DEF Underway, TidyInv, CurrentKey, Live, Steady, RowsMove, Exists
<1>6. QED
  BY <1>4, <1>5, TidyStays

LEMMA GoesTidily ==
  ASSUME Underway, NEW r \in Requests, NEW next, Become(r, next), Own(r),
         UNCHANGED <<db, objects, previews>>, req[r].pc \notin Claimants, next.pc \notin Bound
  PROVE  TidyInv'
<1>1. req'[r] = next
  BY Becomes DEF Underway
<1>2. QED
  BY <1>1, ClaimsNothing, UnboundIsTidy, StillTidy

LEMMA EndsTidily ==
  ASSUME Underway, NEW r \in Requests, Return(r), UNCHANGED <<db, objects, previews>>,
         req[r].pc \notin Claimants
  PROVE  TidyInv'
<1>1. Become(r, Idle) /\ Own(r)
  BY DEF Return, Own
<1>2. Idle.pc \notin Bound
  BY DEF Idle, Bound, Claimants, Pruning
<1>3. QED
  BY <1>1, <1>2, GoesTidily

LEMMA GotoTidily ==
  ASSUME Underway, NEW r \in Requests, NEW pc, Goto(r, pc), Own(r),
         UNCHANGED <<db, objects, previews>>, req[r].pc \notin Claimants, pc \notin Bound
  PROVE  TidyInv'
<1> DEFINE next == [req[r] EXCEPT !.pc = pc]
<1>1. next.pc = pc
  BY DEF Underway, RowsAgree, TypeOK, RequestType
<1>2. Become(r, next)
  BY DEF Goto
<1> HIDE DEF next
<1>3. QED
  BY <1>1, <1>2, GoesTidily

LEMMA AcceptTidy ==
  ASSUME Underway, NEW r \in Requests, AcceptAny(r)
  PROVE  TidyInv'
<1>1. PICK op : Accept(r, op)
  BY DEF AcceptAny, AcceptCreate, AcceptEdit, AcceptRestore, AcceptUpdate, AcceptOther
<1>2. UNCHANGED <<db, objects, previews, mutex>> /\ req[r].pc \notin Claimants
  BY <1>1 DEF Accept, At, files, Claimants
<1>3. ASSUME NEW next, Become(r, next),
             next.pc \in {"createSave", "lock", "restoreFind", "updateGet", "deleteGet",
                          "archive", "openGet"}
      PROVE  TidyInv'
  <2>1. Own(r) /\ next.pc \notin Bound
    BY <1>2, <1>3 DEF Own, Bound, Claimants, Pruning
  <2>2. QED
    BY <1>2, <1>3, <2>1, GoesTidily
<1>4. CASE AcceptCreate(r)
  BY <1>3, <1>4 DEF AcceptCreate, Idle
<1>5. ASSUME NEW kind \in {"edit", "cover"}, AcceptEdit(r, kind)
      PROVE  TidyInv'
  BY <1>3, <1>5 DEF AcceptEdit, Idle
<1>6. CASE AcceptRestore(r)
  BY <1>3, <1>6 DEF AcceptRestore, Idle
<1>7. CASE AcceptUpdate(r)
  BY <1>3, <1>7 DEF AcceptUpdate, Idle
<1>8. ASSUME NEW kind \in {"delete", "archive", "open"},
             NEW pc \in {"deleteGet", "archive", "openGet"}, AcceptOther(r, kind, pc)
      PROVE  TidyInv'
  BY <1>3, <1>8 DEF AcceptOther, Idle
<1>9. QED
  BY <1>4, <1>5, <1>6, <1>7, <1>8 DEF AcceptAny

\* The steps at whose ends nothing is claimed.
LEMMA ReadsTidy ==
  ASSUME Underway, NEW r \in Requests,
         \/ RestoreFind(r) \/ RestoreRead(r) \/ PublishGet(r) \/ PublishMutate(r)
         \/ DeleteGet(r) \/ OpenGet(r) \/ OpenRead(r)
  PROVE  TidyInv'
<1>1. UNCHANGED <<db, objects, previews>> /\ req[r].pc \notin Claimants
  BY DEF RestoreFind, RestoreRead, PublishGet, PublishMutate, DeleteGet, OpenGet, OpenRead, At,
         files, Claimants
<1>2. CASE Return(r)
  BY <1>1, <1>2, EndsTidily
<1>3. ASSUME NEW next, Become(r, next), UNCHANGED mutex,
             next.pc \in {"restoreRead", "lock", "publishMutate", "publishSave", "deleteList",
                          "openRead"}
      PROVE  TidyInv'
  <2>1. Own(r) /\ next.pc \notin Bound
    BY <1>3 DEF Own, Bound, Claimants, Pruning
  <2>2. QED
    BY <1>1, <1>3, <2>1, GoesTidily
<1>4. \A e : /\ [req[r] EXCEPT !.source = e, !.pc = "restoreRead"].pc = "restoreRead"
             /\ [req[r] EXCEPT !.source.text = e, !.pc = "lock"].pc = "lock"
             /\ [req[r] EXCEPT !.entry = e, !.pc = "publishSave"].pc = "publishSave"
             /\ [req[r] EXCEPT !.book = e, !.pc = "publishMutate"].pc = "publishMutate"
             /\ [req[r] EXCEPT !.book = e, !.pc = "deleteList"].pc = "deleteList"
             /\ [req[r] EXCEPT !.book = e, !.pc = "openRead"].pc = "openRead"
  BY DEF Underway, RowsAgree, TypeOK, RequestType
<1>5. CASE RestoreFind(r)
  BY <1>2, <1>3, <1>4, <1>5 DEF RestoreFind
<1>6. CASE RestoreRead(r)
  BY <1>2, <1>3, <1>4, <1>6 DEF RestoreRead
<1>7. CASE PublishGet(r)
  BY <1>2, <1>3, <1>4, <1>7 DEF PublishGet
<1>8. CASE PublishMutate(r)
  <2>1. ASSUME NEW entry, UNCHANGED mutex,
               Become(r, [req[r] EXCEPT !.entry = entry, !.pc = "publishSave"])
        PROVE  TidyInv'
    BY <1>3, <1>4, <2>1
  <2>2. QED
    BY <1>2, <1>8, <2>1 DEF PublishMutate
<1>9. CASE DeleteGet(r)
  BY <1>2, <1>3, <1>4, <1>9 DEF DeleteGet
<1>10. CASE OpenGet(r)
  BY <1>2, <1>3, <1>4, <1>10 DEF OpenGet
<1>11. CASE OpenRead(r)
  BY <1>2, <1>11 DEF OpenRead
<1>12. QED
  BY <1>5, <1>6, <1>7, <1>8, <1>9, <1>10, <1>11

LEMMA LockTidy ==
  ASSUME Underway, NEW r \in Requests, PublishLock(r) \/ PublishReply(r)
  PROVE  TidyInv'
<1>1. UNCHANGED <<db, objects, previews>> /\ req[r].pc \notin Claimants
  BY DEF PublishLock, PublishReply, At, files, Claimants
<1>2. "publishGet" \notin Bound /\ "pruneSelect" \notin Bound
  BY DEF Bound, Claimants, Pruning
<1>3. CASE PublishLock(r)
  <2>1. Own(r)
    BY <1>3 DEF PublishLock, Unlocked, Goto, Own
  <2>2. QED
    BY <1>1, <1>2, <1>3, <2>1, GotoTidily DEF PublishLock
<1>4. CASE PublishReply(r)
  <2>1. ASSUME Goto(r, "pruneSelect"), UNCHANGED mutex
        PROVE  TidyInv'
    <3>1. Own(r)
      BY <2>1 DEF Goto, Own
    <3>2. QED
      BY <1>1, <1>2, <2>1, <3>1, GotoTidily
  <2>2. QED
    BY <1>1, <1>4, <2>1, EndsTidily DEF PublishReply
<1>5. QED
  BY <1>3, <1>4

(***************************************************************************)
(* What is saved is claimed until it is a row's.                           *)
(***************************************************************************)
LEMMA SaveTidy ==
  ASSUME Underway, NEW r \in Requests, NEW key, NEW text, objects' = Save(objects, key, text),
         UNCHANGED <<db, previews>>, req[r].op \in Writing, Own(r),
         req[r].pc \notin Claimants, ClaimsKey(r, key)', req'[r].pc \notin Pruning,
         req'[r].pc \in {"createInsert", "publishCover", "publishCommit"}
  PROVE  TidyInv'
<1>1. UNCHANGED <<book, revisions, previews>>
  BY DEF db
<1>2. KeysMove(r)
  <2>1. SUFFICES ASSUME NEW o \in objects'
                 PROVE  \/ Keyed(o.key)' \/ ClaimsKey(r, o.key)'
                        \/ Stored(objects, o.key) /\ ~Keyed(o.key) /\ ~ClaimsKey(r, o.key)
    BY DEF KeysMove
  <2>2. CASE o.key = key
    BY <2>2
  <2>3. CASE o.key # key
    <3>1. o \in objects
      BY <2>1, <2>3 DEF Save, Without
    <3>2. QED
      BY <1>1, <3>1, ClaimsNothing DEF Keyed, Stored
  <2>4. QED
    BY <2>2, <2>3
<1>3. CoversMove(r)
  BY <1>1, ClaimsNothing DEF CoversMove, Named
<1>4. lapses' = 0 => Accounted'
  BY <1>2, <1>3, AccountStays DEF Underway, TidyInv
<1>5. CurrentKey' /\ 0 \notin previews' /\ Steady(r) /\ RowsMove(r)
  BY <1>1 DEF Underway, TidyInv, CurrentKey, Live, Steady, RowsMove
<1>6. Lists(r)' /\ Renames(r)'
  BY DEF Lists, Renames
<1>7. QED
  BY <1>4, <1>5, <1>6, TidyStays

LEMMA SavesTidy ==
  ASSUME Underway, NEW r \in Requests, CreateSave(r) \/ PublishSave(r)
  PROVE  TidyInv'
<1>1. UNCHANGED <<db, previews>> /\ req[r].pc \notin Claimants
  BY DEF CreateSave, PublishSave, At, Claimants
<1>2. req[r].op \in Writing
  BY DEF CreateSave, PublishSave, At, Underway, OnDuty, Duty, Calm
<1>3. CASE Return(r) /\ UNCHANGED objects
  BY <1>1, <1>3, EndsTidily
<1>4. CASE CreateSave(r)
  <2>1. ASSUME NEW entry, UNCHANGED mutex, objects' = Save(objects, entry.key, Blank),
               Become(r, [req[r] EXCEPT !.pc = "createInsert", !.entry = entry])
        PROVE  TidyInv'
    <3> DEFINE next == [req[r] EXCEPT !.pc = "createInsert", !.entry = entry]
    <3>1. next.pc = "createInsert" /\ next.entry = entry
      BY DEF Underway, RowsAgree, TypeOK, RequestType
    <3>2. Become(r, next)
      BY <2>1
    <3> HIDE DEF next
    <3>3. req'[r] = next /\ Own(r)
      BY <2>1, <3>2, Becomes DEF Own, Underway
    <3>4. PICK key : key = entry.key
      OBVIOUS
    <3>5. ClaimsKey(r, key)'
      BY <3>1, <3>3, <3>4 DEF ClaimsKey
    <3>6. QED
      BY <1>1, <1>2, <2>1, <3>1, <3>3, <3>4, <3>5, SaveTidy DEF Pruning
  <2>2. ASSUME NEW now, NEW name, UNCHANGED mutex,
               objects' = Save(objects, [dir |-> drawn + 1, name |-> name], Blank),
               Become(r, [req[r] EXCEPT
                            !.pc = "createInsert",
                            !.entry = [revision |-> now,
                                       key |-> [dir |-> drawn + 1, name |-> name], cover |-> 0,
                                       text |-> Blank, original |-> TRUE]])
        PROVE  TidyInv'
    <3> DEFINE entry == [revision |-> now, key |-> [dir |-> drawn + 1, name |-> name],
                         cover |-> 0, text |-> Blank, original |-> TRUE]
    <3>1. entry.key = [dir |-> drawn + 1, name |-> name]
      OBVIOUS
    <3>2. Become(r, [req[r] EXCEPT !.pc = "createInsert", !.entry = entry])
      BY <2>2
    <3> HIDE DEF entry
    <3>3. QED
      BY <2>1, <2>2, <3>1, <3>2
  <2>3. QED
    BY <1>3, <1>4, <2>2 DEF CreateSave
<1>5. CASE PublishSave(r)
  <2>1. ASSUME NEW pc \in {"publishCover", "publishCommit"}, Goto(r, pc), UNCHANGED mutex,
               objects' = Save(objects, req[r].entry.key, req[r].entry.text)
        PROVE  TidyInv'
    <3>1. req'[r].pc = pc /\ req'[r].entry = req[r].entry /\ Own(r)
      BY <2>1, GotoKeeps DEF Underway, Keeps, Goto, Own
    <3>2. PICK key : key = req[r].entry.key
      OBVIOUS
    <3>3. ClaimsKey(r, key)'
      BY <3>1, <3>2 DEF ClaimsKey
    <3>4. QED
      BY <1>1, <1>2, <2>1, <3>1, <3>2, <3>3, SaveTidy DEF Pruning
  <2>2. QED
    BY <1>3, <1>5, <2>1 DEF PublishSave
<1>6. QED
  BY <1>4, <1>5

\* A publication or an upload that fails still claims what it saved.
LEMMA FailsTidy ==
  ASSUME Underway, NEW r \in Requests, Goto(r, "undo"), UNCHANGED mutex,
         UNCHANGED <<db, objects, previews>>,
         req[r].pc \in {"createInsert", "publishCover", "publishCommit"}
  PROVE  TidyInv'
<1>1. req'[r].pc = "undo" /\ Keeps(r) /\ Own(r)
  BY GotoKeeps DEF Underway, Goto, Own
<1>2. \A k : ClaimsKey(r, k) => ClaimsKey(r, k)'
  BY <1>1 DEF ClaimsKey, Keeps
<1>3. \A c : ClaimsCover(r, c) => ClaimsCover(r, c)'
  BY <1>1 DEF ClaimsCover, Keeps
<1>4. Lists(r)' /\ Renames(r)'
  BY <1>1 DEF Lists, Renames, Pruning
<1>5. QED
  BY <1>1, <1>2, <1>3, <1>4, StillTidy

LEMMA PublishCoverTidy ==
  ASSUME Underway, NEW r \in Requests, PublishCover(r)
  PROVE  TidyInv'
<1>1. UNCHANGED <<db, objects, mutex>> /\ req[r].pc = "publishCover"
      /\ UNCHANGED <<book, revisions>>
  BY DEF PublishCover, At, db
<1>2. CASE Goto(r, "undo") /\ UNCHANGED previews
  BY <1>1, <1>2, FailsTidy
<1>3. CASE previews' = previews \cup {req[r].entry.cover} /\ Goto(r, "publishCommit")
  <2>1. req'[r].pc = "publishCommit" /\ Keeps(r) /\ Own(r)
    BY <1>1, <1>3, GotoKeeps DEF Underway, Goto, Own
  <2>2. req[r].op = "cover" /\ req[r].entry.cover # 0
    BY <1>1 DEF Underway, OnDuty, Duty, Checked
  <2>3. KeysMove(r)
    BY <1>1, <2>1 DEF KeysMove, Keyed, Stored, ClaimsKey, Keeps
  <2>4. CoversMove(r)
    <3>1. SUFFICES ASSUME NEW c \in previews'
                   PROVE  \/ Named(c)' \/ ClaimsCover(r, c)'
                          \/ c \in previews /\ ~Named(c) /\ ~ClaimsCover(r, c)
      BY DEF CoversMove
    <3>2. CASE c = req[r].entry.cover
      BY <2>1, <2>2, <3>2 DEF ClaimsCover, Keeps
    <3>3. CASE c \in previews
      BY <1>1, <3>3 DEF Named, ClaimsCover
    <3>4. QED
      BY <1>3, <3>1, <3>2, <3>3
  <2>5. lapses' = 0 => Accounted'
    BY <2>1, <2>3, <2>4, AccountStays DEF Underway, TidyInv
  <2>6. CurrentKey' /\ 0 \notin previews' /\ Steady(r) /\ RowsMove(r)
    BY <1>1, <1>3, <2>2
       DEF Underway, TidyInv, CurrentKey, Live, Steady, Writing, Edits, RowsMove
  <2>7. Lists(r)' /\ Renames(r)'
    BY <2>1 DEF Lists, Renames, Pruning
  <2>8. QED
    BY <2>1, <2>5, <2>6, <2>7, TidyStays
<1>4. QED
  BY <1>2, <1>3 DEF PublishCover

\* The entry becomes the current row, with the key of the book.
LEMMA EntersTidy ==
  ASSUME Underway, NEW r \in Requests, Own(r), revisions' = revisions \cup {req[r].entry},
         UNCHANGED <<objects, previews>>, req[r].op \in Writing, req'[r].pc \notin Bound,
         \/ req[r].pc = "createInsert" /\ book.state = "none"
         \/ req[r].pc = "publishCommit" /\ ~Listed(req[r].entry.revision),
         book'.revision = req[r].entry.revision, book'.key = req[r].entry.key
  PROVE  TidyInv'
<1>1. KeysMove(r)
  BY DEF KeysMove, Keyed, Stored, ClaimsKey
<1>2. CoversMove(r)
  BY DEF CoversMove, Named, ClaimsCover
<1>3. lapses' = 0 => Accounted'
  BY <1>1, <1>2, AccountStays DEF Underway, TidyInv
<1>4. CurrentKey'
  <2>1. ASSUME NEW e \in revisions', e.revision = book'.revision
        PROVE  e.key = book'.key
    <3>1. CASE e \in revisions
      <4>1. req[r].pc = "createInsert" /\ book.state = "none"
        BY <2>1, <3>1 DEF Listed
      <4>2. revisions = {}
        BY <4>1 DEF Underway, RowsAgree, Ledger, Exists
      <4>3. QED
        BY <3>1, <4>2
    <3>2. QED
      BY <2>1, <3>1
  <2>2. QED
    BY <2>1 DEF CurrentKey
<1>5. 0 \notin previews' /\ Steady(r) /\ RowsMove(r)
  BY DEF Underway, TidyInv, Steady, RowsMove
<1>6. QED
  BY <1>3, <1>4, <1>5, UnboundIsTidy, TidyStays

LEMMA CommitTidy ==
  ASSUME Underway, NEW r \in Requests, CreateInsert(r) \/ PublishCommit(r)
  PROVE  TidyInv'
<1>1. UNCHANGED <<objects, previews>> /\ req[r].pc \in {"createInsert", "publishCommit"}
  BY DEF CreateInsert, PublishCommit, At, files
<1>2. req[r].op \in Writing
  BY <1>1 DEF Underway, OnDuty, Duty, Calm
<1>3. CASE Goto(r, "undo") /\ UNCHANGED mutex /\ UNCHANGED db
  BY <1>1, <1>3, FailsTidy
<1>4. ASSUME CreateInsert(r), Return(r), revisions' = revisions \cup {req[r].entry},
             book'.revision = req[r].entry.revision, book'.key = req[r].entry.key
      PROVE  TidyInv'
  <2>1. req'[r] = Idle /\ Own(r)
    BY <1>4, Becomes DEF Return, Own, Underway
  <2>2. req'[r].pc \notin Bound
    BY <2>1 DEF Idle, Bound, Claimants, Pruning
  <2>3. book.state = "none" /\ req[r].pc = "createInsert"
    BY <1>4 DEF CreateInsert, At, Underway, RowsAgree, Proper, UploadIsFirst
  <2>4. QED
    BY <1>1, <1>2, <1>4, <2>1, <2>2, <2>3, EntersTidy
<1>5. ASSUME PublishCommit(r), MayCommit(r), revisions' = revisions \cup {req[r].entry},
             book'.revision = req[r].entry.revision, book'.key = req[r].entry.key,
             Goto(r, "publishReply"), UNCHANGED mutex
      PROVE  TidyInv'
  <2>1. req'[r].pc = "publishReply" /\ Own(r)
    BY <1>5, GotoKeeps DEF Goto, Own, Underway
  <2>2. req'[r].pc \notin Bound
    BY <2>1 DEF Bound, Claimants, Pruning
  <2>3. req[r].pc = "publishCommit" /\ ~Listed(req[r].entry.revision)
    BY <1>5 DEF PublishCommit, At, MayCommit
  <2>4. QED
    BY <1>1, <1>2, <1>5, <2>1, <2>2, <2>3, EntersTidy
<1>6. CASE CreateInsert(r)
  <2>1. ASSUME book' = [state |-> "live", revision |-> req[r].entry.revision,
                        key |-> req[r].entry.key, cover |-> 0, text |-> req[r].entry.text]
        PROVE  book'.revision = req[r].entry.revision /\ book'.key = req[r].entry.key
    BY <2>1
  <2>2. QED
    BY <1>3, <1>4, <1>6, <2>1 DEF CreateInsert
<1>7. CASE PublishCommit(r)
  <2>1. ASSUME book' = [book EXCEPT !.revision = req[r].entry.revision,
                                    !.key = req[r].entry.key, !.cover = req[r].entry.cover,
                                    !.text = req[r].entry.text]
        PROVE  book'.revision = req[r].entry.revision /\ book'.key = req[r].entry.key
    BY <2>1 DEF Underway, RowsAgree, TypeOK, BookRow
  <2>2. QED
    BY <1>3, <1>5, <1>7, <2>1 DEF PublishCommit
<1>8. QED
  BY <1>6, <1>7

LEMMA UndoTidy ==
  ASSUME Underway, NEW r \in Requests, Undo(r)
  PROVE  TidyInv'
<1>1. UNCHANGED db /\ Return(r) /\ req[r].pc = "undo" /\ UNCHANGED <<book, revisions>>
  BY DEF Undo, At, db
<1>2. req'[r].pc \notin Bound /\ Own(r)
  BY <1>1, Becomes DEF Underway, Return, Own, Idle, Bound, Claimants, Pruning
<1>3. req[r].op \in Writing
  BY <1>1 DEF Underway, OnDuty, Duty, Calm
<1>4. previews' \subseteq previews
  BY DEF Undo, files
<1>5. lapses' = 0 => Accounted'
  <2>1. CASE Lapse
    BY <2>1 DEF Lapse, Underway, RowsAgree, TypeOK
  <2>2. CASE /\ objects' = Delete(objects, req[r].entry.key)
             /\ previews' = previews \ SavedPreviews(r)
    <3>1. KeysMove(r)
      BY <1>1, <2>2 DEF KeysMove, Delete, Without, Keyed, Stored, ClaimsKey
    <3>2. CoversMove(r)
      BY <1>1, <2>2 DEF CoversMove, SavedPreviews, Named, ClaimsCover
    <3>3. QED
      BY <1>2, <3>1, <3>2, AccountStays DEF Underway, TidyInv
  <2>3. QED
    BY <2>1, <2>2 DEF Undo
<1>6. CurrentKey' /\ 0 \notin previews' /\ Steady(r) /\ RowsMove(r)
  BY <1>1, <1>3, <1>4 DEF Underway, TidyInv, CurrentKey, Live, Steady, RowsMove
<1>7. QED
  BY <1>2, <1>5, <1>6, UnboundIsTidy, TidyStays

(***************************************************************************)
(* The prune.  A row that goes leaves its files to the request that took   *)
(* it, until they go too.                                                  *)
(***************************************************************************)
LEMMA OneIsNext ==
  ASSUME Underway, NEW r \in Requests, req[r].pc \in Pruning, NEW d, NEW e,
         IsNext(r, d), IsNext(r, e)
  PROVE  d = e
<1>1. d \in req[r].items /\ e \in req[r].items
  BY DEF IsNext
<1>2. d.revision \in Nat /\ e.revision \in Nat
  BY <1>1 DEF Underway, RowsAgree, TypeOK, RequestType, Entry
<1>3. ~(d.revision > e.revision) /\ ~(e.revision > d.revision)
  BY <1>1 DEF IsNext, Newer
<1>4. d.revision = e.revision
  BY <1>2, <1>3
<1>5. QED
  BY <1>1, <1>4 DEF Underway, OnDuty, Duty

LEMMA PrunesTidily ==
  ASSUME Underway, NEW r \in Requests, Own(r), Keeps(r), req[r].pc \in Pruning,
         req'[r].pc \in Pruning, revisions' \subseteq revisions, UNCHANGED book,
         previews' \subseteq previews, lapses' = 0 => KeysMove(r) /\ CoversMove(r)
  PROVE  TidyInv'
<1>1. Lists(r)' /\ Renames(r)'
  <2>1. Lists(r)
    BY DEF Underway, TidyInv
  <2>2. Lists(r)'
    BY <2>1 DEF Lists, Keeps, Pruning
  <2>3. QED
    BY <2>2 DEF Renames, Pruning
<1>2. lapses' = 0 => Accounted'
  BY AccountStays DEF Underway, TidyInv
<1>3. CurrentKey' /\ 0 \notin previews' /\ RowsMove(r)
  BY DEF Underway, TidyInv, CurrentKey, Live, RowsMove
<1>4. Steady(r)
  BY DEF Underway, OnDuty, Duty, Pruning, Calm, Steady
<1>5. QED
  BY <1>1, <1>2, <1>3, <1>4, TidyStays

LEMMA PruneSelectTidy ==
  ASSUME Underway, NEW r \in Requests, PruneSelect(r)
  PROVE  TidyInv'
<1>1. UNCHANGED <<db, objects, previews>> /\ req[r].pc = "pruneSelect"
  BY DEF PruneSelect, At, files
<1>2. req[r].pc \notin Claimants
  BY <1>1 DEF Claimants
<1>3. ASSUME UNCHANGED mutex, NEW limit, NEW rows \in SUBSET Prunable(limit),
             Become(r, [req[r] EXCEPT !.items = rows, !.pc = "pruneRow"])
      PROVE  TidyInv'
  <2> DEFINE next == [req[r] EXCEPT !.items = rows, !.pc = "pruneRow"]
  <2>1. next.pc = "pruneRow" /\ next.items = rows
    BY DEF Underway, RowsAgree, TypeOK, RequestType
  <2>2. Become(r, next)
    BY <1>3
  <2> HIDE DEF next
  <2>3. req'[r] = next /\ Own(r)
    BY <1>3, <2>2, Becomes DEF Own, Underway
  <2>4. ASSUME NEW e \in rows, NEW d \in revisions, d.revision = e.revision
        PROVE  d = e
    BY <2>4 DEF Prunable, Underway, RowsAgree, Ledger
  <2>5. Lists(r)' /\ Renames(r)'
    BY <1>1, <2>1, <2>3, <2>4 DEF Lists, Renames, db
  <2>6. QED
    BY <1>1, <1>2, <2>3, <2>5, ClaimsNothing, StillTidy
<1>4. QED
  BY <1>3 DEF PruneSelect

LEMMA PruneRowTidy ==
  ASSUME Underway, NEW r \in Requests, PruneRow(r)
  PROVE  TidyInv'
<1>1. UNCHANGED <<book, objects, previews>> /\ req[r].pc = "pruneRow" /\ req[r].pc \in Pruning
  BY DEF PruneRow, At, files, Pruning
<1>2. req[r].pc \notin Claimants
  BY <1>1 DEF Claimants
<1>3. \A k : ~ClaimsKey(r, k) /\ ~ClaimsCover(r, k)
  BY <1>2, ClaimsNothing
<1>4. CASE Return(r) /\ UNCHANGED revisions
  BY <1>1, <1>2, <1>4, EndsTidily DEF db
<1>5. ASSUME NEW e, NextItem(r, e), UNCHANGED revisions, UNCHANGED mutex
      PROVE  TidyInv'
  <2>1. req'[r].pc = "pruneRow" /\ Keeps(r) /\ Own(r)
    BY <1>5, NextItemKeeps DEF NextItem, Own, Underway
  <2>2. KeysMove(r) /\ CoversMove(r)
    BY <1>1, <1>3, <1>5 DEF KeysMove, CoversMove, Keyed, Named, Stored
  <2>3. QED
    BY <1>1, <1>5, <2>1, <2>2, PrunesTidily DEF Pruning
<1>6. ASSUME NEW e \in req[r].items, IsNext(r, e), Goto(r, "pruneObject"), UNCHANGED mutex,
             revisions' = revisions \ Matched(r, e)
      PROVE  TidyInv'
  <2>1. req'[r].pc = "pruneObject" /\ Keeps(r) /\ Own(r) /\ req'[r].items = req[r].items
    BY <1>6, GotoKeeps DEF Goto, Own, Underway
  <2>2. IsNext(r, e)'
    BY <1>6, <2>1 DEF IsNext
  <2>3. ASSUME NEW d \in revisions, d \notin revisions'
        PROVE  d = e
    BY <1>1, <1>6, <2>3 DEF Matched, Underway, TidyInv, Lists
  <2>4. KeysMove(r)
    <3>1. SUFFICES ASSUME NEW o \in objects', Keyed(o.key), ~Keyed(o.key)'
                   PROVE  ClaimsKey(r, o.key)'
      BY <1>1, <1>3 DEF KeysMove, Stored
    <3>2. o.key = e.key
      BY <2>3, <3>1 DEF Keyed
    <3>3. QED
      BY <1>6, <2>1, <2>2, <3>2 DEF ClaimsKey
  <2>5. CoversMove(r)
    <3>1. SUFFICES ASSUME NEW c \in previews', Named(c), ~Named(c)'
                   PROVE  ClaimsCover(r, c)'
      BY <1>1, <1>3 DEF CoversMove
    <3>2. c = e.cover
      BY <2>3, <3>1 DEF Named
    <3>3. QED
      BY <1>6, <2>1, <2>2, <3>2 DEF ClaimsCover
  <2>6. QED
    BY <1>1, <1>6, <2>1, <2>4, <2>5, PrunesTidily DEF Pruning
<1>7. ASSUME NEW e \in req[r].items, revisions' = revisions \ Matched(r, e), Matched(r, e) = {}
      PROVE  UNCHANGED revisions
  BY <1>7
<1>8. QED
  BY <1>4, <1>5, <1>6, <1>7 DEF PruneRow

LEMMA PruneObjectTidy ==
  ASSUME Underway, NEW r \in Requests, PruneObject(r)
  PROVE  TidyInv'
<1>1. UNCHANGED <<book, revisions, previews, mutex>> /\ req[r].pc = "pruneObject"
      /\ req[r].pc \in Pruning
  BY DEF PruneObject, At, db, Pruning
<1>2. PICK e \in req[r].items :
        /\ IsNext(r, e)
        /\ objects' = Delete(objects, e.key) \/ Lapse
        /\ IF e.cover = 0 THEN NextItem(r, e) ELSE Goto(r, "pruneCheck")
  BY DEF PruneObject
<1>3. lapses' = 0 => objects' = Delete(objects, e.key)
  BY <1>2 DEF Lapse, Underway, RowsAgree, TypeOK
<1>4. \A d : IsNext(r, d) => d = e
  BY <1>1, <1>2, OneIsNext
<1>5. lapses' = 0 => KeysMove(r)
  BY <1>1, <1>3, <1>4 DEF KeysMove, Delete, Without, Keyed, Stored, ClaimsKey
<1>6. CASE e.cover = 0
  <2>1. req'[r].pc = "pruneRow" /\ Keeps(r) /\ Own(r)
    BY <1>1, <1>2, <1>6, NextItemKeeps DEF NextItem, Own, Underway
  <2>2. CoversMove(r)
    BY <1>1, <1>4, <1>6 DEF CoversMove, Named, ClaimsCover, Underway, TidyInv
  <2>3. QED
    BY <1>1, <1>5, <2>1, <2>2, PrunesTidily DEF Pruning
<1>7. CASE e.cover # 0
  <2>1. req'[r].pc = "pruneCheck" /\ Keeps(r) /\ Own(r) /\ req'[r].items = req[r].items
    BY <1>1, <1>2, <1>7, GotoKeeps DEF Goto, Own, Underway
  <2>2. CoversMove(r)
    BY <1>1, <2>1 DEF CoversMove, Named, ClaimsCover, IsNext
  <2>3. QED
    BY <1>1, <1>5, <2>1, <2>2, PrunesTidily DEF Pruning
<1>8. QED
  BY <1>6, <1>7

LEMMA PruneCoverTidy ==
  ASSUME Underway, NEW r \in Requests, PruneCheck(r) \/ PruneCover(r)
  PROVE  TidyInv'
<1>1. UNCHANGED <<book, revisions, objects, mutex>> /\ req[r].pc \in {"pruneCheck", "pruneCover"}
      /\ req[r].pc \in Pruning
  BY DEF PruneCheck, PruneCover, At, db, files, Pruning
<1>2. KeysMove(r)
  BY <1>1 DEF KeysMove, Keyed, Stored, ClaimsKey
<1>3. CASE PruneCheck(r) /\ Goto(r, "pruneCover")
  <2>1. UNCHANGED previews
    BY <1>3 DEF PruneCheck, files
  <2>2. req'[r].pc = "pruneCover" /\ Keeps(r) /\ Own(r) /\ req'[r].items = req[r].items
    BY <1>1, <1>3, GotoKeeps DEF Goto, Own, Underway
  <2>3. CoversMove(r)
    BY <1>1, <2>1, <2>2 DEF CoversMove, Named, ClaimsCover, IsNext
  <2>4. QED
    BY <1>1, <1>2, <2>1, <2>2, <2>3, PrunesTidily DEF Pruning
<1>4. ASSUME NEW e \in req[r].items, IsNext(r, e), NextItem(r, e), previews' \subseteq previews,
             lapses' = 0 => e.cover \notin previews' \/ Named(e.cover)
      PROVE  TidyInv'
  <2>1. req'[r].pc = "pruneRow" /\ Keeps(r) /\ Own(r)
    BY <1>1, <1>4, NextItemKeeps DEF NextItem, Own, Underway
  <2>2. \A d : IsNext(r, d) => d = e
    BY <1>1, <1>4, OneIsNext
  <2>3. ASSUME lapses' = 0, NEW c \in previews'
        PROVE  Named(c)' \/ (c \in previews /\ ~Named(c) /\ ~ClaimsCover(r, c))
    <3>1. CASE Named(c)
      BY <1>1, <3>1 DEF Named
    <3>2. CASE ~Named(c)
      <4>1. c # e.cover
        BY <1>4, <2>3, <3>2
      <4>2. ~ClaimsCover(r, c)
        BY <1>1, <2>2, <4>1 DEF ClaimsCover
      <4>3. QED
        BY <1>4, <2>3, <3>2, <4>2
    <3>3. QED
      BY <3>1, <3>2
  <2>4. lapses' = 0 => CoversMove(r)
    BY <2>3 DEF CoversMove
  <2>5. QED
    BY <1>1, <1>2, <1>4, <2>1, <2>4, PrunesTidily DEF Pruning
<1>5. Lapse => lapses' # 0
  BY DEF Lapse, Underway, RowsAgree, TypeOK
<1>6. CASE PruneCheck(r)
  <2>1. \A c : CoverReferenced(c) => Named(c)
    BY DEF CoverReferenced, Named, Underway, RowsAgree, Ledger, Exists
  <2>2. UNCHANGED previews
    BY <1>6 DEF PruneCheck, files
  <2>3. QED
    BY <1>3, <1>4, <1>5, <1>6, <2>1, <2>2 DEF PruneCheck
<1>7. CASE PruneCover(r)
  BY <1>4, <1>5, <1>7 DEF PruneCover
<1>8. QED
  BY <1>6, <1>7

(***************************************************************************)
(* The rename.                                                             *)
(***************************************************************************)
LEMMA UpdateGetTidy ==
  ASSUME Underway, NEW r \in Requests, UpdateGet(r)
  PROVE  TidyInv'
<1>1. UNCHANGED <<db, objects, previews>> /\ req[r].pc = "updateGet"
      /\ UNCHANGED <<book, revisions>>
  BY DEF UpdateGet, At, files, db
<1>2. req[r].pc \notin Claimants
  BY <1>1 DEF Claimants
<1>3. ASSUME NEW key, Live, UNCHANGED mutex,
             Become(r, [req[r] EXCEPT !.book = book, !.entry.key = key,
                                      !.pc = IF key = book.key THEN "updateCommit"
                                                               ELSE "updateRename"])
      PROVE  TidyInv'
  <2> DEFINE pc == IF key = book.key THEN "updateCommit" ELSE "updateRename"
             next == [req[r] EXCEPT !.book = book, !.entry.key = key, !.pc = pc]
  <2>1. next.pc = pc /\ next.book = book /\ next.entry.key = key
    BY DEF Underway, RowsAgree, TypeOK, RequestType, Entry
  <2>2. Become(r, next)
    BY <1>3
  <2> HIDE DEF next
  <2>3. req'[r] = next /\ Own(r)
    BY <1>3, <2>2, Becomes DEF Own, Underway
  <2>4. Moved(r)' <=> key # book.key
    BY <2>1, <2>3 DEF Moved
  <2>5. Renames(r)'
    BY <1>1, <1>3, <2>1, <2>3, <2>4
       DEF Renames, Underway, TidyInv, CurrentKey, Live, Exists
  <2>6. Lists(r)'
    BY <2>1, <2>3 DEF Lists, Pruning
  <2>7. QED
    BY <1>1, <1>2, <2>3, <2>5, <2>6, ClaimsNothing, StillTidy
<1>4. QED
  BY <1>1, <1>2, <1>3, EndsTidily DEF UpdateGet

LEMMA UpdateRenameTidy ==
  ASSUME Underway, NEW r \in Requests, UpdateRename(r)
  PROVE  TidyInv'
<1>1. UNCHANGED <<db, previews>> /\ req[r].pc = "updateRename"
      /\ UNCHANGED <<book, revisions>>
  BY DEF UpdateRename, At, db
<1>2. req[r].pc \notin Claimants /\ Moved(r) /\ Renames(r) /\ req[r].op \in Writing
  BY <1>1 DEF Claimants, Underway, TidyInv, Renames, OnDuty, Duty, Calm
<1>3. ASSUME objects' = Rename(objects, req[r].book.key, req[r].entry.key),
             Goto(r, "updateCommit"), UNCHANGED mutex
      PROVE  TidyInv'
  <2>1. req'[r].pc = "updateCommit" /\ Keeps(r) /\ Own(r)
    BY <1>3, GotoKeeps DEF Goto, Own, Underway
  <2>2. Moved(r)'
    BY <1>2, <2>1 DEF Moved, Keeps
  <2>3. PICK old, new : old = req[r].book.key /\ new = req[r].entry.key
    OBVIOUS
  <2>4. old # new
    BY <1>2, <2>3 DEF Moved
  <2>5. \A o \in objects' : o.key # old /\ (o.key = new \/ o \in objects)
    BY <1>3, <2>3, <2>4 DEF Rename, Without
  <2>6. KeysMove(r)
    <3>1. ASSUME NEW o \in objects', o.key = new
          PROVE  ClaimsKey(r, o.key)'
      BY <2>1, <2>2, <2>3, <3>1 DEF ClaimsKey, Keeps
    <3>2. ASSUME NEW o \in objects', o \in objects
          PROVE  Keyed(o.key)' \/ (Stored(objects, o.key) /\ ~Keyed(o.key)
                                                         /\ ~ClaimsKey(r, o.key))
      BY <1>1, <1>2, <3>2, ClaimsNothing DEF Keyed, Stored
    <3>3. QED
      BY <2>5, <3>1, <3>2 DEF KeysMove
  <2>7. CoversMove(r)
    BY <1>1, <1>2, ClaimsNothing DEF CoversMove, Named
  <2>8. lapses' = 0 => Accounted'
    BY <2>1, <2>6, <2>7, AccountStays DEF Underway, TidyInv
  <2>9. Renames(r)'
    BY <1>1, <1>2, <2>1, <2>2, <2>3, <2>5 DEF Renames, Keeps, Stored, Exists
  <2>10. Lists(r)' /\ CurrentKey' /\ 0 \notin previews' /\ Steady(r) /\ RowsMove(r)
    BY <1>1, <1>2, <2>1
       DEF Lists, Pruning, Underway, TidyInv, CurrentKey, Live, Steady, RowsMove
  <2>11. QED
    BY <2>1, <2>8, <2>9, <2>10, TidyStays
<1>4. QED
  BY <1>1, <1>2, <1>3, EndsTidily DEF UpdateRename

LEMMA UpdateBackTidy ==
  ASSUME Underway, NEW r \in Requests, UpdateBack(r)
  PROVE  TidyInv'
<1>1. UNCHANGED <<db, previews>> /\ req[r].pc = "updateBack" /\ Return(r)
      /\ UNCHANGED <<book, revisions>>
  BY DEF UpdateBack, At, db
<1>2. Moved(r) /\ Renames(r) /\ req[r].op \in Writing
  BY <1>1 DEF Underway, TidyInv, Renames, OnDuty, Duty, Calm
<1>3. req'[r].pc \notin Bound /\ Own(r)
  BY <1>1, Becomes DEF Underway, Return, Own, Idle, Bound, Claimants, Pruning
<1>4. Keyed(req[r].book.key)
  BY <1>1, <1>2 DEF Renames, Keyed, Underway, RowsAgree, Ledger
<1>5. lapses' = 0 => Accounted'
  <2>1. CASE Lapse
    BY <2>1 DEF Lapse, Underway, RowsAgree, TypeOK
  <2>2. CASE objects' = RenamedBack(r)
    <3>1. PICK old, new : old = req[r].book.key /\ new = req[r].entry.key
      OBVIOUS
    <3>2. old # new
      BY <1>2, <3>1 DEF Moved
    <3>3. \A o \in objects' : o.key # new /\ (o.key = old \/ o \in objects)
      BY <2>2, <3>1, <3>2 DEF RenamedBack, Rename, Without
    <3>4. KeysMove(r)
      BY <1>1, <1>4, <3>1, <3>3 DEF KeysMove, Keyed, Stored, ClaimsKey
    <3>5. CoversMove(r)
      BY <1>1 DEF CoversMove, Named, ClaimsCover
    <3>6. QED
      BY <1>3, <3>4, <3>5, AccountStays DEF Underway, TidyInv
  <2>3. QED
    BY <2>1, <2>2 DEF UpdateBack
<1>6. CurrentKey' /\ 0 \notin previews' /\ Steady(r) /\ RowsMove(r)
  BY <1>1, <1>2 DEF Underway, TidyInv, CurrentKey, Live, Steady, RowsMove
<1>7. QED
  BY <1>3, <1>5, <1>6, UnboundIsTidy, TidyStays

LEMMA UpdateCommitTidy ==
  ASSUME Underway, NEW r \in Requests, UpdateCommit(r)
  PROVE  TidyInv'
<1>1. UNCHANGED <<objects, previews>> /\ req[r].pc = "updateCommit"
  BY DEF UpdateCommit, At, files
<1>2. Renames(r) /\ req[r].op = "update" /\ req[r].op \in Writing
  BY <1>1 DEF Underway, TidyInv, OnDuty, Duty, RenamePoints, Writing
<1>3. ASSUME Return(r)
      PROVE  req'[r].pc \notin Bound /\ Own(r)
  BY <1>3, Becomes DEF Underway, Return, Own, Idle, Bound, Claimants, Pruning
<1>4. CASE Moved(r) /\ Goto(r, "updateBack") /\ UNCHANGED mutex /\ UNCHANGED db
  <2>1. req'[r].pc = "updateBack" /\ Keeps(r) /\ Own(r)
    BY <1>4, GotoKeeps DEF Goto, Own, Underway
  <2>2. Moved(r)'
    BY <1>4, <2>1 DEF Moved, Keeps
  <2>3. /\ \A k : ClaimsKey(r, k) => ClaimsKey(r, k)'
        /\ \A c : ClaimsCover(r, c) => ClaimsCover(r, c)'
    BY <1>1, <2>1, <2>2 DEF ClaimsKey, ClaimsCover, Keeps
  <2>4. UNCHANGED <<book, revisions, objects>>
    BY <1>1, <1>4 DEF db
  <2>5. Renames(r)'
    BY <1>1, <1>2, <1>4, <2>1, <2>2, <2>4 DEF Renames, Keeps, Stored, Exists
  <2>6. Lists(r)'
    BY <2>1 DEF Lists, Pruning
  <2>7. QED
    BY <1>1, <1>4, <2>1, <2>3, <2>5, <2>6, StillTidy
<1>5. CASE ~Moved(r) /\ Return(r) /\ UNCHANGED db
  <2>1. \A k : ~ClaimsKey(r, k) /\ ~ClaimsCover(r, k)
    BY <1>1, <1>5 DEF ClaimsKey, ClaimsCover
  <2>2. QED
    BY <1>1, <1>3, <1>5, <2>1, UnboundIsTidy, StillTidy
<1>6. CASE /\ Moved(r) => Listed(req[r].book.revision)
           /\ book' = IF Live THEN [book EXCEPT !.key = req[r].entry.key] ELSE book
           /\ revisions' = Rekeyed(r) /\ Return(r)
  <2>1. /\ Live' => Live /\ book'.key = req[r].entry.key
        /\ book'.revision = book.revision
    BY <1>6 DEF Live, Underway, RowsAgree, TypeOK, BookRow
  <2>2. PICK new : new = req[r].entry.key
    OBVIOUS
  <2>3. ASSUME NEW d \in revisions, Moved(r), d.revision = book.revision
        PROVE  [d EXCEPT !.key = new] \in revisions'
    BY <1>1, <1>2, <1>6, <2>2, <2>3 DEF Rekeyed, Renames
  <2>4. ASSUME NEW d \in revisions, ~Moved(r) \/ d.revision # book.revision
        PROVE  d \in revisions'
    BY <1>1, <1>2, <1>6, <2>4 DEF Rekeyed, Renames
  <2>5. ASSUME NEW d \in revisions
        PROVE  /\ [d EXCEPT !.key = new].key = new
               /\ [d EXCEPT !.key = new].cover = d.cover
               /\ [d EXCEPT !.key = new].revision = d.revision
    BY DEF Underway, RowsAgree, TypeOK, Entry
  <2>6. KeysMove(r)
    <3>1. CASE ~Moved(r)
      BY <1>1, <2>4, <3>1 DEF KeysMove, Keyed, Stored, ClaimsKey
    <3>2. CASE Moved(r)
      <4>1. PICK d \in revisions : d.revision = book.revision
        BY <1>1, <1>2 DEF Renames, Underway, RowsAgree, Ledger
      <4>2. Keyed(new)'
        BY <2>3, <2>5, <3>2, <4>1 DEF Keyed
      <4>3. ASSUME NEW o \in objects, Keyed(o.key)
            PROVE  Keyed(o.key)'
        <5>1. PICK e \in revisions : e.key = o.key
          BY <4>3 DEF Keyed
        <5>2. e.key # req[r].book.key
          BY <1>1, <1>2, <3>2, <5>1 DEF Renames, Stored
        <5>3. e.revision # book.revision
          BY <1>1, <1>2, <5>2 DEF Renames
        <5>4. QED
          BY <2>4, <5>1, <5>3 DEF Keyed
      <4>4. QED
        BY <1>1, <2>2, <4>2, <4>3 DEF KeysMove, Stored, ClaimsKey
    <3>3. QED
      BY <3>1, <3>2
  <2>7. CoversMove(r)
    <3>1. ASSUME NEW c, Named(c)
          PROVE  Named(c)'
      BY <2>3, <2>4, <2>5, <3>1 DEF Named
    <3>2. QED
      BY <1>1, <3>1 DEF CoversMove, ClaimsCover
  <2>8. lapses' = 0 => Accounted'
    BY <1>3, <1>6, <2>6, <2>7, AccountStays DEF Underway, TidyInv
  <2>9. CurrentKey'
    <3>1. ASSUME Live', NEW e \in revisions', e.revision = book'.revision
          PROVE  e.key = book'.key
      <4>1. PICK d \in revisions :
              e = IF Moved(r) /\ d.revision = req[r].book.revision
                    THEN [d EXCEPT !.key = req[r].entry.key] ELSE d
        BY <1>6, <3>1 DEF Rekeyed
      <4>2. e.revision = d.revision
        BY <2>2, <2>5, <4>1
      <4>3. d.revision = book.revision /\ d.key = req[r].book.key
            /\ book.revision = req[r].book.revision
        BY <1>1, <1>2, <2>1, <3>1, <4>2 DEF Renames
      <4>4. e.key = req[r].entry.key
        BY <2>2, <2>5, <4>1, <4>3 DEF Moved
      <4>5. QED
        BY <2>1, <3>1, <4>4
    <3>2. QED
      BY <3>1 DEF CurrentKey
  <2>10. 0 \notin previews' /\ Steady(r) /\ RowsMove(r)
    BY <1>1, <1>2 DEF Underway, TidyInv, Steady, RowsMove
  <2>11. QED
    BY <1>3, <1>6, <2>8, <2>9, <2>10, UnboundIsTidy, TidyStays
<1>7. QED
  BY <1>4, <1>5, <1>6 DEF UpdateCommit

(***************************************************************************)
(* The deletion: it claims the files of all rows when the rows go.         *)
(***************************************************************************)
LEMMA DeleteListTidy ==
  ASSUME Underway, NEW r \in Requests, DeleteList(r)
  PROVE  TidyInv'
<1>1. UNCHANGED <<db, objects, previews>> /\ req[r].pc \notin Claimants
      /\ UNCHANGED revisions
  BY DEF DeleteList, At, files, db, Claimants
<1>2. ASSUME NEW rows, revisions \subseteq rows, UNCHANGED mutex,
             Become(r, [req[r] EXCEPT !.items = rows, !.pc = "deleteCommit"])
      PROVE  TidyInv'
  <2> DEFINE next == [req[r] EXCEPT !.items = rows, !.pc = "deleteCommit"]
  <2>1. next.pc = "deleteCommit" /\ next.items = rows
    BY DEF Underway, RowsAgree, TypeOK, RequestType
  <2>2. Become(r, next)
    BY <1>2
  <2> HIDE DEF next
  <2>3. req'[r] = next /\ Own(r)
    BY <1>2, <2>2, Becomes DEF Own, Underway
  <2>4. Lists(r)' /\ Renames(r)'
    BY <1>1, <1>2, <2>1, <2>3 DEF Lists, Renames, Pruning
  <2>5. QED
    BY <1>1, <2>3, <2>4, ClaimsNothing, StillTidy
<1>3. QED
  BY <1>1, <1>2, EndsTidily DEF DeleteList

LEMMA DeleteCommitTidy ==
  ASSUME Underway, NEW r \in Requests, DeleteCommit(r)
  PROVE  TidyInv'
<1>1. UNCHANGED <<objects, previews>> /\ req[r].pc = "deleteCommit" /\ req[r].pc \notin Claimants
  BY DEF DeleteCommit, At, files, Claimants
<1>2. CASE Return(r) /\ UNCHANGED db
  BY <1>1, <1>2, EndsTidily
<1>3. CASE /\ book' = [NoBook EXCEPT !.state = "gone"] /\ revisions' = {}
           /\ Goto(r, "deleteSweep") /\ UNCHANGED mutex
  <2>1. req'[r].pc = "deleteSweep" /\ Own(r) /\ req'[r].items = req[r].items
    BY <1>3, GotoKeeps DEF Goto, Own, Underway
  <2>2. revisions \subseteq req[r].items
    BY <1>1 DEF Underway, TidyInv, Lists
  <2>3. KeysMove(r)
    BY <1>1, <2>1, <2>2, ClaimsNothing DEF KeysMove, Keyed, Stored, ClaimsKey
  <2>4. CoversMove(r)
    BY <1>1, <2>1, <2>2, ClaimsNothing DEF CoversMove, Named, ClaimsCover
  <2>5. lapses' = 0 => Accounted'
    BY <2>1, <2>3, <2>4, AccountStays DEF Underway, TidyInv
  <2>6. Lists(r)' /\ Renames(r)' /\ CurrentKey' /\ 0 \notin previews' /\ RowsMove(r)
    BY <1>1, <1>3, <2>1
       DEF Lists, Pruning, Renames, CurrentKey, Underway, TidyInv, RowsMove
  <2>7. Steady(r)
    BY <1>1 DEF Underway, OnDuty, Duty, Calm, Steady
  <2>8. QED
    BY <2>1, <2>5, <2>6, <2>7, TidyStays
<1>4. QED
  BY <1>2, <1>3 DEF DeleteCommit

LEMMA DeleteSweepTidy ==
  ASSUME Underway, NEW r \in Requests, DeleteSweep(r)
  PROVE  TidyInv'
<1>1. UNCHANGED db /\ req[r].pc = "deleteSweep" /\ UNCHANGED <<book, revisions>>
  BY DEF DeleteSweep, At, db
<1>2. req[r].op \in Writing
  BY <1>1 DEF Underway, OnDuty, Duty, Calm
<1>3. previews' \subseteq previews
  BY DEF DeleteSweep, files
<1>4. CurrentKey' /\ 0 \notin previews' /\ Steady(r) /\ RowsMove(r)
  BY <1>1, <1>2, <1>3 DEF Underway, TidyInv, CurrentKey, Live, Steady, RowsMove
<1>5. ASSUME Return(r)
      PROVE  req'[r].pc \notin Bound /\ Own(r)
  BY <1>5, Becomes DEF Underway, Return, Own, Idle, Bound, Claimants, Pruning
<1>6. CASE req[r].items = {} /\ Return(r) /\ UNCHANGED files
  <2>1. \A k : ~ClaimsKey(r, k) /\ ~ClaimsCover(r, k)
    BY <1>1, <1>6 DEF ClaimsKey, ClaimsCover
  <2>2. UNCHANGED <<db, objects, previews>>
    BY <1>1, <1>6 DEF files
  <2>3. QED
    BY <1>5, <1>6, <2>1, <2>2, UnboundIsTidy, StillTidy
<1>7. ASSUME NEW e \in req[r].items, objects' = Delete(objects, e.key),
             previews' = previews \ {e.cover}, UNCHANGED mutex,
             Become(r, [req[r] EXCEPT !.items = req[r].items \ {e}])
      PROVE  TidyInv'
  <2> DEFINE next == [req[r] EXCEPT !.items = req[r].items \ {e}]
  <2>1. next.pc = "deleteSweep" /\ next.items = req[r].items \ {e}
    BY <1>1 DEF Underway, RowsAgree, TypeOK, RequestType
  <2>2. Become(r, next)
    BY <1>7
  <2> HIDE DEF next
  <2>3. req'[r] = next /\ Own(r)
    BY <1>7, <2>2, Becomes DEF Own, Underway
  <2>4. ASSUME NEW d \in req[r].items, d # e
        PROVE  d \in req'[r].items
    BY <2>1, <2>3, <2>4
  <2>5. req'[r].pc = "deleteSweep"
    BY <2>1, <2>3
  <2>6. KeysMove(r)
    <3>1. ASSUME NEW o \in objects'
          PROVE  o \in objects /\ o.key # e.key
      BY <1>7, <3>1 DEF Delete, Without
    <3>2. ASSUME NEW o \in objects', ClaimsKey(r, o.key)
          PROVE  ClaimsKey(r, o.key)'
      <4>1. PICK d \in req[r].items : o.key = d.key
        BY <1>1, <3>2 DEF ClaimsKey
      <4>2. d \in req'[r].items
        BY <2>4, <3>1, <4>1
      <4>3. QED
        BY <2>5, <4>1, <4>2 DEF ClaimsKey
    <3>3. QED
      BY <1>1, <3>1, <3>2 DEF KeysMove, Keyed, Stored
  <2>7. CoversMove(r)
    <3>1. ASSUME NEW c \in previews', ClaimsCover(r, c)
          PROVE  ClaimsCover(r, c)'
      <4>1. PICK d \in req[r].items : c = d.cover
        BY <1>1, <3>1 DEF ClaimsCover
      <4>2. d \in req'[r].items
        BY <1>7, <2>4, <3>1, <4>1
      <4>3. QED
        BY <2>5, <4>1, <4>2 DEF ClaimsCover
    <3>2. QED
      BY <1>1, <1>7, <3>1 DEF CoversMove, Named
  <2>8. lapses' = 0 => Accounted'
    BY <2>3, <2>6, <2>7, AccountStays DEF Underway, TidyInv
  <2>9. Lists(r)' /\ Renames(r)'
    BY <2>5 DEF Lists, Pruning, Renames
  <2>10. QED
    BY <1>4, <2>3, <2>8, <2>9, TidyStays
<1>8. CASE Lapse /\ Return(r)
  <2>1. lapses' # 0
    BY <1>8 DEF Lapse, Underway, RowsAgree, TypeOK
  <2>2. QED
    BY <1>4, <1>5, <1>8, <2>1, UnboundIsTidy, TidyStays
<1>9. QED
  BY <1>6, <1>7, <1>8 DEF DeleteSweep

LEMMA ArchiveTidy ==
  ASSUME Underway, NEW r \in Requests, Archive(r)
  PROVE  TidyInv'
<1>1. UNCHANGED <<revisions, objects, previews>> /\ req[r].pc = "archive" /\ Return(r)
  BY DEF Archive, At, files
<1>2. req'[r].pc \notin Bound /\ Own(r) /\ req[r].pc \notin Claimants
  BY <1>1, Becomes DEF Underway, Return, Own, Idle, Bound, Claimants, Pruning
<1>3. /\ book'.revision = book.revision /\ book'.key = book.key
      /\ Live' => Live
      /\ Exists => Exists'
  BY DEF Archive, Live, Exists, Underway, RowsAgree, TypeOK, BookRow
<1>4. KeysMove(r) /\ CoversMove(r)
  BY <1>1, <1>2, ClaimsNothing DEF KeysMove, CoversMove, Keyed, Named, Stored
<1>5. lapses' = 0 => Accounted'
  BY <1>2, <1>4, AccountStays DEF Underway, TidyInv
<1>6. CurrentKey' /\ 0 \notin previews' /\ Steady(r) /\ RowsMove(r)
  BY <1>1, <1>3 DEF Underway, TidyInv, CurrentKey, Steady, RowsMove
<1>7. QED
  BY <1>2, <1>5, <1>6, UnboundIsTidy, TidyStays

\* A crash while nothing writes: nothing was claimed.
LEMMA CrashTidy ==
  ASSUME Underway, Crash, CrashesSpareWrites
  PROVE  TidyInv'
<1>1. UNCHANGED <<book, revisions, objects, previews>> /\ crashes' # crashes
  BY DEF Crash, db, files, Underway, RowsAgree, TypeOK
<1>2. ASSUME NEW q \in Requests
      PROVE  /\ \A k : ~ClaimsKey(q, k) /\ ~ClaimsCover(q, k)
             /\ Lists(q)' /\ Renames(q)'
  <2>1. req[q].pc \notin Claimants
    BY <1>1, <1>2 DEF CrashesSpareWrites, Underway, OnDuty, Duty, Calm, Claimants
  <2>2. req'[q].pc \notin Bound
    BY <1>2 DEF Crash, Idle, Bound, Claimants, Pruning
  <2>3. QED
    BY <2>1, <2>2, ClaimsNothing, UnboundIsTidy
<1>3. lapses' = 0 => Accounted'
  BY <1>1, <1>2 DEF Underway, TidyInv, Accounted, Keyed, Named
<1>4. CurrentKey' /\ 0 \notin previews'
  BY <1>1 DEF Underway, TidyInv, CurrentKey, Live
<1>5. QED
  BY <1>2, <1>3, <1>4 DEF TidyInv

(***************************************************************************)
(* Put together.                                                           *)
(***************************************************************************)
LEMMA LapsesOnlyGrow ==
  ASSUME RowsAgree, [Next]_vars
  PROVE  lapses' = 0 => lapses = 0
<1>1. lapses' = lapses \/ lapses' = lapses + 1
  <2>1. \A r \in Requests : AcceptAny(r) => UNCHANGED lapses
    BY DEF AcceptAny, AcceptCreate, AcceptEdit, AcceptRestore, AcceptUpdate, AcceptOther, Accept
  <2>2. ASSUME NEW r \in Requests, PublishLock(r) \/ Step(r)
        PROVE  NoFault \/ Fault \/ Lapse
    <3>1. CASE Publish(r) \/ PublishLock(r)
      BY <3>1 DEF Publish, PublishLock, PublishGet, PublishMutate, PublishSave, PublishCover,
                  PublishCommit, Undo, PublishReply
    <3>2. CASE Prune(r)
      BY <3>2 DEF Prune, PruneSelect, PruneRow, PruneObject, PruneCheck, PruneCover
    <3>3. CASE CreateSave(r) \/ CreateInsert(r) \/ RestoreFind(r) \/ RestoreRead(r)
      BY <3>3 DEF CreateSave, CreateInsert, RestoreFind, RestoreRead
    <3>4. CASE UpdateGet(r) \/ UpdateRename(r) \/ UpdateCommit(r) \/ UpdateBack(r)
      BY <3>4 DEF UpdateGet, UpdateRename, UpdateCommit, UpdateBack
    <3>5. CASE DeleteGet(r) \/ DeleteList(r) \/ DeleteCommit(r) \/ DeleteSweep(r)
      BY <3>5 DEF DeleteGet, DeleteList, DeleteCommit, DeleteSweep
    <3>6. CASE Archive(r) \/ OpenGet(r) \/ OpenRead(r)
      BY <3>6 DEF Archive, OpenGet, OpenRead
    <3>7. QED
      BY <2>2, <3>1, <3>2, <3>3, <3>4, <3>5, <3>6 DEF Step
  <2>3. QED
    BY <2>1, <2>2 DEF Next, Crash, vars, NoFault, budgets, Fault, Lapse
<1>2. QED
  BY <1>1 DEF RowsAgree, TypeOK

LEMMA TidyStep ==
  ASSUME RowsAgree, RowsAgree', OnDuty, TidyInv, WritesKeepApart, [Next]_vars,
         [CrashesSpareWrites]_vars
  PROVE  TidyInv'
<1>1. Underway
  BY LapsesOnlyGrow DEF Underway
<1>2. CASE UNCHANGED vars
  <2>1. UNCHANGED <<book, revisions, objects, previews, req, lapses>>
    BY <1>2 DEF vars
  <2>2. \A r \in Requests : Lists(r)' /\ Renames(r)'
    BY <2>1 DEF Underway, TidyInv, Lists, Renames, Moved, Stored, Exists
  <2>3. CurrentKey' /\ 0 \notin previews'
    BY <2>1 DEF Underway, TidyInv, CurrentKey, Live
  <2>4. \A r \in Requests : /\ \A k : ClaimsKey(r, k) <=> ClaimsKey(r, k)'
                           /\ \A c : ClaimsCover(r, c) <=> ClaimsCover(r, c)'
    BY <2>1 DEF ClaimsKey, ClaimsCover, IsNext, Moved
  <2>5. lapses' = 0 => Accounted'
    <3>1. /\ \A k : Keyed(k) <=> Keyed(k)'
          /\ \A c : Named(c) <=> Named(c)'
      BY <2>1 DEF Keyed, Named
    <3>2. QED
      BY <2>1, <2>4, <3>1 DEF TidyInv, Accounted
  <2>6. QED
    BY <2>2, <2>3, <2>5 DEF TidyInv
<1>3. CASE Crash
  <2>1. crashes' # crashes
    BY <1>3 DEF Crash, RowsAgree, TypeOK
  <2>2. CrashesSpareWrites
    BY <2>1 DEF vars
  <2>3. QED
    BY <1>1, <1>3, <2>2, CrashTidy
<1>4. ASSUME NEW r \in Requests, AcceptAny(r) \/ PublishLock(r) \/ Step(r)
      PROVE  TidyInv'
  <2>1. CASE Publish(r)
    BY <1>1, <2>1, ReadsTidy, SavesTidy, PublishCoverTidy, CommitTidy, UndoTidy, LockTidy
       DEF Publish
  <2>2. CASE Prune(r)
    BY <1>1, <2>2, PruneSelectTidy, PruneRowTidy, PruneObjectTidy, PruneCoverTidy DEF Prune
  <2>3. CASE UpdateGet(r) \/ UpdateRename(r) \/ UpdateCommit(r) \/ UpdateBack(r)
    BY <1>1, <2>3, UpdateGetTidy, UpdateRenameTidy, UpdateCommitTidy, UpdateBackTidy
  <2>4. CASE DeleteGet(r) \/ DeleteList(r) \/ DeleteCommit(r) \/ DeleteSweep(r)
    BY <1>1, <2>4, ReadsTidy, DeleteListTidy, DeleteCommitTidy, DeleteSweepTidy
  <2>5. QED
    BY <1>1, <1>4, <2>1, <2>2, <2>3, <2>4, AcceptTidy, LockTidy, SavesTidy, CommitTidy, ReadsTidy,
       ArchiveTidy DEF Step
<1>5. QED
  BY <1>2, <1>3, <1>4 DEF Next

\* When nothing is running every file belongs to a row, whatever uploads, edits
\* and prunes interleaved and whatever calls failed, unless a call that cleans
\* up failed itself; as long as no rename ran beside a request that writes, no
\* deletion beside one that publishes, and no crash interrupted one that writes.
THEOREM NothingIsOrphaned ==
  Spec /\ []WritesKeepApart /\ [][CrashesSpareWrites]_vars => []NoOrphans
<1>1. Init => TidyInv
  <2>1. SUFFICES ASSUME Init
                 PROVE  TidyInv
    OBVIOUS
  <2>2. \A r \in Requests : req[r].pc = "idle"
    BY <2>1 DEF Init, Idle
  <2>3. \A r \in Requests : Lists(r) /\ Renames(r)
    BY <2>2 DEF Lists, Renames, Pruning
  <2>4. QED
    BY <2>1, <2>3 DEF Init, TidyInv, CurrentKey, Accounted
<1>2. RowsAgree /\ RowsAgree' /\ OnDuty /\ TidyInv /\ WritesKeepApart /\ [Next]_vars
        /\ [CrashesSpareWrites]_vars => TidyInv'
  BY TidyStep
<1>3. OnDuty /\ TidyInv => NoOrphans
  <2>1. SUFFICES ASSUME OnDuty, TidyInv, Quiet, lapses = 0
                 PROVE  /\ \A o \in objects : Keyed(o.key)
                        /\ \A c \in previews : Named(c)
    BY DEF NoOrphans, Keyed, Named
  <2>2. ASSUME NEW q \in Requests
        PROVE  \A k : ~ClaimsKey(q, k) /\ ~ClaimsCover(q, k)
    <3>1. req[q].pc \notin Claimants
      BY <2>1 DEF Quiet, OnDuty, Duty, Writing, Edits, Calm, Claimants
    <3>2. QED
      BY <3>1, ClaimsNothing
  <2>3. QED
    BY <2>1, <2>2 DEF TidyInv, Accounted
<1>4. QED
  BY <1>1, <1>2, <1>3, RowsAlwaysAgree, DutyIsKept, PTL DEF Spec
=============================================================================
