-------------------------- MODULE WorkspaceProofs --------------------------
(***************************************************************************)
(* Proofs about Workspace: for every set of uploads, sources and pictures, *)
(* for every limit of entries and any number of edits.                     *)
(*                                                                         *)
(* The argument has layers, each an inductive invariant of its own.        *)
(*                                                                         *)
(*   - WorkspaceInv needs nothing of the uploads but their shape.  Its     *)
(*     core is Good: what the workspace knows of its chapters is true of   *)
(*     its document (Listed), and the document is one that inspect can     *)
(*     list (Consistent).  It holds after edits that were refused too, and *)
(*     says nothing of files: a deleted file may still be named by an      *)
(*     item.                                                               *)
(*   - BodiesInv, what is in the files, needs no more.                     *)
(*   - NamesInv is about files, and needs that no upload has a file whose  *)
(*     name AddChapter makes up, unless it is a chapter under that name    *)
(*     (UploadsArePlaced).  The run epub_collision shows what happens to   *)
(*     other uploads.                                                      *)
(*   - CoverInv ties the picture in the row to the one in the package, and *)
(*     needs that an upload shows one cover (UploadsShowOneCover).         *)
(*   - OthersInv is about the chapters an edit is not about, and needs     *)
(*     that a cover is a file of its own (UploadsKeepCoversApart).         *)
(*                                                                         *)
(* Every operation has two lemmas: what it leaves (...Changed, ...Added,   *)
(* ...) and that this ends well (...EndsWell).  Records are updated by     *)
(* operators that stay folded (Refiled, PutItems, ...), with a lemma each  *)
(* for the parts of the result.                                            *)
(***************************************************************************)
EXTENDS WorkspaceProperties, Induction

(* The parts of the Go structs, and what is true of them.                  *)

IsSpace(w) ==
  w = [fixed |-> w.fixed, files |-> w.files, document |-> w.document,
       content |-> w.content, cover |-> w.cover, edit |-> w.edit]

IsMap(f) == f = [x \in DOMAIN f |-> f[x]]

IsEdit(edit) ==
  edit = [operation |-> edit.operation, id |-> edit.id, title |-> edit.title,
          order |-> edit.order, refused |-> edit.refused]

\* What inspect makes sure of that is about the document alone.
Consistent(document) ==
  /\ document.spine # << >>
  /\ \A j, k \in DOMAIN document.items : document.items[j].id = document.items[k].id => j = k
  /\ \A k \in DOMAIN document.spine : document.spine[k] \in ManifestIds(document)

\* What a workspace knows of its document is true of it.
Listed(w) ==
  /\ w.content.title = w.document.title
  /\ DOMAIN w.content.chapters = DOMAIN w.document.spine
  /\ \A k \in DOMAIN w.document.spine :
       /\ w.content.chapters[k].id = w.document.spine[k]
       /\ w.content.chapters[k].href = ItemOf(w.document, w.document.spine[k]).href

\* A workspace after Open and after every edit, refused or not.
Good(w) ==
  /\ IsSpace(w) /\ IsDocument(w.document) /\ IsEdit(w.edit)
  /\ IsMap(w.files)
  /\ Consistent(w.document) /\ Listed(w)
  /\ w.cover \in Pictures \cup {NoPicture}
  /\ w.edit.title \in Titles /\ w.edit.refused \in BOOLEAN

-----------------------------------------------------------------------------

LEMMA ItemIsFound ==
  ASSUME NEW document, NEW id \in ManifestIds(document)
  PROVE  ItemOf(document, id) \in Items(document) /\ ItemOf(document, id).id = id
BY DEF ManifestIds, ItemOf

\* A chapter the way inspect lists it.
Listing(w, id) ==
  [id |-> ItemOf(w.document, id).id, href |-> ItemOf(w.document, id).href,
   title |-> w.files[ItemOf(w.document, id).href].title]

LEMMA ContentParts ==
  ASSUME NEW w
  PROVE  /\ ContentOf(w).title = w.document.title
         /\ DOMAIN ContentOf(w).chapters = DOMAIN w.document.spine
         /\ \A k \in DOMAIN w.document.spine :
              ContentOf(w).chapters[k] = Listing(w, w.document.spine[k])
<1>1. ContentOf(w) =
        [title |-> w.document.title,
         chapters |-> [k \in DOMAIN w.document.spine |-> Listing(w, w.document.spine[k])]]
  BY DEF ContentOf, Listing
<1>2. QED
  BY <1>1

LEMMA ListingParts ==
  ASSUME NEW w, NEW id \in ManifestIds(w.document)
  PROVE  /\ Listing(w, id).id = id
         /\ Listing(w, id).href = ItemOf(w.document, id).href
         /\ Listing(w, id).title = w.files[ItemOf(w.document, id).href].title
BY ItemIsFound DEF Listing

LEMMA AcceptedIsListed ==
  ASSUME NEW w, Accepted(w), w.content = ContentOf(w)
  PROVE  Consistent(w.document) /\ Listed(w)
<1>1. Consistent(w.document)
  BY DEF Accepted, ManifestAccepted, Consistent
<1>2. ASSUME NEW k \in DOMAIN w.document.spine
      PROVE  /\ w.content.chapters[k].id = w.document.spine[k]
             /\ w.content.chapters[k].href = ItemOf(w.document, w.document.spine[k]).href
  <2>1. w.content.chapters[k] = Listing(w, w.document.spine[k])
    BY ContentParts
  <2>2. w.document.spine[k] \in ManifestIds(w.document)
    BY <1>1 DEF Consistent
  <2>3. QED
    BY <2>1, <2>2, ListingParts
<1>3. w.content.title = w.document.title /\ DOMAIN w.content.chapters = DOMAIN w.document.spine
  BY ContentParts
<1>4. Listed(w)
  BY <1>2, <1>3 DEF Listed
<1>5. QED
  BY <1>1, <1>4

\* The edit of a refused operation.
Refusing(edit) == [edit EXCEPT !.refused = TRUE]

\* The document of a package decides alone whether inspect accepts it.
SamePackage(v, w) == v.fixed = w.fixed /\ v.files = w.files /\ v.document = w.document

LEMMA SameIsAccepted ==
  ASSUME NEW v, NEW w, SamePackage(v, w)
  PROVE  /\ Accepted(v) <=> Accepted(w)
         /\ ContentOf(v) = ContentOf(w)
BY DEF SamePackage, Accepted, ManifestAccepted, ItemAccepted, ContentOf

\* What updates of a workspace leave.
Refiled(w, x) == [w EXCEPT !.files = x]
Rewritten(w, x) == [w EXCEPT !.document = x]
Relisted(w, x) == [w EXCEPT !.content = x]
Recovered(w, x) == [w EXCEPT !.cover = x]
Marked(w, x) == [w EXCEPT !.edit = x]

HasParts(r, fixed, files, document, content, cover, edit) ==
  /\ IsSpace(r) /\ r.fixed = fixed /\ r.files = files /\ r.document = document
  /\ r.content = content /\ r.cover = cover /\ r.edit = edit

LEMMA RefiledSpace ==
  ASSUME NEW w, IsSpace(w), NEW x
  PROVE  HasParts(Refiled(w, x), w.fixed, x, w.document, w.content, w.cover, w.edit)
BY DEF IsSpace, Refiled, HasParts

LEMMA RewrittenSpace ==
  ASSUME NEW w, IsSpace(w), NEW x
  PROVE  HasParts(Rewritten(w, x), w.fixed, w.files, x, w.content, w.cover, w.edit)
BY DEF IsSpace, Rewritten, HasParts

LEMMA RelistedSpace ==
  ASSUME NEW w, IsSpace(w), NEW x
  PROVE  HasParts(Relisted(w, x), w.fixed, w.files, w.document, x, w.cover, w.edit)
BY DEF IsSpace, Relisted, HasParts

LEMMA RecoveredSpace ==
  ASSUME NEW w, IsSpace(w), NEW x
  PROVE  HasParts(Recovered(w, x), w.fixed, w.files, w.document, w.content, x, w.edit)
BY DEF IsSpace, Recovered, HasParts

LEMMA MarkedSpace ==
  ASSUME NEW w, IsSpace(w), NEW x
  PROVE  HasParts(Marked(w, x), w.fixed, w.files, w.document, w.content, w.cover, x)
BY DEF IsSpace, Marked, HasParts

LEMMA InspectedSpace ==
  ASSUME NEW w, IsSpace(w), NEW r, r = Inspected(w)
  PROVE  /\ IsSpace(r) /\ SamePackage(r, w) /\ r.cover = w.cover /\ r.edit = w.edit
         /\ Accepted(w) => r.content = ContentOf(w)
         /\ ~Accepted(w) => r.content = w.content
BY RelistedSpace DEF Inspected, SamePackage, Relisted, HasParts

LEMMA RefusedSpace ==
  ASSUME NEW w, IsSpace(w), NEW edit, NEW r, r = Refused(w, edit)
  PROVE  /\ IsSpace(r) /\ SamePackage(r, w) /\ r.content = w.content /\ r.cover = w.cover
         /\ r.edit = Refusing(edit)
<1>1. r = Marked(w, Refusing(edit))
  BY DEF Refused, Marked, Refusing
<1>2. QED
  BY <1>1, MarkedSpace DEF SamePackage, HasParts

\* What writeOPFAndRefresh leaves: the new document, inspected, or the old one.
Refreshed(r, w, document, edit) ==
  /\ IsSpace(r) /\ r.fixed = w.fixed /\ r.files = w.files /\ r.cover = w.cover
  /\ \/ /\ r.document = document /\ r.edit = edit
        /\ Accepted(r) /\ r.content = ContentOf(r)
     \/ /\ r.document = w.document /\ r.edit = Refusing(edit)
        /\ \/ r.content = w.content
           \/ Accepted(w) /\ r.content = ContentOf(w)

LEMMA RefreshedSpace ==
  ASSUME NEW w, IsSpace(w), NEW document, NEW edit,
         NEW r, r = WriteDocumentAndRefresh(w, document, edit)
  PROVE  Refreshed(r, w, document, edit)
<1>1. PICK new : new = Rewritten(w, document)
  OBVIOUS
<1>2. /\ IsSpace(new) /\ new.fixed = w.fixed /\ new.files = w.files /\ new.document = document
      /\ new.content = w.content /\ new.cover = w.cover /\ new.edit = w.edit
  BY <1>1, RewrittenSpace DEF HasParts
<1>3. r = IF Accepted(new) THEN Done(Inspected(new), edit) ELSE Refused(Inspected(w), edit)
  BY <1>1 DEF WriteDocumentAndRefresh, Rewritten
<1>4. CASE Accepted(new)
  <2>1. PICK seen : seen = Inspected(new)
    OBVIOUS
  <2>2. /\ IsSpace(seen) /\ SamePackage(seen, new) /\ seen.cover = new.cover
        /\ seen.content = ContentOf(new)
    BY <1>2, <1>4, <2>1, InspectedSpace
  <2>3. r = Marked(seen, edit)
    BY <1>3, <1>4, <2>1 DEF Done, Marked
  <2>4. /\ IsSpace(r) /\ SamePackage(r, seen) /\ r.cover = seen.cover
        /\ r.content = seen.content /\ r.edit = edit
    BY <2>2, <2>3, MarkedSpace DEF SamePackage, HasParts
  <2>5. SamePackage(r, new)
    BY <2>2, <2>4 DEF SamePackage
  <2>6. Accepted(r) /\ r.content = ContentOf(r)
    BY <1>4, <2>2, <2>4, <2>5, SameIsAccepted
  <2>7. QED
    BY <1>2, <2>2, <2>4, <2>5, <2>6 DEF SamePackage, Refreshed
<1>5. CASE ~Accepted(new)
  <2>1. PICK seen : seen = Inspected(w)
    OBVIOUS
  <2>2. /\ IsSpace(seen) /\ SamePackage(seen, w) /\ seen.cover = w.cover
        /\ Accepted(w) => seen.content = ContentOf(w)
        /\ ~Accepted(w) => seen.content = w.content
    BY <2>1, InspectedSpace
  <2>3. r = Refused(seen, edit)
    BY <1>3, <1>5, <2>1
  <2>4. /\ IsSpace(r) /\ SamePackage(r, seen) /\ r.content = seen.content /\ r.cover = seen.cover
        /\ r.edit = Refusing(edit)
    BY <2>2, <2>3, RefusedSpace
  <2>5. /\ IsSpace(r) /\ r.fixed = w.fixed /\ r.files = w.files /\ r.cover = w.cover
        /\ r.document = w.document /\ r.edit = Refusing(edit)
    BY <2>2, <2>4 DEF SamePackage
  <2>6. QED
    BY <2>2, <2>4, <2>5, Zenon DEF Refreshed
<1>6. QED
  BY <1>4, <1>5

-----------------------------------------------------------------------------
(* Documents.                                                              *)

DocumentOf(version, title, metadata, items, spine, coverMeta) ==
  [version |-> version, title |-> title, metadata |-> metadata,
   items |-> items, spine |-> spine, coverMeta |-> coverMeta]

Members(list) == {list[k] : k \in DOMAIN list}

LEMMA OwnMembers ==
  ASSUME NEW S, NEW list \in Seq(S)
  PROVE  list \in Seq(Members(list))
<1>1. Len(list) \in Nat /\ DOMAIN list = 1..Len(list) /\ list \in [1..Len(list) -> Members(list)]
  BY DEF Members
<1>2. QED
  BY <1>1

IsItem(item) == item = Item(item.id, item.href, item.media, item.properties)

LEMMA DocumentIs ==
  ASSUME NEW version, NEW title \in Titles, NEW metadata,
         NEW S, NEW items \in Seq(S), \A k \in DOMAIN items : IsItem(items[k]),
         NEW R, NEW spine \in Seq(R), NEW M, NEW coverMeta \in Seq(M),
         NEW document, document = DocumentOf(version, title, metadata, items, spine, coverMeta)
  PROVE  /\ IsDocument(document)
         /\ document.version = version /\ document.title = title /\ document.metadata = metadata
         /\ document.items = items /\ document.spine = spine /\ document.coverMeta = coverMeta
<1>1. /\ document.version = version /\ document.title = title /\ document.metadata = metadata
      /\ document.items = items /\ document.spine = spine /\ document.coverMeta = coverMeta
  BY DEF DocumentOf
<1>2. items \in Seq(Members(items)) /\ spine \in Seq(Members(spine)) /\ coverMeta \in Seq(Members(coverMeta))
  BY OwnMembers
<1>3. Items(document) = Members(items)
  BY <1>1 DEF Items, Members
<1>4. \A item \in Items(document) : IsItem(item)
  BY <1>3 DEF Members
<1>5. QED
  BY <1>1, <1>2, <1>3, <1>4 DEF IsDocument, IsItem, DocumentOf, Members

LEMMA DocumentParts ==
  ASSUME NEW document, IsDocument(document)
  PROVE  /\ document = DocumentOf(document.version, document.title, document.metadata,
                                  document.items, document.spine, document.coverMeta)
         /\ document.title \in Titles
         /\ document.items \in Seq(Items(document)) /\ \A k \in DOMAIN document.items : IsItem(document.items[k])
         /\ document.spine \in Seq(Members(document.spine))
         /\ document.coverMeta \in Seq(Members(document.coverMeta))
<1>1. \A k \in DOMAIN document.items : document.items[k] \in Items(document)
  BY DEF Items
<1>2. QED
  BY <1>1 DEF IsDocument, IsItem, DocumentOf, Members

\* What updates of a document leave.
PutTitle(document, x) == [document EXCEPT !.title = x]
PutItems(document, x) == [document EXCEPT !.items = x]
PutSpine(document, x) == [document EXCEPT !.spine = x]
PutCoverMeta(document, x) == [document EXCEPT !.coverMeta = x]

LEMMA DocumentUpdates ==
  ASSUME NEW version, NEW title, NEW metadata, NEW items, NEW spine, NEW coverMeta, NEW x,
         NEW document, document = DocumentOf(version, title, metadata, items, spine, coverMeta)
  PROVE  /\ PutTitle(document, x) = DocumentOf(version, x, metadata, items, spine, coverMeta)
         /\ PutItems(document, x) = DocumentOf(version, title, metadata, x, spine, coverMeta)
         /\ PutSpine(document, x) = DocumentOf(version, title, metadata, items, x, coverMeta)
         /\ PutCoverMeta(document, x) = DocumentOf(version, title, metadata, items, spine, x)
BY DEF DocumentOf, PutTitle, PutItems, PutSpine, PutCoverMeta

LEMMA DocumentUpdate ==
  ASSUME NEW document, IsDocument(document), NEW x, NEW y
  PROVE  LET version == document.version
             metadata == document.metadata
         IN  /\ PutTitle(document, x) =
                  DocumentOf(version, x, metadata, document.items, document.spine, document.coverMeta)
             /\ PutItems(document, x) =
                  DocumentOf(version, document.title, metadata, x, document.spine, document.coverMeta)
             /\ PutSpine(document, x) =
                  DocumentOf(version, document.title, metadata, document.items, x, document.coverMeta)
             /\ PutSpine(PutItems(document, x), y) =
                  DocumentOf(version, document.title, metadata, x, y, document.coverMeta)
             /\ PutCoverMeta(PutItems(document, x), y) =
                  DocumentOf(version, document.title, metadata, x, document.spine, y)
BY DocumentParts, DocumentUpdates

-----------------------------------------------------------------------------
(* Kept.                                                                   *)

LEMMA MembersOfAppend ==
  ASSUME NEW S, NEW list \in Seq(S), NEW x \in S
  PROVE  Append(list, x) \in Seq(S) /\ Members(Append(list, x)) = Members(list) \cup {x}
<1>1. /\ Len(list) \in Nat /\ DOMAIN list = 1..Len(list)
      /\ DOMAIN Append(list, x) = 1..(Len(list) + 1)
      /\ \A k \in 1..Len(list) : Append(list, x)[k] = list[k]
      /\ Append(list, x)[Len(list) + 1] = x
  OBVIOUS
<1>2. 1..(Len(list) + 1) = 1..Len(list) \cup {Len(list) + 1}
  BY <1>1
<1>3. QED
  BY <1>1, <1>2 DEF Members

\* One step of the recursion.
Keeping(members, gone, n, rest) ==
  IF members[n] \in gone THEN rest ELSE Append(rest, members[n])

KeptUpTo(members, gone) ==
  CHOOSE kept : kept = [n \in Nat |-> IF n = 0 THEN << >> ELSE Keeping(members, gone, n, kept[n - 1])]

LEMMA KeptIsDefined ==
  ASSUME NEW S, NEW members \in Seq(S), NEW gone
  PROVE  LET kept == KeptUpTo(members, gone) IN
         /\ kept[0] = << >>
         /\ \A n \in Nat : kept[n + 1] = Keeping(members, gone, n + 1, kept[n])
<1> DEFINE V == Seq(S \cup {members[n] : n \in Nat})
           step == [p \in Nat \X V |-> Keeping(members, gone, p[1], p[2])]
<1>1. ASSUME NEW n \in Nat, NEW rest \in V
      PROVE  Keeping(members, gone, n, rest) \in V
  BY MembersOfAppend DEF Keeping
<1>2. << >> \in V /\ step \in [Nat \X V -> V]
  BY <1>1
<1>3. \A n \in Nat, rest \in V : step[<<n, rest>>] = Keeping(members, gone, n, rest)
  OBVIOUS
<1> HIDE DEF V, step
<1>4. PICK f \in [Nat -> V] : Recurs(f, << >>, step)
  BY <1>2, Recursion
<1>5. \A n \in Nat \ {0} : f[n] = Keeping(members, gone, n, f[n - 1])
  <2>1. \A n \in Nat \ {0} : n \in Nat /\ f[n - 1] \in V
    OBVIOUS
  <2>2. QED
    BY <1>3, <1>4, <2>1 DEF Recurs
<1>6. f = [n \in Nat |-> IF n = 0 THEN << >> ELSE Keeping(members, gone, n, f[n - 1])]
  BY <1>4, <1>5 DEF Recurs
<1>7. PICK kept : kept = KeptUpTo(members, gone)
  OBVIOUS
<1>8. kept = [n \in Nat |-> IF n = 0 THEN << >> ELSE Keeping(members, gone, n, kept[n - 1])]
  BY <1>6, <1>7 DEF KeptUpTo
<1>9. kept[0] = << >> /\ \A n \in Nat : kept[n + 1] = Keeping(members, gone, n + 1, kept[(n + 1) - 1])
  BY <1>8
<1>10. \A n \in Nat : (n + 1) - 1 = n
  OBVIOUS
<1>11. QED
  BY <1>7, <1>9, <1>10

\* What filterOPFItems leaves of a list is what was not to go.
LEMMA KeptMembers ==
  ASSUME NEW S, NEW members \in Seq(S), NEW gone
  PROVE  Kept(members, gone) \in Seq(S) /\ Members(Kept(members, gone)) = Members(members) \ gone
<1>1. PICK kept : kept = KeptUpTo(members, gone)
  OBVIOUS
<1>2. kept[0] = << >> /\ \A n \in Nat : kept[n + 1] = Keeping(members, gone, n + 1, kept[n])
  BY <1>1, KeptIsDefined
<1>3. Len(members) \in Nat /\ DOMAIN members = 1..Len(members)
  OBVIOUS
<1> DEFINE T == {n \in Nat : n <= Len(members) =>
                   kept[n] \in Seq(S) /\ Members(kept[n]) = {members[k] : k \in 1..n} \ gone}
<1>4. 0 \in T
  <2>1. << >> \in Seq(S) /\ Members(<< >>) = {}
    BY DEF Members
  <2>2. {members[k] : k \in 1..0} = {}
    OBVIOUS
  <2>3. QED
    BY <1>2, <2>1, <2>2
<1>5. ASSUME NEW n \in T
      PROVE  n + 1 \in T
  <2>1. SUFFICES ASSUME n + 1 <= Len(members)
                 PROVE  /\ kept[n + 1] \in Seq(S)
                        /\ Members(kept[n + 1]) = {members[k] : k \in 1..(n + 1)} \ gone
    OBVIOUS
  <2>2. kept[n] \in Seq(S) /\ Members(kept[n]) = {members[k] : k \in 1..n} \ gone
    BY <1>3, <2>1
  <2>3. members[n + 1] \in S
    BY <1>3, <2>1
  <2>4. {members[k] : k \in 1..(n + 1)} = {members[k] : k \in 1..n} \cup {members[n + 1]}
    <3>1. 1..(n + 1) = 1..n \cup {n + 1}
      OBVIOUS
    <3>2. QED
      BY <3>1
  <2>5. kept[n + 1] = Keeping(members, gone, n + 1, kept[n])
    BY <1>2
  <2>6. QED
    BY <2>2, <2>3, <2>4, <2>5, MembersOfAppend DEF Keeping
<1>6. T = Nat
  <2>1. T \in SUBSET Nat
    OBVIOUS
  <2> HIDE DEF T
  <2> QED
    BY <1>4, <1>5, <2>1, Induction
<1>7. Kept(members, gone) = kept[Len(members)]
  BY <1>1, Zenon DEF Kept, KeptUpTo, Keeping
<1>8. {members[k] : k \in 1..Len(members)} = Members(members)
  BY <1>3 DEF Members
<1>9. Len(members) \in T
  BY <1>3, <1>6
<1>10. QED
  BY <1>3, <1>7, <1>8, <1>9

-----------------------------------------------------------------------------
(* What edits make of a document.                                          *)

\* Which item has which file.
Keys(document) == {<<item.id, item.href>> : item \in Items(document)}

LEMMA ItemParts ==
  ASSUME NEW id, NEW href, NEW media, NEW properties
  PROVE  LET item == Item(id, href, media, properties)
         IN  /\ IsItem(item) /\ item.id = id /\ item.href = href
             /\ item.media = media /\ item.properties = properties
BY DEF IsItem, Item

LEMMA TitledDocument ==
  ASSUME NEW document, IsDocument(document), NEW title \in Titles,
         NEW new, new = [document EXCEPT !.title = title]
  PROVE  /\ IsDocument(new) /\ new.title = title
         /\ new.spine = document.spine /\ new.items = document.items
         /\ new.coverMeta = document.coverMeta
<1>1. new = DocumentOf(document.version, title, document.metadata, document.items, document.spine,
                       document.coverMeta)
  BY DocumentUpdate DEF PutTitle
<1>2. QED
  BY <1>1, DocumentParts, DocumentIs

LEMMA SpineDocument ==
  ASSUME NEW document, IsDocument(document), NEW R, NEW order \in Seq(R),
         NEW new, new = WithSpine(document, order)
  PROVE  /\ IsDocument(new) /\ new.title = document.title
         /\ new.spine = order /\ new.items = document.items
         /\ new.coverMeta = document.coverMeta
<1>1. new = DocumentOf(document.version, document.title, document.metadata, document.items, order,
                       document.coverMeta)
  <2>1. new = PutSpine(document, order)
    BY DEF WithSpine, PutSpine
  <2>2. QED
    BY <2>1, DocumentUpdate
<1>2. QED
  BY <1>1, DocumentParts, DocumentIs

LEMMA ItemsOfAppend ==
  ASSUME NEW document, IsDocument(document), NEW item, IsItem(item)
  PROVE  LET items == Append(document.items, item) IN
         /\ items \in Seq(Items(document) \cup {item})
         /\ \A k \in DOMAIN items : IsItem(items[k])
         /\ Members(items) = Items(document) \cup {item}
<1>1. document.items \in Seq(Items(document) \cup {item}) /\ \A k \in DOMAIN document.items : IsItem(document.items[k])
  BY DocumentParts
<1>2. Members(document.items) = Items(document)
  BY DEF Members, Items
<1>3. PICK items : items = Append(document.items, item)
  OBVIOUS
<1>4. items \in Seq(Items(document) \cup {item}) /\ Members(items) = Items(document) \cup {item}
  BY <1>1, <1>2, <1>3, MembersOfAppend
<1>5. \A x \in Members(items) : IsItem(x)
  BY <1>1, <1>2, <1>4 DEF Members
<1>6. \A k \in DOMAIN items : IsItem(items[k])
  BY <1>5 DEF Members
<1>7. QED
  BY <1>3, <1>4, <1>6

LEMMA ChapterDocument ==
  ASSUME NEW document, IsDocument(document), NEW id, NEW new, new = WithChapter(document, id)
  PROVE  /\ IsDocument(new) /\ new.title = document.title
         /\ new.spine = Append(document.spine, id) /\ new.coverMeta = document.coverMeta
         /\ Keys(new) = Keys(document) \cup {<<id, id>>}
         /\ Items(new) = Items(document) \cup {Item(id, id, "xhtml", {})}
<1> DEFINE item == Item(id, id, "xhtml", {})
           items == Append(document.items, item)
           spine == Append(document.spine, id)
<1>1. IsItem(item) /\ item.id = id /\ item.href = id
  BY ItemParts
<1> HIDE DEF item
<1>2. /\ items \in Seq(Items(document) \cup {item}) /\ \A k \in DOMAIN items : IsItem(items[k])
      /\ Members(items) = Items(document) \cup {item}
  BY <1>1, ItemsOfAppend
<1>3. spine \in Seq(Members(document.spine) \cup {id})
  BY DocumentParts
<1>4. new = DocumentOf(document.version, document.title, document.metadata, items, spine, document.coverMeta)
  <2>1. new = PutSpine(PutItems(document, items), spine)
    BY DEF WithChapter, item, PutItems, PutSpine
  <2>2. QED
    BY <2>1, DocumentUpdate
<1> HIDE DEF items, spine
<1>5. /\ IsDocument(new) /\ new.title = document.title /\ new.items = items /\ new.spine = spine
      /\ new.coverMeta = document.coverMeta
  BY <1>2, <1>3, <1>4, DocumentParts, DocumentIs
<1>6. Items(new) = Items(document) \cup {item}
  BY <1>2, <1>5 DEF Items, Members
<1>7. Keys(new) = Keys(document) \cup {<<id, id>>}
  BY <1>1, <1>6 DEF Keys
<1>8. QED
  BY <1>5, <1>6, <1>7 DEF spine, item

\* The item and its places in the spine are gone, and nothing else is.
Filtered(new, document, id) ==
  /\ IsDocument(new) /\ new.title = document.title
  /\ new.spine = Kept(document.spine, {id}) /\ new.coverMeta = document.coverMeta
  /\ Members(new.spine) = Members(document.spine) \ {id}
  /\ \A item : item \in Items(new) <=> item \in Items(document) /\ item.id # id

LEMMA FilteredDocument ==
  ASSUME NEW document, IsDocument(document), NEW id, NEW new, new = WithoutItem(document, id)
  PROVE  Filtered(new, document, id)
<1> DEFINE gone == {item \in Items(document) : item.id = id}
           items == Kept(document.items, gone)
           spine == Kept(document.spine, {id})
<1>1. items \in Seq(Items(document)) /\ Members(items) = Members(document.items) \ gone
  BY DocumentParts, KeptMembers
<1>2. spine \in Seq(Members(document.spine)) /\ Members(spine) = Members(document.spine) \ {id}
  BY DocumentParts, KeptMembers
<1>3. new = DocumentOf(document.version, document.title, document.metadata, items, spine, document.coverMeta)
  <2>1. new = PutSpine(PutItems(document, items), spine)
    BY DEF WithoutItem, PutItems, PutSpine
  <2>2. QED
    BY <2>1, DocumentUpdate
<1>4. Members(document.items) = Items(document)
  BY DEF Members, Items
<1> HIDE DEF items, spine
<1>5. \A item \in Items(document) : IsItem(item)
  <2>1. \A k \in DOMAIN document.items : IsItem(document.items[k])
    BY DocumentParts
  <2>2. QED
    BY <2>1 DEF Items
<1>6. \A k \in DOMAIN items : IsItem(items[k])
  BY <1>1, <1>4, <1>5 DEF Members
<1>7. /\ IsDocument(new) /\ new.title = document.title /\ new.items = items /\ new.spine = spine
      /\ new.coverMeta = document.coverMeta
  BY <1>1, <1>2, <1>3, <1>6, DocumentParts, DocumentIs
<1>8. Items(new) = Members(items)
  BY <1>7 DEF Items, Members
<1>9. QED
  BY <1>1, <1>2, <1>4, <1>7, <1>8 DEF spine, Filtered

\* The cover item is the last one; who finds it depends on the version.
CoverListed(new, document, media) ==
  \E properties :
    /\ new.items = Append(document.items, Item(CoverId, CoverName(media), media, properties))
    /\ Items(new) = Items(document) \cup {Item(CoverId, CoverName(media), media, properties)}
    /\ \/ properties = {} /\ new.coverMeta = Append(document.coverMeta, CoverId)
       \/ properties = {"cover-image"} /\ new.coverMeta = document.coverMeta

LEMMA CoverDocument ==
  ASSUME NEW document, IsDocument(document), NEW media, NEW new, new = WithCoverItem(document, media)
  PROVE  /\ IsDocument(new) /\ new.title = document.title /\ new.spine = document.spine
         /\ Keys(new) = Keys(document) \cup {<<CoverId, CoverName(media)>>}
         /\ CoverListed(new, document, media)
<1>1. ASSUME NEW properties, NEW coverMeta, coverMeta \in Seq(Members(document.coverMeta) \cup {CoverId}),
             NEW items, items = Append(document.items, Item(CoverId, CoverName(media), media, properties)),
             new = DocumentOf(document.version, document.title, document.metadata, items,
                              document.spine, coverMeta)
      PROVE  /\ IsDocument(new) /\ new.title = document.title /\ new.spine = document.spine
             /\ Keys(new) = Keys(document) \cup {<<CoverId, CoverName(media)>>}
             /\ new.items = items /\ new.coverMeta = coverMeta
             /\ Items(new) = Items(document) \cup {Item(CoverId, CoverName(media), media, properties)}
  <2>1. PICK item : item = Item(CoverId, CoverName(media), media, properties)
    OBVIOUS
  <2>2. IsItem(item) /\ item.id = CoverId /\ item.href = CoverName(media)
    BY <2>1, ItemParts
  <2>3. /\ items \in Seq(Items(document) \cup {item}) /\ \A k \in DOMAIN items : IsItem(items[k])
        /\ Members(items) = Items(document) \cup {item}
    BY <1>1, <2>1, <2>2, ItemsOfAppend
  <2>4. /\ IsDocument(new) /\ new.title = document.title /\ new.items = items
        /\ new.spine = document.spine /\ new.coverMeta = coverMeta
    <3>1. document.title \in Titles /\ document.spine \in Seq(Members(document.spine))
      BY DocumentParts
    <3>2. /\ coverMeta \in Seq(Members(document.coverMeta) \cup {CoverId})
          /\ new = DocumentOf(document.version, document.title, document.metadata, items,
                              document.spine, coverMeta)
      BY <1>1
    <3>3. QED
      BY <2>3, <3>1, <3>2, DocumentIs
  <2>5. Items(new) = Items(document) \cup {item}
    BY <2>3, <2>4 DEF Items, Members
  <2>6. Keys(new) = Keys(document) \cup {<<CoverId, CoverName(media)>>}
    BY <2>2, <2>5 DEF Keys
  <2>7. QED
    BY <2>1, <2>4, <2>5, <2>6
<1>2. CASE document.version = 2
  <2>1. PICK items : items = Append(document.items, Item(CoverId, CoverName(media), media, {}))
    OBVIOUS
  <2>2. PICK coverMeta : coverMeta = Append(document.coverMeta, CoverId)
    OBVIOUS
  <2>3. new = PutCoverMeta(PutItems(document, items), coverMeta)
    BY <1>2, <2>1, <2>2, Zenon DEF WithCoverItem, PutItems, PutCoverMeta
  <2>4. new = DocumentOf(document.version, document.title, document.metadata, items,
                         document.spine, coverMeta)
    BY <2>3, DocumentUpdate
  <2>5. coverMeta \in Seq(Members(document.coverMeta) \cup {CoverId})
    BY <2>2, DocumentParts
  <2>6. /\ IsDocument(new) /\ new.title = document.title /\ new.spine = document.spine
        /\ Keys(new) = Keys(document) \cup {<<CoverId, CoverName(media)>>}
        /\ new.items = items /\ new.coverMeta = coverMeta
        /\ Items(new) = Items(document) \cup {Item(CoverId, CoverName(media), media, {})}
    BY <1>1, <2>1, <2>4, <2>5
  <2>7. CoverListed(new, document, media)
    BY <2>1, <2>2, <2>6, Zenon DEF CoverListed
  <2>8. QED
    BY <2>6, <2>7
<1>3. CASE document.version # 2
  <2>1. PICK mark : mark = {"cover-image"}
    OBVIOUS
  <2>2. PICK items : items = Append(document.items, Item(CoverId, CoverName(media), media, mark))
    OBVIOUS
  <2>3. PICK coverMeta : coverMeta = document.coverMeta
    OBVIOUS
  <2>4. new = PutItems(document, items)
    BY <1>3, <2>1, <2>2, Zenon DEF WithCoverItem, PutItems
  <2>5. new = DocumentOf(document.version, document.title, document.metadata, items,
                         document.spine, coverMeta)
    BY <2>4, <2>3, DocumentUpdate
  <2>6. coverMeta \in Seq(Members(document.coverMeta) \cup {CoverId})
    BY <2>3, DocumentParts
  <2>7. /\ IsDocument(new) /\ new.title = document.title /\ new.spine = document.spine
        /\ Keys(new) = Keys(document) \cup {<<CoverId, CoverName(media)>>}
        /\ new.items = items /\ new.coverMeta = coverMeta
        /\ Items(new) = Items(document) \cup {Item(CoverId, CoverName(media), media, mark)}
    BY <1>1, <2>2, <2>5, <2>6
  <2>8. CoverListed(new, document, media)
    BY <2>1, <2>2, <2>3, <2>7, Zenon DEF CoverListed
  <2>9. QED
    BY <2>7, <2>8
<1>4. QED
  BY <1>2, <1>3

\* An item with another media type.
Remade(item, media) == [item EXCEPT !.media = media]

LEMMA RemadeItem ==
  ASSUME NEW item, IsItem(item), NEW media
  PROVE  /\ IsItem(Remade(item, media))
         /\ Remade(item, media).id = item.id /\ Remade(item, media).href = item.href
         /\ Remade(item, media).media = media /\ Remade(item, media).properties = item.properties
BY DEF IsItem, Item, Remade

Retyped(item, id, media) == IF item.id = id THEN Remade(item, media) ELSE item

LEMMA RetypedDocument ==
  ASSUME NEW document, IsDocument(document), NEW id, NEW media,
         NEW new, new = WithMediaType(document, id, media)
  PROVE  /\ IsDocument(new) /\ new.title = document.title /\ new.spine = document.spine
         /\ Keys(new) = Keys(document) /\ new.coverMeta = document.coverMeta
         /\ Items(new) = {Retyped(item, id, media) : item \in Items(document)}
<1>1. PICK items : items = [k \in DOMAIN document.items |->
                             IF document.items[k].id = id THEN Remade(document.items[k], media)
                             ELSE document.items[k]]
  OBVIOUS
<1>2. new = PutItems(document, items)
  BY <1>1 DEF WithMediaType, Remade, PutItems
<1>3. \A k \in DOMAIN document.items : IsItem(document.items[k])
  BY DocumentParts
<1>4. DOMAIN items = DOMAIN document.items
  BY <1>1
<1>5. \A k \in DOMAIN items :
        IsItem(items[k]) /\ items[k].id = document.items[k].id /\ items[k].href = document.items[k].href
  BY <1>1, <1>3, <1>4, RemadeItem
<1>6. items \in Seq(Members(items))
  <2>1. Len(document.items) \in Nat /\ DOMAIN document.items = 1..Len(document.items)
    BY DocumentParts
  <2>2. items \in [1..Len(document.items) -> Members(items)]
    BY <1>1, <1>4, <2>1 DEF Members
  <2>3. QED
    BY <2>1, <2>2
<1>7. new = DocumentOf(document.version, document.title, document.metadata, items, document.spine,
                       document.coverMeta)
  BY <1>2, DocumentUpdate
<1>8. /\ IsDocument(new) /\ new.title = document.title /\ new.items = items
      /\ new.spine = document.spine /\ new.coverMeta = document.coverMeta
  BY <1>5, <1>6, <1>7, DocumentParts, DocumentIs
<1>9. Keys(new) = Keys(document)
  <2>1. Keys(new) = {<<items[k].id, items[k].href>> : k \in DOMAIN items}
    BY <1>8 DEF Keys, Items
  <2>2. Keys(document) = {<<document.items[k].id, document.items[k].href>> : k \in DOMAIN document.items}
    BY DEF Keys, Items
  <2>3. QED
    BY <1>4, <1>5, <2>1, <2>2
<1>10. Items(new) = {Retyped(item, id, media) : item \in Items(document)}
  <2>1. \A k \in DOMAIN document.items : items[k] = Retyped(document.items[k], id, media)
    BY <1>1 DEF Retyped
  <2>2. QED
    BY <1>4, <1>8, <2>1 DEF Items
<1>11. QED
  BY <1>8, <1>9, <1>10
-----------------------------------------------------------------------------
(* What an edit leaves of a good workspace.                                *)

IsCalled(edit, operation, id, title, order) ==
  /\ IsEdit(edit) /\ edit.operation = operation /\ edit.id = id /\ edit.title = title
  /\ edit.order = order

LEMMA EditIsCalled ==
  ASSUME NEW operation, NEW id, NEW title, NEW order,
         NEW edit, edit = Edit(operation, id, title, order)
  PROVE  /\ IsCalled(edit, operation, id, title, order)
         /\ edit.refused \in BOOLEAN /\ ~edit.refused
BY DEF Edit, IsCalled, IsEdit

LEMMA RefusingIsCalled ==
  ASSUME NEW operation, NEW id, NEW title, NEW order,
         NEW edit, IsCalled(edit, operation, id, title, order), NEW new, new = Refusing(edit)
  PROVE  /\ IsCalled(new, operation, id, title, order)
         /\ new.refused \in BOOLEAN /\ new.refused
BY DEF Refusing, IsCalled, IsEdit

\* The parts of a good workspace, once its edit is known.
LEMMA GoodParts ==
  ASSUME NEW r, IsSpace(r), IsDocument(r.document),
         IsMap(r.files),
         Consistent(r.document), Listed(r), r.cover \in Pictures \cup {NoPicture},
         NEW operation, NEW id, NEW title \in Titles, NEW order,
         IsCalled(r.edit, operation, id, title, order), r.edit.refused \in BOOLEAN
  PROVE  Good(r)
BY DEF Good, IsCalled

LEMMA RefiledIsGood ==
  ASSUME NEW w, Good(w), NEW x, IsMap(x), NEW r, r = Refiled(w, x)
  PROVE  /\ Good(r) /\ r.files = x
         /\ r.fixed = w.fixed /\ r.document = w.document /\ r.content = w.content
         /\ r.cover = w.cover /\ r.edit = w.edit
<1>1. HasParts(r, w.fixed, x, w.document, w.content, w.cover, w.edit)
  BY RefiledSpace DEF Good
<1>2. Listed(r)
  BY <1>1 DEF HasParts, Good, Listed
<1>3. QED
  BY <1>1, <1>2 DEF HasParts, Good

LEMMA RefusedIsGood ==
  ASSUME NEW w, Good(w), NEW operation, NEW id, NEW title \in Titles, NEW order,
         NEW r, r = Refused(w, Edit(operation, id, title, order))
  PROVE  /\ Good(r) /\ SamePackage(r, w) /\ r.content = w.content /\ r.cover = w.cover
         /\ IsCalled(r.edit, operation, id, title, order) /\ r.edit.refused
<1>1. PICK edit : edit = Edit(operation, id, title, order)
  OBVIOUS
<1>2. IsCalled(edit, operation, id, title, order)
  BY <1>1, EditIsCalled
<1>3. /\ IsSpace(r) /\ SamePackage(r, w) /\ r.content = w.content /\ r.cover = w.cover
      /\ r.edit = Refusing(edit)
  BY <1>1, RefusedSpace DEF Good
<1>4. IsCalled(r.edit, operation, id, title, order) /\ r.edit.refused \in BOOLEAN /\ r.edit.refused
  BY <1>2, <1>3, RefusingIsCalled
<1>5. Listed(r)
  BY <1>3 DEF SamePackage, Good, Listed
<1>6. /\ IsDocument(r.document) /\ Consistent(r.document) /\ r.cover \in Pictures \cup {NoPicture}
      /\ IsMap(r.files)
  BY <1>3 DEF SamePackage, Good
<1>7. Good(r)
  BY <1>3, <1>4, <1>5, <1>6, GoodParts
<1>8. QED
  BY <1>3, <1>4, <1>7

\* The new document was accepted, or the old one is back.
Replaced(r, w, document) ==
  \/ /\ ~r.edit.refused /\ r.document = document /\ Accepted(r) /\ r.content = ContentOf(r)
  \/ /\ r.edit.refused /\ r.document = w.document
     /\ \/ r.content = w.content
        \/ Accepted(w) /\ r.content = ContentOf(w)

LEMMA RefreshedIsGood ==
  ASSUME NEW w, Good(w), NEW document, IsDocument(document),
         NEW operation, NEW id, NEW title \in Titles, NEW order,
         NEW r, r = WriteDocumentAndRefresh(w, document, Edit(operation, id, title, order))
  PROVE  /\ Good(r) /\ r.fixed = w.fixed /\ r.files = w.files /\ r.cover = w.cover
         /\ IsCalled(r.edit, operation, id, title, order)
         /\ Replaced(r, w, document)
<1>1. PICK edit : edit = Edit(operation, id, title, order)
  OBVIOUS
<1>2. IsCalled(edit, operation, id, title, order) /\ edit.refused \in BOOLEAN /\ ~edit.refused
  BY <1>1, EditIsCalled
<1>3. Refreshed(r, w, document, edit)
  BY <1>1, RefreshedSpace DEF Good
<1>4. /\ IsSpace(r) /\ r.fixed = w.fixed /\ r.files = w.files /\ r.cover = w.cover
  BY <1>3 DEF Refreshed
<1>5. CASE /\ r.document = document /\ r.edit = edit
           /\ Accepted(r) /\ r.content = ContentOf(r)
  <2>1. Consistent(r.document) /\ Listed(r)
    BY <1>5, AcceptedIsListed
  <2>2. Good(r)
    BY <1>2, <1>4, <1>5, <2>1, GoodParts DEF Good
  <2>3. QED
    BY <1>2, <1>4, <1>5, <2>2 DEF Replaced
<1>6. CASE /\ r.document = w.document /\ r.edit = Refusing(edit)
           /\ \/ r.content = w.content
              \/ Accepted(w) /\ r.content = ContentOf(w)
  <2>1. IsCalled(r.edit, operation, id, title, order) /\ r.edit.refused \in BOOLEAN /\ r.edit.refused
    BY <1>2, <1>6, RefusingIsCalled
  <2>2. Listed(r)
    <3>1. CASE r.content = w.content
      BY <1>6, <3>1 DEF Good, Listed
    <3>2. CASE Accepted(w) /\ r.content = ContentOf(w)
      <4>1. SamePackage(r, w)
        BY <1>4, <1>6 DEF SamePackage
      <4>2. QED
        BY <3>2, <4>1, SameIsAccepted, AcceptedIsListed
    <3>3. QED
      BY <1>6, <3>1, <3>2
  <2>3. Good(r)
    BY <1>4, <1>6, <2>1, <2>2, GoodParts DEF Good
  <2>4. QED
    BY <1>4, <1>6, <2>1, <2>3 DEF Replaced
<1>7. QED
  BY <1>3, <1>5, <1>6 DEF Refreshed

LEMMA OrderIsSpine ==
  ASSUME NEW w, Good(w)
  PROVE  OrderOf(w) = w.document.spine
<1>1. w.document.spine \in Seq(Members(w.document.spine))
  BY DocumentParts DEF Good
<1>2. w.document.spine = [k \in DOMAIN w.document.spine |-> w.document.spine[k]]
  BY <1>1
<1>3. /\ DOMAIN w.content.chapters = DOMAIN w.document.spine
      /\ \A k \in DOMAIN w.document.spine : w.content.chapters[k].id = w.document.spine[k]
  BY DEF Good, Listed
<1>4. QED
  BY <1>2, <1>3 DEF OrderOf

LEMMA ChaptersAreListed ==
  ASSUME NEW w, Good(w)
  PROVE  ChapterIds(w) = Members(w.document.spine)
BY DEF Good, Listed, ChapterIds, Members
-----------------------------------------------------------------------------
(* The edits, one by one: what they leave is a good workspace, with the     *)
(* chapters that were asked for.                                           *)

LEMMA WithIsMap ==
  ASSUME NEW files, NEW name, NEW body, NEW new, new = With(files, name, body)
  PROVE  IsMap(new) /\ DOMAIN new = DOMAIN files \cup {name}
BY DEF With, IsMap

LEMMA WithKeepsTheRest ==
  ASSUME NEW files, NEW name, NEW body, NEW new, new = With(files, name, body),
         NEW n \in DOMAIN files \ {name}
  PROVE  new[n] = files[n]
BY DEF With

LEMMA WithoutIsMap ==
  ASSUME NEW files, NEW name, NEW new, new = Without(files, name)
  PROVE  IsMap(new) /\ DOMAIN new = DOMAIN files \ {name}
BY DEF Without, IsMap

LEMMA WithoutKeepsTheRest ==
  ASSUME NEW files, NEW name, NEW new, new = Without(files, name),
         NEW n \in DOMAIN files \ {name}
  PROVE  new[n] = files[n]
BY DEF Without

\* Nothing but the edit is new.
Unchanged(r, w) == SamePackage(r, w) /\ r.content = w.content

Orderly(r, w) == Good(r) /\ r.fixed = w.fixed /\ ListsAsAsked(w, r)

LEMMA RefusedIsOrderly ==
  ASSUME NEW r, NEW w, Good(r), r.fixed = w.fixed, r.edit.refused
  PROVE  Orderly(r, w)
BY DEF Orderly, ListsAsAsked

LEMMA MetadataChanged ==
  ASSUME NEW w, Good(w), NEW title \in Titles, NEW r, r = UpdateMetadata(w, title)
  PROVE  /\ Orderly(r, w) /\ IsCalled(r.edit, "metadata", CoverId, title, << >>)
         /\ r.files = w.files /\ r.document.spine = w.document.spine /\ r.document.items = w.document.items
         /\ r.document.coverMeta = w.document.coverMeta /\ r.cover = w.cover
         /\ \/ Unchanged(r, w) /\ r.edit.refused
            \/ Replaced(r, w, [w.document EXCEPT !.title = title])
<1>1. CASE ~w.document.metadata
  <2>1. r = Refused(w, Edit("metadata", CoverId, title, << >>))
    BY <1>1 DEF UpdateMetadata
  <2>2. /\ Good(r) /\ SamePackage(r, w) /\ r.content = w.content /\ r.cover = w.cover
        /\ IsCalled(r.edit, "metadata", CoverId, title, << >>) /\ r.edit.refused
    BY <2>1, RefusedIsGood
  <2>3. QED
    BY <2>2, RefusedIsOrderly DEF Unchanged, SamePackage
<1>2. CASE w.document.metadata
  <2>1. PICK document : document = [w.document EXCEPT !.title = title]
    OBVIOUS
  <2>2. /\ IsDocument(document) /\ document.title = title
        /\ document.spine = w.document.spine /\ document.items = w.document.items
        /\ document.coverMeta = w.document.coverMeta
    BY <2>1, TitledDocument DEF Good
  <2>3. r = WriteDocumentAndRefresh(w, document, Edit("metadata", CoverId, title, << >>))
    BY <1>2, <2>1 DEF UpdateMetadata
  <2>4. /\ Good(r) /\ r.fixed = w.fixed /\ r.files = w.files /\ r.cover = w.cover
        /\ IsCalled(r.edit, "metadata", CoverId, title, << >>)
        /\ Replaced(r, w, document)
    BY <2>2, <2>3, RefreshedIsGood
  <2>5. /\ r.document.spine = w.document.spine /\ r.document.items = w.document.items
        /\ r.document.coverMeta = w.document.coverMeta
    BY <2>2, <2>4 DEF Replaced
  <2>6. ListsAsAsked(w, r)
    <3>1. OrderOf(r) = OrderOf(w)
      BY <2>4, <2>5, OrderIsSpine
    <3>2. r.edit.operation = "metadata"
      BY <2>4 DEF IsCalled
    <3>3. QED
      BY <3>1, <3>2 DEF ListsAsAsked, OrderAfter
  <2>7. QED
    BY <2>1, <2>4, <2>5, <2>6 DEF Orderly
<1>3. QED
  BY <1>1, <1>2

LEMMA OrderChanged ==
  ASSUME NEW w, Good(w), NEW order \in [DOMAIN w.content.chapters -> ChapterIds(w)],
         NEW r, r = ReorderSpine(w, order)
  PROVE  /\ Orderly(r, w) /\ IsCalled(r.edit, "reorder", CoverId, "", order)
         /\ r.files = w.files /\ r.cover = w.cover
         /\ \/ Unchanged(r, w) /\ r.edit.refused
            \/ /\ \A j, k \in DOMAIN order : order[j] = order[k] => j = k
               /\ Replaced(r, w, WithSpine(w.document, order))
<1>a. PICK none \in Titles : none = ""
  BY WorkspaceAssumption
<1>b. none \in Titles
  BY <1>a
<1>1. PICK edit : edit = Edit("reorder", CoverId, none, order)
  OBVIOUS
<1>2. PICK wrong : wrong = (\/ Len(order) # Len(w.content.chapters)
                            \/ \E k \in DOMAIN order : order[k] \notin ChapterIds(w)
                            \/ \E j, k \in DOMAIN order : j # k /\ order[j] = order[k])
  OBVIOUS
<1>3. r = IF wrong THEN Refused(w, edit) ELSE WriteDocumentAndRefresh(w, WithSpine(w.document, order), edit)
  BY <1>a, <1>1, <1>2, Zenon DEF ReorderSpine
<1>4. CASE wrong
  <2>1. /\ Good(r) /\ SamePackage(r, w) /\ r.content = w.content /\ r.cover = w.cover
        /\ IsCalled(r.edit, "reorder", CoverId, none, order) /\ r.edit.refused
    BY <1>b, <1>1, <1>3, <1>4, RefusedIsGood
  <2>2. QED
    BY <1>a, <2>1, RefusedIsOrderly DEF Unchanged, SamePackage
<1>5. CASE ~wrong
  <2>1. \A j, k \in DOMAIN order : order[j] = order[k] => j = k
    BY <1>2, <1>5
  <2>2. order \in Seq(ChapterIds(w))
    <3>1. DOMAIN w.content.chapters = DOMAIN w.document.spine
      BY DEF Good, Listed
    <3>2. w.document.spine \in Seq(Members(w.document.spine))
      BY DocumentParts DEF Good
    <3>3. Len(w.document.spine) \in Nat /\ DOMAIN w.document.spine = 1..Len(w.document.spine)
      BY <3>2
    <3>4. order \in [1..Len(w.document.spine) -> ChapterIds(w)]
      BY <3>1, <3>3
    <3>5. QED
      BY <3>3, <3>4
  <2>3. PICK document : document = WithSpine(w.document, order)
    OBVIOUS
  <2>4. IsDocument(document) /\ document.spine = order
    BY <2>2, <2>3, SpineDocument DEF Good
  <2>5. r = WriteDocumentAndRefresh(w, document, Edit("reorder", CoverId, none, order))
    BY <1>1, <1>3, <1>5, <2>3
  <2>6. /\ Good(r) /\ r.fixed = w.fixed /\ r.files = w.files /\ r.cover = w.cover
        /\ IsCalled(r.edit, "reorder", CoverId, none, order)
        /\ Replaced(r, w, document)
    BY <1>b, <2>4, <2>5, RefreshedIsGood
  <2>7. ListsAsAsked(w, r)
    <3>1. ~r.edit.refused => OrderOf(r) = order
      BY <2>4, <2>6, OrderIsSpine DEF Replaced
    <3>2. r.edit.operation = "reorder" /\ r.edit.order = order
      BY <2>6 DEF IsCalled
    <3>3. QED
      BY <3>1, <3>2 DEF ListsAsAsked, OrderAfter
  <2>8. QED
    BY <1>a, <2>1, <2>3, <2>6, <2>7 DEF Orderly
<1>6. wrong \in BOOLEAN
  BY <1>2
<1>7. QED
  BY <1>4, <1>5, <1>6

\* The chapter's document and file are gone, or nothing has happened; the
\* old document may have been inspected again.
Removed(r, w, id) ==
  \/ /\ r.edit.refused /\ r.files = w.files /\ r.document = w.document
     /\ \/ r.content = w.content
        \/ Accepted(w) /\ r.content = ContentOf(w)
  \/ /\ ~r.edit.refused /\ id \in ChapterIds(w)
     /\ r.document = WithoutItem(w.document, id)
     /\ r.files = Without(w.files, Chapter(w, id).href)
     /\ \E v : /\ v.fixed = w.fixed /\ v.files = w.files /\ v.document = r.document
               /\ Accepted(v) /\ r.content = ContentOf(v)

LEMMA ChapterRemoved ==
  ASSUME NEW w, Good(w), NEW id, NEW r, r = DeleteChapter(w, id)
  PROVE  /\ Orderly(r, w) /\ IsCalled(r.edit, "delete", id, "", << >>) /\ Removed(r, w, id)
         /\ r.cover = w.cover
<1>a. PICK none \in Titles : none = ""
  BY WorkspaceAssumption
<1>b. none \in Titles
  BY <1>a
<1>1. PICK edit : edit = Edit("delete", id, none, << >>)
  OBVIOUS
<1>2. PICK document : document = WithoutItem(w.document, id)
  OBVIOUS
<1>3. PICK result : result = WriteDocumentAndRefresh(w, document, edit)
  OBVIOUS
<1>4. r = IF Len(w.content.chapters) <= 1 \/ id \notin ChapterIds(w) THEN Refused(w, edit)
          ELSE IF result.edit.refused THEN result ELSE WithoutWritten(result, Chapter(w, id).href)
  BY <1>a, <1>1, <1>2, <1>3, Zenon DEF DeleteChapter
<1>5. CASE Len(w.content.chapters) <= 1 \/ id \notin ChapterIds(w)
  <2>1. /\ Good(r) /\ SamePackage(r, w) /\ r.content = w.content /\ r.cover = w.cover
        /\ IsCalled(r.edit, "delete", id, none, << >>) /\ r.edit.refused
    BY <1>b, <1>1, <1>4, <1>5, RefusedIsGood
  <2>2. QED
    BY <1>a, <2>1, RefusedIsOrderly DEF Removed, SamePackage
<1>6. CASE ~(Len(w.content.chapters) <= 1 \/ id \notin ChapterIds(w))
  <2>1. /\ IsDocument(document) /\ document.spine = Kept(w.document.spine, {id})
    <3>1. IsDocument(w.document)
      BY DEF Good
    <3>2. PICK old : old = w.document
      OBVIOUS
    <3>3. document = WithoutItem(old, id) /\ IsDocument(old)
      BY <1>2, <3>1, <3>2
    <3>4. Filtered(document, old, id)
      BY <3>3, FilteredDocument
    <3>5. QED
      BY <3>2, <3>4 DEF Filtered
  <2>2. /\ Good(result) /\ result.fixed = w.fixed /\ result.files = w.files /\ result.cover = w.cover
        /\ IsCalled(result.edit, "delete", id, none, << >>)
        /\ Replaced(result, w, document)
    <3>1. result = WriteDocumentAndRefresh(w, document, Edit("delete", id, none, << >>))
      BY <1>1, <1>3
    <3>2. QED
      BY <1>b, <2>1, <3>1, RefreshedIsGood
  <2>3. CASE result.edit.refused
    <3>1. r = result
      BY <1>4, <1>6, <2>3
    <3>2. Removed(r, w, id)
      BY <2>2, <2>3, <3>1 DEF Replaced, Removed
    <3>3. QED
      BY <1>a, <2>2, <2>3, <3>1, <3>2, RefusedIsOrderly
  <2>4. CASE ~result.edit.refused
    <3>1. PICK files : files = Without(w.files, Chapter(w, id).href)
      OBVIOUS
    <3>2. r = Refiled(result, files)
      BY <1>4, <1>6, <2>2, <2>4, <3>1 DEF WithoutWritten, Refiled
    <3>3. /\ Good(r) /\ r.files = files /\ r.fixed = w.fixed
          /\ r.document = result.document /\ r.content = result.content /\ r.edit = result.edit
          /\ r.cover = w.cover
      <4>1. IsMap(files)
        BY <3>1, WithoutIsMap
      <4>2. QED
        BY <2>2, <3>2, <4>1, RefiledIsGood
    <3>4. /\ result.document = document /\ Accepted(result) /\ result.content = ContentOf(result)
      BY <2>2, <2>4 DEF Replaced
    <3>5. Removed(r, w, id)
      BY <1>2, <1>6, <2>2, <2>4, <3>1, <3>3, <3>4 DEF Removed
    <3>6. ListsAsAsked(w, r)
      <4>1. OrderOf(r) = Kept(w.document.spine, {id}) /\ OrderOf(w) = w.document.spine
        BY <2>1, <3>3, <3>4, OrderIsSpine
      <4>2. r.edit.operation = "delete" /\ r.edit.id = id
        BY <2>2, <3>3 DEF IsCalled
      <4>3. OrderAfter(w, r.edit) = Kept(OrderOf(w), {id})
        BY <4>2 DEF OrderAfter
      <4>4. QED
        BY <4>1, <4>3 DEF ListsAsAsked
    <3>7. QED
      BY <1>a, <2>2, <3>3, <3>5, <3>6 DEF Orderly
  <2>5. QED
    BY <2>3, <2>4
<1>7. QED
  BY <1>5, <1>6

\* What a title does to the files besides the one of the chapter.
Relabels(new, old, href) ==
  \A name \in DOMAIN old \ {href} :
    new[name] = old[name] \/ \E target, title : new[name] = Relabelled(old[name], target, title)

\* The chapter has another file, the new package was accepted, or nobody uses
\* the workspace any more.
Written(r, w, id) ==
  \/ r.edit.refused /\ r.files = w.files /\ r.content = w.content
  \/ /\ id \in ChapterIds(w) /\ DOMAIN r.files = DOMAIN w.files \cup {Chapter(w, id).href}
     /\ Relabels(r.files, w.files, Chapter(w, id).href)
     /\ \/ r.edit.refused /\ r.content = w.content
        \/ ~r.edit.refused /\ Accepted(r) /\ r.content = ContentOf(r)

LEMMA TitledNavigation ==
  ASSUME NEW w, Good(w), NEW target, NEW title, NEW r, r = WithNavigationTitle(w, target, title)
  PROVE  /\ Good(r) /\ DOMAIN r.files = DOMAIN w.files
         /\ r.fixed = w.fixed /\ r.document = w.document /\ r.content = w.content
         /\ r.cover = w.cover /\ r.edit = w.edit
         /\ \A name \in DOMAIN w.files :
              r.files[name] = w.files[name] \/ r.files[name] = Relabelled(w.files[name], target, title)
<1>1. PICK files :
        files = [name \in DOMAIN w.files |->
                  IF name \in NavigationRead(w) THEN Relabelled(w.files[name], target, title)
                  ELSE w.files[name]]
  OBVIOUS
<1>2. r = Refiled(w, files)
  BY <1>1, Zenon DEF WithNavigationTitle, Refiled
<1>3. IsMap(files) /\ DOMAIN files = DOMAIN w.files
  BY <1>1 DEF IsMap
<1>4. \A name \in DOMAIN w.files :
        files[name] = w.files[name] \/ files[name] = Relabelled(w.files[name], target, title)
  BY <1>1
<1>5. QED
  BY <1>2, <1>3, <1>4, RefiledIsGood

LEMMA ChapterUpdated ==
  ASSUME NEW w, Good(w), NEW id, NEW source, NEW title \in Titles,
         NEW r, r = UpdateChapter(w, id, source, title)
  PROVE  /\ Orderly(r, w) /\ IsCalled(r.edit, "update", id, title, << >>)
         /\ r.document = w.document /\ r.cover = w.cover /\ Written(r, w, id)
<1>1. PICK edit : edit = Edit("update", id, title, << >>)
  OBVIOUS
<1>2. PICK href : href = Chapter(w, id).href
  OBVIOUS
<1>3. PICK written : written = [w EXCEPT !.files = With(w.files, href, Retitled(source, title))]
  OBVIOUS
<1>4. PICK named : named = IF title = "" THEN written ELSE WithNavigationTitle(written, href, title)
  OBVIOUS
<1>5. PICK early \in BOOLEAN :
        early <=> (id \notin ChapterIds(w) \/ ~ValidSource(source) \/ ~TitleFits(source, title))
  OBVIOUS
<1>6. PICK read \in BOOLEAN : read <=> (title = "" \/ NavigationIsRead(written))
  OBVIOUS
<1>8. r = IF early THEN Refused(w, edit)
          ELSE IF read /\ Accepted(named) THEN Done(Inspected(named), edit)
          ELSE Refused(named, edit)
  BY <1>1, <1>2, <1>3, <1>4, <1>5, <1>6, Zenon DEF UpdateChapter
<1>9. CASE early
  <2>1. r = Refused(w, Edit("update", id, title, << >>))
    BY <1>1, <1>8, <1>9
  <2>2. /\ Good(r) /\ SamePackage(r, w) /\ r.content = w.content /\ r.cover = w.cover
        /\ IsCalled(r.edit, "update", id, title, << >>) /\ r.edit.refused
    BY <2>1, RefusedIsGood
  <2>3. QED
    BY <2>2, RefusedIsOrderly DEF Written, SamePackage
<1>10. CASE ~early
  <2>1. PICK files : files = With(w.files, href, Retitled(source, title))
    OBVIOUS
  <2>2. /\ IsMap(files) /\ DOMAIN files = DOMAIN w.files \cup {href}
        /\ \A name \in DOMAIN w.files \ {href} : files[name] = w.files[name]
    <3>1. PICK old : old = w.files
      OBVIOUS
    <3>2. PICK body : files = With(old, href, body)
      BY <2>1, <3>1
    <3>3. IsMap(files) /\ DOMAIN files = DOMAIN old \cup {href}
      BY <3>2, WithIsMap
    <3>4. \A name \in DOMAIN old \ {href} : files[name] = old[name]
      BY <3>2, WithKeepsTheRest
    <3>5. QED
      BY <3>1, <3>3, <3>4
  <2>3. written = Refiled(w, files)
    BY <1>3, <2>1 DEF Refiled
  <2>4. /\ Good(written) /\ written.files = files
        /\ written.fixed = w.fixed /\ written.document = w.document /\ written.content = w.content
        /\ written.cover = w.cover
    BY <2>2, <2>3, RefiledIsGood
  <2>5. /\ Good(named) /\ DOMAIN named.files = DOMAIN files
        /\ named.fixed = w.fixed /\ named.document = w.document /\ named.content = w.content
        /\ named.cover = w.cover
        /\ Relabels(named.files, w.files, href)
    <3>1. CASE title = ""
      BY <1>4, <2>2, <2>4, <3>1 DEF Relabels
    <3>2. CASE title # ""
      <4>1. named = WithNavigationTitle(written, href, title)
        BY <1>4, <3>2
      <4>2. /\ Good(named) /\ DOMAIN named.files = DOMAIN written.files
            /\ named.fixed = written.fixed /\ named.document = written.document
            /\ named.content = written.content /\ named.cover = written.cover
            /\ \A name \in DOMAIN written.files :
                 \/ named.files[name] = written.files[name]
                 \/ named.files[name] = Relabelled(written.files[name], href, title)
        BY <2>4, <4>1, TitledNavigation
      <4>3. Relabels(named.files, w.files, href)
        BY <2>2, <2>4, <4>2 DEF Relabels
      <4>4. QED
        BY <2>4, <4>2, <4>3
    <3>3. QED
      BY <3>1, <3>2
  <2>6. id \in ChapterIds(w)
    BY <1>5, <1>10
  <2>7. CASE ~(read /\ Accepted(named))
    <3>1. r = Refused(named, Edit("update", id, title, << >>))
      BY <1>1, <1>8, <1>10, <2>7
    <3>2. /\ Good(r) /\ SamePackage(r, named) /\ r.content = named.content /\ r.cover = named.cover
          /\ IsCalled(r.edit, "update", id, title, << >>) /\ r.edit.refused
      BY <2>5, <3>1, RefusedIsGood
    <3>3. Written(r, w, id) /\ r.fixed = w.fixed /\ r.document = w.document
      BY <1>2, <2>2, <2>5, <2>6, <3>2 DEF Written, SamePackage
    <3>4. QED
      BY <2>5, <3>2, <3>3, RefusedIsOrderly
  <2>8. CASE read /\ Accepted(named)
    <3>1. PICK seen : seen = Inspected(named)
      OBVIOUS
    <3>2. Accepted(named)
      BY <2>8
    <3>3. /\ IsSpace(seen) /\ SamePackage(seen, named) /\ seen.cover = named.cover
          /\ seen.content = ContentOf(named)
      BY <2>5, <3>1, <3>2, InspectedSpace DEF Good
    <3>4. r = Marked(seen, edit)
      BY <1>8, <1>10, <2>8, <3>1 DEF Done, Marked
    <3>5. /\ IsSpace(r) /\ SamePackage(r, named) /\ r.cover = named.cover
          /\ r.content = ContentOf(named) /\ r.edit = edit
      BY <3>3, <3>4, MarkedSpace DEF SamePackage, HasParts
    <3>6. Accepted(r) /\ r.content = ContentOf(r)
      BY <3>2, <3>5, SameIsAccepted
    <3>7. Consistent(r.document) /\ Listed(r)
      BY <3>6, AcceptedIsListed
    <3>8. IsCalled(r.edit, "update", id, title, << >>) /\ r.edit.refused \in BOOLEAN /\ ~r.edit.refused
      BY <1>1, <3>5, EditIsCalled
    <3>9. /\ r.fixed = w.fixed /\ r.document = w.document /\ r.cover = w.cover
          /\ r.files = named.files
      BY <2>5, <3>5 DEF SamePackage
    <3>10. Good(r)
      <4>1. IsDocument(r.document) /\ IsMap(r.files) /\ r.cover \in Pictures \cup {NoPicture}
        BY <2>5, <3>9 DEF Good
      <4>2. QED
        BY <3>5, <3>7, <3>8, <4>1, GoodParts
    <3>11. Written(r, w, id)
      BY <1>2, <2>2, <2>5, <2>6, <3>6, <3>8, <3>9 DEF Written
    <3>12. ListsAsAsked(w, r)
      <4>1. OrderOf(r) = OrderOf(w)
        BY <3>9, <3>10, OrderIsSpine
      <4>2. r.edit.operation = "update"
        BY <3>8 DEF IsCalled
      <4>3. QED
        BY <4>1, <4>2 DEF ListsAsAsked, OrderAfter
    <3>13. QED
      BY <3>8, <3>9, <3>10, <3>11, <3>12 DEF Orderly
  <2>9. QED
    BY <2>7, <2>8
<1>11. QED
  BY <1>9, <1>10

\* The new chapter is there, last, or its file is gone again; the old document
\* may have been inspected again while the file was there.
Added(r, w, id) ==
  \/ r.edit.refused /\ Unchanged(r, w)
  \/ \E v : /\ v.fixed = w.fixed /\ DOMAIN v.files = DOMAIN w.files \cup {id}
            /\ \A name \in DOMAIN w.files \ {id} : v.files[name] = w.files[name]
            /\ \/ /\ r.edit.refused /\ v.document = w.document /\ r.document = w.document
                  /\ r.files = Without(v.files, id)
                  /\ \/ r.content = w.content
                     \/ Accepted(v) /\ r.content = ContentOf(v)
               \/ /\ ~r.edit.refused /\ r.document = WithChapter(w.document, id)
                  /\ r.files = v.files
                  /\ Accepted(r) /\ r.content = ContentOf(r)

LEMMA ChapterAdded ==
  ASSUME NEW w, Good(w), NEW source, NEW title \in Titles,
         NEW id, id = AddedName(AddedNumber(w)),
         NEW r, r = AddChapter(w, source, title)
  PROVE  /\ Orderly(r, w) /\ IsCalled(r.edit, "add", id, title, << >>) /\ Added(r, w, id)
         /\ r.cover = w.cover
<1>1. PICK edit : edit = Edit("add", id, title, << >>)
  OBVIOUS
<1>2. PICK written : written = [w EXCEPT !.files = With(w.files, id, Retitled(source, title))]
  OBVIOUS
<1>3. PICK document : document = WithChapter(w.document, id)
  OBVIOUS
<1>4. PICK result : result = WriteDocumentAndRefresh(written, document, edit)
  OBVIOUS
<1>5. r = IF ~ValidSource(source) \/ ~TitleFits(source, title) THEN Refused(w, edit)
          ELSE IF result.edit.refused THEN WithoutWritten(result, id) ELSE result
  BY <1>1, <1>2, <1>3, <1>4, Zenon DEF AddChapter
<1>6. CASE ~ValidSource(source) \/ ~TitleFits(source, title)
  <2>1. r = Refused(w, Edit("add", id, title, << >>))
    BY <1>1, <1>5, <1>6
  <2>2. /\ Good(r) /\ SamePackage(r, w) /\ r.content = w.content /\ r.cover = w.cover
        /\ IsCalled(r.edit, "add", id, title, << >>) /\ r.edit.refused
    BY <2>1, RefusedIsGood
  <2>3. QED
    BY <2>2, RefusedIsOrderly DEF Added, Unchanged, SamePackage
<1>7. CASE ~(~ValidSource(source) \/ ~TitleFits(source, title))
  <2>1. PICK files : files = With(w.files, id, Retitled(source, title))
    OBVIOUS
  <2>2. /\ IsMap(files) /\ DOMAIN files = DOMAIN w.files \cup {id}
        /\ \A name \in DOMAIN w.files \ {id} : files[name] = w.files[name]
    <3>1. PICK old : old = w.files
      OBVIOUS
    <3>2. PICK body : files = With(old, id, body)
      BY <2>1, <3>1
    <3>3. IsMap(files) /\ DOMAIN files = DOMAIN old \cup {id}
      BY <3>2, WithIsMap
    <3>4. \A name \in DOMAIN old \ {id} : files[name] = old[name]
      BY <3>2, WithKeepsTheRest
    <3>5. QED
      BY <3>1, <3>3, <3>4
  <2>3. written = Refiled(w, files)
    BY <1>2, <2>1 DEF Refiled
  <2>4. /\ Good(written) /\ written.files = files
        /\ written.fixed = w.fixed /\ written.document = w.document /\ written.content = w.content
        /\ written.cover = w.cover
    BY <2>2, <2>3, RefiledIsGood
  <2>5. IsDocument(document) /\ document.spine = Append(w.document.spine, id)
    BY <1>3, ChapterDocument DEF Good
  <2>6. result = WriteDocumentAndRefresh(written, document, Edit("add", id, title, << >>))
    BY <1>1, <1>4
  <2>7. /\ Good(result) /\ result.fixed = written.fixed /\ result.files = written.files
        /\ result.cover = written.cover
        /\ IsCalled(result.edit, "add", id, title, << >>) /\ Replaced(result, written, document)
    BY <2>4, <2>5, <2>6, RefreshedIsGood
  <2>8. CASE result.edit.refused
    <3>1. PICK rest : rest = Without(files, id)
      OBVIOUS
    <3>2. r = Refiled(result, rest)
      BY <1>5, <1>7, <2>4, <2>7, <2>8, <3>1 DEF WithoutWritten, Refiled
    <3>3. IsMap(rest)
      BY <3>1, WithoutIsMap
    <3>4. /\ Good(r) /\ r.files = rest /\ r.fixed = result.fixed
          /\ r.document = result.document /\ r.content = result.content /\ r.edit = result.edit
          /\ r.cover = w.cover
      BY <2>4, <2>7, <3>2, <3>3, RefiledIsGood
    <3>5. /\ r.document = w.document
          /\ \/ r.content = w.content
             \/ Accepted(written) /\ r.content = ContentOf(written)
      BY <2>4, <2>7, <2>8, <3>4 DEF Replaced
    <3>6. r.edit.refused /\ r.fixed = w.fixed /\ IsCalled(r.edit, "add", id, title, << >>)
      BY <2>4, <2>7, <2>8, <3>4
    <3>7. Added(r, w, id)
      BY <2>2, <2>4, <3>1, <3>4, <3>5, <3>6 DEF Added
    <3>8. QED
      BY <3>4, <3>6, <3>7, RefusedIsOrderly
  <2>9. CASE ~result.edit.refused
    <3>1. r = result
      BY <1>5, <1>7, <2>9
    <3>2. /\ ~r.edit.refused /\ r.document = document /\ Accepted(r) /\ r.content = ContentOf(r)
      BY <2>7, <2>9, <3>1 DEF Replaced
    <3>3. Added(r, w, id)
      BY <1>3, <2>2, <2>4, <2>7, <3>1, <3>2 DEF Added
    <3>4. ListsAsAsked(w, r)
      <4>1. OrderOf(r) = Append(OrderOf(w), id)
        BY <2>5, <2>7, <3>1, <3>2, OrderIsSpine
      <4>2. r.edit.operation = "add" /\ r.edit.id = id
        BY <2>7, <3>1 DEF IsCalled
      <4>3. OrderAfter(w, r.edit) = Append(OrderOf(w), id)
        BY <4>2 DEF OrderAfter
      <4>4. QED
        BY <4>1, <4>3 DEF ListsAsAsked
    <3>5. QED
      BY <2>4, <2>7, <3>1, <3>3, <3>4 DEF Orderly
  <2>10. QED
    BY <2>8, <2>9
<1>8. QED
  BY <1>6, <1>7

LEMMA CoverIsFound ==
  ASSUME NEW document, IsDocument(document), CoverPlaces(document) # {}
  PROVE  /\ FirstOf(CoverPlaces(document)) \in CoverPlaces(document)
         /\ document.items[FirstOf(CoverPlaces(document))] \in Items(document)
<1>1. CoverPlaces(document) \subseteq DOMAIN document.items
  BY DEF CoverPlaces
<1>2. DOMAIN document.items \subseteq Nat
  BY DocumentParts
<1>3. \E k \in CoverPlaces(document) : \A j \in CoverPlaces(document) : k <= j
  BY <1>1, <1>2, LeastElement
<1>4. FirstOf(CoverPlaces(document)) \in CoverPlaces(document)
  BY <1>3, Zenon DEF FirstOf
<1>5. QED
  BY <1>1, <1>4 DEF Items

\* The picture has the name of a cover or of an item's file.
Illustrated(r, w, media) ==
  /\ r.document.spine = w.document.spine
  /\ \E name : /\ name = CoverName(media) \/ \E item \in Items(w.document) : item.href = name
               /\ DOMAIN r.files \subseteq DOMAIN w.files \cup {name}
  /\ r.edit.refused => r.document = w.document
  /\ ~r.edit.refused =>
       /\ Keys(r.document) \in {Keys(w.document), Keys(w.document) \cup {<<CoverId, CoverName(media)>>}}
       /\ Accepted(r) /\ r.content = ContentOf(r)

\* What an accepted picture changes.
Pasted(r, w, picture) ==
  /\ r.cover = picture /\ ValidPicture(picture)
  /\ \/ /\ CoverPlaces(w.document) = {}
        /\ r.document = WithCoverItem(w.document, picture.media)
        /\ r.files = With(w.files, CoverName(picture.media), Image(picture))
     \/ \E found : /\ CoverPlaces(w.document) # {}
                    /\ found = w.document.items[FirstOf(CoverPlaces(w.document))]
                    /\ r.document = WithMediaType(w.document, found.id, picture.media)
                    /\ r.files = With(w.files, found.href, Image(picture))

LEMMA CoverReplaced ==
  ASSUME NEW w, Good(w), NEW picture \in Pictures, NEW r, r = ReplaceCover(w, picture)
  PROVE  /\ Orderly(r, w) /\ IsCalled(r.edit, "cover", CoverId, "", << >>)
         /\ Illustrated(r, w, picture.media)
         /\ r.edit.refused \/ Pasted(r, w, picture)
<1>a. PICK none \in Titles : none = ""
  BY WorkspaceAssumption
<1>b. none \in Titles
  BY <1>a
<1>1. PICK edit : edit = Edit("cover", CoverId, none, << >>)
  OBVIOUS
<1>2. PICK candidates : candidates = CoverPlaces(w.document)
  OBVIOUS
<1>3. PICK found : found = w.document.items[FirstOf(candidates)]
  OBVIOUS
<1>4. PICK document :
        document = IF candidates = {} THEN WithCoverItem(w.document, picture.media)
                   ELSE WithMediaType(w.document, found.id, picture.media)
  OBVIOUS
<1>5. PICK name :
        name = IF candidates = {} THEN CoverName(picture.media) ELSE CoverFile(found, picture)
  OBVIOUS
<1>6. PICK written : written = [w EXCEPT !.files = With(w.files, name, Image(picture))]
  OBVIOUS
<1>7. PICK result : result = WriteDocumentAndRefresh(written, document, edit)
  OBVIOUS
<1>8. r = IF ~ValidPicture(picture) \/ (candidates = {} /\ ~TakesCoverItem(w.document))
          THEN Refused(w, edit)
          ELSE IF result.edit.refused THEN result ELSE [result EXCEPT !.cover = picture]
  BY <1>a, <1>1, <1>2, <1>3, <1>4, <1>5, <1>6, <1>7, Zenon DEF ReplaceCover
<1>9. IsDocument(w.document)
  BY DEF Good
<1>10. CASE ~ValidPicture(picture) \/ (candidates = {} /\ ~TakesCoverItem(w.document))
  <2>1. r = Refused(w, Edit("cover", CoverId, none, << >>))
    BY <1>1, <1>8, <1>10
  <2>2. /\ Good(r) /\ SamePackage(r, w) /\ r.content = w.content /\ r.cover = w.cover
        /\ IsCalled(r.edit, "cover", CoverId, none, << >>) /\ r.edit.refused
    BY <1>b, <2>1, RefusedIsGood
  <2>3. Illustrated(r, w, picture.media)
    BY <2>2 DEF Illustrated, SamePackage
  <2>4. QED
    BY <1>a, <2>2, <2>3, RefusedIsOrderly DEF SamePackage
<1>11. CASE ValidPicture(picture) /\ ~(candidates = {} /\ ~TakesCoverItem(w.document))
  <2>1. PICK files : files = With(w.files, name, Image(picture))
    OBVIOUS
  <2>2. IsMap(files) /\ DOMAIN files = DOMAIN w.files \cup {name}
    <3>1. PICK old : old = w.files
      OBVIOUS
    <3>2. PICK body : files = With(old, name, body)
      BY <2>1, <3>1
    <3>3. QED
      BY <3>1, <3>2, WithIsMap
  <2>3. written = Refiled(w, files)
    BY <1>6, <2>1 DEF Refiled
  <2>4. /\ Good(written) /\ written.files = files
        /\ written.fixed = w.fixed /\ written.document = w.document
    BY <2>2, <2>3, RefiledIsGood
  <2>5. /\ IsDocument(document) /\ document.spine = w.document.spine
        /\ Keys(document) \in {Keys(w.document),
                               Keys(w.document) \cup {<<CoverId, CoverName(picture.media)>>}}
        /\ name = CoverName(picture.media) \/ \E item \in Items(w.document) : item.href = name
    <3>1. CASE candidates = {}
      BY <1>4, <1>5, <1>9, <3>1, CoverDocument
    <3>2. CASE candidates # {}
      <4>1. document = WithMediaType(w.document, found.id, picture.media) /\ name = found.href
        BY <1>4, <1>5, <3>2 DEF CoverFile
      <4>2. IsDocument(document) /\ document.spine = w.document.spine /\ Keys(document) = Keys(w.document)
        BY <1>9, <4>1, RetypedDocument
      <4>3. found \in Items(w.document)
        BY <1>2, <1>3, <1>9, <3>2, CoverIsFound
      <4>4. QED
        BY <4>1, <4>2, <4>3
    <3>3. QED
      BY <3>1, <3>2
  <2>6. result = WriteDocumentAndRefresh(written, document, Edit("cover", CoverId, none, << >>))
    BY <1>1, <1>7
  <2>7. /\ Good(result) /\ result.fixed = written.fixed /\ result.files = written.files
        /\ result.cover = written.cover
        /\ IsCalled(result.edit, "cover", CoverId, none, << >>) /\ Replaced(result, written, document)
    BY <1>b, <2>4, <2>5, <2>6, RefreshedIsGood
  <2>8. CASE result.edit.refused
    <3>1. r = result
      BY <1>8, <1>11, <2>8
    <3>2. r.document = w.document
      BY <2>4, <2>7, <2>8, <3>1 DEF Replaced
    <3>3. Illustrated(r, w, picture.media)
      BY <2>2, <2>4, <2>5, <2>7, <2>8, <3>1, <3>2 DEF Illustrated
    <3>4. QED
      BY <1>a, <2>4, <2>7, <2>8, <3>1, <3>3, RefusedIsOrderly
  <2>9. CASE ~result.edit.refused
    <3>1. r = Recovered(result, picture)
      BY <1>8, <1>11, <2>9 DEF Recovered
    <3>2. /\ IsSpace(r) /\ r.fixed = result.fixed /\ r.files = result.files
          /\ r.document = result.document /\ r.content = result.content /\ r.cover = picture
          /\ r.edit = result.edit
      BY <2>7, <3>1, RecoveredSpace DEF Good, HasParts
    <3>3. SamePackage(r, result)
      BY <3>2 DEF SamePackage
    <3>4. /\ r.document = document /\ Accepted(r) /\ r.content = ContentOf(r) /\ ~r.edit.refused
      BY <2>7, <2>9, <3>2, <3>3, SameIsAccepted DEF Replaced
    <3>5. Good(r)
      <4>1. Listed(r)
        BY <2>7, <3>2 DEF Good, Listed
      <4>2. QED
        BY <2>7, <3>2, <4>1 DEF Good
    <3>6. Illustrated(r, w, picture.media)
      BY <2>2, <2>4, <2>5, <2>7, <3>2, <3>4 DEF Illustrated
    <3>a. Pasted(r, w, picture)
      <4>1. r.files = With(w.files, name, Image(picture)) /\ r.document = document
        BY <2>1, <2>4, <2>7, <3>2, <3>4
      <4>2. CASE candidates = {}
        BY <1>2, <1>4, <1>5, <1>11, <3>2, <4>1, <4>2 DEF Pasted
      <4>3. CASE candidates # {}
        <5>1. r.document = WithMediaType(w.document, found.id, picture.media) /\ name = found.href
          BY <1>4, <1>5, <4>1, <4>3 DEF CoverFile
        <5>2. r.files = With(w.files, found.href, Image(picture))
          BY <4>1, <5>1
        <5>3. QED
          BY <1>2, <1>3, <1>11, <3>2, <4>3, <5>1, <5>2 DEF Pasted
      <4>4. QED
        BY <4>2, <4>3
    <3>7. ListsAsAsked(w, r)
      <4>1. OrderOf(r) = OrderOf(w)
        BY <2>5, <3>4, <3>5, OrderIsSpine
      <4>2. r.edit.operation = "cover"
        BY <2>7, <3>2 DEF IsCalled
      <4>3. QED
        BY <4>1, <4>2 DEF ListsAsAsked, OrderAfter
    <3>8. QED
      BY <1>a, <2>4, <2>7, <3>2, <3>a, <3>5, <3>6, <3>7 DEF Orderly
  <2>10. QED
    BY <2>8, <2>9
<1>12. QED
  BY <1>10, <1>11

-----------------------------------------------------------------------------
(* The steps.                                                              *)

\* What r may be after an edit of w.
AfterEdit(r, w) ==
  \/ \E title \in Titles : r = UpdateMetadata(w, title)
  \/ \E id : \E source \in Sources, title \in Titles : r = UpdateChapter(w, id, source, title)
  \/ \E source \in Sources, title \in Titles : r = AddChapter(w, source, title)
  \/ \E id : r = DeleteChapter(w, id)
  \/ \E order \in [DOMAIN w.content.chapters -> ChapterIds(w)] : r = ReorderSpine(w, order)
  \/ \E picture \in Pictures : r = ReplaceCover(w, picture)

EditAction ==
  \/ ChangeMetadata \/ ChangeChapter \/ NewChapter \/ RemoveChapter
  \/ ChangeOrder \/ ChangeCover

LEMMA EditActions ==
  ASSUME EditAction
  PROVE  \E w \in ws : \E r : AfterEdit(r, w) /\ Edited(w, r)
<1>1. CASE ChangeMetadata
  BY <1>1, Zenon DEF ChangeMetadata, AfterEdit
<1>2. CASE ChangeChapter
  BY <1>2, Zenon DEF ChangeChapter, AfterEdit
<1>3. CASE NewChapter
  BY <1>3, Zenon DEF NewChapter, AfterEdit
<1>4. CASE RemoveChapter
  BY <1>4, Zenon DEF RemoveChapter, AfterEdit
<1>5. CASE ChangeOrder
  BY <1>5, Zenon DEF ChangeOrder, AfterEdit
<1>6. CASE ChangeCover
  BY <1>6, Zenon DEF ChangeCover, AfterEdit
<1>7. QED
  BY <1>1, <1>2, <1>3, <1>4, <1>5, <1>6 DEF EditAction

\* Every edit of a good workspace leaves a good one, with the chapters that
\* were asked for.
LEMMA EditsAreOrderly ==
  ASSUME NEW w, Good(w), NEW r, AfterEdit(r, w)
  PROVE  Orderly(r, w)
<1>1. ASSUME NEW title \in Titles, r = UpdateMetadata(w, title)
      PROVE  Orderly(r, w)
  BY <1>1, MetadataChanged
<1>2. ASSUME NEW id, NEW source \in Sources, NEW title \in Titles, r = UpdateChapter(w, id, source, title)
      PROVE  Orderly(r, w)
  BY <1>2, ChapterUpdated
<1>3. ASSUME NEW source \in Sources, NEW title \in Titles, r = AddChapter(w, source, title)
      PROVE  Orderly(r, w)
  BY <1>3, ChapterAdded
<1>4. ASSUME NEW id, r = DeleteChapter(w, id)
      PROVE  Orderly(r, w)
  BY <1>4, ChapterRemoved
<1>5. ASSUME NEW order \in [DOMAIN w.content.chapters -> ChapterIds(w)], r = ReorderSpine(w, order)
      PROVE  Orderly(r, w)
  BY <1>5, OrderChanged
<1>6. ASSUME NEW picture \in Pictures, r = ReplaceCover(w, picture)
      PROVE  Orderly(r, w)
  BY <1>6, CoverReplaced
<1>7. QED
  BY <1>1, <1>2, <1>3, <1>4, <1>5, <1>6 DEF AfterEdit

IsArchive(archive) ==
  /\ archive = [fixed |-> archive.fixed, files |-> archive.files,
                 document |-> archive.document, flaw |-> archive.flaw]
  /\ archive.fixed \subseteq FixedEntries
  /\ IsMap(archive.files) /\ IsDocument(archive.document)

LEMMA OpenedIsGood ==
  ASSUME NEW archive, IsArchive(archive), Opens(archive), NEW w, w = Opened(archive)
  PROVE  /\ Good(w) /\ w.fixed = archive.fixed /\ w.files = archive.files
         /\ w.document = archive.document /\ w.content = ContentOf(w) /\ ~w.edit.refused
<1>1. /\ IsSpace(w) /\ w.fixed = archive.fixed /\ w.files = archive.files
      /\ w.document = archive.document /\ w.content = ContentOf(archive)
      /\ w.cover = NoPicture /\ w.edit = NoEdit
  BY DEF Opened, IsSpace
<1>2. Accepted(w) /\ w.content = ContentOf(w)
  BY <1>1, SameIsAccepted DEF SamePackage, Opens
<1>3. Consistent(w.document) /\ Listed(w)
  BY <1>2, AcceptedIsListed
<1>4. IsEdit(NoEdit) /\ NoEdit.title \in Titles /\ NoEdit.refused \in BOOLEAN /\ ~NoEdit.refused
  BY WorkspaceAssumption DEF NoEdit, IsEdit
<1>5. QED
  BY <1>1, <1>2, <1>3, <1>4 DEF Good, IsArchive

LEMMA ArchiveOfWorkspace ==
  ASSUME NEW w, Good(w), w.fixed \subseteq FixedEntries, NEW archive, archive = Archive(w)
  PROVE  /\ IsArchive(archive) /\ archive.fixed = w.fixed /\ archive.files = w.files
         /\ archive.document = w.document
BY DEF Archive, Good, IsArchive

\* The parts of the inductive invariant.
ArchiveInv == IsArchive(published)

RowInv ==
  /\ row = [title |-> row.title, preview |-> row.preview]
  /\ row.title \in Titles
  /\ row.preview \in Pictures \cup {NoPicture}

SpaceInv ==
  /\ \A v, w \in ws : v = w
  /\ \A w \in ws : Good(w) /\ w.fixed = published.fixed

EditsInv == edits \in 0..MaxEdits

WorkspaceInv == ArchiveInv /\ RowInv /\ SpaceInv /\ EditsInv

\* In words: what the workspace knows is what its document says.
LEMMA InitWorkspace ==
  ASSUME Init
  PROVE  WorkspaceInv
<1>1. ArchiveInv
  BY UploadsAssumption DEF Init, ArchiveInv, IsArchive, IsMap
<1>2. RowInv
  <2>1. PICK title \in Titles : row = [title |-> title, preview |-> NoPicture]
    BY DEF Init
  <2>2. QED
    BY <2>1 DEF RowInv
<1>3. SpaceInv
  BY DEF Init, SpaceInv
<1>4. EditsInv
  <2>1. MaxEdits \in Nat
    BY WorkspaceAssumption, Zenon
  <2>2. edits = 0
    BY DEF Init
  <2>3. QED
    BY <2>1, <2>2 DEF EditsInv
<1>5. QED
  BY <1>1, <1>2, <1>3, <1>4 DEF WorkspaceInv

\* What an edit does to the only workspace.
LEMMA EditedWorkspace ==
  ASSUME WorkspaceInv, EditAction
  PROVE  \E w \in ws : \E r :
           /\ AfterEdit(r, w) /\ Usable(w) /\ Good(w) /\ Orderly(r, w)
           /\ ws = {w} /\ ws' = {r} /\ edits < MaxEdits /\ edits' = edits + 1
           /\ UNCHANGED <<published, row>>
<1>1. PICK w \in ws : \E r : AfterEdit(r, w) /\ Edited(w, r)
  BY EditActions
<1>2. PICK r : AfterEdit(r, w) /\ Edited(w, r)
  BY <1>1
<1>3. Good(w) /\ ws = {w}
  BY DEF WorkspaceInv, SpaceInv
<1>4. Orderly(r, w)
  BY <1>2, <1>3, EditsAreOrderly
<1>5. QED
  BY <1>2, <1>3, <1>4 DEF Edited

LEMMA NextWorkspace ==
  ASSUME WorkspaceInv, [Next]_vars
  PROVE  WorkspaceInv'
<1> USE DEF WorkspaceInv
<1>1. CASE EditAction
  <2>1. PICK w \in ws : \E r :
          /\ AfterEdit(r, w) /\ Usable(w) /\ Good(w) /\ Orderly(r, w)
          /\ ws = {w} /\ ws' = {r} /\ edits < MaxEdits /\ edits' = edits + 1
          /\ UNCHANGED <<published, row>>
    BY <1>1, EditedWorkspace
  <2>2. PICK r :
          /\ AfterEdit(r, w) /\ Usable(w) /\ Good(w) /\ Orderly(r, w)
          /\ ws = {w} /\ ws' = {r} /\ edits < MaxEdits /\ edits' = edits + 1
          /\ UNCHANGED <<published, row>>
    BY <2>1
  <2>3. ArchiveInv' /\ RowInv'
    BY <2>2 DEF ArchiveInv, RowInv
  <2>4. SpaceInv'
    BY <2>2 DEF SpaceInv, Orderly
  <2>5. EditsInv'
    <3>1. MaxEdits \in Nat
      BY WorkspaceAssumption, Zenon
    <3>2. QED
      BY <2>2, <3>1 DEF EditsInv
  <2>6. QED
    BY <2>3, <2>4, <2>5
<1>2. CASE OpenWorkspace
  <2>1. PICK w : w = Opened(published)
    OBVIOUS
  <2>2. Good(w) /\ w.fixed = published.fixed
    BY <1>2, <2>1, OpenedIsGood DEF OpenWorkspace, ArchiveInv
  <2>3. ws' = {w} /\ UNCHANGED <<published, row, edits>>
    BY <1>2, <2>1 DEF OpenWorkspace
  <2>4. SpaceInv'
    BY <2>2, <2>3 DEF SpaceInv
  <2>5. ArchiveInv' /\ RowInv' /\ EditsInv'
    BY <2>3 DEF ArchiveInv, RowInv, EditsInv
  <2>6. QED
    BY <2>4, <2>5
<1>3. CASE Publish
  <2>1. PICK w \in ws : /\ Rebuilds(w) /\ published' = Archive(w)
                        /\ row' = [title |-> w.content.title,
                                   preview |-> IF w.cover = NoPicture THEN row.preview ELSE w.cover]
                        /\ ws' = {} /\ UNCHANGED edits
    BY <1>3 DEF Publish
  <2>2. Good(w) /\ w.fixed \subseteq FixedEntries
    BY DEF SpaceInv, ArchiveInv, IsArchive
  <2>3. /\ IsArchive(published') /\ published'.document = w.document
    BY <2>1, <2>2, ArchiveOfWorkspace
  <2>4. ArchiveInv'
    BY <2>3 DEF ArchiveInv
  <2>5. RowInv'
    <3>1. w.content.title \in Titles /\ w.cover \in Pictures \cup {NoPicture}
      BY <2>2, DocumentParts DEF Good, Listed
    <3>2. QED
      BY <2>1, <3>1 DEF RowInv
  <2>6. SpaceInv' /\ EditsInv'
    BY <2>1 DEF SpaceInv, EditsInv
  <2>7. QED
    BY <2>4, <2>5, <2>6
<1>4. CASE Close \/ UNCHANGED vars
  <2>1. ArchiveInv' /\ RowInv' /\ EditsInv' /\ SpaceInv'
    BY <1>4 DEF Close, vars, ArchiveInv, RowInv, EditsInv, SpaceInv
  <2>2. QED
    BY <2>1
<1>5. CASE UpdateDetails
  <2>1. RowInv'
    BY <1>5 DEF UpdateDetails, RowInv
  <2>2. ArchiveInv' /\ EditsInv' /\ SpaceInv'
    BY <1>5 DEF UpdateDetails, ArchiveInv, EditsInv, SpaceInv
  <2>3. QED
    BY <2>1, <2>2
<1>6. QED
  BY <1>1, <1>2, <1>3, <1>4, <1>5 DEF Next, EditAction

LEMMA Workspaces ==
  Spec => []WorkspaceInv
<1>1. Init => WorkspaceInv
  BY InitWorkspace
<1>2. WorkspaceInv /\ [Next]_vars => WorkspaceInv'
  BY NextWorkspace
<1>3. QED
  BY <1>1, <1>2, PTL DEF Spec

\* Every publication leaves the title of the package in the row of the book,
\* however often the row was renamed before.
THEOREM PublicationsMirrorThePackage ==
  Spec => RowMirrorsThePackage
<1>1. ASSUME WorkspaceInv, [Next]_vars
      PROVE  [RowMirrors]_vars
  <2>1. SUFFICES ASSUME Next, published' # published
                 PROVE  row'.title = published'.document.title
    BY <1>1 DEF RowMirrors
  <2>2. Publish
    BY <2>1 DEF Next, EditAction, OpenWorkspace, ChangeMetadata, ChangeChapter, NewChapter,
                RemoveChapter, ChangeOrder, ChangeCover, Edited, UpdateDetails, Close
  <2>3. PICK w \in ws : /\ published' = Archive(w)
                        /\ row' = [title |-> w.content.title,
                                   preview |-> IF w.cover = NoPicture THEN row.preview ELSE w.cover]
    BY <2>2 DEF Publish
  <2>4. w.content.title = w.document.title
    BY <1>1 DEF WorkspaceInv, SpaceInv, Good, Listed
  <2>5. published'.document = w.document
    BY <2>3 DEF Archive
  <2>6. QED
    BY <2>3, <2>4, <2>5
<1>2. QED
  BY <1>1, Workspaces, PTL DEF Spec, RowMirrorsThePackage

\* Every workspace has the parts of the Go struct and at least one chapter.
THEOREM WorkspacesAreTyped ==
  Spec => []TypeOK
<1>1. ASSUME WorkspaceInv
      PROVE  TypeOK
  <2>1. Cardinality(ws) <= 1
    <3>1. ws = {} \/ \E w \in ws : ws = {w}
      BY <1>1 DEF WorkspaceInv, SpaceInv
    <3>2. CASE ws = {}
      BY <3>2, FS_EmptySet
    <3>3. CASE \E w \in ws : ws = {w}
      <4>1. PICK w \in ws : ws = {w}
        BY <3>3
      <4>2. Cardinality({w}) = 1
        BY FS_Singleton, Zenon
      <4>3. QED
        BY <4>1, <4>2
    <3>4. QED
      BY <3>1, <3>2, <3>3
  <2>2. row.title \in Titles /\ row.preview \in Pictures \cup {NoPicture}
    BY <1>1, DocumentParts DEF WorkspaceInv, RowInv, ArchiveInv, IsArchive
  <2>3. edits \in 0..MaxEdits /\ published.fixed \subseteq FixedEntries
    BY <1>1 DEF WorkspaceInv, EditsInv, ArchiveInv, IsArchive
  <2>4. ASSUME NEW w \in ws
        PROVE  /\ w.fixed = published.fixed
               /\ w.content.chapters # << >>
               /\ w.cover \in Pictures \cup {NoPicture}
               /\ w.edit.title \in Titles /\ w.edit.refused \in BOOLEAN
    <3>1. Good(w) /\ w.fixed = published.fixed
      BY <1>1 DEF WorkspaceInv, SpaceInv
    <3>2. w.document.spine \in Seq(Members(w.document.spine)) /\ w.document.spine # << >>
      BY <3>1, DocumentParts DEF Good, Consistent
    <3>3. 1 \in DOMAIN w.document.spine
      BY <3>2
    <3>4. DOMAIN w.content.chapters = DOMAIN w.document.spine
      BY <3>1 DEF Good, Listed
    <3>5. w.content.chapters # << >>
      BY <3>3, <3>4
    <3>6. QED
      BY <3>1, <3>5 DEF Good
  <2>5. QED
    BY <2>1, <2>2, <2>3, <2>4 DEF TypeOK
<1>2. QED
  BY <1>1, Workspaces, PTL

\* The list of chapters changes as the edit says, in every step of every
\* workspace, whether or not an edit before it was refused.
THEOREM ChaptersAlwaysFollow ==
  Spec => ChaptersFollowTheEdit
<1>1. ASSUME WorkspaceInv, [Next]_vars
      PROVE  [ListedAsAsked]_vars
  <2>1. SUFFICES ASSUME Next, edits' # edits
                 PROVE  \A before \in ws, after \in ws' : ListsAsAsked(before, after)
    BY <1>1 DEF ListedAsAsked, EditStep
  <2>2. EditAction
    BY <2>1 DEF Next, EditAction, OpenWorkspace, Publish, UpdateDetails, Close
  <2>3. \E w \in ws : \E r : Orderly(r, w) /\ ws = {w} /\ ws' = {r}
    BY <1>1, <2>2, EditedWorkspace
  <2>4. QED
    BY <2>3 DEF Orderly
<1>2. QED
  BY <1>1, Workspaces, PTL DEF Spec, ChaptersFollowTheEdit

-----------------------------------------------------------------------------
(* Reading an edited package back.                                         *)

\* A workspace that is what the next Open would find.
ReadAgain(r) == Accepted(r) /\ r.content = ContentOf(r)

\* Removing the file of the deleted chapter is seen in no other chapter and by no
\* item, unless the file has two names in the manifest.
LEMMA DeletedReadsBack ==
  ASSUME NEW w, Good(w), NEW id, NEW r, r = DeleteChapter(w, id),
         ~r.edit.refused, ~TakesSharedFile(w, r.edit)
  PROVE  ReadAgain(r)
<1>1. IsCalled(r.edit, "delete", id, "", << >>) /\ Removed(r, w, id) /\ Orderly(r, w)
  BY ChapterRemoved
<1>2. /\ id \in ChapterIds(w) /\ r.document = WithoutItem(w.document, id)
      /\ r.files = Without(w.files, Chapter(w, id).href) /\ r.fixed = w.fixed
  BY <1>1 DEF Removed, Orderly
<1>3. PICK v : /\ v.fixed = w.fixed /\ v.files = w.files /\ v.document = r.document
               /\ Accepted(v) /\ r.content = ContentOf(v)
  BY <1>1 DEF Removed
<1>4. PICK href : href = Chapter(w, id).href
  OBVIOUS
<1>5. href \in HrefsOf(w, id)
  <2>1. \E k \in DOMAIN w.content.chapters : w.content.chapters[k].id = id
    BY <1>2 DEF ChapterIds
  <2>2. PICK k \in DOMAIN w.content.chapters :
          w.content.chapters[k].id = id /\ Chapter(w, id) = w.content.chapters[k]
    BY <2>1, Zenon DEF Chapter
  <2>3. QED
    BY <1>4, <2>2 DEF HrefsOf
<1>6. ASSUME NEW item \in Items(r.document)
      PROVE  item.href # href
  <2>1. item \in Items(w.document) /\ item.id # id
    <3>1. PICK old : old = w.document
      OBVIOUS
    <3>2. IsDocument(old) /\ r.document = WithoutItem(old, id)
      BY <1>2, <3>1 DEF Good
    <3>3. Filtered(r.document, old, id)
      BY <3>2, FilteredDocument
    <3>4. QED
      BY <1>6, <3>1, <3>3 DEF Filtered
  <2>2. r.edit.operation = "delete" /\ r.edit.id = id
    BY <1>1 DEF IsCalled
  <2>3. QED
    BY <1>5, <2>1, <2>2 DEF TakesSharedFile
<1>7. ASSUME NEW item \in Items(r.document)
      PROVE  /\ item.href \in DOMAIN w.files => item.href \in DOMAIN r.files
             /\ item.href \in DOMAIN r.files => r.files[item.href] = w.files[item.href]
  BY <1>2, <1>4, <1>6 DEF Without
<1>8. Accepted(r)
  <2>1. ManifestAccepted(r)
    BY <1>2, <1>3, <1>7 DEF Accepted, ManifestAccepted, ItemAccepted
  <2>2. QED
    BY <1>3, <2>1 DEF Accepted
<1>9. ContentOf(v) = ContentOf(r)
  <2>1. ASSUME NEW k \in DOMAIN r.document.spine
        PROVE  Listing(r, r.document.spine[k]) = Listing(v, r.document.spine[k])
    <3>1. PICK id2 : id2 = r.document.spine[k]
      OBVIOUS
    <3>2. id2 \in ManifestIds(r.document)
      BY <1>8, <2>1, <3>1 DEF Accepted
    <3>3. PICK item \in Items(r.document) : item = ItemOf(r.document, id2)
      BY <3>2, ItemIsFound
    <3>4. item.href \in DOMAIN r.files
      BY <1>8 DEF Accepted, ManifestAccepted, ItemAccepted
    <3>5. r.files[item.href] = v.files[item.href]
      BY <1>3, <1>7, <3>4
    <3>6. QED
      BY <1>3, <3>1, <3>3, <3>5 DEF Listing
  <2>2. PICK document : document = r.document
    OBVIOUS
  <2>3. /\ ContentOf(r) = [title |-> document.title,
                          chapters |-> [k \in DOMAIN document.spine |-> Listing(r, document.spine[k])]]
        /\ ContentOf(v) = [title |-> document.title,
                          chapters |-> [k \in DOMAIN document.spine |-> Listing(v, document.spine[k])]]
    BY <1>3, <2>2 DEF ContentOf, Listing
  <2>4. QED
    BY <2>1, <2>2, <2>3
<1>10. QED
  BY <1>3, <1>8, <1>9 DEF ReadAgain

LEMMA EditsRead ==
  ASSUME NEW w, Good(w), NEW r, AfterEdit(r, w), ~r.edit.refused, ~TakesSharedFile(w, r.edit)
  PROVE  ReadAgain(r)
<1>1. ASSUME NEW title \in Titles, r = UpdateMetadata(w, title)
      PROVE  ReadAgain(r)
  BY <1>1, MetadataChanged DEF Replaced, ReadAgain
<1>2. ASSUME NEW id, NEW source \in Sources, NEW title \in Titles, r = UpdateChapter(w, id, source, title)
      PROVE  ReadAgain(r)
  BY <1>2, ChapterUpdated DEF Written, ReadAgain
<1>3. ASSUME NEW source \in Sources, NEW title \in Titles, r = AddChapter(w, source, title)
      PROVE  ReadAgain(r)
  BY <1>3, ChapterAdded DEF Added, ReadAgain
<1>4. ASSUME NEW id, r = DeleteChapter(w, id)
      PROVE  ReadAgain(r)
  BY <1>4, DeletedReadsBack
<1>5. ASSUME NEW order \in [DOMAIN w.content.chapters -> ChapterIds(w)], r = ReorderSpine(w, order)
      PROVE  ReadAgain(r)
  BY <1>5, OrderChanged DEF Replaced, ReadAgain
<1>6. ASSUME NEW picture \in Pictures, r = ReplaceCover(w, picture)
      PROVE  ReadAgain(r)
  BY <1>6, CoverReplaced DEF Illustrated, ReadAgain
<1>7. QED
  BY <1>1, <1>2, <1>3, <1>4, <1>5, <1>6 DEF AfterEdit

\* An edit that succeeds can be read back: within the limits of an archive the
\* next Open accepts the package, and finds what this workspace has told.
THEOREM EditsAlwaysReadBack ==
  Spec => EditsReadBack
<1>1. ASSUME WorkspaceInv, [Next]_vars
      PROVE  [ReadBack]_vars
  <2>1. SUFFICES ASSUME Next, edits' # edits
                 PROVE  \A before \in ws, after \in ws' : ReadsBack(before, after)
    BY <1>1 DEF ReadBack, EditStep
  <2>2. EditAction
    BY <2>1 DEF Next, EditAction, OpenWorkspace, Publish, UpdateDetails, Close
  <2>3. PICK w \in ws : \E r : AfterEdit(r, w) /\ Good(w) /\ ws = {w} /\ ws' = {r}
    BY <1>1, <2>2, EditedWorkspace
  <2>4. PICK r : AfterEdit(r, w) /\ Good(w) /\ ws = {w} /\ ws' = {r}
    BY <2>3
  <2>5. ASSUME ~r.edit.refused, ~TakesSharedFile(w, r.edit), Extractable(Archive(r))
        PROVE  Opens(Archive(r)) /\ Opened(Archive(r)).content = r.content
    <3>1. Accepted(r) /\ r.content = ContentOf(r)
      BY <2>4, <2>5, EditsRead DEF ReadAgain
    <3>2. PICK archive : archive = Archive(r)
      OBVIOUS
    <3>3. SamePackage(archive, r)
      BY <3>2 DEF Archive, SamePackage
    <3>4. Accepted(archive) /\ ContentOf(archive) = r.content
      BY <3>1, <3>3, SameIsAccepted
    <3>5. Opened(archive).content = ContentOf(archive)
      BY DEF Opened
    <3>6. QED
      BY <2>5, <3>2, <3>4, <3>5 DEF Opens
  <2>6. ReadsBack(w, r)
    BY <2>5 DEF ReadsBack
  <2>7. QED
    BY <2>4, <2>6
<1>2. QED
  BY <1>1, Workspaces, PTL DEF Spec, EditsReadBack

-----------------------------------------------------------------------------
(* Counting chapters.                                                      *)

LEMMA MembersAreFinite ==
  ASSUME NEW S, NEW list \in Seq(S)
  PROVE  IsFiniteSet(Members(list)) /\ Cardinality(Members(list)) <= Len(list)
<1>1. Len(list) \in Nat /\ DOMAIN list = 1..Len(list)
  OBVIOUS
<1>2. PICK n \in Nat : n = Len(list)
  BY <1>1
<1>3. PICK f : f = [k \in 1..n |-> list[k]]
  OBVIOUS
<1>4. f \in Surjection(1..n, Members(list))
  BY <1>1, <1>2, <1>3 DEF Members, Surjection
<1>5. IsFiniteSet(1..n) /\ Cardinality(1..n) = n
  BY FS_Interval
<1>6. QED
  BY <1>2, <1>4, <1>5, FS_Surjection

\* An order without repetitions that is as long as the spine has all of it.
LEMMA OrderHasAll ==
  ASSUME NEW S, NEW list \in Seq(S), NEW order \in [DOMAIN list -> Members(list)],
         \A j, k \in DOMAIN order : order[j] = order[k] => j = k
  PROVE  Members(order) = Members(list)
<1>1. Len(list) \in Nat /\ DOMAIN list = 1..Len(list)
  OBVIOUS
<1>2. PICK n \in Nat : n = Len(list)
  BY <1>1
<1>3. PICK T : T = Members(list)
  OBVIOUS
<1>4. IsFiniteSet(T) /\ Cardinality(T) <= n
  BY <1>2, <1>3, MembersAreFinite
<1>5. order \in Injection(1..n, T)
  BY <1>1, <1>2, <1>3 DEF Injection, IsInjective
<1>6. Cardinality(1..n) = n
  BY FS_Interval
<1>7. /\ Cardinality(1..n) <= Cardinality(T)
      /\ Cardinality(1..n) = Cardinality(T) => order \in Surjection(1..n, T)
  BY <1>4, <1>5, FS_Injection
<1>8. Cardinality(T) \in Nat
  BY <1>4, FS_CardinalityType
<1>9. order \in Surjection(1..n, T)
  BY <1>4, <1>6, <1>7, <1>8
<1>10. /\ DOMAIN order = 1..n /\ \A k \in 1..n : order[k] \in T
       /\ \A t \in T : \E k \in 1..n : order[k] = t
  BY <1>9 DEF Surjection
<1>11. Members(order) = {order[k] : k \in 1..n}
  BY <1>10 DEF Members
<1>12. {order[k] : k \in 1..n} = T
  BY <1>10
<1>13. QED
  BY <1>3, <1>11, <1>12

\* AddChapter's search for a number ends with one that no chapter has.
THEOREM AddedNumberIsFree ==
  ASSUME NEW w, Good(w)
  PROVE  AddedName(AddedNumber(w)) \notin ChapterIds(w)
<1>1. PICK ids : ids = ChapterIds(w)
  OBVIOUS
<1>2. IsFiniteSet(ids)
  <2>1. w.document.spine \in Seq(Members(w.document.spine))
    BY DocumentParts DEF Good
  <2>2. QED
    BY <1>1, <2>1, ChaptersAreListed, MembersAreFinite
<1>3. Cardinality(ids) \in Nat
  BY <1>2, FS_CardinalityType
<1>4. PICK first \in Nat : first = Cardinality(ids) + 1
  BY <1>3
<1> DEFINE Free == {n \in first..(2 * first) : AddedName(n) \notin ids}
<1>5. Free # {}
  <2>1. SUFFICES ASSUME Free = {}
                 PROVE  FALSE
    OBVIOUS
  <2>2. PICK name : name = [n \in first..(2 * first) |-> AddedName(n)]
    OBVIOUS
  <2>3. \A n \in first..(2 * first) : name[n] \in ids
    BY <2>1, <2>2
  <2>4. \A m, n \in first..(2 * first) : name[m] = name[n] => m = n
    BY <2>2 DEF AddedName
  <2>5. name \in Injection(first..(2 * first), ids)
    <3>1. name \in [first..(2 * first) -> ids]
      BY <2>2, <2>3
    <3>2. QED
      BY <2>4, <3>1 DEF Injection, IsInjective
  <2>6. Cardinality(first..(2 * first)) <= Cardinality(ids)
    BY <1>2, <2>5, FS_Injection
  <2>7. Cardinality(first..(2 * first)) = first + 1
    <3>1. first \in Int /\ 2 * first \in Int /\ ~(first > 2 * first) /\ 2 * first - first + 1 = first + 1
      OBVIOUS
    <3>2. QED
      BY <3>1, FS_Interval
  <2>8. QED
    BY <1>3, <1>4, <2>6, <2>7
<1>6. Free \in SUBSET Nat
  OBVIOUS
<1>7. PICK n \in Free : \A m \in Free : n <= m
  <2> HIDE DEF Free
  <2> QED
    BY <1>5, <1>6, LeastElement
<1>8. \A m \in first..(n - 1) : AddedName(m) \in ids
  BY <1>6, <1>7
<1>9. /\ n \in first..(2 * first) /\ AddedName(n) \notin ids
      /\ \A m \in first..(n - 1) : AddedName(m) \in ids
  BY <1>7, <1>8
<1>10. AddedNumber(w) =
         CHOOSE k \in first..(2 * first) :
           AddedName(k) \notin ids /\ \A m \in first..(k - 1) : AddedName(m) \in ids
  BY <1>1, <1>4, Zenon DEF AddedNumber
<1>11. QED
  BY <1>1, <1>9, <1>10, Zenon

-----------------------------------------------------------------------------
(* Files with the names AddChapter makes up.                               *)
(*                                                                         *)
(* AddChapter looks for a number that no chapter has, and at no file and   *)
(* no item outside the spine.  That is enough when every such file is a    *)
(* chapter under its own name: in what AddChapter itself leaves, and in    *)
(* every upload that has no such file.                                     *)

IsAdded(name) == name[1] = "added"

Placed(pkg) ==
  /\ \A name \in DOMAIN pkg.files : IsAdded(name) =>
       <<name, name>> \in Keys(pkg.document) /\ name \in Members(pkg.document.spine)
  /\ \A item \in Items(pkg.document) : IsAdded(item.href) =>
       item.id = item.href /\ item.href \in Members(pkg.document.spine)

\* The hypothesis of the theorems below.
UploadsArePlaced == \A archive \in Uploads : Opens(archive) => Placed(archive)

IsContent(content) ==
  /\ content = [title |-> content.title, chapters |-> content.chapters]
  /\ IsMap(content.chapters)
  /\ \A k \in DOMAIN content.chapters :
       content.chapters[k] = [id |-> content.chapters[k].id, href |-> content.chapters[k].href,
                              title |-> content.chapters[k].title]

TitlesMatch(w) ==
  \A k \in DOMAIN w.content.chapters :
    w.content.chapters[k].href \in DOMAIN w.files =>
      w.content.chapters[k].title = w.files[w.content.chapters[k].href].title

\* A workspace that a client goes on with knows what its files say.
Settled(w) == Usable(w) => IsContent(w.content) /\ TitlesMatch(w)

LEMMA ContentIsContent ==
  ASSUME NEW w, Accepted(w), NEW content, content = ContentOf(w)
  PROVE  /\ IsContent(content)
         /\ \A k \in DOMAIN content.chapters :
              /\ content.chapters[k].href \in DOMAIN w.files
              /\ content.chapters[k].title = w.files[content.chapters[k].href].title
<1>1. content = [title |-> w.document.title,
                 chapters |-> [k \in DOMAIN w.document.spine |-> Listing(w, w.document.spine[k])]]
  BY DEF ContentOf, Listing
<1>2. /\ content = [title |-> content.title, chapters |-> content.chapters]
      /\ IsMap(content.chapters) /\ DOMAIN content.chapters = DOMAIN w.document.spine
      /\ \A k \in DOMAIN w.document.spine : content.chapters[k] = Listing(w, w.document.spine[k])
  BY <1>1 DEF IsMap
<1>3. ASSUME NEW k \in DOMAIN content.chapters
      PROVE  /\ content.chapters[k] =
                  [id |-> content.chapters[k].id, href |-> content.chapters[k].href,
                   title |-> content.chapters[k].title]
             /\ content.chapters[k].href \in DOMAIN w.files
             /\ content.chapters[k].title = w.files[content.chapters[k].href].title
  <2>1. PICK id : id = w.document.spine[k]
    OBVIOUS
  <2>2. id \in ManifestIds(w.document)
    BY <1>2, <2>1 DEF Accepted
  <2>3. ItemOf(w.document, id) \in Items(w.document)
    BY <2>2, ItemIsFound
  <2>4. ItemOf(w.document, id).href \in DOMAIN w.files
    BY <2>3 DEF Accepted, ManifestAccepted, ItemAccepted
  <2>5. content.chapters[k] = Listing(w, id)
    BY <1>2, <1>3, <2>1
  <2>6. content.chapters[k] = [id |-> content.chapters[k].id, href |-> content.chapters[k].href,
                               title |-> content.chapters[k].title]
    BY <2>5 DEF Listing
  <2>7. /\ content.chapters[k].href = ItemOf(w.document, id).href
        /\ content.chapters[k].title = w.files[ItemOf(w.document, id).href].title
    BY <2>2, <2>5, ListingParts
  <2>8. QED
    BY <2>4, <2>6, <2>7
<1>4. QED
  BY <1>2, <1>3 DEF IsContent

LEMMA InspectedIsSettled ==
  ASSUME NEW w, Accepted(w), w.content = ContentOf(w)
  PROVE  Settled(w)
BY ContentIsContent DEF Settled, TitlesMatch

\* Two lists of chapters with the same parts are the same.
LEMMA SameContent ==
  ASSUME NEW x, IsContent(x), NEW y, IsContent(y), x.title = y.title,
         DOMAIN x.chapters = DOMAIN y.chapters,
         \A k \in DOMAIN x.chapters :
           /\ x.chapters[k].id = y.chapters[k].id /\ x.chapters[k].href = y.chapters[k].href
           /\ x.chapters[k].title = y.chapters[k].title
  PROVE  x = y
<1>1. \A k \in DOMAIN x.chapters : x.chapters[k] = y.chapters[k]
  BY DEF IsContent
<1>2. x.chapters = y.chapters
  BY <1>1 DEF IsContent, IsMap
<1>3. QED
  BY <1>2 DEF IsContent

\* Inspecting the old document again finds what was found before, also while
\* a file is there that is no chapter's.
LEMMA InspectedAgain ==
  ASSUME NEW w, Good(w), IsContent(w.content), TitlesMatch(w),
         NEW v, v.document = w.document, Accepted(v),
         \A k \in DOMAIN w.content.chapters :
           w.content.chapters[k].href \in DOMAIN v.files =>
             /\ w.content.chapters[k].href \in DOMAIN w.files
             /\ v.files[w.content.chapters[k].href] = w.files[w.content.chapters[k].href]
  PROVE  ContentOf(v) = w.content
<1>1. PICK content : content = ContentOf(v)
  OBVIOUS
<1>2. /\ IsContent(content)
      /\ \A k \in DOMAIN content.chapters :
           /\ content.chapters[k].href \in DOMAIN v.files
           /\ content.chapters[k].title = v.files[content.chapters[k].href].title
  BY <1>1, ContentIsContent
<1>3. /\ content.title = w.document.title
      /\ DOMAIN content.chapters = DOMAIN w.document.spine
      /\ \A k \in DOMAIN w.document.spine : content.chapters[k] = Listing(v, w.document.spine[k])
  BY <1>1, ContentParts
<1>4. /\ w.content.title = w.document.title
      /\ DOMAIN w.content.chapters = DOMAIN w.document.spine
      /\ \A k \in DOMAIN w.document.spine :
           /\ w.content.chapters[k].id = w.document.spine[k]
           /\ w.content.chapters[k].href = ItemOf(w.document, w.document.spine[k]).href
  BY DEF Good, Listed
<1>5. ASSUME NEW k \in DOMAIN content.chapters
      PROVE  /\ content.chapters[k].id = w.content.chapters[k].id
             /\ content.chapters[k].href = w.content.chapters[k].href
             /\ content.chapters[k].title = w.content.chapters[k].title
  <2>1. PICK id : id = w.document.spine[k]
    OBVIOUS
  <2>2. id \in ManifestIds(v.document)
    BY <1>3, <2>1 DEF Good, Consistent
  <2>3. content.chapters[k].id = id /\ content.chapters[k].href = ItemOf(w.document, id).href
    BY <1>3, <1>5, <2>1, <2>2, ListingParts
  <2>4. /\ content.chapters[k].id = w.content.chapters[k].id
        /\ content.chapters[k].href = w.content.chapters[k].href
    BY <1>3, <1>4, <1>5, <2>1, <2>3
  <2>5. PICK href : href = w.content.chapters[k].href
    OBVIOUS
  <2>6. /\ href \in DOMAIN v.files /\ content.chapters[k].title = v.files[href].title
    BY <1>2, <1>5, <2>4, <2>5
  <2>7. href \in DOMAIN w.files /\ v.files[href] = w.files[href]
    BY <1>3, <1>4, <1>5, <2>5, <2>6
  <2>8. w.content.chapters[k].title = w.files[href].title
    BY <1>3, <1>4, <1>5, <2>5, <2>7 DEF TitlesMatch
  <2>9. QED
    BY <2>4, <2>6, <2>7, <2>8
<1>6. content = w.content
  BY <1>2, <1>3, <1>4, <1>5, SameContent
<1>7. QED
  BY <1>1, <1>6

\* A workspace whose files and chapters can be told apart.
Tidy(w) == Good(w) /\ Placed(w) /\ Settled(w) /\ Usable(w)

\* What the theorems say of an edit.
EndsWell(r, w) ==
  /\ Placed(r) /\ Settled(r)
  /\ UndoesRefused(w, r) /\ TakesFreeName(w, r)

\* The document and the files are the old ones, inspected again or not.
LEMMA UndoneEndsWell ==
  ASSUME NEW w, Tidy(w), NEW r, r.files = w.files, r.document = w.document, r.edit.refused,
         r.content = w.content \/ (Accepted(w) /\ r.content = ContentOf(w))
  PROVE  EndsWell(r, w)
<1>1. IsContent(w.content) /\ TitlesMatch(w)
  BY DEF Tidy, Settled
<1>2. r.content = w.content
  <2>1. CASE Accepted(w) /\ r.content = ContentOf(w)
    <3>1. ContentOf(w) = w.content
      BY <1>1, <2>1, InspectedAgain DEF Tidy
    <3>2. QED
      BY <2>1, <3>1
  <2>2. QED
    BY <2>1
<1>3. Placed(r)
  BY DEF Tidy, Placed
<1>4. Settled(r)
  BY <1>1, <1>2 DEF Settled, TitlesMatch
<1>5. UndoesRefused(w, r) /\ TakesFreeName(w, r)
  BY <1>2 DEF UndoesRefused, TakesFreeName
<1>6. QED
  BY <1>3, <1>4, <1>5 DEF EndsWell

\* An edit that is not refused and adds no chapter.
LEMMA AcceptedEndsWell ==
  ASSUME NEW w, NEW r, Placed(r), Accepted(r), r.content = ContentOf(r), ~r.edit.refused,
         r.edit.operation # "add"
  PROVE  EndsWell(r, w)
BY InspectedIsSettled DEF EndsWell, UndoesRefused, TakesFreeName

\* An edit that was refused after it wrote a file; nobody goes on.
LEMMA AbandonedEndsWell ==
  ASSUME NEW w, NEW r, Placed(r), r.edit.refused, r.edit.operation \in {"update", "cover"}
  PROVE  EndsWell(r, w)
BY DEF EndsWell, Settled, Usable, UndoneEdits, UndoesRefused, TakesFreeName

LEMMA ChapterFile ==
  ASSUME NEW w, Good(w), NEW id \in ChapterIds(w)
  PROVE  /\ id \in Members(w.document.spine)
         /\ Chapter(w, id).href = ItemOf(w.document, id).href
         /\ ItemOf(w.document, id) \in Items(w.document) /\ ItemOf(w.document, id).id = id
<1>1. \E k \in DOMAIN w.content.chapters : w.content.chapters[k].id = id
  BY DEF ChapterIds
<1>2. PICK k \in DOMAIN w.content.chapters :
        w.content.chapters[k].id = id /\ Chapter(w, id) = w.content.chapters[k]
  BY <1>1, Zenon DEF Chapter
<1>3. /\ k \in DOMAIN w.document.spine /\ w.document.spine[k] = id
      /\ w.content.chapters[k].href = ItemOf(w.document, w.document.spine[k]).href
      /\ w.document.spine[k] \in ManifestIds(w.document)
  BY <1>2 DEF Good, Listed, Consistent
<1>4. id \in Members(w.document.spine)
  BY <1>3 DEF Members
<1>5. QED
  BY <1>2, <1>3, <1>4, ItemIsFound

LEMMA PlacedByDocument ==
  ASSUME NEW w, Placed(w), NEW r, Keys(w.document) \subseteq Keys(r.document),
         Members(r.document.spine) = Members(w.document.spine),
         \A item \in Items(r.document) :
           IsAdded(item.href) => <<item.id, item.href>> \in Keys(w.document),
         \A name \in DOMAIN r.files :
           \/ name \in DOMAIN w.files
           \/ ~IsAdded(name)
           \/ \E item \in Items(w.document) : item.href = name
  PROVE  Placed(r)
<1>1. ASSUME NEW item \in Items(w.document), IsAdded(item.href)
      PROVE  /\ item.id = item.href /\ item.href \in Members(w.document.spine)
             /\ <<item.href, item.href>> \in Keys(w.document)
  <2>1. item.id = item.href /\ item.href \in Members(w.document.spine)
    BY <1>1 DEF Placed
  <2>2. <<item.id, item.href>> \in Keys(w.document)
    BY DEF Keys
  <2>3. QED
    BY <2>1, <2>2
<1>2. ASSUME NEW name \in DOMAIN r.files, IsAdded(name)
      PROVE  <<name, name>> \in Keys(r.document) /\ name \in Members(r.document.spine)
  <2>1. CASE name \in DOMAIN w.files
    BY <1>2, <2>1 DEF Placed
  <2>2. CASE \E item \in Items(w.document) : item.href = name
    BY <1>1, <1>2, <2>2
  <2>3. QED
    BY <1>2, <2>1, <2>2
<1>3. ASSUME NEW item \in Items(r.document), IsAdded(item.href)
      PROVE  item.id = item.href /\ item.href \in Members(r.document.spine)
  <2>1. PICK old \in Items(w.document) : <<item.id, item.href>> = <<old.id, old.href>>
    BY <1>3 DEF Keys
  <2>2. item.id = old.id /\ item.href = old.href
    BY <2>1
  <2>3. QED
    BY <1>1, <1>3, <2>2
<1>4. QED
  BY <1>2, <1>3 DEF Placed

LEMMA ItemsHaveKeys ==
  ASSUME NEW document, NEW item \in Items(document)
  PROVE  <<item.id, item.href>> \in Keys(document)
BY DEF Keys

LEMMA MetadataEndsWell ==
  ASSUME NEW w, Tidy(w), NEW title \in Titles, NEW r, r = UpdateMetadata(w, title)
  PROVE  EndsWell(r, w)
<1>1. /\ IsCalled(r.edit, "metadata", CoverId, title, << >>)
      /\ r.files = w.files /\ r.document.spine = w.document.spine /\ r.document.items = w.document.items
      /\ Unchanged(r, w) \/ Replaced(r, w, [w.document EXCEPT !.title = title])
  BY MetadataChanged DEF Tidy
<1>2. r.edit.operation = "metadata"
  BY <1>1 DEF IsCalled
<1>3. Items(r.document) = Items(w.document)
  BY <1>1 DEF Items
<1>4. Placed(r)
  <2>1. Keys(r.document) = Keys(w.document)
    BY <1>3 DEF Keys
  <2>2. QED
    BY <1>1, <1>3, <2>1 DEF Tidy, Placed
<1>5. CASE r.edit.refused
  BY <1>1, <1>5, UndoneEndsWell DEF Unchanged, SamePackage, Replaced
<1>6. CASE ~r.edit.refused
  <2>1. CASE Unchanged(r, w)
    <3>1. Settled(r)
      BY <2>1 DEF Unchanged, SamePackage, Tidy, Settled, TitlesMatch
    <3>2. QED
      BY <1>2, <1>4, <1>6, <3>1 DEF EndsWell, UndoesRefused, TakesFreeName
  <2>2. CASE Replaced(r, w, [w.document EXCEPT !.title = title])
    BY <1>2, <1>4, <1>6, <2>2, AcceptedEndsWell DEF Replaced
  <2>3. QED
    BY <1>1, <2>1, <2>2
<1>7. QED
  BY <1>5, <1>6

LEMMA OrderEndsWell ==
  ASSUME NEW w, Tidy(w), NEW order \in [DOMAIN w.content.chapters -> ChapterIds(w)],
         NEW r, r = ReorderSpine(w, order)
  PROVE  EndsWell(r, w)
<1>1. /\ IsCalled(r.edit, "reorder", CoverId, "", order) /\ r.files = w.files
      /\ \/ Unchanged(r, w) /\ r.edit.refused
         \/ /\ \A j, k \in DOMAIN order : order[j] = order[k] => j = k
            /\ Replaced(r, w, WithSpine(w.document, order))
  BY OrderChanged DEF Tidy
<1>2. r.edit.operation = "reorder"
  BY <1>1 DEF IsCalled
<1>3. CASE r.edit.refused
  BY <1>1, <1>3, UndoneEndsWell DEF Unchanged, SamePackage, Replaced
<1>4. CASE ~r.edit.refused
  <2>1. /\ \A j, k \in DOMAIN order : order[j] = order[k] => j = k
        /\ r.document = WithSpine(w.document, order) /\ Accepted(r) /\ r.content = ContentOf(r)
    BY <1>1, <1>4 DEF Replaced
  <2>2. PICK spine : spine = w.document.spine
    OBVIOUS
  <2>3. /\ spine \in Seq(Members(spine)) /\ DOMAIN w.content.chapters = DOMAIN spine
        /\ ChapterIds(w) = Members(spine)
    BY <2>2, DocumentParts, ChaptersAreListed DEF Tidy, Good, Listed
  <2>4. order \in [DOMAIN spine -> Members(spine)]
    BY <2>3
  <2>5. Members(order) = Members(spine)
    BY <2>1, <2>3, <2>4, OrderHasAll
  <2>6. r.document.spine = order /\ r.document.items = w.document.items
    BY <2>1 DEF WithSpine, Tidy, Good, IsDocument
  <2>7. Items(r.document) = Items(w.document)
    BY <2>6 DEF Items
  <2>8. Placed(r)
    <3>1. Keys(r.document) = Keys(w.document)
      BY <2>7 DEF Keys
    <3>2. QED
      BY <1>1, <2>2, <2>5, <2>6, <2>7, <3>1 DEF Tidy, Placed
  <2>9. QED
    BY <1>2, <1>4, <2>1, <2>8, AcceptedEndsWell
<1>5. QED
  BY <1>3, <1>4

LEMMA UpdateEndsWell ==
  ASSUME NEW w, Tidy(w), NEW id, NEW source, NEW title \in Titles,
         NEW r, r = UpdateChapter(w, id, source, title)
  PROVE  EndsWell(r, w)
<1>1. /\ IsCalled(r.edit, "update", id, title, << >>)
      /\ r.document = w.document /\ Written(r, w, id)
  BY ChapterUpdated DEF Tidy
<1>2. r.edit.operation = "update"
  BY <1>1 DEF IsCalled
<1>3. Placed(r)
  <2>1. ASSUME NEW name \in DOMAIN r.files
        PROVE  name \in DOMAIN w.files \/ \E item \in Items(w.document) : item.href = name
    <3>1. CASE r.files = w.files
      BY <2>1, <3>1
    <3>2. CASE id \in ChapterIds(w) /\ DOMAIN r.files = DOMAIN w.files \cup {Chapter(w, id).href}
      <4>1. \E item \in Items(w.document) : item.href = Chapter(w, id).href
        BY <3>2, ChapterFile DEF Tidy
      <4>2. QED
        BY <2>1, <3>2, <4>1
    <3>3. QED
      BY <1>1, <3>1, <3>2 DEF Written
  <2>2. \A item \in Items(r.document) : <<item.id, item.href>> \in Keys(w.document)
    BY <1>1, ItemsHaveKeys
  <2>3. QED
    BY <1>1, <2>1, <2>2, PlacedByDocument DEF Tidy
<1>4. CASE r.edit.refused
  BY <1>2, <1>3, <1>4, AbandonedEndsWell
<1>5. CASE ~r.edit.refused
  BY <1>1, <1>2, <1>3, <1>5, AcceptedEndsWell DEF Written
<1>6. QED
  BY <1>4, <1>5

LEMMA CoverEndsWell ==
  ASSUME NEW w, Tidy(w), NEW picture \in Pictures, NEW r, r = ReplaceCover(w, picture)
  PROVE  EndsWell(r, w)
<1>1. /\ Orderly(r, w) /\ IsCalled(r.edit, "cover", CoverId, "", << >>)
      /\ Illustrated(r, w, picture.media)
  BY CoverReplaced DEF Tidy
<1>2. r.edit.operation = "cover"
  BY <1>1 DEF IsCalled
<1>3. ~IsAdded(CoverName(picture.media))
  BY DEF IsAdded, CoverName
<1>4. r.document.spine = w.document.spine
  BY <1>1 DEF Illustrated
<1>5. Keys(r.document) \in {Keys(w.document),
                            Keys(w.document) \cup {<<CoverId, CoverName(picture.media)>>}}
  BY <1>1 DEF Illustrated
<1>6. ASSUME NEW item \in Items(r.document), IsAdded(item.href)
      PROVE  <<item.id, item.href>> \in Keys(w.document)
  <2>1. <<item.id, item.href>> \in Keys(r.document)
    BY ItemsHaveKeys
  <2>2. <<item.id, item.href>> # <<CoverId, CoverName(picture.media)>>
    BY <1>3, <1>6
  <2>3. QED
    BY <1>5, <2>1, <2>2
<1>7. ASSUME NEW name \in DOMAIN r.files
      PROVE  \/ name \in DOMAIN w.files
             \/ ~IsAdded(name)
             \/ \E item \in Items(w.document) : item.href = name
  BY <1>1, <1>3 DEF Illustrated
<1>8. Placed(r)
  BY <1>4, <1>5, <1>6, <1>7, PlacedByDocument DEF Tidy
<1>9. CASE r.edit.refused
  BY <1>2, <1>8, <1>9, AbandonedEndsWell
<1>10. CASE ~r.edit.refused
  BY <1>1, <1>2, <1>8, <1>10, AcceptedEndsWell DEF Illustrated
<1>11. QED
  BY <1>9, <1>10

LEMMA DeleteEndsWell ==
  ASSUME NEW w, Tidy(w), NEW id, NEW r, r = DeleteChapter(w, id)
  PROVE  EndsWell(r, w)
<1>1. IsCalled(r.edit, "delete", id, "", << >>) /\ Removed(r, w, id)
  BY ChapterRemoved DEF Tidy
<1>2. r.edit.operation = "delete"
  BY <1>1 DEF IsCalled
<1>3. CASE r.edit.refused
  BY <1>1, <1>3, UndoneEndsWell DEF Removed
<1>4. CASE ~r.edit.refused
  <2>1. /\ id \in ChapterIds(w) /\ r.document = WithoutItem(w.document, id)
        /\ r.files = Without(w.files, Chapter(w, id).href)
    BY <1>1, <1>4 DEF Removed
  <2>2. PICK v : /\ v.files = w.files /\ v.document = r.document
                 /\ Accepted(v) /\ r.content = ContentOf(v)
    BY <1>1, <1>4 DEF Removed
  <2>3. PICK href : href = Chapter(w, id).href
    OBVIOUS
  <2>4. PICK old : old = w.files
    OBVIOUS
  <2>5. DOMAIN r.files = DOMAIN old \ {href}
    BY <2>1, <2>3, <2>4, WithoutIsMap
  <2>6. \A name \in DOMAIN old \ {href} : r.files[name] = old[name]
    BY <2>1, <2>3, <2>4, WithoutKeepsTheRest
  <2>7. /\ Members(r.document.spine) = Members(w.document.spine) \ {id}
        /\ \A item : item \in Items(r.document) <=> item \in Items(w.document) /\ item.id # id
    <3>1. PICK document : document = w.document
      OBVIOUS
    <3>2. IsDocument(document)
      BY <3>1 DEF Tidy, Good
    <3>3. PICK new : new = r.document
      OBVIOUS
    <3>4. Filtered(new, document, id)
      <4>1. new = WithoutItem(document, id)
        BY <2>1, <3>1, <3>3
      <4>2. QED
        BY <3>2, <4>1, FilteredDocument
    <3>5. QED
      BY <3>1, <3>3, <3>4 DEF Filtered
  <2>8. \A j, k \in Items(w.document) : j.id = k.id => j = k
    BY DEF Tidy, Good, Consistent, Items
  <2>9. ASSUME NEW name \in DOMAIN r.files, IsAdded(name)
        PROVE  <<name, name>> \in Keys(r.document) /\ name \in Members(r.document.spine)
    <3>1. name \in DOMAIN w.files /\ name # href
      BY <2>4, <2>5, <2>9
    <3>2. <<name, name>> \in Keys(w.document) /\ name \in Members(w.document.spine)
      BY <2>9, <3>1 DEF Tidy, Placed
    <3>3. PICK item \in Items(w.document) : <<item.id, item.href>> = <<name, name>>
      BY <3>2 DEF Keys
    <3>4. item.id = name /\ item.href = name
      BY <3>3
    <3>5. name # id
      <4>1. SUFFICES ASSUME name = id
                     PROVE  FALSE
        OBVIOUS
      <4>2. /\ ItemOf(w.document, id) \in Items(w.document) /\ ItemOf(w.document, id).id = id
            /\ ItemOf(w.document, id).href = href
        BY <2>1, <2>3, ChapterFile DEF Tidy
      <4>3. ItemOf(w.document, id) = item
        BY <2>8, <3>4, <4>1, <4>2
      <4>4. QED
        BY <3>1, <3>4, <4>2, <4>3
    <3>6. item \in Items(r.document)
      BY <2>7, <3>4, <3>5
    <3>7. <<name, name>> \in Keys(r.document)
      BY <3>3, <3>6, ItemsHaveKeys
    <3>8. QED
      BY <2>7, <3>2, <3>5, <3>7
  <2>10. ASSUME NEW item \in Items(r.document), IsAdded(item.href)
         PROVE  item.id = item.href /\ item.href \in Members(r.document.spine)
    BY <2>7, <2>10 DEF Tidy, Placed
  <2>11. Placed(r)
    BY <2>9, <2>10 DEF Placed
  <2>12. Settled(r)
    <3>1. /\ IsContent(r.content)
          /\ \A k \in DOMAIN r.content.chapters :
               r.content.chapters[k].title = v.files[r.content.chapters[k].href].title
      BY <2>2, ContentIsContent
    <3>2. TitlesMatch(r)
      BY <2>2, <2>4, <2>5, <2>6, <3>1 DEF TitlesMatch
    <3>3. QED
      BY <3>1, <3>2 DEF Settled
  <2>13. UndoesRefused(w, r) /\ TakesFreeName(w, r)
    BY <1>2, <1>4 DEF UndoesRefused, TakesFreeName
  <2>14. QED
    BY <2>11, <2>12, <2>13 DEF EndsWell
<1>5. QED
  BY <1>3, <1>4

\* The name of a new chapter is no file's, no item's and no chapter's.
LEMMA AddedNameIsFree ==
  ASSUME NEW w, Tidy(w), NEW id, id = AddedName(AddedNumber(w))
  PROVE  /\ id \notin Members(w.document.spine) /\ id \notin DOMAIN w.files
         /\ \A item \in Items(w.document) : item.href # id
<1>1. id \notin Members(w.document.spine)
  BY AddedNumberIsFree, ChaptersAreListed DEF Tidy
<1>2. IsAdded(id)
  BY DEF IsAdded, AddedName
<1>3. QED
  BY <1>1, <1>2 DEF Tidy, Placed

LEMMA AddEndsWell ==
  ASSUME NEW w, Tidy(w), NEW source, NEW title \in Titles, NEW r, r = AddChapter(w, source, title)
  PROVE  EndsWell(r, w)
<1>1. PICK id : id = AddedName(AddedNumber(w))
  OBVIOUS
<1>2. Orderly(r, w) /\ IsCalled(r.edit, "add", id, title, << >>) /\ Added(r, w, id)
  BY <1>1, ChapterAdded DEF Tidy
<1>3. /\ id \notin Members(w.document.spine) /\ id \notin DOMAIN w.files
      /\ \A item \in Items(w.document) : item.href # id
  BY <1>1, AddedNameIsFree
<1>4. r.edit.operation = "add" /\ r.edit.id = id
  BY <1>2 DEF IsCalled
<1>5. IsContent(w.content) /\ TitlesMatch(w)
  BY DEF Tidy, Settled
<1>6. CASE r.edit.refused /\ Unchanged(r, w)
  BY <1>6, UndoneEndsWell DEF Unchanged, SamePackage
<1>7. ASSUME NEW v, v.fixed = w.fixed, DOMAIN v.files = DOMAIN w.files \cup {id},
             \A name \in DOMAIN w.files \ {id} : v.files[name] = w.files[name],
             r.edit.refused, v.document = w.document, r.document = w.document,
             r.files = Without(v.files, id),
             r.content = w.content \/ (Accepted(v) /\ r.content = ContentOf(v))
      PROVE  EndsWell(r, w)
  <2>1. r.files = w.files
    <3>1. PICK all : all = v.files
      OBVIOUS
    <3>2. IsMap(r.files) /\ DOMAIN r.files = DOMAIN all \ {id}
      BY <1>7, <3>1, WithoutIsMap
    <3>3. \A name \in DOMAIN all \ {id} : r.files[name] = all[name]
      BY <1>7, <3>1, WithoutKeepsTheRest
    <3>4. DOMAIN r.files = DOMAIN w.files
      BY <1>3, <1>7, <3>1, <3>2
    <3>5. \A name \in DOMAIN w.files : r.files[name] = w.files[name]
      BY <1>3, <1>7, <3>1, <3>3
    <3>6. IsMap(w.files)
      BY DEF Tidy, Good
    <3>7. QED
      BY <3>2, <3>4, <3>5, <3>6 DEF IsMap
  <2>2. r.content = w.content
    <3>1. CASE Accepted(v) /\ r.content = ContentOf(v)
      <4>1. ASSUME NEW k \in DOMAIN w.content.chapters, w.content.chapters[k].href \in DOMAIN v.files
            PROVE  /\ w.content.chapters[k].href \in DOMAIN w.files
                   /\ v.files[w.content.chapters[k].href] = w.files[w.content.chapters[k].href]
        <5>1. PICK href : href = w.content.chapters[k].href
          OBVIOUS
        <5>2. /\ w.document.spine[k] \in ManifestIds(w.document)
              /\ href = ItemOf(w.document, w.document.spine[k]).href
          BY <4>1, <5>1 DEF Tidy, Good, Listed, Consistent
        <5>3. href # id
          BY <1>3, <5>2, ItemIsFound
        <5>4. href \in DOMAIN w.files \ {id}
          BY <1>7, <4>1, <5>1, <5>3
        <5>5. QED
          BY <1>7, <5>1, <5>4
      <4>2. ContentOf(v) = w.content
        BY <1>5, <1>7, <3>1, <4>1, InspectedAgain DEF Tidy
      <4>3. QED
        BY <3>1, <4>2
    <3>2. QED
      BY <1>7, <3>1
  <2>3. QED
    BY <1>7, <2>1, <2>2, UndoneEndsWell
<1>8. ASSUME NEW v, DOMAIN v.files = DOMAIN w.files \cup {id},
             ~r.edit.refused, r.document = WithChapter(w.document, id),
             r.files = v.files, Accepted(r), r.content = ContentOf(r)
      PROVE  EndsWell(r, w)
  <2>1. /\ r.document.spine = Append(w.document.spine, id)
        /\ Keys(r.document) = Keys(w.document) \cup {<<id, id>>}
    BY <1>8, ChapterDocument DEF Tidy, Good
  <2>2. Members(r.document.spine) = Members(w.document.spine) \cup {id}
    <3>1. PICK S : w.document.spine \in Seq(S) /\ id \in S
      <4>1. w.document.spine \in Seq(Members(w.document.spine))
        BY DocumentParts DEF Tidy, Good
      <4>2. w.document.spine \in Seq(Members(w.document.spine) \cup {id})
        BY <4>1
      <4>3. QED
        BY <4>2
    <3>2. QED
      BY <2>1, <3>1, MembersOfAppend
  <2>3. ASSUME NEW item \in Items(r.document), IsAdded(item.href)
        PROVE  item.id = item.href /\ item.href \in Members(r.document.spine)
    <3>1. <<item.id, item.href>> \in Keys(r.document)
      BY ItemsHaveKeys
    <3>2. CASE <<item.id, item.href>> \in Keys(w.document)
      <4>1. PICK old \in Items(w.document) : <<item.id, item.href>> = <<old.id, old.href>>
        BY <3>2 DEF Keys
      <4>2. item.id = old.id /\ item.href = old.href
        BY <4>1
      <4>3. QED
        BY <2>2, <2>3, <4>2 DEF Tidy, Placed
    <3>3. CASE <<item.id, item.href>> = <<id, id>>
      BY <2>2, <3>3
    <3>4. QED
      BY <2>1, <3>1, <3>2, <3>3
  <2>4. ASSUME NEW name \in DOMAIN r.files, IsAdded(name)
        PROVE  <<name, name>> \in Keys(r.document) /\ name \in Members(r.document.spine)
    <3>1. CASE name \in DOMAIN w.files
      <4>1. <<name, name>> \in Keys(w.document) /\ name \in Members(w.document.spine)
        BY <2>4, <3>1 DEF Tidy, Placed
      <4>2. QED
        BY <2>1, <2>2, <4>1
    <3>2. CASE name = id
      BY <2>1, <2>2, <3>2
    <3>3. QED
      BY <1>8, <2>4, <3>1, <3>2
  <2>5. Placed(r) /\ Settled(r)
    BY <1>8, <2>3, <2>4, InspectedIsSettled DEF Placed
  <2>6. id \notin ManifestIds(w.document)
    <3>1. SUFFICES ASSUME NEW item \in Items(w.document), item.id = id
                   PROVE  FALSE
      BY DEF ManifestIds
    <3>2. PICK new : new = Item(id, id, "xhtml", {})
      OBVIOUS
    <3>3. IsItem(new) /\ new.id = id /\ new.href = id
      BY <3>2, ItemParts
    <3>4. r.document.items = Append(w.document.items, new)
      BY <1>8, <3>2 DEF WithChapter, Tidy, Good, IsDocument
    <3>5. Items(r.document) = Items(w.document) \cup {new}
      <4>1. w.document.items \in Seq(Items(w.document) \cup {new})
        <5>1. w.document.items \in Seq(Items(w.document))
          BY DocumentParts DEF Tidy, Good
        <5>2. QED
          BY <5>1
      <4>2. Members(r.document.items) = Members(w.document.items) \cup {new}
        BY <3>4, <4>1, MembersOfAppend
      <4>3. QED
        BY <4>2 DEF Members, Items
    <3>6. \A j, k \in Items(r.document) : j.id = k.id => j = k
      BY <1>8 DEF Accepted, ManifestAccepted, Items
    <3>7. item = new
      BY <3>1, <3>3, <3>5, <3>6
    <3>8. QED
      BY <1>3, <3>3, <3>7
  <2>7. UndoesRefused(w, r) /\ TakesFreeName(w, r)
    BY <1>3, <1>4, <1>8, <2>6 DEF UndoesRefused, TakesFreeName, Names
  <2>8. QED
    BY <2>5, <2>7 DEF EndsWell
<1>9. QED
  BY <1>2, <1>6, <1>7, <1>8 DEF Added

LEMMA EditsEndWell ==
  ASSUME NEW w, Tidy(w), NEW r, AfterEdit(r, w)
  PROVE  EndsWell(r, w)
<1>1. ASSUME NEW title \in Titles, r = UpdateMetadata(w, title)
      PROVE  EndsWell(r, w)
  BY <1>1, MetadataEndsWell
<1>2. ASSUME NEW id, NEW source \in Sources, NEW title \in Titles, r = UpdateChapter(w, id, source, title)
      PROVE  EndsWell(r, w)
  BY <1>2, UpdateEndsWell
<1>3. ASSUME NEW source \in Sources, NEW title \in Titles, r = AddChapter(w, source, title)
      PROVE  EndsWell(r, w)
  BY <1>3, AddEndsWell
<1>4. ASSUME NEW id, r = DeleteChapter(w, id)
      PROVE  EndsWell(r, w)
  BY <1>4, DeleteEndsWell
<1>5. ASSUME NEW order \in [DOMAIN w.content.chapters -> ChapterIds(w)], r = ReorderSpine(w, order)
      PROVE  EndsWell(r, w)
  BY <1>5, OrderEndsWell
<1>6. ASSUME NEW picture \in Pictures, r = ReplaceCover(w, picture)
      PROVE  EndsWell(r, w)
  BY <1>6, CoverEndsWell
<1>7. QED
  BY <1>1, <1>2, <1>3, <1>4, <1>5, <1>6 DEF AfterEdit

\* Besides WorkspaceInv: all packages a client can come to are Placed, and the
\* workspaces it can go on with are Settled.
NamesInv ==
  /\ Opens(published) => Placed(published)
  /\ \A w \in ws : Placed(w) /\ Settled(w)

LEMMA InitNames ==
  ASSUME UploadsArePlaced, Init
  PROVE  NamesInv
BY DEF UploadsArePlaced, Init, NamesInv

LEMMA NextNames ==
  ASSUME WorkspaceInv, NamesInv, [Next]_vars
  PROVE  NamesInv' /\ [RefusedUndone]_vars /\ [FreeNameTaken]_vars
<1>1. CASE EditAction
  <2>1. PICK w \in ws : \E r :
          /\ AfterEdit(r, w) /\ Usable(w) /\ Good(w) /\ Orderly(r, w)
          /\ ws = {w} /\ ws' = {r} /\ edits < MaxEdits /\ edits' = edits + 1
          /\ UNCHANGED <<published, row>>
    BY <1>1, EditedWorkspace
  <2>2. PICK r : /\ AfterEdit(r, w) /\ Usable(w) /\ Good(w)
                 /\ ws = {w} /\ ws' = {r} /\ UNCHANGED published
    BY <2>1
  <2>3. Tidy(w)
    BY <2>2 DEF NamesInv, Tidy
  <2>4. EndsWell(r, w)
    BY <2>2, <2>3, EditsEndWell
  <2>5. NamesInv'
    BY <2>2, <2>4 DEF NamesInv, EndsWell
  <2>6. RefusedUndone /\ FreeNameTaken
    BY <2>2, <2>4 DEF RefusedUndone, FreeNameTaken, EditStep, EndsWell
  <2>7. QED
    BY <2>5, <2>6
<1>2. CASE OpenWorkspace \/ Publish \/ UpdateDetails \/ Close \/ UNCHANGED vars
  <2>1. edits' = edits
    BY <1>2 DEF OpenWorkspace, Publish, UpdateDetails, Close, vars
  <2>2. RefusedUndone /\ FreeNameTaken
    BY <2>1 DEF RefusedUndone, FreeNameTaken, EditStep
  <2>3. NamesInv'
    <3>1. CASE OpenWorkspace
      <4>1. PICK w : w = Opened(published)
        OBVIOUS
      <4>2. Opens(published) /\ ws' = {w} /\ UNCHANGED published
        BY <3>1, <4>1 DEF OpenWorkspace
      <4>3. /\ w.files = published.files /\ w.document = published.document
            /\ w.content = ContentOf(w) /\ w.fixed = published.fixed
        BY <4>1, <4>2, OpenedIsGood DEF WorkspaceInv, ArchiveInv
      <4>4. Accepted(w)
        BY <4>2, <4>3, SameIsAccepted DEF SamePackage, Opens
      <4>5. Placed(w)
        BY <4>2, <4>3 DEF NamesInv, Placed
      <4>6. Settled(w)
        BY <4>3, <4>4, InspectedIsSettled
      <4>7. QED
        BY <4>2, <4>5, <4>6 DEF NamesInv
    <3>2. CASE Publish
      <4>1. PICK w \in ws : published' = Archive(w) /\ ws' = {}
        BY <3>2 DEF Publish
      <4>2. published'.files = w.files /\ published'.document = w.document
        BY <4>1, ArchiveOfWorkspace DEF WorkspaceInv, SpaceInv, ArchiveInv, IsArchive
      <4>3. Placed(published')
        BY <4>2 DEF NamesInv, Placed
      <4>4. QED
        BY <4>1, <4>3 DEF NamesInv
    <3>3. CASE UpdateDetails \/ Close \/ UNCHANGED vars
      BY <3>3 DEF UpdateDetails, Close, vars, NamesInv
    <3>4. QED
      BY <1>2, <3>1, <3>2, <3>3
  <2>4. QED
    BY <2>2, <2>3
<1>3. QED
  BY <1>1, <1>2 DEF Next, EditAction

\* A refused change of metadata, chapter list or order leaves everything as it
\* was.
THEOREM RefusedEditsUndone ==
  ASSUME UploadsArePlaced
  PROVE  Spec => RefusedEditsAreUndone
<1>1. Init => NamesInv
  BY InitNames
<1>2. WorkspaceInv /\ NamesInv /\ [Next]_vars => NamesInv' /\ [RefusedUndone]_vars
  BY NextNames
<1>3. QED
  BY <1>1, <1>2, Workspaces, PTL DEF Spec, RefusedEditsAreUndone

\* The sentence of the design document that the run epub_collision refutes
\* holds for every book whose uploads are Placed: no file, no item and no
\* chapter of the package has the name that AddChapter takes.
THEOREM NewNamesAreFree ==
  ASSUME UploadsArePlaced
  PROVE  Spec => NewChaptersAreCollisionSafe
<1>1. Init => NamesInv
  BY InitNames
<1>2. WorkspaceInv /\ NamesInv /\ [Next]_vars => NamesInv' /\ [FreeNameTaken]_vars
  BY NextNames
<1>3. QED
  BY <1>1, <1>2, Workspaces, PTL DEF Spec, NewChaptersAreCollisionSafe

-----------------------------------------------------------------------------
(* The picture in the row and the picture in the package.                  *)
(*                                                                         *)
(* ReplaceCover changes the first item it takes for the cover, and Shown   *)
(* is all that a reading system may take for it.  The two agree in every   *)
(* upload whose package document names at most one item as the cover, and  *)
(* no item under a name of AddChapter (UploadsShowOneCover).  What an edit *)
(* must then not do is change the file of that item, and it does not       *)
(* because it is no chapter's: inspect refuses a picture as a chapter.     *)

MarkedCovers(document) == {item \in Items(document) : "cover-image" \in item.properties}

NamedCovers(document) ==
  {item \in Items(document) : \E k \in DOMAIN document.coverMeta : item.id = document.coverMeta[k]}

OneCoverItem(document) ==
  /\ \A i, j \in MarkedCovers(document) : i = j
  /\ \A k \in DOMAIN document.coverMeta : ~IsAdded(document.coverMeta[k])
  /\ \A item \in MarkedCovers(document) \cup NamedCovers(document) : ~IsAdded(item.href)

\* The hypothesis of the theorem below.  At most one item has the property
\* cover-image, the meta elements name at most the item that the first of them
\* names, and AddChapter makes up neither a name of theirs nor its file's.
UploadsShowOneCover ==
  \A archive \in Uploads : Opens(archive) =>
    /\ OneCoverItem(archive.document)
    /\ \A item \in NamedCovers(archive.document) : item.id = Head(archive.document.coverMeta)

\* What edits keep of it: ReplaceCover may add a meta element after one that
\* names no item.
ShowsOneCover(document) ==
  /\ OneCoverItem(document)
  /\ \A i, j \in NamedCovers(document) : i = j
  /\ \A item \in NamedCovers(document) : item.id \in {Head(document.coverMeta), CoverId}

\* The only item that is shown has the picture, and its file is no chapter's.
Pictured(files, document, preview) ==
  preview # NoPicture =>
    \E cover \in Items(document) :
      /\ Shown(document) = {cover}
      /\ cover.href \in DOMAIN files /\ files[cover.href] = Image(preview)
      /\ cover.media = preview.media
      /\ \A item \in Items(document) : item.id \in Members(document.spine) => item.href # cover.href

LEMMA ShownCovers ==
  ASSUME NEW document
  PROVE  /\ MarkedCovers(document) # {} => Shown(document) = MarkedCovers(document)
         /\ MarkedCovers(document) = {} => Shown(document) = NamedCovers(document)
BY DEF Shown, MarkedCovers, NamedCovers

LEMMA ImageParts ==
  ASSUME NEW picture
  PROVE  Image(picture).kind = "image" /\ Image(picture).picture = picture
BY DEF Image, XHTML

\* A picture has no links that a new title could change.
LEMMA ImageHasNoLabels ==
  ASSUME NEW picture, NEW target, NEW title
  PROVE  Relabelled(Image(picture), target, title) = Image(picture)
<1>1. PICK image : image = Image(picture)
  OBVIOUS
<1>2. image = [kind |-> "image", harmless |-> TRUE, html |-> FALSE, head |-> FALSE, big |-> FALSE,
               text |-> "", title |-> "", links |-> {}, picture |-> picture]
  BY <1>1 DEF Image, XHTML
<1>3. Relabelled(image, target, title) = [image EXCEPT !.links = {}]
  <2>1. {[link EXCEPT !.label = IF link.to = target /\ link.label # "" THEN title ELSE link.label]
           : link \in image.links} = {}
    BY <1>2
  <2>2. QED
    BY <2>1, Zenon DEF Relabelled
<1>4. [image EXCEPT !.links = {}] = image
  <2>1. /\ image = [kind |-> image.kind, harmless |-> image.harmless, html |-> image.html,
                    head |-> image.head, big |-> image.big, text |-> image.text,
                    title |-> image.title, links |-> image.links, picture |-> image.picture]
        /\ image.links = {}
    BY <1>2
  <2>2. QED
    BY <2>1
<1>5. QED
  BY <1>1, <1>3, <1>4

\* Items that go leave the others as they were.
LEMMA FewerCovers ==
  ASSUME NEW document, ShowsOneCover(document),
         NEW new, Items(new) \subseteq Items(document), new.coverMeta = document.coverMeta
  PROVE  /\ ShowsOneCover(new)
         /\ \A cover \in Items(new) : Shown(document) = {cover} => Shown(new) = {cover}
<1>1. /\ \A item : item \in MarkedCovers(new) <=>
                     item \in MarkedCovers(document) /\ item \in Items(new)
      /\ \A item : item \in NamedCovers(new) <=>
                     item \in NamedCovers(document) /\ item \in Items(new)
  BY DEF MarkedCovers, NamedCovers
<1>2. ShowsOneCover(new)
  BY <1>1 DEF ShowsOneCover, OneCoverItem
<1>3. ASSUME NEW cover \in Items(new), Shown(document) = {cover}
      PROVE  Shown(new) = {cover}
  <2>1. CASE MarkedCovers(document) # {}
    <3>1. MarkedCovers(document) = {cover}
      BY <1>3, <2>1, ShownCovers
    <3>2. MarkedCovers(new) = {cover}
      BY <1>1, <3>1
    <3>3. QED
      BY <3>2, ShownCovers
  <2>2. CASE MarkedCovers(document) = {}
    <3>1. NamedCovers(document) = {cover}
      BY <1>3, <2>2, ShownCovers
    <3>2. NamedCovers(new) = {cover} /\ MarkedCovers(new) = {}
      BY <1>1, <2>2, <3>1
    <3>3. QED
      BY <3>2, ShownCovers
  <2>3. QED
    BY <2>1, <2>2
<1>4. QED
  BY <1>2, <1>3

\* A new chapter is no cover.
LEMMA ChapterIsNoCover ==
  ASSUME NEW document, ShowsOneCover(document), NEW item, item.properties = {}, IsAdded(item.id),
         NEW new, Items(new) = Items(document) \cup {item}, new.coverMeta = document.coverMeta
  PROVE  ShowsOneCover(new) /\ Shown(new) = Shown(document)
<1>1. MarkedCovers(new) = MarkedCovers(document)
  BY DEF MarkedCovers
<1>2. NamedCovers(new) = NamedCovers(document)
  BY DEF NamedCovers, ShowsOneCover, OneCoverItem
<1>3. Shown(new) = Shown(document)
  BY <1>1, <1>2, ShownCovers
<1>4. QED
  BY <1>1, <1>2, <1>3 DEF ShowsOneCover, OneCoverItem

\* Another media type makes no item another cover.
LEMMA RetypedCovers ==
  ASSUME NEW document, IsDocument(document), ShowsOneCover(document), NEW id, NEW media,
         NEW new, new = WithMediaType(document, id, media)
  PROVE  /\ ShowsOneCover(new)
         /\ Shown(new) = {Retyped(item, id, media) : item \in Shown(document)}
<1>1. /\ new.coverMeta = document.coverMeta
      /\ Items(new) = {Retyped(item, id, media) : item \in Items(document)}
  BY RetypedDocument
<1>2. \A item \in Items(document) : IsItem(item)
  <2>1. \A k \in DOMAIN document.items : IsItem(document.items[k])
    BY DocumentParts
  <2>2. QED
    BY <2>1 DEF Items
<1>3. ASSUME NEW item \in Items(document)
      PROVE  /\ Retyped(item, id, media).id = item.id /\ Retyped(item, id, media).href = item.href
             /\ Retyped(item, id, media).properties = item.properties
  BY <1>2, RemadeItem DEF Retyped
<1>4. MarkedCovers(new) = {Retyped(item, id, media) : item \in MarkedCovers(document)}
  BY <1>1, <1>3 DEF MarkedCovers
<1>5. NamedCovers(new) = {Retyped(item, id, media) : item \in NamedCovers(document)}
  BY <1>1, <1>3 DEF NamedCovers
<1>6. \A item \in MarkedCovers(document) \cup NamedCovers(document) : item \in Items(document)
  BY DEF MarkedCovers, NamedCovers
<1>7. OneCoverItem(new)
  BY <1>1, <1>3, <1>4, <1>5, <1>6 DEF ShowsOneCover, OneCoverItem
<1>8. ShowsOneCover(new)
  BY <1>1, <1>3, <1>5, <1>6, <1>7 DEF ShowsOneCover
<1>9. Shown(new) = {Retyped(item, id, media) : item \in Shown(document)}
  <2>1. CASE MarkedCovers(document) = {}
    BY <1>4, <1>5, <2>1, ShownCovers
  <2>2. CASE MarkedCovers(document) # {}
    BY <1>4, <2>2, ShownCovers
  <2>3. QED
    BY <2>1, <2>2
<1>10. QED
  BY <1>8, <1>9

\* A document with two items of the same identifier is refused.
LEMMA CoverIdIsFree ==
  ASSUME NEW document, IsDocument(document),
         NEW media, NEW new, new = WithCoverItem(document, media), Consistent(new)
  PROVE  \A item \in Items(document) : item.id # CoverId
<1>1. CoverListed(new, document, media)
  BY CoverDocument
<1>2. PICK properties :
        new.items = Append(document.items, Item(CoverId, CoverName(media), media, properties))
  BY <1>1 DEF CoverListed
<1>3. PICK cover : cover = Item(CoverId, CoverName(media), media, properties)
  OBVIOUS
<1>4. cover.id = CoverId
  BY <1>3, ItemParts
<1>5. \A item \in Items(document) : item.id # CoverId
  <2>1. PICK items : items = document.items
    OBVIOUS
  <2>2. items \in Seq(Items(document)) /\ new.items = Append(items, cover)
    BY <1>2, <1>3, <2>1, DocumentParts
  <2>3. /\ Len(items) \in Nat /\ DOMAIN items = 1..Len(items)
        /\ DOMAIN new.items = 1..(Len(items) + 1) /\ new.items[Len(items) + 1] = cover
        /\ \A k \in 1..Len(items) : new.items[k] = items[k]
    BY <2>2
  <2>4. ASSUME NEW k \in DOMAIN items, items[k].id = CoverId
        PROVE  FALSE
    <3>1. k \in DOMAIN new.items /\ Len(items) + 1 \in DOMAIN new.items /\ k # Len(items) + 1
      BY <2>3
    <3>2. new.items[k].id = new.items[Len(items) + 1].id
      BY <1>4, <2>3, <2>4
    <3>3. QED
      BY <3>1, <3>2 DEF Consistent
  <2>5. QED
    BY <2>1, <2>4 DEF Items
<1>6. QED
  BY <1>5

\* Without a cover in the package ReplaceCover adds the only one.
LEMMA AddedCover ==
  ASSUME NEW document, IsDocument(document), ShowsOneCover(document), CoverPlaces(document) = {},
         NEW media, NEW new, new = WithCoverItem(document, media), Consistent(new)
  PROVE  /\ ShowsOneCover(new)
         /\ \E cover \in Items(new) : /\ Shown(new) = {cover}
                                      /\ cover.href = CoverName(media) /\ cover.media = media
<1>1. CoverListed(new, document, media)
  BY CoverDocument
<1>2. PICK properties :
        /\ new.items = Append(document.items, Item(CoverId, CoverName(media), media, properties))
        /\ Items(new) = Items(document) \cup {Item(CoverId, CoverName(media), media, properties)}
        /\ \/ properties = {} /\ new.coverMeta = Append(document.coverMeta, CoverId)
           \/ properties = {"cover-image"} /\ new.coverMeta = document.coverMeta
  BY <1>1 DEF CoverListed
<1>3. PICK cover : cover = Item(CoverId, CoverName(media), media, properties)
  OBVIOUS
<1>4. /\ cover.id = CoverId /\ cover.href = CoverName(media) /\ cover.media = media
      /\ cover.properties = properties
  BY <1>3, ItemParts
<1>5. \A item \in Items(document) : item.id # CoverId
  BY CoverIdIsFree
<1>6. MarkedCovers(document) = {} /\ NamedCovers(document) = {}
  <2>1. MarkedCovers(document) = {}
    <3>1. {k \in DOMAIN document.items : "cover-image" \in document.items[k].properties} = {}
      BY DEF CoverPlaces
    <3>2. QED
      BY <3>1 DEF MarkedCovers, Items
  <2>2. ASSUME NEW item \in NamedCovers(document)
        PROVE  FALSE
    <3>1. /\ item \in Items(document) /\ document.coverMeta # << >>
      <4>1. PICK k \in DOMAIN document.coverMeta : item.id = document.coverMeta[k]
        BY <2>2 DEF NamedCovers
      <4>2. document.coverMeta # << >>
        BY <4>1
      <4>3. QED
        BY <2>2, <4>2 DEF NamedCovers
    <3>2. item.id = Head(document.coverMeta)
      BY <1>5, <2>2, <3>1 DEF ShowsOneCover
    <3>3. PICK k \in DOMAIN document.items : item = document.items[k]
      BY <3>1 DEF Items
    <3>4. {k1 \in DOMAIN document.items : "cover-image" \in document.items[k1].properties} = {}
      BY DEF CoverPlaces
    <3>5. k \in CoverPlaces(document)
      BY <3>1, <3>2, <3>3, <3>4 DEF CoverPlaces
    <3>6. QED
      BY <3>5
  <2>3. QED
    BY <2>1, <2>2
<1>7. ~IsAdded(CoverName(media)) /\ ~IsAdded(CoverId)
  BY DEF IsAdded, CoverName, CoverId
<1>8. document.coverMeta \in Seq(Members(document.coverMeta))
  BY DocumentParts
<1>9. CASE properties = {} /\ new.coverMeta = Append(document.coverMeta, CoverId)
  <2>1. PICK meta : meta = document.coverMeta
    OBVIOUS
  <2>2. /\ Len(meta) \in Nat /\ DOMAIN meta = 1..Len(meta)
        /\ DOMAIN new.coverMeta = 1..(Len(meta) + 1) /\ new.coverMeta[Len(meta) + 1] = CoverId
        /\ \A k \in 1..Len(meta) : new.coverMeta[k] = meta[k]
    BY <1>8, <1>9, <2>1
  <2>3. MarkedCovers(new) = {}
    BY <1>2, <1>3, <1>4, <1>6, <1>9 DEF MarkedCovers
  <2>4. NamedCovers(new) = {cover}
    <3>1. ASSUME NEW item \in NamedCovers(new), item # cover
          PROVE  FALSE
      <4>1. item \in Items(document)
        BY <1>2, <1>3, <3>1 DEF NamedCovers
      <4>2. PICK k \in DOMAIN new.coverMeta : item.id = new.coverMeta[k]
        BY <3>1 DEF NamedCovers
      <4>3. k \in DOMAIN meta /\ item.id = meta[k]
        BY <1>5, <2>2, <4>1, <4>2
      <4>4. QED
        BY <1>6, <2>1, <4>1, <4>3 DEF NamedCovers
    <3>2. cover \in NamedCovers(new)
      <4>1. Len(meta) + 1 \in DOMAIN new.coverMeta
        BY <2>2
      <4>2. QED
        BY <1>2, <1>3, <1>4, <2>2, <4>1 DEF NamedCovers
    <3>3. QED
      BY <3>1, <3>2
  <2>5. \A k \in DOMAIN new.coverMeta : ~IsAdded(new.coverMeta[k])
    <3>1. \A k \in 1..Len(meta) : ~IsAdded(meta[k])
      BY <2>1, <2>2 DEF ShowsOneCover, OneCoverItem
    <3>2. \A k \in 1..(Len(meta) + 1) : k \in 1..Len(meta) \/ k = Len(meta) + 1
      BY <2>2
    <3>3. QED
      BY <1>7, <2>2, <3>1, <3>2
  <2>6. ShowsOneCover(new)
    BY <1>4, <1>7, <2>3, <2>4, <2>5 DEF ShowsOneCover, OneCoverItem
  <2>7. Shown(new) = {cover} /\ cover \in Items(new)
    BY <1>2, <1>3, <2>3, <2>4, ShownCovers
  <2>8. QED
    BY <1>4, <2>6, <2>7
<1>10. CASE properties = {"cover-image"} /\ new.coverMeta = document.coverMeta
  <2>1. MarkedCovers(new) = {cover}
    BY <1>2, <1>3, <1>4, <1>6, <1>10 DEF MarkedCovers
  <2>2. NamedCovers(new) \subseteq {cover}
    BY <1>2, <1>3, <1>6, <1>10 DEF NamedCovers
  <2>3. OneCoverItem(new)
    BY <1>4, <1>7, <1>10, <2>1, <2>2 DEF ShowsOneCover, OneCoverItem
  <2>4. ShowsOneCover(new)
    BY <1>4, <2>2, <2>3 DEF ShowsOneCover
  <2>5. Shown(new) = {cover} /\ cover \in Items(new)
    BY <1>2, <1>3, <2>1, ShownCovers
  <2>6. QED
    BY <1>4, <2>4, <2>5
<1>11. QED
  BY <1>2, <1>9, <1>10

-----------------------------------------------------------------------------
(* What an edit does to the picture.                                       *)

\* The picture the row will have when the workspace is published.
PreviewOf(w) == IF w.cover = NoPicture THEN row.preview ELSE w.cover

PicturedSpace(w) ==
  ShowsOneCover(w.document) /\ (Usable(w) => Pictured(w.files, w.document, PreviewOf(w)))

\* What inspect accepts as a chapter is no picture.
LEMMA ChaptersAreText ==
  ASSUME NEW w, Accepted(w), NEW item \in Items(w.document), item.id \in Members(w.document.spine)
  PROVE  item.href \in DOMAIN w.files /\ w.files[item.href].kind = "xhtml"
<1>1. PICK k \in DOMAIN w.document.spine : w.document.spine[k] = item.id
  BY DEF Members
<1>2. /\ item.id \in ManifestIds(w.document)
      /\ ItemOf(w.document, item.id).media = "xhtml"
  BY <1>1 DEF Accepted
<1>3. ItemOf(w.document, item.id) \in Items(w.document) /\ ItemOf(w.document, item.id).id = item.id
  BY <1>2, ItemIsFound
<1>4. \A i, j \in Items(w.document) : i.id = j.id => i = j
  BY DEF Accepted, ManifestAccepted, Items
<1>5. item.media = "xhtml"
  BY <1>2, <1>3, <1>4
<1>6. QED
  BY <1>5 DEF Accepted, ManifestAccepted, ItemAccepted, Harmless

\* The only item that is shown, with a picture just written to its file.
LEMMA FreshPicture ==
  ASSUME NEW w, Accepted(w), NEW cover \in Items(w.document), Shown(w.document) = {cover},
         NEW picture, cover.media = picture.media,
         cover.href \in DOMAIN w.files, w.files[cover.href] = Image(picture)
  PROVE  Pictured(w.files, w.document, picture)
<1>1. \A item \in Items(w.document) : item.id \in Members(w.document.spine) => item.href # cover.href
  BY ChaptersAreText, ImageParts
<1>2. QED
  BY <1>1 DEF Pictured

\* An edit that adds nothing, takes chapters only, and leaves the files alone
\* that are no chapter's.
LEMMA StaysPictured ==
  ASSUME NEW files, NEW document, ShowsOneCover(document),
         NEW preview, Pictured(files, document, preview),
         NEW new, Items(new) \subseteq Items(document), new.coverMeta = document.coverMeta,
         Members(new.spine) \subseteq Members(document.spine),
         \A item \in Items(document) \ Items(new) : item.id \in Members(document.spine),
         NEW left,
         \A name \in DOMAIN files :
           (\A item \in Items(document) : item.id \in Members(document.spine) => item.href # name) =>
             /\ name \in DOMAIN left
             /\ files[name] = Image(preview) => left[name] = Image(preview)
  PROVE  Pictured(left, new, preview)
<1>1. SUFFICES ASSUME preview # NoPicture
               PROVE  Pictured(left, new, preview)
  BY DEF Pictured
<1>2. PICK cover \in Items(document) :
        /\ Shown(document) = {cover}
        /\ cover.href \in DOMAIN files /\ files[cover.href] = Image(preview)
        /\ cover.media = preview.media
        /\ \A item \in Items(document) : item.id \in Members(document.spine) => item.href # cover.href
  BY <1>1 DEF Pictured
<1>3. cover \in Items(new)
  BY <1>2
<1>4. Shown(new) = {cover}
  BY <1>2, <1>3, FewerCovers
<1>5. cover.href \in DOMAIN left /\ left[cover.href] = Image(preview)
  BY <1>2
<1>6. \A item \in Items(new) : item.id \in Members(new.spine) => item.href # cover.href
  BY <1>2
<1>7. QED
  BY <1>2, <1>3, <1>4, <1>5, <1>6 DEF Pictured

\* The parts of a workspace that a client goes on with.
LEMMA PicturedParts ==
  ASSUME NEW w, PicturedSpace(w), Usable(w), NEW r, r.cover = w.cover
  PROVE  /\ ShowsOneCover(w.document) /\ Pictured(w.files, w.document, PreviewOf(w))
         /\ PreviewOf(r) = PreviewOf(w)
BY DEF PicturedSpace, PreviewOf

LEMMA SamePicture ==
  ASSUME NEW w, PicturedSpace(w), Usable(w), NEW r, r.cover = w.cover,
         r.files = w.files, Items(r.document) = Items(w.document),
         r.document.coverMeta = w.document.coverMeta,
         Members(r.document.spine) \subseteq Members(w.document.spine)
  PROVE  PicturedSpace(r)
<1>1. /\ ShowsOneCover(w.document) /\ Pictured(w.files, w.document, PreviewOf(w))
      /\ PreviewOf(r) = PreviewOf(w)
  BY PicturedParts
<1>2. PICK files : files = w.files
  OBVIOUS
<1>3. PICK document : document = w.document
  OBVIOUS
<1>4. PICK new : new = r.document
  OBVIOUS
<1>5. Pictured(files, new, PreviewOf(w))
  BY <1>1, <1>2, <1>3, <1>4, StaysPictured
<1>6. ShowsOneCover(new)
  BY <1>1, <1>3, <1>4, FewerCovers
<1>7. QED
  BY <1>1, <1>2, <1>4, <1>5, <1>6 DEF PicturedSpace

LEMMA MetadataKeepsPicture ==
  ASSUME NEW w, Good(w), PicturedSpace(w), Usable(w),
         NEW title \in Titles, NEW r, r = UpdateMetadata(w, title)
  PROVE  PicturedSpace(r)
<1>1. /\ r.files = w.files /\ r.document.spine = w.document.spine /\ r.document.items = w.document.items
      /\ r.document.coverMeta = w.document.coverMeta /\ r.cover = w.cover
  BY MetadataChanged
<1>2. Items(r.document) = Items(w.document)
  BY <1>1 DEF Items
<1>3. QED
  BY <1>1, <1>2, SamePicture

LEMMA OrderKeepsPicture ==
  ASSUME NEW w, Good(w), PicturedSpace(w), Usable(w),
         NEW order \in [DOMAIN w.content.chapters -> ChapterIds(w)],
         NEW r, r = ReorderSpine(w, order)
  PROVE  PicturedSpace(r)
<1>1. /\ r.files = w.files /\ r.cover = w.cover
      /\ \/ Unchanged(r, w) /\ r.edit.refused
         \/ /\ \A j, k \in DOMAIN order : order[j] = order[k] => j = k
            /\ Replaced(r, w, WithSpine(w.document, order))
  BY OrderChanged
<1>2. CASE r.document = w.document
  BY <1>1, <1>2, SamePicture
<1>3. CASE r.document = WithSpine(w.document, order)
  <2>1. /\ r.document.spine = order /\ r.document.items = w.document.items
        /\ r.document.coverMeta = w.document.coverMeta
    BY <1>3 DEF WithSpine, Good, IsDocument
  <2>2. Items(r.document) = Items(w.document)
    BY <2>1 DEF Items
  <2>3. Members(r.document.spine) \subseteq Members(w.document.spine)
    <3>1. ChapterIds(w) = Members(w.document.spine)
      BY ChaptersAreListed
    <3>2. QED
      BY <2>1, <3>1 DEF Members
  <2>4. QED
    BY <1>1, <2>1, <2>2, <2>3, SamePicture
<1>4. QED
  BY <1>1, <1>2, <1>3 DEF Unchanged, SamePackage, Replaced

LEMMA UpdateKeepsPicture ==
  ASSUME NEW w, Good(w), PicturedSpace(w), Usable(w), NEW id, NEW source, NEW title \in Titles,
         NEW r, r = UpdateChapter(w, id, source, title)
  PROVE  PicturedSpace(r)
<1>1. r.document = w.document /\ r.cover = w.cover /\ Written(r, w, id)
  BY ChapterUpdated
<1>2. CASE r.files = w.files
  BY <1>1, <1>2, SamePicture
<1>3. CASE /\ id \in ChapterIds(w) /\ DOMAIN r.files = DOMAIN w.files \cup {Chapter(w, id).href}
           /\ Relabels(r.files, w.files, Chapter(w, id).href)
  <2>1. /\ ShowsOneCover(w.document) /\ Pictured(w.files, w.document, PreviewOf(w))
        /\ PreviewOf(r) = PreviewOf(w)
    BY <1>1, PicturedParts
  <2>2. PICK href : href = Chapter(w, id).href
    OBVIOUS
  <2>3. \E item \in Items(w.document) : item.id \in Members(w.document.spine) /\ item.href = href
    BY <1>3, <2>2, ChapterFile
  <2>4. ASSUME NEW name \in DOMAIN w.files,
               \A item \in Items(w.document) :
                 item.id \in Members(w.document.spine) => item.href # name
        PROVE  /\ name \in DOMAIN r.files
               /\ w.files[name] = Image(PreviewOf(w)) => r.files[name] = Image(PreviewOf(w))
    <3>1. name \in DOMAIN w.files \ {href} /\ name \in DOMAIN r.files
      BY <1>3, <2>3, <2>4
    <3>2. r.files[name] = w.files[name]
             \/ \E target, other : r.files[name] = Relabelled(w.files[name], target, other)
      BY <1>3, <2>2, <3>1 DEF Relabels
    <3>3. QED
      BY <3>1, <3>2, ImageHasNoLabels
  <2>5. PICK files : files = w.files
    OBVIOUS
  <2>6. PICK left : left = r.files
    OBVIOUS
  <2>7. PICK document : document = w.document
    OBVIOUS
  <2>8. Pictured(left, document, PreviewOf(w))
    BY <2>1, <2>4, <2>5, <2>6, <2>7, StaysPictured
  <2>9. QED
    BY <1>1, <2>1, <2>6, <2>7, <2>8 DEF PicturedSpace
<1>4. QED
  BY <1>1, <1>2, <1>3 DEF Written

LEMMA DeleteKeepsPicture ==
  ASSUME NEW w, Good(w), PicturedSpace(w), Usable(w), NEW id, NEW r, r = DeleteChapter(w, id)
  PROVE  PicturedSpace(r)
<1>1. Removed(r, w, id) /\ r.cover = w.cover
  BY ChapterRemoved
<1>2. CASE r.files = w.files /\ r.document = w.document
  BY <1>1, <1>2, SamePicture
<1>3. CASE /\ id \in ChapterIds(w) /\ r.document = WithoutItem(w.document, id)
           /\ r.files = Without(w.files, Chapter(w, id).href)
  <2>1. /\ ShowsOneCover(w.document) /\ Pictured(w.files, w.document, PreviewOf(w))
        /\ PreviewOf(r) = PreviewOf(w)
    BY <1>1, PicturedParts
  <2>2. PICK href : href = Chapter(w, id).href
    OBVIOUS
  <2>3. PICK document : document = w.document
    OBVIOUS
  <2>4. PICK new : new = r.document
    OBVIOUS
  <2>5. PICK files : files = w.files
    OBVIOUS
  <2>6. PICK left : left = r.files
    OBVIOUS
  <2>7. /\ new.coverMeta = document.coverMeta
        /\ Members(new.spine) = Members(document.spine) \ {id}
        /\ \A item : item \in Items(new) <=> item \in Items(document) /\ item.id # id
    <3>1. IsDocument(document) /\ new = WithoutItem(document, id)
      BY <1>3, <2>3, <2>4 DEF Good
    <3>2. Filtered(new, document, id)
      BY <3>1, FilteredDocument
    <3>3. QED
      BY <3>2 DEF Filtered
  <2>8. DOMAIN left = DOMAIN files \ {href} /\ \A name \in DOMAIN files \ {href} : left[name] = files[name]
    BY <1>3, <2>2, <2>5, <2>6, WithoutIsMap, WithoutKeepsTheRest
  <2>9. /\ id \in Members(document.spine)
        /\ \E item \in Items(document) : item.id \in Members(document.spine) /\ item.href = href
    BY <1>3, <2>2, <2>3, ChapterFile
  <2>10. ShowsOneCover(document) /\ Pictured(files, document, PreviewOf(w))
    BY <2>1, <2>3, <2>5
  <2>11. ShowsOneCover(new)
    BY <2>7, <2>10, FewerCovers
  <2>12. Pictured(left, new, PreviewOf(w))
    BY <2>7, <2>8, <2>9, <2>10, StaysPictured
  <2>13. QED
    BY <2>1, <2>4, <2>6, <2>11, <2>12 DEF PicturedSpace
<1>4. QED
  BY <1>1, <1>2, <1>3 DEF Removed

\* A new chapter, and files under names of AddChapter, are no matter.
LEMMA GrowsPictured ==
  ASSUME NEW files, NEW document, ShowsOneCover(document),
         NEW preview, Pictured(files, document, preview),
         NEW left, \A name \in DOMAIN files : ~IsAdded(name) =>
                     name \in DOMAIN left /\ left[name] = files[name],
         NEW new, Shown(new) = Shown(document), Items(document) \subseteq Items(new),
         \A item \in Items(new) : item.id \in Members(new.spine) =>
           \/ IsAdded(item.href)
           \/ item \in Items(document) /\ item.id \in Members(document.spine)
  PROVE  Pictured(left, new, preview)
<1>1. SUFFICES ASSUME preview # NoPicture
               PROVE  Pictured(left, new, preview)
  BY DEF Pictured
<1>2. PICK cover \in Items(document) :
        /\ Shown(document) = {cover}
        /\ cover.href \in DOMAIN files /\ files[cover.href] = Image(preview)
        /\ cover.media = preview.media
        /\ \A item \in Items(document) : item.id \in Members(document.spine) => item.href # cover.href
  BY <1>1 DEF Pictured
<1>3. cover \in MarkedCovers(document) \cup NamedCovers(document)
  BY <1>2, ShownCovers
<1>4. ~IsAdded(cover.href)
  BY <1>3 DEF ShowsOneCover, OneCoverItem
<1>5. cover \in Items(new) /\ Shown(new) = {cover}
  BY <1>2
<1>6. cover.href \in DOMAIN left /\ left[cover.href] = Image(preview)
  BY <1>2, <1>4
<1>7. \A item \in Items(new) : item.id \in Members(new.spine) => item.href # cover.href
  BY <1>2, <1>4
<1>8. QED
  BY <1>2, <1>5, <1>6, <1>7 DEF Pictured

LEMMA AddKeepsPicture ==
  ASSUME NEW w, Good(w), PicturedSpace(w), Usable(w), NEW source, NEW title \in Titles,
         NEW r, r = AddChapter(w, source, title)
  PROVE  PicturedSpace(r)
<1>1. PICK id : id = AddedName(AddedNumber(w))
  OBVIOUS
<1>2. Orderly(r, w) /\ Added(r, w, id) /\ r.cover = w.cover
  BY <1>1, ChapterAdded
<1>3. IsAdded(id)
  BY <1>1 DEF IsAdded, AddedName
<1>4. /\ ShowsOneCover(w.document) /\ Pictured(w.files, w.document, PreviewOf(w))
      /\ PreviewOf(r) = PreviewOf(w)
  BY <1>2, PicturedParts
<1>5. PICK files : files = w.files
  OBVIOUS
<1>6. PICK document : document = w.document
  OBVIOUS
<1>7. PICK left : left = r.files
  OBVIOUS
<1>8. PICK new : new = r.document
  OBVIOUS
<1>9. ShowsOneCover(document) /\ Pictured(files, document, PreviewOf(w)) /\ IsDocument(document)
  BY <1>4, <1>5, <1>6 DEF Good
<1>10. CASE Unchanged(r, w)
  BY <1>2, <1>10, SamePicture DEF Unchanged, SamePackage
<1>11. ASSUME NEW all, DOMAIN all = DOMAIN files \cup {id},
              \A name \in DOMAIN files \ {id} : all[name] = files[name],
              new = document, left = Without(all, id)
       PROVE  PicturedSpace(r)
  <2>1. DOMAIN left = DOMAIN all \ {id} /\ \A name \in DOMAIN all \ {id} : left[name] = all[name]
    <3>1. DOMAIN left = DOMAIN all \ {id}
      BY <1>11, WithoutIsMap
    <3>2. \A name \in DOMAIN all \ {id} : left[name] = all[name]
      BY <1>11, WithoutKeepsTheRest
    <3>3. QED
      BY <3>1, <3>2
  <2>2. \A name \in DOMAIN files : ~IsAdded(name) => name \in DOMAIN left /\ left[name] = files[name]
    BY <1>3, <1>11, <2>1
  <2>3. Pictured(left, new, PreviewOf(w))
    BY <1>9, <1>11, <2>2, GrowsPictured
  <2>4. QED
    BY <1>4, <1>7, <1>8, <1>9, <1>11, <2>3 DEF PicturedSpace
<1>12. ASSUME DOMAIN left = DOMAIN files \cup {id},
              \A name \in DOMAIN files \ {id} : left[name] = files[name],
              new = WithChapter(document, id)
       PROVE  PicturedSpace(r)
  <2>1. PICK chapter : chapter = Item(id, id, "xhtml", {})
    OBVIOUS
  <2>2. chapter.id = id /\ chapter.href = id /\ chapter.properties = {}
    BY <2>1, ItemParts
  <2>3. /\ new.spine = Append(document.spine, id) /\ new.coverMeta = document.coverMeta
        /\ Items(new) = Items(document) \cup {chapter}
    BY <1>9, <1>12, <2>1, ChapterDocument
  <2>4. ShowsOneCover(new) /\ Shown(new) = Shown(document)
    BY <1>3, <1>9, <2>2, <2>3, ChapterIsNoCover
  <2>5. Members(new.spine) = Members(document.spine) \cup {id}
    <3>1. PICK S : document.spine \in Seq(S) /\ id \in S
      <4>1. document.spine \in Seq(Members(document.spine))
        BY <1>9, DocumentParts
      <4>2. document.spine \in Seq(Members(document.spine) \cup {id})
        BY <4>1
      <4>3. QED
        BY <4>2
    <3>2. QED
      BY <2>3, <3>1, MembersOfAppend
  <2>6. \A i, j \in Items(new) : i.id = j.id => i = j
    BY <1>2, <1>8 DEF Orderly, Good, Consistent, Items
  <2>7. ASSUME NEW item \in Items(new), item.id \in Members(new.spine)
        PROVE  \/ IsAdded(item.href)
               \/ item \in Items(document) /\ item.id \in Members(document.spine)
    <3>1. CASE item.id = id
      <4>1. item = chapter
        BY <2>2, <2>3, <2>6, <3>1
      <4>2. QED
        BY <1>3, <2>2, <4>1
    <3>2. CASE item.id # id
      BY <2>2, <2>3, <2>5, <2>7, <3>2
    <3>3. QED
      BY <3>1, <3>2
  <2>8. \A name \in DOMAIN files : ~IsAdded(name) => name \in DOMAIN left /\ left[name] = files[name]
    BY <1>3, <1>12
  <2>9. Pictured(left, new, PreviewOf(w))
    BY <1>9, <2>3, <2>4, <2>7, <2>8, GrowsPictured
  <2>10. QED
    BY <1>4, <1>7, <1>8, <2>4, <2>9 DEF PicturedSpace
<1>13. CASE ~Unchanged(r, w)
  <2>1. PICK v : /\ DOMAIN v.files = DOMAIN w.files \cup {id}
                 /\ \A name \in DOMAIN w.files \ {id} : v.files[name] = w.files[name]
                 /\ \/ r.document = w.document /\ r.files = Without(v.files, id)
                    \/ r.document = WithChapter(w.document, id) /\ r.files = v.files
    BY <1>2, <1>13 DEF Added
  <2>2. PICK all : all = v.files
    OBVIOUS
  <2>3. DOMAIN all = DOMAIN files \cup {id} /\ \A name \in DOMAIN files \ {id} : all[name] = files[name]
    BY <1>5, <2>1, <2>2
  <2>4. CASE r.document = w.document /\ r.files = Without(v.files, id)
    BY <1>6, <1>7, <1>8, <1>11, <2>2, <2>3, <2>4
  <2>5. CASE r.document = WithChapter(w.document, id) /\ r.files = v.files
    BY <1>6, <1>7, <1>8, <1>12, <2>2, <2>3, <2>5
  <2>6. QED
    BY <2>1, <2>4, <2>5
<1>14. QED
  BY <1>10, <1>13

\* ReplaceCover takes the item that is shown.
LEMMA FoundIsShown ==
  ASSUME NEW document, IsDocument(document), ShowsOneCover(document), CoverPlaces(document) # {},
         NEW found, found = document.items[FirstOf(CoverPlaces(document))]
  PROVE  found \in Items(document) /\ Shown(document) = {found}
<1>1. PICK place : place = FirstOf(CoverPlaces(document))
  OBVIOUS
<1>2. place \in CoverPlaces(document) /\ found = document.items[place] /\ found \in Items(document)
  BY <1>1, CoverIsFound
<1>3. PICK marked : marked = {k \in DOMAIN document.items :
                               "cover-image" \in document.items[k].properties}
  OBVIOUS
<1>4. CASE marked # {}
  <2>1. CoverPlaces(document) = marked
    BY <1>3, <1>4 DEF CoverPlaces
  <2>2. found \in MarkedCovers(document)
    BY <1>2, <1>3, <2>1 DEF MarkedCovers
  <2>3. MarkedCovers(document) = {found}
    BY <2>2 DEF ShowsOneCover, OneCoverItem
  <2>4. QED
    BY <1>2, <2>3, ShownCovers
<1>5. CASE marked = {}
  <2>1. document.coverMeta # << >> /\ found.id = Head(document.coverMeta)
    BY <1>2, <1>3, <1>5 DEF CoverPlaces
  <2>2. 1 \in DOMAIN document.coverMeta /\ Head(document.coverMeta) = document.coverMeta[1]
    <3>1. PICK meta : meta = document.coverMeta
      OBVIOUS
    <3>2. meta \in Seq(Members(meta)) /\ meta # << >>
      BY <2>1, <3>1, DocumentParts
    <3>3. Len(meta) \in Nat /\ Len(meta) > 0 /\ DOMAIN meta = 1..Len(meta) /\ Head(meta) = meta[1]
      BY <3>2
    <3>4. QED
      BY <3>1, <3>3
  <2>3. found \in NamedCovers(document)
    BY <1>2, <2>1, <2>2 DEF NamedCovers
  <2>4. NamedCovers(document) = {found}
    BY <2>3 DEF ShowsOneCover
  <2>5. MarkedCovers(document) = {}
    BY <1>3, <1>5 DEF MarkedCovers, Items
  <2>6. QED
    BY <1>2, <2>4, <2>5, ShownCovers
<1>6. QED
  BY <1>4, <1>5

LEMMA WithHasTheNew ==
  ASSUME NEW files, NEW name, NEW body
  PROVE  name \in DOMAIN With(files, name, body) /\ With(files, name, body)[name] = body
BY DEF With

LEMMA CoverIsPictured ==
  ASSUME NEW w, Good(w), PicturedSpace(w), Usable(w), NEW picture \in Pictures,
         NEW r, r = ReplaceCover(w, picture)
  PROVE  PicturedSpace(r)
<1>1. /\ Orderly(r, w) /\ IsCalled(r.edit, "cover", CoverId, "", << >>)
      /\ Illustrated(r, w, picture.media)
      /\ r.edit.refused \/ Pasted(r, w, picture)
  BY CoverReplaced
<1>2. CASE r.edit.refused
  <2>1. r.edit.operation = "cover" /\ r.document = w.document
    BY <1>1, <1>2 DEF IsCalled, Illustrated
  <2>2. ~Usable(r)
    BY <1>2, <2>1 DEF Usable, UndoneEdits
  <2>3. QED
    BY <2>1, <2>2 DEF PicturedSpace
<1>3. CASE ~r.edit.refused
  <2>1. Pasted(r, w, picture) /\ Accepted(r) /\ Good(r)
    BY <1>1, <1>3 DEF Illustrated, Orderly
  <2>2. PreviewOf(r) = picture
    BY <2>1 DEF Pasted, PreviewOf, ValidPicture, NoPicture
  <2>3. PICK document : document = w.document
    OBVIOUS
  <2>4. PICK new : new = r.document
    OBVIOUS
  <2>5. IsDocument(document) /\ ShowsOneCover(document) /\ Consistent(new)
    BY <2>1, <2>3, <2>4 DEF Good, PicturedSpace
  <2>6. CASE /\ CoverPlaces(document) = {} /\ new = WithCoverItem(document, picture.media)
             /\ r.files = With(w.files, CoverName(picture.media), Image(picture))
    <3>1. PICK media : media = picture.media
      OBVIOUS
    <3>2. /\ ShowsOneCover(new)
          /\ \E cover \in Items(new) : /\ Shown(new) = {cover}
                                       /\ cover.href = CoverName(media) /\ cover.media = media
      BY <2>5, <2>6, <3>1, AddedCover
    <3>3. PICK cover \in Items(new) : /\ Shown(new) = {cover}
                                      /\ cover.href = CoverName(media) /\ cover.media = media
      BY <3>2
    <3>4. cover.href \in DOMAIN r.files /\ r.files[cover.href] = Image(picture)
      BY <2>6, <3>1, <3>3, WithHasTheNew
    <3>5. Pictured(r.files, r.document, picture)
      BY <2>1, <2>4, <3>1, <3>3, <3>4, FreshPicture
    <3>6. QED
      BY <2>2, <2>4, <3>2, <3>5 DEF PicturedSpace
  <2>7. ASSUME NEW found, CoverPlaces(document) # {},
               found = document.items[FirstOf(CoverPlaces(document))],
               new = WithMediaType(document, found.id, picture.media),
               r.files = With(w.files, found.href, Image(picture))
        PROVE  PicturedSpace(r)
    <3>1. found \in Items(document) /\ Shown(document) = {found}
      BY <2>5, <2>7, FoundIsShown
    <3>2. IsItem(found)
      <4>1. \A k \in DOMAIN document.items : IsItem(document.items[k])
        BY <2>5, DocumentParts
      <4>2. QED
        BY <3>1, <4>1 DEF Items
    <3>3. PICK cover : cover = Remade(found, picture.media)
      OBVIOUS
    <3>4. cover.href = found.href /\ cover.media = picture.media
      BY <3>2, <3>3, RemadeItem
    <3>5. PICK media : media = picture.media
      OBVIOUS
    <3>6. PICK id : id = found.id
      OBVIOUS
    <3>7. /\ ShowsOneCover(new) /\ Shown(new) = {Retyped(item, id, media) : item \in Shown(document)}
          /\ Items(new) = {Retyped(item, id, media) : item \in Items(document)}
      <4>1. new = WithMediaType(document, id, media)
        BY <2>7, <3>5, <3>6
      <4>2. QED
        BY <2>5, <4>1, RetypedCovers, RetypedDocument
    <3>8. Retyped(found, id, media) = cover
      BY <3>3, <3>5, <3>6 DEF Retyped
    <3>9. Shown(new) = {cover} /\ cover \in Items(new)
      BY <3>1, <3>7, <3>8
    <3>10. cover.href \in DOMAIN r.files /\ r.files[cover.href] = Image(picture)
      BY <2>7, <3>4, WithHasTheNew
    <3>11. Pictured(r.files, r.document, picture)
      BY <2>1, <2>4, <3>4, <3>9, <3>10, FreshPicture
    <3>12. QED
      BY <2>2, <2>4, <3>7, <3>11 DEF PicturedSpace
  <2>8. QED
    BY <2>1, <2>3, <2>4, <2>6, <2>7 DEF Pasted
<1>4. QED
  BY <1>2, <1>3

LEMMA EditsKeepPicture ==
  ASSUME NEW w, Good(w), PicturedSpace(w), Usable(w), NEW r, AfterEdit(r, w)
  PROVE  PicturedSpace(r)
<1>1. ASSUME NEW title \in Titles, r = UpdateMetadata(w, title)
      PROVE  PicturedSpace(r)
  BY <1>1, MetadataKeepsPicture
<1>2. ASSUME NEW id, NEW source \in Sources, NEW title \in Titles, r = UpdateChapter(w, id, source, title)
      PROVE  PicturedSpace(r)
  BY <1>2, UpdateKeepsPicture
<1>3. ASSUME NEW source \in Sources, NEW title \in Titles, r = AddChapter(w, source, title)
      PROVE  PicturedSpace(r)
  BY <1>3, AddKeepsPicture
<1>4. ASSUME NEW id, r = DeleteChapter(w, id)
      PROVE  PicturedSpace(r)
  BY <1>4, DeleteKeepsPicture
<1>5. ASSUME NEW order \in [DOMAIN w.content.chapters -> ChapterIds(w)], r = ReorderSpine(w, order)
      PROVE  PicturedSpace(r)
  BY <1>5, OrderKeepsPicture
<1>6. ASSUME NEW picture \in Pictures, r = ReplaceCover(w, picture)
      PROVE  PicturedSpace(r)
  BY <1>6, CoverIsPictured
<1>7. QED
  BY <1>1, <1>2, <1>3, <1>4, <1>5, <1>6 DEF AfterEdit

\* Besides WorkspaceInv: the package shows the picture of the row, and the
\* files of a workspace the one that its row will have.
CoverInv ==
  /\ Opens(published) => ShowsOneCover(published.document)
  /\ Pictured(published.files, published.document, row.preview)
  /\ \A w \in ws : PicturedSpace(w)

LEMMA InitCovers ==
  ASSUME UploadsShowOneCover, Init
  PROVE  CoverInv
<1>1. Opens(published) => ShowsOneCover(published.document)
  <2>1. SUFFICES ASSUME Opens(published)
                 PROVE  ShowsOneCover(published.document)
    OBVIOUS
  <2>2. /\ OneCoverItem(published.document)
        /\ \A item \in NamedCovers(published.document) : item.id = Head(published.document.coverMeta)
    BY <2>1 DEF UploadsShowOneCover, Init
  <2>3. \A i, j \in Items(published.document) : i.id = j.id => i = j
    BY <2>1 DEF Opens, Accepted, ManifestAccepted, Items
  <2>4. \A i, j \in NamedCovers(published.document) : i = j
    BY <2>2, <2>3 DEF NamedCovers
  <2>5. QED
    BY <2>2, <2>4 DEF ShowsOneCover
<1>2. Pictured(published.files, published.document, row.preview)
  <2>1. PICK title : row = [title |-> title, preview |-> NoPicture]
    BY DEF Init
  <2>2. row.preview = NoPicture
    BY <2>1
  <2>3. QED
    BY <2>2 DEF Pictured
<1>3. QED
  BY <1>1, <1>2 DEF Init, CoverInv

LEMMA NextCovers ==
  ASSUME WorkspaceInv, CoverInv, [Next]_vars
  PROVE  CoverInv'
<1>1. CASE EditAction
  <2>1. PICK w \in ws : \E r :
          /\ AfterEdit(r, w) /\ Usable(w) /\ Good(w) /\ Orderly(r, w)
          /\ ws = {w} /\ ws' = {r} /\ edits < MaxEdits /\ edits' = edits + 1
          /\ UNCHANGED <<published, row>>
    BY <1>1, EditedWorkspace
  <2>2. PICK r : /\ AfterEdit(r, w) /\ Usable(w) /\ Good(w)
                 /\ ws = {w} /\ ws' = {r} /\ UNCHANGED <<published, row>>
    BY <2>1
  <2>3. PicturedSpace(r)
    BY <2>2, EditsKeepPicture DEF CoverInv
  <2>4. \A v \in ws' : PicturedSpace(v)'
    BY <2>2, <2>3 DEF PicturedSpace, PreviewOf
  <2>5. QED
    BY <2>2, <2>4 DEF CoverInv
<1>2. CASE OpenWorkspace
  <2>1. PICK w : w = Opened(published)
    OBVIOUS
  <2>2. Opens(published) /\ ws' = {w} /\ UNCHANGED <<published, row>>
    BY <1>2, <2>1 DEF OpenWorkspace
  <2>3. w.files = published.files /\ w.document = published.document
    BY <2>1, <2>2, OpenedIsGood DEF WorkspaceInv, ArchiveInv
  <2>4. w.cover = NoPicture
    BY <2>1 DEF Opened
  <2>5. PicturedSpace(w)
    BY <2>2, <2>3, <2>4 DEF CoverInv, PicturedSpace, PreviewOf
  <2>6. \A v \in ws' : PicturedSpace(v)'
    BY <2>2, <2>5 DEF PicturedSpace, PreviewOf
  <2>7. QED
    BY <2>2, <2>6 DEF CoverInv
<1>3. CASE Publish
  <2>1. PICK w \in ws : /\ ~w.edit.refused /\ published' = Archive(w) /\ ws' = {}
                        /\ row' = [title |-> w.content.title,
                                   preview |-> IF w.cover = NoPicture THEN row.preview ELSE w.cover]
    BY <1>3 DEF Publish
  <2>2. published'.files = w.files /\ published'.document = w.document
    BY <2>1, ArchiveOfWorkspace DEF WorkspaceInv, SpaceInv, ArchiveInv, IsArchive
  <2>3. row'.preview = PreviewOf(w)
    BY <2>1 DEF PreviewOf
  <2>4. ShowsOneCover(w.document) /\ Pictured(w.files, w.document, PreviewOf(w))
    BY <2>1 DEF CoverInv, PicturedSpace, Usable
  <2>5. QED
    BY <2>1, <2>2, <2>3, <2>4 DEF CoverInv
<1>4. CASE Close \/ UNCHANGED vars
  <2>1. UNCHANGED <<published, row>> /\ (ws' = {} \/ ws' = ws)
    BY <1>4 DEF Close, vars
  <2>2. \A v \in ws' : PicturedSpace(v)'
    BY <2>1 DEF CoverInv, PicturedSpace, PreviewOf
  <2>3. QED
    BY <2>1, <2>2 DEF CoverInv
<1>5. CASE UpdateDetails
  <2>1. PICK title : row' = [row EXCEPT !.title = title]
    BY <1>5 DEF UpdateDetails
  <2>2. row = [title |-> row.title, preview |-> row.preview]
    BY DEF WorkspaceInv, RowInv
  <2>3. row'.preview = row.preview /\ UNCHANGED <<published, ws>>
    BY <1>5, <2>1, <2>2 DEF UpdateDetails
  <2>4. \A v \in ws' : PicturedSpace(v)'
    BY <2>3 DEF CoverInv, PicturedSpace, PreviewOf
  <2>5. QED
    BY <2>3, <2>4 DEF CoverInv
<1>6. QED
  BY <1>1, <1>2, <1>3, <1>4, <1>5 DEF Next, EditAction

\* The picture beside the book is the one a reading system finds in its EPUB,
\* after any edits in any order, as soon as an editor has sent one: for books
\* whose uploads name at most one item as the cover.
THEOREM PreviewsMatchPackages ==
  ASSUME UploadsShowOneCover
  PROVE  Spec => []PreviewMatchesPackage
<1>1. ASSUME CoverInv
      PROVE  PreviewMatchesPackage
  <2>1. SUFFICES ASSUME row.preview # NoPicture
                 PROVE  /\ \A item \in Shown(published.document) :
                             /\ published.files[item.href].picture = row.preview
                             /\ item.media = row.preview.media
                        /\ Shown(published.document) # {}
    BY DEF PreviewMatchesPackage, PreviewIsTheCover, CoverIsShown
  <2>2. PICK cover \in Items(published.document) :
          /\ Shown(published.document) = {cover}
          /\ published.files[cover.href] = Image(row.preview)
          /\ cover.media = row.preview.media
    BY <1>1, <2>1 DEF CoverInv, Pictured
  <2>3. QED
    BY <2>2, ImageParts
<1>2. Init => CoverInv
  BY InitCovers
<1>3. WorkspaceInv /\ CoverInv /\ [Next]_vars => CoverInv'
  BY NextCovers
<1>4. QED
  BY <1>1, <1>2, <1>3, Workspaces, PTL DEF Spec

-----------------------------------------------------------------------------
(* What is in the files.                                                   *)
(*                                                                         *)
(* BodiesInv says that every file has the parts of IsBody, which uploads   *)
(* and sources have by assumption.  It is what makes a change of one part, *)
(* the links, a change of no other.                                        *)

HasBodies(files) == \A name \in DOMAIN files : IsBody(files[name])

LEMMA ImageIsBody ==
  ASSUME NEW picture
  PROVE  IsBody(Image(picture))
<1>1. PICK image : image = Image(picture)
  OBVIOUS
<1>2. image = [kind |-> "image", harmless |-> TRUE, html |-> FALSE, head |-> FALSE, big |-> FALSE,
               text |-> "", title |-> "", links |-> {}, picture |-> picture]
  BY <1>1 DEF Image, XHTML
<1>3. /\ image = [kind |-> image.kind, harmless |-> image.harmless, html |-> image.html,
                  head |-> image.head, big |-> image.big, text |-> image.text,
                  title |-> image.title, links |-> image.links, picture |-> image.picture]
      /\ image.links = {}
  BY <1>2
<1>4. IsBody(image)
  BY <1>3, Zenon DEF IsBody
<1>5. QED
  BY <1>1, <1>4

LEMMA RetitledIsBody ==
  ASSUME NEW source, IsBody(source), NEW title
  PROVE  IsBody(Retitled(source, title))
<1>1. CASE title = ""
  BY <1>1 DEF Retitled
<1>2. CASE title # ""
  <2>1. PICK x : x = Expanded(title)
    OBVIOUS
  <2>2. PICK body : body = [source EXCEPT !.title = x]
    OBVIOUS
  <2>3. body = [kind |-> source.kind, harmless |-> source.harmless, html |-> source.html,
                head |-> source.head, big |-> source.big, text |-> source.text, title |-> x,
                links |-> source.links, picture |-> source.picture]
    BY <2>2 DEF IsBody
  <2>4. IsBody(body)
    BY <2>3 DEF IsBody
  <2>5. Retitled(source, title) = body
    BY <1>2, <2>1, <2>2 DEF Retitled
  <2>6. QED
    BY <2>4, <2>5
<1>3. QED
  BY <1>1, <1>2

IsLink(link) == link = [to |-> link.to, section |-> link.section, label |-> link.label]

\* A link into the target with its new text; any other link is as it was.
Renamed(link, target, title) ==
  [link EXCEPT !.label = IF link.to = target /\ link.label # "" THEN title ELSE link.label]

\* Its text is the new one, or there is none.
Follows(link, title) == link.label \in {title, ""}

LEMMA RenamedLink ==
  ASSUME NEW link, IsLink(link), NEW target, NEW title,
         NEW new, new = Renamed(link, target, title)
  PROVE  /\ IsLink(new) /\ new.to = link.to
         /\ link.to = target => Follows(new, title)
         /\ link.to # target => new = link
<1>1. PICK label : label = IF link.to = target /\ link.label # "" THEN title ELSE link.label
  OBVIOUS
<1>2. new = [link EXCEPT !.label = label]
  BY <1>1 DEF Renamed
<1>3. new = [to |-> link.to, section |-> link.section, label |-> label]
  BY <1>2 DEF IsLink
<1>4. link.to = target => label \in {title, ""}
  BY <1>1
<1>5. link.to # target => label = link.label
  BY <1>1
<1>6. new.to = link.to /\ new.section = link.section /\ new.label = label
  BY <1>3
<1>7. IsLink(new)
  BY <1>3, <1>6 DEF IsLink
<1>8. link.to # target => new = link
  BY <1>3, <1>5 DEF IsLink
<1>9. QED
  BY <1>4, <1>6, <1>7, <1>8 DEF Follows

LEMMA RelabelledBody ==
  ASSUME NEW body, IsBody(body), NEW target, NEW title,
         NEW new, new = Relabelled(body, target, title)
  PROVE  /\ IsBody(new) /\ new.text = body.text /\ new.title = body.title
         /\ new.links = {Renamed(link, target, title) : link \in body.links}
<1>1. PICK links : links = {Renamed(link, target, title) : link \in body.links}
  OBVIOUS
<1>2. new = [body EXCEPT !.links = links]
  BY <1>1, Zenon DEF Relabelled, Renamed
<1>3. new = [kind |-> body.kind, harmless |-> body.harmless, html |-> body.html,
             head |-> body.head, big |-> body.big, text |-> body.text, title |-> body.title,
             links |-> links, picture |-> body.picture]
  BY <1>2 DEF IsBody
<1>4. \A link \in links :
        link = [to |-> link.to, section |-> link.section, label |-> link.label]
  <2>1. \A link \in body.links : IsLink(link)
    BY DEF IsBody, IsLink
  <2>2. \A link \in links : IsLink(link)
    BY <1>1, <2>1, RenamedLink
  <2>3. QED
    BY <2>2 DEF IsLink
<1>5. IsBody(new)
  BY <1>3, <1>4 DEF IsBody
<1>6. QED
  BY <1>1, <1>3, <1>5

LEMMA WithHasBodies ==
  ASSUME NEW files, HasBodies(files), NEW name, NEW body, IsBody(body),
         NEW new, new = With(files, name, body)
  PROVE  HasBodies(new)
BY DEF With, HasBodies

LEMMA WithoutHasBodies ==
  ASSUME NEW files, HasBodies(files), NEW name, NEW new, new = Without(files, name)
  PROVE  HasBodies(new)
BY DEF Without, HasBodies

\* The chapter that UpdateChapter writes, and what is left of it.
Composed(w, id, source, title) ==
  With(w.files, Chapter(w, id).href, Retitled(source, title))

\* Which of its steps UpdateChapter came to.
Edition(r, w, id, source, title) ==
  \/ r.files = w.files /\ r.edit.refused
  \/ /\ id \in ChapterIds(w)
     /\ \/ r.files = Composed(w, id, source, title) /\ title = ""
        \/ \E written :
             /\ IsSpace(written) /\ written.files = Composed(w, id, source, title)
             /\ written.document = w.document
             /\ r.files = WithNavigationTitle(written, Chapter(w, id).href, title).files
             /\ ~r.edit.refused => NavigationIsRead(written) /\ Accepted(r)

LEMMA ChapterFiles ==
  ASSUME NEW w, Good(w), NEW id, NEW source, NEW title,
         NEW r, r = UpdateChapter(w, id, source, title)
  PROVE  Edition(r, w, id, source, title)
<1> USE DEF Edition
<1>1. PICK edit : edit = Edit("update", id, title, << >>)
  OBVIOUS
<1>2. PICK href : href = Chapter(w, id).href
  OBVIOUS
<1>3. PICK files : files = With(w.files, href, Retitled(source, title))
  OBVIOUS
<1>4. PICK written : written = [w EXCEPT !.files = files]
  OBVIOUS
<1>5. PICK named : named = IF title = "" THEN written ELSE WithNavigationTitle(written, href, title)
  OBVIOUS
<1>6. PICK early \in BOOLEAN :
        early <=> (id \notin ChapterIds(w) \/ ~ValidSource(source) \/ ~TitleFits(source, title))
  OBVIOUS
<1>7. PICK read \in BOOLEAN : read <=> (title = "" \/ NavigationIsRead(written))
  OBVIOUS
<1>8. r = IF early THEN Refused(w, edit)
          ELSE IF read /\ Accepted(named) THEN Done(Inspected(named), edit)
          ELSE Refused(named, edit)
  BY <1>1, <1>2, <1>3, <1>4, <1>5, <1>6, <1>7, Zenon DEF UpdateChapter
<1>9. IsSpace(w)
  BY DEF Good
<1>10. HasParts(written, w.fixed, files, w.document, w.content, w.cover, w.edit)
  BY <1>4, <1>9, RefiledSpace DEF Refiled
<1>11. IsSpace(written) /\ written.files = files /\ written.document = w.document
  BY <1>10 DEF HasParts
<1>12. /\ IsSpace(named)
       /\ \/ title = "" /\ named.files = files
          \/ title # "" /\ named.files = WithNavigationTitle(written, href, title).files
  <2>1. CASE title = ""
    BY <1>5, <1>11, <2>1
  <2>2. CASE title # ""
    <3>1. named = WithNavigationTitle(written, href, title)
      BY <1>5, <2>2
    <3>2. \E x : named = Refiled(written, x)
      BY <3>1 DEF WithNavigationTitle, Refiled
    <3>3. PICK x : named = Refiled(written, x)
      BY <3>2
    <3>4. IsSpace(named)
      BY <1>11, <3>3, RefiledSpace DEF HasParts
    <3>5. QED
      BY <2>2, <3>1, <3>4
  <2>3. QED
    BY <2>1, <2>2
<1>13. files = Composed(w, id, source, title)
  BY <1>2, <1>3 DEF Composed
<1>14. Refusing(edit).refused /\ edit.refused = FALSE
  BY <1>1 DEF Refusing, Edit
<1>15. CASE early
  <2>1. r = Refused(w, edit)
    BY <1>8, <1>15
  <2>2. r.files = w.files /\ r.edit.refused
    BY <1>9, <1>14, <2>1, RefusedSpace DEF SamePackage
  <2>3. QED
    BY <2>2
<1>16. CASE ~early
  <2>1. id \in ChapterIds(w)
    BY <1>6, <1>16
  <2>2. r.files = named.files /\ (~r.edit.refused => read /\ Accepted(r))
    <3>1. CASE ~(read /\ Accepted(named))
      <4>1. r = Refused(named, edit)
        BY <1>8, <1>16, <3>1
      <4>2. QED
        BY <1>12, <1>14, <4>1, RefusedSpace DEF SamePackage
    <3>2. CASE read /\ Accepted(named)
      <4>1. PICK seen : seen = Inspected(named)
        OBVIOUS
      <4>2. IsSpace(seen) /\ SamePackage(seen, named)
        BY <1>12, <4>1, InspectedSpace
      <4>3. r = Marked(seen, edit)
        BY <1>8, <1>16, <3>2, <4>1 DEF Done, Marked
      <4>4. SamePackage(r, named)
        BY <4>2, <4>3, MarkedSpace DEF SamePackage, HasParts
      <4>5. Accepted(r)
        BY <3>2, <4>4, SameIsAccepted
      <4>6. QED
        BY <3>2, <4>4, <4>5 DEF SamePackage
    <3>3. QED
      BY <3>1, <3>2
  <2>3. CASE title = "" /\ named.files = files
    BY <1>13, <2>1, <2>2, <2>3
  <2>4. CASE title # "" /\ named.files = WithNavigationTitle(written, href, title).files
    BY <1>2, <1>7, <1>11, <1>13, <2>1, <2>2, <2>4
  <2>5. QED
    BY <1>12, <2>3, <2>4
<1>17. QED
  BY <1>15, <1>16

\* The files of a package whose navigation documents have new titles.
LEMMA NavigationFilesTitled ==
  ASSUME NEW w, NEW target, NEW title, NEW files, IsSpace(w),
         files = WithNavigationTitle(w, target, title).files
  PROVE  /\ DOMAIN files = DOMAIN w.files
         /\ \A name \in DOMAIN w.files :
              /\ name \in NavigationRead(w) =>
                   files[name] = Relabelled(w.files[name], target, title)
              /\ name \notin NavigationRead(w) => files[name] = w.files[name]
<1>1. PICK x :
        x = [name \in DOMAIN w.files |->
              IF name \in NavigationRead(w) THEN Relabelled(w.files[name], target, title)
              ELSE w.files[name]]
  OBVIOUS
<1>2. WithNavigationTitle(w, target, title) = Refiled(w, x)
  BY <1>1, Zenon DEF WithNavigationTitle, Refiled
<1>3. files = x
  BY <1>2, RefiledSpace DEF HasParts
<1>4. QED
  BY <1>1, <1>3

\* When all of them can be read, none is left out.
LEMMA AllNavigationIsRead ==
  ASSUME NEW w, NavigationIsRead(w)
  PROVE  NavigationFiles(w.document) \subseteq NavigationRead(w)
<1>1. SUFFICES ASSUME NEW k \in DOMAIN w.document.items, "nav" \in w.document.items[k].properties
               PROVE  w.document.items[k].href \in NavigationRead(w)
  BY DEF NavigationFiles, Items
<1>2. PICK places : places = {j \in DOMAIN w.document.items : "nav" \in w.document.items[j].properties}
  OBVIOUS
<1>3. \A j \in places : Readable(w, w.document.items[j])
  BY <1>2 DEF NavigationIsRead, Items
<1>4. QED
  BY <1>1, <1>2, <1>3 DEF NavigationRead

LEMMA HrefsAreOne ==
  ASSUME NEW w, Good(w), NEW id \in ChapterIds(w)
  PROVE  HrefsOf(w, id) = {Chapter(w, id).href}
<1>1. \A k \in DOMAIN w.content.chapters :
        /\ w.content.chapters[k].id = w.document.spine[k]
        /\ w.content.chapters[k].href = ItemOf(w.document, w.document.spine[k]).href
  BY DEF Good, Listed
<1>2. Chapter(w, id).href = ItemOf(w.document, id).href
  BY ChapterFile
<1>3. PICK place \in DOMAIN w.content.chapters : w.content.chapters[place].id = id
  BY DEF ChapterIds
<1>4. \A k \in DOMAIN w.content.chapters :
        w.content.chapters[k].id = id => w.content.chapters[k].href = Chapter(w, id).href
  BY <1>1, <1>2
<1>5. QED
  BY <1>3, <1>4 DEF HrefsOf

LEMMA UpdateLabels ==
  ASSUME NEW w, Good(w), HasBodies(w.files), NEW id, NEW source, NEW title \in Titles,
         NEW r, r = UpdateChapter(w, id, source, title)
  PROVE  LabelsChapter(w, r)
<1>1. IsCalled(r.edit, "update", id, title, << >>) /\ r.document = w.document
  BY ChapterUpdated
<1>2. r.edit.id = id /\ r.edit.title = title
  BY <1>1 DEF IsCalled
<1>a. SUFFICES ASSUME ~r.edit.refused, title # ""
               PROVE  \A name \in NavigationFiles(r.document) \ HrefsOf(w, id), href \in HrefsOf(w, id) :
                        \A link \in r.files[name].links :
                          IF link.to = href THEN link.label \in {title, ""}
                          ELSE link \in w.files[name].links
  <2> DEFINE Labels(i, x) ==
        \A name \in NavigationFiles(r.document) \ HrefsOf(w, i), href \in HrefsOf(w, i) :
          \A link \in r.files[name].links :
            IF link.to = href THEN link.label \in {x, ""} ELSE link \in w.files[name].links
  <2>1. (~r.edit.refused /\ r.edit.title # "" => Labels(r.edit.id, r.edit.title)) => LabelsChapter(w, r)
    BY DEF LabelsChapter
  <2>2. SUFFICES ASSUME ~r.edit.refused, title # ""
                 PROVE  Labels(id, title)
    <3> HIDE DEF Labels
    <3>1. QED
      BY <1>2, <2>1
  <2>3. QED
    BY <2>2
<1>3. SUFFICES ASSUME NEW name \in NavigationFiles(r.document) \ HrefsOf(w, id),
                      NEW href \in HrefsOf(w, id), NEW link \in r.files[name].links
               PROVE  IF link.to = href THEN link.label \in {title, ""}
                      ELSE link \in w.files[name].links
  OBVIOUS
<1>4. PICK files : files = Composed(w, id, source, title)
  OBVIOUS
<1>5. /\ id \in ChapterIds(w)
      /\ \E written :
           /\ IsSpace(written) /\ written.files = files /\ written.document = w.document
           /\ r.files = WithNavigationTitle(written, Chapter(w, id).href, title).files
           /\ ~r.edit.refused => NavigationIsRead(written) /\ Accepted(r)
  <2>1. Edition(r, w, id, source, title)
    BY ChapterFiles
  <2>2. QED
    BY <1>a, <1>4, <2>1 DEF Edition
<1>6. PICK written :
        /\ IsSpace(written) /\ written.files = files /\ written.document = w.document
        /\ r.files = WithNavigationTitle(written, Chapter(w, id).href, title).files
        /\ NavigationIsRead(written) /\ Accepted(r)
  BY <1>a, <1>5
<1>7. HrefsOf(w, id) = {Chapter(w, id).href}
  BY <1>5, HrefsAreOne
<1>8. href = Chapter(w, id).href /\ name # href
  BY <1>3, <1>7
<1>9. PICK new : new = r.files
  OBVIOUS
<1>10. new = WithNavigationTitle(written, href, title).files
  BY <1>6, <1>8, <1>9
<1>11. /\ DOMAIN new = DOMAIN written.files
       /\ \A n \in DOMAIN written.files :
            n \in NavigationFiles(written.document) => new[n] = Relabelled(written.files[n], href, title)
  BY <1>6, <1>10, AllNavigationIsRead, NavigationFilesTitled
<1>12. name \in DOMAIN new
  <2>1. PICK item \in Items(r.document) : item.href = name
    BY <1>3 DEF NavigationFiles
  <2>2. ItemAccepted(r, item)
    BY <1>6 DEF Accepted, ManifestAccepted
  <2>3. QED
    BY <1>9, <2>1, <2>2 DEF ItemAccepted
<1>13. new[name] = Relabelled(files[name], href, title)
  BY <1>1, <1>3, <1>6, <1>11, <1>12
<1>14. name \in DOMAIN w.files /\ files[name] = w.files[name]
  <2>1. PICK old : old = w.files
    OBVIOUS
  <2>2. PICK body : files = With(old, href, body)
    BY <1>4, <1>8, <2>1 DEF Composed
  <2>3. DOMAIN files = DOMAIN old \cup {href}
    BY <2>2, WithIsMap
  <2>4. name \in DOMAIN old \ {href}
    BY <1>6, <1>8, <1>11, <1>12, <2>3
  <2>5. files[name] = old[name]
    BY <2>2, <2>4, WithKeepsTheRest
  <2>6. QED
    BY <2>1, <2>4, <2>5
<1>15. PICK body : body = w.files[name]
  OBVIOUS
<1>16. IsBody(body)
  BY <1>14, <1>15 DEF HasBodies
<1>17. PICK titled : titled = Relabelled(body, href, title)
  OBVIOUS
<1>18. titled.links = {Renamed(old, href, title) : old \in body.links}
  BY <1>16, <1>17, RelabelledBody
<1>19. PICK old \in body.links : link = Renamed(old, href, title)
  BY <1>3, <1>9, <1>13, <1>14, <1>15, <1>17, <1>18
<1>20. IsLink(old)
  BY <1>16 DEF IsBody, IsLink
<1>21. /\ link.to = old.to
       /\ old.to = href => link.label \in {title, ""}
       /\ old.to # href => link = old
  <2>1. PICK x : x = link
    OBVIOUS
  <2>2. x = Renamed(old, href, title)
    BY <1>19, <2>1
  <2>3. /\ IsLink(x) /\ x.to = old.to
        /\ old.to = href => Follows(x, title)
        /\ old.to # href => x = old
    BY <1>20, <2>2, RenamedLink
  <2>4. QED
    BY <2>1, <2>3 DEF Follows
<1>22. QED
  BY <1>15, <1>19, <1>21

LEMMA UpdateKeepsBodies ==
  ASSUME NEW w, Good(w), HasBodies(w.files), NEW id, NEW source \in Sources, NEW title,
         NEW r, r = UpdateChapter(w, id, source, title)
  PROVE  HasBodies(r.files)
<1>1. PICK files : files = Composed(w, id, source, title)
  OBVIOUS
<1>2. HasBodies(files)
  <2>1. PICK old : old = w.files
    OBVIOUS
  <2>2. PICK body : body = Retitled(source, title)
    OBVIOUS
  <2>3. IsBody(body)
    BY <2>2, SourcesAssumption, RetitledIsBody
  <2>4. \E name : files = With(old, name, body)
    BY <1>1, <2>1, <2>2 DEF Composed
  <2>5. QED
    BY <2>1, <2>3, <2>4, WithHasBodies
<1>3. Edition(r, w, id, source, title)
  BY ChapterFiles
<1>4. ASSUME NEW written, NEW target, IsSpace(written), written.files = files,
             r.files = WithNavigationTitle(written, target, title).files
      PROVE  HasBodies(r.files)
  <2>1. PICK new : new = r.files
    OBVIOUS
  <2>2. /\ DOMAIN new = DOMAIN written.files
        /\ \A name \in DOMAIN written.files :
             /\ name \in NavigationRead(written) =>
                  new[name] = Relabelled(written.files[name], target, title)
             /\ name \notin NavigationRead(written) => new[name] = written.files[name]
    BY <1>4, <2>1, NavigationFilesTitled
  <2>3. ASSUME NEW name \in DOMAIN new
        PROVE  IsBody(new[name])
    <3>1. PICK body : body = files[name]
      OBVIOUS
    <3>2. IsBody(body)
      BY <1>2, <1>4, <2>2, <2>3, <3>1 DEF HasBodies
    <3>3. new[name] = body \/ new[name] = Relabelled(body, target, title)
      BY <1>4, <2>2, <2>3, <3>1
    <3>4. IsBody(Relabelled(body, target, title))
      BY <3>2, RelabelledBody
    <3>5. QED
      BY <3>2, <3>3, <3>4
  <2>4. QED
    BY <2>1, <2>3 DEF HasBodies
<1>5. QED
  BY <1>1, <1>2, <1>3, <1>4 DEF Edition

LEMMA AddKeepsBodies ==
  ASSUME NEW w, Good(w), HasBodies(w.files), NEW source \in Sources, NEW title \in Titles,
         NEW r, r = AddChapter(w, source, title)
  PROVE  HasBodies(r.files)
<1>1. PICK id : id = AddedName(AddedNumber(w))
  OBVIOUS
<1>2. PICK edit : edit = Edit("add", id, title, << >>)
  OBVIOUS
<1>3. PICK files : files = With(w.files, id, Retitled(source, title))
  OBVIOUS
<1>4. PICK written : written = [w EXCEPT !.files = files]
  OBVIOUS
<1>5. PICK result : result = WriteDocumentAndRefresh(written, WithChapter(w.document, id), edit)
  OBVIOUS
<1>6. r = IF ~ValidSource(source) \/ ~TitleFits(source, title) THEN Refused(w, edit)
          ELSE IF result.edit.refused THEN WithoutWritten(result, id) ELSE result
  BY <1>1, <1>2, <1>3, <1>4, <1>5, Zenon DEF AddChapter
<1>7. IsSpace(w)
  BY DEF Good
<1>8. HasBodies(files)
  <2>1. PICK old : old = w.files
    OBVIOUS
  <2>2. PICK body : body = Retitled(source, title)
    OBVIOUS
  <2>3. IsBody(body)
    BY <2>2, SourcesAssumption, RetitledIsBody
  <2>4. files = With(old, id, body)
    BY <1>3, <2>1, <2>2
  <2>5. QED
    BY <2>1, <2>3, <2>4, WithHasBodies
<1>9. IsSpace(written) /\ written.files = files
  BY <1>4, <1>7, RefiledSpace DEF Refiled, HasParts
<1>10. IsSpace(result) /\ result.files = files
  BY <1>5, <1>9, RefreshedSpace DEF Refreshed
<1>11. CASE r = Refused(w, edit)
  BY <1>7, <1>11, RefusedSpace DEF SamePackage
<1>12. CASE r = WithoutWritten(result, id)
  <2>1. PICK rest : rest = Without(files, id)
    OBVIOUS
  <2>2. r = Refiled(result, rest)
    BY <1>10, <1>12, <2>1 DEF WithoutWritten, Refiled
  <2>3. r.files = rest
    BY <1>10, <2>2, RefiledSpace DEF HasParts
  <2>4. QED
    BY <1>8, <2>1, <2>3, WithoutHasBodies
<1>13. CASE r = result
  BY <1>8, <1>10, <1>13
<1>14. QED
  BY <1>6, <1>11, <1>12, <1>13

LEMMA DeleteKeepsBodies ==
  ASSUME NEW w, Good(w), HasBodies(w.files), NEW id, NEW r, r = DeleteChapter(w, id)
  PROVE  HasBodies(r.files)
<1>1. Removed(r, w, id)
  BY ChapterRemoved
<1>2. r.files = w.files \/ \E name : r.files = Without(w.files, name)
  BY <1>1, Zenon DEF Removed
<1>3. QED
  BY <1>2, WithoutHasBodies

\* Where ReplaceCover writes the picture: to the file of the item it takes for
\* the cover, or to a new one.
Painted(r, w, picture) ==
  \/ r.files = w.files /\ r.document = w.document /\ r.content = w.content
  \/ /\ \E name :
          /\ \/ name = CoverName(picture.media)
             \/ /\ CoverPlaces(w.document) # {}
                /\ name = w.document.items[FirstOf(CoverPlaces(w.document))].href
          /\ r.files = With(w.files, name, Image(picture))
     /\ r.content = w.content \/ (Accepted(r) /\ r.content = ContentOf(r))

LEMMA CoverFiles ==
  ASSUME NEW w, Good(w), NEW picture, NEW r, r = ReplaceCover(w, picture)
  PROVE  Painted(r, w, picture)
<1>1. PICK edit : edit = Edit("cover", CoverId, "", << >>)
  OBVIOUS
<1>2. PICK candidates : candidates = CoverPlaces(w.document)
  OBVIOUS
<1>3. PICK found : found = w.document.items[FirstOf(candidates)]
  OBVIOUS
<1>4. PICK document :
        document = IF candidates = {} THEN WithCoverItem(w.document, picture.media)
                   ELSE WithMediaType(w.document, found.id, picture.media)
  OBVIOUS
<1>5. PICK name :
        name = IF candidates = {} THEN CoverName(picture.media) ELSE CoverFile(found, picture)
  OBVIOUS
<1>6. PICK files : files = With(w.files, name, Image(picture))
  OBVIOUS
<1>7. PICK written : written = [w EXCEPT !.files = files]
  OBVIOUS
<1>8. PICK result : result = WriteDocumentAndRefresh(written, document, edit)
  OBVIOUS
<1>9. r = IF ~ValidPicture(picture) \/ (candidates = {} /\ ~TakesCoverItem(w.document))
          THEN Refused(w, edit)
          ELSE IF result.edit.refused THEN result ELSE [result EXCEPT !.cover = picture]
  BY <1>1, <1>2, <1>3, <1>4, <1>5, <1>6, <1>7, <1>8, Zenon DEF ReplaceCover
<1>10. IsSpace(w)
  BY DEF Good
<1>11. HasParts(written, w.fixed, files, w.document, w.content, w.cover, w.edit)
  BY <1>7, <1>10, RefiledSpace DEF Refiled
<1>12. Refreshed(result, written, document, edit)
  BY <1>8, <1>11, RefreshedSpace DEF HasParts
<1>13. /\ IsSpace(result) /\ result.files = files
       /\ \/ result.content = w.content
          \/ Accepted(result) /\ result.content = ContentOf(result)
  <2>1. IsSpace(result) /\ result.fixed = written.fixed /\ result.files = files
    BY <1>11, <1>12 DEF Refreshed, HasParts
  <2>2. CASE result.document = written.document /\ Accepted(written) /\ result.content = ContentOf(written)
    <3>1. SamePackage(result, written)
      BY <1>11, <2>1, <2>2 DEF SamePackage, HasParts
    <3>2. QED
      BY <2>1, <2>2, <3>1, SameIsAccepted
  <2>3. QED
    BY <1>11, <1>12, <2>1, <2>2 DEF Refreshed, HasParts
<1>14. CASE r = Refused(w, edit)
  BY <1>10, <1>14, RefusedSpace DEF SamePackage, Painted
<1>15. CASE r = result \/ r = [result EXCEPT !.cover = picture]
  <2>1. SamePackage(r, result) /\ r.content = result.content
    <3>1. CASE r = [result EXCEPT !.cover = picture]
      <4>1. r = Recovered(result, picture)
        BY <3>1 DEF Recovered
      <4>2. QED
        BY <1>13, <4>1, RecoveredSpace DEF HasParts, SamePackage
    <3>2. QED
      BY <1>15, <3>1 DEF SamePackage
  <2>2. r.files = With(w.files, name, Image(picture))
    BY <1>6, <1>13, <2>1 DEF SamePackage
  <2>3. r.content = w.content \/ (Accepted(r) /\ r.content = ContentOf(r))
    BY <1>13, <2>1, SameIsAccepted
  <2>4. \/ name = CoverName(picture.media)
        \/ /\ CoverPlaces(w.document) # {}
           /\ name = w.document.items[FirstOf(CoverPlaces(w.document))].href
    BY <1>2, <1>3, <1>5 DEF CoverFile
  <2>5. QED
    BY <2>2, <2>3, <2>4 DEF Painted
<1>16. QED
  BY <1>9, <1>14, <1>15

LEMMA CoverKeepsBodies ==
  ASSUME NEW w, Good(w), HasBodies(w.files), NEW picture, NEW r, r = ReplaceCover(w, picture)
  PROVE  HasBodies(r.files)
<1>1. PICK body : body = Image(picture)
  OBVIOUS
<1>2. IsBody(body)
  BY <1>1, ImageIsBody
<1>3. r.files = w.files \/ \E name : r.files = With(w.files, name, body)
  BY <1>1, CoverFiles DEF Painted
<1>4. QED
  BY <1>2, <1>3, WithHasBodies

\* What an edit does to the links, and what it leaves in the files.
LEMMA EditsLabel ==
  ASSUME NEW w, Good(w), HasBodies(w.files), NEW r, AfterEdit(r, w)
  PROVE  HasBodies(r.files) /\ LabelsChapter(w, r)
<1>1. ASSUME r.edit.operation # "update"
      PROVE  LabelsChapter(w, r)
  BY <1>1 DEF LabelsChapter
<1>2. ASSUME NEW title \in Titles, r = UpdateMetadata(w, title)
      PROVE  HasBodies(r.files) /\ LabelsChapter(w, r)
  <2>1. r.files = w.files /\ IsCalled(r.edit, "metadata", CoverId, title, << >>)
    BY <1>2, MetadataChanged
  <2>2. QED
    BY <1>1, <2>1 DEF IsCalled
<1>3. ASSUME NEW id, NEW source \in Sources, NEW title \in Titles, r = UpdateChapter(w, id, source, title)
      PROVE  HasBodies(r.files) /\ LabelsChapter(w, r)
  BY <1>3, UpdateKeepsBodies, UpdateLabels
<1>4. ASSUME NEW source \in Sources, NEW title \in Titles, r = AddChapter(w, source, title)
      PROVE  HasBodies(r.files) /\ LabelsChapter(w, r)
  <2>1. PICK id : id = AddedName(AddedNumber(w))
    OBVIOUS
  <2>2. IsCalled(r.edit, "add", id, title, << >>)
    BY <1>4, <2>1, ChapterAdded
  <2>3. QED
    BY <1>1, <1>4, <2>2, AddKeepsBodies DEF IsCalled
<1>5. ASSUME NEW id, r = DeleteChapter(w, id)
      PROVE  HasBodies(r.files) /\ LabelsChapter(w, r)
  <2>1. IsCalled(r.edit, "delete", id, "", << >>)
    BY <1>5, ChapterRemoved
  <2>2. QED
    BY <1>1, <1>5, <2>1, DeleteKeepsBodies DEF IsCalled
<1>6. ASSUME NEW order \in [DOMAIN w.content.chapters -> ChapterIds(w)], r = ReorderSpine(w, order)
      PROVE  HasBodies(r.files) /\ LabelsChapter(w, r)
  <2>1. r.files = w.files /\ IsCalled(r.edit, "reorder", CoverId, "", order)
    BY <1>6, OrderChanged
  <2>2. QED
    BY <1>1, <2>1 DEF IsCalled
<1>7. ASSUME NEW picture \in Pictures, r = ReplaceCover(w, picture)
      PROVE  HasBodies(r.files) /\ LabelsChapter(w, r)
  <2>1. IsCalled(r.edit, "cover", CoverId, "", << >>)
    BY <1>7, CoverReplaced
  <2>2. QED
    BY <1>1, <1>7, <2>1, CoverKeepsBodies DEF IsCalled
<1>8. QED
  BY <1>2, <1>3, <1>4, <1>5, <1>6, <1>7 DEF AfterEdit

BodiesInv == HasBodies(published.files) /\ \A w \in ws : HasBodies(w.files)

LEMMA InitBodies ==
  ASSUME Init
  PROVE  BodiesInv
BY UploadsAssumption DEF Init, BodiesInv, HasBodies

LEMMA NextBodies ==
  ASSUME WorkspaceInv, BodiesInv, [Next]_vars
  PROVE  BodiesInv' /\ [Labelled]_vars
<1>1. CASE EditAction
  <2>1. PICK w \in ws : \E r :
          /\ AfterEdit(r, w) /\ Usable(w) /\ Good(w) /\ Orderly(r, w)
          /\ ws = {w} /\ ws' = {r} /\ edits < MaxEdits /\ edits' = edits + 1
          /\ UNCHANGED <<published, row>>
    BY <1>1, EditedWorkspace
  <2>2. PICK r : AfterEdit(r, w) /\ Good(w) /\ ws = {w} /\ ws' = {r} /\ UNCHANGED published
    BY <2>1
  <2>3. HasBodies(r.files) /\ LabelsChapter(w, r)
    BY <2>2, EditsLabel DEF BodiesInv
  <2>4. BodiesInv' /\ Labelled
    BY <2>2, <2>3 DEF BodiesInv, Labelled, EditStep
  <2>5. QED
    BY <2>4
<1>2. CASE OpenWorkspace
  <2>1. PICK w : w = Opened(published)
    OBVIOUS
  <2>2. Opens(published) /\ ws' = {w} /\ UNCHANGED <<published, edits>>
    BY <1>2, <2>1 DEF OpenWorkspace
  <2>3. w.files = published.files
    BY <2>1 DEF Opened
  <2>4. QED
    BY <2>2, <2>3 DEF BodiesInv, Labelled, EditStep
<1>3. CASE Publish
  <2>1. PICK w \in ws : published' = Archive(w) /\ ws' = {} /\ UNCHANGED edits
    BY <1>3 DEF Publish
  <2>2. published'.files = w.files
    BY <2>1 DEF Archive
  <2>3. QED
    BY <2>1, <2>2 DEF BodiesInv, Labelled, EditStep
<1>4. CASE UpdateDetails \/ Close \/ UNCHANGED vars
  BY <1>4 DEF UpdateDetails, Close, vars, BodiesInv, Labelled, EditStep
<1>5. QED
  BY <1>1, <1>2, <1>3, <1>4 DEF Next, EditAction

\* A new title of a chapter is in every entry of the table of contents that
\* leads into its file, those of its sections included, and entries that lead
\* to other files are what they were.
THEOREM NavigationAlwaysFollows ==
  Spec => NavigationFollowsTitles
<1>1. Init => BodiesInv
  BY InitBodies
<1>2. WorkspaceInv /\ BodiesInv /\ [Next]_vars => BodiesInv' /\ [Labelled]_vars
  BY NextBodies
<1>3. QED
  BY <1>1, <1>2, Workspaces, PTL DEF Spec, NavigationFollowsTitles

-----------------------------------------------------------------------------
(* The chapters an edit is not about.                                      *)
(*                                                                         *)
(* An edit writes one file and removes at most one.  What other chapters   *)
(* have is safe when these files are no other chapter's: AddChapter needs  *)
(* UploadsArePlaced for that, and ReplaceCover needs that the cover is a   *)
(* file of its own (UploadsKeepCoversApart).                               *)

IsPicture(name) == name[1] = "picture"

KeepsCoversApart(document) ==
  /\ \A item \in Items(document), cover \in MarkedCovers(document) \cup NamedCovers(document) :
       item.id \in Members(document.spine) => item.href # cover.href
  /\ \A item \in Items(document) : item.id \in Members(document.spine) => ~IsPicture(item.href)
  /\ \A k \in DOMAIN document.coverMeta : ~IsAdded(document.coverMeta[k])

\* A hypothesis of the theorem below: no chapter has the file of a cover, or a
\* name that ReplaceCover makes up, and no meta element names as the cover what
\* AddChapter will add.
UploadsKeepCoversApart ==
  \A archive \in Uploads : Opens(archive) => KeepsCoversApart(archive.document)

\* A chapter that the spine names twice is listed twice, and in the same way.
Steady(w) ==
  \A j, k \in DOMAIN w.content.chapters :
    w.content.chapters[j].id = w.content.chapters[k].id =>
      w.content.chapters[j] = w.content.chapters[k]

LEMMA FewerApart ==
  ASSUME NEW document, KeepsCoversApart(document), NEW new, Items(new) \subseteq Items(document),
         Members(new.spine) \subseteq Members(document.spine), new.coverMeta = document.coverMeta
  PROVE  KeepsCoversApart(new)
<1>1. /\ MarkedCovers(new) \subseteq MarkedCovers(document)
      /\ NamedCovers(new) \subseteq NamedCovers(document)
  BY DEF MarkedCovers, NamedCovers
<1>2. QED
  BY <1>1 DEF KeepsCoversApart

LEMMA ListedIsSteady ==
  ASSUME NEW w, Accepted(w), NEW r, r.content = ContentOf(w)
  PROVE  Steady(r)
<1>1. PICK content : content = ContentOf(w)
  OBVIOUS
<1>2. /\ DOMAIN content.chapters = DOMAIN w.document.spine
      /\ \A k \in DOMAIN w.document.spine : content.chapters[k] = Listing(w, w.document.spine[k])
  BY <1>1, ContentParts
<1>3. \A k \in DOMAIN w.document.spine : content.chapters[k].id = w.document.spine[k]
  <2>1. SUFFICES ASSUME NEW k \in DOMAIN w.document.spine
                 PROVE  content.chapters[k].id = w.document.spine[k]
    OBVIOUS
  <2>2. PICK id : id = w.document.spine[k]
    OBVIOUS
  <2>3. id \in ManifestIds(w.document)
    BY <2>2 DEF Accepted
  <2>4. QED
    BY <1>2, <2>2, <2>3, ListingParts
<1>4. QED
  BY <1>1, <1>2, <1>3 DEF Steady

Touched(w, r) == IF r.edit.operation = "update" THEN HrefsOf(w, r.edit.id) ELSE {}

\* The text and the title in a file are the old ones.
Keeps(new, old, name) ==
  name \in DOMAIN new =>
    name \in DOMAIN old /\ new[name].text = old[name].text /\ new[name].title = old[name].title

LEMMA NothingIsLost ==
  ASSUME NEW w, Steady(w), NEW r, r.files = w.files, r.content = w.content
  PROVE  KeepsOtherChapters(w, r) /\ Steady(r)
BY DEF KeepsOtherChapters, Steady, Names

\* What was found in the files v lists the other chapters as before.
LEMMA OthersAreListed ==
  ASSUME NEW w, Good(w), IsContent(w.content), TitlesMatch(w),
         NEW r, Listed(r), Consistent(r.document), IsContent(r.content), NEW v,
         \A k \in DOMAIN r.content.chapters :
           /\ r.content.chapters[k].href \in DOMAIN v
           /\ r.content.chapters[k].title = v[r.content.chapters[k].href].title,
         \A i \in Items(w.document), j \in Items(r.document) :
           i.id = j.id /\ i.id \in Members(w.document.spine) => i.href = j.href,
         \A item \in Items(w.document) :
           item.id \in Members(w.document.spine) /\ item.href \notin Touched(w, r) =>
             Keeps(v, w.files, item.href) /\ Keeps(r.files, w.files, item.href)
  PROVE  KeepsOtherChapters(w, r)
<1>1. SUFFICES ASSUME NEW j \in DOMAIN w.content.chapters, NEW k \in DOMAIN r.content.chapters,
                      NEW old, old = w.content.chapters[j], NEW new, new = r.content.chapters[k],
                      old.id = new.id, old.href \notin Touched(w, r)
               PROVE  /\ old = new
                      /\ old.href \in DOMAIN r.files =>
                           /\ w.files[old.href].text = r.files[old.href].text
                           /\ w.files[old.href].title = r.files[old.href].title
  BY DEF KeepsOtherChapters, Touched, Names
<1>2. PICK item : item = ItemOf(w.document, old.id)
  OBVIOUS
<1>3. /\ old.id \in Members(w.document.spine) /\ old.id \in ManifestIds(w.document)
      /\ old.href = item.href
  BY <1>1, <1>2 DEF Good, Listed, Consistent, Members
<1>4. item \in Items(w.document) /\ item.id = old.id
  BY <1>2, <1>3, ItemIsFound
<1>5. PICK other : other = ItemOf(r.document, new.id)
  OBVIOUS
<1>6. new.id \in ManifestIds(r.document) /\ new.href = other.href
  BY <1>1, <1>5 DEF Listed, Consistent
<1>7. other \in Items(r.document) /\ other.id = new.id
  BY <1>5, <1>6, ItemIsFound
<1>8. old.href = new.href
  BY <1>1, <1>3, <1>4, <1>6, <1>7
<1>9. Keeps(v, w.files, old.href) /\ Keeps(r.files, w.files, old.href)
  BY <1>1, <1>3, <1>4
<1>10. new.href \in DOMAIN v /\ new.title = v[new.href].title
  BY <1>1
<1>11. old.href \in DOMAIN w.files => old.title = w.files[old.href].title
  BY <1>1 DEF TitlesMatch
<1>12. old.title = new.title
  BY <1>8, <1>9, <1>10, <1>11 DEF Keeps
<1>13. /\ old = [id |-> old.id, href |-> old.href, title |-> old.title]
       /\ new = [id |-> new.id, href |-> new.href, title |-> new.title]
  BY <1>1 DEF IsContent
<1>14. old = new
  BY <1>1, <1>8, <1>12, <1>13
<1>15. QED
  BY <1>9, <1>14 DEF Keeps

\* A workspace in which every chapter has its own, and what an edit leaves.
Guarded(w) == Tidy(w) /\ HasBodies(w.files) /\ KeepsCoversApart(w.document) /\ Steady(w)

LeavesOthers(r, w) == KeepsOtherChapters(w, r) /\ KeepsCoversApart(r.document) /\ Steady(r)

LEMMA RefusedLeavesOthers ==
  ASSUME NEW w, Guarded(w), NEW r, r.edit.refused, r.edit.operation \in UndoneEdits, EndsWell(r, w)
  PROVE  LeavesOthers(r, w)
<1>1. r.files = w.files /\ r.document = w.document /\ r.content = w.content
  BY DEF EndsWell, UndoesRefused
<1>2. KeepsOtherChapters(w, r) /\ Steady(r)
  BY <1>1, NothingIsLost DEF Guarded
<1>3. QED
  BY <1>1, <1>2 DEF LeavesOthers, Guarded

\* What a chapter's file is called does not change.
SameHrefs(r, w) ==
  \A i \in Items(w.document), j \in Items(r.document) :
    i.id = j.id /\ i.id \in Members(w.document.spine) => i.href = j.href

LEMMA FewerSameHrefs ==
  ASSUME NEW w, Good(w), NEW r, Items(r.document) \subseteq Items(w.document)
  PROVE  SameHrefs(r, w)
<1>1. \A i, j \in Items(w.document) : i.id = j.id => i = j
  BY DEF Good, Consistent, Items
<1>2. QED
  BY <1>1 DEF SameHrefs

LEMMA AcceptedLeavesOthers ==
  ASSUME NEW w, Guarded(w), NEW r, Accepted(r), r.content = ContentOf(r),
         KeepsCoversApart(r.document), SameHrefs(r, w),
         \A item \in Items(w.document) :
           item.id \in Members(w.document.spine) /\ item.href \notin Touched(w, r) =>
             Keeps(r.files, w.files, item.href)
  PROVE  LeavesOthers(r, w)
<1>1. /\ IsContent(r.content)
      /\ \A k \in DOMAIN r.content.chapters :
           /\ r.content.chapters[k].href \in DOMAIN r.files
           /\ r.content.chapters[k].title = r.files[r.content.chapters[k].href].title
  BY ContentIsContent
<1>2. Listed(r) /\ Consistent(r.document) /\ Steady(r)
  BY AcceptedIsListed, ListedIsSteady
<1>3. Good(w) /\ IsContent(w.content) /\ TitlesMatch(w)
  BY DEF Guarded, Tidy, Settled
<1>4. PICK v : v = r.files
  OBVIOUS
<1>5. KeepsOtherChapters(w, r)
  BY <1>1, <1>2, <1>3, <1>4, OthersAreListed DEF SameHrefs
<1>6. QED
  BY <1>2, <1>5 DEF LeavesOthers

LEMMA SameFilesKeep ==
  ASSUME NEW files, NEW name
  PROVE  Keeps(files, files, name)
BY DEF Keeps

LEMMA MetadataLeavesOthers ==
  ASSUME NEW w, Guarded(w), NEW title \in Titles, NEW r, r = UpdateMetadata(w, title)
  PROVE  LeavesOthers(r, w)
<1>1. /\ IsCalled(r.edit, "metadata", CoverId, title, << >>)
      /\ r.files = w.files /\ r.document.spine = w.document.spine /\ r.document.items = w.document.items
      /\ r.document.coverMeta = w.document.coverMeta
      /\ Unchanged(r, w) \/ Replaced(r, w, [w.document EXCEPT !.title = title])
  BY MetadataChanged DEF Guarded, Tidy
<1>2. EndsWell(r, w)
  BY MetadataEndsWell DEF Guarded
<1>3. r.edit.operation \in UndoneEdits
  BY <1>1 DEF IsCalled, UndoneEdits
<1>4. CASE r.edit.refused
  BY <1>2, <1>3, <1>4, RefusedLeavesOthers
<1>5. CASE Unchanged(r, w)
  <2>1. KeepsOtherChapters(w, r) /\ Steady(r)
    BY <1>5, NothingIsLost DEF Unchanged, SamePackage, Guarded
  <2>2. QED
    BY <1>5, <2>1 DEF LeavesOthers, Guarded, Unchanged, SamePackage
<1>6. CASE ~r.edit.refused /\ Replaced(r, w, [w.document EXCEPT !.title = title])
  <2>1. Accepted(r) /\ r.content = ContentOf(r)
    BY <1>6 DEF Replaced
  <2>2. Items(r.document) = Items(w.document)
    BY <1>1 DEF Items
  <2>3. KeepsCoversApart(r.document) /\ SameHrefs(r, w)
    BY <1>1, <2>2, FewerApart, FewerSameHrefs DEF Guarded, Tidy
  <2>4. \A item \in Items(w.document) : Keeps(r.files, w.files, item.href)
    BY <1>1, SameFilesKeep
  <2>5. QED
    BY <2>1, <2>3, <2>4, AcceptedLeavesOthers
<1>7. QED
  BY <1>1, <1>4, <1>5, <1>6

LEMMA OrderLeavesOthers ==
  ASSUME NEW w, Guarded(w), NEW order \in [DOMAIN w.content.chapters -> ChapterIds(w)],
         NEW r, r = ReorderSpine(w, order)
  PROVE  LeavesOthers(r, w)
<1>1. /\ IsCalled(r.edit, "reorder", CoverId, "", order) /\ r.files = w.files
      /\ \/ Unchanged(r, w) /\ r.edit.refused
         \/ /\ \A j, k \in DOMAIN order : order[j] = order[k] => j = k
            /\ Replaced(r, w, WithSpine(w.document, order))
  BY OrderChanged DEF Guarded, Tidy
<1>2. EndsWell(r, w)
  BY OrderEndsWell DEF Guarded
<1>3. r.edit.operation \in UndoneEdits
  BY <1>1 DEF IsCalled, UndoneEdits
<1>4. CASE r.edit.refused
  BY <1>2, <1>3, <1>4, RefusedLeavesOthers
<1>5. CASE ~r.edit.refused
  <2>1. /\ r.document = WithSpine(w.document, order) /\ Accepted(r) /\ r.content = ContentOf(r)
    BY <1>1, <1>5 DEF Replaced
  <2>2. /\ r.document.spine = order /\ r.document.items = w.document.items
        /\ r.document.coverMeta = w.document.coverMeta
    BY <2>1 DEF WithSpine, Guarded, Tidy, Good, IsDocument
  <2>3. Items(r.document) = Items(w.document)
    BY <2>2 DEF Items
  <2>4. Members(r.document.spine) \subseteq Members(w.document.spine)
    <3>1. ChapterIds(w) = Members(w.document.spine)
      BY ChaptersAreListed DEF Guarded, Tidy
    <3>2. QED
      BY <2>2, <3>1 DEF Members
  <2>5. KeepsCoversApart(r.document) /\ SameHrefs(r, w)
    BY <2>2, <2>3, <2>4, FewerApart, FewerSameHrefs DEF Guarded, Tidy
  <2>6. \A item \in Items(w.document) : Keeps(r.files, w.files, item.href)
    BY <1>1, SameFilesKeep
  <2>7. QED
    BY <2>1, <2>5, <2>6, AcceptedLeavesOthers
<1>6. QED
  BY <1>4, <1>5

\* Every chapter's file is an item's.
LEMMA ChaptersAreItems ==
  ASSUME NEW w, Good(w), NEW k \in DOMAIN w.content.chapters
  PROVE  \E item \in Items(w.document) :
           item.id \in Members(w.document.spine) /\ item.href = w.content.chapters[k].href
<1>1. PICK id : id = w.document.spine[k]
  OBVIOUS
<1>2. /\ id \in ManifestIds(w.document) /\ id \in Members(w.document.spine)
      /\ w.content.chapters[k].href = ItemOf(w.document, id).href
  BY <1>1 DEF Good, Listed, Consistent, Members
<1>3. QED
  BY <1>2, ItemIsFound

\* A refused edit that wrote a file leaves the list of chapters alone.
LEMMA AbandonedLeavesOthers ==
  ASSUME NEW w, Guarded(w), NEW r, r.content = w.content, r.document = w.document,
         \A item \in Items(w.document) :
           item.id \in Members(w.document.spine) /\ item.href \notin Touched(w, r) =>
             Keeps(r.files, w.files, item.href)
  PROVE  LeavesOthers(r, w)
<1>1. ASSUME NEW k \in DOMAIN w.content.chapters, w.content.chapters[k].href \notin Touched(w, r)
      PROVE  Keeps(r.files, w.files, w.content.chapters[k].href)
  BY <1>1, ChaptersAreItems DEF Guarded, Tidy
<1>2. KeepsOtherChapters(w, r)
  <2>1. SUFFICES ASSUME NEW j \in DOMAIN w.content.chapters, NEW k \in DOMAIN r.content.chapters,
                        w.content.chapters[j].id = r.content.chapters[k].id,
                        w.content.chapters[j].href \notin Touched(w, r)
                 PROVE  /\ w.content.chapters[j] = r.content.chapters[k]
                        /\ w.content.chapters[j].href \in DOMAIN r.files =>
                             /\ w.files[w.content.chapters[j].href].text =
                                  r.files[w.content.chapters[j].href].text
                             /\ w.files[w.content.chapters[j].href].title =
                                  r.files[w.content.chapters[j].href].title
    BY DEF KeepsOtherChapters, Touched, Names
  <2>2. w.content.chapters[j] = r.content.chapters[k]
    BY <2>1 DEF Guarded, Steady
  <2>3. Keeps(r.files, w.files, w.content.chapters[j].href)
    BY <1>1, <2>1
  <2>4. QED
    BY <2>2, <2>3 DEF Keeps
<1>3. Steady(r)
  BY DEF Guarded, Steady
<1>4. QED
  BY <1>2, <1>3 DEF LeavesOthers, Guarded

LEMMA RelabelledKeeps ==
  ASSUME NEW old, HasBodies(old), NEW new, NEW href, DOMAIN new = DOMAIN old \cup {href},
         Relabels(new, old, href), NEW name, name # href
  PROVE  Keeps(new, old, name)
<1>1. SUFFICES ASSUME name \in DOMAIN new
               PROVE  /\ name \in DOMAIN old
                      /\ new[name].text = old[name].text /\ new[name].title = old[name].title
  BY DEF Keeps
<1>2. name \in DOMAIN old \ {href}
  BY <1>1
<1>3. PICK body : body = old[name]
  OBVIOUS
<1>4. IsBody(body)
  BY <1>2, <1>3 DEF HasBodies
<1>5. new[name] = body \/ \E target, title : new[name] = Relabelled(body, target, title)
  BY <1>2, <1>3 DEF Relabels
<1>6. new[name].text = body.text /\ new[name].title = body.title
  BY <1>4, <1>5, RelabelledBody
<1>7. QED
  BY <1>2, <1>3, <1>6

LEMMA UpdateLeavesOthers ==
  ASSUME NEW w, Guarded(w), NEW id, NEW source, NEW title \in Titles,
         NEW r, r = UpdateChapter(w, id, source, title)
  PROVE  LeavesOthers(r, w)
<1>1. /\ IsCalled(r.edit, "update", id, title, << >>)
      /\ r.document = w.document /\ Written(r, w, id)
  BY ChapterUpdated DEF Guarded, Tidy
<1>2. Touched(w, r) = HrefsOf(w, id)
  BY <1>1 DEF IsCalled, Touched
<1>3. CASE r.files = w.files /\ r.content = w.content
  <2>1. KeepsOtherChapters(w, r) /\ Steady(r)
    BY <1>3, NothingIsLost DEF Guarded
  <2>2. QED
    BY <1>1, <2>1 DEF LeavesOthers, Guarded
<1>4. CASE /\ id \in ChapterIds(w) /\ DOMAIN r.files = DOMAIN w.files \cup {Chapter(w, id).href}
           /\ Relabels(r.files, w.files, Chapter(w, id).href)
           /\ \/ r.edit.refused /\ r.content = w.content
              \/ ~r.edit.refused /\ Accepted(r) /\ r.content = ContentOf(r)
  <2>1. PICK href : href = Chapter(w, id).href
    OBVIOUS
  <2>2. Touched(w, r) = {href}
    BY <1>2, <1>4, <2>1, HrefsAreOne DEF Guarded, Tidy
  <2>3. ASSUME NEW name, name # href
        PROVE  Keeps(r.files, w.files, name)
    <3>1. PICK old : old = w.files
      OBVIOUS
    <3>2. PICK new : new = r.files
      OBVIOUS
    <3>3. HasBodies(old) /\ DOMAIN new = DOMAIN old \cup {href} /\ Relabels(new, old, href)
      BY <1>4, <2>1, <3>1, <3>2 DEF Guarded
    <3>4. QED
      BY <2>3, <3>1, <3>2, <3>3, RelabelledKeeps
  <2>4. \A item \in Items(w.document) :
          item.href \notin Touched(w, r) => Keeps(r.files, w.files, item.href)
    BY <2>2, <2>3
  <2>5. CASE r.content = w.content
    BY <1>1, <2>4, <2>5, AbandonedLeavesOthers
  <2>6. CASE Accepted(r) /\ r.content = ContentOf(r)
    <3>1. KeepsCoversApart(r.document) /\ SameHrefs(r, w)
      BY <1>1, FewerSameHrefs DEF Guarded, Tidy
    <3>2. QED
      BY <2>4, <2>6, <3>1, AcceptedLeavesOthers
  <2>7. QED
    BY <1>4, <2>5, <2>6
<1>5. QED
  BY <1>1, <1>3, <1>4 DEF Written

LEMMA DeleteLeavesOthers ==
  ASSUME NEW w, Guarded(w), NEW id, NEW r, r = DeleteChapter(w, id)
  PROVE  LeavesOthers(r, w)
<1>1. IsCalled(r.edit, "delete", id, "", << >>) /\ Removed(r, w, id) /\ Good(r)
  BY ChapterRemoved DEF Guarded, Tidy, Orderly
<1>2. EndsWell(r, w)
  BY DeleteEndsWell DEF Guarded
<1>3. r.edit.operation = "delete" /\ r.edit.operation \in UndoneEdits
  BY <1>1 DEF IsCalled, UndoneEdits
<1>4. CASE r.edit.refused
  BY <1>2, <1>3, <1>4, RefusedLeavesOthers
<1>5. CASE ~r.edit.refused
  <2>1. r.document = WithoutItem(w.document, id) /\ r.files = Without(w.files, Chapter(w, id).href)
    BY <1>1, <1>5 DEF Removed
  <2>2. PICK v : /\ v.files = w.files /\ v.document = r.document
                 /\ Accepted(v) /\ r.content = ContentOf(v)
    BY <1>1, <1>5 DEF Removed
  <2>3. /\ Members(r.document.spine) = Members(w.document.spine) \ {id}
        /\ \A item : item \in Items(r.document) <=> item \in Items(w.document) /\ item.id # id
        /\ r.document.coverMeta = w.document.coverMeta
    <3>1. PICK document : document = w.document
      OBVIOUS
    <3>2. IsDocument(document)
      BY <3>1 DEF Guarded, Tidy, Good
    <3>3. PICK new : new = r.document
      OBVIOUS
    <3>4. new = WithoutItem(document, id)
      BY <2>1, <3>1, <3>3
    <3>a. Filtered(new, document, id)
      BY <3>2, <3>4, FilteredDocument
    <3>5. /\ Members(new.spine) = Members(document.spine) \ {id}
          /\ \A item : item \in Items(new) <=> item \in Items(document) /\ item.id # id
          /\ new.coverMeta = document.coverMeta
      BY <3>a DEF Filtered
    <3>6. QED
      BY <3>1, <3>3, <3>5
  <2>4. KeepsCoversApart(r.document) /\ SameHrefs(r, w)
    BY <2>3, FewerApart, FewerSameHrefs DEF Guarded, Tidy
  <2>5. /\ IsContent(r.content)
        /\ \A k \in DOMAIN r.content.chapters :
             /\ r.content.chapters[k].href \in DOMAIN w.files
             /\ r.content.chapters[k].title = w.files[r.content.chapters[k].href].title
    BY <2>2, ContentIsContent
  <2>6. Steady(r)
    BY <2>2, ListedIsSteady
  <2>7. ASSUME NEW name
        PROVE  Keeps(r.files, w.files, name) /\ Keeps(w.files, w.files, name)
    <3>1. PICK old : old = w.files
      OBVIOUS
    <3>2. PICK href : href = Chapter(w, id).href
      OBVIOUS
    <3>3. PICK new : new = r.files
      OBVIOUS
    <3>4. new = Without(old, href)
      BY <2>1, <3>1, <3>2, <3>3
    <3>5. DOMAIN new = DOMAIN old \ {href} /\ \A n \in DOMAIN old \ {href} : new[n] = old[n]
      BY <3>4, WithoutIsMap, WithoutKeepsTheRest
    <3>6. QED
      BY <3>1, <3>3, <3>5 DEF Keeps
  <2>8. KeepsOtherChapters(w, r)
    <3>1. PICK found : found = w.files
      OBVIOUS
    <3>2. Good(w) /\ IsContent(w.content) /\ TitlesMatch(w) /\ Listed(r) /\ Consistent(r.document)
      BY <1>1 DEF Guarded, Tidy, Settled, Good
    <3>3. QED
      BY <2>4, <2>5, <2>7, <3>1, <3>2, OthersAreListed DEF SameHrefs
  <2>9. QED
    BY <2>4, <2>6, <2>8 DEF LeavesOthers
<1>6. QED
  BY <1>4, <1>5

LEMMA FoundIsCover ==
  ASSUME NEW document, IsDocument(document), CoverPlaces(document) # {},
         NEW found, found = document.items[FirstOf(CoverPlaces(document))]
  PROVE  found \in MarkedCovers(document) \cup NamedCovers(document)
<1>1. PICK place : place = FirstOf(CoverPlaces(document))
  OBVIOUS
<1>2. place \in CoverPlaces(document) /\ found = document.items[place] /\ found \in Items(document)
  BY <1>1, CoverIsFound
<1>3. PICK marked : marked = {k \in DOMAIN document.items :
                               "cover-image" \in document.items[k].properties}
  OBVIOUS
<1>4. CASE marked # {}
  BY <1>2, <1>3, <1>4 DEF CoverPlaces, MarkedCovers
<1>5. CASE marked = {}
  <2>1. document.coverMeta # << >> /\ found.id = Head(document.coverMeta)
    BY <1>2, <1>3, <1>5 DEF CoverPlaces
  <2>2. 1 \in DOMAIN document.coverMeta /\ Head(document.coverMeta) = document.coverMeta[1]
    <3>1. PICK meta : meta = document.coverMeta
      OBVIOUS
    <3>2. meta \in Seq(Members(meta)) /\ meta # << >>
      BY <2>1, <3>1, DocumentParts
    <3>3. Len(meta) \in Nat /\ Len(meta) > 0 /\ DOMAIN meta = 1..Len(meta) /\ Head(meta) = meta[1]
      BY <3>2
    <3>4. QED
      BY <3>1, <3>3
  <2>3. QED
    BY <1>2, <2>1, <2>2 DEF NamedCovers
<1>6. QED
  BY <1>4, <1>5

LEMMA AddedCoverApart ==
  ASSUME NEW document, IsDocument(document), Consistent(document), KeepsCoversApart(document),
         NEW media, NEW new, new = WithCoverItem(document, media), Consistent(new)
  PROVE  /\ KeepsCoversApart(new)
         /\ \A i \in Items(document), j \in Items(new) : i.id = j.id => i.href = j.href
<1>1. /\ CoverListed(new, document, media) /\ new.spine = document.spine
      /\ \A item \in Items(document) : item.id # CoverId
  BY CoverDocument, CoverIdIsFree
<1>2. PICK properties :
        /\ Items(new) = Items(document) \cup {Item(CoverId, CoverName(media), media, properties)}
        /\ \/ properties = {} /\ new.coverMeta = Append(document.coverMeta, CoverId)
           \/ properties = {"cover-image"} /\ new.coverMeta = document.coverMeta
  BY <1>1 DEF CoverListed
<1>3. PICK cover : cover = Item(CoverId, CoverName(media), media, properties)
  OBVIOUS
<1>4. cover.id = CoverId /\ cover.href = CoverName(media)
  BY <1>3, ItemParts
<1>5. \A i, j \in Items(document) : i.id = j.id => i = j
  BY DEF Consistent, Items
<1>6. CoverId \notin Members(document.spine)
  BY <1>1 DEF Consistent, Members, ManifestIds
<1>7. \A k \in DOMAIN new.coverMeta :
        new.coverMeta[k] = CoverId \/ \E j \in DOMAIN document.coverMeta : new.coverMeta[k] = document.coverMeta[j]
  <2>1. PICK meta : meta = document.coverMeta
    OBVIOUS
  <2>2. meta \in Seq(Members(meta))
    BY <2>1, DocumentParts
  <2>3. CASE new.coverMeta = Append(meta, CoverId)
    <3>1. /\ Len(meta) \in Nat /\ DOMAIN meta = 1..Len(meta)
          /\ DOMAIN new.coverMeta = 1..(Len(meta) + 1) /\ new.coverMeta[Len(meta) + 1] = CoverId
          /\ \A k \in 1..Len(meta) : new.coverMeta[k] = meta[k]
      BY <2>2, <2>3
    <3>2. \A k \in 1..(Len(meta) + 1) : k \in 1..Len(meta) \/ k = Len(meta) + 1
      BY <3>1
    <3>3. QED
      BY <2>1, <3>1, <3>2
  <2>4. QED
    BY <1>2, <2>1, <2>3
<1>8. ~IsAdded(CoverId) /\ IsPicture(CoverName(media))
  BY DEF IsAdded, IsPicture, CoverId, CoverName
<1>9. ASSUME NEW item \in MarkedCovers(new) \cup NamedCovers(new), item # cover
      PROVE  item \in MarkedCovers(document) \cup NamedCovers(document)
  <2>1. item \in Items(document)
    BY <1>2, <1>3, <1>9 DEF MarkedCovers, NamedCovers
  <2>2. CASE item \in NamedCovers(new)
    <3>1. PICK k \in DOMAIN new.coverMeta : item.id = new.coverMeta[k]
      BY <2>2 DEF NamedCovers
    <3>2. \E j \in DOMAIN document.coverMeta : item.id = document.coverMeta[j]
      BY <1>1, <1>7, <2>1, <3>1
    <3>3. QED
      BY <2>1, <3>2 DEF NamedCovers
  <2>3. QED
    BY <1>9, <2>1, <2>2 DEF MarkedCovers
<1>10. ASSUME NEW item \in Items(new), item.id \in Members(new.spine)
       PROVE  item \in Items(document) /\ item.id \in Members(document.spine)
  BY <1>1, <1>2, <1>3, <1>4, <1>6, <1>10
<1>11. KeepsCoversApart(new)
  <2>1. ASSUME NEW item \in Items(new), item.id \in Members(new.spine),
               NEW other \in MarkedCovers(new) \cup NamedCovers(new)
        PROVE  item.href # other.href
    <3>1. ~IsPicture(item.href)
      BY <1>10, <2>1 DEF KeepsCoversApart
    <3>2. CASE other = cover
      BY <1>4, <1>8, <3>1, <3>2
    <3>3. CASE other # cover
      BY <1>9, <1>10, <2>1, <3>3 DEF KeepsCoversApart
    <3>4. QED
      BY <3>2, <3>3
  <2>2. \A item \in Items(new) : item.id \in Members(new.spine) => ~IsPicture(item.href)
    BY <1>10 DEF KeepsCoversApart
  <2>3. \A k \in DOMAIN new.coverMeta : ~IsAdded(new.coverMeta[k])
    BY <1>7, <1>8 DEF KeepsCoversApart
  <2>4. QED
    BY <2>1, <2>2, <2>3 DEF KeepsCoversApart
<1>12. QED
  BY <1>1, <1>2, <1>3, <1>4, <1>5, <1>11

LEMMA RetypedApart ==
  ASSUME NEW document, IsDocument(document), Consistent(document), KeepsCoversApart(document),
         NEW id, NEW media, NEW new, new = WithMediaType(document, id, media)
  PROVE  /\ KeepsCoversApart(new)
         /\ \A i \in Items(document), j \in Items(new) : i.id = j.id => i.href = j.href
<1>1. /\ new.coverMeta = document.coverMeta /\ new.spine = document.spine
      /\ Items(new) = {Retyped(item, id, media) : item \in Items(document)}
  BY RetypedDocument
<1>2. \A item \in Items(document) : IsItem(item)
  <2>1. \A k \in DOMAIN document.items : IsItem(document.items[k])
    BY DocumentParts
  <2>2. QED
    BY <2>1 DEF Items
<1>3. ASSUME NEW item \in Items(new)
      PROVE  \E old \in Items(document) :
               /\ item.id = old.id /\ item.href = old.href /\ item.properties = old.properties
  <2>1. PICK old \in Items(document) : item = Retyped(old, id, media)
    BY <1>1
  <2>2. QED
    BY <1>2, <2>1, RemadeItem DEF Retyped
<1>4. ASSUME NEW item \in MarkedCovers(new) \cup NamedCovers(new)
      PROVE  \E old \in MarkedCovers(document) \cup NamedCovers(document) : item.href = old.href
  <2>1. item \in Items(new)
    BY DEF MarkedCovers, NamedCovers
  <2>2. PICK old \in Items(document) :
          item.id = old.id /\ item.href = old.href /\ item.properties = old.properties
    BY <1>3, <2>1
  <2>3. old \in MarkedCovers(document) \cup NamedCovers(document)
    BY <1>1, <1>4, <2>2 DEF MarkedCovers, NamedCovers
  <2>4. QED
    BY <2>2, <2>3
<1>5. KeepsCoversApart(new)
  <2>1. \A item \in Items(new) : \E old \in Items(document) : item.id = old.id /\ item.href = old.href
    BY <1>3
  <2>2. QED
    BY <1>1, <1>4, <2>1 DEF KeepsCoversApart
<1>6. \A i, j \in Items(document) : i.id = j.id => i = j
  BY DEF Consistent, Items
<1>7. \A i \in Items(document), j \in Items(new) : i.id = j.id => i.href = j.href
  BY <1>3, <1>6
<1>8. QED
  BY <1>5, <1>7

LEMMA WithKeepsOthers ==
  ASSUME NEW files, NEW name, NEW body, NEW new, new = With(files, name, body), NEW n, n # name
  PROVE  Keeps(new, files, n)
<1>1. DOMAIN new = DOMAIN files \cup {name}
  BY WithIsMap
<1>2. n \in DOMAIN files => new[n] = files[n]
  BY WithKeepsTheRest
<1>3. QED
  BY <1>1, <1>2 DEF Keeps

LEMMA CoverLeavesOthers ==
  ASSUME NEW w, Guarded(w), NEW picture \in Pictures, NEW r, r = ReplaceCover(w, picture)
  PROVE  LeavesOthers(r, w)
<1>1. /\ Good(w) /\ IsDocument(w.document) /\ Consistent(w.document)
      /\ KeepsCoversApart(w.document)
  BY DEF Guarded, Tidy, Good
<1>2. /\ Orderly(r, w) /\ Illustrated(r, w, picture.media) /\ Painted(r, w, picture)
      /\ r.edit.refused \/ Pasted(r, w, picture)
  BY <1>1, CoverReplaced, CoverFiles
<1>3. CASE r.files = w.files /\ r.document = w.document /\ r.content = w.content
  BY <1>3, NothingIsLost DEF LeavesOthers, Guarded
<1>4. ASSUME NEW name, r.files = With(w.files, name, Image(picture)),
             \/ name = CoverName(picture.media)
             \/ /\ CoverPlaces(w.document) # {}
                /\ name = w.document.items[FirstOf(CoverPlaces(w.document))].href
      PROVE  \A item \in Items(w.document) :
               item.id \in Members(w.document.spine) => Keeps(r.files, w.files, item.href)
  <2>1. ASSUME NEW item \in Items(w.document), item.id \in Members(w.document.spine)
        PROVE  item.href # name
    <3>1. CASE name = CoverName(picture.media)
      <4>1. IsPicture(name)
        BY <3>1 DEF IsPicture, CoverName
      <4>2. QED
        BY <1>1, <2>1, <4>1 DEF KeepsCoversApart
    <3>2. CASE /\ CoverPlaces(w.document) # {}
               /\ name = w.document.items[FirstOf(CoverPlaces(w.document))].href
      <4>1. PICK found : found = w.document.items[FirstOf(CoverPlaces(w.document))]
        OBVIOUS
      <4>2. found \in MarkedCovers(w.document) \cup NamedCovers(w.document)
        BY <1>1, <3>2, <4>1, FoundIsCover
      <4>3. name = found.href
        BY <3>2, <4>1
      <4>4. QED
        BY <1>1, <2>1, <4>2, <4>3 DEF KeepsCoversApart
    <3>3. QED
      BY <1>4, <3>1, <3>2
  <2>2. PICK files : files = w.files
    OBVIOUS
  <2>3. PICK new : new = r.files
    OBVIOUS
  <2>4. PICK body : body = Image(picture)
    OBVIOUS
  <2>5. new = With(files, name, body)
    BY <1>4, <2>2, <2>3, <2>4
  <2>6. \A n : n # name => Keeps(new, files, n)
    BY <2>5, WithKeepsOthers
  <2>7. QED
    BY <2>1, <2>2, <2>3, <2>6
<1>5. ASSUME \A item \in Items(w.document) :
               item.id \in Members(w.document.spine) => Keeps(r.files, w.files, item.href)
      PROVE  LeavesOthers(r, w)
  <2>1. CASE r.edit.refused
    <3>1. r.document = w.document
      BY <1>2, <2>1 DEF Illustrated
    <3>2. CASE r.content = w.content
      BY <1>5, <3>1, <3>2, AbandonedLeavesOthers
    <3>3. CASE Accepted(r) /\ r.content = ContentOf(r)
      <4>1. SameHrefs(r, w)
        BY <1>1, <3>1, FewerSameHrefs
      <4>2. QED
        BY <1>1, <1>5, <3>1, <3>3, <4>1, AcceptedLeavesOthers
    <3>4. QED
      BY <1>2, <3>1, <3>2, <3>3, NothingIsLost DEF Painted, LeavesOthers, Guarded
  <2>2. CASE ~r.edit.refused
    <3>1. PICK document : document = w.document
      OBVIOUS
    <3>2. PICK new : new = r.document
      OBVIOUS
    <3>3. IsDocument(document) /\ Consistent(document) /\ KeepsCoversApart(document) /\ Consistent(new)
      BY <1>1, <1>2, <3>1, <3>2 DEF Orderly, Good
    <3>4. PICK media : media = picture.media
      OBVIOUS
    <3>5. \/ new = WithCoverItem(document, media)
          \/ \E id : new = WithMediaType(document, id, media)
      BY <1>2, <2>2, <3>1, <3>2, <3>4 DEF Pasted
    <3>6. /\ KeepsCoversApart(new)
          /\ \A i \in Items(document), j \in Items(new) : i.id = j.id => i.href = j.href
      <4>1. CASE new = WithCoverItem(document, media)
        BY <3>3, <4>1, AddedCoverApart
      <4>2. ASSUME NEW id, new = WithMediaType(document, id, media)
            PROVE  /\ KeepsCoversApart(new)
                   /\ \A i \in Items(document), j \in Items(new) : i.id = j.id => i.href = j.href
        BY <3>3, <4>2, RetypedApart
      <4>3. QED
        BY <3>5, <4>1, <4>2
    <3>7. KeepsCoversApart(r.document) /\ SameHrefs(r, w)
      BY <3>1, <3>2, <3>6 DEF SameHrefs
    <3>8. Accepted(r) /\ r.content = ContentOf(r)
      BY <1>2, <2>2 DEF Illustrated
    <3>9. QED
      BY <1>5, <3>7, <3>8, AcceptedLeavesOthers
  <2>3. QED
    BY <2>1, <2>2
<1>6. QED
  BY <1>2, <1>3, <1>4, <1>5 DEF Painted

LEMMA AddedChapterApart ==
  ASSUME NEW document, IsDocument(document), Consistent(document), KeepsCoversApart(document),
         NEW id, IsAdded(id), \A item \in Items(document) : item.href # id,
         NEW new, new = WithChapter(document, id), Consistent(new)
  PROVE  /\ KeepsCoversApart(new)
         /\ \A i \in Items(document), j \in Items(new) : i.id = j.id => i.href = j.href
<1>1. PICK chapter : chapter = Item(id, id, "xhtml", {})
  OBVIOUS
<1>2. chapter.id = id /\ chapter.href = id /\ chapter.properties = {}
  BY <1>1, ItemParts
<1>3. /\ new.spine = Append(document.spine, id) /\ new.coverMeta = document.coverMeta
      /\ Items(new) = Items(document) \cup {chapter}
  BY <1>1, ChapterDocument
<1>4. Members(new.spine) = Members(document.spine) \cup {id}
  <2>1. PICK S : document.spine \in Seq(S) /\ id \in S
    <3>1. document.spine \in Seq(Members(document.spine))
      BY DocumentParts
    <3>2. document.spine \in Seq(Members(document.spine) \cup {id})
      BY <3>1
    <3>3. QED
      BY <3>2
  <2>2. QED
    BY <1>3, <2>1, MembersOfAppend
<1>5. \A i, j \in Items(new) : i.id = j.id => i = j
  BY DEF Consistent, Items
<1>6. \A item \in Items(document) : item.id # id
  BY <1>2, <1>3, <1>5
<1>7. ASSUME NEW item \in Items(new), item.id \in Members(new.spine), item # chapter
      PROVE  item \in Items(document) /\ item.id \in Members(document.spine)
  BY <1>3, <1>4, <1>6, <1>7
<1>8. \A cover \in MarkedCovers(new) \cup NamedCovers(new) :
        cover \in Items(document) /\ cover \in MarkedCovers(document) \cup NamedCovers(document)
  <2>1. SUFFICES ASSUME NEW cover \in MarkedCovers(new) \cup NamedCovers(new)
                 PROVE  /\ cover \in Items(document)
                        /\ cover \in MarkedCovers(document) \cup NamedCovers(document)
    OBVIOUS
  <2>2. cover \in Items(new)
    BY <2>1 DEF MarkedCovers, NamedCovers
  <2>3. cover # chapter
    <3>1. chapter \notin MarkedCovers(new)
      BY <1>2 DEF MarkedCovers
    <3>2. chapter \notin NamedCovers(new)
      BY <1>2, <1>3 DEF NamedCovers, KeepsCoversApart
    <3>3. QED
      BY <3>1, <3>2
  <2>4. cover \in Items(document)
    BY <1>3, <2>2, <2>3
  <2>5. QED
    BY <1>3, <2>1, <2>4 DEF MarkedCovers, NamedCovers
<1>9. ~IsPicture(id)
  BY DEF IsPicture, IsAdded
<1>10. KeepsCoversApart(new)
  <2>1. ASSUME NEW item \in Items(new), item.id \in Members(new.spine)
        PROVE  /\ ~IsPicture(item.href)
               /\ \A cover \in MarkedCovers(new) \cup NamedCovers(new) : item.href # cover.href
    <3>1. CASE item = chapter
      BY <1>2, <1>8, <1>9, <3>1
    <3>2. CASE item # chapter
      BY <1>7, <1>8, <2>1, <3>2 DEF KeepsCoversApart
    <3>3. QED
      BY <3>1, <3>2
  <2>2. QED
    BY <1>3, <2>1 DEF KeepsCoversApart
<1>11. \A i, j \in Items(document) : i.id = j.id => i = j
  BY <1>3, <1>5
<1>12. QED
  BY <1>3, <1>2, <1>6, <1>10, <1>11

LEMMA AddLeavesOthers ==
  ASSUME NEW w, Guarded(w), NEW source, NEW title \in Titles, NEW r, r = AddChapter(w, source, title)
  PROVE  LeavesOthers(r, w)
<1>1. PICK id : id = AddedName(AddedNumber(w))
  OBVIOUS
<1>2. /\ Tidy(w) /\ Good(w) /\ IsDocument(w.document) /\ Consistent(w.document)
      /\ KeepsCoversApart(w.document)
  BY DEF Guarded, Tidy, Good
<1>3. Orderly(r, w) /\ IsCalled(r.edit, "add", id, title, << >>) /\ Added(r, w, id)
  BY <1>1, <1>2, ChapterAdded
<1>4. EndsWell(r, w)
  BY <1>2, AddEndsWell
<1>5. r.edit.operation \in UndoneEdits
  BY <1>3 DEF IsCalled, UndoneEdits
<1>6. CASE r.edit.refused
  BY <1>4, <1>5, <1>6, RefusedLeavesOthers
<1>7. CASE ~r.edit.refused
  <2>1. PICK v : /\ DOMAIN v.files = DOMAIN w.files \cup {id}
                 /\ \A name \in DOMAIN w.files \ {id} : v.files[name] = w.files[name]
                 /\ r.document = WithChapter(w.document, id) /\ r.files = v.files
                 /\ Accepted(r) /\ r.content = ContentOf(r)
    BY <1>3, <1>7 DEF Added
  <2>2. \A item \in Items(w.document) : item.href # id
    BY <1>1, <1>2, AddedNameIsFree
  <2>3. IsAdded(id)
    BY <1>1 DEF IsAdded, AddedName
  <2>4. KeepsCoversApart(r.document) /\ SameHrefs(r, w)
    <3>1. PICK document : document = w.document
      OBVIOUS
    <3>2. PICK new : new = r.document
      OBVIOUS
    <3>3. /\ IsDocument(document) /\ Consistent(document) /\ KeepsCoversApart(document)
          /\ Consistent(new) /\ new = WithChapter(document, id)
          /\ \A item \in Items(document) : item.href # id
      BY <1>2, <1>3, <2>1, <2>2, <3>1, <3>2 DEF Orderly, Good
    <3>4. /\ KeepsCoversApart(new)
          /\ \A i \in Items(document), j \in Items(new) : i.id = j.id => i.href = j.href
      BY <2>3, <3>3, AddedChapterApart
    <3>5. QED
      BY <3>1, <3>2, <3>4 DEF SameHrefs
  <2>5. \A item \in Items(w.document) : Keeps(r.files, w.files, item.href)
    <3>1. PICK files : files = w.files
      OBVIOUS
    <3>2. PICK new : new = r.files
      OBVIOUS
    <3>3. DOMAIN new = DOMAIN files \cup {id} /\ \A name \in DOMAIN files \ {id} : new[name] = files[name]
      BY <2>1, <3>1, <3>2
    <3>4. \A name : name # id => Keeps(new, files, name)
      BY <3>3 DEF Keeps
    <3>5. QED
      BY <2>2, <3>1, <3>2, <3>4
  <2>6. QED
    BY <2>1, <2>4, <2>5, AcceptedLeavesOthers
<1>8. QED
  BY <1>6, <1>7

LEMMA EditsLeaveOthers ==
  ASSUME NEW w, Guarded(w), NEW r, AfterEdit(r, w)
  PROVE  LeavesOthers(r, w)
<1>1. ASSUME NEW title \in Titles, r = UpdateMetadata(w, title)
      PROVE  LeavesOthers(r, w)
  BY <1>1, MetadataLeavesOthers
<1>2. ASSUME NEW id, NEW source \in Sources, NEW title \in Titles, r = UpdateChapter(w, id, source, title)
      PROVE  LeavesOthers(r, w)
  BY <1>2, UpdateLeavesOthers
<1>3. ASSUME NEW source \in Sources, NEW title \in Titles, r = AddChapter(w, source, title)
      PROVE  LeavesOthers(r, w)
  BY <1>3, AddLeavesOthers
<1>4. ASSUME NEW id, r = DeleteChapter(w, id)
      PROVE  LeavesOthers(r, w)
  BY <1>4, DeleteLeavesOthers
<1>5. ASSUME NEW order \in [DOMAIN w.content.chapters -> ChapterIds(w)], r = ReorderSpine(w, order)
      PROVE  LeavesOthers(r, w)
  BY <1>5, OrderLeavesOthers
<1>6. ASSUME NEW picture \in Pictures, r = ReplaceCover(w, picture)
      PROVE  LeavesOthers(r, w)
  BY <1>6, CoverLeavesOthers
<1>7. QED
  BY <1>1, <1>2, <1>3, <1>4, <1>5, <1>6 DEF AfterEdit

\* Besides WorkspaceInv, NamesInv and BodiesInv.
OthersInv ==
  /\ Opens(published) => KeepsCoversApart(published.document)
  /\ \A w \in ws : KeepsCoversApart(w.document) /\ Steady(w)

LEMMA InitOthers ==
  ASSUME UploadsKeepCoversApart, Init
  PROVE  OthersInv
BY DEF UploadsKeepCoversApart, Init, OthersInv

LEMMA NextOthers ==
  ASSUME WorkspaceInv, NamesInv, BodiesInv, OthersInv, [Next]_vars
  PROVE  OthersInv' /\ [OthersKept]_vars
<1>1. CASE EditAction
  <2>1. PICK w \in ws : \E r :
          /\ AfterEdit(r, w) /\ Usable(w) /\ Good(w) /\ Orderly(r, w)
          /\ ws = {w} /\ ws' = {r} /\ edits < MaxEdits /\ edits' = edits + 1
          /\ UNCHANGED <<published, row>>
    BY <1>1, EditedWorkspace
  <2>2. PICK r : /\ AfterEdit(r, w) /\ Usable(w) /\ Good(w)
                 /\ ws = {w} /\ ws' = {r} /\ UNCHANGED published
    BY <2>1
  <2>3. Guarded(w)
    BY <2>2 DEF NamesInv, BodiesInv, OthersInv, Tidy, Guarded
  <2>4. LeavesOthers(r, w)
    BY <2>2, <2>3, EditsLeaveOthers
  <2>5. OthersInv' /\ OthersKept
    BY <2>2, <2>4 DEF OthersInv, OthersKept, EditStep, LeavesOthers
  <2>6. QED
    BY <2>5
<1>2. CASE OpenWorkspace
  <2>1. PICK w : w = Opened(published)
    OBVIOUS
  <2>2. Opens(published) /\ ws' = {w} /\ UNCHANGED <<published, edits>>
    BY <1>2, <2>1 DEF OpenWorkspace
  <2>3. /\ w.files = published.files /\ w.document = published.document
        /\ w.content = ContentOf(w) /\ w.fixed = published.fixed
    BY <2>1, <2>2, OpenedIsGood DEF WorkspaceInv, ArchiveInv
  <2>4. Accepted(w)
    BY <2>2, <2>3, SameIsAccepted DEF SamePackage, Opens
  <2>5. Steady(w)
    BY <2>3, <2>4, ListedIsSteady
  <2>6. QED
    BY <2>2, <2>3, <2>5 DEF OthersInv, OthersKept, EditStep
<1>3. CASE Publish
  <2>1. PICK w \in ws : published' = Archive(w) /\ ws' = {} /\ UNCHANGED edits
    BY <1>3 DEF Publish
  <2>2. published'.document = w.document
    BY <2>1 DEF Archive
  <2>3. QED
    BY <2>1, <2>2 DEF OthersInv, OthersKept, EditStep
<1>4. CASE UpdateDetails \/ Close \/ UNCHANGED vars
  BY <1>4 DEF UpdateDetails, Close, vars, OthersInv, OthersKept, EditStep
<1>5. QED
  BY <1>1, <1>2, <1>3, <1>4 DEF Next, EditAction

\* An edit of one chapter, or of no chapter, changes no other chapter's title or
\* file name, and no other chapter's text.
THEOREM OthersAlwaysKept ==
  ASSUME UploadsArePlaced, UploadsKeepCoversApart
  PROVE  Spec => OthersKeepTheirText
<1>1. Init => NamesInv /\ BodiesInv /\ OthersInv
  BY InitNames, InitBodies, InitOthers
<1>2. WorkspaceInv /\ NamesInv /\ BodiesInv /\ [Next]_vars => NamesInv' /\ BodiesInv'
  BY NextNames, NextBodies
<1>3. WorkspaceInv /\ NamesInv /\ BodiesInv /\ OthersInv /\ [Next]_vars =>
        OthersInv' /\ [OthersKept]_vars
  BY NextOthers
<1>4. QED
  BY <1>1, <1>2, <1>3, Workspaces, PTL DEF Spec, OthersKeepTheirText

=============================================================================
