----------------------------- MODULE Workspace -----------------------------
(***************************************************************************)
(* epubedit.Workspace: an EPUB unpacked into a directory of its own,       *)
(* edited there, packed again and published.                               *)
(*                                                                         *)
(* One request owns a workspace from Open to Close, so every exported      *)
(* operation is one step.  books.publish makes one edit between the two;   *)
(* the package's tests make several, and go on after an edit that was      *)
(* refused.  Both are behaviours of this module.                           *)
(*                                                                         *)
(* Names of files and identifiers of manifest items are pairs: the         *)
(* reference in a manifest and the file it resolves to are the same pair,  *)
(* and a reference that safeReference refuses is one of Unsafe.  The       *)
(* document of a package is kept apart from its other files.               *)
(*                                                                         *)
(* An operator whose name ends in Bug is not part of the model: it is the  *)
(* definition after it with a plausible mistake, kept to make sure that a  *)
(* property notices the mistake.                                           *)
(***************************************************************************)
EXTENDS Naturals, Sequences, FiniteSets

CONSTANTS
  Uploads,          \* the archives a book may start from
  Titles,           \* titles of books and chapters, "" for none
  DollarTitles,     \* those with a dollar sign in front of a name or a number
  Sources,          \* the XHTML an editor may send
  Pictures,         \* the covers an editor may send
  MaxEntries,       \* Limits.MaxEntries
  MaxEdits          \* bound: edits tried over a behaviour

ASSUME WorkspaceAssumption == MaxEntries \in Nat /\ MaxEdits \in Nat /\ "" \in Titles

VARIABLES
  published,        \* the bytes of the book's current revision
  row,              \* title and cover preview in the book's row
  ws,               \* the workspaces there are: none or one
  edits             \* edits tried so far

vars == <<published, row, ws, edits>>

-----------------------------------------------------------------------------
(* Packages.                                                               *)

\* The first component tells who made the name up: the producer of the upload
\* or AddChapter and ReplaceCover.
UploadName(n) == <<"upload", n>>
AddedName(n) == <<"added", n>>
CoverId == <<"cover", 0>>
CoverName(media) == <<"picture", media>>
Unsafe == {<<"unsafe", 0>>}

FixedEntries == {"mimetype", "container", "document"}

NoPicture == [media |-> "none", data |-> 0]

\* Title is the text, and links the entries of a navigation document: the file
\* one leads to, the section in it ("" for the file as a whole) and its text.
XHTML(text, title, links) ==
  [kind |-> "xhtml", harmless |-> TRUE, html |-> TRUE, head |-> TRUE, big |-> FALSE,
   text |-> text, title |-> title, links |-> links, picture |-> NoPicture]

Image(picture) ==
  [XHTML("", "", {}) EXCEPT !.kind = "image", !.html = FALSE, !.head = FALSE, !.picture = picture]

Item(id, href, media, properties) ==
  [id |-> id, href |-> href, media |-> media, properties |-> properties]

With(files, name, body) ==
  [n \in DOMAIN files \cup {name} |-> IF n = name THEN body ELSE files[n]]

Without(files, name) == [n \in DOMAIN files \ {name} |-> files[n]]

\* The members of a sequence that are not gone, in their order.
Kept(members, gone) ==
  LET kept[n \in Nat] ==
        IF n = 0 THEN << >>
        ELSE IF members[n] \in gone THEN kept[n - 1] ELSE Append(kept[n - 1], members[n])
  IN  kept[Len(members)]

-----------------------------------------------------------------------------
(* extract and inspect.                                                    *)

\* Flaw stands for an unsafe or repeated entry name, a symbolic link, or an
\* entry that does not have the size it announces: only uploads have them.
Extractable(archive) ==
  /\ archive.flaw = "none"
  /\ Cardinality(archive.fixed) + Cardinality(DOMAIN archive.files) <= MaxEntries
  /\ \A name \in DOMAIN archive.files : ~archive.files[name].big

\* inspectXHTML: no script, no event handler, no reference out of the archive.
Harmless(body) == body.kind = "xhtml" /\ body.harmless

ItemAccepted(pkg, item) ==
  /\ item.href \notin Unsafe
  /\ item.href \in DOMAIN pkg.files
  /\ item.media # "script"
  /\ item.media = "xhtml" => Harmless(pkg.files[item.href])

Items(document) == {document.items[k] : k \in DOMAIN document.items}

ItemOf(document, id) == CHOOSE item \in Items(document) : item.id = id

\* What the XML parser makes of a package document: lists of items and references.
IsDocument(document) ==
  /\ document = [version |-> document.version, title |-> document.title,
                  metadata |-> document.metadata, items |-> document.items,
                  spine |-> document.spine, coverMeta |-> document.coverMeta]
  /\ document.title \in Titles
  /\ document.items \in Seq(Items(document))
  /\ \A item \in Items(document) : item = Item(item.id, item.href, item.media, item.properties)
  /\ document.spine \in Seq({document.spine[k] : k \in DOMAIN document.spine})
  /\ document.coverMeta \in Seq({document.coverMeta[k] : k \in DOMAIN document.coverMeta})

\* What is told apart of a file; the links are those of a navigation document.
IsBody(body) ==
  /\ body = [kind |-> body.kind, harmless |-> body.harmless, html |-> body.html,
              head |-> body.head, big |-> body.big, text |-> body.text, title |-> body.title,
              links |-> body.links, picture |-> body.picture]
  /\ \A link \in body.links :
       link = [to |-> link.to, section |-> link.section, label |-> link.label]

ASSUME SourcesAssumption == \A source \in Sources : IsBody(source)

\* What the ZIP reader makes of an upload.
ASSUME UploadsAssumption ==
  \A archive \in Uploads :
    /\ archive = [fixed |-> archive.fixed, files |-> archive.files,
                   document |-> archive.document, flaw |-> archive.flaw]
    /\ archive.fixed \subseteq FixedEntries
    /\ archive.files = [name \in DOMAIN archive.files |-> archive.files[name]]
    /\ \A name \in DOMAIN archive.files : IsBody(archive.files[name])
    /\ IsDocument(archive.document)

ManifestIds(document) == {item.id : item \in Items(document)}

ManifestAccepted(pkg) ==
  /\ {"container", "document"} \subseteq pkg.fixed
  /\ \A item \in Items(pkg.document) : ItemAccepted(pkg, item)
  /\ \A j, k \in DOMAIN pkg.document.items :
       pkg.document.items[j].id = pkg.document.items[k].id => j = k

AcceptedBug(pkg) ==
  /\ ManifestAccepted(pkg)
  /\ \A k \in DOMAIN pkg.document.spine : pkg.document.spine[k] \in ManifestIds(pkg.document)

\* What inspect checks of a package; it refuses anything else.
Accepted(pkg) ==
  /\ ManifestAccepted(pkg)
  /\ pkg.document.spine # << >>
  /\ \A k \in DOMAIN pkg.document.spine :
       LET id == pkg.document.spine[k] IN
       /\ id \in ManifestIds(pkg.document)
       /\ ItemOf(pkg.document, id).media = "xhtml"

ContentOf(pkg) ==
  [title |-> pkg.document.title,
   chapters |->
     [k \in DOMAIN pkg.document.spine |->
       LET item == ItemOf(pkg.document, pkg.document.spine[k]) IN
       [id |-> item.id, href |-> item.href, title |-> pkg.files[item.href].title]]]

Opens(archive) == Extractable(archive) /\ Accepted(archive)

-----------------------------------------------------------------------------
(* A workspace: its files, and what the last successful inspect found.     *)

NoEdit == [operation |-> "none", id |-> CoverId, title |-> "", order |-> << >>, refused |-> FALSE]

Opened(archive) ==
  [fixed |-> archive.fixed, files |-> archive.files, document |-> archive.document,
   content |-> ContentOf(archive), cover |-> NoPicture, edit |-> NoEdit]

InspectedBug(w) == w

\* inspect assigns the content at its end, when everything is accepted.
Inspected(w) == IF Accepted(w) THEN [w EXCEPT !.content = ContentOf(w)] ELSE w

ChapterIds(w) == {w.content.chapters[k].id : k \in DOMAIN w.content.chapters}

Chapter(w, id) ==
  w.content.chapters[CHOOSE k \in DOMAIN w.content.chapters : w.content.chapters[k].id = id]

Edit(operation, id, title, order) ==
  [operation |-> operation, id |-> id, title |-> title, order |-> order, refused |-> FALSE]

Done(w, edit) == [w EXCEPT !.edit = edit]
Refused(w, edit) == [w EXCEPT !.edit = [edit EXCEPT !.refused = TRUE]]

\* writeOPFAndRefresh: a document that inspect refuses is replaced by the old
\* one, and the old one inspected again.
WriteDocumentAndRefresh(w, document, edit) ==
  LET new == [w EXCEPT !.document = document] IN
  IF Accepted(new) THEN Done(Inspected(new), edit) ELSE Refused(Inspected(w), edit)

-----------------------------------------------------------------------------
(* Chapters.                                                               *)

\* validateXHTMLSource
ValidSource(source) == Harmless(source) /\ source.html

\* rewriteXHTMLTitle uses the title as the replacement of a regular expression,
\* which takes a dollar sign and what follows it for a group.  What is left of
\* such a title is abstracted to the empty text.
Expanded(title) == IF title \in DollarTitles THEN "" ELSE title

TitleFits(source, title) == title = "" \/ source.head

Retitled(source, title) ==
  IF title = "" THEN source ELSE [source EXCEPT !.title = Expanded(title)]

NavigationFiles(document) ==
  {item.href : item \in {i \in Items(document) : "nav" \in i.properties}}

\* safeReference drops the fragment of a reference, so the entry of a section
\* counts as an entry of the file the section is in.
Relabelled(body, target, title) ==
  [body EXCEPT !.links =
    {[link EXCEPT !.label = IF link.to = target /\ link.label # "" THEN title ELSE link.label]
       : link \in body.links}]

\* updateNavigationTitle takes the navigation documents in the order of the
\* manifest and stops at the first that is missing or is no XML.
Readable(w, item) == item.href \in DOMAIN w.files /\ w.files[item.href].kind = "xhtml"

NavigationIsRead(w) ==
  \A item \in Items(w.document) : "nav" \in item.properties => Readable(w, item)

NavigationRead(w) ==
  LET items == w.document.items
      places == {k \in DOMAIN items : "nav" \in items[k].properties}
  IN  {items[k].href : k \in {k \in places : \A j \in places : j <= k => Readable(w, items[j])}}

WithNavigationTitleBug(w, target, title) == w

\* Every entry for the chapter's file gets the new text, in the navigation
\* documents of EPUB 3; the code never touches the NCX of EPUB 2.
WithNavigationTitle(w, target, title) ==
  [w EXCEPT !.files =
    [name \in DOMAIN w.files |->
      IF name \in NavigationRead(w) THEN Relabelled(w.files[name], target, title)
      ELSE w.files[name]]]

\* UpdateChapter writes the chapter, then the navigation documents, and then
\* inspects; what it has written stays when one of the later steps fails.
UpdateChapter(w, id, source, title) ==
  LET edit == Edit("update", id, title, << >>) IN
  IF id \notin ChapterIds(w) \/ ~ValidSource(source) \/ ~TitleFits(source, title)
  THEN Refused(w, edit)
  ELSE LET href == Chapter(w, id).href
           written == [w EXCEPT !.files = With(w.files, href, Retitled(source, title))]
           named == IF title = "" THEN written ELSE WithNavigationTitle(written, href, title)
       IN  IF (title = "" \/ NavigationIsRead(written)) /\ Accepted(named)
           THEN Done(Inspected(named), edit)
           ELSE Refused(named, edit)

AddedNumberBug(w) == Cardinality(ChapterIds(w)) + 1

\* The first number, after the number of chapters, that no chapter's identifier
\* has.  Items outside the spine and files are not looked at.
AddedNumber(w) ==
  LET first == Cardinality(ChapterIds(w)) + 1 IN
  CHOOSE n \in first..(2 * first) :
    /\ AddedName(n) \notin ChapterIds(w)
    /\ \A m \in first..(n - 1) : AddedName(m) \in ChapterIds(w)

\* addManifestAndSpine
WithChapter(document, id) ==
  [document EXCEPT !.items = Append(@, Item(id, id, "xhtml", {})), !.spine = Append(@, id)]

WithoutWrittenBug(w, name) == w

WithoutWritten(w, name) == [w EXCEPT !.files = Without(w.files, name)]

\* AddChapter writes the file first and removes it when the package with the
\* new item is refused.
AddChapter(w, source, title) ==
  LET id == AddedName(AddedNumber(w))
      edit == Edit("add", id, title, << >>)
  IN  IF ~ValidSource(source) \/ ~TitleFits(source, title)
      THEN Refused(w, edit)
      ELSE LET written == [w EXCEPT !.files = With(w.files, id, Retitled(source, title))]
               result == WriteDocumentAndRefresh(written, WithChapter(w.document, id), edit)
           IN  IF result.edit.refused THEN WithoutWritten(result, id) ELSE result

WithoutItemBug(document, id) == [document EXCEPT !.spine = Kept(@, {id})]

\* filterOPFItems
WithoutItem(document, id) ==
  [document EXCEPT !.items = Kept(@, {item \in Items(document) : item.id = id}),
                   !.spine = Kept(@, {id})]

\* DeleteChapter removes the file of the chapter, whatever else refers to it.
DeleteChapter(w, id) ==
  LET edit == Edit("delete", id, "", << >>) IN
  IF Len(w.content.chapters) <= 1 \/ id \notin ChapterIds(w)
  THEN Refused(w, edit)
  ELSE LET result == WriteDocumentAndRefresh(w, WithoutItem(w.document, id), edit) IN
       IF result.edit.refused THEN result
       ELSE WithoutWritten(result, Chapter(w, id).href)

WithSpineBug(document, order) == [document EXCEPT !.spine = order \o @]

\* rewriteSpine
WithSpine(document, order) == [document EXCEPT !.spine = order]

\* ReorderSpine asks for every chapter exactly once.
ReorderSpine(w, order) ==
  LET edit == Edit("reorder", CoverId, "", order) IN
  IF \/ Len(order) # Len(w.content.chapters)
     \/ \E k \in DOMAIN order : order[k] \notin ChapterIds(w)
     \/ \E j, k \in DOMAIN order : j # k /\ order[j] = order[k]
  THEN Refused(w, edit)
  ELSE WriteDocumentAndRefresh(w, WithSpine(w.document, order), edit)

-----------------------------------------------------------------------------
(* Metadata and cover.                                                     *)

\* UpdateMetadata and rewriteMetadata; title stands for the six fields.
UpdateMetadata(w, title) ==
  LET edit == Edit("metadata", CoverId, title, << >>) IN
  IF ~w.document.metadata THEN Refused(w, edit)
  ELSE WriteDocumentAndRefresh(w, [w.document EXCEPT !.title = title], edit)

\* The items with property cover-image, or else the one the first meta element
\* named cover points to, by their places in the manifest.
CoverPlaces(document) ==
  LET marked == {k \in DOMAIN document.items : "cover-image" \in document.items[k].properties} IN
  IF marked # {} THEN marked
  ELSE {k \in DOMAIN document.items :
          document.coverMeta # << >> /\ document.items[k].id = Head(document.coverMeta)}

FirstOf(places) == CHOOSE k \in places : \A j \in places : k <= j

\* addCoverManifest: EPUB 2 has a meta element where EPUB 3 has a property, and
\* is refused when it has no metadata element to put it in.
TakesCoverItem(document) == document.version = 2 => document.metadata

WithCoverItem(document, media) ==
  LET Cover(properties) == Item(CoverId, CoverName(media), media, properties) IN
  IF document.version = 2
  THEN [document EXCEPT !.items = Append(@, Cover({})), !.coverMeta = Append(@, CoverId)]
  ELSE [document EXCEPT !.items = Append(@, Cover({"cover-image"}))]

\* updateManifestMediaType
WithMediaType(document, id, media) ==
  LET Retyped(item) == IF item.id = id THEN [item EXCEPT !.media = media] ELSE item
  IN  [document EXCEPT !.items = [k \in DOMAIN @ |-> Retyped(@[k])]]

\* A picture in a format the server does not take has no media type here.
ValidPicture(picture) == picture.media # "none"

CoverFileBug(item, picture) == CoverName(picture.media)

\* The picture is written where the item's reference points to, also when its
\* format changes.
CoverFile(item, picture) == item.href

\* ReplaceCover writes the picture after it has made the document up and before
\* it writes that, and leaves it there when the document is refused.
ReplaceCover(w, picture) ==
  LET edit == Edit("cover", CoverId, "", << >>)
      candidates == CoverPlaces(w.document)
      found == w.document.items[FirstOf(candidates)]
      document ==
        IF candidates = {} THEN WithCoverItem(w.document, picture.media)
        ELSE WithMediaType(w.document, found.id, picture.media)
      name ==
        IF candidates = {} THEN CoverName(picture.media) ELSE CoverFile(found, picture)
      result ==
        WriteDocumentAndRefresh([w EXCEPT !.files = With(w.files, name, Image(picture))], document, edit)
  IN  IF ~ValidPicture(picture) \/ (candidates = {} /\ ~TakesCoverItem(w.document))
      THEN Refused(w, edit)
      ELSE IF result.edit.refused THEN result ELSE [result EXCEPT !.cover = picture]

-----------------------------------------------------------------------------
(* The life of a workspace.                                                *)

Archive(w) ==
  [fixed |-> w.fixed, files |-> w.files, document |-> w.document, flaw |-> "none"]

\* Rebuild packs the directory and opens what it has packed.
Rebuilds(w) == "mimetype" \in w.fixed /\ Opens(Archive(w))

\* Create gives the row the title of the form, of the package or of the file.
Init ==
  /\ published \in Uploads
  /\ \E title \in Titles \ {""} : row = [title |-> title, preview |-> NoPicture]
  /\ ws = {}
  /\ edits = 0

\* Open refuses the archive, and the request ends, unless it is accepted.
OpenWorkspace ==
  /\ ws = {} /\ edits < MaxEdits
  /\ Opens(published)
  /\ ws' = {Opened(published)}
  /\ UNCHANGED <<published, row, edits>>

\* Edits that change the package document only, or undo what else they changed.
UndoneEdits == {"metadata", "add", "delete", "reorder"}

\* A client goes on with the workspace after these, and closes it otherwise.
Usable(w) == w.edit.refused => w.edit.operation \in UndoneEdits

Edited(w, result) ==
  /\ edits < MaxEdits /\ Usable(w)
  /\ ws' = {result}
  /\ edits' = edits + 1
  /\ UNCHANGED <<published, row>>

\* UpdateContentMetadata refuses a blank title before it asks for a workspace.
ChangeMetadata ==
  \E w \in ws, title \in Titles \ {""} : Edited(w, UpdateMetadata(w, title))

\* CoverId is an identifier no chapter has.
ChangeChapter ==
  \E w \in ws, source \in Sources, title \in Titles : \E id \in ChapterIds(w) \cup {CoverId} :
    Edited(w, UpdateChapter(w, id, source, title))

NewChapter ==
  \E w \in ws, source \in Sources, title \in Titles : Edited(w, AddChapter(w, source, title))

RemoveChapter ==
  \E w \in ws : \E id \in ChapterIds(w) \cup {CoverId} : Edited(w, DeleteChapter(w, id))

\* Orders of the right length, with repetitions; one that is longer, shorter or
\* names an unknown chapter is refused like those.
ChangeOrder ==
  \E w \in ws : \E order \in [DOMAIN w.content.chapters -> ChapterIds(w)] :
    Edited(w, ReorderSpine(w, order))

ChangeCover == \E w \in ws, picture \in Pictures : Edited(w, ReplaceCover(w, picture))

\* publish, from Rebuild to the row of the book.  It is not reached when the
\* edit was refused.
Publish ==
  \E w \in ws :
    /\ w.edit # NoEdit /\ ~w.edit.refused
    /\ Rebuilds(w)
    /\ published' = Archive(w)
    /\ row' = [title |-> w.content.title,
               preview |-> IF w.cover = NoPicture THEN row.preview ELSE w.cover]
    /\ ws' = {}
    /\ UNCHANGED edits

\* books.UpdateDetails renames the book in its row alone, whether or not somebody
\* edits its bytes at the time; the next publication renames it again.
UpdateDetails ==
  /\ \E title \in Titles \ {""} : row' = [row EXCEPT !.title = title]
  /\ UNCHANGED <<published, ws, edits>>

\* The request ends, with an error of any step or because the client was lost;
\* its deferred Close removes the directory.
Close ==
  /\ ws # {}
  /\ ws' = {}
  /\ UNCHANGED <<published, row, edits>>

Next ==
  \/ OpenWorkspace
  \/ ChangeMetadata \/ ChangeChapter \/ NewChapter \/ RemoveChapter
  \/ ChangeOrder \/ ChangeCover
  \/ Publish \/ UpdateDetails \/ Close

Spec == Init /\ [][Next]_vars

=============================================================================
