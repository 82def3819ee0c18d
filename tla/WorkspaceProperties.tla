------------------------ MODULE WorkspaceProperties ------------------------
(***************************************************************************)
(* What editing an EPUB must never do to the book.                         *)
(***************************************************************************)
EXTENDS Workspace

Names(pkg) == DOMAIN pkg.files

\* A workspace has the parts of the Go struct, there is at most one, and what
\* it knows of its chapters is about files it has had.
TypeOK ==
  /\ Cardinality(ws) <= 1
  /\ edits \in 0..MaxEdits
  /\ published.fixed \subseteq FixedEntries
  /\ row.title \in Titles /\ row.preview \in Pictures \cup {NoPicture}
  /\ \A w \in ws :
       /\ w.fixed = published.fixed
       /\ w.content.chapters # << >>
       /\ w.cover \in Pictures \cup {NoPicture}
       /\ w.edit.title \in Titles /\ w.edit.refused \in BOOLEAN

-----------------------------------------------------------------------------

\* Design document, "Metadata Editing": the title in the book's row mirrors the
\* published value of the package.  It does when something is published, and
\* until the book is renamed in its row alone.
RowMirrors == published' # published => row'.title = published'.document.title
RowMirrorsThePackage == [][RowMirrors]_vars

\* The picture the library shows beside the book is the one a reading system
\* finds in the EPUB: as the file of the item with property cover-image, or of
\* the one a meta element names.
Shown(document) ==
  LET marked == {item \in Items(document) : "cover-image" \in item.properties}
      named == {item \in Items(document) :
                  \E k \in DOMAIN document.coverMeta : item.id = document.coverMeta[k]}
  IN  IF marked # {} THEN marked ELSE named

PreviewIsTheCover ==
  row.preview # NoPicture =>
    \A item \in Shown(published.document) :
      /\ published.files[item.href].picture = row.preview
      /\ item.media = row.preview.media

CoverIsShown == row.preview # NoPicture => Shown(published.document) # {}

PreviewMatchesPackage == PreviewIsTheCover /\ CoverIsShown

-----------------------------------------------------------------------------
(* Steps of an edit.  Before and After are the workspaces of the step.     *)

EditStep(Holds(_, _)) ==
  edits' # edits => \A before \in ws, after \in ws' : Holds(before, after)

HrefsOf(w, id) == {w.content.chapters[k].href : k \in {j \in DOMAIN w.content.chapters :
                                                        w.content.chapters[j].id = id}}

\* The chapter that was deleted is the file of another item too.
TakesSharedFile(before, edit) ==
  /\ edit.operation = "delete"
  /\ \E item \in Items(before.document) :
       item.id # edit.id /\ item.href \in HrefsOf(before, edit.id)

\* An edit that succeeds leaves a package that the next editor can open, and
\* that editor finds the title and the chapters this one was told of.  Not
\* promised when the package outgrows the limits of an archive, nor after the
\* deletion of a chapter whose file another item names: DeleteChapter removes
\* the file although the item still refers to it.
ReadsBack(before, after) ==
  ~after.edit.refused /\ ~TakesSharedFile(before, after.edit) /\ Extractable(Archive(after)) =>
    /\ Opens(Archive(after))
    /\ Opened(Archive(after)).content = after.content

ReadBack == EditStep(ReadsBack)
EditsReadBack == [][ReadBack]_vars

\* An edit leaves every chapter alone but the one it is about: no other
\* chapter's text, and no other chapter's title, changes.
KeepsOtherChapters(before, after) ==
  LET touched ==
        IF after.edit.operation = "update" THEN HrefsOf(before, after.edit.id) ELSE {}
  IN  \A j \in DOMAIN before.content.chapters, k \in DOMAIN after.content.chapters :
        LET old == before.content.chapters[j]
            new == after.content.chapters[k]
        IN  old.id = new.id /\ old.href \notin touched =>
              /\ old = new
              /\ old.href \in Names(after) =>
                   /\ before.files[old.href].text = after.files[old.href].text
                   /\ before.files[old.href].title = after.files[old.href].title

OthersKept == EditStep(KeepsOtherChapters)
OthersKeepTheirText == [][OthersKept]_vars

\* The list of chapters changes as the edit says and in no other way: a new
\* chapter comes last, a deleted one is missing, an order is the one asked for.
OrderOf(w) == [k \in DOMAIN w.content.chapters |-> w.content.chapters[k].id]

OrderAfter(before, edit) ==
  CASE edit.operation = "add" -> Append(OrderOf(before), edit.id)
    [] edit.operation = "delete" -> Kept(OrderOf(before), {edit.id})
    [] edit.operation = "reorder" -> edit.order
    [] OTHER -> OrderOf(before)

ListsAsAsked(before, after) ==
  ~after.edit.refused => OrderOf(after) = OrderAfter(before, after.edit)

ListedAsAsked == EditStep(ListsAsAsked)
ChaptersFollowTheEdit == [][ListedAsAsked]_vars

\* A refused change of metadata, chapter list or order leaves the workspace as
\* it was, its files as well as what it knows of them, so that a client may go
\* on with it.
UndoesRefused(before, after) ==
  after.edit.refused /\ after.edit.operation \in UndoneEdits =>
    /\ after.files = before.files
    /\ after.document = before.document
    /\ after.content = before.content

RefusedUndone == EditStep(UndoesRefused)
RefusedEditsAreUndone == [][RefusedUndone]_vars

\* When a chapter gets a title, every entry of the table of contents that leads
\* into its file gets it too, the entries of its sections included, and no
\* entry that leads elsewhere changes.  An entry without text stays empty.
LabelsChapter(before, after) ==
  after.edit.operation = "update" /\ ~after.edit.refused /\ after.edit.title # "" =>
    \A name \in NavigationFiles(after.document) \ HrefsOf(before, after.edit.id),
       href \in HrefsOf(before, after.edit.id) :
      \A link \in after.files[name].links :
        IF link.to = href THEN link.label \in {after.edit.title, ""}
        ELSE link \in before.files[name].links

Labelled == EditStep(LabelsChapter)
NavigationFollowsTitles == [][Labelled]_vars

\* Design document, "EPUB Editing": new chapters receive collision-safe hrefs
\* and manifest IDs.  No file of the package is overwritten by a new chapter.
TakesFreeName(before, after) ==
  after.edit.operation = "add" /\ ~after.edit.refused =>
    /\ after.edit.id \notin Names(before)
    /\ after.edit.id \notin ManifestIds(before.document)

FreeNameTaken == EditStep(TakesFreeName)
NewChaptersAreCollisionSafe == [][FreeNameTaken]_vars
=============================================================================
