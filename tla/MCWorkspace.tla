---------------------------- MODULE MCWorkspace ----------------------------
(***************************************************************************)
(* Books to edit: EPUB 2 and 3, with and without a cover, a navigation     *)
(* document, a file two chapters share, a book at the limit of entries, and *)
(* one whose metadata cannot be rewritten.                                 *)
(***************************************************************************)
EXTENDS WorkspaceProperties, TLC

MCTitles == {"", "Title", "$5"}
MCDollarTitles == {"$5"}

MCSources ==
  {XHTML("new", "", {}),
   [XHTML("large", "", {}) EXCEPT !.big = TRUE],
   [XHTML("headless", "", {}) EXCEPT !.head = FALSE]}

MCPictures == {[media |-> "jpeg", data |-> 1], [media |-> "png", data |-> 2], [media |-> "none", data |-> 3]}

One == UploadName(1)
Two == UploadName(2)
Nav == UploadName(3)
Front == UploadName(4)

Document(version, items, spine, coverMeta) ==
  [version |-> version, title |-> "Title", metadata |-> TRUE,
   items |-> items, spine |-> spine, coverMeta |-> coverMeta]

Upload(document, files) ==
  [fixed |-> FixedEntries, flaw |-> "none", document |-> document, files |-> files]

TwoChapters == <<Item(One, One, "xhtml", {}), Item(Two, Two, "xhtml", {})>>

Text(name) == XHTML("text " \o ToString(name[2]), "", {})

Label(name, section) == [to |-> name, section |-> section, label |-> "old"]

Files(names) ==
  [name \in names |->
    IF name = Nav THEN XHTML("nav", "", {Label(One, ""), Label(One, "part"), Label(Two, "")})
    ELSE IF name = Front THEN Image([media |-> "jpeg", data |-> 0])
    ELSE Text(name)]

\* EPUB 3 with a navigation document and a marked cover.
Modern ==
  Upload(Document(3, TwoChapters \o <<Item(Nav, Nav, "xhtml", {"nav"}),
                                      Item(Front, Front, "jpeg", {"cover-image"})>>,
                  <<One, Two>>, << >>),
         Files({One, Two, Nav, Front}))

\* EPUB 2 whose cover a meta element names; the metadata element is missing in
\* the second one, which has no cover either.
Older ==
  Upload(Document(2, TwoChapters \o <<Item(Front, Front, "jpeg", {})>>, <<One, Two>>, <<Front>>),
         Files({One, Two, Front}))

Plain == Upload([Document(2, TwoChapters, <<One, Two>>, << >>) EXCEPT !.metadata = FALSE],
                Files({One, Two}))

\* EPUB 2 without a cover, where two chapters are the same file.
Shared ==
  Upload(Document(2, Append(TwoChapters, Item(Nav, One, "xhtml", {})), <<One, Two, Nav>>, << >>),
         Files({One, Two}))

\* An item that is not in the spine has the identifier of the next new chapter.
Taken ==
  Upload(Document(3, Append(TwoChapters, Item(AddedName(3), Nav, "xhtml", {"nav"})),
                  <<One, Two>>, << >>),
         Files({One, Two, Nav}))

\* Nothing can be added to this one, which has files that no item names.
Full == Upload(Document(3, TwoChapters, <<One, Two>>, << >>), Files({One, Two, Nav, Front}))

\* These are never opened.
Unreadable == [Plain EXCEPT !.flaw = "link"]
NoSpine == Upload(Document(3, TwoChapters, << >>, << >>), Files({One, Two}))

MCUploads == {Modern, Older, Plain, Shared, Taken, Full, Unreadable, NoSpine}

\* A book that has text/added-3.xhtml already, under another identifier.
Collision ==
  Upload(Document(3, <<Item(One, One, "xhtml", {}), Item(Two, AddedName(3), "xhtml", {})>>,
                  <<One, Two>>, << >>),
         Files({One, AddedName(3)}))

CollidingUploads == MCUploads \cup {Collision}
=============================================================================
