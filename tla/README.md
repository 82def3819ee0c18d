# OmniReader server in TLA+

A verification project for the Go server of OmniReader (`server/`): TLA+ models
of its components, TLC runs on small instances and TLAPS proofs for every
instance. Paths below are relative to the repository.

## 1. Inventory

OmniReader is a single-user ebook library: a Go process with one SQLite
database and a directory of files, an admin web UI, and a REST API for Android
clients.

| Component | State | Operations | Modelled in |
|---|---|---|---|
| `books.Service` (`internal/books/service.go`, `revision_service.go`) | tables `books`, `book_revisions`, `settings`; the mutex `publishMu` | Create, Get, List, Open, Archive, UpdateDetails, Delete; GetContent, the four edits and RestoreRevision, all through `publish`; ListRevisions; pruning | `Library` |
| `storage.Local` (`internal/storage/local.go`) | files under the books directory | Save, Open, Delete, Rename | `Storage` |
| `reading.Service` (`internal/reading`) | tables `devices`, `reading_progress`, `reading_daily` | UpsertDevice, RenameDevice, DisableDevice, PutProgress, GetProgress, device lists, activity, dashboard | `Reading` |
| `auth.Service` (`internal/auth`) | tables `users`, `sessions` | BootstrapAdmin, Login, Refresh, Logout, ChangePassword, VerifyBearer | `Auth`, at work in `Server` |
| `epubedit.Workspace` (`internal/epubedit`) | a temporary directory, the parsed package | Open, the mutations, Rebuild, Close | `Workspace` |
| `db` (`internal/db/migrations.go`) | the schema, `schema_migrations` | OpenAndMigrate | `Migrations`, at work in `Server` |
| `httpapi` (`internal/httpapi`) | none | routes, pages, cookies | `Handlers`: what each handler takes and gives back; `Pool` runs them |
| conversion, metadata, file names (`internal/books/converter.go`, `metadata.go`, `filename.go`) | none | sequential functions, one external process | no |
| configuration, `main` | none | start-up, shutdown | `Server` |

**Interaction.** Every HTTP request runs in a goroutine of its own and calls
one service. The services share the `*sql.DB`, limited to one connection
(`migrations.go:164`), so a transaction excludes all other statements and a
statement is atomic; but a request is many statements, and between two of them
any other request runs. `books.Service` also writes files, which are not part
of any transaction. The only lock is `publishMu`, held by the edits and the
restoration; uploads, renames, deletion, archiving and downloads do not take
it. Deleting a book deletes its totals and progress rows explicitly, in the
transaction that deletes its row; its revision rows go by `ON DELETE CASCADE`.

**What is hard.** Rows and files change in separate steps, each of which may
fail or be the last one before a crash; operations with and without the lock
interleave on one book; revisions share cover files; the wall clock names
revisions and orders progress, and may repeat or step back; clients retry
reports whose answer was lost, so reports arrive late, twice and out of order;
replies are put together from several reads. Thirty handlers share one
connection, so one that keeps it or asks for it twice stops the server. Edits
rewrite several files of packages whose producers nobody controls. Start-up finds
databases of any age and may end anywhere. `PROJECT.json` lists the hazards
line by line.

**What makes each part correct.**

- books: the book's row and its revision rows agree; no edit is lost; history
  is bounded, up to one revision for each failed call and crash, and only old edits
  are dropped; every current and listed revision
  has its bytes, every listed cover its picture; nothing is left behind;
  requests end.
- reading: each device writes only its own rows; a disabled device writes
  nothing and loses nothing; totals never shrink; the global position is the
  last one received; a reply shows at least what its request wrote.
- auth: no access token comes from a session that has expired, or whose revocation
  was committed before the refresh read it; changing the password ends the sessions
  opened before it.
- epubedit: an accepted edit reads back, title and chapters, when its package is
  opened afresh; an edit changes what it says and nothing else; a refused edit of the
  package document is undone; the row's preview is the cover in the bytes, and every
  publication leaves the title of the bytes in the row. (An upload may get another
  title, and `UpdateDetails` renames the row alone.)
- db and start-up: the schema on record is the schema there is; every book has
  one original revision and every compared time the fixed layout; no start adds
  an account or brings an initial password back.
- httpapi: no request waits for what it holds or keeps it after its end, every
  request is answered, and only verified users get anything done.

## 2. Modules

| Module | What it is |
|---|---|
| `Storage` | `storage.Local` as operators on a set of `[key, text]` objects |
| `Library` | `books.Service`: one book, its revisions, its files; extends `Storage` |
| `LibraryAbs` | the versioned text `books.Service` promises to readers and editors |
| `LibraryProperties` | the properties of `Library`, its inductive invariant, the refinement of `LibraryAbs` |
| `LibraryProofs` | the rows of `Library`: types, `Ledger`, no lost edit |
| `HistoryProofs` | pruning: what it takes and what it leaves |
| `FileProofs` | rows and files where nobody renames, and the refinement of `LibraryAbs` |
| `MCLibrary` | instances for TLC |
| `Reading` | `reading.Service`: devices, progress rows, daily totals |
| `ReadingProperties` | the properties of `Reading` and its inductive invariant |
| `ReadingProofs` | rows, totals and replies of `Reading` |
| `MCReading` | instances for TLC |
| `Workspace` | `epubedit.Workspace` with the steps of `publish` around it |
| `WorkspaceProperties`, `MCWorkspace` | its properties; books to edit |
| `WorkspaceProofs` | theorems about every book and every sequence of edits |
| `Migrations` | `db.RunMigrations` on databases of any age |
| `Auth` | `auth.Service` as interleaved statements |
| `Server` | the process: composes `Migrations` and `Auth` in the order of `main.run` |
| `ServerProperties`, `MCServer` | properties of the three; databases and configurations |
| `ServerProofs` | migrations, accounts, sessions and tokens |
| `Handlers` | every handler of `httpapi` and every service operation as a sequence of steps |
| `Pool` | the one connection and `publishMu` under any mix of those handlers |
| `PoolProperties`, `MCPool` | its properties; the instance |
| `PoolProofs` | what every program keeps true, and that there is no deadlock |
| `Induction` | induction and recursion over numbers, for the other proofs |

Operators whose names end in `Bug` belong to no specification. Each is a
plausible mistake in the definition that follows it, and each property is known
to fail when one of them takes that definition's place.

### Grain of the steps

A database statement, a transaction or a file call is one step. A transaction is
one step because the pool has a single connection, which `BEGIN` takes and
`COMMIT` gives back: no other statement of the process can run in between. A
failing transaction is the alternative of the same action that changes no row.
Everything between two steps is computation on local variables and is merged
into the step before or after it. `Save` writes a temporary file and renames it
(`local.go:34-61`), so a reader sees the old bytes or the new ones and it is one
step too.

### Storage and Library

`Library` follows one book, from its upload to its deletion: identifiers are
random and no statement reads the rows of two books. A *text* abstracts the
bytes of an EPUB: the set of revisions whose edits it contains, and the revision
that last replaced its cover picture. A revision is the instant it was published
at, a natural number.

| Variable | Code |
|---|---|
| `book` | the row of `books`: archived or not, `content_revision`, `storage_key`, `cover_key`; `text` is its checksum |
| `revisions` | the rows of `book_revisions` |
| `objects`, `previews` | EPUB files and cover files in the store |
| `mutex` | `publishMu` |
| `req[r]` | a request: its program counter and the local variables of its handler |
| `drawn` | random object identifiers drawn so far (`newID`) |
| `accepted`, `faults`, `lapses`, `crashes` | how much of the bounds has been used |

| Operation | Actions |
|---|---|
| `Create` | `AcceptCreate`, `CreateSave`, `CreateInsert`, `Undo` |
| `UpdateContentMetadata`, `UpdateChapter`, ... | `AcceptEdit(r, "edit")`, then `publish` |
| `ReplaceContentCover` | `AcceptEdit(r, "cover")`, then `publish` |
| `RestoreRevision` | `AcceptRestore`, `RestoreFind`, `RestoreRead`, then `publish` |
| `publish` | `PublishLock`, `PublishGet`, `PublishMutate`, `PublishSave`, `PublishCover`, `PublishCommit`, `PublishReply`, `Undo` |
| `pruneRevisions` | `PruneSelect`, `PruneRow`, `PruneObject`, `PruneCheck`, `PruneCover` |
| `UpdateDetails` | `AcceptUpdate`, `UpdateGet`, `UpdateRename`, `UpdateCommit`, `UpdateBack` |
| `Delete` | `DeleteGet`, `DeleteList`, `DeleteCommit`, `DeleteSweep` |
| `Archive` | `Archive` |
| `Open`, `GetContent` | `OpenGet`, `OpenRead` |
| the process dies | `Crash`: requests and the mutex are lost, rows and files stay, nothing is repaired |

`pruneRevisions` reads the number of edited revisions to keep from the settings
(`Retention`). When that read fails it goes on with a default of 5
(`DefaultRetention`, a parameter so that small instances meet a setting on either
side of it): `PruneSelect` has a setting that is read, a fault after which the
default counts, and a fault of the selection itself, which ends the prune, or cuts it
to the rows read so far.

`Fault` is a call that returns an error; `Lapse` is a call that fails while an
error path or a prune cleans up, where the code ignores the error. The wall
clock shows any of `Times` at any moment, so it repeats and steps back.

### Reading

| Variable | Code |
|---|---|
| `shelf` | `books.archived_at` and `books.content_revision`, as far as reading looks at them |
| `devices` | table `devices`: disabled or not, and where its display name comes from |
| `progress`, `daily` | tables `reading_progress` and `reading_daily` |
| `clock` | `Service.now`; it may stand still, it does not step back |
| `local` | what a device has read, on the device; not part of the repository |
| `req[r]` | a request with the local variables of `PutProgress` and `GetProgress` |

| Operation | Actions |
|---|---|
| `UpsertDevice`, `RenameDevice`, `DisableDevice` | one action each: one statement whose `WHERE` is the guard |
| `PutProgress` | `AcceptPut`, `PutProgress` (the transaction), then the reads of `GetProgress` |
| `GetProgress` | `AcceptGet`, `ReadBook`, `ReadDevice`, `ReadOwn`, `ReadGlobal`, `Reply` |
| an error, a lost answer, a crash | `Fail` |
| publication, `Archive`, `Delete` of a book | `PublishBook`, `ArchiveBook`, `DeleteBook`: what their transactions do to the rows reading sees |
| a device reads on | `ReadOn`, external |

A report carries absolute totals and may be accepted again and again with the
same or older content relative to other reports under way: repeating, delaying
and reordering reports need no actions of their own. `DeviceActivity`,
`GetDevice`, `ListDevices` and `Dashboard` only read.

### Workspace

One request owns a workspace from `Open` to `Close`, so every exported operation
is one step; what is interleaved with it is in `Library`, where an edit is the set
of revisions it adds. Here the bytes are taken apart instead: a package is its
fixed entries, its other files, and the package document with items, spine, title
and the meta elements that name a cover. Names of files and identifiers of items
are pairs that tell who made them up, the producer of the upload or the server.

| Code | Here |
|---|---|
| `Open`, `extract`, `inspect`, `inspectXHTML` | `Opens`, `Extractable`, `Accepted`, `Harmless`; `OpenWorkspace` |
| `UpdateMetadata`, `UpdateChapter`, `AddChapter`, `DeleteChapter`, `ReorderSpine`, `ReplaceCover` | operators of these names, in the actions `ChangeMetadata`, `ChangeChapter`, `NewChapter`, `RemoveChapter`, `ChangeOrder`, `ChangeCover` |
| `writeOPFAndRefresh` | `WriteDocumentAndRefresh`: a refused document is put back |
| `Rebuild`, and `publish` up to its commit | `Rebuilds`, `Publish` |
| `Close` | `Close` |
| `books.UpdateDetails`, as far as the title in the row goes | `UpdateDetails`, at any time |

`row` is the title and the preview in the row of the book. The title is any at first,
since `Create` takes the one of the form, of the package or of the file's name;
`UpdateDetails` changes it without touching the bytes, and the next publication
overwrites it. A navigation document is a set of links, each with the file it leads
to, the section of that file (`section`) and a label. `rewriteNavigationTitle`
compares files after `safeReference` has dropped the fragment, so `Relabelled` gives
the title of a chapter to the links to its sections too. Only navigation documents of
EPUB 3 are relabelled, as in the code: the NCX of an EPUB 2 is a file like any other.

`ws` is a set with at most one workspace, which holds its files, what the last
successful `inspect` found (`content`), the picture `ReplaceCover` returned, and
`edit`, the last edit and whether it was refused, which only properties and the
client's decision to go on look at. A client goes on after a refused edit that was
undone. `UpdateChapter` and `ReplaceCover` are not undone; `publish` then closes
the workspace, and so does the model (`Usable`). What is not undone is in the model
nevertheless: a new title that cannot be written into some navigation document
leaves the chapter and the navigation documents before that one changed
(`NavigationRead`).

### Migrations, Auth, Server

| Variable | Code |
|---|---|
| `db` | the committed database: versions on record, versions whose tables exist, books, times, original revisions |
| `migration` | the transaction of `RunMigrations`, none or one |
| `users`, `sessions` | the tables; a refresh token is the place of its session |
| `access` | access tokens, which are signed and stored nowhere |
| `now` | `Service.now` |
| `calls[r]` | a request with what it has read: account, session, expiry |
| `phase`, `config`, `starts` | how far `main.run` is, and with which configuration |

| Operation | Actions |
|---|---|
| `RunMigrations` | `BeginMigrations`, `SkipApplied`, `ApplyMigration`, `RecordMigration`, `CommitMigrations`, `AbandonMigrations` |
| `BootstrapAdmin` | `Prepare` (the count), `Bootstrap` (the insert) |
| `Login` | `LoginFind`, `LoginInsert` |
| `Refresh` | `RefreshFind`, `RefreshSign` |
| `Logout` | `Logout` |
| `ChangePassword` behind `requireUser` | `ChangeEnter`, `ChangeFind`, `ChangeCommit` |
| an error, a lost client | `AbandonCall` |
| an error of `run`, a signal, the end of the process | `Stop` |

A stored time is an instant with the layout it is written in, because statements
compare the texts. `revoked` is a flag: `ChangePassword` and `Logout` read the clock
before they wait for the connection, so `revoked_at` may be older than the commit that
stores it, and a token may carry a later time of issue; but nothing in the code ever
reads that value, only whether there is one. What counts is the order of the commits,
and that is what the properties speak of. `raced` in requests, sessions and tokens is read by properties
only: the request had read what a revocation then changed.

### Handlers and Pool

A program is a sequence of steps, and an operation is a set of programs, built
from those of the operations it calls the way the Go code is: `Then` for one
statement after another, `ForEach` for a loop, union for a choice. A statement by
itself takes the connection and gives it back in one step; `rows` and `begin` keep
it until `close`, `commit` or `rollback`; `lock` and `unlock` are `publishMu`;
`file` is everything that needs neither. `Programs` is the set of all a server may
run, one operator per route; the routes of content editing, which the service has
and the handlers have not yet, begin like the others.

`Pool` runs them: `connection` and `publishMu` are held by a slot or nobody,
`todo` is what a request has before it, and `user` whether `VerifyBearer` has let
it pass. `Return` ends an operation at any step with what its deferred calls and
the `Close` of its error paths do. `database/sql` ends a wait for the connection
with the request's context, `sync.Mutex` does not.

## 3. Plan

1. *Done:* `Storage`, `Library`, `LibraryAbs`; `Reading`; their proofs.
2. *Done:* `Workspace`; `Migrations`, `Auth` and `Server`; `Handlers` and `Pool`.
3. *Done:* theorems about every safety property that a run checks, and the
   refinement of `LibraryAbs`.
4. *Left:* `Library` and `Reading` in one model, for the dashboard next to
   deletions.

## 4. Runs

| Run | Instance | Shows |
|---|---|---|
| `lib_publish` | 2 requests, 5 calls, `Times` {1, 3}, retention 1 | the files: every current and listed revision has its bytes, previews follow texts, downloads are whole, and rows and files implement `LibraryAbs` (`VersionedText`) |
| `lib_all` | 2 requests, 4 calls, retention 2, default 1, 1 fault, 1 crash, all operations but restore and open | the rows: `Ledger`, `PublishesOnItsBase`, pruning drops only what it may, with or without the setting, the history is bounded, requests end |
| `lib_alone` | 1 request, 5 calls of all operations, retention 1, default 2, 2 faults, 1 lapse | the error paths: previews of listed revisions stay, nothing is left behind, a failed rename is undone |
| `lib_race_update` | 2 requests, 3 calls | *violation:* `BookRowIsCurrent` |
| `lib_race_restore` | 2 requests, 4 calls | *violation:* `CurrentCoverIsKept` |
| `reading_reports` | 2 requests, 2 devices, 1 book, 1 day, clock to 2, 4 calls | rows and replies of progress synchronization |
| `reading_mismatch` | the same | *violation:* `RepliesAreCoherent` |
| `reading_handoff` | the same | *violation:* `DeviceTimesDecide` |
| `epub_edits` | 8 uploads, 3 edits, 7 entries at most | `EditsReadBack`, `RowMirrorsThePackage`, `PreviewMatchesPackage`, and what an edit may change: `OthersKeepTheirText`, `ChaptersFollowTheEdit`, `NavigationFollowsTitles`, `RefusedEditsAreUndone` |
| `epub_collision` | one more upload | *violation:* `NewChaptersAreCollisionSafe` |
| `server_starts` | 5 databases, 3 configurations, 2 starts, 2 requests, 2 sessions, clock to 3, TTLs 1 and 2 | `SchemaIsRecorded`, `MigratedData`, `RestartKeepsAccounts`, `OldPasswordsOpenNothing`, `AccessEndsWithSession` |
| `pool_requests` | 2 requests at a time, for ever; loops over at most 2 rows | `HolderNeverWaits`, `EndedHoldNothing`, `NothingWithoutUser`, `EveryRequestEnds`, and that there is no deadlock |

**Why the bounds are enough to meet the interesting cases.** Two requests give
every pairwise race of the code; the only lock has two states, and a third
request adds a second waiter. Four calls are an upload and three operations: with
retention 1 the second edit already prunes, with retention 2 the third one does,
while another request is between any two of its steps. Five calls are needed to
restore a revision and then prune the one it came from. In `lib_all` the setting is
larger than the default, so a prune that cannot read it takes rows the setting keeps;
in `lib_alone` it is smaller, so that prune leaves rows the setting would not. Two instants make the
clock run, repeat and step back. In `Reading`, two devices make one row the
newest of several; two readings and four calls let a newer and an older report
of one device and one of the other be under way in every order; clock 2 tells the
moment a report came in from the moment it is recorded.

The uploads of `epub_edits` differ in what can go wrong: EPUB 3 with a
navigation document, which has an entry for a section, and a marked cover; EPUB 2
whose cover a meta element names; an EPUB 2 without metadata
and cover, to which no cover can be added; two chapters in one file; the next chapter's identifier
taken by an item outside the spine; no entry left; two that are never opened.
Titles include the blank one and one with a dollar sign, sources include one
without a head and one too large, pictures two formats and none. Three edits let a
later one meet what an earlier one left, published or not: a cover in a second
format, a number freed by a deletion, a package filled to its limit.

In `server_starts`, the databases are a new one, one with the first two
migrations and short times, the same with a time nobody can parse, and ones with
three and four migrations; the configurations differ in name and password, and
one is refused. Two starts make a restart after every prefix of a start. Two
requests and two sessions meet every race of login, refresh, logout and password
change; the clock passes both expiries.

In `pool_requests`, two requests are a holder and a waiter of each of two
resources. Nothing is bounded in time: requests come for ever. Slots (and devices) are
symmetric in runs that check no liveness.

`CHECK_DEADLOCK FALSE` in every run but `pool_requests`: once the calls, edits or
starts are used up, the instance has nothing left to do. `pool_requests` has no
such bound and TLC looks for deadlocks there; `RequestsEnd` shows for `Library`
that waits for `publishMu` end.

**Why `lib_publish` has no rename, deletion or crash.** `UpdateDetails` does not
take `publishMu`, and the properties about files fail as soon as it runs next to
anything (`lib_race_update`). `lib_all` has it and checks what remains true, the
rows. The theorems about files need no more than that nobody renames: they cover
deletions, crashes and failures too. A crash between a rename and its commit leaves the row naming a file that
has moved; no document promises otherwise and `PROJECT.json` lists it as a hazard
without a property.

**What the violations show.**

- `BookRowIsCurrent`: one `UpdateDetails` keeps the file name (it changes the
  title) and has read the book's key; another one renames the file and commits;
  then the first one writes the old key back into the row, which now names a file
  that is not there. The same happens next to a publication, whose key is
  overwritten. The design document says that the row continues to reference the
  current storage key.
- `CurrentCoverIsKept`: `RestoreRevision` reads a revision, a publication prunes
  that revision and its cover object, and the restoration publishes a cover key
  without an object. The revision tests insist that the shared cover is kept.
- `RepliesAreCoherent`: `GetProgress` takes `contentRevision` from one statement
  and the mismatch flags from later ones.
- `DeviceTimesDecide`: `docs/HANDOFF.md:95` says that conflict resolution compares
  device-supplied timestamps. `PutProgress` stores the time stamp and compares nothing,
  so a delayed report replaces a row its device stamped later. The reading design
  document (line 94) says that client clocks never decide, as the code does.
- `NewChaptersAreCollisionSafe`: `AddChapter` numbers a chapter after the
  identifiers in the spine only. A book with a file `text/added-3.xhtml` under
  another identifier loses that text, and both items show the new chapter. The
  design document promises collision-safe references. `epub_edits` leaves such
  uploads out, since `OthersKeepTheirText` fails on them for this reason.

## 5. Fairness

Only `RequestsEnd`, and `EveryRequestEnds` of `Pool`, need it. `FairSpec` of `Library` assumes
that a goroutine that can run does (`WF` of the steps of each request) and that a
goroutine waiting for `publishMu` gets it if it becomes free again and again
(`SF` of `PublishLock`): after a millisecond of waiting a Go mutex is in
starvation mode and is handed over in order of arrival. Nothing is assumed about
clients, failures or crashes.

`FairSpec` of `Pool` assumes that a request that can go on again and again does
(`SF` of `Advance(s)`). For the lock the reason is the same. For the connection it
is that `database/sql` hands one that comes back to a request that waits for it,
the eldest or one picked at random depending on its version, and to no newcomer:
a request that waits while others come and go gets it, with probability one.

## 6. Proofs

TLAPS checks the theorems for every set of requests, devices, books and days,
every retention and every bound. They rest on the named assumptions of the
modules: the bounds are natural numbers, the retention and its default are numbers
`pruneRevisions` accepts (1 to 100), instants are positive, and `NoRequest` is no request.

**Library** (`LibraryProofs`). `Ledger` says that the book's row and its revision
rows agree, `PublishesOnItsBase` that nobody moves the book between the check of
a publication and its commit. Neither is inductive. `RowsAgree` adds what the
code relies on without saying so, one conjunct for each reliance:

- `LockHeld(r)`: from its first read to its last deletion, `publish` holds
  `publishMu`. Without it two publications could both have passed the check.
- `ReadIsCurrent(r)`: the row `publish` has read is current until it commits, and
  what it committed is current until it unlocks. The new revision is later than
  the current one only because of this, and pruning spares the current revision
  only because of it.
- `UploadIsFirst(r)`: an insert runs on no row, everything else on a row, so
  there is exactly one original.
- `OneUpload`: a book is uploaded once.

`RowsAgreeStep` has one case per group of actions. Actions that change no rows
are dealt with by lemmas about where a request may go (`Moves...`, `Goto...`);
`OthersStayProper` shows that a step of one request keeps `Proper` of the others,
which comes down to there being one holder of the lock. Renames and deletions,
which take no lock, never change `content_revision`, and the proof shows where
that is used. `LedgerIsConsistent` and `NoLostEdit` follow. `DutyIsKept` says which
operations can be at which steps; the modules about files rest on it.

**Reading** (`ReadingProofs`). `RowChanges` and `Onward` say what one step can do
to the rows: a report is recorded, a book is deleted, or nothing; and the clock,
what devices have read, disabled devices and chosen names never go back. The
action properties are consequences of these and of the inductive invariant
`RowsWereReported`: a total needs the row of its pair (`TotalsBelongToProgress`);
no row carries a time the clock has not shown (`NotFromTheFuture`), which makes a
new row the newest; neither a total (`TotalsWereRead`) nor a report under way
(`ReportsWereRead`) exceeds what its device has read. The last one is needed
because a report waits between its acceptance and its transaction.

Replies take one more invariant, `RepliesAreBacked`. Between the statements of a
reply others may write and delete, so what an early statement found has to outlast
their steps: `Covered(b, d, t)` says that the pair has a row of time `t` or later as
long as the book is kept. It is stable because a row is only replaced by one that
carries the present time, which is not before `t` (`NotFromTheFuture`), and only
removed with its book. `BooksHaveRows` says that a book with rows has a newest one,
so the statement that looks for it finds what the statement before it has found, or
something later.

**History** (`HistoryProofs`). `HistoryInv` counts revisions and not rows: a rename,
which takes no lock, may give a row another key in the middle of a prune, and it is
another element of `revisions` then. Its conjuncts follow a prune from its select to its last file:

- `Spares`: what the prune still has to take away is older than as many edited
  revisions that it leaves as are `Owed`: `Retention`, and the lesser of it and the
  default (`Floor`) once a call has failed, which may have been the reading of the
  setting. The set of these is a witness that later steps keep.
- `KeepsUp`: without what it still has to take away the history is short enough.
- `RowIsGone`: the files of a row go after the row.
- `Size`: a publication that has committed and not unlocked accounts for one
  revision too many, a failed call and a crash for one each.

`HistoryStaysBounded` is `Size` when no publication is under way, `OnlyOldRowsGo`
comes from `Spares`.

*Previews* (same module). `PreviewsStayKept` has as hypothesis `RestoresRunAlone`:
while a request restores, no other one edits. `lib_race_restore` shows why. Edits may
run beside each other, and renames, deletions, failed calls and crashes beside
everything. `PreviewInv` says that every listed cover is there, that what a
restoration has read is there until it is published, that a new preview is there
before its row and is nobody else's, and that the covers a prune is about to delete
are no row's and no reader's.

*Orphans* (same module). `NothingIsOrphaned` has two hypotheses. `WritesKeepApart`:
a rename runs beside nothing that writes, a deletion beside no publication. Without
the first a file may be renamed to a key that no row names in the end; without the
second a publication that commits after the deletion has listed what to remove loses
its row and not its files.
`CrashesSpareWrites`: the process does not die while a request writes; a crash
after a `Save` leaves a file that nothing ever removes (section 7).
The invariant `TidyInv` gives every file an owner: a row, or a request that will
still delete it, make it a row's, or rename it to a row's (`ClaimsKey`,
`ClaimsCover`). At rest only rows are left. Failed calls are no hypothesis, except
those of clean-ups, which the property itself leaves out (`lapses = 0`).

**Files** (`FileProofs`). All theorems of this module but the last have the hypothesis
`NobodyRenames`, that is, they are about instances without the operation `update`.
Without it they are false: `lib_race_update` shows that a row may name bytes that
are not there. Everything else may happen, deletions, failed calls and crashes
included. An *edition* is a key with the text that belongs under it; those known are
the rows' and the ones requests have read from rows and still act on (`Remembers`).
`FileInv` says

- of the store: under a known key there is nothing but the known text (`Genuine`),
  every row has its bytes (`RowsHold`), no two rows share a directory (`KeysDiffer`), and
  the book's row names a listed revision (`BookIsListed`);
- of a request: the directory of an entry it is about to insert is nobody else's, which
  random directories give (`Fresh`); what it prunes has no row but its own
  (`Leaves`); what it has read is the current row or an older one (`Seen`).

Pruning a file needs `HistoryInv`: the row has gone before (`RowIsGone`), so no
listed revision loses its bytes. `CurrentStaysReadable`, `HistoryStaysReadable` and
`DownloadsAreWhole` follow. For `PreviewsFollowTexts` a cover is a number that has
been drawn and a picture the revision that brought it; `Matching` says that the
pairs of cover and picture that are shown are one-to-one, `Matches` that what is
being published would keep them so. A restoration is the hard case: the pair it
brings back was read before it had the lock, and its revision may be gone.

**The versioned text** (same module). `LibraryIsVersionedText` is
`Spec => VersionedText`, the refinement of `LibraryAbs` that `lib_publish` checks.
The mapping keeps as past revisions those listed and those a restoration has read,
so `TextInv` is about what requests have read: a revision read to be restored has its
row, or at least `Floor` newer edited ones are there and pruning may have taken
it (`Recallable`); what is being published continues the current text or brings one
back (`Continues`); an upload's text is blank (`UploadIsBlank`). Every step either

- only takes away (`Fades`): a prune, the end of a restoration, a deletion, an
  archiving, a crash. It is `Forget`, `Withdraw` or a stutter. For `Forget` the
  rows that are left must be counted as past revisions, by an injection of rows
  into `past`, which is finite since requests that restore are
  (`RestorersStayFinite`);
- or is the commit of an upload (`Arrives`), which is `Upload`;
- or is the commit of a publication (`Appears`), which is `Edit` or `Restore`.

**Renames** (`FileProofs`, last part). `RestStaysReadable` allows them:
`RenamesRunAlone` lets a rename run beside no other rename and no edit, and
`CrashesSpareRenames` lets no crash cut one short. Both are needed, as
`lib_race_update` and the hazard of `service.go:317` show; deletions, archivings
and downloads may run beside a rename, and without one everything may. The
invariant `RestInv` is `FileInv` while nobody renames, and `Renaming(r)` while `r`
does: the bytes of the current revision are under the row's key, or under the new
one and `r` will write that key into the row or move them back. `FileInv` speaks of
the directory of a key for this reason, which a rename does not change. In
`lib_alone`, with one request and no crash, these hypotheses and those of *previews*
and *orphans* hold by themselves.

**Workspace** (`WorkspaceProofs`). One inductive invariant upon the other.

- `WorkspaceInv` needs of the uploads only that they have the shape the ZIP reader
  and the XML decoder give them. Its core is `Good`: what the workspace knows of its
  chapters is true of its document, and the document is one that `inspect` can list.
  It holds in workspaces after refused edits too. `EditsAlwaysReadBack`,
  `PublicationsMirrorThePackage`, `WorkspacesAreTyped`, `ChaptersAlwaysFollow` and
  `AddedNumberIsFree` follow.
- `BodiesInv`, what is in the files, needs no more. `NavigationAlwaysFollows` follows:
  in an accepted package every navigation document is there, so the relabelling
  reaches every entry that leads into the chapter's file, sections included.
- `NamesInv` is about names of files, and has the hypothesis `UploadsArePlaced`: no
  upload that opens has a file with a name `AddChapter` makes up, unless it is a
  chapter of that name. `epub_collision` shows why it is needed. `RefusedEditsUndone`
  and `NewNamesAreFree`, the sentence of the design document for these books, rest
  on it.
- `CoverInv` is about the picture, and has the hypothesis `UploadsShowOneCover`:
  `ReplaceCover` changes the first item it takes for the cover, while a reader may
  take any item so marked or named, so `PreviewsMatchPackages` is false of a package
  that names two. That no other edit changes the picture's file comes from `inspect`,
  which refuses a picture as a chapter.
- `OthersInv` is about the chapters an edit is not about. `OthersAlwaysKept` has the
  hypotheses `UploadsArePlaced` and `UploadsKeepCoversApart`: no chapter has the file
  of a cover or a name `ReplaceCover` makes up, and no meta element names as the
  cover what `AddChapter` will add. Without any of the three parts of the latter a
  new cover overwrites a chapter. A chapter that shares its file with the one that is
  updated is not left alone, and the property does not say so.

The uploads of `epub_edits` satisfy all three hypotheses, and the five invariants
hold in every state of that instance.

**Server** (`ServerProofs`). `MigrationInv` ties the working copy of the
transaction to how far it is: it has the versions before its own, one more schema
while a version waits to be recorded, and is well-formed after every statement. It
needs that a database an older build left has an unbroken sequence of versions on
record with their schemas, and is well-formed (`LegacyAssumption`): each build
applied its migrations in one transaction, in order. The second invariant says that
what a request has read still holds unless it is `raced`, that requests run only
while the server serves, and that it serves only with an account.

**Pool** (`PoolProofs`). A request stands in one of five states, for what it holds:
not verified, verified, with the connection, with the lock, with both. `Goes` says
which step leads from which state to which; asking for the connection is in place
only without it. The programs of `Handlers` are then checked like types, one lemma
for each operator that builds programs (`Then`, `ForEach`, ...) and one for each
operation. The inductive invariant `IInv` is that what every request has left leads
from where it stands to an end at which it holds nothing. `NoDeadlock` names who can
go on: the holder of the connection, else the holder of `publishMu`, else anybody.

**Induction.** The provers cannot use an induction rule that takes a formula.
`Induction` states it about sets of numbers and derives it, and that functions
defined by recursion have their equations, from the well-foundedness of strict
inclusion between finite sets. `ForEach` and `AddChapter`'s search use it.

**Assumptions.** Beside those named above: identifiers and "nobody" are not requests
or slots (`NoRequestAssumption`, `PoolAssumption`), the clock's instants are positive
(`TimesAssumption`), times to live are positive (`AuthAssumption`), a title may be
blank (`WorkspaceAssumption`), a file has the parts the model tells apart
(`SourcesAssumption`, `UploadsAssumption`), bounds are natural numbers. TLC evaluates
all of them on the instances.

**Only model-checked.** Liveness: `RequestsEnd` and `EveryRequestEnds`. The provers here have no rule for
fairness: they do not deal with `ENABLED`.

## 7. What is not modelled

- Titles, authors, file names as users see them, change summaries, checksums as
  numbers, media types and sizes. `content_index_key` is written nowhere.
- The temporary `.upload-*` file a crash inside `Save` leaves behind.
- Conversion (an external process), metadata extraction and file names
  (`converter.go`, `metadata.go`, `filename.go`): sequential functions on bytes and
  strings without state. A conversion is a `file` step of `Handlers`.
- In `Reading`: validation of locators, the date window of totals, percentages,
  sums and the dashboard; a wall clock that steps back (the row received last is
  then not the newest).
- In `Workspace`: the text of markup. A chapter passes the checks or not, has a
  head or not, is too large or not; a title with a dollar sign loses what the
  regular expression takes for a group, and the malformed markup that may result
  is left out. Relations that remain in a manifest to a deleted item, like the meta
  element of a deleted cover, are not looked at.
- In `httpapi`: request bodies, pages, cookies and shutdown's wait for requests.
- In `Auth`: two password changes with the same current password both succeed,
  since the update does not compare the hash it has read; no property speaks of it.
- In `Migrations`: a database with an unreadable time cannot be opened at all; the
  model shows that it stays as it is, and nothing promises more.
- A connection the pool replaces: `PRAGMA foreign_keys` is issued once, so a new
  connection would not cascade. Watchers inside `database/sql` that roll back
  after a cancellation are part of `Return`.

Seen while reading, and without a run: the EPUB design document (line 151) promises
a cleanup of abandoned workspaces and unreferenced objects; the code has none, so an
object saved before a crash stays for ever. It says (line 42) that the number of
revisions kept is configurable; a prune that cannot read the setting falls back to 5,
and `OnlyOldRowsArePruned` allows that. The row's title mirrors the package (line 93)
only from a publication to the next `UpdateDetails`. `Login` may insert a session after
`ChangePassword` has revoked all of them; `OldPasswordsOpenNothing` leaves exactly
these out. `CHANGELOG.md` says that the web sign-out revokes the refresh session,
and that books are archived instead of deleted; `webLogout` only clears the cookie
(the session's refresh token was never given to anybody), and `archiveBook` calls
`Delete`. `Dashboard` reads the newest progress
and then the title of its book, which may be gone.
