----------------------------- MODULE Migrations -----------------------------
(***************************************************************************)
(* db.RunMigrations: bring the database an older build has left up to the  *)
(* schema of this one, in a single transaction.                            *)
(*                                                                         *)
(* A text is what a column with a time holds: the instant, and the layout  *)
(* it is written in.  Texts are compared as texts, so that only those in   *)
(* the fixed layout are in the order of their instants.                    *)
(***************************************************************************)
EXTENDS Integers, Sequences, FiniteSets

CONSTANTS
  LegacyDatabases   \* what older builds may have left

VARIABLES
  db,               \* what is committed
  migration         \* the transaction of RunMigrations: none or one

migrationVars == <<db, migration>>

Versions == 1..5

\* CREATE TABLE IF NOT EXISTS can be repeated; ALTER TABLE ADD COLUMN and the
\* plain CREATE TABLE of later versions cannot.
Repeatable == {1, 2}

NoText == [layout |-> "none", at |-> 0]
Fixed(instant) == [layout |-> "fixed", at |-> instant]

\* One time in one row; a column that is NULL or empty has no stamp.
Stamp(column, row, text) == [column |-> column, row |-> row, text |-> text]

ReadingColumns ==
  {"reading_progress.updated_at", "reading_progress.client_updated_at", "reading_daily.updated_at"}

DeviceColumns ==
  {"devices.last_seen_at", "devices.created_at", "devices.updated_at", "devices.disabled_at"}

BookColumns == {"books.created_at", "books.updated_at", "books.archived_at"}

\* The columns with a time that a statement compares or orders by.
TimeColumns == BookColumns \cup DeviceColumns \cup ReadingColumns

NormalizedColumnsBug == DeviceColumns \cup ReadingColumns

\* normalizeMigrationThreeTimes
NormalizedColumns == BookColumns \cup DeviceColumns \cup ReadingColumns

\* time.Parse with the layout RFC3339Nano
Readable(text) == text.layout # "unreadable"

Normalizable(data) ==
  \A stamp \in data.stamps : stamp.column \in NormalizedColumns => Readable(stamp.text)

\* normalizeTimeColumn, for every column.
Normalized(data) ==
  [data EXCEPT !.stamps =
    {IF stamp.column \in NormalizedColumns THEN [stamp EXCEPT !.text = Fixed(stamp.text.at)]
     ELSE stamp : stamp \in data.stamps}]

\* UPDATE books SET content_revision = ? WHERE content_revision = ''
Backfilled(data, time) ==
  [data EXCEPT !.books =
    {IF book.revision = NoText THEN [book EXCEPT !.revision = Fixed(time)] ELSE book
       : book \in data.books}]

CreatedAt(data, id) ==
  (CHOOSE stamp \in data.stamps : stamp.column = "books.created_at" /\ stamp.row = id).text

\* INSERT INTO book_revisions ... SELECT ... FROM books
WithOriginals(data) ==
  [data EXCEPT !.originals = @ \cup
    {[book |-> book.id, revision |-> book.revision, created |-> CreatedAt(data, book.id)]
       : book \in data.books}]

\* The SQL of one migration, and for version 3 what RunMigrations does after it.
CanApply(data, version) ==
  /\ version \in data.schema => version \in Repeatable
  /\ version = 3 => Normalizable(data)

AppliedTo(data, version, time) ==
  LET new == [data EXCEPT !.schema = @ \cup {version}] IN
  CASE version = 3 -> Normalized(Backfilled(new, time))
    [] version = 4 -> WithOriginals(new)
    [] OTHER -> new

\* INSERT INTO schema_migrations
RecordedIn(data, version) == [data EXCEPT !.recorded = @ \cup {version}]

-----------------------------------------------------------------------------

\* The tables keep what their statements and constraints promise: ids are
\* unique, a book has the time it was created at, books have revisions and times
\* are fixed from version 3 on, and from version 4 on every book has one original.
WellFormed(data) ==
  /\ data = [recorded |-> data.recorded, schema |-> data.schema,
             books |-> data.books, stamps |-> data.stamps, originals |-> data.originals]
  /\ \A book, other \in data.books :
       /\ book = [id |-> book.id, revision |-> book.revision]
       /\ book.id = other.id => book = other
       /\ \E stamp \in data.stamps : stamp.column = "books.created_at" /\ stamp.row = book.id
  /\ \A stamp \in data.stamps :
       stamp.column \in TimeColumns /\ stamp = Stamp(stamp.column, stamp.row, stamp.text)
  /\ 3 \in data.schema =>
       /\ \A stamp \in data.stamps : stamp.text.layout = "fixed"
       /\ \A book \in data.books : book.revision.layout = "fixed"
       /\ \A original \in data.originals : original.created.layout = "fixed"
  /\ 3 \notin data.schema => \A book \in data.books : book.revision = NoText
  /\ 4 \in data.schema =>
       \A book \in data.books :
         \E original \in data.originals :
           /\ original.revision = book.revision
           /\ \A other \in data.originals : other.book = book.id <=> other = original
  /\ 4 \notin data.schema => data.originals = {}

\* Every build records the migrations it has applied, in their order, and none
\* of them without its schema.
ASSUME LegacyAssumption ==
  \A data \in LegacyDatabases :
    /\ WellFormed(data)
    /\ data.schema = data.recorded
    /\ \E version \in 0..5 : data.recorded = 1..version

MigrationsInit ==
  /\ db \in LegacyDatabases
  /\ migration = {}

\* SELECT version FROM schema_migrations
appliedMigrations(data) == data.recorded

\* BeginTx, and what is read first in it.
BeginMigrations(time) ==
  /\ migration = {}
  /\ migration' = {[data |-> db, applied |-> appliedMigrations(db), version |-> 1, recording |-> FALSE, time |-> time]}
  /\ UNCHANGED db

SkipApplied ==
  \E m \in migration :
    /\ m.version \in m.applied /\ ~m.recording
    /\ migration' = {[m EXCEPT !.version = @ + 1]}
    /\ UNCHANGED db

ApplyMigration ==
  \E m \in migration :
    /\ m.version \in Versions \ m.applied /\ ~m.recording
    /\ CanApply(m.data, m.version)
    /\ migration' = {[m EXCEPT !.data = AppliedTo(@, m.version, m.time), !.recording = TRUE]}
    /\ UNCHANGED db

RecordMigration ==
  \E m \in migration :
    /\ m.recording
    /\ migration' = {[m EXCEPT !.data = RecordedIn(@, m.version), !.version = @ + 1, !.recording = FALSE]}
    /\ UNCHANGED db

MigrationStep == SkipApplied \/ ApplyMigration \/ RecordMigration

CommitMigrations ==
  \E m \in migration :
    /\ m.version \notin Versions
    /\ db' = m.data
    /\ migration' = {}

AfterErrorBug(committed, working) == working

\* The deferred Rollback; a process that dies leaves the same behind.
AfterError(committed, working) == committed

AbandonMigrations ==
  /\ db' = IF migration = {} THEN db ELSE AfterError(db, (CHOOSE m \in migration : TRUE).data)
  /\ migration' = {}
=============================================================================
