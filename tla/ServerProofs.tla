---------------------------- MODULE ServerProofs ----------------------------
(***************************************************************************)
(* Proofs about Server, for every set of databases older builds may have   *)
(* left, every set of configurations, passwords and requests, all TTLs and *)
(* bounds.                                                                 *)
(*                                                                         *)
(* Two inductive invariants.  MigrationInv is about the database and the   *)
(* transaction that upgrades it: how far the transaction is says which     *)
(* versions its working copy has, and the copy is well-formed after each   *)
(* statement.  IInv is about the account, its sessions and the requests:   *)
(* what a request has read still holds unless the request is raced.        *)
(***************************************************************************)
EXTENDS ServerProperties, FiniteSetTheorems, TLAPS

\* What is committed has its schema on record.
Recorded(data) == data.schema = data.recorded /\ \E version \in 0..5 : data.recorded = 1..version

\* The transaction has applied the versions before its own, and not recorded
\* more than it has applied.
Advanced(m) ==
  /\ m = [data |-> m.data, applied |-> m.applied, version |-> m.version,
          recording |-> m.recording, time |-> m.time]
  /\ WellFormed(m.data)
  /\ m.applied = db.recorded /\ m.version \in 1..6 /\ m.recording \in BOOLEAN
  /\ m.recording => m.version \in Versions \ m.applied
  /\ m.data.recorded = {k \in Versions : k \in m.applied \/ k < m.version}
  /\ m.data.schema = m.data.recorded \cup (IF m.recording THEN {m.version} ELSE {})

\* The committed database, its transaction, and how far the process is.
MigrationInv ==
  /\ WellFormed(db) /\ Recorded(db)
  /\ migration = {} \/ \E m \in migration : migration = {m} /\ Advanced(m)
  /\ phase \in {"down", "migrating", "preparing", "bootstrapping", "serving"}
  /\ phase # "migrating" => migration = {}
  /\ phase \in {"preparing", "bootstrapping", "serving"} => db.recorded = Versions

\* What accounts, sessions, tokens and requests consist of.
AnyPassword == Passwords \cup {c.password : c \in Configs} \cup {None}

Users == [name : {c.name : c \in Configs}, password : AnyPassword]
Sessions == [password : AnyPassword, raced : BOOLEAN, expires : Int, revoked : BOOLEAN]
Tokens == [session : Nat, expires : Int, secret : {c.secret : c \in Configs},
           raced : BOOLEAN, alive : BOOLEAN]
CallStates ==
  [pc : {"idle", "loginInsert", "refreshSign", "changeFind", "changeCommit"},
   password : AnyPassword, session : Nat, expires : Int, since : Nat, raced : BOOLEAN]

AuthTyped ==
  /\ users \in SUBSET Users /\ \A user, other \in users : user = other
  /\ sessions \in Seq(Sessions)
  /\ access \in SUBSET Tokens
  /\ now \in Nat \ {0}
  /\ calls \in [Requests -> CallStates]

\* Requests only run while the server serves, which has an account by then.
Phases ==
  /\ phase \in {"down", "migrating", "preparing", "bootstrapping", "serving"}
  /\ phase # "serving" => calls = AllIdle
  /\ phase = "bootstrapping" => users = {}
  /\ phase = "serving" => users # {}
  /\ users = {} => sessions = << >>
  /\ phase # "down" => config \in Configs

\* A session that is not revoked, and a login about to insert one, go with the
\* password the account has.
PasswordsInv ==
  /\ \A s \in DOMAIN sessions :
       ~sessions[s].revoked /\ ~sessions[s].raced =>
         \A user \in users : user.password = sessions[s].password
  /\ \A r \in Requests :
       calls[r].pc = "loginInsert" /\ ~calls[r].raced =>
         \A user \in users : user.password = calls[r].password

\* Tokens are issued while their session lives; so is the one of a refresh that
\* has found its session, unless it is raced.
TokensInv ==
  /\ \A token \in access :
       /\ token.session \in DOMAIN sessions
       /\ token.expires - AccessTTL < sessions[token.session].expires
       /\ token.expires - AccessTTL <= now
       /\ token.alive \/ token.raced
  /\ \A r \in Requests :
       calls[r].pc = "refreshSign" =>
         /\ calls[r].session \in DOMAIN sessions
         /\ calls[r].expires = sessions[calls[r].session].expires
         /\ ~calls[r].raced => ~sessions[calls[r].session].revoked

-----------------------------------------------------------------------------
(* Migrations.                                                             *)

LEMMA Updated ==
  ASSUME NEW data, WellFormed(data), NEW x
  PROVE  /\ [data EXCEPT !.schema = x] =
              [recorded |-> data.recorded, schema |-> x, books |-> data.books,
               stamps |-> data.stamps, originals |-> data.originals]
         /\ [data EXCEPT !.recorded = x] =
              [recorded |-> x, schema |-> data.schema, books |-> data.books,
               stamps |-> data.stamps, originals |-> data.originals]
BY DEF WellFormed

\* The two halves of version 3.
FilledBook(book, time) == IF book.revision = NoText THEN [book EXCEPT !.revision = Fixed(time)] ELSE book

NormalizedStamp(stamp) ==
  IF stamp.column \in NormalizedColumns THEN [stamp EXCEPT !.text = Fixed(stamp.text.at)] ELSE stamp

FilledBooks(books, time) == {FilledBook(book, time) : book \in books}

NormalizedStamps(stamps) == {NormalizedStamp(stamp) : stamp \in stamps}

LEMMA NormalizedData ==
  ASSUME NEW rec, NEW sch, NEW books, NEW stamps, NEW originals, NEW time
  PROVE  Normalized(Backfilled([recorded |-> rec, schema |-> sch, books |-> books,
                                stamps |-> stamps, originals |-> originals], time)) =
         [recorded |-> rec, schema |-> sch, books |-> FilledBooks(books, time),
          stamps |-> NormalizedStamps(stamps), originals |-> originals]
<1> DEFINE data == [recorded |-> rec, schema |-> sch, books |-> books, stamps |-> stamps, originals |-> originals]
           done == [recorded |-> rec, schema |-> sch, books |-> FilledBooks(books, time),
                    stamps |-> stamps, originals |-> originals]
<1>1. data.books = books /\ \A x : [data EXCEPT !.books = x] =
        [recorded |-> rec, schema |-> sch, books |-> x, stamps |-> stamps, originals |-> originals]
  OBVIOUS
<1>2. Backfilled(data, time) = [data EXCEPT !.books = FilledBooks(books, time)]
  <2> HIDE DEF data
  <2> QED
    BY <1>1 DEF Backfilled, FilledBooks, FilledBook
<1>3. Backfilled(data, time) = done
  BY <1>1, <1>2
<1>4. done.stamps = stamps /\ \A x : [done EXCEPT !.stamps = x] =
        [recorded |-> rec, schema |-> sch, books |-> FilledBooks(books, time), stamps |-> x, originals |-> originals]
  OBVIOUS
<1> HIDE DEF data, done
<1>5. Normalized(done) = [done EXCEPT !.stamps = NormalizedStamps(stamps)]
  BY <1>4 DEF Normalized, NormalizedStamps, NormalizedStamp
<1>6. QED
  BY <1>3, <1>4, <1>5 DEF data

LEMMA SchemaOnly ==
  ASSUME NEW data, WellFormed(data), NEW sch, 3 \in sch <=> 3 \in data.schema, 4 \in sch <=> 4 \in data.schema
  PROVE  WellFormed([data EXCEPT !.schema = sch])
<1> DEFINE new == [recorded |-> data.recorded, schema |-> sch, books |-> data.books,
                   stamps |-> data.stamps, originals |-> data.originals]
<1>1. /\ new.recorded = data.recorded /\ new.schema = sch /\ new.books = data.books
      /\ new.stamps = data.stamps /\ new.originals = data.originals
      /\ new = [recorded |-> new.recorded, schema |-> new.schema, books |-> new.books,
                stamps |-> new.stamps, originals |-> new.originals]
  OBVIOUS
<1> HIDE DEF new
<1>2. WellFormed(new)
  BY <1>1 DEF WellFormed
<1>3. QED
  BY <1>2, Updated DEF new

LEMMA RecordedOnly ==
  ASSUME NEW data, WellFormed(data), NEW rec
  PROVE  /\ WellFormed([data EXCEPT !.recorded = rec])
         /\ [data EXCEPT !.recorded = rec].recorded = rec
         /\ [data EXCEPT !.recorded = rec].schema = data.schema
<1> DEFINE new == [recorded |-> rec, schema |-> data.schema, books |-> data.books,
                   stamps |-> data.stamps, originals |-> data.originals]
<1>1. /\ new.recorded = rec /\ new.schema = data.schema /\ new.books = data.books
      /\ new.stamps = data.stamps /\ new.originals = data.originals
      /\ new = [recorded |-> new.recorded, schema |-> new.schema, books |-> new.books,
                stamps |-> new.stamps, originals |-> new.originals]
  OBVIOUS
<1> HIDE DEF new
<1>2. WellFormed(new)
  BY <1>1 DEF WellFormed
<1>3. QED
  BY <1>1, <1>2, Updated DEF new

LEMMA BookIsFilled ==
  ASSUME NEW book, book = [id |-> book.id, revision |-> book.revision], book.revision = NoText, NEW time
  PROVE  FilledBook(book, time) = [id |-> book.id, revision |-> Fixed(time)]
BY DEF FilledBook

LEMMA StampIsNormalized ==
  ASSUME NEW stamp, stamp = Stamp(stamp.column, stamp.row, stamp.text), stamp.column \in NormalizedColumns
  PROVE  NormalizedStamp(stamp) = Stamp(stamp.column, stamp.row, Fixed(stamp.text.at))
BY DEF Stamp, NormalizedStamp

\* Version 3 rewrites every column with a time.
LEMMA AllColumns == NormalizedColumns = TimeColumns
BY DEF NormalizedColumns, TimeColumns

LEMMA ThirdIsWellFormed ==
  ASSUME NEW data, WellFormed(data), 3 \notin data.schema, 4 \notin data.schema,
         NEW sch, 3 \in sch, 4 \notin sch, NEW time
  PROVE  LET new == Normalized(Backfilled([data EXCEPT !.schema = sch], time))
         IN  WellFormed(new) /\ new.schema = sch /\ new.recorded = data.recorded
<1> DEFINE B(book) == FilledBook(book, time)
           T(stamp) == NormalizedStamp(stamp)
           books == FilledBooks(data.books, time)
           stamps == NormalizedStamps(data.stamps)
           new == [recorded |-> data.recorded, schema |-> sch, books |-> books,
                   stamps |-> stamps, originals |-> data.originals]
<1>1. Normalized(Backfilled([data EXCEPT !.schema = sch], time)) = new
  <2>1. [data EXCEPT !.schema = sch] =
          [recorded |-> data.recorded, schema |-> sch, books |-> data.books,
           stamps |-> data.stamps, originals |-> data.originals]
    BY Updated
  <2>2. QED
    BY <2>1, NormalizedData
<1>2. ASSUME NEW book \in data.books
      PROVE  B(book) = [id |-> book.id, revision |-> Fixed(time)]
  BY BookIsFilled DEF WellFormed
<1>3. ASSUME NEW stamp \in data.stamps
      PROVE  T(stamp) = Stamp(stamp.column, stamp.row, Fixed(stamp.text.at)) /\ stamp.column \in NormalizedColumns
  BY StampIsNormalized, AllColumns DEF WellFormed
<1>4. /\ new.recorded = data.recorded /\ new.schema = sch /\ new.books = books
      /\ new.stamps = stamps /\ new.originals = data.originals
      /\ new = [recorded |-> new.recorded, schema |-> new.schema, books |-> new.books,
                stamps |-> new.stamps, originals |-> new.originals]
  OBVIOUS
<1> HIDE DEF new
<1>5. ASSUME NEW book \in books
      PROVE  /\ book = [id |-> book.id, revision |-> book.revision] /\ book.revision.layout = "fixed"
             /\ \E old \in data.books : book = B(old) /\ book.id = old.id
  <2>1. PICK old \in data.books : book = B(old)
    BY DEF FilledBooks
  <2>2. book = [id |-> old.id, revision |-> Fixed(time)]
    BY <2>1, <1>2
  <2>3. book.id = old.id /\ book.revision = Fixed(time) /\ book = [id |-> book.id, revision |-> book.revision]
    BY <2>2
  <2>4. Fixed(time).layout = "fixed"
    BY DEF Fixed
  <2>5. QED
    BY <2>1, <2>3, <2>4
<1>6. ASSUME NEW stamp \in stamps
      PROVE  /\ stamp = Stamp(stamp.column, stamp.row, stamp.text)
             /\ stamp.column \in NormalizedColumns /\ stamp.text.layout = "fixed"
  <2>1. PICK old \in data.stamps : stamp = T(old)
    BY DEF NormalizedStamps
  <2>2. stamp = Stamp(old.column, old.row, Fixed(old.text.at)) /\ old.column \in NormalizedColumns
    BY <2>1, <1>3
  <2>3. stamp.column = old.column /\ stamp.row = old.row /\ stamp.text = Fixed(old.text.at)
    BY <2>2 DEF Stamp
  <2>4. QED
    BY <2>2, <2>3 DEF Fixed
<1>7. ASSUME NEW book \in books
      PROVE  \E stamp \in stamps : stamp.column = "books.created_at" /\ stamp.row = book.id
  <2>1. PICK old \in data.books : book = B(old) /\ book.id = old.id
    BY <1>5
  <2>2. PICK stamp \in data.stamps : stamp.column = "books.created_at" /\ stamp.row = old.id
    BY DEF WellFormed
  <2>3. T(stamp) \in stamps /\ T(stamp) = Stamp(stamp.column, stamp.row, Fixed(stamp.text.at))
    BY <1>3 DEF NormalizedStamps
  <2>4. T(stamp).column = stamp.column /\ T(stamp).row = stamp.row
    BY <2>3 DEF Stamp
  <2>5. QED
    BY <2>1, <2>2, <2>3, <2>4
<1>8. ASSUME NEW book \in books, NEW other \in books, book.id = other.id
      PROVE  book = other
  <2>1. PICK a \in data.books : book = B(a) /\ book.id = a.id
    BY <1>5
  <2>2. PICK b \in data.books : other = B(b) /\ other.id = b.id
    BY <1>5
  <2>3. a = b
    BY <1>8, <2>1, <2>2 DEF WellFormed
  <2>4. QED
    BY <2>1, <2>2, <2>3
<1>9. data.originals = {}
  BY DEF WellFormed
<1> HIDE DEF books, stamps
<1>10. WellFormed(new)
  BY AllColumns, <1>4, <1>5, <1>6, <1>7, <1>8, <1>9 DEF WellFormed
<1>11. QED
  BY <1>1, <1>4, <1>10

LEMMA FourthIsWellFormed ==
  ASSUME NEW data, WellFormed(data), 3 \in data.schema, 4 \notin data.schema,
         NEW sch, 3 \in sch, 4 \in sch
  PROVE  LET new == WithOriginals([data EXCEPT !.schema = sch])
         IN  WellFormed(new) /\ new.schema = sch /\ new.recorded = data.recorded
<1> DEFINE middle == [data EXCEPT !.schema = sch]
           O(book) == [book |-> book.id, revision |-> book.revision, created |-> CreatedAt(middle, book.id)]
           originals == {O(book) : book \in data.books}
           new == [recorded |-> data.recorded, schema |-> sch, books |-> data.books,
                   stamps |-> data.stamps, originals |-> originals]
<1>1. middle = [recorded |-> data.recorded, schema |-> sch, books |-> data.books,
                stamps |-> data.stamps, originals |-> data.originals]
  BY Updated
<1>2. /\ middle.books = data.books /\ middle.stamps = data.stamps /\ middle.originals = {}
      /\ \A x : [middle EXCEPT !.originals = x] =
            [recorded |-> data.recorded, schema |-> sch, books |-> data.books,
             stamps |-> data.stamps, originals |-> x]
  <2> DEFINE plain(x) == [recorded |-> data.recorded, schema |-> sch, books |-> data.books,
                          stamps |-> data.stamps, originals |-> x]
  <2>1. data.originals = {}
    BY DEF WellFormed
  <2>2. middle = plain({})
    BY <1>1, <2>1
  <2>3. /\ plain({}).books = data.books /\ plain({}).stamps = data.stamps /\ plain({}).originals = {}
        /\ \A x : [plain({}) EXCEPT !.originals = x] = plain(x)
    OBVIOUS
  <2> HIDE DEF middle
  <2>4. QED
    BY <2>2, <2>3
<1> HIDE DEF middle
<1>3. WithOriginals(middle) = [middle EXCEPT !.originals = originals]
  BY <1>2 DEF WithOriginals
<1>4. WithOriginals(middle) = new
  <2> HIDE DEF originals
  <2> QED
    BY <1>2, <1>3
<1>5. ASSUME NEW book \in data.books
      PROVE  CreatedAt(middle, book.id).layout = "fixed"
  <2>1. \E stamp \in middle.stamps : stamp.column = "books.created_at" /\ stamp.row = book.id
    BY <1>2 DEF WellFormed
  <2>2. \A stamp \in middle.stamps : stamp.text.layout = "fixed"
    BY <1>2 DEF WellFormed
  <2>3. QED
    BY <2>1, <2>2 DEF CreatedAt
<1>6. ASSUME NEW book \in data.books
      PROVE  O(book).book = book.id /\ O(book).revision = book.revision /\ O(book).created = CreatedAt(middle, book.id)
  OBVIOUS
<1>7. /\ new.recorded = data.recorded /\ new.schema = sch /\ new.books = data.books
      /\ new.stamps = data.stamps /\ new.originals = originals
      /\ new = [recorded |-> new.recorded, schema |-> new.schema, books |-> new.books,
                stamps |-> new.stamps, originals |-> new.originals]
  OBVIOUS
<1> HIDE DEF O, new
<1>8. ASSUME NEW original \in originals
      PROVE  original.created.layout = "fixed"
  BY <1>5, <1>6
<1>9. ASSUME NEW book \in data.books
      PROVE  \E original \in originals :
               /\ original.revision = book.revision
               /\ \A other \in originals : other.book = book.id <=> other = original
  <2>1. O(book) \in originals /\ O(book).revision = book.revision /\ O(book).book = book.id
    BY <1>6
  <2>2. ASSUME NEW other \in originals, other.book = book.id
        PROVE  other = O(book)
    <3>1. PICK b \in data.books : other = O(b)
      OBVIOUS
    <3>2. b.id = book.id
      BY <2>2, <3>1, <1>6
    <3>3. b = book
      BY <3>2 DEF WellFormed
    <3>4. QED
      BY <3>1, <3>3
  <2>3. QED
    BY <2>1, <2>2
<1> HIDE DEF originals
<1>10. WellFormed(new)
  BY <1>7, <1>8, <1>9 DEF WellFormed
<1>11. QED
  BY <1>4, <1>7, <1>10 DEF middle

LEMMA AppliedIsWellFormed ==
  ASSUME NEW data, WellFormed(data), NEW version \in Versions, NEW time,
         data.schema = {k \in Versions : k < version}
  PROVE  /\ WellFormed(AppliedTo(data, version, time))
         /\ AppliedTo(data, version, time).schema = data.schema \cup {version}
         /\ AppliedTo(data, version, time).recorded = data.recorded
<1> DEFINE sch == data.schema \cup {version}
<1>1. data.schema \cup {version} = sch /\ (version \in sch) /\ \A k \in Versions : k # version => (k \in sch <=> k < version)
  OBVIOUS
<1>2. 3 \in Versions /\ 4 \in Versions
  BY DEF Versions
<1>3. CASE version = 3
  <2>1. 3 \notin data.schema /\ 4 \notin data.schema /\ 3 \in sch /\ 4 \notin sch
    BY <1>2, <1>3
  <2>2. AppliedTo(data, version, time) = Normalized(Backfilled([data EXCEPT !.schema = sch], time))
    BY <1>3 DEF AppliedTo
  <2> HIDE DEF sch
  <2>3. QED
    BY <1>1, <2>1, <2>2, ThirdIsWellFormed
<1>4. CASE version = 4
  <2>1. 3 \in data.schema /\ 4 \notin data.schema /\ 3 \in sch /\ 4 \in sch
    BY <1>2, <1>4
  <2>2. AppliedTo(data, version, time) = WithOriginals([data EXCEPT !.schema = sch])
    BY <1>4 DEF AppliedTo
  <2> HIDE DEF sch
  <2>3. QED
    BY <1>1, <2>1, <2>2, FourthIsWellFormed
<1>5. CASE version \notin {3, 4}
  <2>1. (3 \in sch <=> 3 \in data.schema) /\ (4 \in sch <=> 4 \in data.schema)
    BY <1>5
  <2>2. AppliedTo(data, version, time) = [data EXCEPT !.schema = sch]
    BY <1>5 DEF AppliedTo
  <2> HIDE DEF sch
  <2>3. WellFormed([data EXCEPT !.schema = sch])
    BY <2>1, SchemaOnly
  <2>4. [data EXCEPT !.schema = sch].schema = sch /\ [data EXCEPT !.schema = sch].recorded = data.recorded
    BY Updated
  <2>5. QED
    BY <1>1, <2>2, <2>3, <2>4
<1>6. QED
  BY <1>3, <1>4, <1>5

LEMMA InitMigrations == Init => MigrationInv
<1> SUFFICES ASSUME Init
             PROVE  MigrationInv
  OBVIOUS
<1>1. db \in LegacyDatabases /\ migration = {} /\ phase = "down"
  BY DEF Init, MigrationsInit
<1>2. WellFormed(db) /\ Recorded(db)
  BY <1>1, LegacyAssumption DEF Recorded
<1>3. QED
  BY <1>1, <1>2 DEF MigrationInv

\* A transaction, and its three updates, by their parts.
Parts(data, applied, version, recording, time) ==
  [data |-> data, applied |-> applied, version |-> version, recording |-> recording, time |-> time]

Skipping(m) == [m EXCEPT !.version = @ + 1]
Applying(m, data, yes) == [m EXCEPT !.data = data, !.recording = yes]
Recording(m, data, no) == [m EXCEPT !.data = data, !.version = @ + 1, !.recording = no]

LEMMA TransactionUpdates ==
  ASSUME NEW data, NEW applied, NEW version, NEW recording, NEW time, NEW d, NEW r,
         NEW m, m = Parts(data, applied, version, recording, time)
  PROVE  /\ m.data = data /\ m.applied = applied /\ m.version = version
         /\ m.recording = recording /\ m.time = time
         /\ Skipping(m) = Parts(data, applied, version + 1, recording, time)
         /\ Applying(m, d, r) = Parts(d, applied, version, r, time)
         /\ Recording(m, d, r) = Parts(d, applied, version + 1, r, time)
<1>1. /\ m.data = data /\ m.applied = applied /\ m.version = version
      /\ m.recording = recording /\ m.time = time
  BY DEF Parts
<1>2. Skipping(m) = Parts(data, applied, version + 1, recording, time)
  BY DEF Parts, Skipping
<1>3. PICK m1 : m1 = [m EXCEPT !.data = d]
  OBVIOUS
<1>4. m1 = [data |-> d, applied |-> applied, version |-> version, recording |-> recording, time |-> time]
  BY <1>3 DEF Parts
<1>5. [m1 EXCEPT !.recording = r] =
        [data |-> d, applied |-> applied, version |-> version, recording |-> r, time |-> time]
  BY <1>4
<1>6. PICK m2 : m2 = [m1 EXCEPT !.version = version + 1]
  OBVIOUS
<1>7. m2 = [data |-> d, applied |-> applied, version |-> version + 1, recording |-> recording, time |-> time]
  BY <1>4, <1>6
<1>8. [m2 EXCEPT !.recording = r] =
        [data |-> d, applied |-> applied, version |-> version + 1, recording |-> r, time |-> time]
  BY <1>7
<1>9. Applying(m, d, r) = [m1 EXCEPT !.recording = r]
  BY <1>3 DEF Applying
<1>10. Recording(m, d, r) = [m2 EXCEPT !.recording = r]
  BY <1>1, <1>3, <1>6 DEF Recording
<1>11. QED
  BY <1>1, <1>2, <1>5, <1>8, <1>9, <1>10 DEF Parts

\* The transaction in its parts.
Transaction(data, applied, version, recording) ==
  /\ WellFormed(data)
  /\ applied = db.recorded /\ version \in 1..6 /\ recording \in BOOLEAN
  /\ recording => version \in Versions \ applied
  /\ data.recorded = {k \in Versions : k \in applied \/ k < version}
  /\ data.schema = data.recorded \cup (IF recording THEN {version} ELSE {})

LEMMA AdvancedParts ==
  ASSUME NEW data, NEW applied, NEW version, NEW recording, NEW time,
         NEW m, m = Parts(data, applied, version, recording, time)
  PROVE  Advanced(m) <=> Transaction(data, applied, version, recording)
<1>1. /\ m.data = data /\ m.applied = applied /\ m.version = version
      /\ m.recording = recording /\ m.time = time
  BY DEF Parts
<1>2. QED
  BY <1>1 DEF Advanced, Transaction, Parts

LEMMA MigrationParts ==
  ASSUME MigrationInv, NEW m \in migration
  PROVE  \E data, applied, version, recording, time :
           /\ m = Parts(data, applied, version, recording, time)
           /\ Transaction(data, applied, version, recording)
<1>1. Advanced(m)
  BY DEF MigrationInv
<1>2. Transaction(m.data, m.applied, m.version, m.recording)
  BY <1>1 DEF Advanced, Transaction
<1>3. QED
  BY <1>1, <1>2 DEF Advanced, Parts

\* A step of the transaction leaves what is committed alone.
LEMMA TransactionGoesOn ==
  ASSUME MigrationInv, db' = db, phase' = "migrating",
         NEW data, NEW applied, NEW version, NEW recording, NEW time,
         migration' = {Parts(data, applied, version, recording, time)},
         Transaction(data, applied, version, recording)
  PROVE  MigrationInv'
<1>1. PICK m : m = Parts(data, applied, version, recording, time)
  OBVIOUS
<1>2. Advanced(m)
  BY <1>1, AdvancedParts
<1>3. Advanced(m)'
  BY <1>2 DEF Advanced
<1>4. migration' = {m}
  BY <1>1
<1>5. (WellFormed(db) /\ Recorded(db))'
  BY DEF MigrationInv, Recorded
<1>6. QED
  BY <1>3, <1>4, <1>5 DEF MigrationInv

LEMMA BeginAdvances ==
  ASSUME MigrationInv, Start
  PROVE  MigrationInv'
<1>1. /\ migration' = {Parts(db, appliedMigrations(db), 1, FALSE, now)}
      /\ db' = db /\ phase' = "migrating"
  BY DEF Start, BeginMigrations, Parts
<1>2. WellFormed(db) /\ db.schema = db.recorded /\ \E version \in 0..5 : db.recorded = 1..version
  BY DEF MigrationInv, Recorded
<1>3. db.recorded = {k \in Versions : k \in db.recorded \/ k < 1}
  BY <1>2 DEF Versions
<1>4. Transaction(db, appliedMigrations(db), 1, FALSE)
  BY <1>2, <1>3 DEF Transaction, appliedMigrations
<1>5. QED
  BY <1>1, <1>4, TransactionGoesOn

LEMMA SkipAdvances ==
  ASSUME MigrationInv, phase = "migrating", SkipApplied, phase' = phase
  PROVE  MigrationInv'
<1>1. PICK m \in migration :
        /\ m.version \in m.applied /\ ~m.recording
        /\ migration' = {Skipping(m)} /\ db' = db
  BY DEF SkipApplied, Skipping
<1>2. PICK data, applied, version, recording, time :
        /\ m = Parts(data, applied, version, recording, time)
        /\ Transaction(data, applied, version, recording)
  BY MigrationParts
<1>3. /\ version \in applied /\ recording = FALSE
      /\ migration' = {Parts(data, applied, version + 1, recording, time)}
  BY <1>1, <1>2, TransactionUpdates DEF Transaction
<1>4. version \in Versions
  BY <1>2, <1>3 DEF Transaction, MigrationInv, Recorded, Versions
<1>5. data.recorded = {k \in Versions : k \in applied \/ k < version + 1}
  BY <1>2, <1>3, <1>4 DEF Transaction, Versions
<1>6. Transaction(data, applied, version + 1, recording)
  BY <1>2, <1>3, <1>4, <1>5 DEF Transaction, Versions
<1>7. QED
  BY <1>1, <1>3, <1>6, TransactionGoesOn

LEMMA ApplyAdvances ==
  ASSUME MigrationInv, phase = "migrating", ApplyMigration, phase' = phase
  PROVE  MigrationInv'
<1>1. PICK m \in migration :
        /\ m.version \in Versions \ m.applied /\ ~m.recording
        /\ migration' = {Applying(m, AppliedTo(m.data, m.version, m.time), TRUE)} /\ db' = db
  BY DEF ApplyMigration, Applying
<1>2. PICK data, applied, version, recording, time :
        /\ m = Parts(data, applied, version, recording, time)
        /\ Transaction(data, applied, version, recording)
  BY MigrationParts
<1>3. PICK new : new = AppliedTo(data, version, time)
  OBVIOUS
<1>4. version \in Versions \ applied /\ recording = FALSE /\ migration' = {Parts(new, applied, version, TRUE, time)}
  <2>1. m.version = version /\ m.applied = applied /\ m.recording = recording /\ m.data = data /\ m.time = time
    BY <1>2, TransactionUpdates
  <2>2. \A yes : Applying(m, new, yes) = Parts(new, applied, version, yes, time)
    BY <1>2, TransactionUpdates
  <2>3. Applying(m, new, TRUE) = Parts(new, applied, version, TRUE, time)
    BY <2>2, Zenon
  <2>4. QED
    BY <1>1, <1>2, <1>3, <2>1, <2>3 DEF Transaction
<1>5. data.schema = {k \in Versions : k < version} /\ data.recorded = data.schema
  <2>1. PICK last \in 0..5 : applied = 1..last
    BY <1>2 DEF Transaction, MigrationInv, Recorded
  <2>2. last < version
    BY <1>4, <2>1 DEF Versions
  <2>3. \A k \in Versions : k \in applied => k < version
    BY <2>1, <2>2, <1>4 DEF Versions
  <2>4. QED
    BY <1>2, <1>4, <2>3 DEF Transaction
<1>6. WellFormed(new) /\ new.schema = data.schema \cup {version} /\ new.recorded = data.recorded
  BY <1>2, <1>3, <1>4, <1>5, AppliedIsWellFormed DEF Transaction
<1>7. Transaction(new, applied, version, TRUE)
  BY <1>2, <1>4, <1>5, <1>6 DEF Transaction
<1>8. QED
  BY <1>1, <1>4, <1>7, TransactionGoesOn

LEMMA RecordAdvances ==
  ASSUME MigrationInv, phase = "migrating", RecordMigration, phase' = phase
  PROVE  MigrationInv'
<1>1. PICK m \in migration :
        /\ m.recording
        /\ migration' = {Recording(m, RecordedIn(m.data, m.version), FALSE)} /\ db' = db
  BY DEF RecordMigration, Recording
<1>2. PICK data, applied, version, recording, time :
        /\ m = Parts(data, applied, version, recording, time)
        /\ Transaction(data, applied, version, recording)
  BY MigrationParts
<1>3. PICK new : new = RecordedIn(data, version)
  OBVIOUS
<1>4. recording = TRUE /\ migration' = {Parts(new, applied, version + 1, FALSE, time)}
  <2>1. m.version = version /\ m.recording = recording /\ m.data = data
    BY <1>2, TransactionUpdates
  <2>2. \A no : Recording(m, new, no) = Parts(new, applied, version + 1, no, time)
    BY <1>2, TransactionUpdates
  <2>3. Recording(m, new, FALSE) = Parts(new, applied, version + 1, FALSE, time)
    BY <2>2, Zenon
  <2>4. QED
    BY <1>1, <1>2, <1>3, <2>1, <2>3 DEF Transaction
<1>5. /\ WellFormed(new) /\ new.recorded = data.recorded \cup {version}
      /\ new.schema = data.schema
  BY <1>2, <1>3, RecordedOnly DEF Transaction, RecordedIn
<1>6. version \in Versions /\ data.schema = data.recorded \cup {version}
  BY <1>2, <1>4 DEF Transaction
<1>7. new.recorded = {k \in Versions : k \in applied \/ k < version + 1}
  BY <1>2, <1>5, <1>6 DEF Transaction, Versions
<1>8. Transaction(new, applied, version + 1, FALSE)
  BY <1>2, <1>4, <1>5, <1>6, <1>7 DEF Transaction, Versions
<1>9. QED
  BY <1>1, <1>4, <1>8, TransactionGoesOn

LEMMA FinishInstalls ==
  ASSUME MigrationInv, FinishMigrating
  PROVE  MigrationInv'
<1>1. PICK m \in migration : m.version \notin Versions /\ db' = m.data /\ migration' = {}
  BY DEF FinishMigrating, CommitMigrations
<1>2. Advanced(m)
  BY <1>1 DEF MigrationInv
<1>3. m.version = 6 /\ ~m.recording
  BY <1>1, <1>2 DEF Advanced, Versions
<1>4. m.data.recorded = Versions /\ m.data.schema = Versions
  BY <1>2, <1>3 DEF Advanced, Versions
<1>5. WellFormed(db)' /\ Recorded(db)'
  BY <1>1, <1>2, <1>4 DEF Advanced, Recorded, Versions
<1>6. QED
  BY <1>1, <1>4, <1>5 DEF MigrationInv, FinishMigrating

LEMMA StepMigrations == MigrationInv /\ [Next]_vars => MigrationInv'
<1> SUFFICES ASSUME MigrationInv, [Next]_vars
             PROVE  MigrationInv'
  OBVIOUS
<1>1. CASE Start
  BY <1>1, BeginAdvances
<1>2. CASE Migrate
  BY <1>2, SkipAdvances, ApplyAdvances, RecordAdvances DEF Migrate, MigrationStep, processVars
<1>3. CASE FinishMigrating
  BY <1>3, FinishInstalls
<1>4. CASE Prepare
  BY <1>4 DEF Prepare, MigrationInv, migrationVars, Recorded
<1>5. CASE Bootstrap
  BY <1>5 DEF Bootstrap, MigrationInv, migrationVars, Recorded
<1>6. CASE Stop
  <2>1. db' = db /\ migration' = {} /\ phase' = "down"
    BY <1>6 DEF Stop, AbandonMigrations, AfterError
  <2>2. QED
    BY <2>1 DEF MigrationInv, Recorded
<1>7. CASE Serve
  BY <1>7 DEF Serve, MigrationInv, migrationVars, processVars, Recorded
<1>8. CASE PassTime \/ UNCHANGED vars
  <2>1. UNCHANGED <<db, migration, phase>>
    BY <1>8 DEF PassTime, migrationVars, processVars, vars
  <2>2. QED
    BY <2>1 DEF MigrationInv, Recorded, Advanced
<1>9. QED
  BY <1>1, <1>2, <1>3, <1>4, <1>5, <1>6, <1>7, <1>8 DEF Next

LEMMA Migrated == Spec => []MigrationInv
BY InitMigrations, StepMigrations, PTL DEF Spec

-----------------------------------------------------------------------------
(* Requests.                                                               *)

AuthInv == AuthTyped /\ PasswordsInv /\ TokensInv

IInv == AuthInv /\ Phases

LEMMA IdleTyped ==
  /\ Idle \in CallStates
  /\ Idle.pc = "idle" /\ Idle.raced = FALSE
BY DEF Idle, CallStates, AnyPassword, None

\* What LoginFind and RefreshFind leave with their request.
LoggingIn(password, since) == [Idle EXCEPT !.pc = "loginInsert", !.password = password, !.since = since]

LEMMA LoginCall ==
  ASSUME NEW password \in AnyPassword, NEW since \in Nat
  PROVE  LET c == LoggingIn(password, since)
         IN  c \in CallStates /\ c.pc = "loginInsert" /\ c.password = password
BY IdleTyped DEF LoggingIn, CallStates

Refreshing(s, expires) == [Idle EXCEPT !.pc = "refreshSign", !.session = s, !.expires = expires]

LEMMA RefreshCall ==
  ASSUME NEW s \in Nat, NEW expires \in Int
  PROVE  LET c == Refreshing(s, expires)
         IN  c \in CallStates /\ c.pc = "refreshSign" /\ c.session = s /\ c.expires = expires
BY IdleTyped DEF Refreshing, CallStates

LEMMA ChangeCall ==
  ASSUME NEW password \in AnyPassword
  PROVE  /\ [Idle EXCEPT !.pc = "changeFind"] \in CallStates
         /\ [Idle EXCEPT !.pc = "changeFind"].pc = "changeFind"
         /\ [Idle EXCEPT !.pc = "changeCommit", !.password = password] \in CallStates
         /\ [Idle EXCEPT !.pc = "changeCommit", !.password = password].pc = "changeCommit"
BY IdleTyped DEF CallStates

\* Revoking changes only whether sessions are revoked.
LEMMA RevokedRows ==
  ASSUME NEW rows \in Seq(Sessions), NEW which
  PROVE  /\ Revoked(rows, which) \in Seq(Sessions)
         /\ DOMAIN Revoked(rows, which) = DOMAIN rows
         /\ \A s \in DOMAIN rows :
              /\ Revoked(rows, which)[s].password = rows[s].password
              /\ Revoked(rows, which)[s].raced = rows[s].raced
              /\ Revoked(rows, which)[s].expires = rows[s].expires
              /\ Revoked(rows, which)[s].revoked <=> (s \in which \/ rows[s].revoked)
<1> DEFINE new(s) == IF s \in which THEN [rows[s] EXCEPT !.revoked = TRUE] ELSE rows[s]
<1>1. ASSUME NEW s \in DOMAIN rows
      PROVE  /\ new(s) \in Sessions
             /\ new(s).password = rows[s].password /\ new(s).raced = rows[s].raced
             /\ new(s).expires = rows[s].expires
             /\ new(s).revoked <=> (s \in which \/ rows[s].revoked)
  <2>1. rows[s] \in Sessions
    OBVIOUS
  <2>2. QED
    BY <2>1 DEF Sessions
<1>2. Revoked(rows, which) = [s \in DOMAIN rows |-> new(s)]
  BY DEF Revoked
<1> HIDE DEF new
<1>3. Len(rows) \in Nat /\ DOMAIN rows = 1..Len(rows)
  OBVIOUS
<1>4. [s \in DOMAIN rows |-> new(s)] \in Seq(Sessions)
  BY <1>1, <1>3
<1>5. QED
  BY <1>1, <1>2, <1>4

\* Being overtaken changes only raced.
LEMMA OvertakenCalls ==
  ASSUME NEW pending \in [Requests -> CallStates], NEW which
  PROVE  /\ Overtaken(pending, which) \in [Requests -> CallStates]
         /\ \A r \in Requests :
              /\ Overtaken(pending, which)[r].pc = pending[r].pc
              /\ Overtaken(pending, which)[r].password = pending[r].password
              /\ Overtaken(pending, which)[r].session = pending[r].session
              /\ Overtaken(pending, which)[r].expires = pending[r].expires
              /\ ~Overtaken(pending, which)[r].raced =>
                   ~pending[r].raced /\ ~(pending[r].pc = "refreshSign" /\ pending[r].session \in which)
<1> DEFINE new(r) == IF pending[r].pc = "refreshSign" /\ pending[r].session \in which
                     THEN [pending[r] EXCEPT !.raced = TRUE] ELSE pending[r]
<1>1. ASSUME NEW r \in Requests
      PROVE  /\ new(r) \in CallStates
             /\ new(r).pc = pending[r].pc /\ new(r).password = pending[r].password
             /\ new(r).session = pending[r].session /\ new(r).expires = pending[r].expires
             /\ ~new(r).raced => ~pending[r].raced /\ ~(pending[r].pc = "refreshSign" /\ pending[r].session \in which)
  <2>1. pending[r] \in CallStates
    OBVIOUS
  <2>2. QED
    BY <2>1 DEF CallStates
<1>2. Overtaken(pending, which) = [r \in Requests |-> new(r)]
  BY DEF Overtaken
<1> HIDE DEF new
<1>3. QED
  BY <1>1, <1>2

LEMMA OvertakenLoginCalls ==
  ASSUME NEW pending \in [Requests -> CallStates]
  PROVE  /\ OvertakenLogins(pending) \in [Requests -> CallStates]
         /\ \A r \in Requests :
              /\ OvertakenLogins(pending)[r].pc = pending[r].pc
              /\ OvertakenLogins(pending)[r].password = pending[r].password
              /\ OvertakenLogins(pending)[r].session = pending[r].session
              /\ OvertakenLogins(pending)[r].expires = pending[r].expires
              /\ ~OvertakenLogins(pending)[r].raced => ~pending[r].raced /\ pending[r].pc # "loginInsert"
<1> DEFINE new(r) == IF pending[r].pc = "loginInsert" THEN [pending[r] EXCEPT !.raced = TRUE] ELSE pending[r]
<1>1. ASSUME NEW r \in Requests
      PROVE  /\ new(r) \in CallStates
             /\ new(r).pc = pending[r].pc /\ new(r).password = pending[r].password
             /\ new(r).session = pending[r].session /\ new(r).expires = pending[r].expires
             /\ ~new(r).raced => ~pending[r].raced /\ pending[r].pc # "loginInsert"
  <2>1. pending[r] \in CallStates
    OBVIOUS
  <2>2. QED
    BY <2>1 DEF CallStates
<1>2. OvertakenLogins(pending) = [r \in Requests |-> new(r)]
  BY DEF OvertakenLogins
<1> HIDE DEF new
<1>3. QED
  BY <1>1, <1>2

LEMMA InitAuth == Init => AuthInv
<1> SUFFICES ASSUME Init
             PROVE  AuthInv
  OBVIOUS
<1>1. /\ users \in {{}} \cup {{[name |-> c.name, password |-> c.password]} : c \in Configs}
      /\ sessions = << >> /\ access = {} /\ now = 1 /\ calls = AllIdle
  BY DEF Init, AuthInit
<1>2. \A c \in Configs : [name |-> c.name, password |-> c.password] \in Users
  BY DEF Users, AnyPassword
<1>3. AuthTyped
  BY <1>1, <1>2, IdleTyped DEF AuthTyped, AllIdle
<1>4. PasswordsInv /\ TokensInv
  BY <1>1, IdleTyped DEF PasswordsInv, TokensInv, AllIdle
<1>5. QED
  BY <1>3, <1>4 DEF AuthInv

\* A request that takes up nothing, or has done with what it had.
LEMMA CallChanges ==
  ASSUME AuthInv, NEW r \in Requests, NEW c \in CallStates, c.pc \notin {"loginInsert", "refreshSign"},
         calls' = [calls EXCEPT ![r] = c], UNCHANGED <<users, sessions, access, now>>
  PROVE  AuthInv'
<1>1. AuthTyped'
  BY DEF AuthInv, AuthTyped
<1>2. calls'[r] = c /\ \A q \in Requests \ {r} : calls'[q] = calls[q]
  BY DEF AuthInv, AuthTyped
<1>3. PasswordsInv' /\ TokensInv'
  BY <1>2 DEF AuthInv, PasswordsInv, TokensInv
<1>4. QED
  BY <1>1, <1>3 DEF AuthInv

LEMMA LoginFindKeeps ==
  ASSUME AuthInv, NEW r \in Requests, LoginFind(r)
  PROVE  AuthInv'
<1>1. PICK user \in users :
        /\ calls' = [calls EXCEPT ![r] = LoggingIn(user.password, now)]
        /\ UNCHANGED <<users, sessions, access, now>>
  BY DEF LoginFind, LoggingIn
<1>2. user.password \in AnyPassword /\ now \in Nat
  BY DEF AuthInv, AuthTyped, Users
<1>3. PICK c : c = LoggingIn(user.password, now)
  OBVIOUS
<1>4. c \in CallStates /\ c.pc = "loginInsert" /\ c.password = user.password
  BY <1>2, <1>3, LoginCall
<1>5. AuthTyped'
  BY <1>1, <1>3, <1>4 DEF AuthInv, AuthTyped
<1>6. calls'[r] = c /\ \A q \in Requests \ {r} : calls'[q] = calls[q]
  BY <1>1, <1>3 DEF AuthInv, AuthTyped
<1>7. PasswordsInv'
  BY <1>1, <1>4, <1>6 DEF AuthInv, AuthTyped, PasswordsInv
<1>8. TokensInv'
  BY <1>1, <1>2, <1>4, <1>6 DEF AuthInv, TokensInv
<1>9. QED
  BY <1>5, <1>7, <1>8 DEF AuthInv

LEMMA RefreshFindKeeps ==
  ASSUME AuthInv, NEW r \in Requests, RefreshFind(r)
  PROVE  AuthInv'
<1>1. PICK s \in DOMAIN sessions :
        /\ ~sessions[s].revoked
        /\ calls' = [calls EXCEPT ![r] = Refreshing(s, sessions[s].expires)]
        /\ UNCHANGED <<users, sessions, access, now>>
  BY DEF RefreshFind, Refreshing, MayRefresh
<1>2. s \in Nat /\ sessions[s] \in Sessions
  BY DEF AuthInv, AuthTyped
<1>3. sessions[s].expires \in Int
  BY <1>2 DEF Sessions
<1>4. PICK c : c = Refreshing(s, sessions[s].expires)
  OBVIOUS
<1>5. c \in CallStates /\ c.pc = "refreshSign" /\ c.session = s /\ c.expires = sessions[s].expires
  BY <1>2, <1>3, <1>4, RefreshCall
<1>6. AuthTyped'
  BY <1>1, <1>4, <1>5 DEF AuthInv, AuthTyped
<1>7. calls'[r] = c /\ \A q \in Requests \ {r} : calls'[q] = calls[q]
  BY <1>1, <1>4 DEF AuthInv, AuthTyped
<1>8. PasswordsInv'
  BY <1>1, <1>5, <1>7 DEF AuthInv, PasswordsInv
<1>9. TokensInv'
  BY <1>1, <1>5, <1>7 DEF AuthInv, TokensInv
<1>10. QED
  BY <1>6, <1>8, <1>9 DEF AuthInv

\* The session that is inserted was opened with the password that was read.
LEMMA LoginInsertKeeps ==
  ASSUME AuthInv, NEW r \in Requests, config \in Configs, LoginInsert(r, config.secret)
  PROVE  AuthInv'
<1>1. /\ calls[r] \in CallStates /\ calls[r].pc = "loginInsert" /\ sessions \in Seq(Sessions)
      /\ now \in Nat /\ AccessTTL \in Nat \ {0} /\ RefreshTTL \in Nat \ {0}
  BY AuthAssumption DEF AuthInv, AuthTyped, LoginInsert
<1>2. /\ calls[r].password \in AnyPassword /\ calls[r].raced \in BOOLEAN /\ calls[r].since \in Nat
  BY <1>1 DEF CallStates
<1> DEFINE session(time) == [password |-> calls[r].password, raced |-> calls[r].raced,
                             expires |-> time + RefreshTTL, revoked |-> FALSE]
           n == Len(sessions) + 1
           token(time) == AccessToken(n, time + AccessTTL, config.secret, FALSE, TRUE)
<1>3. PICK time \in calls[r].since..now :
        sessions' = Append(sessions, session(time)) /\ access' = access \cup {token(time)}
  BY DEF LoginInsert
<1>4. calls' = [calls EXCEPT ![r] = Idle] /\ UNCHANGED <<users, now>>
  BY DEF LoginInsert
<1>5. time \in Int /\ time <= now
  BY <1>1, <1>2
<1>6. PICK row : row = session(time)
  OBVIOUS
<1>7. /\ row \in Sessions
      /\ row.password = calls[r].password /\ (row.raced <=> calls[r].raced)
      /\ row.expires = time + RefreshTTL /\ ~row.revoked
  BY <1>1, <1>2, <1>5, <1>6 DEF Sessions
<1>8. PICK issued : issued = token(time)
  OBVIOUS
<1>9. /\ issued \in Tokens /\ issued.session = n /\ issued.expires = time + AccessTTL /\ issued.alive
  BY <1>1, <1>5, <1>8 DEF Tokens, AccessToken
<1>10. sessions' = Append(sessions, row) /\ access' = access \cup {issued}
  BY <1>3, <1>6, <1>8
<1> HIDE DEF session, token
<1>11. /\ sessions' \in Seq(Sessions) /\ Len(sessions) \in Nat
       /\ DOMAIN sessions = 1..Len(sessions) /\ DOMAIN sessions' = 1..n
       /\ sessions'[n] = row /\ \A s \in DOMAIN sessions : sessions'[s] = sessions[s]
  BY <1>1, <1>7, <1>10
<1>12. AuthTyped'
  BY <1>4, <1>9, <1>10, <1>11, IdleTyped DEF AuthInv, AuthTyped
<1>13. calls'[r] = Idle /\ \A q \in Requests \ {r} : calls'[q] = calls[q]
  BY <1>4 DEF AuthInv, AuthTyped
<1>14. \A s \in DOMAIN sessions' : s \in DOMAIN sessions \/ s = n
  BY <1>11
<1>15. PasswordsInv'
  BY <1>1, <1>4, <1>7, <1>11, <1>13, <1>14, IdleTyped DEF AuthInv, PasswordsInv
<1>16. TokensInv'
  <2>1. ASSUME NEW t \in access'
        PROVE  /\ t.session \in DOMAIN sessions'
               /\ t.expires - AccessTTL < sessions'[t.session].expires /\ t.expires - AccessTTL <= now'
               /\ t.alive \/ t.raced
    <3>1. CASE t \in access
      <4>1. t.session \in DOMAIN sessions
        BY <3>1 DEF AuthInv, TokensInv
      <4>2. t.session \in DOMAIN sessions' /\ sessions'[t.session] = sessions[t.session]
        BY <4>1, <1>11
      <4>3. QED
        BY <3>1, <4>1, <4>2, <1>4 DEF AuthInv, TokensInv
    <3>2. CASE t = issued
      <4>1. t.expires - AccessTTL = time
        BY <3>2, <1>1, <1>5, <1>9
      <4>2. t.session \in DOMAIN sessions' /\ sessions'[t.session].expires = time + RefreshTTL
        BY <3>2, <1>7, <1>9, <1>11
      <4>3. QED
        BY <3>2, <4>1, <4>2, <1>1, <1>4, <1>5, <1>9
    <3>3. QED
      BY <3>1, <3>2, <1>10
  <2>2. ASSUME NEW q \in Requests, calls'[q].pc = "refreshSign"
        PROVE  /\ calls'[q].session \in DOMAIN sessions'
               /\ calls'[q].expires = sessions'[calls'[q].session].expires
               /\ ~calls'[q].raced => ~sessions'[calls'[q].session].revoked
    <3>1. q # r
      BY <2>2, <1>13, IdleTyped
    <3>2. QED
      BY <2>2, <3>1, <1>11, <1>13 DEF AuthInv, TokensInv
  <2>3. QED
    BY <2>1, <2>2 DEF TokensInv
<1>17. QED
  BY <1>12, <1>15, <1>16 DEF AuthInv

\* A token is issued before the session it was read from expires, and before
\* the session is revoked unless the revocation overtook the request.
LEMMA RefreshSignKeeps ==
  ASSUME AuthInv, NEW r \in Requests, config \in Configs, RefreshSign(r, config.secret)
  PROVE  AuthInv'
<1>1. calls[r].pc = "refreshSign" /\ calls[r] \in CallStates
  BY DEF AuthInv, AuthTyped, RefreshSign
<1>2. calls' = [calls EXCEPT ![r] = Idle] /\ UNCHANGED <<users, sessions, now>>
  BY DEF RefreshSign
<1>3. calls'[r] = Idle /\ \A q \in Requests \ {r} : calls'[q] = calls[q]
  BY <1>2 DEF AuthInv, AuthTyped
<1>4. PasswordsInv'
  BY <1>2, <1>3, IdleTyped DEF AuthInv, PasswordsInv
<1>5. CASE access' = access
  <2>1. AuthTyped'
    BY <1>2, <1>5, IdleTyped DEF AuthInv, AuthTyped
  <2>2. TokensInv'
    BY <1>2, <1>3, <1>5, IdleTyped DEF AuthInv, TokensInv
  <2>3. QED
    BY <1>4, <2>1, <2>2 DEF AuthInv
<1>6. CASE access' # access
  <2> DEFINE alive == ~sessions[calls[r].session].revoked
             token == AccessToken(calls[r].session, now + AccessTTL, config.secret, calls[r].raced, alive)
  <2>1. access' = access \cup {token} /\ calls[r].expires > now
    BY <1>6 DEF RefreshSign, Unexpired
  <2>2. now \in Nat /\ AccessTTL \in Nat /\ calls[r].session \in Nat /\ calls[r].raced \in BOOLEAN
    BY <1>1, AuthAssumption DEF AuthInv, AuthTyped, CallStates
  <2>3. token \in Tokens
    BY <2>2 DEF Tokens, AccessToken
  <2>4. /\ token.session = calls[r].session /\ token.expires = now + AccessTTL
        /\ (token.raced <=> calls[r].raced) /\ (token.alive <=> alive)
    BY <2>2 DEF AccessToken
  <2> HIDE DEF token
  <2>5. AuthTyped'
    BY <1>2, <2>1, <2>3, IdleTyped DEF AuthInv, AuthTyped
  <2>6. /\ token.session \in DOMAIN sessions /\ calls[r].expires = sessions[token.session].expires
        /\ token.alive \/ token.raced
    BY <1>1, <2>4 DEF AuthInv, TokensInv
  <2>7. token.expires - AccessTTL = now
    BY <2>2, <2>4
  <2>8. /\ token.expires - AccessTTL < sessions[token.session].expires /\ token.expires - AccessTTL <= now
    BY <2>1, <2>2, <2>6, <2>7
  <2>9. TokensInv'
    BY <1>2, <1>3, <2>1, <2>6, <2>8, IdleTyped DEF AuthInv, TokensInv
  <2>10. QED
    BY <1>4, <2>5, <2>9 DEF AuthInv
<1>7. QED
  BY <1>5, <1>6

\* What is common to the statements that revoke sessions.
LEMMA RevocationKeepsTokens ==
  ASSUME AuthInv, NEW which,
         sessions' = Revoked(sessions, which), UNCHANGED <<access, now>>,
         NEW pending \in [Requests -> CallStates],
         \A r \in Requests :
           /\ pending[r].pc \in {calls[r].pc, "idle"}
           /\ pending[r].pc # "idle" =>
                /\ pending[r].session = calls[r].session /\ pending[r].expires = calls[r].expires
                /\ ~pending[r].raced =>
                     ~calls[r].raced /\ ~(calls[r].pc = "refreshSign" /\ calls[r].session \in which),
         calls' = pending
  PROVE  sessions' \in Seq(Sessions) /\ TokensInv'
<1>1. sessions \in Seq(Sessions)
  BY DEF AuthInv, AuthTyped
<1>2. /\ sessions' \in Seq(Sessions) /\ DOMAIN sessions' = DOMAIN sessions
      /\ \A s \in DOMAIN sessions :
           /\ sessions'[s].expires = sessions[s].expires
           /\ sessions'[s].revoked <=> (s \in which \/ sessions[s].revoked)
  BY <1>1, RevokedRows
<1>3. ASSUME NEW t \in access
      PROVE  /\ t.session \in DOMAIN sessions'
             /\ t.expires - AccessTTL < sessions'[t.session].expires /\ t.expires - AccessTTL <= now
             /\ t.alive \/ t.raced
  BY <1>2 DEF AuthInv, TokensInv
<1>4. ASSUME NEW r \in Requests, pending[r].pc = "refreshSign"
      PROVE  /\ pending[r].session \in DOMAIN sessions'
             /\ pending[r].expires = sessions'[pending[r].session].expires
             /\ ~pending[r].raced => ~sessions'[pending[r].session].revoked
  <2>1. calls[r].pc = "refreshSign" /\ pending[r].session = calls[r].session
    BY <1>4
  <2>2. calls[r].session \in DOMAIN sessions
    BY <2>1 DEF AuthInv, TokensInv
  <2>3. QED
    BY <1>2, <1>4, <2>1, <2>2 DEF AuthInv, TokensInv
<1>5. QED
  BY <1>2, <1>3, <1>4 DEF TokensInv

LEMMA LogoutKeeps ==
  ASSUME AuthInv, NEW s, Logout(s)
  PROVE  AuthInv'
<1>1. /\ sessions' = Revoked(sessions, {s}) /\ calls' = Overtaken(calls, {s})
      /\ UNCHANGED <<users, access, now>>
  BY DEF Logout
<1>2. sessions \in Seq(Sessions) /\ now \in Nat \ {0} /\ calls \in [Requests -> CallStates]
  BY DEF AuthInv, AuthTyped
<1>3. PICK pending \in [Requests -> CallStates] : pending = Overtaken(calls, {s})
  BY <1>2, OvertakenCalls
<1>4. \A r \in Requests :
        /\ pending[r].pc = calls[r].pc /\ pending[r].password = calls[r].password
        /\ pending[r].session = calls[r].session /\ pending[r].expires = calls[r].expires
        /\ ~pending[r].raced => ~calls[r].raced /\ ~(calls[r].pc = "refreshSign" /\ calls[r].session \in {s})
  BY <1>2, <1>3, OvertakenCalls
<1>5. sessions' \in Seq(Sessions) /\ TokensInv'
  BY <1>1, <1>3, <1>4, RevocationKeepsTokens
<1>6. AuthTyped'
  BY <1>1, <1>3, <1>5 DEF AuthInv, AuthTyped
<1>7. PasswordsInv'
  <2>1. /\ DOMAIN sessions' = DOMAIN sessions
        /\ \A n \in DOMAIN sessions :
             /\ sessions'[n].password = sessions[n].password
             /\ sessions'[n].raced = sessions[n].raced
             /\ ~sessions'[n].revoked => ~sessions[n].revoked
    BY <1>1, <1>2, RevokedRows
  <2>2. QED
    BY <1>1, <1>3, <1>4, <2>1 DEF AuthInv, PasswordsInv
<1>8. QED
  BY <1>5, <1>6, <1>7 DEF AuthInv

\* No session is left that was opened with another password, and a login that
\* has read the old one is marked.
LEMMA ChangeCommitKeeps ==
  ASSUME AuthInv, NEW r \in Requests, ChangeCommit(r)
  PROVE  AuthInv'
<1> DEFINE new(user) == [user EXCEPT !.password = calls[r].password]
           marked == OvertakenLogins(Overtaken(calls, DOMAIN sessions))
<1>1. /\ users' = {new(user) : user \in users}
      /\ sessions' = Revoked(sessions, DOMAIN sessions)
      /\ calls' = [marked EXCEPT ![r] = Idle]
      /\ UNCHANGED <<access, now>>
  BY DEF ChangeCommit
<1>2. sessions \in Seq(Sessions) /\ now \in Nat \ {0} /\ calls \in [Requests -> CallStates]
  BY DEF AuthInv, AuthTyped
<1>3. /\ marked \in [Requests -> CallStates]
      /\ \A q \in Requests :
           /\ marked[q].pc = calls[q].pc /\ marked[q].password = calls[q].password
           /\ marked[q].session = calls[q].session /\ marked[q].expires = calls[q].expires
           /\ ~marked[q].raced =>
                /\ ~calls[q].raced /\ calls[q].pc # "loginInsert"
                /\ ~(calls[q].pc = "refreshSign" /\ calls[q].session \in DOMAIN sessions)
  <2>1. PICK pending \in [Requests -> CallStates] : pending = Overtaken(calls, DOMAIN sessions)
    BY <1>2, OvertakenCalls
  <2>2. QED
    BY <1>2, <2>1, OvertakenCalls, OvertakenLoginCalls
<1> HIDE DEF marked
<1>4. PICK pending \in [Requests -> CallStates] : pending = [marked EXCEPT ![r] = Idle]
  BY <1>3, IdleTyped
<1>5. pending[r] = Idle /\ \A q \in Requests \ {r} : pending[q] = marked[q]
  BY <1>3, <1>4
<1>6. \A q \in Requests :
        /\ pending[q].pc \in {calls[q].pc, "idle"}
        /\ pending[q].pc # "idle" =>
             /\ pending[q].session = calls[q].session /\ pending[q].expires = calls[q].expires
             /\ ~pending[q].raced =>
                  /\ ~calls[q].raced /\ calls[q].pc # "loginInsert"
                  /\ ~(calls[q].pc = "refreshSign" /\ calls[q].session \in DOMAIN sessions)
  BY <1>3, <1>5, IdleTyped
<1>7. sessions' \in Seq(Sessions) /\ TokensInv'
  BY <1>1, <1>4, <1>6, RevocationKeepsTokens
<1>8. AuthTyped'
  <2>1. calls[r].password \in AnyPassword
    BY <1>2 DEF CallStates
  <2>2. ASSUME NEW user \in users
        PROVE  new(user) \in Users
    BY <2>1 DEF AuthInv, AuthTyped, Users
  <2> HIDE DEF new
  <2>3. users' \in SUBSET Users /\ \A user, other \in users' : user = other
    BY <1>1, <2>2 DEF AuthInv, AuthTyped
  <2>4. QED
    BY <1>1, <1>4, <1>7, <2>3 DEF AuthInv, AuthTyped
<1>9. PasswordsInv'
  <2>1. DOMAIN sessions' = DOMAIN sessions /\ \A n \in DOMAIN sessions : sessions'[n].revoked
    BY <1>1, <1>2, RevokedRows
  <2>2. \A q \in Requests : pending[q].pc = "loginInsert" => pending[q].raced
    BY <1>6
  <2>3. QED
    BY <1>1, <1>4, <2>1, <2>2 DEF PasswordsInv
<1>10. QED
  BY <1>7, <1>8, <1>9 DEF AuthInv

LEMMA CallKeeps ==
  ASSUME AuthInv, NEW r \in Requests, config \in Configs, Call(r, config.secret)
  PROVE  AuthInv'
<1>1. ASSUME ChangeEnter(r, config.secret)
      PROVE  AuthInv'
  <2>1. /\ calls' = [calls EXCEPT ![r] = [Idle EXCEPT !.pc = "changeFind"]]
        /\ UNCHANGED <<users, sessions, access, now>>
    BY <1>1 DEF ChangeEnter
  <2>2. None \in AnyPassword
    BY DEF AnyPassword
  <2>3. QED
    BY <2>1, <2>2, ChangeCall, CallChanges
<1>2. ASSUME ChangeFind(r)
      PROVE  AuthInv'
  <2>1. PICK chosen \in Passwords :
          /\ calls' = [calls EXCEPT ![r] = [Idle EXCEPT !.pc = "changeCommit", !.password = chosen]]
          /\ UNCHANGED <<users, sessions, access, now>>
    BY <1>2 DEF ChangeFind
  <2>2. chosen \in AnyPassword
    BY DEF AnyPassword
  <2>3. PICK c : c = [Idle EXCEPT !.pc = "changeCommit", !.password = chosen]
    OBVIOUS
  <2>4. c \in CallStates /\ c.pc = "changeCommit"
    BY <2>2, <2>3, ChangeCall
  <2>5. calls' = [calls EXCEPT ![r] = c]
    BY <2>1, <2>3
  <2>6. QED
    BY <2>1, <2>4, <2>5, CallChanges
<1>3. ASSUME AbandonCall(r)
      PROVE  AuthInv'
  BY <1>3, IdleTyped, CallChanges DEF AbandonCall
<1>4. QED
  BY <1>1, <1>2, <1>3, LoginFindKeeps, LoginInsertKeeps, RefreshFindKeeps, RefreshSignKeeps, ChangeCommitKeeps
     DEF Call

\* The first account finds no session and no request.
LEMMA BootstrapKeeps ==
  ASSUME IInv, Bootstrap
  PROVE  IInv'
<1>1. /\ phase = "bootstrapping" /\ phase' = "serving" /\ config' = config
      /\ users' = users \cup {[name |-> config.name, password |-> config.password]}
      /\ UNCHANGED <<sessions, access, now, calls>>
  BY DEF Bootstrap, CreateAdmin
<1>2. users = {} /\ sessions = << >> /\ calls = AllIdle /\ config \in Configs
  BY <1>1 DEF IInv, Phases
<1>3. [name |-> config.name, password |-> config.password] \in Users
  BY <1>2 DEF Users, AnyPassword
<1>4. AuthTyped'
  BY <1>1, <1>2, <1>3 DEF IInv, AuthInv, AuthTyped
<1>5. PasswordsInv' /\ TokensInv'
  BY <1>1, <1>2, IdleTyped DEF PasswordsInv, IInv, AuthInv, TokensInv, AllIdle
<1>6. Phases'
  BY <1>1, <1>2 DEF Phases
<1>7. QED
  BY <1>4, <1>5, <1>6 DEF IInv, AuthInv

LEMMA StepKeeps == IInv /\ [Next]_vars => IInv'
<1> SUFFICES ASSUME IInv, [Next]_vars
             PROVE  IInv'
  OBVIOUS
<1>1. ASSUME UNCHANGED authVars
      PROVE  AuthInv'
  BY <1>1 DEF IInv, AuthInv, AuthTyped, PasswordsInv, TokensInv, authVars
<1>2. CASE Start
  BY <1>1, <1>2 DEF Start, IInv, Phases, authVars
<1>3. CASE Migrate
  BY <1>1, <1>3 DEF Migrate, IInv, Phases, authVars, processVars
<1>4. CASE FinishMigrating
  BY <1>1, <1>4 DEF FinishMigrating, IInv, Phases, authVars
<1>5. CASE Prepare
  BY <1>1, <1>5 DEF Prepare, IInv, Phases, authVars, AdminMissing
<1>6. CASE Bootstrap
  BY <1>6, BootstrapKeeps
<1>7. CASE Stop
  <2>1. calls' = AllIdle /\ phase' = "down" /\ UNCHANGED <<users, sessions, access, now>>
    BY <1>7 DEF Stop
  <2>2. AuthTyped'
    BY <2>1, IdleTyped DEF IInv, AuthInv, AuthTyped, AllIdle
  <2>3. PasswordsInv' /\ TokensInv'
    BY <2>1, IdleTyped DEF IInv, AuthInv, PasswordsInv, TokensInv, AllIdle
  <2>4. Phases'
    BY <2>1 DEF IInv, Phases
  <2>5. QED
    BY <2>2, <2>3, <2>4 DEF IInv, AuthInv
<1>8. CASE Serve
  <2>1. phase = "serving" /\ phase' = phase /\ config' = config
    BY <1>8 DEF Serve, processVars
  <2>2. config \in Configs /\ users # {}
    BY <2>1 DEF IInv, Phases
  <2>3. AuthInv'
    BY <1>8, <2>2, CallKeeps, LogoutKeeps DEF Serve, IInv
  <2>4. users' # {}
    <3>1. users' = users \/ \E r \in Requests : users' = {[user EXCEPT !.password = calls[r].password] : user \in users}
      BY <1>8 DEF Serve, Call, LoginFind, LoginInsert, RefreshFind, RefreshSign, ChangeEnter, ChangeFind,
                  ChangeCommit, AbandonCall, Logout
    <3>2. QED
      BY <2>2, <3>1
  <2>5. Phases'
    BY <2>1, <2>2, <2>4 DEF Phases
  <2>6. QED
    BY <2>3, <2>5 DEF IInv
<1>9. CASE PassTime
  <2>1. now' = now + 1 /\ UNCHANGED <<users, sessions, access, calls, phase, config>>
    BY <1>9 DEF PassTime, Tick, processVars
  <2>2. AuthTyped'
    BY <2>1 DEF IInv, AuthInv, AuthTyped
  <2>3. PasswordsInv'
    BY <2>1 DEF IInv, AuthInv, PasswordsInv
  <2>4. TokensInv'
    <3>1. now \in Nat /\ AccessTTL \in Nat
      BY AuthAssumption DEF IInv, AuthInv, AuthTyped
    <3>2. \A token \in access : token.expires \in Int
      BY DEF IInv, AuthInv, AuthTyped, Tokens
    <3>3. QED
      BY <2>1, <3>1, <3>2 DEF IInv, AuthInv, TokensInv
  <2>5. Phases'
    BY <2>1 DEF IInv, Phases
  <2>6. QED
    BY <2>2, <2>3, <2>4, <2>5 DEF IInv, AuthInv
<1>10. CASE UNCHANGED vars
  BY <1>1, <1>10 DEF vars, authVars, IInv, Phases
<1>11. QED
  BY <1>2, <1>3, <1>4, <1>5, <1>6, <1>7, <1>8, <1>9, <1>10 DEF Next

LEMMA InitKeeps == Init => IInv
<1>1. Init => Phases
  BY DEF Init, AuthInit, Phases
<1>2. QED
  BY <1>1, InitAuth DEF IInv

LEMMA Kept == Spec => []IInv
BY InitKeeps, StepKeeps, PTL DEF Spec

-----------------------------------------------------------------------------
(* What follows.                                                           *)

\* However often a start is cut short, the tables are those of the versions on
\* record, without a gap, and requests are answered on the newest schema only.
THEOREM SchemaStaysRecorded == Spec => []SchemaIsRecorded
<1>1. MigrationInv => SchemaIsRecorded
  BY DEF MigrationInv, Recorded, SchemaIsRecorded
<1>2. QED
  BY <1>1, Migrated, PTL

\* Upgrading gives every book exactly one original revision, and rewrites every
\* stored time so that texts compare like instants.
THEOREM MigrationsAreComplete == Spec => []MigratedData
<1>1. MigrationInv => MigratedData
  <2> SUFFICES ASSUME MigrationInv
               PROVE  MigratedData
    OBVIOUS
  <2>1. WellFormed(db) /\ db.schema = db.recorded /\ \E version \in 0..5 : db.recorded = 1..version
    BY DEF MigrationInv, Recorded
  <2>2. StoredTimesAreFixed
    BY <2>1 DEF WellFormed, StoredTimesAreFixed
  <2>3. ASSUME 4 \in db.recorded, NEW book \in db.books
        PROVE  /\ book.revision # NoText
               /\ Cardinality({original \in db.originals : original.book = book.id}) = 1
               /\ \A original \in db.originals :
                    original.book = book.id => original.revision = book.revision
    <3>1. 3 \in db.schema /\ 4 \in db.schema
      BY <2>1, <2>3
    <3>2. book.revision.layout = "fixed"
      BY <2>1, <3>1 DEF WellFormed
    <3>3. book.revision # NoText
      BY <3>2 DEF NoText
    <3>4. PICK original \in db.originals :
            /\ original.revision = book.revision
            /\ \A other \in db.originals : other.book = book.id <=> other = original
      BY <2>1, <3>1 DEF WellFormed
    <3>5. {other \in db.originals : other.book = book.id} = {original}
      BY <3>4
    <3>6. QED
      BY <3>3, <3>4, <3>5, FS_Singleton
  <2>4. QED
    BY <2>2, <2>3 DEF MigratedData, BooksHaveOneOriginal
<1>2. QED
  BY <1>1, Migrated, PTL

\* After a change of the password no session opened with the old one is good
\* for anything, but for a login the change overtook.
THEOREM PasswordChangesEndSessions == Spec => []OldPasswordsOpenNothing
<1>1. IInv => OldPasswordsOpenNothing
  BY DEF IInv, AuthInv, PasswordsInv, OldPasswordsOpenNothing
<1>2. QED
  BY <1>1, Kept, PTL

\* Access tokens are issued from sessions that are alive, however logins,
\* refreshes, logouts and password changes interleave.
THEOREM TokensComeFromSessions == Spec => []AccessEndsWithSession
<1>1. IInv => AccessEndsWithSession
  BY DEF IInv, AuthInv, TokensInv, AccessEndsWithSession
<1>2. QED
  BY <1>1, Kept, PTL

\* Stops, upgrades and starts with any configuration leave the account and the
\* sessions as they are, and never make a second account.
THEOREM RestartsKeepAccounts == Spec => RestartKeepsAccounts
<1>1. ASSUME IInv, [Next]_vars
      PROVE  [KeepsAccounts]_vars
  <2> SUFFICES ASSUME ~UNCHANGED vars, phase # "serving" \/ phase' # "serving"
               PROVE  /\ users # {} => users' = users
                      /\ Cardinality(users') <= 1
                      /\ sessions' = sessions
    BY DEF KeepsAccounts
  <2>1. \A user, other \in users' : user = other
    BY <1>1, StepKeeps DEF IInv, AuthInv, AuthTyped
  <2>2. Cardinality(users') <= 1
    <3>1. CASE users' = {}
      BY <3>1, FS_EmptySet
    <3>2. CASE users' # {}
      <4>1. PICK user : user \in users'
        BY <3>2
      <4>2. users' = {user}
        BY <2>1, <4>1
      <4>3. QED
        BY <4>2, FS_Singleton
    <3>3. QED
      BY <3>1, <3>2
  <2>3. CASE Bootstrap
    <3>1. users = {}
      BY <1>1, <2>3 DEF Bootstrap, IInv, Phases
    <3>2. sessions' = sessions
      BY <2>3 DEF Bootstrap, CreateAdmin
    <3>3. QED
      BY <2>2, <3>1, <3>2
  <2>4. CASE Start \/ Migrate \/ FinishMigrating \/ Prepare \/ Stop \/ PassTime
    BY <2>2, <2>4 DEF Start, Migrate, FinishMigrating, Prepare, Stop, PassTime, Tick, authVars
  <2>5. CASE Serve
    BY <2>5 DEF Serve, processVars
  <2>6. QED
    BY <1>1, <2>3, <2>4, <2>5 DEF Next
<1>2. QED
  BY <1>1, Kept, PTL DEF Spec, RestartKeepsAccounts
=============================================================================
