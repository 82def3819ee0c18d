------------------------------ MODULE Handlers ------------------------------
(***************************************************************************)
(* What each request takes and gives back, in order: the database          *)
(* connection, of which there is one, and publishMu.                       *)
(*                                                                         *)
(* A program is a sequence of steps, and an operation of the server the    *)
(* set of programs it may run.  Steps:                                     *)
(*   "verify"            the statement of VerifyBearer, without which the  *)
(*                       handler goes no further                           *)
(*   "account"           a statement that signs somebody in or out         *)
(*   "read", "write"     a statement by itself: the connection is taken    *)
(*                       and given back                                    *)
(*   "rows", "close"     a query whose rows are read one by one            *)
(*   "begin", "commit", "rollback"                                         *)
(*   "exec"              a statement of a transaction                      *)
(*   "lock", "unlock"    publishMu                                         *)
(*   "file"              the object store, a converter, a workspace        *)
(* An operation that returns early, with an error or without, is a program *)
(* cut short, see Pool.                                                    *)
(*                                                                         *)
(* The operators are named like the functions they stand for.  Those whose *)
(* names end in Bug stand for a plausible mistake in the next one.         *)
(***************************************************************************)
EXTENDS Naturals, Sequences

CONSTANTS
  MaxRows           \* bound: rows a loop of statements goes over

ASSUME HandlersAssumption == MaxRows \in Nat

Then(first, second) == {p \o q : p \in first, q \in second}

Nothing == {<< >>}

\* A loop that runs the operation once for each of some rows.
ForEach(operation) ==
  LET times[n \in 0..MaxRows] ==
        IF n = 0 THEN Nothing ELSE Nothing \cup Then(operation, times[n - 1])
  IN  times[MaxRows]

Read == {<<"read">>}
Write == {<<"write">>}
Rows == {<<"rows", "close">>}
File == {<<"file">>}

-----------------------------------------------------------------------------
(* auth.Service                                                            *)

Login == {<<"account", "account">>}
ChangePassword == {<<"read", "begin", "exec", "exec", "commit">>}
Refresh == {<<"account">>}
Logout == {<<"account">>}
VerifyBearer == {<<"verify">>}

-----------------------------------------------------------------------------
(* books.Service                                                           *)

setting == Read
setSetting == Write
FilenameTemplate == setting
SetFilenameTemplate == setSetting

List == Rows
Search == List \cup Rows
Get == Read
Open == Then(Get, File)

\* The first file step is the conversion of an upload that is not an EPUB.
Create ==
  Then(Nothing \cup File,
       Then(FilenameTemplate, {<<"file", "begin", "exec", "exec", "commit">>}))

\* With and without a new file name.
UpdateDetails ==
  Then(Get, Then({<<"begin", "exec", "commit">>, <<"file", "begin", "exec", "exec", "commit">>}, Get))

Delete ==
  Then(Get, {<<"rows", "close", "begin", "exec", "exec", "exec", "commit", "file">>})

revision == Read
coverObjectReferenced == Read
currentRevision == Read

\* The rows are closed by the Next that finds no more of them.
pruneRevisions ==
  Then(setting,
       Then(Rows, ForEach(Then({<<"write", "file">>}, Nothing \cup Then(coverObjectReferenced, Nothing \cup File)))))

ConflictBug == Then({<<"begin", "exec", "exec">>}, Then(currentRevision, {<<"rollback">>}))

\* The transaction has found that somebody else moved the book, or could not
\* insert the revision.
Conflict ==
  Then({<<"begin", "exec", "exec", "rollback">>, <<"begin", "exec", "rollback">>},
       Then(File, currentRevision))

Published ==
  Then({<<"begin", "exec", "exec", "commit">>}, Then(Get, Then(revision, pruneRevisions)))

\* The file steps: the workspace, the new object and, sometimes, the cover.
publish ==
  Then({<<"lock">>}, Then(Open, Then(File, Then(Published \cup Conflict, {<<"unlock">>}))))

GetContent == Then(Open, File)
ListRevisions == Then(Get, Rows)
RestoreRevision == Then(revision, Then(File, publish))

-----------------------------------------------------------------------------
(* reading.Service                                                         *)

device == Read
progress == Read
deviceBooks == Rows

UpsertDevice == Then(Write, device)
RenameDevice == Then(Write, device)
DisableDevice == Write

GetDevice == Then(device, Then(deviceBooks, Read))

ListDevicesBug == Then({<<"rows">>}, Then(ForEach(GetDevice), {<<"close">>}))

ListDevices == Then(Rows, ForEach(GetDevice))

Dashboard == Then(ListDevices, Then(progress, Nothing \cup Read))

DeviceActivity == Then(device, Rows)

GetProgress == Then(Read, Then(Nothing \cup Then(device, progress), progress))

\* Two statements that look at the device and the book, one for the row and one
\* for each day.
PutProgress ==
  Then({<<"begin", "exec", "exec", "exec">>},
       Then(ForEach({<<"exec">>}), Then({<<"commit">>}, GetProgress)))

-----------------------------------------------------------------------------
(* httpapi: the handlers.                                                  *)

requireUser == VerifyBearer

rootPage == VerifyBearer
loginPage == VerifyBearer
login == Login
webLogin == Login
refresh == Refresh
logout == Logout
me == VerifyBearer

listBooks == Then(requireUser, Search)
getBook == Then(requireUser, Get)
conversionStatus == requireUser
uploadBook == Then(requireUser, Create)
downloadBook == Then(requireUser, Open)
archiveBook == Then(requireUser, Delete)

booksPage == Then(requireUser, List)
webUploadBook == Then(requireUser, Create)
webDeleteBook == Then(requireUser, Delete)
novelsPage == Then(requireUser, List)

updateNovelBug == UpdateDetails

updateNovel == Then(requireUser, UpdateDetails)
syncPage == Then(requireUser, Dashboard)
renameSyncDevice == Then(requireUser, RenameDevice)
disableSyncDevice == Then(requireUser, DisableDevice)
settingsPage == Then(requireUser, FilenameTemplate)
updateFilenameTemplate == Then(requireUser, SetFilenameTemplate)
updatePassword == Then(requireUser, ChangePassword)
webLogout == requireUser

putCurrentDevice == Then(requireUser, UpsertDevice)
listReadingDevices == Then(requireUser, ListDevices)
getReadingDevice == Then(requireUser, GetDevice)
patchReadingDevice == Then(requireUser, RenameDevice)
deleteReadingDevice == Then(requireUser, DisableDevice)
getBookProgress == Then(requireUser, GetProgress)
putBookProgress == Then(requireUser, PutProgress)
getDeviceActivity == Then(requireUser, DeviceActivity)

\* Editing has no routes yet; its handlers will begin like the others.
edits == Then(requireUser, publish \cup RestoreRevision \cup ListRevisions \cup GetContent)

registerReadingRoutes ==
  putCurrentDevice \cup listReadingDevices \cup getReadingDevice \cup patchReadingDevice
  \cup deleteReadingDevice \cup getBookProgress \cup putBookProgress \cup getDeviceActivity

\* NewHandler
Programs ==
  rootPage \cup login \cup refresh \cup logout \cup me \cup loginPage \cup webLogin
  \cup listBooks \cup uploadBook \cup getBook \cup downloadBook \cup conversionStatus \cup archiveBook
  \cup booksPage \cup webUploadBook \cup webDeleteBook \cup novelsPage \cup updateNovel \cup syncPage
  \cup settingsPage \cup updateFilenameTemplate \cup updatePassword \cup webLogout
  \cup renameSyncDevice \cup disableSyncDevice
  \cup registerReadingRoutes
  \cup edits
=============================================================================
