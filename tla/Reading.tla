------------------------------ MODULE Reading ------------------------------
(***************************************************************************)
(* reading.Service: devices, reading progress and daily totals.            *)
(*                                                                         *)
(* Devices report how far they have read and how long; the server keeps    *)
(* one row per book and device and one per book, device and day.  A reply  *)
(* is put together from several statements, and between two statements     *)
(* any other request may run.  A transaction is one step, because the      *)
(* server has a single connection and keeps it from BEGIN to COMMIT.       *)
(*                                                                         *)
(* The clients are not part of the repository: a device reads on, reports  *)
(* what it has read, and may report it again when an answer is late, so    *)
(* several of its reports can be under way, and arrive in any order.  A    *)
(* lost answer, a failed statement and a crash of the server look the same *)
(* from outside: the request ends early (Fail).                            *)
(*                                                                         *)
(* An operator whose name ends in Bug is not part of the model: it is the  *)
(* definition after it with a plausible mistake, kept to make sure that a  *)
(* property notices the mistake.                                           *)
(***************************************************************************)
EXTENDS Naturals, FiniteSets

CONSTANTS
  Requests,         \* slots in which the server handles requests
  Devices, Books, Days,
  MaxClock,         \* bound: how far the server's clock runs
  MaxReadings,      \* bound: how often a device reads on in a book
  MaxAccepted,      \* bound: requests accepted over a behaviour
  MaxRevision       \* bound: publications of a book, plus one

ASSUME BoundsAssumption ==
  {MaxClock, MaxReadings, MaxAccepted, MaxRevision} \subseteq Nat

VARIABLES
  shelf,            \* the rows of table books, as far as they matter here
  devices,          \* the rows of table devices
  progress,         \* the rows of table reading_progress
  daily,            \* table reading_daily: seconds per book, device and day
  clock,            \* the server's clock
  local,            \* what each device has read, on the device itself
  req,              \* what every request is doing, and its local variables
  accepted          \* requests accepted so far

rows == <<shelf, devices, progress, daily>>
vars == <<shelf, devices, progress, daily, clock, local, req, accepted>>

BookRow == [state : {"live", "archived", "gone"}, revision : Nat]

DeviceRow == [state : {"active", "disabled"}, name : {"system", "chosen"}]

NoDevice == [state |-> "unknown", name |-> ""]

\* A locator is the revision it was taken on and the count of the device's
\* readings, which is also the client's own time stamp.
Row ==
  [book : Books, device : Devices, revision : Nat, at : Nat, updated : Nat]

Report ==
  [book : Books, device : Devices, revision : Nat, at : Nat, totals : [Days -> Nat]]

Pairs == Books \X Devices

NoTotals == [day \in Days |-> 0]

\* Sets of at most one row stand for the row or nil of a Go pointer.
Idle ==
  [pc |-> "idle",
   report |-> {},        \* PutProgress: its input
   book |-> {},          \* the book asked for
   device |-> {},        \* the device asked for, if any
   sent |-> 0,           \* the server's clock when the request came in
   written |-> 0,        \* PutProgress: updated_at of the row it wrote
   current |-> 0,        \* the reply: content revision of the book,
   own |-> {},           \* the row of the device, and
   global |-> {},        \* the newest row of any device
   ownMismatch |-> FALSE]

At(r, pc) == req[r].pc = pc

Become(r, next) == req' = [req EXCEPT ![r] = next]

Return(r) == Become(r, Idle)

Live(b) == shelf[b].state = "live"

Kept(b) == shelf[b].state # "gone"

Active(d) == devices[d].state = "active"

Init ==
  /\ shelf = [b \in Books |-> [state |-> "live", revision |-> 1]]
  /\ devices = [d \in Devices |-> NoDevice]
  /\ progress = {}
  /\ daily = [pair \in Pairs |-> NoTotals]
  /\ clock = 1
  /\ local = [pair \in Pairs |-> [at |-> 0, totals |-> NoTotals]]
  /\ req = [r \in Requests |-> Idle]
  /\ accepted = 0

(***************************************************************************)
(* Around the service: time passes, devices read, books are published,     *)
(* archived and deleted.                                                   *)
(***************************************************************************)
Tick ==
  /\ clock < MaxClock
  /\ clock' = clock + 1
  /\ UNCHANGED <<rows, local, req, accepted>>

Further(read, day) ==
  [at |-> read.at + 1, totals |-> [read.totals EXCEPT ![day] = @ + 1]]

ReadOn(b, d) ==
  /\ local[<<b, d>>].at < MaxReadings
  /\ \E day \in Days : local' = [local EXCEPT ![<<b, d>>] = Further(@, day)]
  /\ UNCHANGED <<rows, clock, req, accepted>>

PublishBook(b) ==
  /\ Live(b)
  /\ shelf[b].revision < MaxRevision
  /\ shelf' = [shelf EXCEPT ![b].revision = @ + 1]
  /\ UNCHANGED <<devices, progress, daily, clock, local, req, accepted>>

ArchiveBook(b) ==
  /\ Live(b)
  /\ shelf' = [shelf EXCEPT ![b].state = "archived"]
  /\ UNCHANGED <<devices, progress, daily, clock, local, req, accepted>>

DeletedTotalsBug(b) == daily

DeletedTotals(b) ==
  [pair \in Pairs |-> IF pair[1] = b THEN NoTotals ELSE daily[pair]]

\* The transaction of Delete; the book may have been archived since Delete
\* looked for it, so any row that exists can be meant.
DeleteBook(b) ==
  /\ Kept(b)
  /\ shelf' = [shelf EXCEPT ![b].state = "gone"]
  /\ progress' = {p \in progress : p.book # b}
  /\ daily' = DeletedTotals(b)
  /\ UNCHANGED <<devices, clock, local, req, accepted>>

(***************************************************************************)
(* Devices.  Each operation is one statement, and one that matches no row  *)
(* is refused and changes nothing; the row read back for the reply is left *)
(* out.                                                                    *)
(***************************************************************************)
Accept ==
  /\ accepted < MaxAccepted
  /\ accepted' = accepted + 1

RegisteredBug(d) == [state |-> "active", name |-> "system"]

\* INSERT takes the display name of the report, ON CONFLICT keeps the row's.
Registered(d) ==
  [state |-> "active",
   name |-> IF devices[d].state = "unknown" THEN "system" ELSE devices[d].name]

UpsertDevice(d) ==
  /\ Accept
  /\ devices[d].state # "disabled"
  /\ devices' = [devices EXCEPT ![d] = Registered(d)]
  /\ UNCHANGED <<shelf, progress, daily, clock, local, req>>

RenameDevice(d) ==
  /\ Accept
  /\ Active(d)
  /\ devices' = [devices EXCEPT ![d].name = "chosen"]
  /\ UNCHANGED <<shelf, progress, daily, clock, local, req>>

DisableDevice(d) ==
  /\ Accept
  /\ devices[d].state # "unknown"
  /\ devices' = [devices EXCEPT ![d].state = "disabled"]
  /\ UNCHANGED <<shelf, progress, daily, clock, local, req>>

(***************************************************************************)
(* PutProgress: one transaction checks the device and the book, replaces   *)
(* the row of the device and raises its totals; the reply is GetProgress.  *)
(***************************************************************************)
AcceptPut(r, b, d) ==
  /\ At(r, "idle")
  /\ Accept
  /\ local[<<b, d>>].at > 0
  /\ \E revision \in 1..shelf[b].revision :
       Become(r, [Idle EXCEPT
                    !.pc = "put", !.book = {b}, !.device = {d}, !.sent = clock,
                    !.report = {[book |-> b, device |-> d, revision |-> revision,
                                 at |-> local[<<b, d>>].at, totals |-> local[<<b, d>>].totals]}])
  /\ UNCHANGED <<rows, clock, local>>

ReceiptTimeBug(r) == req[r].sent

\* updated_at is read from the clock inside the transaction.
ReceiptTime(r) == clock

SamePairBug(p, report) == p.book = report.book

SameReportBug(p, report) ==
  /\ p.book = report.book /\ p.device = report.device
  /\ p.revision = report.revision

SamePair(p, report) == p.book = report.book /\ p.device = report.device

RaisedBug(old, new) == new

Raised(old, new) == [day \in Days |-> IF new[day] > old[day] THEN new[day] ELSE old[day]]

MayReportBug(report) == Live(report.book) /\ devices[report.device].state # "unknown"

MayReport(report) == Live(report.book) /\ Active(report.device)

PutProgress(r) ==
  /\ At(r, "put")
  /\ \E report \in req[r].report :
       \/ /\ MayReport(report)
          /\ progress' = {p \in progress : ~SamePair(p, report)}
               \cup {[book |-> report.book, device |-> report.device,
                      revision |-> report.revision, at |-> report.at,
                      updated |-> ReceiptTime(r)]}
          /\ daily' = [daily EXCEPT ![<<report.book, report.device>>] = Raised(@, report.totals)]
          /\ Become(r, [req[r] EXCEPT !.pc = "readBook", !.written = ReceiptTime(r)])
       \/ ~MayReport(report) /\ Return(r) /\ UNCHANGED <<progress, daily>>
  /\ UNCHANGED <<shelf, devices, clock, local, accepted>>

(***************************************************************************)
(* GetProgress: the book, the device, the row of the device, the newest    *)
(* row; four statements.                                                   *)
(***************************************************************************)
AcceptGet(r, b) ==
  /\ At(r, "idle")
  /\ Accept
  /\ \E asked \in {{}} \cup {{d} : d \in Devices} :
       Become(r, [Idle EXCEPT !.pc = "readBook", !.book = {b}, !.device = asked,
                              !.sent = clock])
  /\ UNCHANGED <<rows, clock, local>>

ReadBook(r) ==
  /\ At(r, "readBook")
  /\ \E b \in req[r].book :
       IF Live(b)
         THEN Become(r, [req[r] EXCEPT
                           !.current = shelf[b].revision,
                           !.pc = IF req[r].device = {} THEN "readGlobal" ELSE "readDevice"])
         ELSE Return(r)
  /\ UNCHANGED <<rows, clock, local, accepted>>

ReadDevice(r) ==
  /\ At(r, "readDevice")
  /\ \E d \in req[r].device :
       IF devices[d].state # "unknown"
         THEN Become(r, [req[r] EXCEPT !.pc = "readOwn"])
         ELSE Return(r)
  /\ UNCHANGED <<rows, clock, local, accepted>>

Mismatch(p) == p.revision # shelf[p.book].revision

ReadOwn(r) ==
  /\ At(r, "readOwn")
  /\ \E b \in req[r].book, d \in req[r].device :
       LET found == {p \in progress : p.book = b /\ p.device = d}
       IN  Become(r, [req[r] EXCEPT !.own = found, !.pc = "readGlobal",
                                    !.ownMismatch = \E p \in found : Mismatch(p)])
  /\ UNCHANGED <<rows, clock, local, accepted>>

NewestBug(b) ==
  {p \in progress : p.book = b /\ \A q \in progress : q.book = b => q.updated >= p.updated}

\* ORDER BY updated_at DESC, then by the device, whose order is not modelled.
Newest(b) ==
  {p \in progress : p.book = b /\ \A q \in progress : q.book = b => q.updated <= p.updated}

ReadGlobal(r) ==
  /\ At(r, "readGlobal")
  /\ \E b \in req[r].book :
       \E found \in {{p} : p \in Newest(b)} \cup {x \in {{}} : Newest(b) = {}} :
         Become(r, [req[r] EXCEPT !.global = found, !.pc = "reply"])
  /\ UNCHANGED <<rows, clock, local, accepted>>

Reply(r) ==
  /\ At(r, "reply")
  /\ Return(r)
  /\ UNCHANGED <<rows, clock, local, accepted>>

\* A statement fails, the client gives up, or the server dies.
Fail(r) ==
  /\ req[r].pc \notin {"idle", "reply"}
  /\ Return(r)
  /\ UNCHANGED <<rows, clock, local, accepted>>

Around ==
  \/ Tick
  \/ \E b \in Books, d \in Devices : ReadOn(b, d)
  \/ \E b \in Books : PublishBook(b) \/ ArchiveBook(b) \/ DeleteBook(b)
  \/ \E d \in Devices : UpsertDevice(d) \/ RenameDevice(d) \/ DisableDevice(d)

Call(r) ==
  \/ \E b \in Books, d \in Devices : AcceptPut(r, b, d)
  \/ \E b \in Books : AcceptGet(r, b)

Step(r) ==
  \/ PutProgress(r) \/ ReadBook(r) \/ ReadDevice(r) \/ ReadOwn(r) \/ ReadGlobal(r)
  \/ Reply(r) \/ Fail(r)

Next ==
  \/ Around
  \/ \E r \in Requests : Call(r) \/ Step(r)

Spec == Init /\ [][Next]_vars
=============================================================================
