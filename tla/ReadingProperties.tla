------------------------- MODULE ReadingProperties -------------------------
(***************************************************************************)
(* What progress synchronization must never do, whatever requests          *)
(* interleave with and in whatever order reports arrive.                   *)
(***************************************************************************)
EXTENDS Reading

Points == {"idle", "put", "readBook", "readDevice", "readOwn", "readGlobal", "reply"}

RequestType ==
  [pc : Points, report : SUBSET Report, book : SUBSET Books, device : SUBSET Devices,
   sent : Nat, written : Nat, current : Nat, own : SUBSET Row, global : SUBSET Row,
   ownMismatch : BOOLEAN]

SameOwner(p, q) == p.book = q.book /\ p.device = q.device

\* Rows and local variables have the types the code gives them, and table
\* reading_progress has one row for a book and a device.
TypeOK ==
  /\ shelf \in [Books -> BookRow]
  /\ devices \in [Devices -> DeviceRow \cup {NoDevice}]
  /\ progress \subseteq Row
  /\ \A p, q \in progress : SameOwner(p, q) => p = q
  /\ daily \in [Pairs -> [Days -> Nat]]
  /\ clock \in Nat
  /\ local \in [Pairs -> [at : Nat, totals : [Days -> Nat]]]
  /\ req \in [Requests -> RequestType]
  /\ accepted \in Nat

\* Totals have a progress row beside them: both are written by one transaction
\* and removed with the book, and only a registered device has either.
TotalsBelongToProgress ==
  \A b \in Books, d \in Devices :
    daily[<<b, d>>] # NoTotals =>
      /\ Kept(b) /\ devices[d].state # "unknown"
      /\ \E p \in progress : p.book = b /\ p.device = d

\* However often and in whatever order a device repeats its reports, a total
\* stays what it was or grows, as long as the book is kept, and never exceeds
\* what the device has read.
TotalsGrow ==
  \A b \in Books, d \in Devices, day \in Days :
    /\ Kept(b)' => daily'[<<b, d>>][day] >= daily[<<b, d>>][day]
    /\ daily'[<<b, d>>][day] <= local'[<<b, d>>].totals[day]

TotalsOnlyGrow == [][TotalsGrow]_vars

\* A disabled device writes nothing, not even with a report that came in before
\* it was disabled, and loses nothing, unless the book is deleted.
DisabledDevicesRest ==
  \A d \in Devices : devices[d].state = "disabled" =>
    /\ devices'[d] = devices[d]
    /\ \A b \in Books : Kept(b)' =>
         /\ daily'[<<b, d>>] = daily[<<b, d>>]
         /\ \A p \in progress \cup progress' :
              p.book = b /\ p.device = d => p \in progress /\ p \in progress'

DisabledDevicesKeepTheirRows == [][DisabledDevicesRest]_vars

\* A report changes the row of its own device and no other, so the last
\* position of every device survives the reports of the others.
OneRowChanges ==
  \A b \in Books : Kept(b)' =>
    /\ \A p \in progress : p.book = b => \E q \in progress' : SameOwner(p, q)
    /\ \A p, q \in progress :
         p.book = b /\ p \notin progress' /\ q \notin progress' => p = q

OtherRowsSurvive == [][OneRowChanges]_vars

\* A report is never recorded as older than one recorded before it, so the
\* newest row of a book is the one received last, even when the report waited.
NewRowsAreNewest ==
  \A p \in progress' \ progress : \A q \in progress' : q.updated <= p.updated

LastReceivedIsNewest == [][NewRowsAreNewest]_vars

\* The name the user gave a device outlives registrations, also those sent
\* before the device was renamed.
ChosenNamesAreKept ==
  \A d \in Devices : devices[d].name = "chosen" => devices'[d].name = "chosen"

ChosenNamesStay == [][ChosenNamesAreKept]_vars

\* The reply to a report shows the row it wrote, or a later one of that device,
\* and no row only if the book has been deleted since.
RepliesShowTheReport ==
  \A r \in Requests :
    req[r].pc \in {"readGlobal", "reply"} /\ req[r].written > 0 =>
      \/ \E p \in req[r].own : p.updated >= req[r].written
      \/ req[r].own = {} /\ \A b \in req[r].book : ~Kept(b)

\* The global position of a reply is no older than the position of the device
\* beside it, although other reports come in between the two reads.
GlobalIsNoOlder ==
  \A r \in Requests :
    At(r, "reply") =>
      \A p \in req[r].own :
        \/ \E q \in req[r].global : q.updated >= p.updated
        \/ ~Kept(p.book)

(***************************************************************************)
(* The inductive invariant: rows carry times the clock has shown, and      *)
(* neither a total nor a report under way claims more than its device has  *)
(* read.                                                                   *)
(***************************************************************************)
NotFromTheFuture == \A p \in progress : p.updated <= clock

TotalsWereRead ==
  \A pair \in Pairs, day \in Days : daily[pair][day] <= local[pair].totals[day]

ReportsWereRead ==
  \A r \in Requests : \A report \in req[r].report, day \in Days :
    report.totals[day] <= local[<<report.book, report.device>>].totals[day]

RowsWereReported ==
  TypeOK /\ TotalsBelongToProgress /\ NotFromTheFuture /\ TotalsWereRead /\ ReportsWereRead

(***************************************************************************)
(* What documents say and the code does not keep.                          *)
(***************************************************************************)

\* docs/superpowers/specs/2026-07-06-reading-progress-device-management-design.md:
\* a reply has "the current book `contentRevision`" (line 138) and "a
\* `revisionMismatch` flag for each returned locator" (line 139).  The flag is
\* computed against another revision when the book is published in between.
RepliesAreCoherent ==
  \A r \in Requests :
    At(r, "reply") =>
      \A p \in req[r].own : req[r].ownMismatch = (p.revision # req[r].current)

\* docs/HANDOFF.md:95: "Conflict resolution compares device-supplied timestamps."
\* Not so: a delayed report replaces a row of its device with a later time stamp,
\* since PutProgress stores the stamp and compares nothing.
LaterStampStays ==
  \A p \in progress, q \in progress' : SameOwner(p, q) => q.at >= p.at

DeviceTimesDecide == [][LaterStampStays]_vars
=============================================================================
