--------------------------- MODULE ReadingProofs ---------------------------
(***************************************************************************)
(* What holds of devices, progress and totals for every number of devices, *)
(* books, days and requests, and for every bound.                          *)
(***************************************************************************)
EXTENDS ReadingProperties, TLAPS

(***************************************************************************)
(* Types.                                                                  *)
(***************************************************************************)
LEMMA IdleType == Idle \in RequestType
  BY DEF Idle, RequestType, Points

LEMMA BecomeType ==
  ASSUME TypeOK, NEW r \in Requests, NEW next \in RequestType, Become(r, next)
  PROVE  req' \in [Requests -> RequestType]
  BY DEF TypeOK, Become

\* What the reads of a reply put into the local variables of a request.
LEMMA ReadTypes ==
  ASSUME NEW old \in RequestType, NEW pc \in Points, NEW n \in Nat,
         NEW found \in SUBSET Row, NEW flag \in BOOLEAN
  PROVE  /\ [old EXCEPT !.pc = pc] \in RequestType
         /\ [old EXCEPT !.pc = pc, !.written = n] \in RequestType
         /\ [old EXCEPT !.current = n, !.pc = pc] \in RequestType
         /\ [old EXCEPT !.own = found, !.pc = pc, !.ownMismatch = flag] \in RequestType
         /\ [old EXCEPT !.global = found, !.pc = pc] \in RequestType
  BY DEF RequestType

LEMMA RaisedType ==
  ASSUME NEW old \in [Days -> Nat], NEW new \in [Days -> Nat]
  PROVE  Raised(old, new) \in [Days -> Nat]
  BY DEF Raised

\* Updating a row of books or of devices keeps its type.
LEMMA BookRowTypes ==
  ASSUME NEW old \in BookRow
  PROVE  /\ [old EXCEPT !.revision = old.revision + 1] \in BookRow
         /\ [old EXCEPT !.revision = old.revision + 1].state = old.state
         /\ [old EXCEPT !.state = "archived"] \in BookRow
         /\ [old EXCEPT !.state = "archived"].state = "archived"
         /\ [old EXCEPT !.state = "gone"] \in BookRow
  BY DEF BookRow

LEMMA DeviceRowTypes ==
  ASSUME NEW old \in DeviceRow
  PROVE  /\ old.state \in {"active", "disabled"}
         /\ [old EXCEPT !.name = "chosen"] \in DeviceRow
         /\ [old EXCEPT !.name = "chosen"].state = old.state
         /\ [old EXCEPT !.state = "disabled"] \in DeviceRow
         /\ [old EXCEPT !.state = "disabled"].state = "disabled"
         /\ [old EXCEPT !.state = "disabled"].name = old.name
         /\ old.state = "disabled" => [old EXCEPT !.state = "disabled"] = old
  BY DEF DeviceRow

LEMMA UnknownDevice == NoDevice.state = "unknown" /\ NoDevice.name = ""
  BY DEF NoDevice

LEMMA FurtherType ==
  ASSUME NEW read \in [at : Nat, totals : [Days -> Nat]], NEW day \in Days
  PROVE  Further(read, day) \in [at : Nat, totals : [Days -> Nat]]
  BY DEF Further

LEMMA TypedInit ==
  ASSUME Init
  PROVE  TypeOK
<1>1. shelf \in [Books -> BookRow] /\ devices \in [Devices -> DeviceRow \cup {NoDevice}]
  BY DEF Init, BookRow
<1>2. NoTotals \in [Days -> Nat]
  BY DEF NoTotals
<1>3. /\ daily \in [Pairs -> [Days -> Nat]]
      /\ local \in [Pairs -> [at : Nat, totals : [Days -> Nat]]]
  BY <1>2 DEF Init
<1>4. req \in [Requests -> RequestType]
  BY IdleType DEF Init
<1>5. progress \subseteq Row /\ \A p, q \in progress : SameOwner(p, q) => p = q
  BY DEF Init
<1>6. clock \in Nat /\ accepted \in Nat
  BY DEF Init
<1> QED
  BY <1>1, <1>3, <1>4, <1>5, <1>6 DEF TypeOK

LEMMA AroundTypes ==
  ASSUME TypeOK, Around
  PROVE  TypeOK'
<1>1. CASE Tick
  BY <1>1 DEF Tick, TypeOK, rows, SameOwner
<1>2. ASSUME NEW b \in Books, NEW d \in Devices, ReadOn(b, d)
      PROVE  TypeOK'
  <2>1. PICK day \in Days : local' = [local EXCEPT ![<<b, d>>] = Further(@, day)]
    BY <1>2 DEF ReadOn
  <2>2. <<b, d>> \in Pairs
    BY DEF Pairs
  <2>3. local' \in [Pairs -> [at : Nat, totals : [Days -> Nat]]]
    BY <2>1, <2>2, FurtherType DEF TypeOK
  <2>4. UNCHANGED <<shelf, devices, progress, daily, clock, req, accepted>>
    BY <1>2 DEF ReadOn, rows
  <2> QED
    BY <2>3, <2>4 DEF TypeOK, SameOwner
<1>3. ASSUME NEW b \in Books, PublishBook(b)
      PROVE  TypeOK'
  <2>1. shelf' \in [Books -> BookRow]
    BY <1>3, BookRowTypes DEF PublishBook, TypeOK
  <2>2. UNCHANGED <<devices, progress, daily, clock, local, req, accepted>>
    BY <1>3 DEF PublishBook
  <2> QED
    BY <2>1, <2>2 DEF TypeOK, SameOwner
<1>4. ASSUME NEW b \in Books, ArchiveBook(b)
      PROVE  TypeOK'
  <2>1. shelf' \in [Books -> BookRow]
    BY <1>4, BookRowTypes DEF ArchiveBook, TypeOK
  <2>2. UNCHANGED <<devices, progress, daily, clock, local, req, accepted>>
    BY <1>4 DEF ArchiveBook
  <2> QED
    BY <2>1, <2>2 DEF TypeOK, SameOwner
<1>5. ASSUME NEW b \in Books, DeleteBook(b)
      PROVE  TypeOK'
  <2>1. shelf' \in [Books -> BookRow]
    BY <1>5, BookRowTypes DEF DeleteBook, TypeOK
  <2>2. daily' \in [Pairs -> [Days -> Nat]]
    BY <1>5 DEF DeleteBook, TypeOK, DeletedTotals, NoTotals
  <2>3. progress' \subseteq progress /\ UNCHANGED <<devices, clock, local, req, accepted>>
    BY <1>5 DEF DeleteBook
  <2> QED
    BY <2>1, <2>2, <2>3 DEF TypeOK, SameOwner
<1>6. ASSUME NEW d \in Devices, UpsertDevice(d) \/ RenameDevice(d) \/ DisableDevice(d)
      PROVE  TypeOK'
  <2>0. devices[d] \in DeviceRow \/ devices[d] = NoDevice
    BY DEF TypeOK
  <2>1. Registered(d) \in DeviceRow
    BY <2>0, UnknownDevice DEF Registered, DeviceRow
  <2>2. ASSUME UpsertDevice(d) PROVE devices' \in [Devices -> DeviceRow \cup {NoDevice}]
    BY <2>1, <2>2 DEF UpsertDevice, TypeOK
  <2>3. ASSUME RenameDevice(d) PROVE devices' \in [Devices -> DeviceRow \cup {NoDevice}]
    BY DeviceRowTypes, UnknownDevice, <2>0, <2>3 DEF RenameDevice, Active, TypeOK
  <2>4. ASSUME DisableDevice(d) PROVE devices' \in [Devices -> DeviceRow \cup {NoDevice}]
    BY DeviceRowTypes, UnknownDevice, <2>0, <2>4 DEF DisableDevice, TypeOK
  <2>5. devices' \in [Devices -> DeviceRow \cup {NoDevice}]
    BY <1>6, <2>2, <2>3, <2>4
  <2>6. accepted' \in Nat /\ UNCHANGED <<shelf, progress, daily, clock, local, req>>
    BY <1>6 DEF UpsertDevice, RenameDevice, DisableDevice, Accept, TypeOK
  <2> QED
    BY <2>5, <2>6 DEF TypeOK, SameOwner
<1> QED
  BY <1>1, <1>2, <1>3, <1>4, <1>5, <1>6 DEF Around

LEMMA AcceptPutTypes ==
  ASSUME TypeOK, NEW r \in Requests, NEW b \in Books, NEW d \in Devices, AcceptPut(r, b, d)
  PROVE  TypeOK'
<1>1. PICK revision \in 1..shelf[b].revision :
        Become(r, [Idle EXCEPT
                     !.pc = "put", !.book = {b}, !.device = {d}, !.sent = clock,
                     !.report = {[book |-> b, device |-> d, revision |-> revision,
                                  at |-> local[<<b, d>>].at,
                                  totals |-> local[<<b, d>>].totals]}])
  BY DEF AcceptPut
<1>2. <<b, d>> \in Pairs
  BY DEF Pairs
<1>3. [book |-> b, device |-> d, revision |-> revision, at |-> local[<<b, d>>].at,
       totals |-> local[<<b, d>>].totals] \in Report
  <2>1. local[<<b, d>>] \in [at : Nat, totals : [Days -> Nat]]
    BY <1>2 DEF TypeOK
  <2>2. shelf[b].revision \in Nat
    BY DEF TypeOK, BookRow
  <2> QED
    BY <2>1, <2>2 DEF Report
<1>4. req' \in [Requests -> RequestType]
  <2>1. ASSUME NEW report \in Report
        PROVE  [Idle EXCEPT !.pc = "put", !.book = {b}, !.device = {d}, !.sent = clock,
                            !.report = {report}] \in RequestType
    BY IdleType DEF RequestType, Points, TypeOK
  <2> QED
    BY <1>1, <1>3, <2>1, BecomeType
<1>5. accepted' \in Nat /\ UNCHANGED <<rows, clock, local>>
  BY DEF AcceptPut, Accept, TypeOK
<1> QED
  BY <1>4, <1>5 DEF TypeOK, rows, SameOwner

LEMMA AcceptGetTypes ==
  ASSUME TypeOK, NEW r \in Requests, NEW b \in Books, AcceptGet(r, b)
  PROVE  TypeOK'
<1>1. PICK asked \in {{}} \cup {{d} : d \in Devices} :
        Become(r, [Idle EXCEPT !.pc = "readBook", !.book = {b}, !.device = asked,
                               !.sent = clock])
  BY DEF AcceptGet
<1>2. asked \in SUBSET Devices
  OBVIOUS
<1>3. req' \in [Requests -> RequestType]
  <2>1. [Idle EXCEPT !.pc = "readBook", !.book = {b}, !.device = asked, !.sent = clock]
          \in RequestType
    BY <1>2, IdleType DEF RequestType, Points, TypeOK
  <2> QED
    BY <1>1, <2>1, BecomeType
<1>4. accepted' \in Nat /\ UNCHANGED <<rows, clock, local>>
  BY DEF AcceptGet, Accept, TypeOK
<1> QED
  BY <1>3, <1>4 DEF TypeOK, rows, SameOwner

\* A request that only reads changes nothing but its local variables.
LEMMA OnlyReads ==
  ASSUME TypeOK, NEW r \in Requests, NEW next \in RequestType, Become(r, next),
         UNCHANGED <<rows, clock, local, accepted>>
  PROVE  TypeOK'
  BY BecomeType DEF TypeOK, rows, SameOwner

LEMMA PutTypes ==
  ASSUME TypeOK, NEW r \in Requests, PutProgress(r)
  PROVE  TypeOK'
<1> USE DEF PutProgress
<1>1. PICK report \in req[r].report :
        \/ /\ MayReport(report)
           /\ progress' = {p \in progress : ~SamePair(p, report)}
                \cup {[book |-> report.book, device |-> report.device,
                       revision |-> report.revision, at |-> report.at,
                       updated |-> ReceiptTime(r)]}
           /\ daily' = [daily EXCEPT ![<<report.book, report.device>>] =
                                       Raised(@, report.totals)]
           /\ Become(r, [req[r] EXCEPT !.pc = "readBook", !.written = ReceiptTime(r)])
        \/ ~MayReport(report) /\ Return(r) /\ UNCHANGED <<progress, daily>>
  OBVIOUS
<1>2. report \in Report
  BY DEF TypeOK, RequestType
<1>3. CASE Return(r) /\ UNCHANGED <<progress, daily>>
  BY <1>3, IdleType, OnlyReads DEF Return, rows
<1>4. CASE /\ progress' = {p \in progress : ~SamePair(p, report)}
                \cup {[book |-> report.book, device |-> report.device,
                       revision |-> report.revision, at |-> report.at,
                       updated |-> ReceiptTime(r)]}
           /\ daily' = [daily EXCEPT ![<<report.book, report.device>>] =
                                       Raised(@, report.totals)]
           /\ Become(r, [req[r] EXCEPT !.pc = "readBook", !.written = ReceiptTime(r)])
  <2>1. [book |-> report.book, device |-> report.device, revision |-> report.revision,
         at |-> report.at, updated |-> ReceiptTime(r)] \in Row
    BY <1>2 DEF Report, Row, ReceiptTime, TypeOK
  <2>2. progress' \subseteq Row
    BY <1>4, <2>1 DEF TypeOK
  <2>3. \A p, q \in progress' : SameOwner(p, q) => p = q
    BY <1>4 DEF TypeOK, SameOwner, SamePair
  <2>4. <<report.book, report.device>> \in Pairs /\ report.totals \in [Days -> Nat]
    BY <1>2 DEF Report, Pairs
  <2>5. daily' \in [Pairs -> [Days -> Nat]]
    BY <1>4, <2>4, RaisedType DEF TypeOK
  <2>6. req' \in [Requests -> RequestType]
    <3>1. "readBook" \in Points /\ ReceiptTime(r) \in Nat /\ req[r] \in RequestType
      BY DEF Points, ReceiptTime, TypeOK
    <3>2. [req[r] EXCEPT !.pc = "readBook", !.written = ReceiptTime(r)] \in RequestType
      BY <3>1, ReadTypes
    <3> QED
      BY <1>4, <3>2, BecomeType
  <2>7. UNCHANGED <<shelf, devices, clock, local, accepted>>
    OBVIOUS
  <2> QED
    BY <2>2, <2>3, <2>5, <2>6, <2>7 DEF TypeOK
<1> QED
  BY <1>1, <1>3, <1>4

LEMMA ReadStepTypes ==
  ASSUME TypeOK, NEW r \in Requests,
         \/ ReadBook(r) \/ ReadDevice(r) \/ ReadOwn(r) \/ ReadGlobal(r)
         \/ Reply(r) \/ Fail(r)
  PROVE  TypeOK'
<1>1. req[r] \in RequestType
  BY DEF TypeOK
<1>2. UNCHANGED <<rows, clock, local, accepted>>
  BY DEF ReadBook, ReadDevice, ReadOwn, ReadGlobal, Reply, Fail
<1>3. CASE Return(r)
  BY <1>2, <1>3, IdleType, OnlyReads DEF Return
<1>4. CASE ReadBook(r)
  <2>1. PICK b \in req[r].book :
          IF Live(b)
            THEN Become(r, [req[r] EXCEPT
                              !.current = shelf[b].revision,
                              !.pc = IF req[r].device = {} THEN "readGlobal" ELSE "readDevice"])
            ELSE Return(r)
    BY <1>4 DEF ReadBook
  <2>2. shelf[b].revision \in Nat
    BY <1>1 DEF RequestType, TypeOK, BookRow
  <2>3. (IF req[r].device = {} THEN "readGlobal" ELSE "readDevice") \in Points
    BY DEF Points
  <2>4. [req[r] EXCEPT
           !.current = shelf[b].revision,
           !.pc = IF req[r].device = {} THEN "readGlobal" ELSE "readDevice"] \in RequestType
    BY <1>1, <2>2, <2>3, ReadTypes
  <2> QED
    BY <1>2, <1>3, <2>1, <2>4, OnlyReads
<1>5. CASE ReadDevice(r)
  <2>1. Become(r, [req[r] EXCEPT !.pc = "readOwn"]) \/ Return(r)
    BY <1>5 DEF ReadDevice
  <2>2. [req[r] EXCEPT !.pc = "readOwn"] \in RequestType
    BY <1>1, ReadTypes DEF Points
  <2> QED
    BY <1>2, <1>3, <2>1, <2>2, OnlyReads
<1>6. CASE ReadOwn(r)
  <2>1. PICK b \in req[r].book, d \in req[r].device :
          LET found == {p \in progress : p.book = b /\ p.device = d}
          IN  Become(r, [req[r] EXCEPT !.own = found, !.pc = "readGlobal",
                                       !.ownMismatch = \E p \in found : Mismatch(p)])
    BY <1>6 DEF ReadOwn
  <2> DEFINE found == {p \in progress : p.book = b /\ p.device = d}
  <2>2. found \in SUBSET Row /\ (\E p \in found : Mismatch(p)) \in BOOLEAN
    BY DEF TypeOK
  <2>3. [req[r] EXCEPT !.own = found, !.pc = "readGlobal",
                       !.ownMismatch = \E p \in found : Mismatch(p)] \in RequestType
    <3>1. "readGlobal" \in Points
      BY DEF Points
    <3> HIDE DEF found
    <3> QED
      BY <1>1, <2>2, <3>1, ReadTypes
  <2> QED
    BY <1>2, <2>1, <2>3, OnlyReads
<1>7. CASE ReadGlobal(r)
  <2>1. PICK b \in req[r].book :
          \E found \in {{p} : p \in Newest(b)} \cup {x \in {{}} : Newest(b) = {}} :
            Become(r, [req[r] EXCEPT !.global = found, !.pc = "reply"])
    BY <1>7 DEF ReadGlobal
  <2>2. PICK found \in {{p} : p \in Newest(b)} \cup {x \in {{}} : Newest(b) = {}} :
          Become(r, [req[r] EXCEPT !.global = found, !.pc = "reply"])
    BY <2>1
  <2>3. found \in SUBSET Row
    BY DEF TypeOK, Newest
  <2>4. [req[r] EXCEPT !.global = found, !.pc = "reply"] \in RequestType
    BY <1>1, <2>3, ReadTypes DEF Points
  <2> QED
    BY <1>2, <2>2, <2>4, OnlyReads
<1>8. CASE Reply(r) \/ Fail(r)
  BY <1>3, <1>8 DEF Reply, Fail
<1> QED
  BY <1>4, <1>5, <1>6, <1>7, <1>8

LEMMA TypedStep ==
  ASSUME TypeOK, [Next]_vars
  PROVE  TypeOK'
<1>1. CASE UNCHANGED vars
  BY <1>1 DEF vars, TypeOK, SameOwner
<1>2. CASE Next
  BY <1>2, AroundTypes, AcceptPutTypes, AcceptGetTypes, PutTypes, ReadStepTypes
     DEF Next, Call, Step
<1> QED
  BY <1>1, <1>2

\* Rows and local variables are typed, and a device has one row for a book.
THEOREM Typed == Spec => []TypeOK
<1>1. Init => TypeOK
  BY TypedInit
<1>2. TypeOK /\ [Next]_vars => TypeOK'
  BY TypedStep
<1> QED
  BY <1>1, <1>2, PTL DEF Spec

(***************************************************************************)
(* What one step can do.                                                   *)
(***************************************************************************)
\* The rows a report that is accepted leaves behind.
Reported(r, report) ==
  /\ report \in Report
  /\ MayReport(report)
  /\ progress' = {p \in progress : ~SamePair(p, report)}
       \cup {[book |-> report.book, device |-> report.device,
              revision |-> report.revision, at |-> report.at, updated |-> clock]}
  /\ daily' = [daily EXCEPT ![<<report.book, report.device>>] = Raised(@, report.totals)]
  /\ UNCHANGED <<shelf, devices, clock, local>>

\* Rows change only when a report is recorded or a book deleted.
LEMMA RowChanges ==
  ASSUME TypeOK, [Next]_vars
  PROVE  \/ UNCHANGED <<progress, daily>>
         \/ \E b \in Books : DeleteBook(b)
         \/ \E r \in Requests : \E report \in req[r].report : Reported(r, report)
<1>1. CASE UNCHANGED vars
  BY <1>1 DEF vars
<1>2. CASE Around
  BY <1>2 DEF Around, Tick, ReadOn, PublishBook, ArchiveBook, UpsertDevice, RenameDevice,
     DisableDevice, rows
<1>3. ASSUME NEW r \in Requests, Call(r)
      PROVE  UNCHANGED <<progress, daily>>
  BY <1>3 DEF Call, AcceptPut, AcceptGet, rows
<1>4. ASSUME NEW r \in Requests, Step(r), ~PutProgress(r)
      PROVE  UNCHANGED <<progress, daily>>
  BY <1>4 DEF Step, ReadBook, ReadDevice, ReadOwn, ReadGlobal, Reply, Fail, rows
<1>5. ASSUME NEW r \in Requests, PutProgress(r)
      PROVE  \/ UNCHANGED <<progress, daily>>
             \/ \E report \in req[r].report : Reported(r, report)
  <2>1. \A report \in req[r].report : report \in Report
    BY DEF TypeOK, RequestType
  <2> QED
    BY <1>5, <2>1 DEF PutProgress, Reported, ReceiptTime
<1> QED
  BY <1>1, <1>2, <1>3, <1>4, <1>5 DEF Next

\* Time goes on, devices forget nothing they have read, books do not come back,
\* and devices stay registered, disabled and named.
LEMMA Onward ==
  ASSUME TypeOK, [Next]_vars
  PROVE  /\ clock' >= clock
         /\ \A pair \in Pairs, day \in Days :
              local'[pair].totals[day] >= local[pair].totals[day]
         /\ \A b \in Books : /\ Kept(b)' => Kept(b)
                             /\ Kept(b) => Kept(b)' \/ DeleteBook(b)
         /\ \A d \in Devices :
              /\ devices[d].state # "unknown" => devices'[d].state # "unknown"
              /\ devices[d].state = "disabled" => devices'[d] = devices[d]
              /\ devices[d].name = "chosen" => devices'[d].name = "chosen"
<1>1. CASE UNCHANGED <<shelf, devices, clock, local>>
  BY <1>1 DEF TypeOK, Kept
<1>2. CASE Tick
  BY <1>2 DEF Tick, TypeOK, rows, Kept
<1>3. ASSUME NEW b \in Books, NEW d \in Devices, ReadOn(b, d)
      PROVE  /\ UNCHANGED <<shelf, devices, clock>>
             /\ \A pair \in Pairs, day \in Days :
                  local'[pair].totals[day] >= local[pair].totals[day]
  <2>1. PICK today \in Days : local' = [local EXCEPT ![<<b, d>>] = Further(@, today)]
    BY <1>3 DEF ReadOn
  <2>2. <<b, d>> \in Pairs
    BY DEF Pairs
  <2>3. \A read \in [at : Nat, totals : [Days -> Nat]] : \A day \in Days :
          Further(read, today).totals[day] >= read.totals[day]
    BY DEF Further
  <2>4. ASSUME NEW pair \in Pairs, NEW day \in Days
        PROVE  local'[pair].totals[day] >= local[pair].totals[day]
    <3>1. local[pair] \in [at : Nat, totals : [Days -> Nat]]
      BY DEF TypeOK
    <3>2. CASE pair = <<b, d>>
      BY <2>1, <2>2, <2>3, <3>1, <3>2 DEF TypeOK
    <3>3. CASE pair # <<b, d>>
      BY <2>1, <3>1, <3>3 DEF TypeOK
    <3> QED
      BY <3>2, <3>3
  <2> QED
    BY <1>3, <2>4 DEF ReadOn, rows
<1>4. ASSUME NEW b \in Books, PublishBook(b) \/ ArchiveBook(b) \/ DeleteBook(b)
      PROVE  /\ UNCHANGED <<devices, clock, local>>
             /\ \A c \in Books : /\ Kept(c)' => Kept(c)
                                 /\ Kept(c) => Kept(c)' \/ DeleteBook(c)
  <2>1. UNCHANGED <<devices, clock, local>> /\ Kept(b)
    BY <1>4 DEF PublishBook, ArchiveBook, DeleteBook, Live, Kept
  <2>2. ASSUME NEW c \in Books, c # b
        PROVE  shelf'[c] = shelf[c]
    BY <1>4, <2>2 DEF PublishBook, ArchiveBook, DeleteBook, TypeOK
  <2>3. shelf[b] \in BookRow
    BY DEF TypeOK
  <2>4. ASSUME PublishBook(b)
        PROVE  shelf'[b] = [shelf[b] EXCEPT !.revision = shelf[b].revision + 1]
    BY <2>4 DEF PublishBook, TypeOK
  <2>5. ASSUME ArchiveBook(b)
        PROVE  shelf'[b] = [shelf[b] EXCEPT !.state = "archived"]
    BY <2>5 DEF ArchiveBook, TypeOK
  <2>6. Kept(b)' \/ DeleteBook(b)
    BY <1>4, <2>1, <2>3, <2>4, <2>5, BookRowTypes DEF Kept
  <2> QED
    BY <2>1, <2>2, <2>6 DEF Kept
<1>5. ASSUME NEW d \in Devices, UpsertDevice(d) \/ RenameDevice(d) \/ DisableDevice(d)
      PROVE  /\ UNCHANGED <<shelf, clock, local>>
             /\ \A e \in Devices :
                  /\ devices[e].state # "unknown" => devices'[e].state # "unknown"
                  /\ devices[e].state = "disabled" => devices'[e] = devices[e]
                  /\ devices[e].name = "chosen" => devices'[e].name = "chosen"
  <2>1. UNCHANGED <<shelf, clock, local>>
    BY <1>5 DEF UpsertDevice, RenameDevice, DisableDevice
  <2>2. ASSUME NEW e \in Devices, e # d
        PROVE  devices'[e] = devices[e]
    BY <1>5, <2>2 DEF UpsertDevice, RenameDevice, DisableDevice, TypeOK
  <2>3. devices[d] \in DeviceRow \/ devices[d] = NoDevice
    BY DEF TypeOK
  <2> DEFINE Stays == /\ devices[d].state # "unknown" => devices'[d].state # "unknown"
                      /\ devices[d].state = "disabled" => devices'[d] = devices[d]
                      /\ devices[d].name = "chosen" => devices'[d].name = "chosen"
  <2>4. ASSUME UpsertDevice(d)
        PROVE  Stays
    <3>1. devices'[d] = Registered(d) /\ devices[d].state # "disabled"
      BY <2>4 DEF UpsertDevice, TypeOK
    <3>2. Registered(d).state = "active"
      BY DEF Registered
    <3>3. devices[d] \in DeviceRow => Registered(d).name = devices[d].name
      BY DeviceRowTypes DEF Registered
    <3> QED
      BY <2>3, <3>1, <3>2, <3>3, UnknownDevice
  <2>5. ASSUME RenameDevice(d)
        PROVE  Stays
    <3>1. devices'[d] = [devices[d] EXCEPT !.name = "chosen"] /\ devices[d].state = "active"
      BY <2>5 DEF RenameDevice, Active, TypeOK
    <3>2. devices[d] \in DeviceRow
      BY <2>3, <3>1, UnknownDevice
    <3>3. [devices[d] EXCEPT !.name = "chosen"].name = "chosen"
      BY <3>2 DEF DeviceRow
    <3> QED
      BY <3>1, <3>2, <3>3, DeviceRowTypes
  <2>6. ASSUME DisableDevice(d)
        PROVE  Stays
    <3>1. devices'[d] = [devices[d] EXCEPT !.state = "disabled"]
      BY <2>6 DEF DisableDevice, TypeOK
    <3>2. devices[d] \in DeviceRow
      BY <2>3, <2>6, UnknownDevice DEF DisableDevice
    <3> QED
      BY <3>1, <3>2, DeviceRowTypes
  <2> QED
    BY <1>5, <2>1, <2>2, <2>4, <2>5, <2>6
<1>6. ASSUME NEW r \in Requests, Call(r) \/ Step(r)
      PROVE  UNCHANGED <<shelf, devices, clock, local>>
  BY <1>6 DEF Call, Step, AcceptPut, AcceptGet, PutProgress, ReadBook, ReadDevice, ReadOwn,
     ReadGlobal, Reply, Fail, rows
<1>7. CASE Around
  <2>1. clock \in Nat /\ \A pair \in Pairs, day \in Days : local[pair].totals[day] \in Nat
    BY DEF TypeOK
  <2> QED
    BY <1>2, <1>3, <1>4, <1>5, <1>7, <2>1 DEF Around, Kept
<1> QED
  BY <1>1, <1>6, <1>7 DEF Next, vars

\* What deleting a book leaves of the other books, and nothing of its own.
LEMMA DeletedRows ==
  ASSUME TypeOK, NEW b \in Books, DeleteBook(b)
  PROVE  /\ ~Kept(b)'
         /\ \A p : p \in progress' <=> p \in progress /\ p.book # b
         /\ \A c \in Books, d \in Devices :
              daily'[<<c, d>>] = IF c = b THEN NoTotals ELSE daily[<<c, d>>]
<1>1. ~Kept(b)'
  BY DEF DeleteBook, Kept, TypeOK, BookRow
<1>2. \A p : p \in progress' <=> p \in progress /\ p.book # b
  BY DEF DeleteBook
<1>3. ASSUME NEW c \in Books, NEW d \in Devices
      PROVE  daily'[<<c, d>>] = IF c = b THEN NoTotals ELSE daily[<<c, d>>]
  <2>1. <<c, d>> \in Pairs /\ <<c, d>>[1] = c
    BY DEF Pairs
  <2> QED
    BY <2>1 DEF DeleteBook, DeletedTotals
<1> QED
  BY <1>1, <1>2, <1>3

\* A report that is recorded raises the totals of its own pair and no others.
LEMMA ReportedTotals ==
  ASSUME TypeOK, NEW r \in Requests, NEW report \in req[r].report, Reported(r, report)
  PROVE  /\ report.book \in Books /\ report.device \in Devices
         /\ \A pair \in Pairs :
              daily'[pair] = IF pair = <<report.book, report.device>>
                               THEN Raised(daily[pair], report.totals) ELSE daily[pair]
         /\ \A day \in Days :
              /\ report.totals[day] \in Nat
              /\ \A old \in [Days -> Nat] :
                   /\ Raised(old, report.totals)[day] >= old[day]
                   /\ Raised(old, report.totals)[day] \in {old[day], report.totals[day]}
<1>1. report \in Report
  BY DEF Reported
<1>2. <<report.book, report.device>> \in Pairs
  BY <1>1 DEF Report, Pairs
<1>3. \A pair \in Pairs :
        daily'[pair] = IF pair = <<report.book, report.device>>
                         THEN Raised(daily[pair], report.totals) ELSE daily[pair]
  BY <1>2 DEF Reported, TypeOK
<1>4. report.book \in Books /\ report.device \in Devices /\ report.totals \in [Days -> Nat]
  BY <1>1 DEF Report
<1>5. ASSUME NEW day \in Days, NEW old \in [Days -> Nat]
      PROVE  /\ Raised(old, report.totals)[day] >= old[day]
             /\ Raised(old, report.totals)[day] \in {old[day], report.totals[day]}
  BY <1>4 DEF Raised
<1> QED
  BY <1>3, <1>4, <1>5

(***************************************************************************)
(* The inductive invariant.                                                *)
(***************************************************************************)
LEMMA InitReported == Init => RowsWereReported
<1> SUFFICES ASSUME Init PROVE RowsWereReported
  OBVIOUS
<1>1. TypeOK
  BY TypedInit
<1>2. \A pair \in Pairs : daily[pair] = NoTotals /\ local[pair].totals = NoTotals
  BY DEF Init
<1>3. \A day \in Days : NoTotals[day] <= NoTotals[day]
  BY DEF NoTotals
<1>4. TotalsWereRead
  BY <1>2, <1>3 DEF TotalsWereRead
<1>5. TotalsBelongToProgress
  <2>1. \A b \in Books, d \in Devices : <<b, d>> \in Pairs
    BY DEF Pairs
  <2> QED
    BY <1>2, <2>1 DEF TotalsBelongToProgress
<1>6. NotFromTheFuture
  BY DEF Init, NotFromTheFuture
<1>7. ReportsWereRead
  BY DEF Init, Idle, ReportsWereRead
<1> QED
  BY <1>1, <1>4, <1>5, <1>6, <1>7 DEF RowsWereReported

LEMMA TotalsBelongStep ==
  ASSUME RowsWereReported, [Next]_vars
  PROVE  TotalsBelongToProgress'
<1> USE DEF RowsWereReported
<1> SUFFICES ASSUME NEW b \in Books, NEW d \in Devices, daily'[<<b, d>>] # NoTotals
             PROVE  /\ Kept(b)' /\ devices'[d].state # "unknown"
                    /\ \E p \in progress' : p.book = b /\ p.device = d
  BY DEF TotalsBelongToProgress
<1>1. CASE UNCHANGED <<progress, daily>> /\ ~DeleteBook(b)
  BY <1>1, Onward DEF TotalsBelongToProgress
<1>2. ASSUME NEW c \in Books, DeleteBook(c)
      PROVE  /\ Kept(b)' /\ devices'[d].state # "unknown"
             /\ \E p \in progress' : p.book = b /\ p.device = d
  <2>1. daily[<<b, d>>] # NoTotals /\ b # c
    BY <1>2, DeletedRows
  <2>2. Kept(b) /\ shelf'[b] = shelf[b]
    BY <1>2, <2>1 DEF DeleteBook, TypeOK, TotalsBelongToProgress
  <2>3. PICK p \in progress : p.book = b /\ p.device = d
    BY <2>1 DEF TotalsBelongToProgress
  <2>4. p \in progress'
    BY <1>2, <2>1, <2>3, DeletedRows
  <2> QED
    BY <2>1, <2>2, <2>3, <2>4, Onward DEF Kept, TotalsBelongToProgress
<1>3. ASSUME NEW r \in Requests, NEW report \in req[r].report, Reported(r, report)
      PROVE  /\ Kept(b)' /\ devices'[d].state # "unknown"
             /\ \E p \in progress' : p.book = b /\ p.device = d
  <2>1. UNCHANGED <<shelf, devices>>
    BY <1>3 DEF Reported
  <2>2. CASE report.book = b /\ report.device = d
    <3>1. Live(b) /\ Active(d)
      BY <1>3, <2>2 DEF Reported, MayReport
    <3> DEFINE row == [book |-> report.book, device |-> report.device,
                       revision |-> report.revision, at |-> report.at, updated |-> clock]
    <3>2. row \in progress' /\ row.book = b /\ row.device = d
      BY <1>3, <2>2 DEF Reported
    <3> QED
      BY <2>1, <3>1, <3>2 DEF Live, Active, Kept
  <2>3. CASE ~(report.book = b /\ report.device = d)
    <3>1. <<b, d>> \in Pairs /\ <<b, d>> # <<report.book, report.device>>
      BY <2>3 DEF Pairs
    <3>2. daily[<<b, d>>] # NoTotals
      BY <1>3, <3>1, ReportedTotals
    <3>3. PICK p \in progress : p.book = b /\ p.device = d
      BY <3>2 DEF TotalsBelongToProgress
    <3>4. p \in progress'
      BY <1>3, <2>3, <3>3 DEF Reported, SamePair
    <3> QED
      BY <2>1, <3>2, <3>3, <3>4 DEF TotalsBelongToProgress, Kept
  <2> QED
    BY <2>2, <2>3
<1> QED
  BY <1>1, <1>2, <1>3, RowChanges

LEMMA NotFromTheFutureStep ==
  ASSUME RowsWereReported, [Next]_vars
  PROVE  NotFromTheFuture'
<1> USE DEF RowsWereReported
<1>1. clock \in Nat /\ clock' \in Nat /\ clock' >= clock
  BY TypedStep, Onward DEF TypeOK
<1>2. \A p \in progress : p.updated \in Nat /\ p.updated <= clock'
  BY <1>1 DEF TypeOK, Row, NotFromTheFuture
<1>3. CASE UNCHANGED <<progress, daily>>
  BY <1>2, <1>3 DEF NotFromTheFuture
<1>4. ASSUME NEW c \in Books, DeleteBook(c)
      PROVE  NotFromTheFuture'
  BY <1>2, <1>4, DeletedRows DEF NotFromTheFuture
<1>5. ASSUME NEW r \in Requests, NEW report \in req[r].report, Reported(r, report)
      PROVE  NotFromTheFuture'
  BY <1>1, <1>2, <1>5 DEF NotFromTheFuture, Reported
<1> QED
  BY <1>3, <1>4, <1>5, RowChanges

LEMMA TotalsWereReadStep ==
  ASSUME RowsWereReported, [Next]_vars
  PROVE  TotalsWereRead'
<1> USE DEF RowsWereReported
<1> SUFFICES ASSUME NEW pair \in Pairs, NEW day \in Days
             PROVE  daily'[pair][day] <= local'[pair].totals[day]
  BY DEF TotalsWereRead
<1>1. /\ daily[pair] \in [Days -> Nat] /\ local[pair].totals[day] \in Nat
      /\ local'[pair].totals[day] \in Nat
  BY TypedStep DEF TypeOK
<1>2. /\ daily[pair][day] <= local[pair].totals[day]
      /\ local[pair].totals[day] <= local'[pair].totals[day]
  BY Onward DEF TotalsWereRead
<1>3. CASE UNCHANGED <<progress, daily>>
  BY <1>1, <1>2, <1>3
<1>4. ASSUME NEW c \in Books, DeleteBook(c)
      PROVE  daily'[pair][day] <= local'[pair].totals[day]
  <2>1. daily'[pair] = NoTotals \/ daily'[pair] = daily[pair]
    BY <1>4 DEF DeleteBook, DeletedTotals
  <2>2. NoTotals[day] = 0
    BY DEF NoTotals
  <2> QED
    BY <1>1, <1>2, <2>1, <2>2
<1>5. ASSUME NEW r \in Requests, NEW report \in req[r].report, Reported(r, report)
      PROVE  daily'[pair][day] <= local'[pair].totals[day]
  <2>1. CASE pair = <<report.book, report.device>>
    <3>1. daily'[pair][day] \in {daily[pair][day], report.totals[day]}
      BY <1>1, <1>5, <2>1, ReportedTotals
    <3>2. report.totals[day] <= local[pair].totals[day] /\ report.totals[day] \in Nat
      BY <1>5, <2>1, ReportedTotals DEF ReportsWereRead
    <3> QED
      BY <1>1, <1>2, <3>1, <3>2
  <2>2. CASE pair # <<report.book, report.device>>
    BY <1>1, <1>2, <1>5, <2>2, ReportedTotals
  <2> QED
    BY <2>1, <2>2
<1> QED
  BY <1>3, <1>4, <1>5, RowChanges

\* A step leaves the report of a request alone, drops it, or is its acceptance.
LEMMA ReportsUnderWay ==
  ASSUME TypeOK, [Next]_vars, NEW r \in Requests, NEW report \in req'[r].report
  PROVE  \/ report \in req[r].report
         \/ /\ <<report.book, report.device>> \in Pairs
            /\ report.totals = local[<<report.book, report.device>>].totals
<1>1. ASSUME NEW s \in Requests, NEW next, Become(s, next)
      PROVE  report \in req[r].report \/ (r = s /\ report \in next.report)
  BY <1>1 DEF Become, TypeOK
<1>2. req[r] \in RequestType
  BY DEF TypeOK
<1>3. CASE Around \/ UNCHANGED vars
  BY <1>3 DEF Around, Tick, ReadOn, PublishBook, ArchiveBook, DeleteBook, UpsertDevice,
     RenameDevice, DisableDevice, vars
<1>4. ASSUME NEW s \in Requests, Return(s)
      PROVE  report \in req[r].report
  BY <1>1, <1>4 DEF Return, Idle
<1>5. ASSUME NEW s \in Requests, NEW b \in Books, NEW d \in Devices, AcceptPut(s, b, d)
      PROVE  \/ report \in req[r].report
             \/ /\ <<report.book, report.device>> \in Pairs
                /\ report.totals = local[<<report.book, report.device>>].totals
  <2>1. PICK revision \in 1..shelf[b].revision :
          Become(s, [Idle EXCEPT
                       !.pc = "put", !.book = {b}, !.device = {d}, !.sent = clock,
                       !.report = {[book |-> b, device |-> d, revision |-> revision,
                                    at |-> local[<<b, d>>].at,
                                    totals |-> local[<<b, d>>].totals]}])
    BY <1>5 DEF AcceptPut
  <2>2. \A input : [Idle EXCEPT !.pc = "put", !.book = {b}, !.device = {d}, !.sent = clock,
                               !.report = {input}].report = {input}
    BY DEF Idle
  <2>3. \/ report \in req[r].report
        \/ report = [book |-> b, device |-> d, revision |-> revision,
                     at |-> local[<<b, d>>].at, totals |-> local[<<b, d>>].totals]
    BY <1>1, <2>1, <2>2
  <2> QED
    BY <2>3 DEF Pairs
<1>6. ASSUME NEW s \in Requests, NEW b \in Books, AcceptGet(s, b)
      PROVE  report \in req[r].report
  <2>1. PICK asked \in {{}} \cup {{d} : d \in Devices} :
          Become(s, [Idle EXCEPT !.pc = "readBook", !.book = {b}, !.device = asked,
                                 !.sent = clock])
    BY <1>6 DEF AcceptGet
  <2>2. [Idle EXCEPT !.pc = "readBook", !.book = {b}, !.device = asked,
                     !.sent = clock].report = {}
    BY DEF Idle
  <2> QED
    BY <1>1, <2>1, <2>2
<1>7. ASSUME NEW s \in Requests, NEW next, Become(s, next), next.report = req[s].report
      PROVE  report \in req[r].report
  BY <1>1, <1>7
<1>8. ASSUME NEW s \in Requests, Step(s)
      PROVE  report \in req[r].report
  <2>1. req[s] \in RequestType
    BY DEF TypeOK
  <2>2. CASE PutProgress(s)
    <3> DEFINE next == [req[s] EXCEPT !.pc = "readBook", !.written = ReceiptTime(s)]
    <3>1. Become(s, next) \/ Return(s)
      BY <2>2 DEF PutProgress
    <3>2. next.report = req[s].report
      BY <2>1 DEF RequestType
    <3> QED
      BY <1>4, <1>7, <3>1, <3>2
  <2>3. CASE ReadBook(s)
    <3>1. PICK n, pc : Become(s, [req[s] EXCEPT !.current = n, !.pc = pc]) \/ Return(s)
      BY <2>3 DEF ReadBook
    <3> DEFINE next == [req[s] EXCEPT !.current = n, !.pc = pc]
    <3>2. next.report = req[s].report
      BY <2>1 DEF RequestType
    <3> QED
      BY <1>4, <1>7, <3>1, <3>2
  <2>4. CASE ReadDevice(s)
    <3> DEFINE next == [req[s] EXCEPT !.pc = "readOwn"]
    <3>1. Become(s, next) \/ Return(s)
      BY <2>4 DEF ReadDevice
    <3>2. next.report = req[s].report
      BY <2>1 DEF RequestType
    <3> QED
      BY <1>4, <1>7, <3>1, <3>2
  <2>5. CASE ReadOwn(s)
    <3>1. PICK found, flag :
            Become(s, [req[s] EXCEPT !.own = found, !.pc = "readGlobal",
                                     !.ownMismatch = flag])
      BY <2>5 DEF ReadOwn
    <3> DEFINE next == [req[s] EXCEPT !.own = found, !.pc = "readGlobal",
                                      !.ownMismatch = flag]
    <3>2. next.report = req[s].report
      BY <2>1 DEF RequestType
    <3> QED
      BY <1>7, <3>1, <3>2
  <2>6. CASE ReadGlobal(s)
    <3>1. PICK found : Become(s, [req[s] EXCEPT !.global = found, !.pc = "reply"])
      BY <2>6 DEF ReadGlobal
    <3> DEFINE next == [req[s] EXCEPT !.global = found, !.pc = "reply"]
    <3>2. next.report = req[s].report
      BY <2>1 DEF RequestType
    <3> QED
      BY <1>7, <3>1, <3>2
  <2> QED
    BY <1>4, <1>8, <2>2, <2>3, <2>4, <2>5, <2>6 DEF Step, Reply, Fail
<1> QED
  BY <1>3, <1>5, <1>6, <1>8 DEF Next, Call

LEMMA ReportsWereReadStep ==
  ASSUME RowsWereReported, [Next]_vars
  PROVE  ReportsWereRead'
<1> USE DEF RowsWereReported
<1> SUFFICES ASSUME NEW r \in Requests, NEW report \in req'[r].report, NEW day \in Days
             PROVE  report.totals[day] <=
                      local'[<<report.book, report.device>>].totals[day]
  BY DEF ReportsWereRead
<1> DEFINE pair == <<report.book, report.device>>
<1>1. TypeOK'
  BY TypedStep
<1>2. pair \in Pairs /\ report.totals[day] \in Nat
  BY <1>1 DEF TypeOK, RequestType, Report, Pairs
<1>3. report.totals[day] <= local[pair].totals[day]
  BY <1>2, ReportsUnderWay DEF ReportsWereRead
<1>4. local[pair].totals[day] <= local'[pair].totals[day]
  BY <1>2, Onward
<1>5. local[pair].totals[day] \in Nat /\ local'[pair].totals[day] \in Nat
  BY <1>1, <1>2 DEF TypeOK
<1> QED
  BY <1>2, <1>3, <1>4, <1>5

LEMMA RowsWereReportedStep == RowsWereReported /\ [Next]_vars => RowsWereReported'
  BY TypedStep, TotalsBelongStep, NotFromTheFutureStep, TotalsWereReadStep,
     ReportsWereReadStep DEF RowsWereReported

\* Rows carry times the clock has shown, totals stand beside a row of their
\* pair, and neither totals nor reports under way claim more than was read.
THEOREM RowsAreReported == Spec => []RowsWereReported
  BY InitReported, RowsWereReportedStep, PTL DEF Spec

\* Totals belong to a registered device, a kept book and a progress row.
THEOREM TotalsHaveTheirRow == Spec => []TotalsBelongToProgress
<1>1. RowsWereReported => TotalsBelongToProgress
  BY DEF RowsWereReported
<1> QED
  BY <1>1, RowsAreReported, PTL

(***************************************************************************)
(* What no step may do.                                                    *)
(***************************************************************************)
LEMMA TotalsStep ==
  ASSUME RowsWereReported, [Next]_vars
  PROVE  TotalsGrow
<1> SUFFICES ASSUME NEW b \in Books, NEW d \in Devices, NEW day \in Days
             PROVE  /\ Kept(b)' => daily'[<<b, d>>][day] >= daily[<<b, d>>][day]
                    /\ daily'[<<b, d>>][day] <= local'[<<b, d>>].totals[day]
  BY DEF TotalsGrow
<1>1. <<b, d>> \in Pairs
  BY DEF Pairs
<1>2. daily'[<<b, d>>][day] <= local'[<<b, d>>].totals[day]
  BY <1>1, TotalsWereReadStep DEF TotalsWereRead
<1>3. TypeOK /\ daily[<<b, d>>] \in [Days -> Nat]
  BY <1>1 DEF RowsWereReported, TypeOK
<1>4. CASE UNCHANGED <<progress, daily>>
  BY <1>2, <1>3, <1>4
<1>5. ASSUME NEW c \in Books, DeleteBook(c)
      PROVE  Kept(b)' => daily'[<<b, d>>] = daily[<<b, d>>]
  BY <1>3, <1>5, DeletedRows
<1>6. ASSUME NEW r \in Requests, NEW report \in req[r].report, Reported(r, report)
      PROVE  daily'[<<b, d>>][day] >= daily[<<b, d>>][day]
  BY <1>1, <1>3, <1>6, ReportedTotals
<1>7. daily[<<b, d>>][day] >= daily[<<b, d>>][day]
  BY <1>3
<1> QED
  BY <1>2, <1>3, <1>4, <1>5, <1>6, <1>7, RowChanges

\* Reports repeated, late or out of order never shrink a total and never make
\* it exceed what the device has read.
THEOREM TotalsNeverShrink == Spec => TotalsOnlyGrow
<1>1. RowsWereReported /\ [Next]_vars => [TotalsGrow]_vars
  BY TotalsStep
<1> QED
  BY <1>1, RowsAreReported, PTL DEF Spec, TotalsOnlyGrow

LEMMA DisabledStep ==
  ASSUME TypeOK, [Next]_vars
  PROVE  DisabledDevicesRest
<1> SUFFICES ASSUME NEW d \in Devices, devices[d].state = "disabled"
             PROVE  /\ devices'[d] = devices[d]
                    /\ \A b \in Books : Kept(b)' =>
                         /\ daily'[<<b, d>>] = daily[<<b, d>>]
                         /\ \A p \in progress \cup progress' :
                              p.book = b /\ p.device = d => p \in progress /\ p \in progress'
  BY DEF DisabledDevicesRest
<1>1. devices'[d] = devices[d]
  BY Onward
<1>2. ASSUME NEW c \in Books, DeleteBook(c), NEW b \in Books, Kept(b)'
      PROVE  /\ daily'[<<b, d>>] = daily[<<b, d>>]
             /\ \A p : p.book = b => (p \in progress <=> p \in progress')
  BY <1>2, DeletedRows
<1>3. ASSUME NEW r \in Requests, NEW report \in req[r].report, Reported(r, report),
             NEW b \in Books
      PROVE  /\ daily'[<<b, d>>] = daily[<<b, d>>]
             /\ \A p : p.device = d => (p \in progress <=> p \in progress')
  <2>1. report.device # d
    BY <1>3 DEF Reported, MayReport, Active
  <2>2. daily'[<<b, d>>] = daily[<<b, d>>]
    BY <1>3, <2>1, ReportedTotals DEF Pairs
  <2>3. ASSUME NEW p, p.device = d
        PROVE  p \in progress <=> p \in progress'
    BY <1>3, <2>1, <2>3 DEF Reported, SamePair
  <2> QED
    BY <2>2, <2>3
<1> QED
  BY <1>1, <1>2, <1>3, RowChanges

\* A disabled device writes and loses nothing, whatever it had under way.
THEOREM DisabledDevicesAreLeftAlone == Spec => DisabledDevicesKeepTheirRows
<1>1. TypeOK /\ [Next]_vars => [DisabledDevicesRest]_vars
  BY DisabledStep
<1> QED
  BY <1>1, Typed, PTL DEF Spec, DisabledDevicesKeepTheirRows

LEMMA OneRowStep ==
  ASSUME TypeOK, [Next]_vars
  PROVE  OneRowChanges
<1> SUFFICES ASSUME NEW b \in Books, Kept(b)'
             PROVE  /\ \A p \in progress : p.book = b => \E q \in progress' : SameOwner(p, q)
                    /\ \A p, q \in progress :
                         p.book = b /\ p \notin progress' /\ q \notin progress' => p = q
  BY DEF OneRowChanges
<1>1. CASE UNCHANGED <<progress, daily>>
  BY <1>1 DEF SameOwner
<1>2. ASSUME NEW c \in Books, DeleteBook(c)
      PROVE  \A p \in progress : p.book = b => p \in progress'
  BY <1>2, DeletedRows
<1>3. ASSUME NEW r \in Requests, NEW report \in req[r].report, Reported(r, report)
      PROVE  /\ \A p \in progress : p \in progress' \/ SamePair(p, report)
             /\ \E q \in progress' : SamePair(q, report)
  <2> DEFINE row == [book |-> report.book, device |-> report.device,
                     revision |-> report.revision, at |-> report.at, updated |-> clock]
  <2>1. row \in progress' /\ SamePair(row, report)
    BY <1>3 DEF Reported, SamePair
  <2> QED
    BY <1>3, <2>1 DEF Reported
<1>4. ASSUME NEW r \in Requests, NEW report \in req[r].report, Reported(r, report)
      PROVE  /\ \A p \in progress : p.book = b => \E q \in progress' : SameOwner(p, q)
             /\ \A p, q \in progress : p \notin progress' /\ q \notin progress' => p = q
  BY <1>3, <1>4 DEF SamePair, SameOwner, TypeOK
<1> QED
  BY <1>1, <1>2, <1>4, RowChanges DEF SameOwner

\* A report replaces the row of its own device and no other row.
THEOREM OthersKeepTheirPosition == Spec => OtherRowsSurvive
<1>1. TypeOK /\ [Next]_vars => [OneRowChanges]_vars
  BY OneRowStep
<1> QED
  BY <1>1, Typed, PTL DEF Spec, OtherRowsSurvive

LEMMA NewestStep ==
  ASSUME RowsWereReported, [Next]_vars
  PROVE  NewRowsAreNewest
<1> USE DEF RowsWereReported
<1>1. ASSUME NEW c \in Books, DeleteBook(c)
      PROVE  progress' \subseteq progress
  BY <1>1, DeletedRows
<1>2. ASSUME NEW r \in Requests, NEW report \in req[r].report, Reported(r, report)
      PROVE  \A p \in progress' \ progress : p.updated = clock
  BY <1>2 DEF Reported
<1>3. ASSUME NEW r \in Requests, NEW report \in req[r].report, Reported(r, report)
      PROVE  \A q \in progress' : q.updated <= clock
  BY <1>3, NotFromTheFutureStep DEF Reported, NotFromTheFuture
<1> QED
  BY <1>1, <1>2, <1>3, RowChanges DEF NewRowsAreNewest

\* The row written last is the newest of all rows, so the position every device
\* is offered is the one received last.
THEOREM LastReceivedStaysNewest == Spec => LastReceivedIsNewest
<1>1. RowsWereReported /\ [Next]_vars => [NewRowsAreNewest]_vars
  BY NewestStep
<1> QED
  BY <1>1, RowsAreReported, PTL DEF Spec, LastReceivedIsNewest

\* No registration overwrites the name the user has chosen for a device.
THEOREM NamesSurviveRegistration == Spec => ChosenNamesStay
<1>1. TypeOK /\ [Next]_vars => [ChosenNamesAreKept]_vars
  BY Onward DEF ChosenNamesAreKept
<1> QED
  BY <1>1, Typed, PTL DEF Spec, ChosenNamesStay

(***************************************************************************)
(* Replies.  A reply is put together from several statements, so what the  *)
(* earlier ones have found must outlast the steps of others until the      *)
(* later ones run.                                                         *)
(***************************************************************************)
\* What a row of this pair from time t on leaves behind: as long as the book is
\* kept there is such a row, or a later one.
Covered(b, d, t) ==
  ~Kept(b) \/ \E p \in progress : p.book = b /\ p.device = d /\ p.updated >= t

\* Deleting a book takes its rows along, and one row of a book is the newest.
BooksHaveRows == \A p \in progress : Kept(p.book) /\ Newest(p.book) # {}

\* What the local variables x of a request may hold.
Answers(x) ==
  /\ \A b, c \in x.book : b = c
  /\ \A report \in x.report : x.book = {report.book} /\ x.device = {report.device}
  /\ x.pc \in {"idle", "put"} => x.written = 0
  /\ x.pc \in {"idle", "put", "readBook", "readDevice", "readOwn"} => x.own = {}
  /\ x.written > 0 => x.device # {}
  /\ x.written > 0 /\ x.pc \in {"readBook", "readDevice", "readOwn"} =>
       \A b \in x.book, d \in x.device : Covered(b, d, x.written)
  /\ x.written > 0 /\ x.pc \in {"readGlobal", "reply"} =>
       \/ \E p \in x.own : p.updated >= x.written
       \/ x.own = {} /\ \A b \in x.book : ~Kept(b)
  /\ \A p \in x.own : p.book \in x.book /\ Covered(p.book, p.device, p.updated)
  /\ x.pc = "reply" =>
       \A p \in x.own : ~Kept(p.book) \/ \E q \in x.global : q.updated >= p.updated

RepliesAreBacked ==
  RowsWereReported /\ BooksHaveRows /\ \A r \in Requests : Answers(req[r])

LEMMA IdleAnswers == Answers(Idle)
  BY DEF Answers, Idle

LEMMA BooksHaveRowsStep ==
  ASSUME RowsWereReported, BooksHaveRows, [Next]_vars
  PROVE  BooksHaveRows'
<1>1. TypeOK /\ TypeOK'
  BY TypedStep DEF RowsWereReported
<1> SUFFICES ASSUME NEW p \in progress'
             PROVE  Kept(p.book)' /\ Newest(p.book)' # {}
  BY DEF BooksHaveRows
<1>2. p.book \in Books
  BY <1>1 DEF TypeOK, Row
<1>3. CASE UNCHANGED <<progress, daily>>
  <2>1. Kept(p.book) /\ Newest(p.book) # {}
    BY <1>3 DEF BooksHaveRows
  <2>2. ~DeleteBook(p.book)
    BY <1>1, <1>3, DeletedRows, <1>2
  <2>3. Kept(p.book)'
    BY <1>1, <1>2, <2>1, <2>2, Onward
  <2>4. Newest(p.book)' = Newest(p.book)
    BY <1>3 DEF Newest
  <2> QED
    BY <2>1, <2>3, <2>4
<1>4. ASSUME NEW c \in Books, DeleteBook(c)
      PROVE  Kept(p.book)' /\ Newest(p.book)' # {}
  <2>1. \A q : q \in progress' <=> q \in progress /\ q.book # c
    BY <1>1, <1>4, DeletedRows
  <2>2. p \in progress /\ p.book # c
    BY <2>1
  <2>3. Kept(p.book) /\ Newest(p.book) # {}
    BY <2>2 DEF BooksHaveRows
  <2>4. shelf'[p.book] = shelf[p.book]
    BY <1>1, <1>2, <1>4, <2>2 DEF DeleteBook, TypeOK
  <2>5. Newest(p.book) \subseteq Newest(p.book)'
    BY <2>1, <2>2 DEF Newest
  <2> QED
    BY <2>3, <2>4, <2>5 DEF Kept
<1>5. ASSUME NEW r \in Requests, NEW report \in req[r].report, Reported(r, report)
      PROVE  Kept(p.book)' /\ Newest(p.book)' # {}
  <2> DEFINE row == [book |-> report.book, device |-> report.device,
                     revision |-> report.revision, at |-> report.at, updated |-> clock]
  <2>1. /\ progress' = {q \in progress : ~SamePair(q, report)} \cup {row}
        /\ UNCHANGED <<shelf, clock>> /\ Live(report.book)
    BY <1>5 DEF Reported, MayReport
  <2>2. row.book = report.book /\ row.updated = clock /\ row \in progress'
    BY <2>1
  <2>3. \A q \in progress' : q.updated <= clock
    BY <2>1, NotFromTheFutureStep DEF NotFromTheFuture
  <2> HIDE DEF row
  <2>4. CASE p.book = report.book
    <3>1. row \in Newest(p.book)'
      BY <2>2, <2>3, <2>4 DEF Newest
    <3>2. Kept(p.book)'
      BY <2>1, <2>4 DEF Live, Kept
    <3> QED
      BY <3>1, <3>2
  <2>5. CASE p.book # report.book
    <3>1. \A q : q.book = p.book => (q \in progress' <=> q \in progress)
      BY <2>1, <2>2, <2>5 DEF SamePair
    <3>2. p \in progress
      BY <3>1
    <3>3. Newest(p.book) \subseteq Newest(p.book)'
      BY <3>1 DEF Newest
    <3> QED
      BY <2>1, <3>2, <3>3 DEF BooksHaveRows, Kept
  <2> QED
    BY <2>4, <2>5
<1> QED
  BY <1>1, <1>3, <1>4, <1>5, RowChanges

\* A row that is replaced is replaced by a later one, since its time is not from
\* the future, and one that is removed is removed with its book.
LEMMA StaysCovered ==
  ASSUME RowsWereReported, [Next]_vars,
         NEW b \in Books, NEW d, NEW t \in Nat, Covered(b, d, t)
  PROVE  Covered(b, d, t)'
<1>1. TypeOK /\ TypeOK'
  BY TypedStep DEF RowsWereReported
<1>2. CASE ~Kept(b)
  <2>1. Kept(b)' => Kept(b)
    BY <1>1, Onward
  <2> QED
    BY <1>2, <2>1 DEF Covered
<1>3. ASSUME NEW p \in progress, p.book = b, p.device = d, p.updated >= t
      PROVE  Covered(b, d, t)'
  <2>1. CASE UNCHANGED <<progress, daily>>
    BY <1>3, <2>1 DEF Covered
  <2>2. ASSUME NEW c \in Books, DeleteBook(c)
        PROVE  Covered(b, d, t)'
    <3>1. CASE b = c
      BY <1>1, <2>2, <3>1, DeletedRows DEF Covered
    <3>2. CASE b # c
      BY <1>1, <1>3, <2>2, <3>2, DeletedRows DEF Covered
    <3> QED
      BY <3>1, <3>2
  <2>3. ASSUME NEW r \in Requests, NEW report \in req[r].report, Reported(r, report)
        PROVE  Covered(b, d, t)'
    <3> DEFINE row == [book |-> report.book, device |-> report.device,
                       revision |-> report.revision, at |-> report.at, updated |-> clock]
    <3>1. progress' = {q \in progress : ~SamePair(q, report)} \cup {row}
      BY <2>3 DEF Reported
    <3>2. row.book = report.book /\ row.device = report.device /\ row.updated = clock
      OBVIOUS
    <3>3. p.updated \in Nat /\ clock \in Nat /\ p.updated <= clock
      BY <1>1 DEF RowsWereReported, NotFromTheFuture, TypeOK, Row
    <3> HIDE DEF row
    <3>4. CASE SamePair(p, report)
      <4>1. row \in progress' /\ row.book = b /\ row.device = d
        BY <1>3, <3>1, <3>2, <3>4 DEF SamePair
      <4>2. row.updated >= t
        BY <1>3, <3>2, <3>3
      <4> QED
        BY <4>1, <4>2 DEF Covered
    <3>5. CASE ~SamePair(p, report)
      BY <1>3, <3>1, <3>5 DEF Covered
    <3> QED
      BY <3>4, <3>5
  <2> QED
    BY <1>1, <2>1, <2>2, <2>3, RowChanges
<1> QED
  BY <1>2, <1>3 DEF Covered

LEMMA StaysAnswered ==
  ASSUME RowsWereReported, [Next]_vars, NEW x \in RequestType, Answers(x)
  PROVE  Answers(x)'
<1>1. /\ x.book \subseteq Books /\ x.written \in Nat /\ x.own \subseteq Row
      /\ \A p \in x.own : p.book \in Books /\ p.updated \in Nat
  BY DEF RequestType, Row
<1>2. TypeOK
  BY DEF RowsWereReported
<1>3. \A b \in Books : Kept(b)' => Kept(b)
  BY <1>2, Onward
<1>4. ASSUME x.written > 0, x.pc \in {"readBook", "readDevice", "readOwn"},
             NEW b \in x.book, NEW d \in x.device
      PROVE  Covered(b, d, x.written)'
  BY <1>1, <1>4, StaysCovered DEF Answers
<1>5. ASSUME NEW p \in x.own
      PROVE  p.book \in x.book /\ Covered(p.book, p.device, p.updated)'
  BY <1>1, StaysCovered DEF Answers
<1>6. ASSUME x.written > 0, x.pc \in {"readGlobal", "reply"}
      PROVE  \/ \E p \in x.own : p.updated >= x.written
             \/ x.own = {} /\ \A b \in x.book : ~Kept(b)'
  BY <1>1, <1>3, <1>6 DEF Answers
<1>7. ASSUME x.pc = "reply", NEW p \in x.own
      PROVE  ~Kept(p.book)' \/ \E q \in x.global : q.updated >= p.updated
  BY <1>1, <1>3, <1>7 DEF Answers
<1> QED
  BY <1>4, <1>5, <1>6, <1>7 DEF Answers

\* What a request finds in its reads answers it at that moment.
LEMMA ReadsAnswer ==
  ASSUME RepliesAreBacked, NEW r \in Requests,
         ReadBook(r) \/ ReadDevice(r) \/ ReadOwn(r) \/ ReadGlobal(r) \/ Reply(r) \/ Fail(r)
  PROVE  \E x : Become(r, x) /\ Answers(x)
<1>1. req[r] \in RequestType /\ Answers(req[r]) /\ progress \subseteq Row
  BY DEF RepliesAreBacked, RowsWereReported, TypeOK
<1>2. CASE Return(r)
  BY <1>2, IdleAnswers DEF Return
<1>3. CASE ReadBook(r)
  <2>1. PICK b \in req[r].book :
          IF Live(b)
            THEN Become(r, [req[r] EXCEPT
                              !.current = shelf[b].revision,
                              !.pc = IF req[r].device = {} THEN "readGlobal" ELSE "readDevice"])
            ELSE Return(r)
    BY <1>3 DEF ReadBook
  <2> DEFINE x == [req[r] EXCEPT
                     !.current = shelf[b].revision,
                     !.pc = IF req[r].device = {} THEN "readGlobal" ELSE "readDevice"]
  <2>2. /\ x.book = req[r].book /\ x.device = req[r].device /\ x.report = req[r].report
        /\ x.written = req[r].written /\ x.own = req[r].own /\ x.global = req[r].global
        /\ x.pc = IF req[r].device = {} THEN "readGlobal" ELSE "readDevice"
    BY <1>1 DEF RequestType
  <2>3. req[r].pc = "readBook"
    BY <1>3 DEF ReadBook, At
  <2> HIDE DEF x
  <2>4. Answers(x)
    BY <1>1, <2>2, <2>3 DEF Answers
  <2> QED
    BY <1>2, <2>1, <2>4 DEF x
<1>4. CASE ReadDevice(r)
  <2>1. Become(r, [req[r] EXCEPT !.pc = "readOwn"]) \/ Return(r)
    BY <1>4 DEF ReadDevice
  <2> DEFINE x == [req[r] EXCEPT !.pc = "readOwn"]
  <2>2. /\ x.book = req[r].book /\ x.device = req[r].device /\ x.report = req[r].report
        /\ x.written = req[r].written /\ x.own = req[r].own /\ x.pc = "readOwn"
    BY <1>1 DEF RequestType
  <2>3. req[r].pc = "readDevice"
    BY <1>4 DEF ReadDevice, At
  <2> HIDE DEF x
  <2>4. Answers(x)
    BY <1>1, <2>2, <2>3 DEF Answers
  <2> QED
    BY <1>2, <2>1, <2>4 DEF x
<1>5. CASE ReadOwn(r)
  <2>1. PICK b \in req[r].book, d \in req[r].device :
          LET found == {p \in progress : p.book = b /\ p.device = d}
          IN  Become(r, [req[r] EXCEPT !.own = found, !.pc = "readGlobal",
                                       !.ownMismatch = \E p \in found : Mismatch(p)])
    BY <1>5 DEF ReadOwn
  <2>2. PICK found : found = {p \in progress : p.book = b /\ p.device = d}
    OBVIOUS
  <2>3. PICK flag : flag = \E p \in found : Mismatch(p)
    OBVIOUS
  <2> DEFINE x == [req[r] EXCEPT !.own = found, !.pc = "readGlobal", !.ownMismatch = flag]
  <2>4. Become(r, x)
    BY <2>1, <2>2, <2>3
  <2>5. /\ x.book = req[r].book /\ x.device = req[r].device /\ x.report = req[r].report
        /\ x.written = req[r].written /\ x.own = found /\ x.pc = "readGlobal"
    BY <1>1 DEF RequestType
  <2>6. req[r].pc = "readOwn" /\ \A c \in req[r].book : c = b
    BY <1>1, <1>5 DEF ReadOwn, At, Answers
  <2>7. ASSUME req[r].written > 0
        PROVE  \/ \E p \in found : p.updated >= req[r].written
               \/ found = {} /\ ~Kept(b)
    <3>1. Covered(b, d, req[r].written)
      BY <1>1, <2>6, <2>7 DEF Answers
    <3>2. CASE ~Kept(b)
      BY <2>2, <3>2 DEF RepliesAreBacked, BooksHaveRows
    <3>3. CASE \E p \in progress : p.book = b /\ p.device = d /\ p.updated >= req[r].written
      BY <2>2, <3>3
    <3> QED
      BY <3>1, <3>2, <3>3 DEF Covered
  <2>8. \A p \in found : p.book = b /\ Covered(p.book, p.device, p.updated)
    <3>1. \A p \in found : p \in progress /\ p.book = b /\ p.updated \in Nat
      BY <1>1, <2>2 DEF Row
    <3> QED
      BY <3>1 DEF Covered
  <2> HIDE DEF x
  <2>9. Answers(x)
    <3>1. req[r].written > 0 => req[r].device # {}
      BY <1>1 DEF Answers
    <3>2. /\ \A c, e \in x.book : c = e
          /\ \A report \in x.report : x.book = {report.book} /\ x.device = {report.device}
      BY <1>1, <2>5 DEF Answers
    <3>3. x.written > 0 => \/ \E p \in x.own : p.updated >= x.written
                           \/ x.own = {} /\ \A c \in x.book : ~Kept(c)
      BY <2>5, <2>6, <2>7
    <3>4. \A p \in x.own : p.book \in x.book /\ Covered(p.book, p.device, p.updated)
      BY <2>5, <2>8
    <3> QED
      BY <2>5, <3>1, <3>2, <3>3, <3>4 DEF Answers
  <2> QED
    BY <2>4, <2>9
<1>6. CASE ReadGlobal(r)
  <2>1. PICK b \in req[r].book :
          \E found \in {{p} : p \in Newest(b)} \cup {x \in {{}} : Newest(b) = {}} :
            Become(r, [req[r] EXCEPT !.global = found, !.pc = "reply"])
    BY <1>6 DEF ReadGlobal
  <2>2. PICK found \in {{p} : p \in Newest(b)} \cup {x \in {{}} : Newest(b) = {}} :
          Become(r, [req[r] EXCEPT !.global = found, !.pc = "reply"])
    BY <2>1
  <2> DEFINE x == [req[r] EXCEPT !.global = found, !.pc = "reply"]
  <2>3. /\ x.book = req[r].book /\ x.device = req[r].device /\ x.report = req[r].report
        /\ x.written = req[r].written /\ x.own = req[r].own /\ x.global = found
        /\ x.pc = "reply"
    BY <1>1 DEF RequestType
  <2>4. req[r].pc = "readGlobal" /\ \A c \in req[r].book : c = b
    BY <1>1, <1>6 DEF ReadGlobal, At, Answers
  <2>5. ASSUME NEW p \in req[r].own
        PROVE  ~Kept(p.book) \/ \E q \in found : q.updated >= p.updated
    <3>1. p.book = b /\ Covered(b, p.device, p.updated)
      BY <1>1, <2>4 DEF Answers
    <3>2. CASE Kept(b)
      <4>1. PICK row \in progress : row.book = b /\ row.updated >= p.updated
        BY <3>1, <3>2 DEF Covered
      <4>2. Newest(b) # {}
        BY <4>1 DEF RepliesAreBacked, BooksHaveRows
      <4>3. PICK q \in Newest(b) : found = {q}
        BY <4>2
      <4>4. q.updated >= row.updated
        BY <1>1, <4>1, <4>3 DEF Newest, Row
      <4>5. p.updated \in Nat /\ row.updated \in Nat /\ q.updated \in Nat
        BY <1>1, <4>1, <4>3 DEF RequestType, Row, Newest
      <4> QED
        BY <4>1, <4>3, <4>4, <4>5
    <3> QED
      BY <3>1, <3>2
  <2> HIDE DEF x
  <2>6. Answers(x)
    BY <1>1, <2>3, <2>4, <2>5 DEF Answers
  <2> QED
    BY <2>2, <2>6 DEF x
<1>7. CASE Reply(r) \/ Fail(r)
  BY <1>2, <1>7 DEF Reply, Fail
<1> QED
  BY <1>3, <1>4, <1>5, <1>6, <1>7

LEMMA CallsAnswer ==
  ASSUME RepliesAreBacked, NEW r \in Requests, Call(r)
  PROVE  \E x : Become(r, x) /\ Answers(x)
<1>1. ASSUME NEW b \in Books, NEW d \in Devices, AcceptPut(r, b, d)
      PROVE  \E x : Become(r, x) /\ Answers(x)
  <2>1. PICK revision \in 1..shelf[b].revision :
          Become(r, [Idle EXCEPT
                       !.pc = "put", !.book = {b}, !.device = {d}, !.sent = clock,
                       !.report = {[book |-> b, device |-> d, revision |-> revision,
                                    at |-> local[<<b, d>>].at, totals |-> local[<<b, d>>].totals]}])
    BY <1>1 DEF AcceptPut
  <2>2. PICK report : report = [book |-> b, device |-> d, revision |-> revision,
                                at |-> local[<<b, d>>].at, totals |-> local[<<b, d>>].totals]
    OBVIOUS
  <2>3. report.book = b /\ report.device = d
    BY <2>2
  <2> DEFINE x == [Idle EXCEPT !.pc = "put", !.book = {b}, !.device = {d}, !.sent = clock,
                               !.report = {report}]
  <2>4. Become(r, x)
    BY <2>1, <2>2
  <2>5. /\ x.pc = "put" /\ x.book = {b} /\ x.device = {d} /\ x.report = {report}
        /\ x.written = 0 /\ x.own = {}
    BY DEF Idle
  <2> HIDE DEF x
  <2>6. Answers(x)
    BY <2>3, <2>5 DEF Answers
  <2> QED
    BY <2>4, <2>6
<1>2. ASSUME NEW b \in Books, AcceptGet(r, b)
      PROVE  \E x : Become(r, x) /\ Answers(x)
  <2>1. PICK asked : Become(r, [Idle EXCEPT !.pc = "readBook", !.book = {b}, !.device = asked,
                                            !.sent = clock])
    BY <1>2 DEF AcceptGet
  <2> DEFINE x == [Idle EXCEPT !.pc = "readBook", !.book = {b}, !.device = asked, !.sent = clock]
  <2>2. /\ x.pc = "readBook" /\ x.book = {b} /\ x.device = asked /\ x.report = {}
        /\ x.written = 0 /\ x.own = {}
    BY DEF Idle
  <2> HIDE DEF x
  <2>3. Answers(x)
    BY <2>2 DEF Answers
  <2> QED
    BY <2>1, <2>3 DEF x
<1> QED
  BY <1>1, <1>2 DEF Call

\* A report that is recorded is covered by its own row from then on.
LEMMA PutAnswers ==
  ASSUME RepliesAreBacked, NEW r \in Requests, PutProgress(r), TypeOK'
  PROVE  req'[r] = Idle \/ Answers(req[r])'
<1>1. req[r] \in RequestType /\ Answers(req[r]) /\ req \in [Requests -> RequestType]
  BY DEF RepliesAreBacked, RowsWereReported, TypeOK
<1>2. CASE Return(r)
  BY <1>1, <1>2 DEF Return, Become
<1>3. CASE ~Return(r)
  <2>1. PICK report \in req[r].report :
          /\ progress' = {p \in progress : ~SamePair(p, report)}
               \cup {[book |-> report.book, device |-> report.device,
                      revision |-> report.revision, at |-> report.at, updated |-> clock]}
          /\ Become(r, [req[r] EXCEPT !.pc = "readBook", !.written = clock])
    BY <1>3 DEF PutProgress, ReceiptTime
  <2>2. PICK row : row = [book |-> report.book, device |-> report.device,
                          revision |-> report.revision, at |-> report.at, updated |-> clock]
    OBVIOUS
  <2>3. /\ row \in progress' /\ row.book = report.book /\ row.device = report.device
        /\ row.updated = clock
    BY <2>1, <2>2
  <2>4. clock \in Nat /\ req[r].pc = "put"
    BY DEF RepliesAreBacked, RowsWereReported, TypeOK, PutProgress, At
  <2>5. PICK x : x = req'[r]
    OBVIOUS
  <2>6. /\ x.pc = "readBook" /\ x.written = clock /\ x.report = req[r].report /\ x.own = req[r].own
        /\ x.book = req[r].book /\ x.device = req[r].device
    BY <1>1, <2>1, <2>5 DEF RequestType, Become
  <2>7. /\ x.book = {report.book} /\ x.device = {report.device} /\ x.own = {}
        /\ \A other \in x.report : x.book = {other.book} /\ x.device = {other.device}
    BY <1>1, <2>1, <2>4, <2>6 DEF Answers
  <2>8. \A b \in x.book, d \in x.device : Covered(b, d, x.written)'
    BY <2>3, <2>4, <2>6, <2>7 DEF Covered
  <2>9. Answers(x)'
    BY <2>6, <2>7, <2>8 DEF Answers
  <2> QED
    BY <2>5, <2>9
<1> QED
  BY <1>2, <1>3

LEMMA AnswersStep ==
  ASSUME RepliesAreBacked, [Next]_vars, NEW q \in Requests
  PROVE  Answers(req[q])'
<1>1. TypeOK /\ TypeOK' /\ RowsWereReported
  BY TypedStep DEF RepliesAreBacked, RowsWereReported
<1>2. req[q] \in RequestType /\ req'[q] \in RequestType /\ Answers(req[q])
  BY <1>1 DEF TypeOK, RepliesAreBacked
<1>3. PICK x : x = req'[q]
  OBVIOUS
<1>4. ASSUME Answers(x)
      PROVE  Answers(x)'
  BY <1>1, <1>2, <1>3, <1>4, StaysAnswered
<1>5. CASE x = req[q]
  BY <1>2, <1>3, <1>4, <1>5
<1>6. CASE x # req[q]
  <2>1. PICK r \in Requests : Call(r) \/ Step(r)
    BY <1>3, <1>6 DEF Next, vars, Around, Tick, ReadOn, PublishBook, ArchiveBook, DeleteBook,
       UpsertDevice, RenameDevice, DisableDevice
  <2>2. \E y : Become(r, y)
    BY <2>1 DEF Call, Step, AcceptPut, AcceptGet, PutProgress, ReadBook, ReadDevice, ReadOwn,
       ReadGlobal, Reply, Fail, Return
  <2>3. r = q
    BY <1>1, <1>3, <1>6, <2>2 DEF Become, TypeOK
  <2>4. CASE PutProgress(q)
    BY <1>1, <1>3, <1>4, <2>4, IdleAnswers, PutAnswers
  <2>5. CASE ~PutProgress(q)
    <3>1. PICK y : Become(q, y) /\ Answers(y)
      BY <2>1, <2>3, <2>5, CallsAnswer, ReadsAnswer DEF Step
    <3>2. x = y
      BY <1>1, <1>3, <3>1 DEF Become, TypeOK
    <3> QED
      BY <1>3, <1>4, <3>1, <3>2
  <2> QED
    BY <2>4, <2>5
<1> QED
  BY <1>5, <1>6

\* Every reply under way is backed by rows: of what it has written or read
\* there is that row or a later one, as long as the book is kept.
THEOREM RepliesStayBacked == Spec => []RepliesAreBacked
<1>1. Init => RepliesAreBacked
  BY InitReported, IdleAnswers DEF Init, RepliesAreBacked, BooksHaveRows
<1>2. RepliesAreBacked /\ [Next]_vars => RepliesAreBacked'
  BY RowsWereReportedStep, BooksHaveRowsStep, AnswersStep DEF RepliesAreBacked
<1> QED
  BY <1>1, <1>2, PTL DEF Spec

\* The reply to a report shows what the report wrote or something later of the
\* same device, whatever else is recorded or deleted before it is read back.
THEOREM RepliesShowWhatWasReported == Spec => []RepliesShowTheReport
<1>1. RepliesAreBacked => RepliesShowTheReport
  BY DEF RepliesAreBacked, Answers, RepliesShowTheReport
<1> QED
  BY <1>1, RepliesStayBacked, PTL

\* The global position in a reply is no older than the position beside it.
THEOREM GlobalKeepsUp == Spec => []GlobalIsNoOlder
<1>1. RepliesAreBacked => GlobalIsNoOlder
  BY DEF RepliesAreBacked, Answers, GlobalIsNoOlder, At
<1> QED
  BY <1>1, RepliesStayBacked, PTL
=============================================================================
