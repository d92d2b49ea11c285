--------------------------- MODULE BookingsProofs ---------------------------
(***************************************************************************)
(* Proofs about Bookings, for every set of requests, properties, rooms and *)
(* external keys: the inductive invariant IInv, the safety invariants it   *)
(* contains, and the action property ImportChecksWholeProperty.            *)
(***************************************************************************)
EXTENDS Bookings, TLAPS

-----------------------------------------------------------------------------
(***************************************************************************)
(* Types                                                                   *)
(***************************************************************************)

\* Finishing a request changes that request alone.
LEMMA DoneEffect ==
    ASSUME TypeOK, NEW r \in Requests, Done(r)
    PROVE  /\ req' \in [Requests -> Request]
           /\ \A q \in Requests : q # r => req'[q] = req[q]
           /\ req'[r].pc = "done"
BY DEF TypeOK, Done, Call, Request

\* Overwriting a row with a row keeps the types, and so does placing one.
LEMMA OverwriteTyped ==
    ASSUME TypeOK, NEW b \in Requests, NEW row \in Row, Overwrite(b, row)
    PROVE  /\ bookings' \in [Requests -> Row \cup {Null}]
           /\ token' \in [Requests -> Requests] /\ via' \in [Requests -> Placements]
           /\ held' \in SUBSET Requests /\ firm' \in SUBSET Requests
BY DEF TypeOK, Overwrite

\* A placement leaves every record of a booking typed.
LEMMA PlaceTyped ==
    ASSUME TypeOK, NEW b \in Requests, NEW r \in Requests, NEW row \in Row,
           req[r].kind \in Placements, Place(b, row, r)
    PROVE  /\ bookings' \in [Requests -> Row \cup {Null}]
           /\ token' \in [Requests -> Requests] /\ via' \in [Requests -> Placements]
           /\ held' \in SUBSET Requests /\ firm' \in SUBSET Requests
BY DEF TypeOK, Place

\* An existing row is a row.
LEMMA ExistingRow ==
    ASSUME TypeOK, NEW b \in Requests, Exists(b)
    PROVE  bookings[b] \in Row
BY DEF TypeOK, Exists

\* Entering a window with a request record keeps the types.
LEMMA EnterTyped ==
    ASSUME TypeOK, NEW r \in Requests, NEW entry \in Request,
           NEW rivals \in SUBSET Requests, Enter(r, rivals, entry)
    PROVE  /\ req' \in [Requests -> Request]
           /\ raced' \in SUBSET SUBSET Requests
BY DEF TypeOK, Enter

\* Both windows are sets of requests.
LEMMA WindowsTyped == Placing \in SUBSET Requests /\ Scheduling \in SUBSET Requests
BY DEF Placing, Scheduling

-----------------------------------------------------------------------------
(***************************************************************************)
(* The shapes of a step                                                    *)
(***************************************************************************)

\* A check of the dates: request r begins its window and no row its query had
\* to report exists.
Checking(r) ==
    /\ req[r].pc \in {"idle", "read"}
    /\ \E entry \in Request :
        /\ Enter(r, Placing, entry)
        /\ entry.pc = "checked" /\ entry.kind \in Placements
        /\ entry.stay \in Stay /\ entry.target \in Requests
        /\ entry.kind # "reschedule" => entry.target = r /\ entry.st \in Statuses
        /\ entry.kind = "create" => entry.ext = Null
        /\ entry.kind = "import" => entry.st = "CONFIRMED"
        /\ \A b \in Requests :
              ~ /\ Exists(b) /\ b # entry.target
                /\ entry.stay.prop = bookings[b].stay.prop
                /\ entry.kind # "import" => entry.stay.room = bookings[b].stay.room
                /\ IF entry.kind = "create" THEN b \in held ELSE b \in firm
                /\ ShareNight(entry.stay, bookings[b].stay)
    /\ UNCHANGED <<bookings, schedules, hist>>

\* A write of checked dates.
Writing(r) ==
    /\ r \in Placing
    /\ req[r].target # r => Exists(req[r].target)
    /\ \E row \in Row :
        /\ Place(req[r].target, row, r)
        /\ row.stay = req[r].stay
        /\ req[r].kind = "import" => row.st \in Firm
        /\ row.ext # Null => \A c \in Requests \ {req[r].target} :
                                Exists(c) => bookings[c].ext # row.ext
    /\ Done(r)
    /\ UNCHANGED <<schedules, raced>>

\* A change of the requests that opens no window.
Quiet ==
    /\ req' \in [Requests -> Request]
    /\ \A q \in Requests :
        \/ req'[q] = req[q]
        \/ req[q].pc # "done" /\ req'[q].pc = "done"
        \/ /\ req[q].pc # "done"
           /\ req'[q].pc = "read" /\ req'[q].stay \in Stay
           /\ req'[q].kind = "reschedule" => req'[q].target \in Requests
        \/ /\ req[q].pc # "done"
           /\ req'[q].pc = "checked" /\ req'[q].kind \in {"cancel", "markAsPaid"}
           /\ req'[q].target \in Requests

\* A status or date write that no check of the dates precedes.
Rewriting ==
    /\ \E b \in Requests, row \in Row :
        /\ Exists(b)
        /\ row.ext = bookings[b].ext
        /\ Overwrite(b, row)
    /\ Quiet
    /\ UNCHANGED <<schedules, raced>>

\* A step that changes requests alone.
Idling == Quiet /\ UNCHANGED <<bookings, schedules, hist, raced>>

\* Two stays that share a night overlap for every query of the service.
LEMMA SharedNightOverlaps ==
    ASSUME NEW s \in Stay, NEW t \in Stay, ShareNight(s, t)
    PROVE  Overlaps(s, t) /\ Overlaps(t, s)
BY DEF Stay, ShareNight, Overlaps

\* The check of a reservation, with whatever it finds, is a Checking step.
LEMMA CreateCheckShape ==
    ASSUME IInv, NEW r \in Requests, CreateCheck(r)
    PROVE  Checking(r)
<1> USE DEF CreateCheck
<1>1. PICK prop \in ActiveProperties, room \in Rooms \cup {Null}, d \in StayDates,
           st \in {"PENDING", "CONFIRMED"} :
        /\ \A b \in Requests : Exists(b) => ~CreateConflict(bookings[b],
              [prop |-> prop, room |-> room, ci |-> d[1], co |-> d[2]])
        /\ Enter(r, Placing,
              [kind |-> "create", pc |-> "checked", target |-> r,
               stay |-> [prop |-> prop, room |-> room, ci |-> d[1], co |-> d[2]],
               st |-> st, ext |-> Null])
  OBVIOUS
<1> DEFINE stay == [prop |-> prop, room |-> room, ci |-> d[1], co |-> d[2]]
           entry == [kind |-> "create", pc |-> "checked", target |-> r,
                     stay |-> stay, st |-> st, ext |-> Null]
<1>2. stay \in Stay
  BY DataAssumption DEF Stay
<1>3. entry \in Request
  BY <1>2 DEF Request, Kinds, Placements, Statuses
<1>4. ASSUME NEW b \in Requests, Exists(b), stay.room = bookings[b].stay.room,
             stay.prop = bookings[b].stay.prop, b \in held, ShareNight(stay, bookings[b].stay)
      PROVE  FALSE
  <2>1. bookings[b] \in Row /\ bookings[b].stay \in Stay /\ bookings[b].st \in Blocking
    BY <1>4, ExistingRow DEF IInv, HistoryTrue, Row
  <2>2. CreateConflict(bookings[b], stay)
    BY <2>1, <1>2, <1>4, SharedNightOverlaps DEF CreateConflict
  <2>3. QED
    BY <2>2, <1>1, <1>4
<1>5. entry.pc = "checked" /\ entry.kind = "create" /\ entry.stay = stay /\ entry.target = r
      /\ entry.st \in Statuses /\ entry.ext = Null
  BY DEF Statuses
<1> HIDE DEF stay, entry
<1>6. Enter(r, Placing, entry)
  BY <1>1 DEF entry, stay
<1>7. QED
  BY <1>2, <1>3, <1>4, <1>5, <1>6 DEF Checking, Calls, Placements

\* The check of an import, with whatever it finds, is a Checking step.
LEMMA ImportCheckShape ==
    ASSUME IInv, NEW r \in Requests, ImportCheck(r)
    PROVE  Checking(r)
<1> USE DEF ImportCheck
<1>1. PICK prop \in Properties, d \in StayDates, ext \in ExternalKeys :
        /\ \A b \in Requests : Exists(b) => ~ImportConflict(bookings[b],
              [prop |-> prop, room |-> Null, ci |-> d[1], co |-> d[2]])
        /\ Enter(r, Placing,
              [kind |-> "import", pc |-> "checked", target |-> r,
               stay |-> [prop |-> prop, room |-> Null, ci |-> d[1], co |-> d[2]],
               st |-> "CONFIRMED", ext |-> ext])
  OBVIOUS
<1> DEFINE stay == [prop |-> prop, room |-> Null, ci |-> d[1], co |-> d[2]]
           entry == [kind |-> "import", pc |-> "checked", target |-> r,
                     stay |-> stay, st |-> "CONFIRMED", ext |-> ext]
<1>2. stay \in Stay
  BY DataAssumption DEF Stay
<1>3. entry \in Request
  BY <1>2 DEF Request, Kinds, Placements, Statuses
<1>4. ASSUME NEW b \in Requests, Exists(b), stay.prop = bookings[b].stay.prop, b \in firm,
             ShareNight(stay, bookings[b].stay)
      PROVE  FALSE
  <2>1. bookings[b] \in Row /\ bookings[b].stay \in Stay /\ bookings[b].st \in Firm
    BY <1>4, ExistingRow DEF IInv, HistoryTrue, Row
  <2>2. ImportConflict(bookings[b], stay)
    BY <2>1, <1>2, <1>4, SharedNightOverlaps DEF ImportConflict
  <2>3. QED
    BY <2>2, <1>1, <1>4
<1>5. entry.pc = "checked" /\ entry.kind = "import" /\ entry.stay = stay /\ entry.target = r
      /\ entry.st = "CONFIRMED" /\ entry.st \in Statuses
  BY DEF Statuses
<1> HIDE DEF stay, entry
<1>6. Enter(r, Placing, entry)
  BY <1>1 DEF entry, stay
<1>7. QED
  BY <1>2, <1>3, <1>4, <1>5, <1>6 DEF Checking, Calls, Placements

\* The check of new dates, with whatever it finds, is a Checking step.
LEMMA RescheduleCheckShape ==
    ASSUME IInv, NEW r \in Requests, RescheduleCheck(r)
    PROVE  Checking(r)
<1> DEFINE b == req[r].target
           old == req[r].stay
<1>1. b \in Requests /\ old \in Stay /\ req[r].pc = "read"
  BY DEF RescheduleCheck, IInv, InFlightShape
<1>2. PICK asked \in Rooms \cup {Null}, d \in StayDates : \E co \in {d[2], old.co} :
        LET stay == [old EXCEPT !.room = IF asked = Null THEN @ ELSE asked,
                                !.ci = d[1], !.co = co]
        IN  /\ \A c \in Requests \ {b} : Exists(c) => ~RescheduleConflict(bookings[c], stay, asked)
            /\ Enter(r, Placing, Call("reschedule", "checked", b, stay))
  BY DEF RescheduleCheck
<1>3. PICK co \in {d[2], old.co} :
        LET stay == [old EXCEPT !.room = IF asked = Null THEN @ ELSE asked,
                                !.ci = d[1], !.co = co]
        IN  /\ \A c \in Requests \ {b} : Exists(c) => ~RescheduleConflict(bookings[c], stay, asked)
            /\ Enter(r, Placing, Call("reschedule", "checked", b, stay))
  BY <1>2
<1> DEFINE stay == [old EXCEPT !.room = IF asked = Null THEN @ ELSE asked,
                               !.ci = d[1], !.co = co]
           entry == Call("reschedule", "checked", b, stay)
<1>4. stay \in Stay
  BY <1>1, DataAssumption DEF Stay
<1>5. /\ entry \in Request /\ entry.pc = "checked" /\ entry.kind = "reschedule"
      /\ entry.stay = stay /\ entry.target = b
  BY <1>1, <1>4 DEF Request, Kinds, Placements, Call
<1>6. Enter(r, Placing, entry)
  BY <1>3
<1>7. ASSUME NEW c \in Requests \ {b}, Exists(c) PROVE ~RescheduleConflict(bookings[c], stay, asked)
  BY <1>3, <1>7
<1> HIDE DEF stay, entry
<1>8. ASSUME NEW c \in Requests, c # b, Exists(c), stay.prop = bookings[c].stay.prop,
             stay.room = bookings[c].stay.room, c \in firm, ShareNight(stay, bookings[c].stay)
      PROVE  FALSE
  <2>1. bookings[c] \in Row /\ bookings[c].stay \in Stay /\ bookings[c].st \in Firm
    BY <1>8, ExistingRow DEF IInv, HistoryTrue, Row
  <2>2. RescheduleConflict(bookings[c], stay, asked)
    BY <2>1, <1>4, <1>8, SharedNightOverlaps DEF RescheduleConflict
  <2>3. QED
    BY <2>2, <1>7, <1>8
<1>9. UNCHANGED <<bookings, schedules, hist>>
  BY DEF RescheduleCheck
<1>10. QED
  BY <1>1, <1>4, <1>5, <1>6, <1>8, <1>9 DEF Checking, Placements

\* A reservation is written in one Writing step.
LEMMA CreateWriteShape ==
    ASSUME IInv, NEW r \in Requests, CreateWrite(r)
    PROVE  Writing(r)
<1> USE DEF CreateWrite
<1>1. r \in Placing /\ req[r].target = r /\ req[r].stay \in Stay /\ req[r].st \in Statuses
      /\ req[r].ext = Null
  BY DEF IInv, InFlightShape, Placing, Placements, AtWrite
<1>2. NewRow(r) \in Row /\ NewRow(r).stay = req[r].stay /\ NewRow(r).ext = Null
  BY <1>1 DEF NewRow, Row, PayStatuses
<1>3. QED
  BY <1>1, <1>2 DEF Writing, AtWrite

\* An import is written in one Writing step.
LEMMA ImportWriteShape ==
    ASSUME IInv, NEW r \in Requests, ImportWrite(r)
    PROVE  Writing(r)
<1> USE DEF ImportWrite
<1>1. r \in Placing /\ req[r].target = r /\ req[r].stay \in Stay /\ req[r].st \in Statuses
      /\ req[r].st = "CONFIRMED" /\ req[r].ext \in ExternalKeys \cup {Null}
  BY DEF IInv, InFlightShape, Placing, Placements, AtWrite, TypeOK, Request
<1>2. NewRow(r) \in Row /\ NewRow(r).stay = req[r].stay /\ NewRow(r).ext = req[r].ext
      /\ NewRow(r).st \in Firm
  BY <1>1 DEF NewRow, Row, PayStatuses, Firm
<1>3. QED
  BY <1>1, <1>2 DEF Writing, UniqueIndexAdmits

\* New dates are written in one Writing step.
LEMMA RescheduleWriteShape ==
    ASSUME IInv, NEW r \in Requests, RescheduleWrite(r)
    PROVE  Writing(r)
<1> DEFINE b == req[r].target
           row == [bookings[b] EXCEPT !.stay = req[r].stay]
<1>1. r \in Placing /\ b \in Requests /\ req[r].stay \in Stay /\ Exists(b)
  BY DEF IInv, InFlightShape, Placing, Placements, AtWrite, RescheduleWrite
<1>2. bookings[b] \in Row
  BY <1>1, ExistingRow DEF IInv
<1>3. row \in Row /\ row.stay = req[r].stay /\ row.ext = bookings[b].ext
  BY <1>1, <1>2 DEF Row
<1>4. row.ext # Null => \A c \in Requests \ {b} : Exists(c) => bookings[c].ext # row.ext
  BY <1>1, <1>3 DEF IInv, UniqueExternal
<1>5. Place(b, row, r) /\ Done(r) /\ UNCHANGED <<schedules, raced>> /\ req[r].kind # "import"
  BY DEF RescheduleWrite, AtWrite
<1> HIDE DEF row
<1>6. QED
  BY <1>1, <1>3, <1>4, <1>5 DEF Writing

\* A request that ends opens no window.
LEMMA DoneQuiet ==
    ASSUME TypeOK, NEW r \in Requests, Done(r), req[r].pc # "done"
    PROVE  Quiet
BY DoneEffect DEF Quiet

\* Nor does a step of no request.
LEMMA StillQuiet ==
    ASSUME TypeOK, UNCHANGED req
    PROVE  Quiet
BY DEF Quiet, TypeOK

\* A status written over an existing row leaves a row of the same key.
LEMMA StatusRow ==
    ASSUME TypeOK, NEW b \in Requests, Exists(b), NEW st \in Statuses, NEW pay \in PayStatuses
    PROVE  /\ [bookings[b] EXCEPT !.st = st, !.pay = pay] \in Row
           /\ [bookings[b] EXCEPT !.st = st, !.pay = pay].ext = bookings[b].ext
           /\ [bookings[b] EXCEPT !.pay = pay] \in Row
           /\ [bookings[b] EXCEPT !.pay = pay].ext = bookings[b].ext
BY ExistingRow DEF Row

\* A step that overwrites row b with st and pay, in the shape of Rewriting.
LEMMA OverwriteShape ==
    ASSUME TypeOK, NEW b \in Requests, Exists(b), NEW row \in Row, row.ext = bookings[b].ext,
           Overwrite(b, row), Quiet, UNCHANGED <<schedules, raced>>
    PROVE  Rewriting
BY DEF Rewriting

\* A cancellation rewrites one row and places nothing.
LEMMA CancelWriteShape ==
    ASSUME IInv, NEW r \in Requests, CancelWrite(r)
    PROVE  Rewriting
<1> DEFINE b == req[r].target
<1>1. b \in Requests /\ Exists(b) /\ TypeOK /\ UNCHANGED <<schedules, raced>>
  BY DEF CancelWrite, IInv, InFlightShape
<1>2. Quiet
  BY <1>1, DoneQuiet DEF CancelWrite, AtWrite
<1>3. PICK pay \in {bookings[b].pay, "OTHER"} :
        Overwrite(b, [bookings[b] EXCEPT !.st = "CANCELLED", !.pay = pay])
  BY DEF CancelWrite
<1>4. pay \in PayStatuses /\ "CANCELLED" \in Statuses
  BY <1>1, ExistingRow DEF Row, PayStatuses, Statuses
<1>5. QED
  BY <1>1, <1>2, <1>3, <1>4, StatusRow, OverwriteShape

\* So does marking a booking as paid, whatever its status has become.
LEMMA MarkAsPaidWriteShape ==
    ASSUME IInv, NEW r \in Requests, MarkAsPaidWrite(r)
    PROVE  Rewriting
<1> DEFINE b == req[r].target
<1>1. b \in Requests /\ Exists(b) /\ TypeOK /\ UNCHANGED <<schedules, raced>>
  BY DEF MarkAsPaidWrite, IInv, InFlightShape
<1>2. Quiet
  BY <1>1, DoneQuiet DEF MarkAsPaidWrite, AtWrite
<1>3. "COMPLETED" \in PayStatuses /\ "CONFIRMED" \in Statuses
  BY DEF PayStatuses, Statuses
<1>4. Overwrite(b, [bookings[b] EXCEPT !.st = "CONFIRMED", !.pay = "COMPLETED"])
  BY DEF MarkAsPaidWrite
<1>5. QED
  BY <1>1, <1>2, <1>3, <1>4, StatusRow, OverwriteShape

\* So does the completion of a stay.
LEMMA CompleteWriteShape ==
    ASSUME IInv, NEW r \in Requests, CompleteWrite(r)
    PROVE  Rewriting
<1>1. PICK b \in Requests, pay \in PayStatuses :
        /\ Exists(b)
        /\ Overwrite(b, [bookings[b] EXCEPT !.st = "COMPLETED", !.pay = pay])
        /\ req' = [req EXCEPT ![r] = Call("complete", "read", Null, bookings[b].stay)]
  BY DEF CompleteWrite
<1>2. TypeOK /\ UNCHANGED <<schedules, raced>> /\ req[r].pc = "idle" /\ "COMPLETED" \in Statuses
  BY DEF CompleteWrite, IInv, Calls, Statuses
<1>3. bookings[b].stay \in Stay
  BY <1>1, <1>2, ExistingRow DEF Row
<1>4. Quiet
  BY <1>1, <1>2, <1>3 DEF Quiet, TypeOK, Call, Request, Kinds
<1>5. QED
  BY <1>1, <1>2, <1>4, StatusRow, OverwriteShape

\* So does an edit by the staff.
LEMMA UpdateShape ==
    ASSUME IInv, NEW b \in Requests, Update(b)
    PROVE  Rewriting
<1>1. PICK st \in (UpdateStatuses \ {"COMPLETED"}) \cup {bookings[b].st}, pay \in PayStatuses :
        Overwrite(b, [bookings[b] EXCEPT !.st = st, !.pay = pay])
  BY DEF Update
<1>2. TypeOK /\ Exists(b) /\ UNCHANGED <<schedules, raced>> /\ Quiet
  BY StillQuiet DEF Update, IInv
<1>3. st \in Statuses
  BY <1>2, ExistingRow, DataAssumption DEF Row
<1>4. QED
  BY <1>1, <1>2, <1>3, StatusRow, OverwriteShape

\* So does the import of a booking that is known already.
LEMMA SyncShape ==
    ASSUME IInv, NEW b \in Requests, Sync(b)
    PROVE  Rewriting
<1>1. PICK st \in UpdateStatuses \cup {bookings[b].st}, pay \in PayStatuses,
           d \in StayDates \cup {<<bookings[b].stay.ci, bookings[b].stay.co>>} :
        Overwrite(b, [bookings[b] EXCEPT !.st = st, !.pay = pay,
                                         !.stay = [@ EXCEPT !.ci = d[1], !.co = d[2]]])
  BY DEF Sync
<1> DEFINE stay == [bookings[b].stay EXCEPT !.ci = d[1], !.co = d[2]]
           row == [bookings[b] EXCEPT !.st = st, !.pay = pay, !.stay = stay]
<1>2. TypeOK /\ Exists(b) /\ UNCHANGED <<schedules, raced>> /\ Quiet
  BY StillQuiet DEF Sync, IInv
<1>3. bookings[b] \in Row /\ bookings[b].stay \in Stay /\ st \in Statuses
  BY <1>2, ExistingRow, DataAssumption DEF Row
<1>4. d[1] \in Nat /\ d[2] \in Nat
  BY <1>3, DataAssumption DEF Stay
<1>5. stay \in Stay
  BY <1>3, <1>4 DEF Stay
<1>6. Overwrite(b, row)
  BY <1>1
<1> HIDE DEF stay
<1>7. row \in Row /\ row.ext = bookings[b].ext
  BY <1>3, <1>5 DEF Row
<1> HIDE DEF row
<1>8. QED
  BY <1>2, <1>6, <1>7, OverwriteShape

\* So does what Stripe says of a payment.
LEMMA PaymentOutcomeShape ==
    ASSUME IInv, NEW b \in Requests, PaymentOutcome(b)
    PROVE  Rewriting
<1>1. TypeOK /\ Exists(b) /\ UNCHANGED <<schedules, raced>> /\ Quiet
  BY StillQuiet DEF PaymentOutcome, IInv
<1>2. /\ "CONFIRMED" \in Statuses /\ "CANCELLED" \in Statuses
      /\ "COMPLETED" \in PayStatuses /\ "OTHER" \in PayStatuses
  BY DEF Statuses, PayStatuses
<1>3. CASE Overwrite(b, [bookings[b] EXCEPT !.st = "CONFIRMED", !.pay = "COMPLETED"])
  BY <1>1, <1>2, <1>3, StatusRow, OverwriteShape
<1>4. CASE Overwrite(b, [bookings[b] EXCEPT !.st = "CANCELLED", !.pay = "OTHER"])
  BY <1>1, <1>2, <1>4, StatusRow, OverwriteShape
<1>5. CASE Overwrite(b, [bookings[b] EXCEPT !.pay = "OTHER"])
  BY <1>1, <1>2, <1>5, StatusRow, OverwriteShape
<1>6. QED
  BY <1>3, <1>4, <1>5 DEF PaymentOutcome

\* The first step of reschedule, cancel and markAsPaid, and the two ways a
\* write fails.
LEMMA IdlingShape ==
    ASSUME IInv, NEW r \in Requests,
           \/ RescheduleRead(r) \/ CancelRead(r) \/ MarkAsPaidRead(r)
           \/ ImportRefused(r) \/ WriteToDeleted(r)
    PROVE  Idling
<1>1. TypeOK
  BY DEF IInv
<1>2. CASE RescheduleRead(r)
  <2>1. PICK b \in Requests : Exists(b) /\
          req' = [req EXCEPT ![r] = Call("reschedule", "read", b, bookings[b].stay)]
    BY <1>2 DEF RescheduleRead
  <2>2. bookings[b].stay \in Stay
    BY <1>1, <2>1, ExistingRow DEF Row
  <2>3. Quiet
    BY <1>1, <1>2, <2>1, <2>2
    DEF RescheduleRead, Quiet, TypeOK, Call, Request, Kinds, Placements, Calls
  <2>4. QED
    BY <1>2, <2>3 DEF RescheduleRead, Idling
<1>3. CASE CancelRead(r) \/ MarkAsPaidRead(r)
  <2>1. PICK b \in Requests, kind \in {"cancel", "markAsPaid"} :
          Enter(r, {}, Call(kind, "checked", b, Null))
    BY <1>3 DEF CancelRead, MarkAsPaidRead
  <2>2. raced' = raced /\ req' = [req EXCEPT ![r] = Call(kind, "checked", b, Null)]
    BY <2>1 DEF Enter
  <2>3. Quiet
    BY <1>1, <1>3, <2>2
    DEF CancelRead, MarkAsPaidRead, Quiet, TypeOK, Call, Request, Kinds, Calls
  <2>4. QED
    BY <1>3, <2>2, <2>3 DEF CancelRead, MarkAsPaidRead, Idling
<1>4. CASE ImportRefused(r) \/ WriteToDeleted(r)
  BY <1>1, <1>4, DoneQuiet DEF ImportRefused, WriteToDeleted, AtWrite, Idling
<1>5. QED
  BY <1>2, <1>3, <1>4

\* Every step of the backend has one of the shapes.
LEMMA StepShape ==
    ASSUME IInv, Next
    PROVE  \E r \in Requests :
              \/ Checking(r) \/ Writing(r) \/ Rewriting \/ Idling
              \/ Remove(r) \/ CompleteFind(r) \/ CompleteSchedule(r)
BY CreateCheckShape, ImportCheckShape, RescheduleCheckShape, CreateWriteShape, ImportWriteShape,
   RescheduleWriteShape, CancelWriteShape, MarkAsPaidWriteShape, CompleteWriteShape, UpdateShape,
   SyncShape, PaymentOutcomeShape, IdlingShape
DEF Next, RequestStep, RowStep

-----------------------------------------------------------------------------
(***************************************************************************)
(* The invariant, one shape at a time                                      *)
(***************************************************************************)

\* A step that opens no window leaves the windows it found, or closes one.
LEMMA QuietWindows ==
    ASSUME TypeOK, Quiet
    PROVE  /\ Placing' \subseteq Placing /\ Scheduling' \subseteq Scheduling
           /\ \A q \in Placing' \cup Scheduling' : req'[q] = req[q]
           /\ \A q \in Requests : req[q].pc = "done" => req'[q].pc = "done"
BY DEF Quiet, Placing, Scheduling, Placements

\* Schedules untouched, the requests keep their shape through a quiet step.
LEMMA QuietShape ==
    ASSUME TypeOK, InFlightShape, Quiet, UNCHANGED schedules
    PROVE  InFlightShape'
<1>1. SUFFICES ASSUME NEW r \in Requests
      PROVE  (/\ r \in Placing => req[r].stay \in Stay /\ req[r].target \in Requests
              /\ req[r].pc = "read" => req[r].stay \in Stay
              /\ req[r].pc = "read" /\ req[r].kind = "reschedule" => req[r].target \in Requests
              /\ r \in Placing /\ req[r].kind # "reschedule" =>
                    req[r].target = r /\ req[r].st \in Statuses
              /\ r \in Placing /\ req[r].kind = "create" => req[r].ext = Null
              /\ r \in Placing /\ req[r].kind = "import" => req[r].st = "CONFIRMED"
              /\ AtWrite(r, "cancel") \/ AtWrite(r, "markAsPaid") => req[r].target \in Requests
              /\ r \in Scheduling => req[r].stay \in Stay
              /\ r \in Scheduling /\ req[r].target # Null =>
                    req[r].target \in SchedulesOf(req[r].stay.prop))'
  BY DEF InFlightShape
<1>2. CASE req'[r] = req[r]
  BY <1>2 DEF InFlightShape, Placing, Scheduling, AtWrite, SchedulesOf
<1>3. CASE req'[r] # req[r]
  BY <1>3 DEF Quiet, Placing, Scheduling, Placements, AtWrite
<1>4. QED
  BY <1>2, <1>3

\* Steps that touch no booking keep the invariant.
LEMMA IdlingPreserves ==
    ASSUME IInv, Idling
    PROVE  IInv'
<1> USE DEF IInv, Idling
<1>1. TypeOK'
  BY DEF Quiet, TypeOK, hist
<1>2. InFlightShape'
  BY QuietShape
<1>3. /\ Placing' \subseteq Placing /\ Scheduling' \subseteq Scheduling
      /\ \A q \in Placing' \cup Scheduling' : req'[q] = req[q]
      /\ \A q \in Requests : req[q].pc = "done" => req'[q].pc = "done"
  BY QuietWindows
<1>4. OriginsDone'
  BY <1>3 DEF OriginsDone, Exists, hist, TypeOK
<1>5. HistoryTrue'
  BY DEF HistoryTrue, Exists, hist
<1>6. WindowsRaced'
  BY <1>3 DEF WindowsRaced
<1>7. CheckStillHolds'
  <2>1. ASSUME NEW r \in Placing', NEW b \in Requests, Reportable(r, b)'
        PROVE  {r, token'[b]} \in raced'
    BY <1>3, <2>1 DEF CheckStillHolds, Reportable, Exists, hist
  <2>2. ASSUME NEW r \in Scheduling', req'[r].target = Null,
               NEW s \in SchedulesOf(req[r].stay.prop)'
        PROVE  {r, s} \in raced'
    BY <1>3, <2>2 DEF CheckStillHolds, SchedulesOf
  <2>3. QED
    BY <2>1, <2>2 DEF CheckStillHolds
<1>8. DoubleBookingNeedsRace' /\ DuplicateScheduleNeedsRace' /\ UniqueExternal'
  BY DEF DoubleBookingNeedsRace, DuplicateScheduleNeedsRace, UniqueExternal, Guarded, Raced,
         Exists, hist
<1>9. QED
  BY <1>1, <1>2, <1>4, <1>5, <1>6, <1>7, <1>8

\* A rewritten row takes no nights that were free, so pairs stay apart.
LEMMA RewritingPreserves ==
    ASSUME IInv, Rewriting
    PROVE  IInv'
<1> USE DEF IInv
<1>1. PICK b \in Requests, row \in Row :
        Exists(b) /\ row.ext = bookings[b].ext /\ Overwrite(b, row)
  BY DEF Rewriting
<1>2. UNCHANGED <<schedules, raced>> /\ Quiet
  BY DEF Rewriting
<1>3. TypeOK'
  BY <1>1, <1>2, OverwriteTyped DEF TypeOK, Quiet
<1>4. InFlightShape'
  BY <1>2, QuietShape
<1>5. /\ Placing' \subseteq Placing /\ Scheduling' \subseteq Scheduling
      /\ \A q \in Placing' \cup Scheduling' : req'[q] = req[q]
      /\ \A q \in Requests : req[q].pc = "done" => req'[q].pc = "done"
  BY <1>2, QuietWindows
\* The step changes row b alone, and a row that stays held or firm has not moved.
<1>6. /\ \A c \in Requests : Exists(c)' <=> Exists(c)
      /\ \A c \in Requests : c # b => bookings'[c] = bookings[c]
      /\ bookings'[b] = row
      /\ token' = token /\ via' = via
      /\ held' \subseteq held /\ firm' \subseteq firm
      /\ b \in held' => row.st \in Blocking /\ row.stay = bookings[b].stay
      /\ b \in firm' => row.st \in Firm /\ row.stay = bookings[b].stay
  BY <1>1, NullAssumption DEF Overwrite, TypeOK, Exists
<1>7. \A c \in Requests : c \in held' \/ c \in firm' => bookings'[c].stay = bookings[c].stay
  BY <1>6
<1>8. OriginsDone'
  BY <1>2, <1>5, <1>6 DEF OriginsDone, TypeOK
<1>9. HistoryTrue'
  BY <1>6 DEF HistoryTrue
<1>10. WindowsRaced'
  BY <1>2, <1>5 DEF WindowsRaced
<1>11. CheckStillHolds'
  <2>1. ASSUME NEW r \in Placing', NEW c \in Requests, Reportable(r, c)'
        PROVE  {r, token'[c]} \in raced'
    <3>1. r \in Placing /\ req'[r] = req[r] /\ Exists(c) /\ bookings'[c].stay = bookings[c].stay
      BY <1>5, <1>6, <1>7, <2>1 DEF Reportable
    <3>2. Reportable(r, c)
      BY <1>6, <2>1, <3>1 DEF Reportable
    <3>3. QED
      BY <1>2, <1>6, <3>1, <3>2 DEF CheckStillHolds
  <2>2. ASSUME NEW r \in Scheduling', req'[r].target = Null,
               NEW s \in SchedulesOf(req[r].stay.prop)'
        PROVE  {r, s} \in raced'
    BY <1>2, <1>5, <2>2 DEF CheckStillHolds, SchedulesOf
  <2>3. QED
    BY <2>1, <2>2 DEF CheckStillHolds
<1>12. DoubleBookingNeedsRace'
  <2>1. SUFFICES ASSUME NEW a \in Requests, NEW c \in Requests, a # c, Guarded(a, c)',
                        ShareNight(bookings'[a].stay, bookings'[c].stay)
                 PROVE  Raced(a, c)'
    BY DEF DoubleBookingNeedsRace
  <2>2. bookings'[a].stay = bookings[a].stay /\ bookings'[c].stay = bookings[c].stay
    BY <1>7, <2>1 DEF Guarded
  <2>3. Guarded(a, c)
    BY <1>6, <2>1, <2>2 DEF Guarded
  <2>4. QED
    BY <1>2, <1>6, <2>1, <2>2, <2>3 DEF DoubleBookingNeedsRace, Raced
<1>13. DuplicateScheduleNeedsRace'
  BY <1>2 DEF DuplicateScheduleNeedsRace
<1>14. UniqueExternal'
  <2>1. \A c \in Requests : Exists(c) => bookings'[c].ext = bookings[c].ext
    BY <1>1, <1>6
  <2>2. QED
    BY <1>6, <2>1 DEF UniqueExternal
<1>15. QED
  BY <1>3, <1>4, <1>8, <1>9, <1>10, <1>11, <1>12, <1>13, <1>14

\* A booking that is gone meets no other.
LEMMA RemovePreserves ==
    ASSUME IInv, NEW b \in Requests, Remove(b)
    PROVE  IInv'
<1> USE DEF IInv
<1>1. UNCHANGED <<schedules, req, raced>> /\ Quiet
  BY StillQuiet DEF Remove
<1>2. TypeOK'
  BY DEF Remove, TypeOK, Placements
<1>3. InFlightShape'
  BY <1>1, QuietShape
<1>4. Placing' = Placing /\ Scheduling' = Scheduling
  BY <1>1 DEF Placing, Scheduling
\* The row is gone, and the others are as they were.
<1>5. /\ ~Exists(b)' /\ b \notin held' /\ b \notin firm' /\ token'[b] = b
      /\ \A c \in Requests : c # b =>
            /\ bookings'[c] = bookings[c] /\ token'[c] = token[c] /\ via'[c] = via[c]
            /\ (c \in held' <=> c \in held) /\ (c \in firm' <=> c \in firm)
  BY DEF Remove, TypeOK, Exists
<1>6. OriginsDone' /\ HistoryTrue'
  BY <1>1, <1>5 DEF OriginsDone, HistoryTrue, Exists
<1>7. WindowsRaced'
  BY <1>1, <1>4 DEF WindowsRaced
<1>8. CheckStillHolds'
  BY <1>1, <1>4, <1>5 DEF CheckStillHolds, Reportable, Exists, SchedulesOf
<1>9. DoubleBookingNeedsRace'
  BY <1>1, <1>5 DEF DoubleBookingNeedsRace, Guarded, Raced, Exists
<1>10. DuplicateScheduleNeedsRace' /\ UniqueExternal'
  BY <1>1, <1>5 DEF DuplicateScheduleNeedsRace, UniqueExternal, Exists
<1>11. QED
  BY <1>2, <1>3, <1>6, <1>7, <1>8, <1>9, <1>10

\* A check has seen every firm booking and every earlier window.
LEMMA CheckingPreserves ==
    ASSUME IInv, NEW r \in Requests, Checking(r)
    PROVE  IInv'
<1> USE DEF IInv
<1>1. UNCHANGED <<bookings, schedules, hist>> /\ req[r].pc \in {"idle", "read"}
  BY DEF Checking
<1>2. PICK entry \in Request :
        /\ Enter(r, Placing, entry)
        /\ entry.pc = "checked" /\ entry.kind \in Placements
        /\ entry.stay \in Stay /\ entry.target \in Requests
        /\ entry.kind # "reschedule" => entry.target = r /\ entry.st \in Statuses
        /\ entry.kind = "create" => entry.ext = Null
        /\ entry.kind = "import" => entry.st = "CONFIRMED"
        /\ \A b \in Requests :
              ~ /\ Exists(b) /\ b # entry.target
                /\ entry.stay.prop = bookings[b].stay.prop
                /\ entry.kind # "import" => entry.stay.room = bookings[b].stay.room
                /\ IF entry.kind = "create" THEN b \in held ELSE b \in firm
                /\ ShareNight(entry.stay, bookings[b].stay)
  BY DEF Checking
<1>3. /\ req'[r] = entry
      /\ \A q \in Requests : q # r => req'[q] = req[q]
      /\ raced' = raced \cup {{r, q} : q \in Placing}
      /\ raced \subseteq raced'
  BY <1>2 DEF Enter, TypeOK
<1>4. TypeOK'
  BY <1>1, <1>2, EnterTyped, WindowsTyped DEF TypeOK, hist
<1>5. Placing' = Placing \cup {r} /\ r \notin Placing /\ Scheduling' = Scheduling /\ r \notin Scheduling
  BY <1>1, <1>2, <1>3 DEF Placing, Scheduling, Placements
<1>6. InFlightShape'
  <2>1. SUFFICES ASSUME NEW q \in Requests
        PROVE  (/\ q \in Placing => req[q].stay \in Stay /\ req[q].target \in Requests
                /\ req[q].pc = "read" => req[q].stay \in Stay
                /\ req[q].pc = "read" /\ req[q].kind = "reschedule" => req[q].target \in Requests
                /\ q \in Placing /\ req[q].kind # "reschedule" =>
                      req[q].target = q /\ req[q].st \in Statuses
                /\ q \in Placing /\ req[q].kind = "create" => req[q].ext = Null
                /\ q \in Placing /\ req[q].kind = "import" => req[q].st = "CONFIRMED"
                /\ AtWrite(q, "cancel") \/ AtWrite(q, "markAsPaid") => req[q].target \in Requests
                /\ q \in Scheduling => req[q].stay \in Stay
                /\ q \in Scheduling /\ req[q].target # Null =>
                      req[q].target \in SchedulesOf(req[q].stay.prop))'
    BY DEF InFlightShape
  <2>2. CASE q # r
    BY <1>1, <1>3, <1>5, <2>2 DEF InFlightShape, AtWrite, SchedulesOf
  <2>3. CASE q = r
    BY <1>2, <1>3, <1>5, <2>3 DEF Placements, AtWrite
  <2>4. QED
    BY <2>2, <2>3
<1>7. OriginsDone' /\ HistoryTrue'
  BY <1>1, <1>3 DEF OriginsDone, HistoryTrue, Exists, hist, TypeOK
<1>8. WindowsRaced'
  BY <1>3, <1>5 DEF WindowsRaced
<1>9. CheckStillHolds'
  <2>1. ASSUME NEW q \in Placing', NEW b \in Requests, Reportable(q, b)'
        PROVE  {q, token'[b]} \in raced'
    <3>1. CASE q = r
      BY <1>1, <1>2, <1>3, <2>1, <3>1 DEF Reportable, Exists, hist
    <3>2. CASE q # r
      <4>1. q \in Placing /\ Reportable(q, b)
        BY <1>1, <1>3, <1>5, <2>1, <3>2 DEF Reportable, Exists, hist, Placing
      <4>2. QED
        BY <1>1, <1>3, <4>1 DEF CheckStillHolds, hist
    <3>3. QED
      BY <3>1, <3>2
  <2>2. ASSUME NEW q \in Scheduling', req'[q].target = Null, NEW s \in SchedulesOf(req[q].stay.prop)'
        PROVE  {q, s} \in raced'
    BY <1>1, <1>3, <1>5, <2>2 DEF CheckStillHolds, SchedulesOf, Scheduling
  <2>3. QED
    BY <2>1, <2>2 DEF CheckStillHolds
<1>10. DoubleBookingNeedsRace'
  BY <1>1, <1>3 DEF DoubleBookingNeedsRace, Guarded, Raced, Exists, hist
<1>11. DuplicateScheduleNeedsRace' /\ UniqueExternal'
  BY <1>1, <1>3 DEF DuplicateScheduleNeedsRace, UniqueExternal, Exists
<1>12. QED
  BY <1>4, <1>6, <1>7, <1>8, <1>9, <1>10, <1>11

\* A write takes nights that its check found free, unless another window was open.
LEMMA WritingPreserves ==
    ASSUME IInv, NEW r \in Requests, Writing(r)
    PROVE  IInv'
<1> USE DEF IInv
<1>0. PICK b \in Requests : b = req[r].target
  BY DEF Writing, InFlightShape
<1>1. PICK row \in Row :
        /\ Place(b, row, r)
        /\ row.stay = req[r].stay
        /\ req[r].kind = "import" => row.st \in Firm
        /\ row.ext # Null => \A c \in Requests \ {b} : Exists(c) => bookings[c].ext # row.ext
  BY <1>0 DEF Writing
<1>2. r \in Placing /\ Done(r) /\ UNCHANGED <<schedules, raced>>
  BY DEF Writing
<1>3. /\ req[r].kind \in Placements /\ req[r].pc = "checked"
      /\ req[r].kind # "reschedule" => b = r
      /\ b # r => Exists(b)
  BY <1>0, <1>2 DEF InFlightShape, Placing, Writing
<1>4. Quiet
  BY <1>2, <1>3, DoneQuiet
<1>5. TypeOK'
  BY <1>1, <1>2, <1>3, PlaceTyped, DoneEffect DEF TypeOK
<1>6. InFlightShape'
  BY <1>2, <1>4, QuietShape
<1>7. /\ Placing' \subseteq Placing \ {r} /\ Scheduling' \subseteq Scheduling
      /\ \A q \in Placing' \cup Scheduling' : req'[q] = req[q]
      /\ \A q \in Requests : req[q].pc = "done" => req'[q].pc = "done"
      /\ req'[r].pc = "done"
  BY <1>2, <1>4, QuietWindows, DoneEffect DEF Placing
<1>8. /\ bookings'[b] = row /\ token'[b] = r /\ via'[b] = req[r].kind /\ Exists(b)'
      /\ \A c \in Requests : c # b =>
            /\ bookings'[c] = bookings[c] /\ token'[c] = token[c] /\ via'[c] = via[c]
            /\ (c \in held' <=> c \in held) /\ (c \in firm' <=> c \in firm)
      /\ b \in held' <=> row.st \in Blocking
      /\ b \in firm' <=> row.st \in Firm
  BY <1>1, <1>3, NullAssumption DEF Place, TypeOK, Exists
\* A reschedule writes to a row that exists, the others to their own.
<1>9. req'[b].pc = "done"
  <2>1. CASE b = r
    BY <1>7, <2>1
  <2>2. CASE b # r
    BY <1>3, <1>7, <2>2 DEF OriginsDone
  <2>3. QED
    BY <2>1, <2>2
<1>10. OriginsDone'
  BY <1>2, <1>7, <1>8, <1>9 DEF OriginsDone, Exists, TypeOK
<1>11. HistoryTrue'
  BY <1>8 DEF HistoryTrue, Exists
<1>12. WindowsRaced'
  BY <1>2, <1>7 DEF WindowsRaced
<1>13. CheckStillHolds'
  <2>1. ASSUME NEW q \in Placing', NEW c \in Requests, Reportable(q, c)'
        PROVE  {q, token'[c]} \in raced'
    <3>1. q \in Placing /\ q # r /\ req'[q] = req[q]
      BY <1>7, <2>1
    <3>2. CASE c = b
      BY <1>2, <1>8, <3>1, <3>2 DEF WindowsRaced, Placing
    <3>3. CASE c # b
      <4>1. Reportable(q, c)
        BY <1>8, <2>1, <3>1, <3>3 DEF Reportable, Exists
      <4>2. QED
        BY <1>2, <1>8, <3>1, <3>3, <4>1 DEF CheckStillHolds
    <3>4. QED
      BY <3>2, <3>3
  <2>2. ASSUME NEW q \in Scheduling', req'[q].target = Null, NEW s \in SchedulesOf(req[q].stay.prop)'
        PROVE  {q, s} \in raced'
    BY <1>2, <1>7, <2>2 DEF CheckStillHolds, SchedulesOf
  <2>3. QED
    BY <2>1, <2>2 DEF CheckStillHolds
\* The row just written shares a night only with rows its check did not find.
<1>14. ASSUME NEW c \in Requests, c # b,
              Guarded(b, c)' \/ Guarded(c, b)',
              ShareNight(row.stay, bookings[c].stay)
       PROVE  {r, token[c]} \in raced
  <2>1. Exists(c) /\ SameSlot(row.stay, bookings[c].stay) /\ c \in held
        /\ (req[r].kind = "create" \/ c \in firm)
    BY <1>3, <1>8, <1>14 DEF Guarded, Exists, SameSlot
  <2>2. Reportable(r, c)
    BY <1>0, <1>1, <1>14, <2>1 DEF Reportable, SameSlot
  <2>3. QED
    BY <1>2, <2>2 DEF CheckStillHolds
<1>15. DoubleBookingNeedsRace'
  <2>1. SUFFICES ASSUME NEW a \in Requests, NEW c \in Requests, a # c, Guarded(a, c)',
                        ShareNight(bookings'[a].stay, bookings'[c].stay)
                 PROVE  {token'[a], token'[c]} \in raced
    BY <1>2 DEF DoubleBookingNeedsRace, Raced
  <2>2. CASE a = b
    BY <1>8, <1>14, <2>1, <2>2
  <2>3. CASE c = b
    <3>1. ShareNight(row.stay, bookings[a].stay)
      BY <1>8, <2>1, <2>3 DEF ShareNight
    <3>2. {r, token[a]} \in raced
      BY <1>14, <2>1, <2>3, <3>1
    <3>3. QED
      BY <1>8, <2>1, <2>3, <3>2
  <2>4. CASE a # b /\ c # b
    <3>1. Guarded(a, c)
      BY <1>8, <2>1, <2>4 DEF Guarded, Exists
    <3>2. QED
      BY <1>8, <2>1, <2>4, <3>1 DEF DoubleBookingNeedsRace, Raced
  <2>5. QED
    BY <2>2, <2>3, <2>4
<1>16. DuplicateScheduleNeedsRace'
  BY <1>2 DEF DuplicateScheduleNeedsRace
<1>17. UniqueExternal'
  BY <1>1, <1>8 DEF UniqueExternal, Exists
<1>18. QED
  BY <1>5, <1>6, <1>10, <1>11, <1>12, <1>13, <1>15, <1>16, <1>17

\* Looking for a cleaning schedule opens the other kind of window.
LEMMA CompleteFindPreserves ==
    ASSUME IInv, NEW r \in Requests, CompleteFind(r)
    PROVE  IInv'
<1> USE DEF IInv
<1>1. UNCHANGED <<bookings, schedules, hist>> /\ req[r].pc = "read" /\ req[r].stay \in Stay
  BY DEF CompleteFind, InFlightShape
<1>2. PICK s \in FindSchedule(r) : Enter(r, Scheduling, Call("complete", "checked", s, req[r].stay))
  BY DEF CompleteFind
<1>3. s \in SchedulesOf(req[r].stay.prop) \/ (s = Null /\ SchedulesOf(req[r].stay.prop) = {})
  BY DEF FindSchedule
<1>4. Call("complete", "checked", s, req[r].stay) \in Request
  BY <1>1, <1>3 DEF Call, Request, Kinds, SchedulesOf
<1>5. /\ req'[r] = Call("complete", "checked", s, req[r].stay)
      /\ \A q \in Requests : q # r => req'[q] = req[q]
      /\ raced' = raced \cup {{r, q} : q \in Scheduling}
      /\ raced \subseteq raced'
  BY <1>2 DEF Enter, TypeOK
<1>6. TypeOK'
  BY <1>1, <1>2, <1>4, EnterTyped, WindowsTyped DEF TypeOK, hist
<1>7. /\ req'[r].pc = "checked" /\ req'[r].kind = "complete"
      /\ req'[r].target = s /\ req'[r].stay = req[r].stay
  BY <1>5 DEF Call
<1>8. Scheduling' = Scheduling \cup {r} /\ r \notin Scheduling /\ Placing' = Placing /\ r \notin Placing
  BY <1>1, <1>5, <1>7 DEF Placing, Scheduling, Placements
<1>9. InFlightShape'
  <2>1. SUFFICES ASSUME NEW q \in Requests
        PROVE  (/\ q \in Placing => req[q].stay \in Stay /\ req[q].target \in Requests
                /\ req[q].pc = "read" => req[q].stay \in Stay
                /\ req[q].pc = "read" /\ req[q].kind = "reschedule" => req[q].target \in Requests
                /\ q \in Placing /\ req[q].kind # "reschedule" =>
                      req[q].target = q /\ req[q].st \in Statuses
                /\ q \in Placing /\ req[q].kind = "create" => req[q].ext = Null
                /\ q \in Placing /\ req[q].kind = "import" => req[q].st = "CONFIRMED"
                /\ AtWrite(q, "cancel") \/ AtWrite(q, "markAsPaid") => req[q].target \in Requests
                /\ q \in Scheduling => req[q].stay \in Stay
                /\ q \in Scheduling /\ req[q].target # Null =>
                      req[q].target \in SchedulesOf(req[q].stay.prop))'
    BY DEF InFlightShape
  <2>2. CASE q # r
    BY <1>1, <1>5, <1>8, <2>2 DEF InFlightShape, AtWrite, SchedulesOf
  <2>3. CASE q = r
    BY <1>1, <1>3, <1>7, <1>8, <2>3 DEF AtWrite, SchedulesOf
  <2>4. QED
    BY <2>2, <2>3
<1>10. OriginsDone' /\ HistoryTrue'
  BY <1>1, <1>5 DEF OriginsDone, HistoryTrue, Exists, hist, TypeOK
<1>11. WindowsRaced'
  BY <1>5, <1>8 DEF WindowsRaced
<1>12. CheckStillHolds'
  <2>1. ASSUME NEW q \in Placing', NEW b \in Requests, Reportable(q, b)'
        PROVE  {q, token'[b]} \in raced'
    <3>1. q \in Placing /\ Reportable(q, b)
      BY <1>1, <1>5, <1>8, <2>1 DEF Reportable, Exists, hist, Placing
    <3>2. QED
      BY <1>1, <1>5, <3>1 DEF CheckStillHolds, hist
  <2>2. ASSUME NEW q \in Scheduling', req'[q].target = Null, NEW t \in SchedulesOf(req[q].stay.prop)'
        PROVE  {q, t} \in raced'
    <3>1. CASE q = r
      BY <1>1, <1>3, <1>7, <2>2, <3>1, NullAssumption DEF SchedulesOf
    <3>2. CASE q # r
      BY <1>1, <1>5, <1>8, <2>2, <3>2 DEF CheckStillHolds, SchedulesOf, Scheduling
    <3>3. QED
      BY <3>1, <3>2
  <2>3. QED
    BY <2>1, <2>2 DEF CheckStillHolds
<1>13. DoubleBookingNeedsRace'
  BY <1>1, <1>5 DEF DoubleBookingNeedsRace, Guarded, Raced, Exists, hist
<1>14. DuplicateScheduleNeedsRace' /\ UniqueExternal'
  BY <1>1, <1>5 DEF DuplicateScheduleNeedsRace, UniqueExternal, Exists
<1>15. QED
  BY <1>6, <1>9, <1>10, <1>11, <1>12, <1>13, <1>14

\* Writing the schedule: what the look-up found is what is there, but for the
\* completions it raced with.
LEMMA CompleteSchedulePreserves ==
    ASSUME IInv, NEW r \in Requests, CompleteSchedule(r)
    PROVE  IInv'
<1> USE DEF IInv
<1>1. /\ UNCHANGED <<bookings, hist, raced>> /\ Done(r)
      /\ r \in Scheduling /\ req[r].pc = "checked" /\ req[r].stay \in Stay
  BY DEF CompleteSchedule, AtWrite, Scheduling, InFlightShape
<1>2. PICK s \in Requests :
        /\ s = IF req[r].target = Null THEN r ELSE req[r].target
        /\ schedules' = [schedules EXCEPT ![s] =
              [prop |-> req[r].stay.prop, next |-> req[r].stay.co]]
  BY <1>1 DEF CompleteSchedule, InFlightShape, SchedulesOf
<1>3. /\ [prop |-> req[r].stay.prop, next |-> req[r].stay.co] \in Schedule
      /\ schedules'[s] = [prop |-> req[r].stay.prop, next |-> req[r].stay.co]
      /\ schedules'[s].prop = req[r].stay.prop /\ schedules'[s] # Null
      /\ \A t \in Requests : t # s => schedules'[t] = schedules[t]
  BY <1>1, <1>2, NullAssumption DEF Stay, Schedule, TypeOK
<1>4. TypeOK'
  BY <1>1, <1>2, <1>3, DoneEffect DEF TypeOK, hist
<1>5. Quiet
  BY <1>1, DoneQuiet
<1>6. /\ Placing' \subseteq Placing /\ Scheduling' \subseteq Scheduling \ {r}
      /\ \A q \in Placing' \cup Scheduling' : req'[q] = req[q]
      /\ \A q \in Requests : req[q].pc = "done" => req'[q].pc = "done"
      /\ req'[r].pc = "done"
  BY <1>1, <1>5, QuietWindows, DoneEffect DEF Scheduling
\* Either a schedule of the property is dated anew, or the first one is made.
<1>7. \/ req[r].target # Null /\ schedules[s] # Null /\ schedules[s].prop = req[r].stay.prop
      \/ req[r].target = Null /\ s = r /\ schedules[r] = Null
  BY <1>1, <1>2 DEF InFlightShape, OriginsDone, SchedulesOf
<1>8. \A p : SchedulesOf(p) \subseteq SchedulesOf(p)'
  BY <1>3, <1>7 DEF SchedulesOf
<1>9. InFlightShape'
  <2>1. SUFFICES ASSUME NEW q \in Requests
        PROVE  (/\ q \in Placing => req[q].stay \in Stay /\ req[q].target \in Requests
                /\ req[q].pc = "read" => req[q].stay \in Stay
                /\ req[q].pc = "read" /\ req[q].kind = "reschedule" => req[q].target \in Requests
                /\ q \in Placing /\ req[q].kind # "reschedule" =>
                      req[q].target = q /\ req[q].st \in Statuses
                /\ q \in Placing /\ req[q].kind = "create" => req[q].ext = Null
                /\ q \in Placing /\ req[q].kind = "import" => req[q].st = "CONFIRMED"
                /\ AtWrite(q, "cancel") \/ AtWrite(q, "markAsPaid") => req[q].target \in Requests
                /\ q \in Scheduling => req[q].stay \in Stay
                /\ q \in Scheduling /\ req[q].target # Null =>
                      req[q].target \in SchedulesOf(req[q].stay.prop))'
    BY DEF InFlightShape
  <2>2. CASE q # r
    <3>1. req'[q] = req[q]
      BY <1>1, <2>2, DoneEffect
    <3>2. QED
      BY <1>8, <3>1 DEF InFlightShape, Placing, Scheduling, AtWrite
  <2>3. CASE q = r
    BY <1>6, <2>3 DEF Placing, Scheduling, AtWrite
  <2>4. QED
    BY <2>2, <2>3
<1>10. OriginsDone'
  BY <1>1, <1>3, <1>6, <1>7 DEF OriginsDone, Exists, hist, TypeOK
<1>11. HistoryTrue'
  BY <1>1 DEF HistoryTrue, Exists, hist
<1>12. WindowsRaced'
  BY <1>1, <1>6 DEF WindowsRaced
<1>13. CheckStillHolds'
  <2>1. ASSUME NEW q \in Placing', NEW b \in Requests, Reportable(q, b)'
        PROVE  {q, token'[b]} \in raced'
    <3>1. q \in Placing /\ Reportable(q, b)
      BY <1>1, <1>6, <2>1 DEF Reportable, Exists, hist
    <3>2. QED
      BY <1>1, <3>1 DEF CheckStillHolds, hist
  <2>2. ASSUME NEW q \in Scheduling', req'[q].target = Null, NEW t \in SchedulesOf(req[q].stay.prop)'
        PROVE  {q, t} \in raced'
    <3>1. q \in Scheduling /\ q # r /\ req'[q] = req[q] /\ req[q].target = Null
      BY <1>6, <2>2
    <3>2. t \in SchedulesOf(req[q].stay.prop) \/ (t = r /\ req[r].target = Null)
      BY <1>3, <1>7, <2>2, <3>1 DEF SchedulesOf
    <3>3. CASE t \in SchedulesOf(req[q].stay.prop)
      BY <1>1, <3>1, <3>3 DEF CheckStillHolds
    <3>4. CASE t = r
      BY <1>1, <3>1, <3>4 DEF WindowsRaced, Scheduling
    <3>5. QED
      BY <3>2, <3>3, <3>4
  <2>3. QED
    BY <2>1, <2>2 DEF CheckStillHolds
<1>14. DoubleBookingNeedsRace'
  BY <1>1 DEF DoubleBookingNeedsRace, Guarded, Raced, Exists, hist
<1>15. DuplicateScheduleNeedsRace'
  <2>1. ASSUME req[r].target = Null, NEW t \in Requests, schedules[t] # Null,
               schedules[t].prop = req[r].stay.prop
        PROVE  {r, t} \in raced
    BY <1>1, <2>1 DEF CheckStillHolds, SchedulesOf
  <2>2. SUFFICES ASSUME NEW t \in Requests, NEW u \in Requests, t # u,
                        schedules'[t] # Null, schedules'[u] # Null,
                        schedules'[t].prop = schedules'[u].prop
                 PROVE  {t, u} \in raced
    BY <1>1 DEF DuplicateScheduleNeedsRace
  <2>3. CASE req[r].target # Null
    BY <1>3, <1>7, <2>2, <2>3 DEF DuplicateScheduleNeedsRace
  <2>4. CASE req[r].target = Null /\ t # r /\ u # r
    BY <1>3, <1>7, <2>2, <2>4 DEF DuplicateScheduleNeedsRace
  <2>5. CASE req[r].target = Null /\ t = r
    BY <1>3, <1>7, <2>1, <2>2, <2>5
  <2>6. CASE req[r].target = Null /\ u = r
    <3>1. {r, t} \in raced
      BY <1>3, <1>7, <2>1, <2>2, <2>6
    <3>2. QED
      BY <2>6, <3>1
  <2>7. QED
    BY <2>3, <2>4, <2>5, <2>6
<1>16. UniqueExternal'
  BY <1>1 DEF UniqueExternal, Exists
<1>17. QED
  BY <1>4, <1>9, <1>10, <1>11, <1>12, <1>13, <1>14, <1>15, <1>16

-----------------------------------------------------------------------------
(***************************************************************************)
(* The theorems                                                            *)
(***************************************************************************)

\* The invariant holds at the start.
LEMMA InitIInv == Init => IInv
<1> SUFFICES ASSUME Init PROVE IInv
  OBVIOUS
<1>1. TypeOK
  BY DEF Init, TypeOK, Call, Request, Placements
<1>2. \A r \in Requests : req[r].pc = "idle" /\ bookings[r] = Null /\ schedules[r] = Null
  BY DEF Init, Call
<1>3. InFlightShape /\ OriginsDone /\ HistoryTrue /\ WindowsRaced /\ CheckStillHolds
  BY <1>2 DEF Init, InFlightShape, OriginsDone, HistoryTrue, WindowsRaced, CheckStillHolds,
              Placing, Scheduling, AtWrite, Exists
<1>4. DoubleBookingNeedsRace /\ DuplicateScheduleNeedsRace /\ UniqueExternal
  BY <1>2 DEF DoubleBookingNeedsRace, DuplicateScheduleNeedsRace, UniqueExternal, Guarded, Exists
<1>5. QED
  BY <1>1, <1>3, <1>4 DEF IInv

\* And of a step in which nothing happens.
LEMMA StutterIInv ==
    ASSUME IInv, UNCHANGED vars
    PROVE  IInv'
<1>1. Idling
  BY DEF vars, Idling, Quiet, IInv, TypeOK, hist
<1>2. QED
  BY <1>1, IdlingPreserves

\* The strengthened invariant holds in every reachable state: what each running
\* handler found still holds, but for the requests it raced with.
THEOREM Invariant == Spec => []IInv
<1>1. IInv /\ [Next]_vars => IInv'
  BY StepShape, CheckingPreserves, WritingPreserves, RewritingPreserves, IdlingPreserves,
     RemovePreserves, CompleteFindPreserves, CompleteSchedulePreserves, StutterIInv
<1>2. QED
  BY InitIInv, <1>1, PTL DEF Spec

\* Every row, running request and history variable keeps its type.
THEOREM TypeCorrect == Spec => []TypeOK
<1>1. IInv => TypeOK
  BY DEF IInv
<1>2. QED
  BY Invariant, <1>1, PTL

\* However many requests, rooms and properties there are, two bookings hold a
\* night of one room in common only after a race of the handlers that placed
\* them (create, importBooking, reschedule).
THEOREM NoDoubleBookingWithoutRace == Spec => []DoubleBookingNeedsRace
<1>1. IInv => DoubleBookingNeedsRace
  BY DEF IInv
<1>2. QED
  BY Invariant, <1>1, PTL

\* A property gets a second cleaning schedule only after two completions raced
\* (update).
THEOREM NoDuplicateScheduleWithoutRace == Spec => []DuplicateScheduleNeedsRace
<1>1. IInv => DuplicateScheduleNeedsRace
  BY DEF IInv
<1>2. QED
  BY Invariant, <1>1, PTL

\* A platform's reservation has one booking at most, races or not (the unique
\* index and importBooking).
THEOREM OneBookingPerReservation == Spec => []UniqueExternal
<1>1. IInv => UniqueExternal
  BY DEF IInv
<1>2. QED
  BY Invariant, <1>1, PTL

\* An import that is now in the table was written in this step.
LEMMA ImportedIsWriting ==
    ASSUME IInv, [Next]_vars, NEW r \in Requests, Imported(r)
    PROVE  /\ r \in Placing /\ req[r].target = r /\ req[r].kind = "import"
           /\ bookings'[r].stay = req[r].stay
           /\ UNCHANGED raced
<1>1. bookings[r] = Null /\ bookings'[r] # Null /\ req[r].kind = "import"
  BY DEF Imported, Exists
<1>2. PICK q \in Requests :
        \/ Checking(q) \/ Writing(q) \/ Rewriting \/ Idling
        \/ Remove(q) \/ CompleteFind(q) \/ CompleteSchedule(q)
  BY <1>1, StepShape DEF vars
<1>3. CASE Checking(q) \/ Idling \/ CompleteFind(q) \/ CompleteSchedule(q)
  BY <1>1, <1>3 DEF Checking, Idling, CompleteFind, CompleteSchedule
<1>4. CASE Remove(q)
  BY <1>1, <1>4 DEF Remove, IInv, TypeOK
<1>5. CASE Rewriting
  BY <1>1, <1>5 DEF Rewriting, Overwrite, Exists, IInv, TypeOK
<1>6. CASE Writing(q)
  <2>1. PICK row \in Row : Place(req[q].target, row, q) /\ row.stay = req[q].stay
    BY <1>6 DEF Writing
  <2>2. req[q].target = r /\ q \in Placing /\ UNCHANGED raced
    BY <1>1, <1>6, <2>1 DEF Writing, Place, IInv, TypeOK
  <2>3. q = r
    BY <1>1, <1>6, <2>2 DEF Writing, Exists
  <2>4. QED
    BY <1>1, <2>1, <2>2, <2>3 DEF Place, IInv, TypeOK
<1>7. QED
  BY <1>2, <1>3, <1>4, <1>5, <1>6

\* An import is written over a CONFIRMED or CHECKED_IN booking of its property
\* only after a race with the handler that placed that booking (importBooking).
THEOREM ImportsRespectFirmBookings == Spec => ImportChecksWholeProperty
<1>1. IInv /\ [Next]_vars =>
        \A r, b \in Requests :
          (Imported(r) /\ Exists(b) /\ b \in firm
              /\ bookings[b].stay.prop = bookings'[r].stay.prop
              /\ ShareNight(bookings[b].stay, bookings'[r].stay))
            => {r, token[b]} \in raced
  <2>1. SUFFICES ASSUME IInv, [Next]_vars, NEW r \in Requests, NEW b \in Requests,
                        Imported(r), Exists(b), b \in firm,
                        bookings[b].stay.prop = bookings'[r].stay.prop,
                        ShareNight(bookings[b].stay, bookings'[r].stay)
                 PROVE  {r, token[b]} \in raced
    OBVIOUS
  <2>2. /\ r \in Placing /\ req[r].target = r /\ req[r].kind = "import"
        /\ bookings'[r].stay = req[r].stay
    BY <2>1, ImportedIsWriting
  <2>3. b # r
    BY <2>1 DEF Imported
  <2>4. Reportable(r, b)
    BY <2>1, <2>2, <2>3 DEF Reportable, ShareNight
  <2>5. QED
    BY <2>1, <2>2, <2>4 DEF IInv, CheckStillHolds
<1>2. QED
  BY Invariant, <1>1, PTL DEF Spec, ImportChecksWholeProperty
=============================================================================
