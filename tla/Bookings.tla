------------------------------ MODULE Bookings ------------------------------
(***************************************************************************)
(* The bookings table and every handler of the backend that writes it:     *)
(* bookings.service.ts (create, createPublic, update, cancel, markAsPaid,  *)
(* remove, reschedule), external-bookings.service.ts (importBooking,       *)
(* syncBooking) and the booking writes of payments.service.ts.             *)
(*                                                                         *)
(* No handler uses a database transaction.  Every handler that reads the   *)
(* table, decides, and writes later is therefore split at the await        *)
(* between the decision and the write: its first action reads and checks,  *)
(* its second one writes, and any other action may happen in between.  A   *)
(* request that its check turns down changes nothing and has no action.    *)
(*                                                                         *)
(* Of a booking the module keeps what the handlers branch on: the place    *)
(* and the dates (stay), the status (st), whether paymentStatus is         *)
(* COMPLETED or another one (pay), and the (source, externalId) pair of an *)
(* imported booking (ext, Null for a direct one).  The payments table is   *)
(* in Payments, prices are left out here.                                  *)
(***************************************************************************)
EXTENDS Naturals

CONSTANTS
    Requests,           \* calls of the API; an inserting call names its row
    Properties,         \* rows of the properties table
    ActiveProperties,   \* those whose status is ACTIVE
    Rooms,              \* room ids a client may send
    ExternalKeys,       \* (source, externalId) pairs of the platforms
    Null,               \* SQL NULL, and "no row"
    StayDates,          \* <<checkIn, checkOut>> pairs clients ask for
    Today,              \* the server's date
    RequestKinds,       \* which multi-step handlers are called
    UpdateStatuses      \* statuses staff and platforms write

VARIABLES
    bookings,           \* the bookings table: id -> row or Null
    schedules,          \* AFTER_EACH_BOOKING schedules made by completions: id -> row or Null
    req,                \* the handler running for each request
    \* History variables: read by no guard of a handler.
    token,              \* the request that gave each row its present dates
    via,                \* the kind of handler that did
    held,               \* rows that have blocked those dates ever since
    firm,               \* rows CONFIRMED or CHECKED_IN ever since
    raced               \* pairs of requests whose check-to-write windows overlapped

hist == <<token, via, held, firm>>

vars == <<bookings, schedules, req, hist, raced>>

-----------------------------------------------------------------------------
(***************************************************************************)
(* Rows and requests                                                       *)
(***************************************************************************)
Statuses == {"PENDING", "CONFIRMED", "CHECKED_IN", "COMPLETED", "CANCELLED", "NO_SHOW"}

\* The statuses create counts as occupying the dates, and the shorter list
\* that importBooking and reschedule look for.
Blocking == {"PENDING", "CONFIRMED", "CHECKED_IN"}
Firm == {"CONFIRMED", "CHECKED_IN"}

PayStatuses == {"COMPLETED", "OTHER"}

Stay == [prop : Properties, room : Rooms \cup {Null}, ci : Nat, co : Nat]
Row == [stay : Stay, st : Statuses, pay : PayStatuses, ext : ExternalKeys \cup {Null}]
Schedule == [prop : Properties, next : Nat]

Placements == {"create", "import", "reschedule"}
Kinds == Placements \cup {"cancel", "markAsPaid", "complete"}

\* pc: "idle" before the call; "read" once a reschedule has loaded its booking
\* or an update to COMPLETED has written it; "checked" between the last read a
\* decision rests on and the write; "done" after it.  stay, st and ext are what
\* the request is going to write.
Request == [kind : Kinds \cup {Null}, pc : {"idle", "read", "checked", "done"},
            target : Requests \cup {Null}, stay : Stay \cup {Null},
            st : Statuses \cup {Null}, ext : ExternalKeys \cup {Null}]

ASSUME DataAssumption ==
    /\ ActiveProperties \subseteq Properties
    /\ StayDates \subseteq Nat \X Nat
    /\ Today \in Nat
    /\ RequestKinds \subseteq Kinds
    /\ UpdateStatuses \subseteq Statuses

ASSUME NullAssumption ==
    /\ Null \notin Rooms \cup ExternalKeys \cup Requests \cup Kinds
    /\ Null \notin Row \cup Stay \cup Statuses \cup Schedule

TypeOK ==
    /\ bookings \in [Requests -> Row \cup {Null}]
    /\ schedules \in [Requests -> Schedule \cup {Null}]
    /\ req \in [Requests -> Request]
    /\ token \in [Requests -> Requests]
    /\ via \in [Requests -> Placements]
    /\ held \in SUBSET Requests
    /\ firm \in SUBSET Requests
    /\ raced \in SUBSET SUBSET Requests

Exists(b) == bookings[b] # Null

\* A request that is not going to insert a row.
Call(kind, pc, target, stay) ==
    [kind |-> kind, pc |-> pc, target |-> target, stay |-> stay, st |-> Null, ext |-> Null]

Init ==
    /\ bookings = [b \in Requests |-> Null]
    /\ schedules = [s \in Requests |-> Null]
    /\ req = [r \in Requests |-> Call(Null, "idle", Null, Null)]
    /\ token = [b \in Requests |-> b]
    /\ via = [b \in Requests |-> "create"]
    /\ held = {}
    /\ firm = {}
    /\ raced = {}

-----------------------------------------------------------------------------
(***************************************************************************)
(* The conflict queries                                                    *)
(***************************************************************************)

\* Variant: bounds compared strictly on the wrong side, so that only a stay
\* that begins inside the other one is a conflict.
OverlapsAtStartOnly(s, t) == s.ci <= t.ci /\ t.ci <= s.co

\* OR: [{ checkIn: { lte: checkOut }, checkOut: { gte: checkIn } }], closed at
\* both ends: a stay that ends on a day conflicts with one that begins on it.
Overlaps(s, t) == s.ci <= t.co /\ s.co >= t.ci

\* conflictWhere of create: the room when one is asked for, otherwise the
\* bookings of the property that have no room.
CreateConflict(row, stay) ==
    /\ row.st \in Blocking
    /\ Overlaps(row.stay, stay)
    /\ row.stay.room = stay.room
    /\ stay.room = Null => row.stay.prop = stay.prop

\* Variant: an import looks only at bookings without a room.
ImportConflictRoomless(row, stay) ==
    /\ row.st \in Firm
    /\ Overlaps(row.stay, stay)
    /\ row.stay.prop = stay.prop
    /\ row.stay.room = Null

\* The query of importBooking: every booking of the property, of a room or
\* not, but PENDING ones do not count.
ImportConflict(row, stay) ==
    /\ row.st \in Firm
    /\ Overlaps(row.stay, stay)
    /\ row.stay.prop = stay.prop

\* conflictWhere of reschedule: with a roomId in the request (asked # Null)
\* the room alone decides, otherwise the booking's own room and property.
RescheduleConflict(row, stay, asked) ==
    /\ row.st \in Firm
    /\ Overlaps(row.stay, stay)
    /\ row.stay.room = stay.room
    /\ asked = Null => row.stay.prop = stay.prop

-----------------------------------------------------------------------------
(***************************************************************************)
(* Steps common to the handlers                                            *)
(***************************************************************************)

\* A status or date written over row b.  A booking that stops blocking, or
\* whose dates are written without a check, loses its history for good.
Overwrite(b, row) ==
    /\ bookings' = [bookings EXCEPT ![b] = row]
    /\ held' = IF row.st \in Blocking /\ row.stay = bookings[b].stay THEN held ELSE held \ {b}
    /\ firm' = IF row.st \in Firm /\ row.stay = bookings[b].stay THEN firm ELSE firm \ {b}
    /\ UNCHANGED <<token, via>>

\* Row b gets the dates that request r has checked.
Place(b, row, r) ==
    /\ bookings' = [bookings EXCEPT ![b] = row]
    /\ token' = [token EXCEPT ![b] = r]
    /\ via' = [via EXCEPT ![b] = req[r].kind]
    /\ held' = IF row.st \in Blocking THEN held \cup {b} ELSE held \ {b}
    /\ firm' = IF row.st \in Firm THEN firm \cup {b} ELSE firm \ {b}

\* Requests now between a check of the dates and the write that relies on it,
\* and those between looking for a cleaning schedule and writing one.
Placing == {q \in Requests : req[q].pc = "checked" /\ req[q].kind \in Placements}
Scheduling == {q \in Requests : req[q].pc = "checked" /\ req[q].kind = "complete"}

Enter(r, rivals, entry) ==
    /\ req' = [req EXCEPT ![r] = entry]
    /\ raced' = raced \cup {{r, q} : q \in rivals}

Calls(r, kind) == kind \in RequestKinds /\ req[r].pc = "idle"
Done(r) == req' = [req EXCEPT ![r] = Call(Null, "done", Null, Null)]
AtWrite(r, kind) == req[r].pc = "checked" /\ req[r].kind = kind

-----------------------------------------------------------------------------
(***************************************************************************)
(* Creating a booking                                                      *)
(***************************************************************************)

\* create up to its findMany: staff and logged-in guests create CONFIRMED
\* bookings, createPublic PENDING ones.  The dates are not compared with each
\* other nor with today.
CreateCheck(r) ==
    /\ Calls(r, "create")
    /\ \E prop \in ActiveProperties, room \in Rooms \cup {Null}, d \in StayDates,
          st \in {"PENDING", "CONFIRMED"} :
        LET stay == [prop |-> prop, room |-> room, ci |-> d[1], co |-> d[2]] IN
        /\ \A b \in Requests : Exists(b) => ~CreateConflict(bookings[b], stay)
        /\ Enter(r, Placing,
                 [kind |-> "create", pc |-> "checked", target |-> r,
                  stay |-> stay, st |-> st, ext |-> Null])
    /\ UNCHANGED <<bookings, schedules, hist>>

\* Variant: the insert takes the request's fields but not the column's default.
RowWithoutPayment(r) == [stay |-> req[r].stay, st |-> req[r].st, pay |-> Null, ext |-> req[r].ext]

\* The row an insert writes; paymentStatus is left to its default, PENDING.
NewRow(r) == [stay |-> req[r].stay, st |-> req[r].st, pay |-> "OTHER", ext |-> req[r].ext]

CreateWrite(r) ==
    /\ AtWrite(r, "create")
    /\ Place(r, NewRow(r), r)
    /\ Done(r)
    /\ UNCHANGED <<schedules, raced>>

(***************************************************************************)
(* Importing one from a platform                                           *)
(***************************************************************************)

\* Variant: the look-up of (source, externalId) alone guards the insert.
InsertUnchecked(ext) == TRUE

\* importBooking up to its conflict query.  Its first look-up, by source and
\* externalId, is one read with the conflict query here; the unique index
\* decides again at the insert.
ImportCheck(r) ==
    /\ Calls(r, "import")
    /\ \E prop \in Properties, d \in StayDates, ext \in ExternalKeys :
        LET stay == [prop |-> prop, room |-> Null, ci |-> d[1], co |-> d[2]] IN
        /\ \A b \in Requests : Exists(b) =>
              /\ bookings[b].ext # ext
              /\ ~ImportConflict(bookings[b], stay)
        /\ Enter(r, Placing,
                 [kind |-> "import", pc |-> "checked", target |-> r,
                  stay |-> stay, st |-> "CONFIRMED", ext |-> ext])
    /\ UNCHANGED <<bookings, schedules, hist>>

\* @@unique([source, externalId]): whether the index admits the key.
UniqueIndexAdmits(ext) == \A b \in Requests : Exists(b) => bookings[b].ext # ext

ImportWrite(r) ==
    /\ AtWrite(r, "import")
    /\ UniqueIndexAdmits(req[r].ext)
    /\ Place(r, NewRow(r), r)
    /\ Done(r)
    /\ UNCHANGED <<schedules, raced>>

\* The insert throws on the unique index.
ImportRefused(r) ==
    /\ AtWrite(r, "import")
    /\ ~UniqueIndexAdmits(req[r].ext)
    /\ Done(r)
    /\ UNCHANGED <<bookings, schedules, hist, raced>>

-----------------------------------------------------------------------------
(***************************************************************************)
(* Moving a booking                                                        *)
(***************************************************************************)

\* reschedule loads the booking.
RescheduleRead(r) ==
    /\ Calls(r, "reschedule")
    /\ \E b \in Requests :
        /\ Exists(b)
        /\ req' = [req EXCEPT ![r] =
              Call("reschedule", "read", b, bookings[b].stay)]
    /\ UNCHANGED <<bookings, schedules, hist, raced>>

\* reschedule validates the dates and runs its conflict query, which leaves the
\* booking itself out.  Room and missing check-out come from the row loaded.
RescheduleCheck(r) ==
    /\ req[r].pc = "read" /\ req[r].kind = "reschedule"
    /\ LET b == req[r].target
           old == req[r].stay
       IN  \E asked \in Rooms \cup {Null}, d \in StayDates : \E co \in {d[2], old.co} :
            LET stay == [old EXCEPT !.room = IF asked = Null THEN @ ELSE asked,
                                    !.ci = d[1], !.co = co]
            IN  /\ d[1] < co
                /\ d[1] >= Today
                /\ \A c \in Requests \ {b} :
                      Exists(c) => ~RescheduleConflict(bookings[c], stay, asked)
                /\ Enter(r, Placing,
                         Call("reschedule", "checked", b, stay))
    /\ UNCHANGED <<bookings, schedules, hist>>

\* The update writes dates and room and leaves the other columns.
RescheduleWrite(r) ==
    LET b == req[r].target IN
    /\ AtWrite(r, "reschedule")
    /\ Exists(b)
    /\ Place(b, [bookings[b] EXCEPT !.stay = req[r].stay], r)
    /\ Done(r)
    /\ UNCHANGED <<schedules, raced>>

-----------------------------------------------------------------------------
(***************************************************************************)
(* Cancelling a booking, marking it paid, completing the stay              *)
(***************************************************************************)

\* cancel loads the booking and tests its status; looking for a payment and
\* refunding it come before the write.
CancelRead(r) ==
    /\ Calls(r, "cancel")
    /\ \E b \in Requests :
        /\ Exists(b)
        /\ bookings[b].st \notin {"CANCELLED", "COMPLETED"}
        /\ Enter(r, {}, Call("cancel", "checked", b, Null))
    /\ UNCHANGED <<bookings, schedules, hist>>

\* With a completed payment paymentStatus becomes REFUNDED.
CancelWrite(r) ==
    LET b == req[r].target IN
    /\ AtWrite(r, "cancel")
    /\ Exists(b)
    /\ \E pay \in {bookings[b].pay, "OTHER"} :
        Overwrite(b, [bookings[b] EXCEPT !.st = "CANCELLED", !.pay = pay])
    /\ Done(r)
    /\ UNCHANGED <<schedules, raced>>

MarkAsPaidRead(r) ==
    /\ Calls(r, "markAsPaid")
    /\ \E b \in Requests :
        /\ Exists(b)
        /\ bookings[b].pay # "COMPLETED"
        /\ Enter(r, {}, Call("markAsPaid", "checked", b, Null))
    /\ UNCHANGED <<bookings, schedules, hist>>

MarkAsPaidWrite(r) ==
    LET b == req[r].target IN
    /\ AtWrite(r, "markAsPaid")
    /\ Exists(b)
    /\ Overwrite(b, [bookings[b] EXCEPT !.st = "CONFIRMED", !.pay = "COMPLETED"])
    /\ Done(r)
    /\ UNCHANGED <<schedules, raced>>

\* update with status COMPLETED: the row is written first ...
CompleteWrite(r) ==
    /\ Calls(r, "complete")
    /\ \E b \in Requests, pay \in PayStatuses :
        /\ Exists(b)
        /\ Overwrite(b, [bookings[b] EXCEPT !.st = "COMPLETED", !.pay = pay])
        /\ req' = [req EXCEPT ![r] =
              Call("complete", "read", Null, bookings[b].stay)]
    /\ UNCHANGED <<schedules, raced>>

SchedulesOf(prop) == {s \in Requests : schedules[s] # Null /\ schedules[s].prop = prop}

\* Variant: the look-up is skipped and a schedule is always created.
FindNothing(r) == {Null}

\* What findFirst may return: any AFTER_EACH_BOOKING schedule of the property.
FindSchedule(r) ==
    LET found == SchedulesOf(req[r].stay.prop) IN
    IF found = {} THEN {Null} ELSE found

\* ... then the cleaning schedule of the property is looked up ...
CompleteFind(r) ==
    /\ req[r].pc = "read" /\ req[r].kind = "complete"
    /\ \E s \in FindSchedule(r) :
        Enter(r, Scheduling, Call("complete", "checked", s, req[r].stay))
    /\ UNCHANGED <<bookings, schedules, hist>>

\* ... and dated to the check-out, or created.
CompleteSchedule(r) ==
    /\ AtWrite(r, "complete")
    /\ LET s == IF req[r].target = Null THEN r ELSE req[r].target
           stay == req[r].stay
       IN  schedules' = [schedules EXCEPT ![s] = [prop |-> stay.prop, next |-> stay.co]]
    /\ Done(r)
    /\ UNCHANGED <<bookings, hist, raced>>

-----------------------------------------------------------------------------
(***************************************************************************)
(* Handlers whose only decision is that the row exists                     *)
(***************************************************************************)

\* update with any other status, or with none.
Update(b) ==
    /\ Exists(b)
    /\ \E st \in (UpdateStatuses \ {"COMPLETED"}) \cup {bookings[b].st}, pay \in PayStatuses :
        Overwrite(b, [bookings[b] EXCEPT !.st = st, !.pay = pay])
    /\ UNCHANGED <<schedules, req, raced>>

\* syncBooking: not for direct bookings; dates are written unchecked.
Sync(b) ==
    /\ Exists(b)
    /\ bookings[b].ext # Null
    /\ \E st \in UpdateStatuses \cup {bookings[b].st}, pay \in PayStatuses,
          d \in StayDates \cup {<<bookings[b].stay.ci, bookings[b].stay.co>>} :
        Overwrite(b, [bookings[b] EXCEPT !.st = st, !.pay = pay,
                                         !.stay = [@ EXCEPT !.ci = d[1], !.co = d[2]]])
    /\ UNCHANGED <<schedules, req, raced>>

Remove(b) ==
    /\ Exists(b)
    /\ bookings' = [bookings EXCEPT ![b] = Null]
    /\ token' = [token EXCEPT ![b] = b]
    /\ via' = [via EXCEPT ![b] = "create"]
    /\ held' = held \ {b}
    /\ firm' = firm \ {b}
    /\ UNCHANGED <<schedules, req, raced>>

\* The booking writes of payments.service: payment confirmed, fully refunded,
\* failed.  When each happens is the subject of Payments.
PaymentOutcome(b) ==
    /\ Exists(b)
    /\ \/ Overwrite(b, [bookings[b] EXCEPT !.st = "CONFIRMED", !.pay = "COMPLETED"])
       \/ Overwrite(b, [bookings[b] EXCEPT !.st = "CANCELLED", !.pay = "OTHER"])
       \/ Overwrite(b, [bookings[b] EXCEPT !.pay = "OTHER"])
    /\ UNCHANGED <<schedules, req, raced>>

\* A write by id to a booking that was deleted meanwhile throws.
WriteToDeleted(r) ==
    /\ req[r].pc = "checked"
    /\ req[r].kind \in {"reschedule", "cancel", "markAsPaid"}
    /\ ~Exists(req[r].target)
    /\ Done(r)
    /\ UNCHANGED <<bookings, schedules, hist, raced>>

-----------------------------------------------------------------------------
RequestStep(r) ==
    \/ CreateCheck(r) \/ CreateWrite(r)
    \/ ImportCheck(r) \/ ImportWrite(r) \/ ImportRefused(r)
    \/ RescheduleRead(r) \/ RescheduleCheck(r) \/ RescheduleWrite(r)
    \/ CancelRead(r) \/ CancelWrite(r)
    \/ MarkAsPaidRead(r) \/ MarkAsPaidWrite(r)
    \/ CompleteWrite(r) \/ CompleteFind(r) \/ CompleteSchedule(r)
    \/ WriteToDeleted(r)

RowStep(b) == Update(b) \/ Sync(b) \/ Remove(b) \/ PaymentOutcome(b)

Next == \E r \in Requests : RequestStep(r) \/ RowStep(r)

Spec == Init /\ [][Next]_vars

-----------------------------------------------------------------------------
(***************************************************************************)
(* What the handlers promise of the calendar                               *)
(***************************************************************************)

\* The two stays have a night in common, night n being the one after day n.
ShareNight(s, t) == s.ci < s.co /\ t.ci < t.co /\ s.ci < t.co /\ t.ci < s.co

SameSlot(s, t) == s.prop = t.prop /\ s.room = t.room

\* Rows whose dates each handler's check was meant to protect: both have
\* blocked their dates ever since a handler placed them there, and if one was
\* placed by a handler that overlooks PENDING bookings, the other has been
\* CONFIRMED or CHECKED_IN all along.
Guarded(a, b) ==
    /\ Exists(a) /\ Exists(b)
    /\ SameSlot(bookings[a].stay, bookings[b].stay)
    /\ a \in held /\ b \in held
    /\ via[a] = "create" \/ b \in firm
    /\ via[b] = "create" \/ a \in firm

Raced(a, b) == {token[a], token[b]} \in raced

\* No double booking without a race: when two bookings of the same room (or of
\* the same property, without room) hold a night in common, the handlers that
\* gave them their dates were both between their availability query and their
\* write at one moment.  The closed comparison of the queries, the exclusion of
\* the booking being moved and the statuses looked for are what this rests on
\* (create, importBooking, reschedule).
DoubleBookingNeedsRace ==
    \A a, b \in Requests :
        (a # b /\ Guarded(a, b) /\ ShareNight(bookings[a].stay, bookings[b].stay))
            => Raced(a, b)

\* One booking per reservation of a platform, even when the same reservation is
\* imported by two calls at once (@@unique([source, externalId])).
UniqueExternal ==
    \A a, b \in Requests :
        (a # b /\ Exists(a) /\ Exists(b) /\ bookings[a].ext # Null)
            => bookings[a].ext # bookings[b].ext

\* Among the schedules that completions create, a property gets a second one only
\* when two completions looked for one at the same time (update).
DuplicateScheduleNeedsRace ==
    \A s, t \in Requests :
        (s # t /\ schedules[s] # Null /\ schedules[t] # Null
            /\ schedules[s].prop = schedules[t].prop) => {s, t} \in raced

\* Row r appears in this step as an import.
Imported(r) == ~Exists(r) /\ req[r].kind = "import" /\ bookings'[r] # Null

\* An import is never written over a booking of the property, whatever its
\* room, that has been CONFIRMED or CHECKED_IN since it got its dates, unless
\* the two handlers raced (importBooking queries the whole property).
ImportChecksWholeProperty ==
    [][\A r, b \in Requests :
        (Imported(r) /\ Exists(b) /\ b \in firm
            /\ bookings[b].stay.prop = bookings'[r].stay.prop
            /\ ShareNight(bookings[b].stay, bookings'[r].stay))
        => {r, token[b]} \in raced]_vars

\* What the comment on importBooking's query says: it looks for "date conflicts
\* with existing bookings (both direct and external)".  Then no import is
\* written over a booking that has occupied its dates all along.
ImportChecksAllBookings ==
    [][\A r, b \in Requests :
        (Imported(r) /\ Exists(b) /\ b \in held
            /\ bookings[b].stay.prop = bookings'[r].stay.prop
            /\ ShareNight(bookings[b].stay, bookings'[r].stay))
        => {r, token[b]} \in raced]_vars

-----------------------------------------------------------------------------
(***************************************************************************)
(* Why it holds: the inductive invariant                                   *)
(***************************************************************************)

\* What a running request carries.
InFlightShape ==
    \A r \in Requests :
        /\ r \in Placing => req[r].stay \in Stay /\ req[r].target \in Requests
        /\ req[r].pc = "read" => req[r].stay \in Stay
        /\ req[r].pc = "read" /\ req[r].kind = "reschedule" => req[r].target \in Requests
        /\ r \in Placing /\ req[r].kind # "reschedule" =>
              req[r].target = r /\ req[r].st \in Statuses
        /\ r \in Placing /\ req[r].kind = "create" => req[r].ext = Null
        /\ r \in Placing /\ req[r].kind = "import" => req[r].st = "CONFIRMED"
        /\ AtWrite(r, "cancel") \/ AtWrite(r, "markAsPaid") => req[r].target \in Requests
        /\ r \in Scheduling => req[r].stay \in Stay
        /\ r \in Scheduling /\ req[r].target # Null =>
              req[r].target \in SchedulesOf(req[r].stay.prop)

\* Rows, dates and schedules come from requests that are over.
OriginsDone ==
    \A b \in Requests :
        /\ Exists(b) => req[b].pc = "done" /\ req[token[b]].pc = "done"
        /\ schedules[b] # Null => req[b].pc = "done"

\* A row said to have held its dates blocks them now.
HistoryTrue ==
    \A b \in Requests :
        /\ b \in held => Exists(b) /\ bookings[b].st \in Blocking
        /\ b \in firm => Exists(b) /\ bookings[b].st \in Firm

\* Two requests that are in the same kind of window at once have raced.
WindowsRaced ==
    \A r, q \in Requests :
        r # q /\ ((r \in Placing /\ q \in Placing) \/ (r \in Scheduling /\ q \in Scheduling))
            => {r, q} \in raced

\* Row b is one that the query of request r, still to write, had to report.
Reportable(r, b) ==
    /\ Exists(b)
    /\ b # req[r].target
    /\ req[r].stay.prop = bookings[b].stay.prop
    /\ req[r].kind # "import" => req[r].stay.room = bookings[b].stay.room
    /\ IF req[r].kind = "create" THEN b \in held ELSE b \in firm
    /\ ShareNight(req[r].stay, bookings[b].stay)

\* What a check found stays true until the write, but for what raced with it.
CheckStillHolds ==
    /\ \A r \in Placing, b \in Requests : Reportable(r, b) => {r, token[b]} \in raced
    /\ \A r \in Scheduling : req[r].target = Null =>
          \A s \in SchedulesOf(req[r].stay.prop) : {r, s} \in raced

IInv ==
    /\ TypeOK
    /\ InFlightShape
    /\ OriginsDone
    /\ HistoryTrue
    /\ WindowsRaced
    /\ CheckStillHolds
    /\ DoubleBookingNeedsRace
    /\ DuplicateScheduleNeedsRace
    /\ UniqueExternal
=============================================================================
