------------------------------- MODULE Rooms -------------------------------
(***************************************************************************)
(* rooms.service.ts: rooms, their availability and pricing rules, and the  *)
(* reads that say whether a room is free and what it costs: the search,    *)
(* the calendar, the occupancy, the dashboard and the availability of one  *)
(* room.  Each reads the tables its own way, so the properties are about   *)
(* where they agree, and about agreement with what bookings.create accepts *)
(* and charges.                                                            *)
(*                                                                         *)
(* Days are numbers and the night of day d is the one from d to d + 1.     *)
(* Dates are kept as they are sent: a rule and a booking may end before    *)
(* they begin.  The race of two bookings is in Bookings, with reschedules  *)
(* and the bookings of no room: here a booking is one step, of which later *)
(* only the status changes.  A room keeps its base price, for no property  *)
(* compares the prices of two moments.                                     *)
(***************************************************************************)
EXTENDS Requests, Prices, FiniteSets

CONSTANTS
    Rooms,
    Properties,
    Base,               \* room -> basePrice, in cents
    PropertyBase,       \* property -> basePrice, in cents
    Overrides,          \* priceOverride values
    SeededRooms,        \* rooms that the seed has made
    SeededAt,           \* the property it has put them in
    SeededBlocks,       \* the blocked days it may have drawn
    MaxDay,
    MaxRules,           \* bounds on rules and on stays
    MaxStays

VARIABLES
    room,               \* room -> "new", "here" or "gone"
    property,           \* room -> propertyId, of no meaning before the room is made
    bookable,           \* rooms with isBookable
    active,             \* properties whose status is ACTIVE
    dynamic,            \* properties with hasDynamicRooms
    rules,              \* room_availability_rules
    stays,              \* bookings of rooms
    blocked,            \* property_availability: <<property, day>> not available
    unsure              \* history: properties whose flag was overtaken, as the actions say

tables == <<room, property, bookable, active, dynamic, rules, stays, blocked>>
roomVars == <<tables, unsure>>

-----------------------------------------------------------------------------
Days == 0 .. MaxDay
Pairs == Days \X Days

Rule == [room : Rooms, from : Days, to : Days \cup {MaxDay + 1},
         open : BOOLEAN, price : Nat \cup {Null}]

StayStatuses == {"PENDING", "CONFIRMED", "CHECKED_IN", "COMPLETED", "CANCELLED", "NO_SHOW"}
Occupying == {"PENDING", "CONFIRMED", "CHECKED_IN"}

\* The property and the room of a booking are two columns that nothing relates;
\* the room is not even a foreign key.
Stay == [prop : Properties, room : Rooms, from : Days, to : Days, st : StayStatuses, price : Int]

ASSUME RoomsAssumption ==
    /\ Base \in [Rooms -> Nat] /\ PropertyBase \in [Properties -> Nat]
    /\ Overrides \subseteq Nat
    /\ SeededRooms \subseteq Rooms /\ IsFiniteSet(SeededRooms)
    /\ SeededAt \in Properties
    /\ SeededBlocks \subseteq SUBSET (Properties \X Days)
    /\ MaxDay \in Nat /\ MaxRules \in Nat /\ MaxStays \in Nat

RoomsInit ==
    /\ room = [r \in Rooms |-> IF r \in SeededRooms THEN "here" ELSE "new"]
    /\ property = [r \in Rooms |-> SeededAt]
    /\ bookable = SeededRooms
    /\ active = Properties
    /\ dynamic = {SeededAt : r \in SeededRooms}
    /\ rules = {} /\ stays = {}
    /\ blocked \in SeededBlocks
    /\ unsure = {}

Here == {r \in Rooms : room[r] = "here"}
RoomsOf(p) == {r \in Here : property[r] = p}

-----------------------------------------------------------------------------
(***************************************************************************)
(* Adding and removing rooms                                               *)
(***************************************************************************)
\* seedRooms, the script, is in Scripts: it clears and fills the rooms of a property.
RoomOps == {"createRoom", "removeRoom", "seedRooms"}

\* A removal has counted no room of p and is about to lower its flag.
Lowering(p) == \E h \in Busy : At(h, "removeRoom", "unflag") /\ handler[h].prop = p

\* A room comes to p; a removal that has counted none will lower the flag over it.
Overtaken(p) == IF Lowering(p) THEN unsure \cup {p} ELSE unsure

\* create has found the property.
CreateRoom(h, p) ==
    /\ Begin(h, [op |-> "createRoom", pc |-> "insert", prop |-> p])
    /\ UNCHANGED roomVars

InsertRoom(h) ==
    /\ At(h, "createRoom", "insert")
    /\ \E r \in Rooms :
        /\ room[r] = "new"
        /\ room' = [room EXCEPT ![r] = "here"]
        /\ property' = [property EXCEPT ![r] = handler[h].prop]
        /\ \E new \in {{}, {r}} : bookable' = bookable \cup new
    /\ unsure' = Overtaken(handler[h].prop)
    /\ Goto(h, [handler[h] EXCEPT !.pc = "flag"])
    /\ UNCHANGED <<active, dynamic, rules, stays, blocked>>

\* The flag goes up although the rooms may have left meanwhile.
Raise(p) ==
    /\ dynamic' = dynamic \cup {p}
    /\ unsure' = IF RoomsOf(p) = {} THEN unsure \cup {p} ELSE unsure
    /\ UNCHANGED <<room, property, bookable, active, rules, stays, blocked>>

RaiseFlag(h) ==
    /\ At(h, "createRoom", "flag")
    /\ Raise(handler[h].prop)
    /\ Return(h)

\* remove has found the room.
RemoveRoom(h, r) ==
    /\ r \in Here
    /\ Begin(h, [op |-> "removeRoom", pc |-> "delete", prop |-> property[r], room |-> r])
    /\ UNCHANGED roomVars

\* Without room r its property has none, and says that it has.
Deserted(r) == {p \in dynamic : RoomsOf(p) = {r}}

\* The rules go with the room; bookings keep its id.  Deleting what is gone throws.
\* The rooms counted next are those of the property the room was found in.
DeleteRoom(h) ==
    LET r == handler[h].room IN
    /\ At(h, "removeRoom", "delete")
    /\ IF r \in Here
       THEN /\ room' = [room EXCEPT ![r] = "gone"]
            /\ bookable' = bookable \ {r}
            /\ rules' = {x \in rules : x.room # r}
            /\ unsure' = unsure \cup (Deserted(r) \ {handler[h].prop})
            /\ Goto(h, [handler[h] EXCEPT !.pc = "count"])
       ELSE Return(h) /\ UNCHANGED <<room, bookable, rules, unsure>>
    /\ UNCHANGED <<property, active, dynamic, stays, blocked>>

\* Variant: only the rooms that can be booked are counted.
RemainingBookable(p) == Cardinality(RoomsOf(p) \cap bookable)

Remaining(p) == Cardinality(RoomsOf(p))

CountRooms(h) ==
    /\ At(h, "removeRoom", "count")
    /\ IF Remaining(handler[h].prop) = 0
       THEN Goto(h, [handler[h] EXCEPT !.pc = "unflag"])
       ELSE Return(h)
    /\ UNCHANGED roomVars

LowerFlag(h) ==
    /\ At(h, "removeRoom", "unflag")
    /\ dynamic' = dynamic \ {handler[h].prop}
    /\ Return(h)
    /\ UNCHANGED <<room, property, bookable, active, rules, stays, blocked, unsure>>

\* Properties whose flag is wrong as things stand.
Misflagged == {p \in Properties : (p \in dynamic) # (RoomsOf(p) # {})}

\* A restart of the backend: a row may have been written and its flag not.
RoomsCrash ==
    /\ Busy # {}
    /\ Asked("restart")
    /\ handler' = [h \in Handlers |-> Idle]
    /\ unsure' = unsure \cup Misflagged
    /\ UNCHANGED tables

-----------------------------------------------------------------------------
(***************************************************************************)
(* Edits of rooms, rules and availability                                  *)
(***************************************************************************)
\* update takes every field of create, the property among them: the room moves,
\* and no flag is written.
MoveRoom(r, p) ==
    /\ property' = [property EXCEPT ![r] = p]
    /\ unsure' = Overtaken(p) \cup Deserted(r) \cup ({p} \ dynamic)
    /\ UNCHANGED bookable

UpdateRoom(r) ==
    /\ r \in Here
    /\ AtOnce("updateRoom")
    /\ \/ /\ bookable' = IF r \in bookable THEN bookable \ {r} ELSE bookable \cup {r}
          /\ UNCHANGED <<property, unsure>>
       \/ \E p \in Properties \ {property[r]} : MoveRoom(r, p)
    /\ UNCHANGED <<room, active, dynamic, rules, stays, blocked>>

\* properties.update writes what the request has: another status, or the flag, which
\* create takes from its request just the same.
UpdateProperty(p) ==
    /\ AtOnce("updateProperty")
    /\ \/ /\ active' = IF p \in active THEN active \ {p} ELSE active \cup {p}
          /\ UNCHANGED <<dynamic, unsure>>
       \/ \E hasDynamicRooms \in BOOLEAN :
          /\ dynamic' = IF hasDynamicRooms THEN dynamic \cup {p} ELSE dynamic \ {p}
          /\ unsure' = IF hasDynamicRooms = (RoomsOf(p) # {}) THEN unsure ELSE unsure \cup {p}
          /\ UNCHANGED active
    /\ UNCHANGED <<room, property, bookable, rules, stays, blocked>>

EditRules(new) ==
    /\ rules' = new
    /\ UNCHANGED <<room, property, bookable, active, dynamic, stays, blocked, unsure>>

\* Dates are taken as they are sent, in whatever order.
RulesFor(r) ==
    {[room |-> r, from |-> d[1], to |-> d[2], open |-> o, price |-> p] :
        d \in Pairs, o \in BOOLEAN, p \in Overrides \cup {Null}}

CreateRule(r) ==
    /\ r \in Here /\ Cardinality(rules) < MaxRules
    /\ AtOnce("createRule")
    /\ \E x \in RulesFor(r) \ rules : EditRules(rules \cup {x})

UpdateRule(x) ==
    /\ AtOnce("updateRule")
    /\ \E y \in RulesFor(x.room) \ rules : EditRules((rules \ {x}) \cup {y})

DeleteRule(x) == AtOnce("deleteRule") /\ EditRules(rules \ {x})

\* Variant: the last day is forgotten.
EndAsSent(last) == last

\* Variant: one day too many.
EndTooLate(last) == last + 2

\* The client names the last day, the rule ends with the day after it.
EndOfRange(last) == last + 1

Closing(r, from, to) ==
    {x \in rules : x.room = r /\ ~x.open /\ x.from < to /\ x.to > from}

\* updateAvailability that opens a range: every closure that overlaps it goes.
OpenRange(r, first, last) ==
    /\ r \in Here
    /\ AtOnce("updateAvailability")
    /\ EditRules(rules \ Closing(r, first, EndOfRange(last)))

CloseRange(r, first, last) ==
    /\ r \in Here /\ Cardinality(rules) < MaxRules
    /\ AtOnce("updateAvailability")
    /\ EditRules(rules \cup {[room |-> r, from |-> first, to |-> EndOfRange(last),
                              open |-> FALSE, price |-> Null]})

\* scripts/refresh-availability.ts: old rows go, every new one is available.
RefreshAvailability(p) ==
    /\ AtOnce("refresh")
    /\ blocked' = {x \in blocked : x[1] # p}
    /\ UNCHANGED <<room, property, bookable, active, dynamic, rules, stays, unsure>>

-----------------------------------------------------------------------------
(***************************************************************************)
(* Prices                                                                  *)
(***************************************************************************)
Covers(x, d) == x.from <= d /\ d < x.to

OpenRules(r, from, to) == {x \in rules : x.room = r /\ x.open /\ x.from <= to /\ x.to >= from}

PriceBy(x) == IF x.price = Null THEN Base[x.room] ELSE x.price

\* What a night may cost under the rules a query found, the first of which counts.
NightPrices(r, found, d) ==
    LET covering == {x \in found : Covers(x, d)}
    IN  IF covering = {} THEN {Base[r]} ELSE {PriceBy(x) : x \in covering}

\* The search asks for the rules with a price, in no order.
QuotedPrices(r, from, to) ==
    [d \in from .. to - 1 |->
        NightPrices(r, {x \in OpenRules(r, from, to) : x.price # Null}, d)]

\* Booking, its preview and the price endpoint take all open rules by startDate.
ChargedPrices(r, from, to) ==
    LET found == OpenRules(r, from, to)
        earliest(d) == {x \in found : Covers(x, d) /\
                            \A y \in found : Covers(y, d) => x.from <= y.from}
    IN  [d \in from .. to - 1 |-> NightPrices(r, earliest(d), d)]

Chosen(prices) == [d \in DOMAIN prices |-> CHOOSE p \in prices[d] : TRUE]

\* effectivePrice of the search.
Quote(r, from, to) ==
    PerNight(NightlySubtotal(Chosen(QuotedPrices(r, from, to)), from, to), to - from)

\* Variant: the charge is the base price, whatever the rules say.
ChargeBase(r, from, to) == Base[r] * (to - from)

\* totalPrice of create for a room.  No night is counted up to a check-out that is
\* not after the check-in: then the base price is taken times the difference.
Charge(r, from, to) ==
    IF from >= to THEN Base[r] * (to - from)
    ELSE TotalPrice(NightlySubtotal(Chosen(ChargedPrices(r, from, to)), from, to),
                    to - from, to - from)

-----------------------------------------------------------------------------
(***************************************************************************)
(* Bookings of rooms                                                       *)
(***************************************************************************)

\* Variant: everything but a cancelled booking is in the way.
ConflictsOfPast(r, from, to) ==
    {s \in stays : s.room = r /\ s.st # "CANCELLED" /\ s.from <= to /\ s.to >= from}

\* The conflict query of create, closed at both ends.
Conflicts(r, from, to) ==
    {s \in stays : s.room = r /\ s.st \in Occupying /\ s.from <= to /\ s.to >= from}

\* create asks neither the rules, nor the blocked days, nor isBookable, nor whether
\* the room exists and belongs to property p, nor whether from is before to.
Accepts(p, r, from, to) == p \in active /\ Conflicts(r, from, to) = {}

\* Without the room, the base price of the property counts.
Price(p, r, from, to) ==
    IF r \in Here THEN Charge(r, from, to) ELSE PropertyBase[p] * (to - from)

WriteStays(new) ==
    /\ stays' = new
    /\ UNCHANGED <<room, property, bookable, active, dynamic, rules, blocked, unsure>>

\* A room that is gone stands for any room id that no room has.
Book(p, r) ==
    /\ room[r] # "new" /\ Cardinality(stays) < MaxStays
    /\ AtOnce("book")
    /\ \E d \in Pairs, st \in {"PENDING", "CONFIRMED"} :
        /\ Accepts(p, r, d[1], d[2])
        /\ WriteStays(stays \cup {[prop |-> p, room |-> r, from |-> d[1], to |-> d[2], st |-> st,
                                   price |-> Price(p, r, d[1], d[2])]})

\* bookings.update and cancel, as far as the status goes.
SetStatus(s) ==
    /\ AtOnce("setStatus")
    /\ \E st \in StayStatuses : WriteStays((stays \ {s}) \cup {[s EXCEPT !.st = st]})

-----------------------------------------------------------------------------
(***************************************************************************)
(* The reads                                                               *)
(***************************************************************************)

\* Variant: the search asks only for firm bookings.
OverlookPending == {"CONFIRMED", "CHECKED_IN"}

SearchedStatuses == Occupying

\* Variant: blocked days are asked for without a first one.
BlocksSoFar(r, from, to) == {d \in 0 .. to : <<property[r], d>> \in blocked}

\* findAvailablePublic: what makes it leave room r out of from .. to.
Blocks(r, from, to) == {d \in from .. to : <<property[r], d>> \in blocked}

BookedIn(r, from, to) ==
    {s \in stays : s.room = r /\ s.st \in SearchedStatuses /\ s.from < to /\ s.to > from}

ClosedIn(r, from, to) ==
    {x \in rules : x.room = r /\ ~x.open /\ x.from <= to /\ x.to >= from}

Listed(r) == r \in Here \cap bookable /\ property[r] \in active

Offered(r, from, to) ==
    /\ Listed(r)
    /\ Blocks(r, from, to) = {}
    /\ BookedIn(r, from, to) = {}
    /\ ClosedIn(r, from, to) = {}

\* getAvailabilityCalendar, day by day.
CalendarOpen(r, d) == \A x \in rules : x.room = r /\ ~x.open => ~Covers(x, d)

CalendarStays(r, d) ==
    {s \in stays : s.room = r /\ s.st # "CANCELLED" /\ s.from <= d /\ d < s.to}

\* getOccupancyForRange counts r among the available rooms of day d.
CountedAvailable(r, d) ==
    /\ r \in Here \cap bookable
    /\ <<property[r], d>> \notin blocked
    /\ \A s \in stays :
        s.room = r /\ s.st \in Occupying => ~(s.from < d + 1 /\ s.to > d)

\* getRoomAvailability looks at the bookings of the property the room is in.
RoomAvailable(r, from, to) ==
    /\ Blocks(r, from, to) = {}
    /\ \A s \in stays :
        s.prop = property[r] /\ s.st \in Occupying => ~(s.from < to /\ s.to > from)

\* getDashboardStats on the morning of day d: of the properties that have rooms, the
\* guests of a property are shown in every room of it, and still on the day they leave.
ShownOccupied(r, d) ==
    \E s \in stays :
        /\ s.prop = property[r] \/ (s.room = r /\ RoomsOf(s.prop) # {})
        /\ s.st \in {"CONFIRMED", "CHECKED_IN"}
        /\ s.from <= d /\ d <= s.to

-----------------------------------------------------------------------------
RoomCalls(h) ==
    (\E p \in Properties : CreateRoom(h, p)) \/ (\E r \in Rooms : RemoveRoom(h, r))

RoomSteps(h) ==
    InsertRoom(h) \/ RaiseFlag(h) \/ DeleteRoom(h) \/ CountRooms(h) \/ LowerFlag(h)

RoomEdits ==
    \/ RoomsCrash
    \/ \E r \in Rooms : UpdateRoom(r) \/ CreateRule(r)
    \/ \E p \in Properties, r \in Rooms : Book(p, r)
    \/ \E r \in Rooms, d \in Pairs : OpenRange(r, d[1], d[2]) \/ CloseRange(r, d[1], d[2])
    \/ \E x \in rules : UpdateRule(x) \/ DeleteRule(x)
    \/ \E s \in stays : SetStatus(s)
    \/ \E p \in Properties : UpdateProperty(p) \/ RefreshAvailability(p)

Next == (\E h \in Handlers : RoomCalls(h) \/ RoomSteps(h)) \/ RoomEdits

vars == <<requests, roomVars>>

Init == RequestsInit /\ RoomsInit

Spec == Init /\ [][Next]_vars

-----------------------------------------------------------------------------
(***************************************************************************)
(* Where the reads and writes agree                                        *)
(***************************************************************************)
RoomCall ==
    [op : {"createRoom"}, pc : {"insert", "flag"}, prop : Properties] \cup
    [op : {"removeRoom"}, pc : {"delete", "count", "unflag"}, prop : Properties, room : Rooms]

TypeOK ==
    /\ \A h \in Busy : handler[h].op \in {"createRoom", "removeRoom"} => handler[h] \in RoomCall
    /\ calls \in 0 .. MaxCalls /\ workload \in Workloads
    /\ room \in [Rooms -> {"new", "here", "gone"}]
    /\ property \in [Rooms -> Properties]
    /\ bookable \in SUBSET Here
    /\ active \in SUBSET Properties /\ dynamic \in SUBSET Properties
    /\ rules \in SUBSET Rule
    /\ \A x \in rules : x.room \in Here
    /\ stays \in SUBSET Stay /\ Cardinality(stays) <= MaxStays
    /\ blocked \in SUBSET (Properties \X Days)
    /\ unsure \in SUBSET Properties

Nights == {d \in Pairs : d[1] < d[2]}

\* "Check if property still has rooms" (rooms.service.ts:407): hasDynamicRooms says
\* whether a property has rooms as soon as no call is about to write it, although row
\* and flag are written apart.  It is left wrong only where one of these orders has
\* come about: a room arrived after a removal had counted none and before it lowered
\* the flag; a call raised the flag when its room had left again; the last room was
\* moved away, or one moved to a property without the flag, or moved before its own
\* removal; a client wrote the flag himself; or a restart fell between row and flag.
\* Every other overlap of creates, removals, moves and the seed mends itself.
FlagFollowsRooms ==
    \A p \in Properties \ unsure :
        (\A h \in Busy : ~(handler[h].op \in RoomOps /\ handler[h].prop = p))
            => (p \in dynamic <=> RoomsOf(p) # {})

Firm == {"CONFIRMED", "CHECKED_IN"}

\* Which guests a read cannot hide.  A stay the search offers is open on the calendar
\* every night, with nobody in it who has not left, whatever property his booking
\* names, and counted available by the occupancy.  The reads by property go less far:
\* a room that getRoomAvailability calls available has no guest booked under its
\* present property, and in one that the dashboard calls free a confirmed guest can
\* be only if he is booked under a property that has no room at all.
OfferedIsFree ==
    \A r \in Here, d \in Nights :
        LET guests(n) == {s \in CalendarStays(r, n) : s.st \in Occupying} IN
        /\ Offered(r, d[1], d[2]) =>
              \A n \in d[1] .. d[2] - 1 :
                  CalendarOpen(r, n) /\ guests(n) = {} /\ CountedAvailable(r, n)
        /\ RoomAvailable(r, d[1], d[2]) =>
              \A n \in d[1] .. d[2] - 1 : \A s \in guests(n) : s.prop # property[r]
        /\ ~ShownOccupied(r, d[1]) =>
              \A s \in guests(d[1]) : s.st \in Firm => RoomsOf(s.prop) = {}

\* The search compares closures and blocked days at both ends although the end of
\* a rule is exclusive ("our rule endDate is exclusive", rooms.service.ts:566):
\* a stay of free nights is refused only because one touches its ends, or because
\* of a closure or a booking that has no night, ending where it begins or before.
FreeIsOffered ==
    \A r \in Rooms, d \in Nights :
        (/\ Listed(r) /\ ~Offered(r, d[1], d[2])
         /\ \A n \in d[1] .. d[2] - 1 : CalendarOpen(r, n) /\ CountedAvailable(r, n))
        => \/ Blocks(r, d[1], d[2]) = {d[2]}
           \/ \E x \in ClosedIn(r, d[1], d[2]) : x.to = d[1] \/ x.from = d[2] \/ x.from >= x.to
           \/ \E s \in BookedIn(r, d[1], d[2]) : s.from >= s.to

\* The search lets stays meet on the day one leaves and one arrives, create does
\* not: a stay that the search offers is turned down by create, for the property the
\* room is in, only because of a stay that meets it on that day.
OfferedIsAccepted ==
    \A r \in Rooms, d \in Nights :
        Offered(r, d[1], d[2]) =>
            /\ property[r] \in active
            /\ \A s \in Conflicts(r, d[1], d[2]) : s.to = d[1] \/ s.from = d[2]

\* The price per night that the search shows is the charge of create within the
\* rounding of each night, as long as no night has two open rules: of those the
\* search takes any with a price, create the earliest, with a price or not.
QuoteIsCharged ==
    \A r \in Here, d \in Nights :
        (\A n \in d[1] .. d[2] - 1 :
            Cardinality({x \in OpenRules(r, d[1], d[2]) : Covers(x, n)}) <= 1)
        => LET off == 2 * (Quote(r, d[1], d[2]) * (d[2] - d[1]) - Charge(r, d[1], d[2]))
           IN  off \in -(d[2] - d[1]) .. d[2] - d[1]

\* updateAvailability does what the client sees: every day of a range opened is
\* open on the calendar, a range closed closes its days and no other, the last
\* included, and no stay that needs one of its nights is offered any more; a range
\* that ends before it begins closes no day.
AvailabilityEditsShow ==
    [][\A r \in Rooms, d \in Pairs :
        /\ OpenRange(r, d[1], d[2]) => \A n \in d[1] .. d[2] : CalendarOpen(r, n)'
        /\ CloseRange(r, d[1], d[2]) =>
              /\ \A n \in Days : CalendarOpen(r, n)' <=> CalendarOpen(r, n) /\ n \notin d[1] .. d[2]
              /\ \A e \in Nights : e[1] <= d[2] /\ e[2] > d[1] => ~Offered(r, e[1], e[2])']_vars

FairRefund(total, now, checkIn, p) ==
    LET left == 24 * checkIn - now
        back == RefundAmount(total, now, checkIn, p)
    IN  /\ total < 0 => back <= 0
        /\ total >= 0 =>
              /\ back >= RefundAmount(total, now + 1, checkIn, p)
              /\ NetRefund(total, now, checkIn, p) \in 0 .. back
              /\ back <= total
        /\ total > 1 => (back = total <=> \/ p = "FLEXIBLE" /\ left >= 24
                                          \/ p = "MODERATE" /\ left >= 120)

\* What cancelling a stay gives back: never more than it cost, never less for
\* cancelling an hour earlier, and by the policies in full a day or five days
\* ahead, half a week ahead ("Full refund if cancelled 24h before check-in",
\* financial.util.ts:74).  Half of one cent is rounded to the whole of it.  A
\* negative price, which create makes of a check-out before the check-in, has no
\* positive refund (but of nothing the net refund, less a negative fee, is one).
RefundIsFair ==
    \A s \in stays, p \in Policies :
        \A now \in {24 * (s.from - n) + h : n \in {0, 1, 5, 7}, h \in {0, 1}} :
            FairRefund(s.price, now, s.from, p)
=============================================================================
