------------------------------ MODULE Scripts ------------------------------
(***************************************************************************)
(* The scripts that are run by hand against the live database, as far as   *)
(* they write what Rooms reads: seed-incanto-rooms.ts puts new rooms in    *)
(* place of all rooms of the hotel, seed-incanto-pricing.ts writes the     *)
(* prices of the seasons, restore-bookings.ts takes cancellations back and *)
(* clear-bookings.ts deletes every booking.  A script is a process of its  *)
(* own beside the backend, and none of them uses a transaction.            *)
(***************************************************************************)
EXTENDS Rooms

CONSTANTS
    Hotel,              \* the property the scripts find by its title
    SeedSize,           \* how many rooms are seeded
    Seasons             \* [from, to, price], none overlapping another

VARIABLES
    priced,             \* history: rooms whose seasons have been written
    handmade            \* history: rooms of which others changed the rules since their prices were deleted

priceVars == <<priced, handmade>>
scriptVars == <<vars, priceVars>>

ASSUME ScriptsAssumption ==
    /\ Hotel \in Properties
    /\ SeedSize \in Nat \ {0}
    /\ IsFiniteSet(Seasons) /\ Null \notin Nat
    /\ Seasons \subseteq [from : Days, to : Days \cup {MaxDay + 1}, price : Nat]
    /\ \A s \in Seasons : s.from < s.to
    /\ \A s, t \in Seasons : s = t \/ s.to <= t.from \/ t.to <= s.from

-----------------------------------------------------------------------------
(***************************************************************************)
(* seed-incanto-rooms.ts                                                   *)
(***************************************************************************)

\* Property and rooms are looked up; without rooms nothing is deleted.
SeedRooms(h) ==
    /\ Begin(h, [op |-> "seedRooms", prop |-> Hotel, left |-> SeedSize,
                 pc |-> IF RoomsOf(Hotel) = {} THEN "create" ELSE "clear"])
    /\ UNCHANGED roomVars

\* Rules go with the rooms; bookings keep ids that no room has any more.
ClearRooms(h) ==
    /\ At(h, "seedRooms", "clear")
    /\ room' = [r \in Rooms |-> IF r \in RoomsOf(Hotel) THEN "gone" ELSE room[r]]
    /\ bookable' = bookable \ RoomsOf(Hotel)
    /\ rules' = {x \in rules : x.room \notin RoomsOf(Hotel)}
    /\ Goto(h, [handler[h] EXCEPT !.pc = "create"])
    /\ UNCHANGED <<property, active, dynamic, stays, blocked, unsure>>

\* One room after another; one of them cannot be booked.
SeedRoom(h) ==
    LET left == handler[h].left - 1 IN
    /\ At(h, "seedRooms", "create")
    /\ \E r \in Rooms, new \in SUBSET Rooms :
        /\ room[r] = "new" /\ new \subseteq {r}
        /\ room' = [room EXCEPT ![r] = "here"]
        /\ property' = [property EXCEPT ![r] = Hotel]
        /\ bookable' = bookable \cup new
    /\ unsure' = Overtaken(Hotel)
    /\ Goto(h, [handler[h] EXCEPT !.left = left, !.pc = IF left = 0 THEN "flag" ELSE "create"])
    /\ UNCHANGED <<active, dynamic, rules, stays, blocked>>

FlagSeeded(h) ==
    /\ At(h, "seedRooms", "flag")
    /\ Raise(Hotel)
    /\ Return(h)

-----------------------------------------------------------------------------
(***************************************************************************)
(* seed-incanto-pricing.ts                                                 *)
(***************************************************************************)

\* The rooms that can be booked are read once.
SeedPrices(h) ==
    LET found == RoomsOf(Hotel) \cap bookable IN
    /\ found # {}
    /\ Begin(h, [op |-> "seedPrices", pc |-> "clear", left |-> found])
    /\ UNCHANGED <<roomVars, priceVars>>

\* Variant: only rules of the first day count as old prices.
ClearedFirst(x) == x.price # Null /\ x.from = 0

Cleared(x) == x.price # Null

\* "deletes existing seasonal rules for Incanto rooms before re-creating them" (line 4).
ClearPrices(h) ==
    LET found == handler[h].left IN
    /\ At(h, "seedPrices", "clear")
    /\ EditRules({x \in rules : ~(x.room \in found /\ Cleared(x))})
    /\ Goto(h, [handler[h] EXCEPT !.pc = "create"])
    /\ priced' = priced \ found /\ handmade' = handmade \ found

SeasonRules(r) ==
    {[room |-> r, from |-> s.from, to |-> s.to, open |-> TRUE, price |-> s.price] : s \in Seasons}

\* createMany for one room, skipped when its name has no price; a room deleted
\* meanwhile ends the script.
PriceRoom(h) ==
    /\ At(h, "seedPrices", "create")
    /\ \E r \in handler[h].left, listed \in BOOLEAN :
        IF listed => r \in Here
        THEN LET left == handler[h].left \ {r} IN
             /\ EditRules(IF listed THEN rules \cup SeasonRules(r) ELSE rules)
             /\ priced' = IF listed THEN priced \cup {r} ELSE priced
             /\ IF left = {} THEN Return(h) ELSE Goto(h, [handler[h] EXCEPT !.left = left])
        ELSE Return(h) /\ UNCHANGED <<roomVars, priced>>
    /\ UNCHANGED handmade

-----------------------------------------------------------------------------
(***************************************************************************)
(* restore-bookings.ts and clear-bookings.ts                               *)
(***************************************************************************)

\* Every cancelled booking but those of excluded guests is confirmed, whatever
\* has been booked in its place.
RestoreBookings ==
    /\ AtOnce("restore")
    /\ \E excluded \in SUBSET stays :
        WriteStays({IF s.st = "CANCELLED" /\ s \notin excluded
                    THEN [s EXCEPT !.st = "CONFIRMED"] ELSE s : s \in stays})

ClearBookings == AtOnce("clearBookings") /\ WriteStays({})

-----------------------------------------------------------------------------
RulesOf(r) == {x \in rules : x.room = r}

\* What the backend and the other scripts do, with an eye on whose rules change.
Beside(action) ==
    /\ action
    /\ handmade' = handmade \cup {r \in Rooms : RulesOf(r)' # RulesOf(r)}
    /\ UNCHANGED priced

SeedSteps(h) == SeedRooms(h) \/ ClearRooms(h) \/ SeedRoom(h) \/ FlagSeeded(h)

PriceSteps(h) == SeedPrices(h) \/ ClearPrices(h) \/ PriceRoom(h)

ScriptNext ==
    \/ Beside(Next)
    \/ \E h \in Handlers : Beside(SeedSteps(h)) \/ PriceSteps(h)
    \/ Beside(RestoreBookings \/ ClearBookings)

ScriptInit == RequestsInit /\ RoomsInit /\ priced = {} /\ handmade = {}

ScriptSpec == ScriptInit /\ [][ScriptNext]_scriptVars

-----------------------------------------------------------------------------
\* "Safe to re-run" (seed-incanto-pricing.ts:4): once the script has done a room,
\* each night of a season is quoted at the price of the season and no other, though
\* runs overlap, are cut short and repeated and rooms come and go, until somebody
\* else edits the rules of the room; and it is charged that price too, unless an
\* open rule without a price, which the script leaves alone, covers the night.
SeasonsArePriced ==
    \A r \in (priced \ handmade) \cap Here, s \in Seasons :
        \A d \in s.from .. s.to - 1 :
            /\ QuotedPrices(r, d, d + 1)[d] = {s.price}
            /\ (\A x \in RulesOf(r) : Covers(x, d) /\ x.open => x.price # Null) =>
                  ChargedPrices(r, d, d + 1)[d] = {s.price}
=============================================================================
