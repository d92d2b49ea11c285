------------------------------ MODULE MCRooms ------------------------------
(***************************************************************************)
(* An instance of Rooms for TLC: two properties and two rooms, one of which *)
(* the seed has made, and a price that does not divide evenly.              *)
(***************************************************************************)
EXTENDS Figures, Scripts, TLC

CONSTANTS r1, r2, p1, p2

SameBase == [r \in Rooms |-> 101]
SameRate == [p \in Properties |-> 120]

\* One property is blocked at the end of the days, the other between them.
DrawnBlocks == {{<<p1, 3>>, <<p2, 1>>}}

\* Rooms come, move and go and the flag is written; rules and prices; closures and
\* bookings; bookings and what they depend on; the scripts beside each.
Mixes == {{"createRoom", "removeRoom", "updateRoom", "updateProperty", "restart"},
          {"createRule", "updateRule", "deleteRule", "removeRoom"},
          {"updateAvailability", "book", "refresh"},
          {"book", "setStatus", "updateRoom"},
          {"book", "updateProperty", "removeRoom"},
          {"seedRooms", "createRoom", "removeRoom", "updateRoom", "restart"},
          {"seedPrices", "createRule", "restart"},
          {"seedPrices", "createRoom", "removeRoom", "restart"},
          {"book", "setStatus", "restore", "clearBookings"}}

\* Two seasons, each with its price.
TwoSeasons == {[from |-> 0, to |-> 2, price |-> 90], [from |-> 2, to |-> 3, price |-> 110]}

\* Months of one, two and one days: the second has a day the third has not.
ShortMonths == <<0, 1, 3, 4, 6>>

HandlerSymmetry == Permutations(Handlers)
=============================================================================
