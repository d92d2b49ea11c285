------------------------------ MODULE MCEstate ------------------------------
(***************************************************************************)
(* An instance of Estate for TLC: two properties, one of them with two     *)
(* bookings, the first of which has been completed.                        *)
(***************************************************************************)
EXTENDS Estate

CONSTANTS p1, p2, b1, b2

TwoBookings ==
    [b \in BookingIds |-> [prop |-> p1, st |-> IF b = b1 THEN "COMPLETED" ELSE "CONFIRMED"]]

\* What happens together: reviews; reviews and deletions; cleaning; repairs and
\* deletions; groups.
Mixes == {{"review", "restart"},
          {"review", "completeStay", "removeBooking", "setBookingStatus"},
          {"createSchedule", "updateSchedule", "cleaned", "restart"},
          {"createSchedule", "removeSchedule", "cleaned", "completeStay"},
          {"repair", "assign", "completeRepair", "updateRepair", "removeBooking", "removeProperty"},
          {"createProperty", "updateProperty", "createGroup", "removeGroup", "addToGroup",
           "removeFromGroup", "removeProperty"}}

HandlerSymmetry == Permutations(Handlers)
=============================================================================
