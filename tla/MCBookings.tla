----------------------------- MODULE MCBookings -----------------------------
(***************************************************************************)
(* Instances of Bookings for TLC: date pairs and symmetry.                 *)
(***************************************************************************)
EXTENDS Bookings, TLC

\* Two stays of one night that touch; moving the second to the first's check-in
\* and keeping its check-out makes the one that covers both.
TouchingDates == {<<0, 1>>, <<1, 2>>}

\* A stay, one that begins inside it, and an inverted pair, which create accepts.
CrossingDates == {<<0, 2>>, <<1, 3>>, <<2, 0>>}

\* The handlers treat ids alike.
IdSymmetry == Permutations(Requests)
=============================================================================
