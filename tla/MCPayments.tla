----------------------------- MODULE MCPayments -----------------------------
(***************************************************************************)
(* Instances of Payments for TLC: which trips the sessions are for, which  *)
(* exclude each other, and symmetry.                                       *)
(***************************************************************************)
EXTENDS Payments, TLC

\* Trips bear the names of the sessions that are for them.
OwnTrip == [s \in Sessions |-> s]

\* A trip excludes itself only, or every trip excludes every other.
SameTrip == {<<t, t>> : t \in Trips}
AnyTrips == Trips \X Trips

HandlerSymmetry == Permutations(Handlers)
=============================================================================
