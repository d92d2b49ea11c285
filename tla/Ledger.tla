------------------------------- MODULE Ledger -------------------------------
(***************************************************************************)
(* What the payment side promises, account by account: an account is a     *)
(* checkout session or a payment intent.  Money comes first, then the      *)
(* booking of a session, then the settlement, then what is given back, and *)
(* no step is ever undone.                                                 *)
(***************************************************************************)
EXTENDS Naturals

CONSTANTS
    Accounts,
    Seats,              \* accounts that must have a booking to be settled
    Amount              \* what an account is for

VARIABLES
    paid,               \* accounts the guest has paid
    booked,             \* accounts that a booking has been made for
    settled,            \* accounts whose payment has been COMPLETED
    back                \* how much of each has been given back

ledger == <<paid, booked, settled, back>>

Init ==
    /\ paid = {} /\ booked = {} /\ settled = {}
    /\ back = [a \in Accounts |-> 0]

Pay(a) ==
    /\ a \notin paid
    /\ paid' = paid \cup {a}
    /\ UNCHANGED <<booked, settled, back>>

Book(a) ==
    /\ a \in (paid \cap Seats) \ booked
    /\ booked' = booked \cup {a}
    /\ UNCHANGED <<paid, settled, back>>

Settle(a) ==
    /\ a \in paid \ settled
    /\ a \in Seats => a \in booked
    /\ settled' = settled \cup {a}
    /\ UNCHANGED <<paid, booked, back>>

GiveBack(a) ==
    /\ a \in settled
    /\ \E n \in 1 .. Amount - back[a] : back' = [back EXCEPT ![a] = @ + n]
    /\ UNCHANGED <<paid, booked, settled>>

Next == \E a \in Accounts : Pay(a) \/ Book(a) \/ Settle(a) \/ GiveBack(a)

Spec == Init /\ [][Next]_ledger
=============================================================================
