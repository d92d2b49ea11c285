---------------------------- MODULE LedgerProofs ----------------------------
(***************************************************************************)
(* What the ledger of the payments implies, for any accounts and amounts.  *)
(* Whatever implements Ledger!Spec, as Payments does under the mapping it  *)
(* states, keeps the image of these invariants.                            *)
(***************************************************************************)
EXTENDS Ledger, TLAPS

TypeOK ==
    /\ paid \in SUBSET Accounts
    /\ booked \in SUBSET Accounts
    /\ settled \in SUBSET Accounts
    /\ back \in [Accounts -> 0 .. Amount]

(***************************************************************************)
(* Money comes before the booking and before the settlement, and the       *)
(* booking of a seat before its settlement: the order in which             *)
(* handleCheckoutSessionCompleted and confirmPayment work.                 *)
(***************************************************************************)
InOrder ==
    /\ booked \subseteq paid \cap Seats
    /\ settled \subseteq paid
    /\ settled \cap Seats \subseteq booked

(***************************************************************************)
(* Money is given back only on a settled account: refundPayment and cancel *)
(* both look for a COMPLETED payment before they ask Stripe for a refund.  *)
(***************************************************************************)
BackIsSettled == \A a \in Accounts : back[a] > 0 => a \in settled

LInv == TypeOK /\ InOrder /\ BackIsSettled

\* Nothing has been charged at the start.
LEMMA InitialLedger ==
  ASSUME Amount \in Nat, Init
  PROVE  LInv
BY DEF Init, LInv, TypeOK, InOrder, BackIsSettled

(* Each step keeps the three parts together.                               *)
LEMMA StepKeepsLedger ==
  ASSUME Amount \in Nat, LInv, [Next]_ledger
  PROVE  LInv'
<1> USE DEF LInv, TypeOK, InOrder, BackIsSettled
<1>1. ASSUME NEW a \in Accounts, Pay(a)
      PROVE  LInv'
  BY <1>1 DEF Pay
<1>2. ASSUME NEW a \in Accounts, Book(a)
      PROVE  LInv'
  BY <1>2 DEF Book
<1>3. ASSUME NEW a \in Accounts, Settle(a)
      PROVE  LInv'
  BY <1>3 DEF Settle
<1>4. ASSUME NEW a \in Accounts, GiveBack(a)
      PROVE  LInv'
  <2>1. PICK n \in 1 .. Amount - back[a] : back' = [back EXCEPT ![a] = @ + n]
    BY <1>4 DEF GiveBack
  <2>2. back[a] + n \in 0 .. Amount
    BY <2>1
  <2>3. back' \in [Accounts -> 0 .. Amount]
    BY <2>1, <2>2
  <2>4. a \in settled /\ UNCHANGED <<paid, booked, settled>>
    BY <1>4 DEF GiveBack
  <2>5. ASSUME NEW b \in Accounts, back'[b] > 0
        PROVE  b \in settled'
    <3>1. CASE b = a
      BY <3>1, <2>4
    <3>2. CASE b # a
      BY <3>2, <2>1, <2>4, <2>5
    <3>. QED  BY <3>1, <3>2
  <2>. QED  BY <2>3, <2>4, <2>5
<1>5. CASE UNCHANGED ledger
  BY <1>5 DEF ledger
<1>. QED  BY <1>1, <1>2, <1>3, <1>4, <1>5 DEF Next

(***************************************************************************)
(* On every ledger: nothing is booked or settled before it is paid, no     *)
(* seat is settled without its booking, and what is given back was settled *)
(* and never exceeds the amount of the account.                            *)
(***************************************************************************)
THEOREM LedgerInOrder ==
  ASSUME Amount \in Nat
  PROVE  Spec => [](TypeOK /\ InOrder /\ BackIsSettled)
<1>1. Init => LInv
  BY InitialLedger
<1>2. LInv /\ [Next]_ledger => LInv'
  BY StepKeepsLedger
<1>3. LInv => TypeOK /\ InOrder /\ BackIsSettled
  BY DEF LInv
<1>. QED  BY <1>1, <1>2, <1>3, PTL DEF Spec

(***************************************************************************)
(* What a step may never do to an account: take a payment, a booking or a  *)
(* settlement away, or give less back than it has given.  PaySucceeds,     *)
(* CreateInsert, CompletePayment and RecordRefund all map to such steps.   *)
(***************************************************************************)
NothingUndone ==
    /\ paid \subseteq paid' /\ booked \subseteq booked' /\ settled \subseteq settled'
    /\ \A a \in Accounts : back[a] <= back'[a]

\* No step takes a charge or a refund back (NothingUndone).
THEOREM LedgerOnlyGrows ==
  ASSUME Amount \in Nat
  PROVE  Spec => [][NothingUndone]_ledger
<1>1. Init => LInv
  BY InitialLedger
<1>2. LInv /\ [Next]_ledger => LInv'
  BY StepKeepsLedger
<1>3. LInv /\ [Next]_ledger => [NothingUndone]_ledger
  <2> SUFFICES ASSUME LInv, Next
               PROVE  NothingUndone
    OBVIOUS
  <2>1. PICK a \in Accounts : Pay(a) \/ Book(a) \/ Settle(a) \/ GiveBack(a)
    BY DEF Next
  <2>2. CASE Pay(a)
    BY <2>2 DEF Pay, LInv, TypeOK, NothingUndone
  <2>3. CASE Book(a)
    BY <2>3 DEF Book, LInv, TypeOK, NothingUndone
  <2>4. CASE Settle(a)
    BY <2>4 DEF Settle, LInv, TypeOK, NothingUndone
  <2>5. CASE GiveBack(a)
    BY <2>5 DEF GiveBack, LInv, TypeOK, NothingUndone
  <2>. QED  BY <2>1, <2>2, <2>3, <2>4, <2>5
<1>. QED  BY <1>1, <1>2, <1>3, PTL DEF Spec
=============================================================================
