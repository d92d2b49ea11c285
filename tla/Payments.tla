------------------------------ MODULE Payments ------------------------------
(***************************************************************************)
(* payments.service.ts and the payment side of bookings.service.ts: how    *)
(* Stripe sessions, intents and webhooks, refunds, cancellations and       *)
(* manual payments write the payments and bookings tables.                 *)
(*                                                                         *)
(* Every await ends a step: a handler is a program counter and the values  *)
(* it has read, and the steps of all handlers interleave.  A crash of the  *)
(* backend stops every handler where it is.  Stripe is external: it sends  *)
(* an event until the webhook answers 200, may send it again afterwards,   *)
(* and keeps no order between events.                                      *)
(*                                                                         *)
(* Amounts are two units, so a refund is full, partial or nothing.  Dates  *)
(* are trips, and Clash says which trips the conflict query of create      *)
(* finds in each other's way; Bookings has the dates themselves.           *)
(***************************************************************************)
EXTENDS Naturals, Sequences, FiniteSets

CONSTANTS
    Sessions,           \* Stripe checkout sessions
    FreeSessions,       \* those of total 0, for which Stripe makes no intent
    Intents,            \* payment intents that processPayment may create
    Trips,              \* what a guest books: a room and its dates
    TripOf,             \* the trip each session is for
    Clash,              \* pairs of trips that exclude each other
    Handlers,           \* concurrent calls of the backend
    Null,
    CallKinds,          \* which calls clients and staff make
    UpdateStatuses,     \* statuses staff write by hand
    MaxRows,            \* bound on bookings and on payments
    MaxCalls,           \* bound on calls, repeated events and Stripe outages
    MaxCrashes          \* bound on restarts of the backend

VARIABLES
    bookings,           \* the bookings table, ids from 1; Null once deleted
    payments,           \* the payments table, likewise
    handler,            \* the call each handler is running
    stripe,             \* what Stripe knows of each session or intent
    sent,               \* events Stripe has sent at least once
    owed,               \* those it goes on sending
    calls, crashes,     \* how much of the bounds is used
    \* History variables: read by no guard.
    origin,             \* each booking's session, and how many rows its check saw
    held,               \* bookings that have blocked their dates ever since
    settled,            \* sessions and intents whose payment has been COMPLETED
    late,               \* handlings of a session begun after its payment was
    swallowed           \* payments a cancellation failed to refund at Stripe

db == <<bookings, payments>>
outside == <<stripe, sent>>
budget == <<calls, crashes>>
hist == <<origin, held, settled, late, swallowed>>
vars == <<db, handler, outside, owed, budget, hist>>

-----------------------------------------------------------------------------
BookingStatuses == {"PENDING", "CONFIRMED", "CANCELLED", "COMPLETED"}
Blocking == {"PENDING", "CONFIRMED"}
PaymentStatuses == {"PENDING", "COMPLETED", "FAILED", "REFUNDED", "PARTIALLY_REFUNDED"}

Amount == 2
Payable == Sessions \cup Intents
EventKinds == {"session", "succeeded", "failed"}
SessionKinds == {"session", "page"}
Kinds == EventKinds \cup
         {"page", "confirm", "direct", "refund", "cancel", "markAsPaid", "process"}

Booking == [trip : Trips, st : BookingStatuses, pay : PaymentStatuses]
Payment == [booking : 1 .. MaxRows, st : PaymentStatuses, intent : Payable \cup {Null},
            session : Sessions \cup {Null}, charge : Payable \cup {Null}]

Steps == {"idle", "look", "load", "check", "insert", "pay", "confirm", "complete", "settle",
          "book", "fail", "failBook", "find", "stripe", "record", "release"}

\* on: the session, intent, trip or charge the call is about; pay and bk: the
\* rows it has found or made (0 for none); n: the amount it refunds, or how
\* many bookings there were when it checked the dates.
Call == [kind : Kinds \cup {Null}, pc : Steps, on : Payable \cup Trips \cup {Null},
         pay : 0 .. MaxRows, bk : 0 .. MaxRows, n : 0 .. MaxRows + Amount]

ASSUME DataAssumption ==
    /\ FreeSessions \subseteq Sessions /\ Sessions \cap Intents = {}
    /\ TripOf \in [Sessions -> Trips]
    /\ Clash \subseteq Trips \X Trips
    /\ \A t \in Trips : <<t, t>> \in Clash
    /\ \A t, u \in Trips : <<t, u>> \in Clash => <<u, t>> \in Clash
    /\ CallKinds \subseteq (Kinds \ EventKinds) \cup {"remove"}
    /\ UpdateStatuses \subseteq BookingStatuses
    /\ MaxRows \in Nat /\ MaxCalls \in Nat /\ MaxCrashes \in Nat

ASSUME NullAssumption ==
    Null \notin Sessions \cup Intents \cup Trips \cup Kinds \cup Booking \cup Payment

TypeOK ==
    /\ bookings \in Seq(Booking \cup {Null}) /\ Len(bookings) <= MaxRows
    /\ payments \in Seq(Payment \cup {Null}) /\ Len(payments) <= MaxRows
    /\ handler \in [Handlers -> Call]
    /\ stripe \in [Payable -> [st : {"new", "open", "paid"}, returned : 0 .. Amount]]
    /\ sent \in SUBSET (EventKinds \X Payable)
    /\ owed \in SUBSET sent
    /\ calls \in 0 .. MaxCalls /\ crashes \in 0 .. MaxCrashes
    /\ origin \in Seq([session : Sessions \cup {Null}, seen : 0 .. MaxRows])
    /\ Len(origin) = Len(bookings)
    /\ held \in SUBSET DOMAIN bookings
    /\ settled \in SUBSET Payable
    /\ late \in SUBSET Handlers
    /\ swallowed \in SUBSET DOMAIN payments

Idle == [kind |-> Null, pc |-> "idle", on |-> Null, pay |-> 0, bk |-> 0, n |-> 0]

Init ==
    /\ bookings = << >> /\ payments = << >>
    /\ handler = [h \in Handlers |-> Idle]
    /\ stripe = [i \in Payable |-> [st |-> "new", returned |-> 0]]
    /\ sent = {} /\ owed = {}
    /\ calls = 0 /\ crashes = 0
    /\ origin = << >> /\ held = {} /\ settled = {} /\ late = {} /\ swallowed = {}

-----------------------------------------------------------------------------
(***************************************************************************)
(* Rows, and the way a handler ends a step                                 *)
(***************************************************************************)
IsBooking(b) == b \in DOMAIN bookings /\ bookings[b] # Null
IsPayment(p) == p \in DOMAIN payments /\ payments[p] # Null
Live == {p \in DOMAIN payments : IsPayment(p)}

\* A booking written with another status keeps its dates as long as it blocks them.
WriteBooking(b, row) ==
    /\ bookings' = [bookings EXCEPT ![b] = row]
    /\ held' = IF row.st \in Blocking THEN held ELSE held \ {b}
    /\ UNCHANGED origin

Settles(row) ==
    IF row.st = "COMPLETED" THEN {row.intent, row.session} \ {Null} ELSE {}

WritePayment(p, row) ==
    /\ payments' = [payments EXCEPT ![p] = row]
    /\ settled' = settled \cup Settles(row)

AddPayment(row) ==
    /\ Len(payments) < MaxRows
    /\ payments' = Append(payments, row)
    /\ settled' = settled \cup Settles(row)

At(h, kinds, pc) == handler[h].kind \in kinds /\ handler[h].pc = pc
Goto(h, call) == handler' = [handler EXCEPT ![h] = call] /\ UNCHANGED owed

\* The handler returns; if it serves an event, the webhook answers 200.
Return(h) ==
    /\ handler' = [handler EXCEPT ![h] = Idle]
    /\ owed' = owed \ {<<handler[h].kind, handler[h].on>>}

\* The handler throws: Stripe will send its event again.
Throw(h) == Goto(h, Idle)

-----------------------------------------------------------------------------
(***************************************************************************)
(* Stripe                                                                  *)
(***************************************************************************)

\* createPublicCheckoutSession computes a price and opens a session; it looks
\* at no booking and writes nothing.
OpenSession(s) ==
    /\ stripe[s].st = "new"
    /\ stripe' = [stripe EXCEPT ![s].st = "open"]
    /\ UNCHANGED <<db, handler, sent, owed, budget, hist>>

\* A guest can pay an open session, or an intent whose payment was answered.
CanPay(i) == stripe[i].st = "open" /\ (i \in Intents => \E p \in Live : payments[p].intent = i)

Announce(events) == sent' = sent \cup events /\ owed' = owed \cup events

\* An attempt with a card fails; the guest may try again.
PayFails(i) ==
    /\ CanPay(i) /\ i \notin FreeSessions
    /\ <<"failed", i>> \notin sent
    /\ Announce({<<"failed", i>>})
    /\ UNCHANGED <<db, handler, stripe, budget, hist>>

PaySucceeds(i) ==
    /\ CanPay(i)
    /\ stripe' = [stripe EXCEPT ![i].st = "paid"]
    /\ Announce({<<k, i>> : k \in {k \in {"session", "succeeded"} :
          IF k = "session" THEN i \in Sessions ELSE i \notin FreeSessions}})
    /\ UNCHANGED <<db, handler, budget, hist>>

-----------------------------------------------------------------------------
(***************************************************************************)
(* Calls begin                                                             *)
(***************************************************************************)
Begin(h, kind, pc, on) == Goto(h, [Idle EXCEPT !.kind = kind, !.pc = pc, !.on = on])

\* handleStripeWebhook dispatches on the type of the event.
Dispatch(h, e) ==
    Begin(h, e[1], IF e[1] = "succeeded" THEN "confirm" ELSE "look", e[2])

Deliver(h, e) ==
    /\ handler[h].pc = "idle"
    /\ e \in owed
    /\ \A g \in Handlers : <<handler[g].kind, handler[g].on>> # e
    /\ Dispatch(h, e)
    /\ UNCHANGED <<db, outside, budget, hist>>

Spend == calls < MaxCalls /\ calls' = calls + 1 /\ UNCHANGED crashes

\* The same event again, while it is being handled or after it was.
Redeliver(h, e) ==
    /\ handler[h].pc = "idle"
    /\ e \in sent
    /\ Spend
    /\ Dispatch(h, e)
    /\ UNCHANGED <<db, outside, hist>>

\* confirmCheckoutSession, called by the success page.
VisitPage(h) ==
    \E s \in Sessions \ FreeSessions :
        stripe[s].st = "paid" /\ Begin(h, "page", "look", s)

CallConfirm(h) ==
    \E i \in Payable \ FreeSessions :
        stripe[i].st # "new" /\ Begin(h, "confirm", "confirm", i)

\* A booking made without a session, by staff or by a guest who pays later.
CallCreate(h) == \E t \in Trips : Begin(h, "direct", "check", t)

\* refundPayment: Only completed payments can be refunded.
CallRefund(h) ==
    \E p \in Live, n \in 1 .. Amount :
        /\ payments[p].st = "COMPLETED"
        /\ Goto(h, [kind |-> "refund", pc |-> "stripe", on |-> payments[p].charge,
                    pay |-> p, bk |-> payments[p].booking, n |-> n])

OnBooking(h, kind, pc, b) == Goto(h, [Idle EXCEPT !.kind = kind, !.pc = pc, !.bk = b])

CallCancel(h) ==
    \E b \in DOMAIN bookings :
        /\ IsBooking(b) /\ bookings[b].st \notin {"CANCELLED", "COMPLETED"}
        /\ OnBooking(h, "cancel", "find", b)

CallMarkAsPaid(h) ==
    \E b \in DOMAIN bookings :
        /\ IsBooking(b) /\ bookings[b].pay # "COMPLETED"
        /\ OnBooking(h, "markAsPaid", "pay", b)

CallProcess(h) ==
    \E b \in DOMAIN bookings :
        /\ IsBooking(b) /\ bookings[b].pay = "PENDING"
        /\ OnBooking(h, "process", "stripe", b)

Calls(h) ==
    /\ handler[h].pc = "idle"
    /\ Spend
    /\ \/ "page" \in CallKinds /\ VisitPage(h)
       \/ "confirm" \in CallKinds /\ CallConfirm(h)
       \/ "direct" \in CallKinds /\ CallCreate(h)
       \/ "refund" \in CallKinds /\ CallRefund(h)
       \/ "cancel" \in CallKinds /\ CallCancel(h)
       \/ "markAsPaid" \in CallKinds /\ CallMarkAsPaid(h)
       \/ "process" \in CallKinds /\ CallProcess(h)
    /\ UNCHANGED <<db, outside, hist>>

-----------------------------------------------------------------------------
(***************************************************************************)
(* handleCheckoutSessionCompleted                                          *)
(***************************************************************************)

\* Variant: any payment of the session counts as processed, also a PENDING one.
AnyPaymentProcessed(p) == IsPayment(p)

AlreadyProcessed(p) == payments[p].st = "COMPLETED"

PaymentsOf(s) == {p \in Live : payments[p].session = s}

\* Idempotency look-up: findFirst by transactionId, which no index makes unique.
SessionLook(h) ==
    /\ At(h, SessionKinds, "look")
    /\ LET c == handler[h] IN
        \/ /\ PaymentsOf(c.on) = {}
           /\ Goto(h, [c EXCEPT !.pc = "check"])
           /\ late' = late \ {h}
        \/ \E p \in PaymentsOf(c.on) :
            /\ AlreadyProcessed(p)
            /\ Return(h)
            /\ UNCHANGED late
        \/ \E p \in PaymentsOf(c.on) :
            /\ ~AlreadyProcessed(p)
            /\ Goto(h, [c EXCEPT !.pc = "load", !.pay = p, !.bk = payments[p].booking])
            /\ late' = IF c.on \in settled THEN late \cup {h} ELSE late \ {h}
    /\ UNCHANGED <<db, outside, budget, origin, held, settled, swallowed>>

\* With a free session there is no intent to confirm.
AfterPayment(s) == IF s \in FreeSessions THEN "settle" ELSE "confirm"

\* The booking of the payment found; a row made for a session already has its
\* intent, so the update that adds one has nothing to do.
SessionLoad(h) ==
    /\ At(h, SessionKinds, "load")
    /\ IF IsBooking(handler[h].bk)
       THEN Goto(h, [handler[h] EXCEPT !.pc = AfterPayment(handler[h].on)])
       ELSE Return(h)
    /\ UNCHANGED <<db, outside, budget, hist>>

TripFor(h) == IF handler[h].kind = "direct" THEN handler[h].on ELSE TripOf[handler[h].on]

\* Variant: create looks for the statuses importBooking looks for.
PendingOverlooked(b, t) ==
    IsBooking(b) /\ bookings[b].st = "CONFIRMED" /\ <<bookings[b].trip, t>> \in Clash

InTheWay(b, t) ==
    IsBooking(b) /\ bookings[b].st \in Blocking /\ <<bookings[b].trip, t>> \in Clash

\* createPublic or create up to the conflict query.  A conflict is an error for
\* the caller; the session handler logs it and returns.
CreateCheck(h) ==
    /\ At(h, SessionKinds \cup {"direct"}, "check")
    /\ IF \E b \in DOMAIN bookings : InTheWay(b, TripFor(h))
       THEN Return(h)
       ELSE Goto(h, [handler[h] EXCEPT !.pc = "insert", !.n = Len(bookings)])
    /\ UNCHANGED <<db, outside, budget, hist>>

\* Variant: the status of a public booking is lost.
BookingWithoutStatus(h) == [trip |-> TripFor(h), st |-> Null, pay |-> "PENDING"]

NewBooking(h) ==
    [trip |-> TripFor(h), pay |-> "PENDING",
     st |-> IF handler[h].kind = "direct" THEN "CONFIRMED" ELSE "PENDING"]

CreateInsert(h) ==
    LET c == handler[h]
        b == Len(bookings) + 1
    IN
    /\ At(h, SessionKinds \cup {"direct"}, "insert")
    /\ Len(bookings) < MaxRows
    /\ bookings' = Append(bookings, NewBooking(h))
    /\ held' = held \cup {b}
    /\ origin' = Append(origin, [session |-> IF c.kind = "direct" THEN Null ELSE c.on,
                                 seen |-> c.n])
    /\ IF c.kind = "direct" THEN Return(h) ELSE Goto(h, [c EXCEPT !.pc = "pay", !.bk = b, !.n = 0])
    /\ UNCHANGED <<payments, outside, budget, settled, late, swallowed>>

\* payment.create, PENDING, with the session's intent.
SessionPayment(h) ==
    LET c == handler[h] IN
    /\ At(h, SessionKinds, "pay")
    /\ IsBooking(c.bk)
    /\ AddPayment([booking |-> c.bk, st |-> "PENDING", session |-> c.on, charge |-> Null,
                   intent |-> IF c.on \in FreeSessions THEN Null ELSE c.on])
    /\ Goto(h, [c EXCEPT !.pc = AfterPayment(c.on), !.pay = Len(payments) + 1])
    /\ UNCHANGED <<bookings, outside, budget, origin, held, late, swallowed>>

-----------------------------------------------------------------------------
(***************************************************************************)
(* confirmPayment and handlePaymentFailure                                 *)
(***************************************************************************)
WithIntent(i) == {p \in Live : payments[p].intent = i}

\* Variant: the intent's status is not asked for.
AssumeSucceeded(i) == TRUE

Succeeded(i) == stripe[i].st = "paid"

\* findFirst by intent, and the intent's status at Stripe.  Without a row the
\* webhook of the intent answers 200, and the session's handler goes on to
\* complete the row it knows.
ConfirmLook(h) ==
    LET c == handler[h] IN
    /\ At(h, SessionKinds \cup {"succeeded", "confirm"}, "confirm")
    /\ IF WithIntent(c.on) = {}
       THEN IF c.kind \in SessionKinds THEN Goto(h, [c EXCEPT !.pc = "settle"]) ELSE Return(h)
       ELSE IF Succeeded(c.on)
       THEN \E p \in WithIntent(c.on) :
              Goto(h, [c EXCEPT !.pc = "complete", !.pay = p, !.bk = payments[p].booking])
       ELSE Return(h)
    /\ UNCHANGED <<db, outside, budget, hist>>

\* Stripe does not answer: confirmPayment throws.
StripeFails(h) ==
    /\ At(h, SessionKinds \cup {"succeeded", "confirm"}, "confirm")
    /\ WithIntent(handler[h].on) # {}
    /\ Spend
    /\ Throw(h)
    /\ UNCHANGED <<db, outside, hist>>

\* The payment becomes COMPLETED, by confirmPayment with its charge.
CompletePayment(h) ==
    LET c == handler[h] IN
    /\ c.pc \in {"complete", "settle"}
    /\ IsPayment(c.pay)
    /\ WritePayment(c.pay, [payments[c.pay] EXCEPT
          !.st = "COMPLETED", !.charge = IF c.pc = "complete" THEN c.on ELSE @])
    /\ Goto(h, [c EXCEPT !.pc = "book"])
    /\ UNCHANGED <<bookings, outside, budget, origin, held, late, swallowed>>

\* Then the booking, by these handlers and by markAsPaid.
ConfirmBooking(h) ==
    LET b == handler[h].bk IN
    /\ handler[h].pc = "book"
    /\ IsBooking(b)
    /\ WriteBooking(b, [bookings[b] EXCEPT !.st = "CONFIRMED", !.pay = "COMPLETED"])
    /\ Return(h)
    /\ UNCHANGED <<payments, outside, budget, settled, late, swallowed>>

FailLook(h) ==
    LET c == handler[h] IN
    /\ At(h, {"failed"}, "look")
    /\ \/ WithIntent(c.on) = {} /\ Return(h)
       \/ \E p \in WithIntent(c.on) :
            Goto(h, [c EXCEPT !.pc = "fail", !.pay = p, !.bk = payments[p].booking])
    /\ UNCHANGED <<db, outside, budget, hist>>

FailPayment(h) ==
    LET c == handler[h] IN
    /\ c.pc = "fail"
    /\ IsPayment(c.pay)
    /\ WritePayment(c.pay, [payments[c.pay] EXCEPT !.st = "FAILED"])
    /\ Goto(h, [c EXCEPT !.pc = "failBook"])
    /\ UNCHANGED <<bookings, outside, budget, origin, held, late, swallowed>>

FailBooking(h) ==
    LET b == handler[h].bk IN
    /\ handler[h].pc = "failBook"
    /\ IsBooking(b)
    /\ WriteBooking(b, [bookings[b] EXCEPT !.pay = "FAILED"])
    /\ Return(h)
    /\ UNCHANGED <<payments, outside, budget, settled, late, swallowed>>

-----------------------------------------------------------------------------
(***************************************************************************)
(* refundPayment and cancel                                                *)
(***************************************************************************)
Refundable(i, n) == stripe[i].returned + n <= Amount
ReturnMoney(i, n) == stripe' = [stripe EXCEPT ![i].returned = @ + n]

\* refundPayment at Stripe: an error ends the call.
RefundAtStripe(h) ==
    LET c == handler[h] IN
    /\ At(h, {"refund"}, "stripe")
    /\ \/ c.on = Null /\ Goto(h, [c EXCEPT !.pc = "record"]) /\ UNCHANGED stripe
       \/ /\ c.on # Null /\ Refundable(c.on, c.n)
          /\ ReturnMoney(c.on, c.n)
          /\ Goto(h, [c EXCEPT !.pc = "record"])
       \/ c.on # Null /\ Throw(h) /\ UNCHANGED stripe
    /\ UNCHANGED <<db, sent, budget, hist>>

\* cancel: any completed payment of the booking is the one to refund, in whole,
\* in half or not at all as the policy says.
CancelFind(h) ==
    LET c == handler[h]
        completed == {p \in Live : payments[p].booking = c.bk /\ payments[p].st = "COMPLETED"}
    IN
    /\ At(h, {"cancel"}, "find")
    /\ \/ completed = {} /\ Goto(h, [c EXCEPT !.pc = "release"])
       \/ \E p \in completed, n \in 0 .. Amount :
            Goto(h, [c EXCEPT !.pc = "stripe", !.pay = p, !.on = payments[p].charge, !.n = n])
    /\ UNCHANGED <<db, outside, budget, hist>>

\* cancel at Stripe: an error is swallowed.
CancelAtStripe(h) ==
    LET c == handler[h]
        asks == c.on # Null /\ c.n > 0
    IN
    /\ At(h, {"cancel"}, "stripe")
    /\ \/ ~asks /\ UNCHANGED <<stripe, swallowed>>
       \/ asks /\ Refundable(c.on, c.n) /\ ReturnMoney(c.on, c.n) /\ UNCHANGED swallowed
       \/ asks /\ swallowed' = swallowed \cup {c.pay} /\ UNCHANGED stripe
    /\ Goto(h, [c EXCEPT !.pc = "record"])
    /\ UNCHANGED <<db, sent, budget, origin, held, settled, late>>

\* Variant: every refund is recorded as a full one.
AnyRefundIsFull(n) == "REFUNDED"

\* The status a refund of n leaves; a cancellation without refund writes back
\* the COMPLETED it has read.
RefundStatus(n) ==
    CASE n = Amount -> "REFUNDED"
      [] n = 0 -> "COMPLETED"
      [] OTHER -> "PARTIALLY_REFUNDED"

RecordRefund(h) ==
    LET c == handler[h] IN
    /\ c.pc = "record"
    /\ IsPayment(c.pay)
    /\ WritePayment(c.pay, [payments[c.pay] EXCEPT !.st = RefundStatus(c.n)])
    /\ IF c.kind = "cancel" \/ c.n = Amount
       THEN Goto(h, [c EXCEPT !.pc = "release"])
       ELSE Return(h)
    /\ UNCHANGED <<bookings, outside, budget, origin, held, late, swallowed>>

\* The booking is CANCELLED, and REFUNDED if there was a payment.
ReleaseBooking(h) ==
    LET b == handler[h].bk IN
    /\ handler[h].pc = "release"
    /\ IsBooking(b)
    /\ WriteBooking(b, [bookings[b] EXCEPT
          !.st = "CANCELLED", !.pay = IF handler[h].pay = 0 THEN @ ELSE "REFUNDED"])
    /\ Return(h)
    /\ UNCHANGED <<payments, outside, budget, settled, late, swallowed>>

-----------------------------------------------------------------------------
(***************************************************************************)
(* processPayment, markAsPaid, edits by staff, crashes                     *)
(***************************************************************************)

\* processPayment makes an intent at Stripe ...
ProcessIntent(h) ==
    /\ At(h, {"process"}, "stripe")
    /\ \E i \in Intents :
        /\ stripe[i].st = "new"
        /\ stripe' = [stripe EXCEPT ![i].st = "open"]
        /\ Goto(h, [handler[h] EXCEPT !.pc = "pay", !.on = i])
    /\ UNCHANGED <<db, sent, budget, hist>>

\* ... and then its PENDING payment; markAsPaid makes a COMPLETED one and goes
\* on to the booking.
DirectPayment(h) ==
    LET c == handler[h]
        manual == c.kind = "markAsPaid"
    IN
    /\ At(h, {"process", "markAsPaid"}, "pay")
    /\ IsBooking(c.bk)
    /\ AddPayment([booking |-> c.bk, st |-> IF manual THEN "COMPLETED" ELSE "PENDING",
                   intent |-> IF manual THEN Null ELSE c.on, session |-> Null, charge |-> Null])
    /\ IF manual THEN Goto(h, [c EXCEPT !.pc = "book"]) ELSE Return(h)
    /\ UNCHANGED <<bookings, outside, budget, origin, held, late, swallowed>>

\* A write by id, or a payment made for a booking, whose row is gone.
RowGone(h) ==
    LET c == handler[h] IN
    /\ \/ c.pc \in {"pay", "book", "failBook", "release"} /\ ~IsBooking(c.bk)
       \/ c.pc \in {"complete", "settle", "fail", "record"} /\ ~IsPayment(c.pay)
    /\ Throw(h)
    /\ UNCHANGED <<db, outside, budget, hist>>

\* bookings.update, as far as the status goes.
Update(b) ==
    /\ IsBooking(b)
    /\ Spend
    /\ \E st \in UpdateStatuses : WriteBooking(b, [bookings[b] EXCEPT !.st = st])
    /\ UNCHANGED <<payments, handler, outside, owed, settled, late, swallowed>>

\* bookings.remove deletes the payments with the booking.
Remove(b) ==
    /\ "remove" \in CallKinds
    /\ IsBooking(b)
    /\ Spend
    /\ bookings' = [bookings EXCEPT ![b] = Null]
    /\ payments' = [p \in DOMAIN payments |->
          IF IsPayment(p) /\ payments[p].booking = b THEN Null ELSE payments[p]]
    /\ held' = held \ {b}
    /\ UNCHANGED <<handler, outside, owed, origin, settled, late, swallowed>>

Crash ==
    /\ crashes < MaxCrashes /\ crashes' = crashes + 1
    /\ handler' = [h \in Handlers |-> Idle]
    /\ UNCHANGED <<db, outside, owed, calls, hist>>

-----------------------------------------------------------------------------
\* The next step of the call that h is running.
Step(h) ==
    \/ SessionLook(h) \/ SessionLoad(h) \/ SessionPayment(h)
    \/ CreateCheck(h) \/ CreateInsert(h)
    \/ ConfirmLook(h) \/ CompletePayment(h) \/ ConfirmBooking(h)
    \/ FailLook(h) \/ FailPayment(h) \/ FailBooking(h)
    \/ RefundAtStripe(h) \/ CancelFind(h) \/ CancelAtStripe(h)
    \/ RecordRefund(h) \/ ReleaseBooking(h)
    \/ ProcessIntent(h) \/ DirectPayment(h)
    \/ RowGone(h)

StripeStep ==
    \/ \E s \in Sessions : OpenSession(s)
    \/ \E i \in Payable : PayFails(i) \/ PaySucceeds(i)

Next ==
    \/ StripeStep
    \/ \E h \in Handlers :
        \/ Step(h) \/ Calls(h) \/ StripeFails(h)
        \/ \E e \in EventKinds \X Payable : Deliver(h, e) \/ Redeliver(h, e)
    \/ \E b \in DOMAIN bookings : Update(b) \/ Remove(b)
    \/ Crash

Spec == Init /\ [][Next]_vars

\* A running call goes on, and Stripe goes on sending what it owes.
Fairness ==
    /\ \A h \in Handlers : WF_vars(Step(h))
    /\ \A e \in EventKinds \X Payable : WF_vars(\E h \in Handlers : Deliver(h, e))

FairSpec == Spec /\ Fairness

-----------------------------------------------------------------------------
(***************************************************************************)
(* What the handlers promise                                               *)
(***************************************************************************)

\* A session is booked once.  Webhook, repeated webhook and success page may all
\* handle it, a crash may fall between its booking and its payment, and no index
\* makes transactionId unique; yet two bookings of one session that have both
\* blocked their dates ever since come only from two handlings of which the
\* second checked the dates before the first inserted (the conflict query of
\* create, which counts PENDING bookings, stands in for the missing key).
OneBookingPerSession ==
    \A a, b \in held :
        (a < b /\ origin[a].session = origin[b].session /\ origin[a].session # Null)
            => origin[b].seen < a

\* Nothing is booked or settled before the guest has paid: a booking made from a
\* session belongs to a session paid at Stripe ("booking is only created after
\* payment succeeds"), and a payment of an intent is COMPLETED only if the
\* intent succeeded, whoever asked for the confirmation.
NothingBeforePayment ==
    /\ \A b \in DOMAIN origin : origin[b].session # Null => stripe[origin[b].session].st = "paid"
    /\ \A p \in Live : (payments[p].st = "COMPLETED" /\ payments[p].intent # Null)
            => stripe[payments[p].intent].st = "paid"

\* A payment with a charge that says REFUNDED has been given back in full at
\* Stripe, through partial refunds, races of refund and cancellation, Stripe's
\* refusals and calls that stop midway, unless a cancellation swallowed an error.
RefundedIsReturned ==
    \A p \in Live :
        (payments[p].st = "REFUNDED" /\ payments[p].charge # Null /\ p \notin swallowed)
            => stripe[payments[p].charge].returned = Amount

\* "Idempotency: if we already processed this session, skip": a handling of a
\* session that begins once the session's payment was COMPLETED does not
\* complete a payment again.
ProcessedSessionIsSkipped ==
    [][\A h \in late : At(h, SessionKinds, "complete") => UNCHANGED payments]_vars

\* A paid session is settled in the end: its events come in any order and attempts
\* of the guest fail before one succeeds, and still its payment is COMPLETED at
\* some time.  It takes one disturbance (MaxCalls = 1: an event repeated, a visit
\* of the success page while the webhook runs, or a call that Stripe does not
\* answer), not two: the webhook answers 200 when the page's own booking is in
\* its way, and if the page's confirmation then fails nobody comes back.
PaidSessionIsSettled == \A s \in Sessions : stripe[s].st = "paid" ~> s \in settled

\* "so the webhook can create the booking after payment": every paid session
\* gets its booking.
PaidSessionIsBooked ==
    \A s \in Sessions : stripe[s].st = "paid" ~> \E b \in DOMAIN origin : origin[b].session = s

-----------------------------------------------------------------------------
\* Each session and each intent is an account: paid at Stripe, booked if the row
\* of a booking was ever inserted for it, given back what its charge was.
Accounting == INSTANCE Ledger WITH
    Accounts <- Payable,
    Seats <- Sessions,
    paid <- {i \in Payable : stripe[i].st = "paid"},
    booked <- {origin[b].session : b \in DOMAIN origin} \ {Null},
    back <- [i \in Payable |-> stripe[i].returned]

\* The handlers implement the ledger.  Whatever overlaps, is repeated, refused or
\* cut short, the money of a session moves in one order: paid, booked, settled,
\* given back; nothing is settled that was not paid and booked, nothing is given
\* back before it was settled or beyond its amount, and no step moves two accounts.
KeepsTheLedger == Accounting!Spec
=============================================================================
