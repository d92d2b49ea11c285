--------------------------- MODULE PaymentsProofs ---------------------------
(***************************************************************************)
(* Proofs about Payments, for any sessions, intents, trips, handlers and   *)
(* bounds: types, the safety invariants, and that the handlers implement   *)
(* the ledger.  The inductive invariant PInv says of every running call    *)
(* what it may rely on of the rows it has found, and of every row what its *)
(* status stands for.                                                      *)
(***************************************************************************)
EXTENDS Payments, SequenceTheorems, TLAPS

-----------------------------------------------------------------------------
(***************************************************************************)
(* The inductive invariant                                                 *)
(***************************************************************************)
Paid(i) == stripe[i].st = "paid"
Booked == {origin[b].session : b \in DOMAIN origin} \ {Null}

\* A payment that says so has been COMPLETED once.
Completed == {"COMPLETED", "REFUNDED", "PARTIALLY_REFUNDED"}

Account(row) == {row.intent, row.session} \ {Null}

\* Where a call of each kind can be, and what it is about.
Placed(c) ==
    /\ c.kind = Null => c.pc = "idle"
    /\ c.kind \in SessionKinds =>
          /\ c.pc \in {"look", "load", "check", "insert", "pay", "confirm", "complete", "settle", "book"}
          /\ c.on \in Sessions /\ Paid(c.on)
    /\ c.kind \in {"succeeded", "confirm"} =>
          c.pc \in {"confirm", "complete", "book"} /\ c.on \in Payable
    /\ c.kind = "failed" => c.pc \in {"look", "fail", "failBook"}
    /\ c.kind = "direct" => c.pc \in {"check", "insert"} /\ c.on \in Trips
    /\ c.kind = "refund" => c.pc \in {"stripe", "record", "release"} /\ c.n \in 1 .. Amount
    /\ c.kind = "cancel" => c.pc \in {"find", "stripe", "record", "release"} /\ c.n \in 0 .. Amount
    /\ c.kind = "markAsPaid" => c.pc \in {"pay", "book"}
    /\ c.kind = "process" => c.pc \in {"stripe", "pay"} /\ (c.pc = "pay" => c.on \in Intents)

\* Since the check of the dates no booking of the session has been there that
\* blocks them, but for those inserted afterwards.
CheckStands(c) ==
    c.pc = "insert" =>
        /\ c.n <= Len(bookings)
        /\ c.kind \in SessionKinds => \A a \in held : origin[a].session = c.on => c.n < a

\* A session's handler has inserted the booking it makes a payment for, and knows
\* the payment it confirms: without intent to ask about, only a payment of a free
\* session can still be there.
KnowsSession(c) ==
    c.kind \in SessionKinds =>
        /\ c.pc = "pay" => c.bk \in DOMAIN origin /\ origin[c.bk].session = c.on
        /\ c.pc \in {"load", "confirm", "settle"} =>
              /\ c.pay \in DOMAIN payments
              /\ IsPayment(c.pay) => payments[c.pay].session = c.on
        /\ c.pc = "settle" /\ c.on \notin FreeSessions => ~IsPayment(c.pay)

\* A payment about to be completed is one of an intent that has succeeded.
KnowsIntent(c) ==
    c.pc = "complete" =>
        /\ Paid(c.on)
        /\ c.pay \in DOMAIN payments
        /\ IsPayment(c.pay) => payments[c.pay].intent = c.on

\* A payment about to be refunded has been COMPLETED, by the charge to give back;
\* what is about to be recorded has happened.
KnowsCharge(c) ==
    c.kind \in {"refund", "cancel"} /\ c.pc \in {"stripe", "record"} =>
        /\ c.on # Null => c.on \in settled
        /\ c.pay \in DOMAIN payments
        /\ IsPayment(c.pay) =>
              /\ payments[c.pay].intent = c.on /\ payments[c.pay].charge = c.on
              /\ Account(payments[c.pay]) \subseteq settled
        /\ c.pc = "record" /\ c.n = Amount /\ c.on # Null /\ c.pay \notin swallowed =>
              stripe[c.on].returned = Amount

CallOK(c) == Placed(c) /\ CheckStands(c) /\ KnowsSession(c) /\ KnowsIntent(c) /\ KnowsCharge(c)

\* A payment is for a session, whose intent it has, or for an intent of its own; a
\* session that has a payment was booked.  Its charge is that of its intent.
RowOK(p) ==
    LET row == payments[p] IN
    /\ row.session # Null =>
          /\ row.intent = IF row.session \in FreeSessions THEN Null ELSE row.session
          /\ row.session \in Booked
    /\ row.session = Null /\ row.intent # Null => row.intent \in Intents
    /\ row.charge # Null => row.charge = row.intent
    /\ row.st \in Completed => row.charge = row.intent /\ Account(row) \subseteq settled
    /\ row.st = "REFUNDED" /\ row.charge # Null /\ p \notin swallowed =>
          stripe[row.charge].returned = Amount

RowsOK == \A p \in Live : RowOK(p)

\* What has blocked its dates ever since is there and blocks them.
HeldOK ==
    \A a \in held :
        /\ IsBooking(a) /\ bookings[a].st \in Blocking
        /\ origin[a].session # Null => bookings[a].trip = TripOf[origin[a].session]

\* The session's event comes after the payment; sessions are booked and accounts
\* settled after it too.
PaidFirst ==
    /\ \A i \in Payable : <<"session", i>> \in sent => i \in Sessions /\ Paid(i)
    /\ \A s \in Booked \cup settled : Paid(s)

PInv ==
    /\ TypeOK
    /\ \A h \in Handlers : CallOK(handler[h])
    /\ RowsOK
    /\ HeldOK
    /\ PaidFirst
    /\ OneBookingPerSession

-----------------------------------------------------------------------------
(***************************************************************************)
(* Types                                                                   *)
(***************************************************************************)

\* The ids of a table are the numbers up to its length.
LEMMA Tables ==
    ASSUME TypeOK
    PROVE  /\ Len(bookings) \in Nat /\ DOMAIN bookings = 1 .. Len(bookings)
           /\ Len(payments) \in Nat /\ DOMAIN payments = 1 .. Len(payments)
           /\ DOMAIN origin = 1 .. Len(bookings)
BY LenProperties DEF TypeOK

\* A row that is there has its type, and its id the bound of the table.
LEMMA RowTypes ==
    ASSUME TypeOK
    PROVE  /\ \A b : IsBooking(b) => b \in 1 .. MaxRows /\ bookings[b] \in Booking
           /\ \A p : IsPayment(p) => p \in 1 .. MaxRows /\ payments[p] \in Payment
           /\ \A b \in DOMAIN origin : origin[b] \in [session : Sessions \cup {Null}, seen : 0 .. MaxRows]
<1>1. ASSUME NEW b, IsBooking(b) PROVE b \in 1 .. MaxRows /\ bookings[b] \in Booking
  <2>1. b \in 1 .. Len(bookings) /\ Len(bookings) \in Nat /\ Len(bookings) <= MaxRows
    BY <1>1, Tables DEF IsBooking, TypeOK
  <2>2. bookings[b] \in Booking \cup {Null}
    BY <2>1, ElementOfSeq DEF TypeOK
  <2>3. QED
    BY <2>1, <2>2, <1>1, DataAssumption DEF IsBooking
<1>2. ASSUME NEW p, IsPayment(p) PROVE p \in 1 .. MaxRows /\ payments[p] \in Payment
  <2>1. p \in 1 .. Len(payments) /\ Len(payments) \in Nat /\ Len(payments) <= MaxRows
    BY <1>2, Tables DEF IsPayment, TypeOK
  <2>2. payments[p] \in Payment \cup {Null}
    BY <2>1, ElementOfSeq DEF TypeOK
  <2>3. QED
    BY <2>1, <2>2, <1>2, DataAssumption DEF IsPayment
<1>3. ASSUME NEW b \in DOMAIN origin
      PROVE  origin[b] \in [session : Sessions \cup {Null}, seen : 0 .. MaxRows]
  BY <1>3, Tables, LenProperties, ElementOfSeq DEF TypeOK
<1>4. QED
  BY <1>1, <1>2, <1>3

\* A record of a call, field by field.
Reads(d, kind, pc, on, pay, bk, n) ==
    /\ d \in Call
    /\ d.kind = kind /\ d.pc = pc /\ d.on = on /\ d.pay = pay /\ d.bk = bk /\ d.n = n

\* A handler without a call has read nothing.
LEMMA IdleCall == Reads(Idle, Null, "idle", Null, 0, 0, 0)
BY DataAssumption DEF Idle, Call, Steps, Amount, Reads

\* The records a call goes on with, and those it begins with.
LEMMA Moved ==
    ASSUME NEW c \in Call, NEW pc \in Steps
    PROVE  Reads([c EXCEPT !.pc = pc], c.kind, pc, c.on, c.pay, c.bk, c.n)
BY DEF Call, Reads

\* A call that begins on a session, an intent or a trip.
LEMMA Opened ==
    ASSUME NEW k \in Kinds, NEW p \in Steps, NEW o \in Payable \cup Trips
    PROVE  Reads([Idle EXCEPT !.kind = k, !.pc = p, !.on = o], k, p, o, 0, 0, 0)
<1> HIDE DEF Idle
<1>1. Idle \in Call /\ Idle.pay = 0 /\ Idle.bk = 0 /\ Idle.n = 0
  BY IdleCall DEF Reads
<1>2. QED
  BY <1>1 DEF Call, Reads

\* A call that begins on a booking.
LEMMA OpenedFor ==
    ASSUME NEW k \in Kinds, NEW p \in Steps, NEW b \in 0 .. MaxRows
    PROVE  Reads([Idle EXCEPT !.kind = k, !.pc = p, !.bk = b], k, p, Null, 0, b, 0)
<1> HIDE DEF Idle
<1>1. Idle \in Call /\ Idle.on = Null /\ Idle.pay = 0 /\ Idle.n = 0
  BY IdleCall DEF Reads
<1>2. QED
  BY <1>1 DEF Call, Reads

\* What a call does to the handlers.
LEMMA GotoEffect ==
    ASSUME TypeOK, NEW h \in Handlers, NEW c \in Call, Goto(h, c)
    PROVE  /\ handler' \in [Handlers -> Call] /\ owed' \in SUBSET sent
           /\ handler'[h] = c
           /\ \A g \in Handlers : g # h => handler'[g] = handler[g]
BY DEF TypeOK, Goto

\* A call that returns or throws leaves its handler idle.
LEMMA ReturnEffect ==
    ASSUME TypeOK, NEW h \in Handlers, Return(h) \/ Throw(h)
    PROVE  /\ handler' \in [Handlers -> Call] /\ owed' \in SUBSET sent
           /\ handler'[h] = Idle
           /\ \A g \in Handlers : g # h => handler'[g] = handler[g]
BY IdleCall DEF TypeOK, Return, Throw, Goto, Reads

\* A call that has ended relies on nothing.
LEMMA IdleOK ==
    ASSUME NEW h \in Handlers, handler'[h] = Idle
    PROVE  CallOK(handler[h])'
BY NullAssumption DEF Idle, CallOK, Placed, CheckStands, KnowsSession, KnowsIntent, KnowsCharge,
    SessionKinds, Kinds, EventKinds

-----------------------------------------------------------------------------
(***************************************************************************)
(* How the tables evolve, and what calls and rows keep                     *)
(***************************************************************************)

\* Rows are added or deleted, never replaced; a payment keeps its intent and its
\* session, and may get the charge of its intent.  What Stripe and the history
\* variables record stays.
Evolves ==
    /\ \A p \in DOMAIN payments :
          /\ p \in DOMAIN payments'
          /\ payments'[p] # Null =>
                /\ payments[p] # Null
                /\ payments'[p].intent = payments[p].intent
                /\ payments'[p].session = payments[p].session
                /\ payments'[p].charge \in {payments[p].charge, payments[p].intent}
    /\ Len(bookings) <= Len(bookings')
    /\ \A b \in DOMAIN origin : b \in DOMAIN origin' /\ origin'[b] = origin[b]
    /\ \A i \in Payable : /\ Paid(i) => Paid(i)'
                          /\ stripe[i].returned <= stripe'[i].returned
    /\ settled \subseteq settled' /\ swallowed \subseteq swallowed'
    /\ \A a \in held' : a \in held \/ a > Len(bookings)

\* A call that does nothing in a step goes on relying on what it relied on.
LEMMA CallPersists ==
    ASSUME PInv, TypeOK', Evolves, NEW h \in Handlers, handler'[h] = handler[h]
    PROVE  CallOK(handler[h])'
<1> DEFINE c == handler[h]
<1>1. c \in Call /\ CallOK(c)
  BY DEF PInv, TypeOK
<1>2. Placed(handler[h])'
  BY <1>1 DEF CallOK, Placed, Evolves, Payable
<1>3. CheckStands(handler[h])'
  <2> SUFFICES ASSUME c.pc = "insert"
               PROVE  /\ c.n <= Len(bookings')
                      /\ c.kind \in SessionKinds =>
                            \A a \in held' : origin'[a].session = c.on => c.n < a
    BY DEF CheckStands
  <2>1. Len(bookings) \in Nat /\ Len(bookings') \in Nat /\ c.n \in Nat /\ c.n <= Len(bookings)
    BY <1>1, LenProperties, DataAssumption DEF CallOK, CheckStands, TypeOK, Call, PInv, Amount
  <2>2. ASSUME NEW a \in held', origin'[a].session = c.on, c.kind \in SessionKinds
        PROVE  c.n < a
    <3>1. CASE a \in held
      <4>1. a \in DOMAIN origin /\ origin'[a] = origin[a]
        BY <3>1, Tables DEF PInv, TypeOK, Evolves
      <4>2. QED
        BY <4>1, <3>1, <2>2, <1>1 DEF CallOK, CheckStands
    <3>2. CASE a > Len(bookings) /\ a \in Nat
      BY <3>2, <2>1
    <3>3. a \in Nat
      BY LenProperties DEF TypeOK
    <3>4. QED
      BY <3>1, <3>2, <3>3 DEF Evolves
  <2>3. Len(bookings) <= Len(bookings')
    BY DEF Evolves
  <2>4. QED
    BY <2>1, <2>2, <2>3
<1>4. KnowsSession(handler[h])'
  BY <1>1 DEF CallOK, KnowsSession, Evolves, IsPayment
<1>5. KnowsIntent(handler[h])'
  <2>1. c.pc = "complete" => c.on \in Payable
    BY <1>1 DEF CallOK, Placed, Call, Kinds, EventKinds, SessionKinds, Payable
  <2>2. QED
    BY <1>1, <2>1 DEF CallOK, KnowsIntent, Evolves, IsPayment
<1>6. KnowsCharge(handler[h])'
  <2> SUFFICES ASSUME c.kind \in {"refund", "cancel"} /\ c.pc \in {"stripe", "record"}
               PROVE  KnowsCharge(handler[h])'
    BY DEF KnowsCharge
  <2>1. /\ c.on # Null => c.on \in settled'
        /\ c.pay \in DOMAIN payments'
        /\ IsPayment(c.pay)' =>
              /\ payments'[c.pay].intent = c.on /\ payments'[c.pay].charge = c.on
              /\ Account(payments[c.pay])' \subseteq settled'
    BY <1>1 DEF CallOK, KnowsCharge, Evolves, IsPayment, Account
  <2>2. ASSUME c.pc = "record", c.n = Amount, c.on # Null, c.pay \notin swallowed'
        PROVE  stripe'[c.on].returned = Amount
    <3>1. c.on \in Payable /\ stripe[c.on].returned = Amount
      BY <1>1, <2>2 DEF CallOK, KnowsCharge, Evolves, PInv, TypeOK
    <3>2. stripe'[c.on].returned \in 0 .. Amount /\ stripe[c.on].returned <= stripe'[c.on].returned
      BY <3>1 DEF TypeOK, Evolves
    <3>3. QED
      BY <3>1, <3>2 DEF Amount
  <2>3. QED
    BY <2>1, <2>2 DEF KnowsCharge
<1>7. QED
  BY <1>2, <1>3, <1>4, <1>5, <1>6 DEF CallOK

\* A session that was booked stays so.
LEMMA BookedStays == ASSUME Evolves PROVE Booked \subseteq Booked'
BY DEF Evolves, Booked

\* A row that no one writes goes on meaning what it meant.
LEMMA RowPersists ==
    ASSUME PInv, TypeOK', Evolves, NEW p \in Live, payments'[p] = payments[p]
    PROVE  RowOK(p)'
<1>1. p \in DOMAIN payments /\ RowOK(p) /\ payments[p] \in Payment
  BY RowTypes DEF PInv, RowsOK, Live
<1> DEFINE row == payments[p]
<1>2. row.st = "REFUNDED" /\ row.charge # Null /\ p \notin swallowed' =>
        stripe'[row.charge].returned = Amount
  <2> SUFFICES ASSUME row.st = "REFUNDED", row.charge # Null, p \notin swallowed'
               PROVE  stripe'[row.charge].returned = Amount
    OBVIOUS
  <2>1. row.charge \in Payable /\ stripe[row.charge].returned = Amount
    BY <1>1 DEF RowOK, Payment, Evolves
  <2>2. stripe'[row.charge].returned \in 0 .. Amount
        /\ stripe[row.charge].returned <= stripe'[row.charge].returned
    BY <2>1 DEF TypeOK, Evolves
  <2>3. QED
    BY <2>1, <2>2 DEF Amount
<1>3. QED
  BY <1>1, <1>2, BookedStays DEF RowOK, Evolves, Account

-----------------------------------------------------------------------------
(***************************************************************************)
(* Steps that read, and change only the calls                              *)
(***************************************************************************)

\* What a reading step leaves alone.
Reading == UNCHANGED <<db, outside, crashes, origin, held, settled, swallowed>>

\* A step that reads evolves the tables.
LEMMA ReadingEvolves ==
    ASSUME TypeOK, Reading
    PROVE  Evolves
<1>1. \A i \in Payable : stripe[i].returned \in Nat
  BY DEF TypeOK
<1>2. Len(bookings) \in Nat
  BY Tables
<1>3. QED
  BY <1>1, <1>2 DEF Reading, Evolves, db, outside, Paid

\* What one call reads keeps the invariant, if the call may rely on it.
LEMMA ReadingKeeps ==
    ASSUME PInv, Reading, NEW h \in Handlers,
           calls' \in 0 .. MaxCalls, late' \in SUBSET Handlers, owed' \in SUBSET sent,
           handler' \in [Handlers -> Call],
           \A g \in Handlers : g # h => handler'[g] = handler[g],
           CallOK(handler[h])'
    PROVE  PInv'
<1>1. TypeOK'
  BY DEF PInv, TypeOK, Reading, db, outside
<1>2. Evolves
  BY ReadingEvolves DEF PInv
<1>3. ASSUME NEW g \in Handlers PROVE CallOK(handler[g])'
  BY <1>1, <1>2, <1>3, CallPersists
<1>4. RowsOK'
  <2> SUFFICES ASSUME NEW p \in Live' PROVE RowOK(p)'
    BY DEF RowsOK
  <2>1. p \in Live /\ payments'[p] = payments[p]
    BY DEF Live, IsPayment, Reading, db
  <2>2. QED
    BY <2>1, <1>1, <1>2, RowPersists
<1>5. HeldOK' /\ PaidFirst' /\ OneBookingPerSession'
  BY DEF PInv, HeldOK, PaidFirst, OneBookingPerSession, Reading, db, outside, IsBooking, Paid, Booked
<1>6. QED
  BY <1>1, <1>3, <1>4, <1>5 DEF PInv

\* The count of calls stays within its bound.
LEMMA Budget == ASSUME TypeOK, Spend PROVE calls' \in 0 .. MaxCalls /\ crashes' = crashes
BY DataAssumption DEF TypeOK, Spend

\* A reading step that ends the call, or goes on with another record.
LEMMA ReadAndReturn ==
    ASSUME PInv, NEW h \in Handlers, Return(h) \/ Throw(h), Reading,
           calls' \in 0 .. MaxCalls, late' \in SUBSET Handlers
    PROVE  PInv'
BY ReturnEffect, IdleOK, ReadingKeeps DEF PInv

\* A call that has read goes on with what it has read.
LEMMA ReadAndGo ==
    ASSUME PInv, NEW h \in Handlers, NEW c \in Call, Goto(h, c), CallOK(handler[h])', Reading,
           calls' \in 0 .. MaxCalls, late' \in SUBSET Handlers
    PROVE  PInv'
BY GotoEffect, ReadingKeeps DEF PInv

\* What the record of a running call is made of.
LEMMA Running ==
    ASSUME PInv, NEW h \in Handlers
    PROVE  /\ handler[h] \in Call /\ CallOK(handler[h])
           /\ handler[h].pay \in 0 .. MaxRows /\ handler[h].bk \in 0 .. MaxRows
           /\ handler[h].n \in 0 .. MaxRows + Amount
BY DEF PInv, TypeOK, Call

\* A step that changes the calls only is a reading step.
LEMMA ReadingUnchanged ==
    ASSUME PInv, UNCHANGED <<db, outside, budget, hist>>
    PROVE  Reading /\ calls' \in 0 .. MaxCalls /\ late' \in SUBSET Handlers
BY DEF PInv, TypeOK, Reading, budget, hist

\* An event of Stripe opens the call it is meant for; the first delivery, then
\* a repeated one.
LEMMA DispatchKeeps ==
    ASSUME PInv, NEW h \in Handlers, NEW e \in sent, Dispatch(h, e), Reading,
           calls' \in 0 .. MaxCalls, late' \in SUBSET Handlers
    PROVE  PInv'
<1> DEFINE c == [Idle EXCEPT !.kind = e[1],
                             !.pc = IF e[1] = "succeeded" THEN "confirm" ELSE "look", !.on = e[2]]
<1>1. e[1] \in EventKinds /\ e[2] \in Payable /\ e = <<e[1], e[2]>>
  BY DEF PInv, TypeOK
<1>2. c \in Call /\ c.kind = e[1] /\ c.on = e[2] /\ c.n = 0
      /\ c.pc = IF e[1] = "succeeded" THEN "confirm" ELSE "look"
  <2> DEFINE pc == IF e[1] = "succeeded" THEN "confirm" ELSE "look"
  <2>1. e[1] \in Kinds /\ pc \in Steps
    BY <1>1 DEF Kinds, Steps
  <2> HIDE DEF pc
  <2>2. Reads([Idle EXCEPT !.kind = e[1], !.pc = pc, !.on = e[2]], e[1], pc, e[2], 0, 0, 0)
    BY <1>1, <2>1, Opened, DataAssumption
  <2>3. QED
    BY <2>2 DEF Reads, pc
<1>3. Goto(h, c)
  BY DEF Dispatch, Begin
<1> HIDE DEF c
<1>4. handler'[h] = c
  BY <1>2, <1>3, GotoEffect DEF PInv
<1>5. e[1] = "session" => e[2] \in Sessions /\ Paid(e[2])
  BY <1>1 DEF PInv, PaidFirst
<1>6. CallOK(handler[h])'
  BY <1>1, <1>2, <1>4, <1>5, NullAssumption
     DEF CallOK, Placed, CheckStands, KnowsSession, KnowsIntent, KnowsCharge,
         SessionKinds, Kinds, EventKinds, Reading, outside, Paid
<1>7. QED
  BY <1>2, <1>3, <1>6, ReadAndGo

\* An event comes for the first time (the webhook of payments.service.ts).
LEMMA DeliverKeeps ==
    ASSUME PInv, NEW h \in Handlers, NEW e \in EventKinds \X Payable, Deliver(h, e)
    PROVE  PInv'
<1>1. Dispatch(h, e) /\ e \in sent /\ UNCHANGED <<db, outside, budget, hist>>
  BY DEF Deliver, PInv, TypeOK
<1>2. QED
  BY <1>1, ReadingUnchanged, DispatchKeeps

\* Stripe sends an event again.
LEMMA RedeliverKeeps ==
    ASSUME PInv, NEW h \in Handlers, NEW e \in EventKinds \X Payable, Redeliver(h, e)
    PROVE  PInv'
<1>1. Dispatch(h, e) /\ e \in sent /\ Spend /\ UNCHANGED <<db, outside, hist>>
  BY DEF Redeliver
<1>2. Reading /\ calls' \in 0 .. MaxCalls /\ late' \in SUBSET Handlers
  BY <1>1, Budget DEF PInv, TypeOK, Reading, hist
<1>3. QED
  BY <1>1, <1>2, DispatchKeeps

\* A call that relies on nothing but its place.
LEMMA FreshCallOK ==
    ASSUME NEW h \in Handlers, Placed(handler[h])',
           handler'[h].pc \notin {"insert", "complete"},
           handler'[h].kind \in SessionKinds => handler'[h].pc \notin {"load", "pay", "confirm", "settle"},
           handler'[h].kind \in {"refund", "cancel"} => handler'[h].pc \notin {"stripe", "record"}
    PROVE  CallOK(handler[h])'
BY DEF CallOK, CheckStands, KnowsSession, KnowsIntent, KnowsCharge

\* A call of a client or of staff begins.
LEMMA CallsKeep ==
    ASSUME PInv, NEW h \in Handlers, Calls(h)
    PROVE  PInv'
<1>1. Reading /\ calls' \in 0 .. MaxCalls /\ late' \in SUBSET Handlers
  BY Budget DEF Calls, PInv, TypeOK, Reading, hist
<1>2. ASSUME VisitPage(h) PROVE PInv'
  <2>1. PICK s \in Sessions \ FreeSessions : stripe[s].st = "paid" /\ Begin(h, "page", "look", s)
    BY <1>2 DEF VisitPage
  <2> DEFINE c == [Idle EXCEPT !.kind = "page", !.pc = "look", !.on = s]
  <2>2. c \in Call /\ c.kind = "page" /\ c.pc = "look" /\ c.on = s
    <3>1. "page" \in Kinds /\ "look" \in Steps /\ s \in Payable \cup Trips
      BY DEF Kinds, Steps, Payable
    <3>2. Reads(c, "page", "look", s, 0, 0, 0)
      BY <3>1, Opened
    <3>3. QED
      BY <3>2 DEF Reads
  <2>3. Goto(h, c)
    BY <2>1 DEF Begin
  <2> HIDE DEF c
  <2>4. handler'[h] = c
    BY <2>2, <2>3, GotoEffect DEF PInv
  <2>5. Placed(handler[h])'
    BY <2>1, <2>2, <2>4, <1>1, NullAssumption
       DEF Placed, SessionKinds, Kinds, EventKinds, Reading, outside, Paid
  <2>6. QED
    BY <2>2, <2>3, <2>4, <2>5, <1>1, FreshCallOK, ReadAndGo
<1>3. ASSUME CallConfirm(h) PROVE PInv'
  <2>1. PICK i \in Payable \ FreeSessions : Begin(h, "confirm", "confirm", i)
    BY <1>3 DEF CallConfirm
  <2> DEFINE c == [Idle EXCEPT !.kind = "confirm", !.pc = "confirm", !.on = i]
  <2>2. c \in Call /\ c.kind = "confirm" /\ c.pc = "confirm" /\ c.on = i
    <3>1. "confirm" \in Kinds /\ "confirm" \in Steps /\ i \in Payable \cup Trips
      BY DEF Kinds, Steps, Payable
    <3>2. Reads(c, "confirm", "confirm", i, 0, 0, 0)
      BY <3>1, Opened
    <3>3. QED
      BY <3>2 DEF Reads
  <2>3. Goto(h, c)
    BY <2>1 DEF Begin
  <2> HIDE DEF c
  <2>4. handler'[h] = c
    BY <2>2, <2>3, GotoEffect DEF PInv
  <2>5. Placed(handler[h])'
    BY <2>2, <2>4, NullAssumption DEF Placed, SessionKinds, Kinds
  <2>6. QED
    BY <2>2, <2>3, <2>4, <2>5, <1>1, FreshCallOK, ReadAndGo DEF SessionKinds
<1>4. ASSUME CallCreate(h) PROVE PInv'
  <2>1. PICK t \in Trips : Begin(h, "direct", "check", t)
    BY <1>4 DEF CallCreate
  <2> DEFINE c == [Idle EXCEPT !.kind = "direct", !.pc = "check", !.on = t]
  <2>2. c \in Call /\ c.kind = "direct" /\ c.pc = "check" /\ c.on = t
    <3>1. "direct" \in Kinds /\ "check" \in Steps /\ t \in Payable \cup Trips
      BY DEF Kinds, Steps, Payable
    <3>2. Reads(c, "direct", "check", t, 0, 0, 0)
      BY <3>1, Opened
    <3>3. QED
      BY <3>2 DEF Reads
  <2>3. Goto(h, c)
    BY <2>1 DEF Begin
  <2> HIDE DEF c
  <2>4. handler'[h] = c
    BY <2>2, <2>3, GotoEffect DEF PInv
  <2>5. Placed(handler[h])'
    BY <2>2, <2>4, NullAssumption DEF Placed, SessionKinds, Kinds
  <2>6. QED
    BY <2>2, <2>3, <2>4, <2>5, <1>1, FreshCallOK, ReadAndGo
<1>5. ASSUME CallRefund(h) PROVE PInv'
  <2>1. PICK p \in Live, n \in 1 .. Amount :
          /\ payments[p].st = "COMPLETED"
          /\ Goto(h, [kind |-> "refund", pc |-> "stripe", on |-> payments[p].charge,
                      pay |-> p, bk |-> payments[p].booking, n |-> n])
    BY <1>5 DEF CallRefund
  <2> DEFINE c == [kind |-> "refund", pc |-> "stripe", on |-> payments[p].charge,
                   pay |-> p, bk |-> payments[p].booking, n |-> n]
  <2>2. payments[p] \in Payment /\ p \in 1 .. MaxRows /\ p \in DOMAIN payments /\ RowOK(p)
    BY RowTypes DEF PInv, RowsOK, Live
  <2>3. /\ c \in Call /\ c.kind = "refund" /\ c.pc = "stripe" /\ c.on = payments[p].charge
        /\ c.pay = p /\ c.n = n
    BY <2>2, DataAssumption DEF Call, Kinds, Steps, Amount, Payment
  <2>4. Goto(h, c)
    BY <2>1
  <2> HIDE DEF c
  <2>5. handler'[h] = c
    BY <2>3, <2>4, GotoEffect DEF PInv
  <2>6. Placed(handler[h])'
    BY <2>3, <2>5, NullAssumption DEF Placed, SessionKinds, Kinds
  <2>7. payments' = payments /\ settled' = settled
    BY <1>1 DEF Reading, db
  <2>8. /\ c.on = payments[p].intent /\ Account(payments[p]) \subseteq settled
        /\ c.on # Null => c.on \in settled
    BY <2>1, <2>2, <2>3 DEF RowOK, Completed, Account
  <2>9. CallOK(handler[h])'
    BY <2>2, <2>3, <2>5, <2>6, <2>7, <2>8
       DEF CallOK, CheckStands, KnowsSession, KnowsIntent, KnowsCharge, SessionKinds, Account
  <2>10. QED
    BY <2>3, <2>4, <2>9, <1>1, ReadAndGo
<1>6. ASSUME NEW kind \in {"cancel", "markAsPaid", "process"}, NEW b, IsBooking(b),
             OnBooking(h, kind,
                 IF kind = "cancel" THEN "find" ELSE IF kind = "markAsPaid" THEN "pay" ELSE "stripe", b)
      PROVE  PInv'
  <2> DEFINE pc == IF kind = "cancel" THEN "find" ELSE IF kind = "markAsPaid" THEN "pay" ELSE "stripe"
             c == [Idle EXCEPT !.kind = kind, !.pc = pc, !.bk = b]
  <2>1. b \in 1 .. MaxRows
    BY <1>6, RowTypes DEF PInv
  <2>2. c \in Call /\ c.kind = kind /\ c.pc = pc /\ c.n = 0 /\ c.bk = b
    <3>1. pc \in Steps /\ kind \in Kinds /\ b \in 0 .. MaxRows
      BY <2>1, DataAssumption DEF Kinds, Steps
    <3> HIDE DEF pc
    <3>2. Reads(c, kind, pc, Null, 0, b, 0)
      BY <3>1, OpenedFor
    <3>3. QED
      BY <3>2 DEF Reads
  <2>3. Goto(h, c)
    BY <1>6 DEF OnBooking
  <2>4. kind # "refund" /\ kind \notin SessionKinds /\ kind # Null
    BY NullAssumption DEF Kinds, SessionKinds
  <2> HIDE DEF c
  <2>5. handler'[h] = c
    BY <2>2, <2>3, GotoEffect DEF PInv
  <2>6. Placed(handler[h])'
    BY <2>2, <2>4, <2>5 DEF Placed, Amount
  <2>7. QED
    BY <2>2, <2>3, <2>4, <2>5, <2>6, <1>1, FreshCallOK, ReadAndGo
<1>7. ASSUME CallCancel(h) PROVE PInv'
  BY <1>6, <1>7 DEF CallCancel
<1>8. ASSUME CallMarkAsPaid(h) PROVE PInv'
  BY <1>6, <1>8 DEF CallMarkAsPaid
<1>9. ASSUME CallProcess(h) PROVE PInv'
  BY <1>6, <1>9 DEF CallProcess
<1>10. QED
  BY <1>2, <1>3, <1>4, <1>5, <1>7, <1>8, <1>9 DEF Calls

\* createFromSession looks for a payment, then for a booking of the session.
LEMMA SessionLookKeeps ==
    ASSUME PInv, NEW h \in Handlers, SessionLook(h)
    PROVE  PInv'
<1> DEFINE c == handler[h]
<1>1. /\ c \in Call /\ CallOK(c) /\ c.kind \in SessionKinds /\ c.pc = "look"
      /\ c.on \in Sessions /\ Paid(c.on)
  BY Running DEF SessionLook, At, CallOK, Placed
<1>2. Reading /\ calls' \in 0 .. MaxCalls /\ late' \in SUBSET Handlers
  BY DEF SessionLook, PInv, TypeOK, Reading, budget
<1>3. CASE Goto(h, [c EXCEPT !.pc = "check"])
  <2> DEFINE d == [c EXCEPT !.pc = "check"]
  <2>1. Reads(d, c.kind, "check", c.on, c.pay, c.bk, c.n)
    BY <1>1, Moved DEF Steps
  <2> HIDE DEF d
  <2>2. handler'[h] = d
    BY <1>3, <2>1, GotoEffect DEF PInv, Reads, d
  <2>3. Placed(handler[h])'
    BY <1>1, <1>2, <2>1, <2>2, NullAssumption
       DEF Placed, Reads, SessionKinds, Kinds, EventKinds, Reading, outside, Paid
  <2>4. CallOK(handler[h])'
    BY <2>1, <2>2, <2>3, FreshCallOK DEF Reads
  <2>5. QED
    BY <1>2, <1>3, <2>1, <2>4, ReadAndGo DEF Reads, d
<1>4. CASE Return(h)
  BY <1>2, <1>4, ReadAndReturn
<1>5. ASSUME NEW p \in PaymentsOf(c.on),
             Goto(h, [c EXCEPT !.pc = "load", !.pay = p, !.bk = payments[p].booking])
      PROVE  PInv'
  <2> DEFINE d == [c EXCEPT !.pc = "load", !.pay = p, !.bk = payments[p].booking]
  <2>1. p \in Live /\ payments[p].session = c.on
    BY <1>5 DEF PaymentsOf
  <2>2. p \in DOMAIN payments /\ p \in 0 .. MaxRows /\ payments[p].booking \in 0 .. MaxRows
    BY <2>1, RowTypes, DataAssumption DEF PInv, Live, Payment
  <2>3. Reads(d, c.kind, "load", c.on, p, payments[p].booking, c.n)
    BY <1>1, <2>2 DEF Call, Reads, Steps
  <2> HIDE DEF d
  <2>4. handler'[h] = d
    BY <1>5, <2>3, GotoEffect DEF PInv, Reads, d
  <2>5. CallOK(handler[h])'
    BY <1>1, <1>2, <2>1, <2>2, <2>3, <2>4, NullAssumption
       DEF CallOK, Placed, CheckStands, KnowsSession, KnowsIntent, KnowsCharge, Reads,
           SessionKinds, Kinds, EventKinds, Reading, outside, db, Paid
  <2>6. QED
    BY <1>2, <1>5, <2>3, <2>5, ReadAndGo DEF Reads, d
<1>6. QED
  BY <1>3, <1>4, <1>5 DEF SessionLook

\* Where a call goes on once the payment is made.
LEMMA AfterPaymentStep == ASSUME NEW s PROVE AfterPayment(s) \in {"settle", "confirm"} \cap Steps
BY DEF AfterPayment, Steps

\* It loads the booking it has found.
LEMMA SessionLoadKeeps ==
    ASSUME PInv, NEW h \in Handlers, SessionLoad(h)
    PROVE  PInv'
<1> DEFINE c == handler[h]
           pc == AfterPayment(c.on)
<1>1. /\ c \in Call /\ CallOK(c) /\ c.kind \in SessionKinds /\ c.pc = "load"
      /\ c.on \in Sessions /\ Paid(c.on)
  BY Running DEF SessionLoad, At, CallOK, Placed
<1>2. Reading /\ calls' \in 0 .. MaxCalls /\ late' \in SUBSET Handlers
  BY ReadingUnchanged DEF SessionLoad
<1>3. CASE Goto(h, [c EXCEPT !.pc = pc])
  <2> DEFINE d == [c EXCEPT !.pc = pc]
  <2>1. pc \in {"settle", "confirm"} /\ pc \in Steps /\ (pc = "settle" => c.on \in FreeSessions)
    BY AfterPaymentStep DEF AfterPayment
  <2> HIDE DEF pc
  <2>2. Reads(d, c.kind, pc, c.on, c.pay, c.bk, c.n)
    BY <1>1, <2>1, Moved
  <2> HIDE DEF d
  <2>3. handler'[h] = d
    BY <1>3, <2>2, GotoEffect DEF PInv, Reads, d
  <2>4. CallOK(handler[h])'
    BY <1>1, <1>2, <2>1, <2>2, <2>3, NullAssumption
       DEF CallOK, Placed, CheckStands, KnowsSession, KnowsIntent, KnowsCharge, Reads,
           SessionKinds, Kinds, EventKinds, Reading, outside, db, Paid, IsPayment
  <2>5. QED
    BY <1>2, <1>3, <2>2, <2>4, ReadAndGo DEF Reads, d
<1>4. CASE Return(h)
  BY <1>2, <1>4, ReadAndReturn
<1>5. QED
  BY <1>3, <1>4 DEF SessionLoad

\* Where the conflict query finds nothing, no booking of the session is held.
LEMMA CreateCheckKeeps ==
    ASSUME PInv, NEW h \in Handlers, CreateCheck(h)
    PROVE  PInv'
<1> DEFINE c == handler[h]
<1>1. /\ c \in Call /\ CallOK(c) /\ c.kind \in SessionKinds \cup {"direct"} /\ c.pc = "check"
  BY Running DEF CreateCheck, At
<1>2. Reading /\ calls' \in 0 .. MaxCalls /\ late' \in SUBSET Handlers
  BY ReadingUnchanged DEF CreateCheck
<1>3. CASE /\ ~\E b \in DOMAIN bookings : InTheWay(b, TripFor(h))
           /\ Goto(h, [c EXCEPT !.pc = "insert", !.n = Len(bookings)])
  <2> DEFINE d == [c EXCEPT !.pc = "insert", !.n = Len(bookings)]
  <2>1. Len(bookings) \in 0 .. MaxRows + Amount
    BY LenProperties, DataAssumption DEF PInv, TypeOK, Amount
  <2>2. Reads(d, c.kind, "insert", c.on, c.pay, c.bk, Len(bookings))
    BY <1>1, <2>1 DEF Call, Reads, Steps
  <2> HIDE DEF d
  <2>3. handler'[h] = d
    BY <1>3, <2>2, GotoEffect DEF PInv, Reads, d
  <2>4. Placed(handler[h])'
    BY <1>1, <1>2, <2>2, <2>3, NullAssumption
       DEF CallOK, Placed, Reads, SessionKinds, Kinds, EventKinds, Reading, outside, Paid
  <2>5. ASSUME c.kind \in SessionKinds, NEW a \in held, origin[a].session = c.on
        PROVE  FALSE
    <3>1. c.on \in Sessions /\ c.on # Null /\ TripFor(h) = TripOf[c.on] /\ TripOf[c.on] \in Trips
      BY <1>1, <2>5, DataAssumption, NullAssumption DEF CallOK, Placed, TripFor, SessionKinds
    <3>2. IsBooking(a) /\ bookings[a].st \in Blocking /\ bookings[a].trip = TripOf[c.on]
      BY <2>5, <3>1 DEF PInv, HeldOK
    <3>3. InTheWay(a, TripFor(h)) /\ a \in DOMAIN bookings
      BY <3>1, <3>2, DataAssumption DEF InTheWay, IsBooking
    <3>4. QED
      BY <1>3, <3>3
  <2>6. CheckStands(handler[h])'
    BY <1>2, <2>1, <2>2, <2>3, <2>5, Tables DEF CheckStands, Reads, Reading, db, PInv
  <2>7. CallOK(handler[h])'
    BY <1>1, <2>2, <2>3, <2>4, <2>6
       DEF CallOK, KnowsSession, KnowsIntent, KnowsCharge, Reads, SessionKinds
  <2>8. QED
    BY <1>2, <1>3, <2>2, <2>7, ReadAndGo DEF Reads, d
<1>4. CASE Return(h)
  BY <1>2, <1>4, ReadAndReturn
<1>5. QED
  BY <1>3, <1>4 DEF CreateCheck

\* A handler of a session without intent that finds no payment by intent goes on
\* to settle the payment it knows, if that is still there.
LEMMA ConfirmLookKeeps ==
    ASSUME PInv, NEW h \in Handlers, ConfirmLook(h)
    PROVE  PInv'
<1> DEFINE c == handler[h]
<1>1. /\ c \in Call /\ CallOK(c) /\ c.kind \in SessionKinds \cup {"succeeded", "confirm"}
      /\ c.pc = "confirm" /\ c.on \in Payable
  BY Running DEF ConfirmLook, At, CallOK, Placed, SessionKinds, Payable
<1>2. Reading /\ calls' \in 0 .. MaxCalls /\ late' \in SUBSET Handlers
  BY ReadingUnchanged DEF ConfirmLook
<1>3. CASE WithIntent(c.on) = {} /\ c.kind \in SessionKinds /\ Goto(h, [c EXCEPT !.pc = "settle"])
  <2> DEFINE d == [c EXCEPT !.pc = "settle"]
  <2>1. Reads(d, c.kind, "settle", c.on, c.pay, c.bk, c.n)
    BY <1>1, Moved DEF Steps
  <2> HIDE DEF d
  <2>2. handler'[h] = d
    BY <1>3, <2>1, GotoEffect DEF PInv, Reads, d
  <2>3. c.on \in Sessions /\ Paid(c.on) /\ c.pay \in DOMAIN payments
        /\ (IsPayment(c.pay) => payments[c.pay].session = c.on)
    BY <1>1, <1>3 DEF CallOK, Placed, KnowsSession
  <2>4. c.on \notin FreeSessions => ~IsPayment(c.pay)
    <3> SUFFICES ASSUME c.on \notin FreeSessions, IsPayment(c.pay) PROVE FALSE
      OBVIOUS
    <3>1. c.pay \in Live /\ RowOK(c.pay) /\ payments[c.pay].session = c.on /\ c.on # Null
      BY <2>3, NullAssumption DEF Live, PInv, RowsOK
    <3>2. payments[c.pay].intent = c.on
      BY <3>1 DEF RowOK
    <3>3. QED
      BY <1>3, <3>1, <3>2 DEF WithIntent
  <2>5. CallOK(handler[h])'
    BY <1>2, <1>3, <2>1, <2>2, <2>3, <2>4, NullAssumption
       DEF CallOK, Placed, CheckStands, KnowsSession, KnowsIntent, KnowsCharge, Reads,
           SessionKinds, Kinds, EventKinds, Reading, outside, db, Paid, IsPayment
  <2>6. QED
    BY <1>2, <1>3, <2>1, <2>5, ReadAndGo DEF Reads, d
<1>4. ASSUME Succeeded(c.on), NEW p \in WithIntent(c.on),
             Goto(h, [c EXCEPT !.pc = "complete", !.pay = p, !.bk = payments[p].booking])
      PROVE  PInv'
  <2> DEFINE d == [c EXCEPT !.pc = "complete", !.pay = p, !.bk = payments[p].booking]
  <2>1. p \in Live /\ payments[p].intent = c.on
    BY <1>4 DEF WithIntent
  <2>2. p \in DOMAIN payments /\ p \in 0 .. MaxRows /\ payments[p].booking \in 0 .. MaxRows
    BY <2>1, RowTypes, DataAssumption DEF PInv, Live, Payment
  <2>3. Reads(d, c.kind, "complete", c.on, p, payments[p].booking, c.n)
    BY <1>1, <2>2 DEF Call, Reads, Steps
  <2> HIDE DEF d
  <2>4. handler'[h] = d
    BY <1>4, <2>3, GotoEffect DEF PInv, Reads, d
  <2>5. Placed(handler[h])'
    BY <1>1, <1>2, <2>3, <2>4, NullAssumption
       DEF CallOK, Placed, Reads, SessionKinds, Kinds, EventKinds, Reading, outside, Paid
  <2>6. KnowsIntent(handler[h])'
    BY <1>2, <1>4, <2>1, <2>2, <2>3, <2>4
       DEF KnowsIntent, Reads, Reading, outside, db, Paid, IsPayment, Succeeded
  <2>7. CallOK(handler[h])'
    BY <1>1, <2>3, <2>4, <2>5, <2>6
       DEF CallOK, CheckStands, KnowsSession, KnowsCharge, Reads, SessionKinds
  <2>8. QED
    BY <1>2, <1>4, <2>3, <2>7, ReadAndGo DEF Reads, d
<1>5. CASE Return(h)
  BY <1>2, <1>5, ReadAndReturn
<1>6. QED
  BY <1>3, <1>4, <1>5 DEF ConfirmLook

\* payment_failed looks for the payment of its intent.
LEMMA FailLookKeeps ==
    ASSUME PInv, NEW h \in Handlers, FailLook(h)
    PROVE  PInv'
<1> DEFINE c == handler[h]
<1>1. c \in Call /\ c.kind = "failed"
  BY Running DEF FailLook, At
<1>2. Reading /\ calls' \in 0 .. MaxCalls /\ late' \in SUBSET Handlers
  BY ReadingUnchanged DEF FailLook
<1>3. ASSUME NEW p \in WithIntent(c.on),
             Goto(h, [c EXCEPT !.pc = "fail", !.pay = p, !.bk = payments[p].booking])
      PROVE  PInv'
  <2> DEFINE d == [c EXCEPT !.pc = "fail", !.pay = p, !.bk = payments[p].booking]
  <2>1. p \in 0 .. MaxRows /\ payments[p].booking \in 0 .. MaxRows
    BY <1>3, RowTypes, DataAssumption DEF PInv, WithIntent, Live, Payment
  <2>2. Reads(d, "failed", "fail", c.on, p, payments[p].booking, c.n)
    BY <1>1, <2>1 DEF Call, Reads, Steps
  <2> HIDE DEF d
  <2>3. handler'[h] = d
    BY <1>3, <2>2, GotoEffect DEF PInv, Reads, d
  <2>4. Placed(handler[h])'
    BY <2>2, <2>3, NullAssumption DEF Placed, Reads, SessionKinds, Kinds, EventKinds
  <2>5. CallOK(handler[h])'
    BY <2>2, <2>3, <2>4, FreshCallOK DEF Reads, SessionKinds
  <2>6. QED
    BY <1>2, <1>3, <2>2, <2>5, ReadAndGo DEF Reads, d
<1>4. CASE Return(h)
  BY <1>2, <1>4, ReadAndReturn
<1>5. QED
  BY <1>3, <1>4 DEF FailLook

\* A cancellation finds the completed payment of its booking.
LEMMA CancelFindKeeps ==
    ASSUME PInv, NEW h \in Handlers, CancelFind(h)
    PROVE  PInv'
<1> DEFINE c == handler[h]
<1>1. c \in Call /\ c.kind = "cancel" /\ CallOK(c)
  BY Running DEF CancelFind, At
<1>2. Reading /\ calls' \in 0 .. MaxCalls /\ late' \in SUBSET Handlers
  BY ReadingUnchanged DEF CancelFind
<1>3. CASE Goto(h, [c EXCEPT !.pc = "release"])
  <2> DEFINE d == [c EXCEPT !.pc = "release"]
  <2>1. Reads(d, "cancel", "release", c.on, c.pay, c.bk, c.n)
    BY <1>1, Moved DEF Steps
  <2> HIDE DEF d
  <2>2. handler'[h] = d
    BY <1>3, <2>1, GotoEffect DEF PInv, Reads, d
  <2>3. Placed(handler[h])'
    BY <1>1, <2>1, <2>2, NullAssumption DEF CallOK, Placed, Reads, SessionKinds, Kinds
  <2>4. CallOK(handler[h])'
    BY <2>1, <2>2, <2>3, FreshCallOK DEF Reads, SessionKinds
  <2>5. QED
    BY <1>2, <1>3, <2>1, <2>4, ReadAndGo DEF Reads, d
<1>4. ASSUME NEW p \in Live, payments[p].st = "COMPLETED", NEW n \in 0 .. Amount,
             Goto(h, [c EXCEPT !.pc = "stripe", !.pay = p, !.on = payments[p].charge, !.n = n])
      PROVE  PInv'
  <2> DEFINE d == [c EXCEPT !.pc = "stripe", !.pay = p, !.on = payments[p].charge, !.n = n]
  <2>1. p \in DOMAIN payments /\ p \in 0 .. MaxRows /\ RowOK(p) /\ payments[p] \in Payment
        /\ n \in 0 .. MaxRows + Amount
    BY RowTypes, DataAssumption DEF PInv, RowsOK, Live, Amount
  <2>2. Reads(d, "cancel", "stripe", payments[p].charge, p, c.bk, n)
    BY <1>1, <2>1 DEF Call, Reads, Steps, Payment
  <2> HIDE DEF d
  <2>3. handler'[h] = d
    BY <1>4, <2>2, GotoEffect DEF PInv, Reads, d
  <2>4. Placed(handler[h])'
    BY <2>2, <2>3, NullAssumption DEF Placed, Reads, SessionKinds, Kinds
  <2>5. /\ payments[p].charge = payments[p].intent /\ Account(payments[p]) \subseteq settled
        /\ payments[p].charge # Null => payments[p].charge \in settled
    BY <1>4, <2>1 DEF RowOK, Completed, Account
  <2>6. CallOK(handler[h])'
    BY <1>2, <2>1, <2>2, <2>3, <2>4, <2>5
       DEF CallOK, CheckStands, KnowsSession, KnowsIntent, KnowsCharge, Reads, SessionKinds,
           Reading, db, Account
  <2>7. QED
    BY <1>2, <1>4, <2>2, <2>6, ReadAndGo DEF Reads, d
<1>5. QED
  BY <1>3, <1>4 DEF CancelFind

\* A step that throws.
LEMMA ThrowKeeps ==
    ASSUME PInv, NEW h \in Handlers, StripeFails(h) \/ RowGone(h)
    PROVE  PInv'
<1>1. CASE StripeFails(h)
  <2>1. Reading /\ calls' \in 0 .. MaxCalls /\ late' \in SUBSET Handlers /\ Throw(h)
    BY <1>1, Budget DEF StripeFails, PInv, TypeOK, Reading, hist
  <2>2. QED
    BY <2>1, ReadAndReturn
<1>2. CASE RowGone(h)
  BY <1>2, ReadingUnchanged, ReadAndReturn DEF RowGone
<1>3. QED
  BY <1>1, <1>2

-----------------------------------------------------------------------------
(***************************************************************************)
(* Steps that write                                                        *)
(***************************************************************************)

\* What a writing step has to show.
LEMMA Assemble ==
    ASSUME PInv, TypeOK', Evolves,
           \A g \in Handlers : handler'[g] = handler[g] \/ CallOK(handler[g])',
           \A p \in Live' : (p \in Live /\ payments'[p] = payments[p]) \/ RowOK(p)',
           HeldOK', PaidFirst', OneBookingPerSession'
    PROVE  PInv'
<1>1. ASSUME NEW g \in Handlers PROVE CallOK(handler[g])'
  BY CallPersists
<1>2. RowsOK'
  <2> SUFFICES ASSUME NEW p \in Live' PROVE RowOK(p)'
    BY DEF RowsOK
  <2>1. QED
    BY RowPersists
<1>3. QED
  BY <1>1, <1>2 DEF PInv

\* A booking written in place.
LEMMA WriteBookingKeeps ==
    ASSUME PInv, NEW b, NEW row \in Booking, IsBooking(b), row.trip = bookings[b].trip,
           WriteBooking(b, row), UNCHANGED <<payments, outside, crashes, settled, late, swallowed>>,
           calls' \in 0 .. MaxCalls, owed' \in SUBSET sent, handler' \in [Handlers -> Call],
           \A g \in Handlers : handler'[g] = handler[g] \/ handler'[g] = Idle
    PROVE  PInv'
<1>1. b \in 1 .. Len(bookings)
  BY Tables DEF PInv, IsBooking
<1>2. /\ bookings' \in Seq(Booking \cup {Null}) /\ Len(bookings') = Len(bookings)
      /\ DOMAIN bookings' = DOMAIN bookings
      /\ \A a \in DOMAIN bookings : bookings'[a] = IF a = b THEN row ELSE bookings[a]
  BY <1>1, Tables, ExceptSeq, LenProperties DEF WriteBooking, PInv, TypeOK
<1>3. held' \subseteq held /\ (b \in held' => row.st \in Blocking) /\ origin' = origin
  BY DEF WriteBooking
<1>4. TypeOK'
  BY <1>2, <1>3 DEF PInv, TypeOK, outside
<1>5. Evolves
  <2>1. \A i \in Payable : stripe[i].returned \in Nat
    BY DEF PInv, TypeOK
  <2>2. Len(bookings) \in Nat
    BY Tables DEF PInv
  <2>3. QED
    BY <1>2, <1>3, <2>1, <2>2 DEF Evolves, outside, Paid
<1>6. \A g \in Handlers : handler'[g] = handler[g] \/ CallOK(handler[g])'
  BY IdleOK
<1>7. \A p \in Live' : p \in Live /\ payments'[p] = payments[p]
  BY DEF Live, IsPayment
<1>8. HeldOK'
  <2> SUFFICES ASSUME NEW a \in held'
               PROVE  /\ IsBooking(a)' /\ bookings'[a].st \in Blocking
                      /\ origin'[a].session # Null => bookings'[a].trip = TripOf[origin'[a].session]
    BY DEF HeldOK
  <2>1. a \in held /\ a \in DOMAIN bookings /\ bookings[a] # Null /\ row # Null
    BY <1>3, NullAssumption DEF PInv, HeldOK, IsBooking
  <2>2. QED
    BY <1>2, <1>3, <2>1 DEF PInv, HeldOK, IsBooking
<1>9. PaidFirst' /\ OneBookingPerSession'
  BY <1>3 DEF PInv, PaidFirst, OneBookingPerSession, Booked, Paid, outside
<1>10. QED
  BY <1>4, <1>5, <1>6, <1>7, <1>8, <1>9, Assemble

\* The writes of a booking: confirmed, released, or updated by the staff.
LEMMA ConfirmBookingKeeps ==
    ASSUME PInv, NEW h \in Handlers,
           ConfirmBooking(h) \/ FailBooking(h) \/ ReleaseBooking(h)
    PROVE  PInv'
<1> DEFINE b == handler[h].bk
<1>1. PICK st \in BookingStatuses, pay \in PaymentStatuses :
        WriteBooking(b, [bookings[b] EXCEPT !.st = st, !.pay = pay])
  <2>1. IsBooking(b) => bookings[b] \in Booking
    BY RowTypes DEF PInv
  <2>2. CASE ConfirmBooking(h)
    BY <2>2 DEF ConfirmBooking, BookingStatuses, PaymentStatuses
  <2>3. CASE FailBooking(h)
    <3>1. [bookings[b] EXCEPT !.pay = "FAILED"] = [bookings[b] EXCEPT !.st = bookings[b].st, !.pay = "FAILED"]
      BY <2>1, <2>3 DEF Booking, FailBooking
    <3>2. QED
      BY <2>1, <2>3, <3>1 DEF FailBooking, Booking, PaymentStatuses
  <2>4. CASE ReleaseBooking(h)
    <3> DEFINE pay == IF handler[h].pay = 0 THEN bookings[b].pay ELSE "REFUNDED"
    <3>1. pay \in PaymentStatuses
      BY <2>1, <2>4 DEF ReleaseBooking, Booking, PaymentStatuses
    <3>2. WriteBooking(b, [bookings[b] EXCEPT !.st = "CANCELLED", !.pay = pay])
      BY <2>4 DEF ReleaseBooking
    <3> HIDE DEF pay
    <3>3. QED
      BY <3>1, <3>2 DEF BookingStatuses
  <2>5. QED
    BY <2>2, <2>3, <2>4
<1>2. IsBooking(b) /\ Return(h) /\ UNCHANGED <<payments, outside, budget, settled, late, swallowed>>
  BY DEF ConfirmBooking, FailBooking, ReleaseBooking
<1> DEFINE row == [bookings[b] EXCEPT !.st = st, !.pay = pay]
<1>3. row \in Booking /\ row.trip = bookings[b].trip
  BY <1>2, RowTypes DEF PInv, Booking
<1> HIDE DEF row
<1>4. WriteBooking(b, row)
  BY <1>1 DEF row
<1>5. /\ handler' \in [Handlers -> Call] /\ owed' \in SUBSET sent
      /\ \A g \in Handlers : handler'[g] = handler[g] \/ handler'[g] = Idle
  BY <1>2, ReturnEffect DEF PInv
<1>6. QED
  BY <1>2, <1>3, <1>4, <1>5, WriteBookingKeeps DEF budget, PInv, TypeOK

\* A booking is edited, its money left alone.
LEMMA UpdateKeeps ==
    ASSUME PInv, NEW b, Update(b)
    PROVE  PInv'
<1>1. PICK st \in UpdateStatuses : WriteBooking(b, [bookings[b] EXCEPT !.st = st])
  BY DEF Update
<1> DEFINE row == [bookings[b] EXCEPT !.st = st]
<1>2. row \in Booking /\ row.trip = bookings[b].trip
  BY RowTypes, DataAssumption DEF PInv, Booking, Update
<1> HIDE DEF row
<1>3. WriteBooking(b, row)
  BY <1>1 DEF row
<1>4. QED
  BY <1>2, <1>3, WriteBookingKeeps, Budget DEF Update, PInv, TypeOK

\* A payment written in place.
LEMMA WritePaymentKeeps ==
    ASSUME PInv, NEW p, NEW row \in Payment, IsPayment(p),
           row.intent = payments[p].intent, row.session = payments[p].session,
           row.charge \in {payments[p].charge, payments[p].intent},
           WritePayment(p, row), \A s \in Settles(row) : Paid(s),
           UNCHANGED <<bookings, outside, budget, origin, held, late, swallowed>>,
           NEW h \in Handlers, owed' \in SUBSET sent, handler' \in [Handlers -> Call],
           \A g \in Handlers : g # h => handler'[g] = handler[g],
           CallOK(handler[h])', RowOK(p)'
    PROVE  PInv'
<1>1. p \in 1 .. Len(payments) /\ payments[p] \in Payment
  BY Tables, RowTypes DEF PInv, IsPayment
<1>2. /\ payments' \in Seq(Payment \cup {Null}) /\ Len(payments') = Len(payments)
      /\ DOMAIN payments' = DOMAIN payments
      /\ \A q \in DOMAIN payments : payments'[q] = IF q = p THEN row ELSE payments[q]
  BY <1>1, Tables, ExceptSeq, LenProperties DEF WritePayment, PInv, TypeOK
<1>3. settled' = settled \cup Settles(row) /\ Settles(row) \subseteq Payable
  BY DEF WritePayment, Settles, Payment, Payable
<1>4. TypeOK'
  BY <1>2, <1>3 DEF PInv, TypeOK, outside, budget
<1>5. Evolves
  <2>1. \A i \in Payable : stripe[i].returned \in Nat
    BY DEF PInv, TypeOK
  <2>2. Len(bookings) \in Nat
    BY Tables DEF PInv
  <2>3. payments[p] # Null
    BY DEF IsPayment
  <2>4. QED
    BY <1>2, <1>3, <2>1, <2>2, <2>3 DEF Evolves, outside, Paid
<1>6. \A q \in Live' : (q \in Live /\ payments'[q] = payments[q]) \/ RowOK(q)'
  BY <1>2 DEF Live, IsPayment
<1>7. HeldOK' /\ OneBookingPerSession'
  BY DEF PInv, HeldOK, OneBookingPerSession, IsBooking
<1>8. PaidFirst'
  BY <1>3 DEF PInv, PaidFirst, Booked, Paid, outside
<1>9. QED
  BY <1>4, <1>5, <1>6, <1>7, <1>8, Assemble

\* The kinds of the calls that write payments.
LEMMA KindsAt ==
    ASSUME NEW c \in Call, Placed(c)
    PROVE  /\ c.pc \in {"load", "settle"} => c.kind \in SessionKinds
           /\ c.pc = "complete" => c.kind \in SessionKinds \cup {"succeeded", "confirm"}
           /\ c.pc \in {"fail", "failBook"} => c.kind = "failed"
           /\ c.pc = "record" => c.kind \in {"refund", "cancel"}
BY DEF Placed, Call, Kinds, EventKinds, SessionKinds

\* The payment a handler completes: its account is paid, its charge that of its intent.
LEMMA Completing ==
    ASSUME PInv, NEW h \in Handlers, NEW p, p = handler[h].pay, CompletePayment(h)
    PROVE  /\ p \in Live /\ payments[p] \in Payment /\ RowOK(p)
           /\ \A s \in Account(payments[p]) : Paid(s)
           /\ \E row \in Payment :
                 /\ row.st = "COMPLETED" /\ row.charge = payments[p].intent
                 /\ row.intent = payments[p].intent /\ row.session = payments[p].session
                 /\ Settles(row) = Account(payments[p])
                 /\ WritePayment(p, row)
<1> DEFINE c == handler[h]
           charge == IF c.pc = "complete" THEN c.on ELSE payments[p].charge
           row == [payments[p] EXCEPT !.st = "COMPLETED", !.charge = charge]
<1>1. /\ c \in Call /\ CallOK(c) /\ c.pc \in {"complete", "settle"} /\ IsPayment(p)
      /\ WritePayment(p, row)
  BY Running DEF CompletePayment
<1>2. payments[p] \in Payment /\ RowOK(p) /\ p \in Live
  BY <1>1, RowTypes DEF PInv, RowsOK, Live, IsPayment
<1>3. \A s \in Account(payments[p]) : Paid(s)
  <2>1. payments[p].session # Null => Paid(payments[p].session)
    BY <1>2 DEF PInv, PaidFirst, RowOK
  <2>2. CASE c.pc = "complete"
    BY <1>1, <2>1, <2>2 DEF CallOK, KnowsIntent, Account
  <2>3. CASE c.pc = "settle"
    <3>1. payments[p].session = c.on /\ c.on \in Sessions /\ c.on \in FreeSessions
      BY <1>1, <2>3, KindsAt DEF CallOK, KnowsSession, Placed
    <3>2. payments[p].intent = Null
      BY <1>2, <3>1, NullAssumption DEF RowOK
    <3>3. QED
      BY <2>1, <3>2 DEF Account
  <2>4. QED
    BY <1>1, <2>2, <2>3
<1>4. charge = payments[p].intent
  <2>1. CASE c.pc = "complete"
    BY <1>1, <2>1 DEF CallOK, KnowsIntent
  <2>2. CASE c.pc = "settle"
    <3>1. payments[p].session = c.on /\ c.on \in Sessions /\ c.on \in FreeSessions
      BY <1>1, <2>2, KindsAt DEF CallOK, KnowsSession, Placed
    <3>2. payments[p].intent = Null /\ payments[p].charge = Null
      BY <1>2, <3>1, NullAssumption DEF RowOK
    <3>3. QED
      BY <2>2, <3>2
  <2>3. QED
    BY <1>1, <2>1, <2>2
<1> HIDE DEF charge
<1>5. /\ row \in Payment /\ row.st = "COMPLETED" /\ row.charge = payments[p].intent
      /\ row.intent = payments[p].intent /\ row.session = payments[p].session
  BY <1>2, <1>4 DEF Payment, PaymentStatuses
<1> HIDE DEF row
<1> HIDE DEF row
<1>6. Settles(row) = Account(payments[p])
  BY <1>5 DEF Settles, Account
<1>7. QED
  BY <1>1, <1>2, <1>3, <1>5, <1>6

\* The writes of a payment: completed, failed, refunded.
LEMMA CompletePaymentKeeps ==
    ASSUME PInv, NEW h \in Handlers, CompletePayment(h)
    PROVE  PInv'
<1> DEFINE c == handler[h]
           d == [c EXCEPT !.pc = "book"]
<1>0. PICK p : p = c.pay
  OBVIOUS
<1>1. PICK row \in Payment :
        /\ row.st = "COMPLETED" /\ row.charge = payments[p].intent
        /\ row.intent = payments[p].intent /\ row.session = payments[p].session
        /\ Settles(row) = Account(payments[p])
        /\ WritePayment(p, row)
  BY <1>0, Completing
<1>2. /\ p \in Live /\ payments[p] \in Payment /\ RowOK(p)
      /\ \A s \in Account(payments[p]) : Paid(s)
  BY <1>0, Completing
<1>3. /\ c \in Call /\ CallOK(c) /\ c.pc \in {"complete", "settle"} /\ IsPayment(p) /\ Goto(h, d)
      /\ UNCHANGED <<bookings, outside, budget, origin, held, late, swallowed>>
  BY <1>0, Running DEF CompletePayment
<1>4. Reads(d, c.kind, "book", c.on, c.pay, c.bk, c.n)
  BY <1>3, Moved DEF Steps
<1> HIDE DEF d
<1>5. /\ handler'[h] = d /\ handler' \in [Handlers -> Call] /\ owed' \in SUBSET sent
      /\ \A g \in Handlers : g # h => handler'[g] = handler[g]
  BY <1>3, <1>4, GotoEffect DEF PInv, Reads
<1>6. CallOK(handler[h])'
  <2>1. c.kind \in SessionKinds \cup {"succeeded", "confirm"}
    BY <1>3, KindsAt DEF CallOK
  <2>2. Placed(handler[h])'
    BY <1>3, <1>4, <1>5, <2>1, NullAssumption
       DEF CallOK, Placed, Reads, SessionKinds, Kinds, EventKinds, outside, Paid
  <2>3. QED
    BY <1>4, <1>5, <2>1, <2>2, FreshCallOK DEF Reads, SessionKinds
<1>7. payments'[p] = row /\ settled' = settled \cup Account(payments[p])
  BY <1>1, <1>2 DEF WritePayment, Live
<1>8. RowOK(p)'
  BY <1>1, <1>2, <1>3, <1>7 DEF RowOK, Account, Booked
<1>9. QED
  BY <1>1, <1>2, <1>3, <1>5, <1>6, <1>8, WritePaymentKeeps

\* payment_failed is handled, late or not.
LEMMA FailPaymentKeeps ==
    ASSUME PInv, NEW h \in Handlers, FailPayment(h)
    PROVE  PInv'
<1> DEFINE c == handler[h]
<1>0. PICK p : p = c.pay
  OBVIOUS
<1> DEFINE row == [payments[p] EXCEPT !.st = "FAILED"]
           d == [c EXCEPT !.pc = "failBook"]
<1>1. /\ c \in Call /\ CallOK(c) /\ c.pc = "fail" /\ IsPayment(p)
      /\ WritePayment(p, row) /\ Goto(h, d)
      /\ UNCHANGED <<bookings, outside, budget, origin, held, late, swallowed>>
  BY <1>0, Running DEF FailPayment
<1>2. payments[p] \in Payment /\ RowOK(p) /\ p \in Live
  BY <1>1, RowTypes DEF PInv, RowsOK, Live, IsPayment
<1>3. /\ row \in Payment /\ row.st = "FAILED" /\ row.charge = payments[p].charge
      /\ row.intent = payments[p].intent /\ row.session = payments[p].session
  BY <1>2 DEF Payment, PaymentStatuses
<1> HIDE DEF row
<1>4. Reads(d, c.kind, "failBook", c.on, c.pay, c.bk, c.n)
  BY <1>1, Moved DEF Steps
<1> HIDE DEF d
<1>5. /\ handler'[h] = d /\ handler' \in [Handlers -> Call] /\ owed' \in SUBSET sent
      /\ \A g \in Handlers : g # h => handler'[g] = handler[g]
  BY <1>1, <1>4, GotoEffect DEF PInv, Reads
<1>6. CallOK(handler[h])'
  <2>1. c.kind = "failed"
    BY <1>1, KindsAt DEF CallOK
  <2>2. Placed(handler[h])'
    BY <1>4, <1>5, <2>1, NullAssumption DEF Placed, Reads, SessionKinds, Kinds, EventKinds
  <2>3. QED
    BY <1>4, <1>5, <2>1, <2>2, FreshCallOK DEF Reads, SessionKinds
<1>7. payments'[p] = row /\ settled' = settled /\ Settles(row) = {}
  BY <1>1, <1>2, <1>3 DEF WritePayment, Live, Settles
<1>8. RowOK(p)'
  BY <1>1, <1>2, <1>3, <1>7 DEF RowOK, Account, Booked, Completed
<1>9. QED
  BY <1>1, <1>3, <1>5, <1>6, <1>7, <1>8, WritePaymentKeeps

\* A refund that Stripe has made is written down.
LEMMA RecordRefundKeeps ==
    ASSUME PInv, NEW h \in Handlers, RecordRefund(h)
    PROVE  PInv'
<1> DEFINE c == handler[h]
<1>0. PICK p : p = c.pay
  OBVIOUS
<1> DEFINE st == RefundStatus(c.n)
           row == [payments[p] EXCEPT !.st = st]
           d == [c EXCEPT !.pc = "release"]
<1>1. /\ c \in Call /\ CallOK(c) /\ c.pc = "record" /\ IsPayment(p)
      /\ WritePayment(p, row) /\ (Goto(h, d) \/ Return(h))
      /\ UNCHANGED <<bookings, outside, budget, origin, held, late, swallowed>>
  BY <1>0, Running DEF RecordRefund
<1>2. payments[p] \in Payment /\ RowOK(p) /\ p \in Live
  BY <1>1, RowTypes DEF PInv, RowsOK, Live, IsPayment
<1>3. c.kind \in {"refund", "cancel"}
  BY <1>1, KindsAt DEF CallOK
<1>4. /\ payments[p].intent = c.on /\ payments[p].charge = c.on
      /\ Account(payments[p]) \subseteq settled
      /\ c.n = Amount /\ c.on # Null /\ p \notin swallowed => stripe[c.on].returned = Amount
  BY <1>0, <1>1, <1>3 DEF CallOK, KnowsCharge
<1>5. st \in Completed /\ st \in PaymentStatuses /\ (st = "REFUNDED" => c.n = Amount)
  BY DEF RefundStatus, Completed, PaymentStatuses, Amount
<1> HIDE DEF st
<1>6. /\ row \in Payment /\ row.st = st /\ row.charge = payments[p].charge
      /\ row.intent = payments[p].intent /\ row.session = payments[p].session
  BY <1>2, <1>5 DEF Payment
<1> HIDE DEF row
<1>7. Reads(d, c.kind, "release", c.on, c.pay, c.bk, c.n)
  BY <1>1, Moved DEF Steps
<1> HIDE DEF d
<1>8. /\ handler'[h] \in {d, Idle} /\ handler' \in [Handlers -> Call] /\ owed' \in SUBSET sent
      /\ \A g \in Handlers : g # h => handler'[g] = handler[g]
  BY <1>1, <1>7, GotoEffect, ReturnEffect DEF PInv, Reads
<1>9. CallOK(handler[h])'
  <2>1. CASE handler'[h] = Idle
    BY <2>1, IdleOK
  <2>2. CASE handler'[h] = d
    <3>1. Placed(handler[h])'
      BY <1>1, <1>3, <1>7, <2>2, NullAssumption
         DEF CallOK, Placed, Reads, SessionKinds, Kinds, EventKinds
    <3>2. QED
      BY <1>3, <1>7, <2>2, <3>1, FreshCallOK DEF Reads, SessionKinds
  <2>3. QED
    BY <1>8, <2>1, <2>2
<1>10. payments'[p] = row /\ settled' = settled \cup Settles(row) /\ Settles(row) \subseteq settled
  BY <1>1, <1>2, <1>4, <1>6 DEF WritePayment, Live, Settles, Account
<1>11. RowOK(p)'
  BY <1>1, <1>2, <1>4, <1>5, <1>6, <1>10 DEF RowOK, Account, Booked, outside
<1>12. \A s \in Settles(row) : Paid(s)
  BY <1>10 DEF PInv, PaidFirst
<1>13. QED
  BY <1>1, <1>6, <1>8, <1>9, <1>11, <1>12, WritePaymentKeeps

\* A payment added.
LEMMA AddPaymentKeeps ==
    ASSUME PInv, NEW q, q = Len(payments) + 1, NEW row \in Payment,
           AddPayment(row), \A s \in Settles(row) : Paid(s),
           UNCHANGED <<bookings, outside, budget, origin, held, late, swallowed>>,
           NEW h \in Handlers, owed' \in SUBSET sent, handler' \in [Handlers -> Call],
           \A g \in Handlers : g # h => handler'[g] = handler[g],
           CallOK(handler[h])', RowOK(q)'
    PROVE  PInv'
<1>1. /\ payments' \in Seq(Payment \cup {Null}) /\ Len(payments') = Len(payments) + 1
      /\ DOMAIN payments' = 1 .. Len(payments) + 1 /\ Len(payments) + 1 <= MaxRows
      /\ payments'[q] = row /\ \A p \in DOMAIN payments : payments'[p] = payments[p]
  BY Tables, AppendProperties, LenProperties, DataAssumption DEF AddPayment, PInv, TypeOK
<1>2. DOMAIN payments = 1 .. Len(payments) /\ Len(payments) \in Nat
  BY Tables DEF PInv
<1>3. settled' = settled \cup Settles(row) /\ Settles(row) \subseteq Payable
  BY DEF AddPayment, Settles, Payment, Payable
<1>4. TypeOK'
  BY <1>1, <1>2, <1>3 DEF PInv, TypeOK, outside, budget
<1>5. Evolves
  <2>1. \A i \in Payable : stripe[i].returned \in Nat
    BY DEF PInv, TypeOK
  <2>2. Len(bookings) \in Nat
    BY Tables DEF PInv
  <2>3. QED
    BY <1>1, <1>2, <1>3, <2>1, <2>2 DEF Evolves, outside, Paid
<1>6. ASSUME NEW p \in Live' PROVE (p \in Live /\ payments'[p] = payments[p]) \/ RowOK(p)'
  <2>1. p \in DOMAIN payments \/ p = q
    BY <1>1, <1>2 DEF Live, IsPayment
  <2>2. QED
    BY <1>1, <2>1 DEF Live, IsPayment
<1>7. HeldOK' /\ OneBookingPerSession'
  BY DEF PInv, HeldOK, OneBookingPerSession, IsBooking
<1>8. PaidFirst'
  BY <1>3 DEF PInv, PaidFirst, Booked, Paid, outside
<1>9. QED
  BY <1>4, <1>5, <1>6, <1>7, <1>8, Assemble

\* A payment is made for the booking of a session, or with the booking itself.
LEMMA SessionPaymentKeeps ==
    ASSUME PInv, NEW h \in Handlers, SessionPayment(h)
    PROVE  PInv'
<1> DEFINE c == handler[h]
           pc == AfterPayment(c.on)
           intent == IF c.on \in FreeSessions THEN Null ELSE c.on
           row == [booking |-> c.bk, st |-> "PENDING", session |-> c.on, charge |-> Null, intent |-> intent]
<1>0. PICK q : q = Len(payments) + 1
  OBVIOUS
<1> DEFINE d == [c EXCEPT !.pc = pc, !.pay = q]
<1>1. /\ c \in Call /\ CallOK(c) /\ c.kind \in SessionKinds /\ c.pc = "pay" /\ IsBooking(c.bk)
      /\ AddPayment(row) /\ Goto(h, d)
      /\ UNCHANGED <<bookings, outside, budget, origin, held, late, swallowed>>
  BY <1>0, Running DEF SessionPayment, At
<1>2. /\ c.on \in Sessions /\ c.on # Null /\ Paid(c.on)
      /\ c.bk \in DOMAIN origin /\ origin[c.bk].session = c.on /\ c.bk \in 1 .. MaxRows
  BY <1>1, NullAssumption, RowTypes DEF CallOK, Placed, KnowsSession, PInv
<1>3. row \in Payment
  BY <1>2 DEF Payment, PaymentStatuses, Payable
<1>4. /\ row.st = "PENDING" /\ row.session = c.on /\ row.charge = Null
      /\ row.intent = IF c.on \in FreeSessions THEN Null ELSE c.on
  OBVIOUS
<1> HIDE DEF row, intent
<1>5. pc \in {"settle", "confirm"} /\ pc \in Steps /\ (pc = "settle" => c.on \in FreeSessions)
  BY AfterPaymentStep DEF AfterPayment
<1> HIDE DEF pc
<1>6. q \in 0 .. MaxRows /\ q \in DOMAIN payments' /\ payments'[q] = row
  BY <1>0, <1>1, <1>3, Tables, AppendProperties, LenProperties, DataAssumption DEF AddPayment, PInv, TypeOK
<1>7. Reads(d, c.kind, pc, c.on, q, c.bk, c.n)
  BY <1>1, <1>5, <1>6 DEF Call, Reads
<1> HIDE DEF d
<1>8. /\ handler'[h] = d /\ handler' \in [Handlers -> Call] /\ owed' \in SUBSET sent
      /\ \A g \in Handlers : g # h => handler'[g] = handler[g]
  BY <1>1, <1>7, GotoEffect DEF PInv, Reads
<1>9. CallOK(handler[h])'
  BY <1>1, <1>2, <1>4, <1>5, <1>6, <1>7, <1>8, NullAssumption
     DEF CallOK, Placed, CheckStands, KnowsSession, KnowsIntent, KnowsCharge, Reads,
         SessionKinds, Kinds, EventKinds, outside, Paid
<1>10. RowOK(q)'
  BY <1>1, <1>2, <1>4, <1>6 DEF RowOK, Completed, Booked
<1>11. Settles(row) = {}
  BY <1>4 DEF Settles
<1>12. QED
  BY <1>0, <1>1, <1>3, <1>8, <1>9, <1>10, <1>11, AddPaymentKeeps

\* processPayment makes an intent.
LEMMA DirectPaymentKeeps ==
    ASSUME PInv, NEW h \in Handlers, DirectPayment(h)
    PROVE  PInv'
<1> DEFINE c == handler[h]
           st == IF c.kind = "markAsPaid" THEN "COMPLETED" ELSE "PENDING"
           intent == IF c.kind = "markAsPaid" THEN Null ELSE c.on
           row == [booking |-> c.bk, st |-> st, intent |-> intent, session |-> Null, charge |-> Null]
           d == [c EXCEPT !.pc = "book"]
<1>0. PICK q : q = Len(payments) + 1
  OBVIOUS
<1>1. /\ c \in Call /\ CallOK(c) /\ c.kind \in {"process", "markAsPaid"} /\ c.pc = "pay" /\ IsBooking(c.bk)
      /\ AddPayment(row) /\ ((c.kind = "markAsPaid" /\ Goto(h, d)) \/ Return(h))
      /\ UNCHANGED <<bookings, outside, budget, origin, held, late, swallowed>>
  BY Running DEF DirectPayment, At
<1>2. /\ c.kind = "process" => c.on \in Intents
      /\ c.bk \in 1 .. MaxRows
  BY <1>1, RowTypes DEF CallOK, Placed, PInv
<1>3. row \in Payment
  BY <1>1, <1>2 DEF Payment, PaymentStatuses, Payable
<1>4. /\ row.st = st /\ row.session = Null /\ row.charge = Null /\ row.intent = intent
      /\ st \in {"COMPLETED", "PENDING"} /\ (st = "COMPLETED" => intent = Null)
      /\ intent # Null => intent \in Intents
  <2>1. row.st = st /\ row.session = Null /\ row.charge = Null /\ row.intent = intent
    OBVIOUS
  <2> HIDE DEF row
  <2>2. CASE c.kind = "markAsPaid"
    BY <2>1, <2>2
  <2>3. CASE c.kind = "process"
    BY <1>2, <2>1, <2>3
  <2>4. QED
    BY <1>1, <2>2, <2>3
<1> HIDE DEF row, intent, st, d
<1>5. payments'[q] = row
  BY <1>0, <1>1, <1>3, Tables, AppendProperties, LenProperties DEF AddPayment, PInv, TypeOK
<1>6. Reads(d, c.kind, "book", c.on, c.pay, c.bk, c.n)
  BY <1>1, Moved DEF Steps, d
<1>7. /\ handler'[h] = Idle \/ (c.kind = "markAsPaid" /\ handler'[h] = d)
      /\ handler' \in [Handlers -> Call] /\ owed' \in SUBSET sent
      /\ \A g \in Handlers : g # h => handler'[g] = handler[g]
  BY <1>1, <1>6, GotoEffect, ReturnEffect DEF PInv, Reads
<1>8. CallOK(handler[h])'
  <2>1. CASE handler'[h] = Idle
    BY <2>1, IdleOK
  <2>2. CASE c.kind = "markAsPaid" /\ handler'[h] = d
    <3>1. Placed(handler[h])'
      BY <1>6, <2>2, NullAssumption DEF Placed, Reads, SessionKinds, Kinds, EventKinds
    <3>2. QED
      BY <1>6, <2>2, <3>1, FreshCallOK DEF Reads, SessionKinds
  <2>3. QED
    BY <1>7, <2>1, <2>2
<1>9. Settles(row) = {}
  BY <1>4 DEF Settles
<1>10. RowOK(q)'
  BY <1>4, <1>5 DEF RowOK, Completed, Account
<1>11. QED
  BY <1>0, <1>1, <1>3, <1>7, <1>8, <1>9, <1>10, AddPaymentKeeps

\* A booking of a session is inserted after every booking of that session that is
\* still held has been looked at.
LEMMA CreateInsertKeeps ==
    ASSUME PInv, NEW h \in Handlers, CreateInsert(h)
    PROVE  PInv'
<1> DEFINE c == handler[h]
           session == IF c.kind = "direct" THEN Null ELSE c.on
           from == [session |-> session, seen |-> c.n]
<1>0. PICK b, row : b = Len(bookings) + 1 /\ row = NewBooking(h)
  OBVIOUS
<1> DEFINE d == [c EXCEPT !.pc = "pay", !.bk = b, !.n = 0]
<1>1. /\ c \in Call /\ CallOK(c) /\ c.kind \in SessionKinds \cup {"direct"} /\ c.pc = "insert"
      /\ Len(bookings) < MaxRows
      /\ bookings' = Append(bookings, row) /\ held' = held \cup {b} /\ origin' = Append(origin, from)
      /\ (c.kind = "direct" /\ Return(h)) \/ (c.kind \in SessionKinds /\ Goto(h, d))
      /\ UNCHANGED <<payments, outside, budget, settled, late, swallowed>>
  BY <1>0, Running DEF CreateInsert, At
<1>2. /\ c.kind \in SessionKinds => session = c.on /\ c.on \in Sessions /\ Paid(c.on)
      /\ c.kind = "direct" => session = Null /\ c.on \in Trips
      /\ session \in Sessions \cup {Null} /\ (session # Null => Paid(session))
  BY <1>1 DEF CallOK, Placed, SessionKinds
<1>3. /\ row \in Booking /\ row.st \in Blocking /\ row # Null
      /\ session # Null => row.trip = TripOf[session]
  <2> DEFINE trip == TripFor(h)
             st == IF c.kind = "direct" THEN "CONFIRMED" ELSE "PENDING"
  <2>1. trip \in Trips /\ (session # Null => trip = TripOf[session])
    BY <1>1, <1>2, DataAssumption DEF TripFor, SessionKinds
  <2>2. st \in Blocking /\ st \in BookingStatuses
    BY DEF Blocking, BookingStatuses
  <2>3. row = [trip |-> trip, pay |-> "PENDING", st |-> st]
    BY <1>0 DEF NewBooking
  <2> HIDE DEF trip, st
  <2>4. QED
    BY <2>1, <2>2, <2>3, NullAssumption DEF Booking, PaymentStatuses
<1>4. Len(bookings) \in Nat /\ c.n \in 0 .. Len(bookings) /\ Len(bookings) <= MaxRows
  BY <1>1, Tables DEF CallOK, CheckStands, Call, PInv, TypeOK
<1>5. from \in [session : Sessions \cup {Null}, seen : 0 .. MaxRows]
      /\ from.session = session /\ from.seen = c.n
  BY <1>2, <1>4, DataAssumption
<1> HIDE DEF session, from
<1>6. /\ bookings' \in Seq(Booking \cup {Null}) /\ Len(bookings') = b
      /\ DOMAIN bookings' = 1 .. b /\ bookings'[b] = row
      /\ \A a \in DOMAIN bookings : bookings'[a] = bookings[a]
  BY <1>0, <1>1, <1>3, Tables, AppendProperties, LenProperties DEF PInv, TypeOK
<1>7. /\ origin' \in Seq([session : Sessions \cup {Null}, seen : 0 .. MaxRows]) /\ Len(origin') = b
      /\ DOMAIN origin' = 1 .. b /\ origin'[b] = from
      /\ \A a \in DOMAIN origin : origin'[a] = origin[a]
  BY <1>0, <1>1, <1>5, Tables, AppendProperties, LenProperties DEF PInv, TypeOK
<1>8. b \in 1 .. MaxRows /\ DOMAIN bookings = 1 .. b - 1 /\ DOMAIN origin = 1 .. b - 1
  BY <1>0, <1>1, <1>4, Tables, DataAssumption DEF PInv
<1>9. Reads(d, c.kind, "pay", c.on, c.pay, b, 0)
  <2>1. "pay" \in Steps /\ b \in 0 .. MaxRows /\ 0 \in 0 .. MaxRows + Amount
    BY <1>8, DataAssumption DEF Steps, Amount
  <2>2. QED
    BY <1>1, <2>1 DEF Call, Reads
<1> HIDE DEF d
<1>10. /\ (c.kind = "direct" /\ handler'[h] = Idle) \/ (c.kind \in SessionKinds /\ handler'[h] = d)
       /\ handler' \in [Handlers -> Call] /\ owed' \in SUBSET sent
       /\ \A g \in Handlers : g # h => handler'[g] = handler[g]
  BY <1>1, <1>9, GotoEffect, ReturnEffect DEF PInv, Reads
<1>11. TypeOK'
  BY <1>1, <1>6, <1>7, <1>8, <1>10 DEF PInv, TypeOK, outside, budget
<1>12. Evolves
  <2>1. \A i \in Payable : stripe[i].returned \in Nat
    BY DEF PInv, TypeOK
  <2>2. QED
    BY <1>0, <1>1, <1>4, <1>6, <1>7, <1>8, <2>1 DEF Evolves, outside, Paid
<1>13. CallOK(handler[h])'
  <2>1. CASE handler'[h] = Idle
    BY <2>1, IdleOK
  <2>2. CASE c.kind \in SessionKinds /\ handler'[h] = d
    BY <1>1, <1>2, <1>5, <1>7, <1>8, <1>9, <2>2, NullAssumption
       DEF CallOK, Placed, CheckStands, KnowsSession, KnowsIntent, KnowsCharge, Reads,
           SessionKinds, Kinds, EventKinds, outside, Paid
  <2>3. QED
    BY <1>10, <2>1, <2>2
<1>14. \A p \in Live' : p \in Live /\ payments'[p] = payments[p]
  BY <1>1 DEF Live, IsPayment
<1>15. HeldOK'
  <2> SUFFICES ASSUME NEW a \in held'
               PROVE  /\ IsBooking(a)' /\ bookings'[a].st \in Blocking
                      /\ origin'[a].session # Null => bookings'[a].trip = TripOf[origin'[a].session]
    BY DEF HeldOK
  <2>1. CASE a = b
    BY <1>3, <1>5, <1>6, <1>7, <1>8, <2>1 DEF IsBooking
  <2>2. CASE a \in held
    <3>1. a \in DOMAIN bookings /\ a \in DOMAIN origin /\ a \in 1 .. b
      BY <2>2, <1>8 DEF PInv, HeldOK, IsBooking
    <3>2. QED
      BY <2>2, <3>1, <1>6, <1>7 DEF PInv, HeldOK, IsBooking
  <2>3. QED
    BY <1>1, <2>1, <2>2
<1>16. PaidFirst'
  <2>1. \A s \in Booked' : s \in Booked \/ (s = session /\ s # Null)
    BY <1>5, <1>7, <1>8 DEF Booked
  <2>2. QED
    BY <1>1, <1>2, <2>1 DEF PInv, PaidFirst, Paid, outside
<1>17. OneBookingPerSession'
  <2> SUFFICES ASSUME NEW x \in held', NEW y \in held', x < y,
                      origin'[x].session = origin'[y].session, origin'[x].session # Null
               PROVE  origin'[y].seen < x
    BY DEF OneBookingPerSession
  <2>1. \A a \in held : a \in 1 .. b - 1 /\ a \in DOMAIN origin
    BY <1>8 DEF PInv, HeldOK, IsBooking
  <2>2. x \in held
    BY <1>1, <1>8, <2>1
  <2>3. CASE y = b
    <3>1. c.kind \in SessionKinds /\ origin[x].session = c.on
      BY <1>1, <1>2, <1>5, <1>7, <2>1, <2>2, <2>3
    <3>2. QED
      BY <1>1, <1>5, <1>7, <2>2, <2>3, <3>1 DEF CallOK, CheckStands
  <2>4. CASE y \in held
    BY <1>7, <2>1, <2>2, <2>4 DEF PInv, OneBookingPerSession
  <2>5. QED
    BY <1>1, <2>3, <2>4
<1>18. QED
  BY <1>10, <1>11, <1>12, <1>13, <1>14, <1>15, <1>16, <1>17, Assemble

\* A step of Stripe's side: intents open, are paid, and give money back.
LEMMA StripeKeeps ==
    ASSUME PInv, TypeOK',
           UNCHANGED <<bookings, payments, origin, held, settled>>,
           \A i \in Payable : /\ Paid(i) => Paid(i)'
                              /\ stripe[i].returned <= stripe'[i].returned,
           \A i \in Payable : <<"session", i>> \in sent' => i \in Sessions /\ Paid(i)',
           swallowed \subseteq swallowed',
           \A g \in Handlers : handler'[g] = handler[g] \/ CallOK(handler[g])'
    PROVE  PInv'
<1>1. Evolves
  <2>1. Len(bookings) \in Nat
    BY Tables DEF PInv
  <2>2. QED
    BY <2>1 DEF Evolves
<1>2. \A p \in Live' : p \in Live /\ payments'[p] = payments[p]
  BY DEF Live, IsPayment
<1>3. HeldOK' /\ OneBookingPerSession'
  BY DEF PInv, HeldOK, OneBookingPerSession, IsBooking
<1>4. PaidFirst'
  <2>1. \A s \in Booked \cup settled : s \in Payable /\ Paid(s)
    BY RowTypes DEF PInv, PaidFirst, Booked, TypeOK, Payable
  <2>2. Booked' = Booked
    BY DEF Booked
  <2>3. QED
    BY <2>1, <2>2 DEF PaidFirst
<1>5. QED
  BY <1>1, <1>2, <1>3, <1>4, Assemble

\* Stripe opens a session, and takes its payment or does not.
LEMMA OpenSessionKeeps ==
    ASSUME PInv, NEW s \in Sessions, OpenSession(s)
    PROVE  PInv'
<1>1. s \in Payable /\ ~Paid(s)
  BY DEF OpenSession, Payable, Paid
<1>2. /\ stripe' \in [Payable -> [st : {"new", "open", "paid"}, returned : 0 .. Amount]]
      /\ \A i \in Payable : /\ Paid(i) => Paid(i)'
                            /\ stripe[i].returned <= stripe'[i].returned
  <2>1. stripe \in [Payable -> [st : {"new", "open", "paid"}, returned : 0 .. Amount]]
    BY DEF PInv, TypeOK
  <2>2. stripe' = [stripe EXCEPT ![s].st = "open"]
    BY DEF OpenSession
  <2>3. QED
    BY <1>1, <2>1, <2>2 DEF Paid, Amount
<1>3. TypeOK'
  BY <1>2 DEF PInv, TypeOK, OpenSession, db, budget, hist
<1>4. QED
  BY <1>2, <1>3, StripeKeeps DEF OpenSession, db, hist, PInv, PaidFirst

\* A card is declined.
LEMMA PayFailsKeeps ==
    ASSUME PInv, NEW i \in Payable, PayFails(i)
    PROVE  PInv'
<1>1. sent' = sent \cup {<<"failed", i>>} /\ owed' = owed \cup {<<"failed", i>>}
      /\ UNCHANGED <<db, handler, stripe, budget, hist>>
  BY DEF PayFails, Announce
<1>2. TypeOK'
  BY <1>1 DEF PInv, TypeOK, db, budget, hist, EventKinds
<1>3. \A j \in Payable : stripe[j].returned \in Nat
  BY DEF PInv, TypeOK
<1>4. QED
  BY <1>1, <1>2, <1>3, StripeKeeps DEF db, hist, PInv, PaidFirst, Paid

\* A card is charged; the webhook comes later.
LEMMA PaySucceedsKeeps ==
    ASSUME PInv, NEW i \in Payable, PaySucceeds(i)
    PROVE  PInv'
<1> DEFINE kinds == {k \in {"session", "succeeded"} :
                       IF k = "session" THEN i \in Sessions ELSE i \notin FreeSessions}
           events == {<<k, i>> : k \in kinds}
<1>1. sent' = sent \cup events /\ owed' = owed \cup events
  BY DEF PaySucceeds, Announce
<1>2. events \subseteq EventKinds \X Payable /\ (\A j : <<"session", j>> \in events => j = i /\ i \in Sessions)
  BY DEF EventKinds
<1> HIDE DEF events
<1>3. /\ stripe' \in [Payable -> [st : {"new", "open", "paid"}, returned : 0 .. Amount]]
      /\ Paid(i)'
      /\ \A j \in Payable : /\ Paid(j) => Paid(j)'
                            /\ stripe[j].returned <= stripe'[j].returned
  <2>1. stripe \in [Payable -> [st : {"new", "open", "paid"}, returned : 0 .. Amount]]
    BY DEF PInv, TypeOK
  <2>2. stripe' = [stripe EXCEPT ![i].st = "paid"]
    BY DEF PaySucceeds
  <2>3. QED
    BY <2>1, <2>2 DEF Paid, Amount
<1>4. TypeOK'
  BY <1>1, <1>2, <1>3 DEF PInv, TypeOK, PaySucceeds, db, budget, hist
<1>5. \A j \in Payable : <<"session", j>> \in sent' => j \in Sessions /\ Paid(j)'
  BY <1>1, <1>2, <1>3 DEF PInv, PaidFirst
<1>6. QED
  BY <1>3, <1>4, <1>5, StripeKeeps DEF PaySucceeds, db, hist

\* Money goes back at Stripe: the call goes on to record it.
LEMMA ReturnedEffect ==
    ASSUME TypeOK, NEW i \in Payable, NEW n \in 0 .. Amount, Refundable(i, n), ReturnMoney(i, n)
    PROVE  /\ stripe' \in [Payable -> [st : {"new", "open", "paid"}, returned : 0 .. Amount]]
           /\ \A j \in Payable : /\ Paid(j) => Paid(j)'
                                 /\ stripe[j].returned <= stripe'[j].returned
           /\ \A j \in Payable : stripe'[j].st = stripe[j].st
           /\ n = Amount => stripe'[i].returned = Amount
<1>1. stripe \in [Payable -> [st : {"new", "open", "paid"}, returned : 0 .. Amount]]
  BY DEF TypeOK
<1>2. stripe' = [stripe EXCEPT ![i].returned = stripe[i].returned + n]
  BY DEF ReturnMoney
<1>3. stripe[i].returned \in 0 .. Amount /\ stripe[i].returned + n \in 0 .. Amount
  BY <1>1 DEF Refundable, Amount
<1>4. QED
  BY <1>1, <1>2, <1>3 DEF Paid, Amount

\* A refund or a cancellation asks Stripe for the money.
LEMMA AtStripeKeeps ==
    ASSUME PInv, NEW h \in Handlers, RefundAtStripe(h) \/ CancelAtStripe(h)
    PROVE  PInv'
<1> DEFINE c == handler[h]
           d == [c EXCEPT !.pc = "record"]
<1>1. /\ c \in Call /\ CallOK(c) /\ c.kind \in {"refund", "cancel"} /\ c.pc = "stripe"
      /\ c.n \in 0 .. Amount /\ c.pay \in DOMAIN payments /\ (c.on # Null => c.on \in settled)
      /\ UNCHANGED <<db, sent, budget, origin, held, settled, late>>
  BY Running DEF RefundAtStripe, CancelAtStripe, At, hist, CallOK, Placed, KnowsCharge
<1>2. Reads(d, c.kind, "record", c.on, c.pay, c.bk, c.n)
  BY <1>1, Moved DEF Steps
<1>3. \/ c.on = Null /\ Goto(h, d) /\ UNCHANGED <<stripe, swallowed>>
      \/ c.n = 0 /\ Goto(h, d) /\ UNCHANGED <<stripe, swallowed>>
      \/ c.on # Null /\ Refundable(c.on, c.n) /\ ReturnMoney(c.on, c.n) /\ Goto(h, d) /\ UNCHANGED swallowed
      \/ Goto(h, d) /\ swallowed' = swallowed \cup {c.pay} /\ UNCHANGED stripe
      \/ Throw(h) /\ UNCHANGED <<stripe, swallowed>>
  BY <1>1 DEF RefundAtStripe, CancelAtStripe, hist, Amount
<1> HIDE DEF d
<1>4. /\ stripe' \in [Payable -> [st : {"new", "open", "paid"}, returned : 0 .. Amount]]
      /\ \A i \in Payable : /\ Paid(i) => Paid(i)'
                            /\ stripe[i].returned <= stripe'[i].returned
      /\ swallowed \subseteq swallowed' /\ swallowed' \subseteq swallowed \cup {c.pay}
      /\ \/ Throw(h)
         \/ /\ Goto(h, d)
            /\ c.on # Null /\ c.n = Amount /\ c.pay \notin swallowed' => stripe'[c.on].returned = Amount
  <2>1. stripe \in [Payable -> [st : {"new", "open", "paid"}, returned : 0 .. Amount]]
    BY DEF PInv, TypeOK
  <2>2. ASSUME stripe' = stripe PROVE \A i \in Payable : /\ Paid(i) => Paid(i)'
                                                        /\ stripe[i].returned <= stripe'[i].returned
    BY <2>1, <2>2 DEF Paid, Amount
  <2>3. CASE c.on = Null /\ Goto(h, d) /\ UNCHANGED <<stripe, swallowed>>
    BY <2>1, <2>2, <2>3
  <2>4. CASE c.n = 0 /\ Goto(h, d) /\ UNCHANGED <<stripe, swallowed>>
    BY <2>1, <2>2, <2>4 DEF Amount
  <2>5. CASE c.on # Null /\ Refundable(c.on, c.n) /\ ReturnMoney(c.on, c.n) /\ Goto(h, d) /\ UNCHANGED swallowed
    <3>1. c.on \in Payable
      BY <1>1, <2>5 DEF PInv, TypeOK
    <3>2. QED
      BY <1>1, <2>5, <3>1, ReturnedEffect DEF PInv
  <2>6. CASE Goto(h, d) /\ swallowed' = swallowed \cup {c.pay} /\ UNCHANGED stripe
    BY <2>1, <2>2, <2>6
  <2>7. CASE Throw(h) /\ UNCHANGED <<stripe, swallowed>>
    BY <2>1, <2>2, <2>7
  <2>8. QED
    BY <1>3, <2>3, <2>4, <2>5, <2>6, <2>7
<1>5. /\ handler'[h] \in {d, Idle} /\ handler' \in [Handlers -> Call] /\ owed' \in SUBSET sent
      /\ \A g \in Handlers : g # h => handler'[g] = handler[g]
      /\ handler'[h] = d /\ c.on # Null /\ c.n = Amount /\ c.pay \notin swallowed' =>
            stripe'[c.on].returned = Amount
  <2>1. handler'[h] = d \/ handler'[h] = Idle
    BY <1>2, <1>4, GotoEffect, ReturnEffect DEF PInv, Reads
  <2>2. Throw(h) => handler'[h] = Idle
    BY ReturnEffect DEF PInv
  <2>3. d # Idle
    BY <1>2, IdleCall DEF Reads
  <2>4. QED
    BY <1>2, <1>4, <2>1, <2>2, <2>3, GotoEffect, ReturnEffect DEF PInv, Reads
<1>6. TypeOK'
  BY <1>1, <1>4, <1>5 DEF PInv, TypeOK, db, budget
<1>7. CallOK(handler[h])'
  <2>1. CASE handler'[h] = Idle
    BY <2>1, IdleOK
  <2>2. CASE handler'[h] = d
    <3>1. Placed(handler[h])'
      BY <1>1, <1>2, <2>2, NullAssumption
         DEF CallOK, Placed, Reads, SessionKinds, Kinds, EventKinds
    <3>2. KnowsCharge(handler[h])'
      BY <1>1, <1>2, <1>5, <2>2 DEF CallOK, KnowsCharge, Reads, db, IsPayment, Account
    <3>3. QED
      BY <1>1, <1>2, <2>2, <3>1, <3>2
         DEF CallOK, CheckStands, KnowsSession, KnowsIntent, Reads, SessionKinds
  <2>3. QED
    BY <1>5, <2>1, <2>2
<1>8. \A i \in Payable : <<"session", i>> \in sent' => i \in Sessions /\ Paid(i)'
  BY <1>1, <1>4 DEF PInv, PaidFirst
<1>9. QED
  BY <1>1, <1>4, <1>5, <1>6, <1>7, <1>8, StripeKeeps DEF db

\* processPayment makes an intent for a pending booking.
LEMMA ProcessIntentKeeps ==
    ASSUME PInv, NEW h \in Handlers, ProcessIntent(h)
    PROVE  PInv'
<1> DEFINE c == handler[h]
<1>1. PICK i \in Intents : /\ stripe[i].st = "new"
                           /\ stripe' = [stripe EXCEPT ![i].st = "open"]
                           /\ Goto(h, [c EXCEPT !.pc = "pay", !.on = i])
  BY DEF ProcessIntent
<1> DEFINE d == [c EXCEPT !.pc = "pay", !.on = i]
<1>2. /\ c \in Call /\ c.kind = "process" /\ UNCHANGED <<db, sent, budget, hist>>
  BY Running DEF ProcessIntent, At
<1>3. Reads(d, "process", "pay", i, c.pay, c.bk, c.n)
  BY <1>2 DEF Call, Reads, Steps, Payable
<1> HIDE DEF d
<1>4. /\ handler'[h] = d /\ handler' \in [Handlers -> Call] /\ owed' \in SUBSET sent
      /\ \A g \in Handlers : g # h => handler'[g] = handler[g]
  BY <1>1, <1>3, GotoEffect DEF PInv, Reads, d
<1>5. /\ stripe' \in [Payable -> [st : {"new", "open", "paid"}, returned : 0 .. Amount]]
      /\ \A j \in Payable : /\ Paid(j) => Paid(j)'
                            /\ stripe[j].returned <= stripe'[j].returned
  <2>1. stripe \in [Payable -> [st : {"new", "open", "paid"}, returned : 0 .. Amount]]
    BY DEF PInv, TypeOK
  <2>2. stripe' = [stripe EXCEPT ![i].st = "open"] /\ i \in Payable /\ ~Paid(i)
    BY <1>1 DEF Payable, Paid
  <2>3. QED
    BY <2>1, <2>2 DEF Paid, Amount
<1>6. TypeOK'
  BY <1>2, <1>4, <1>5 DEF PInv, TypeOK, db, budget, hist
<1>7. Placed(handler[h])'
  BY <1>3, <1>4, NullAssumption DEF Placed, Reads, SessionKinds, Kinds, EventKinds
<1>8. CallOK(handler[h])'
  BY <1>3, <1>4, <1>7, FreshCallOK DEF Reads, SessionKinds
<1>9. \A j \in Payable : <<"session", j>> \in sent' => j \in Sessions /\ Paid(j)'
  BY <1>2, <1>5 DEF PInv, PaidFirst
<1>10. QED
  BY <1>2, <1>4, <1>5, <1>6, <1>8, <1>9, StripeKeeps DEF db, hist

\* bookings.remove: the payments go with their booking.
LEMMA RemoveKeeps ==
    ASSUME PInv, NEW b, Remove(b)
    PROVE  PInv'
<1>1. b \in 1 .. Len(bookings)
  BY Tables DEF PInv, IsBooking, Remove
<1>2. /\ bookings' \in Seq(Booking \cup {Null}) /\ Len(bookings') = Len(bookings)
      /\ DOMAIN bookings' = DOMAIN bookings
      /\ \A a \in DOMAIN bookings : bookings'[a] = IF a = b THEN Null ELSE bookings[a]
  BY <1>1, Tables, ExceptSeq, LenProperties DEF Remove, PInv, TypeOK
<1>3. /\ payments' \in Seq(Payment \cup {Null}) /\ Len(payments') = Len(payments)
      /\ DOMAIN payments' = DOMAIN payments
      /\ \A p \in DOMAIN payments : payments'[p] \in {payments[p], Null}
  <2>1. Len(payments) \in Nat /\ DOMAIN payments = 1 .. Len(payments)
    BY Tables DEF PInv
  <2>2. payments' = [p \in DOMAIN payments |->
          IF IsPayment(p) /\ payments[p].booking = b THEN Null ELSE payments[p]]
    BY DEF Remove
  <2>3. \A p \in DOMAIN payments : payments[p] \in Payment \cup {Null}
    BY <2>1, ElementOfSeq DEF PInv, TypeOK
  <2>4. payments' \in [1 .. Len(payments) -> Payment \cup {Null}]
    BY <2>1, <2>2, <2>3
  <2>5. payments' \in Seq(Payment \cup {Null})
    BY <2>1, <2>4, SeqDef
  <2>6. QED
    BY <2>1, <2>2, <2>4, <2>5, LenProperties
<1>4. held' = held \ {b} /\ UNCHANGED <<handler, outside, owed, origin, crashes, settled, late, swallowed>>
      /\ calls' \in 0 .. MaxCalls
  BY Budget DEF Remove, PInv
<1>5. TypeOK'
  BY <1>2, <1>3, <1>4 DEF PInv, TypeOK, outside
<1>6. Evolves
  <2>1. \A i \in Payable : stripe[i].returned \in Nat
    BY DEF PInv, TypeOK
  <2>2. Len(bookings) \in Nat
    BY Tables DEF PInv
  <2>3. QED
    BY <1>2, <1>3, <1>4, <2>1, <2>2 DEF Evolves, outside, Paid
<1>7. \A p \in Live' : p \in Live /\ payments'[p] = payments[p]
  BY <1>3 DEF Live, IsPayment
<1>8. HeldOK'
  <2> SUFFICES ASSUME NEW a \in held'
               PROVE  /\ IsBooking(a)' /\ bookings'[a].st \in Blocking
                      /\ origin'[a].session # Null => bookings'[a].trip = TripOf[origin'[a].session]
    BY DEF HeldOK
  <2>1. a \in held /\ a # b /\ a \in DOMAIN bookings
    BY <1>4 DEF PInv, HeldOK, IsBooking
  <2>2. QED
    BY <1>2, <1>4, <2>1 DEF PInv, HeldOK, IsBooking
<1>9. PaidFirst' /\ OneBookingPerSession'
  BY <1>4 DEF PInv, PaidFirst, OneBookingPerSession, Booked, Paid, outside
<1>10. QED
  BY <1>4, <1>5, <1>6, <1>7, <1>8, <1>9, Assemble

\* A restart ends every call; the events it had not answered are owed.
LEMMA CrashKeeps ==
    ASSUME PInv, Crash
    PROVE  PInv'
<1>1. handler' \in [Handlers -> Call] /\ \A g \in Handlers : handler'[g] = Idle
  BY IdleCall DEF Crash, Reads
<1>2. TypeOK'
  BY <1>1, DataAssumption DEF PInv, TypeOK, Crash, db, outside, hist
<1>3. \A g \in Handlers : CallOK(handler[g])'
  BY <1>1, IdleOK
<1>4. \A i \in Payable : stripe[i].returned \in Nat
  BY DEF PInv, TypeOK
<1>5. QED
  BY <1>2, <1>3, <1>4, StripeKeeps DEF Crash, db, outside, hist, PInv, PaidFirst, Paid

-----------------------------------------------------------------------------
(***************************************************************************)
(* The invariants                                                          *)
(***************************************************************************)

\* The initial states, every action and stuttering keep the invariant.
LEMMA InitPInv == Init => PInv
<1> SUFFICES ASSUME Init PROVE PInv
  OBVIOUS
<1>1. \A S : << >> \in Seq(S) /\ Len(<< >>) = 0 /\ DOMAIN << >> = {}
  BY EmptySeq
<1>2. TypeOK
  <2>1. handler \in [Handlers -> Call]
    BY IdleCall DEF Init, Reads
  <2>2. stripe \in [Payable -> [st : {"new", "open", "paid"}, returned : 0 .. Amount]]
    BY DEF Init, Amount
  <2>3. QED
    BY <1>1, <2>1, <2>2, DataAssumption DEF Init, TypeOK
<1>3. \A h \in Handlers : CallOK(handler[h])
  BY NullAssumption
     DEF Init, Idle, CallOK, Placed, CheckStands, KnowsSession, KnowsIntent, KnowsCharge,
         SessionKinds, Kinds, EventKinds
<1>4. RowsOK /\ HeldOK /\ PaidFirst /\ OneBookingPerSession
  BY <1>1 DEF Init, RowsOK, Live, HeldOK, PaidFirst, Booked, OneBookingPerSession
<1>5. QED
  BY <1>2, <1>3, <1>4 DEF PInv

\* Whatever a handler does next keeps the invariant.
LEMMA StepKeeps ==
    ASSUME PInv, NEW h \in Handlers, Step(h)
    PROVE  PInv'
BY SessionLookKeeps, SessionLoadKeeps, SessionPaymentKeeps, CreateCheckKeeps, CreateInsertKeeps,
   ConfirmLookKeeps, CompletePaymentKeeps, ConfirmBookingKeeps, FailLookKeeps, FailPaymentKeeps,
   AtStripeKeeps, CancelFindKeeps, RecordRefundKeeps, ProcessIntentKeeps, DirectPaymentKeeps,
   ThrowKeeps
   DEF Step

\* A step in which nothing happens.
LEMMA StutterKeeps == ASSUME PInv, UNCHANGED vars PROVE PInv'
<1>1. Reading /\ calls' \in 0 .. MaxCalls /\ late' \in SUBSET Handlers
  BY ReadingUnchanged DEF vars
<1>2. TypeOK' /\ UNCHANGED <<handler, owed>>
  BY DEF vars, db, outside, budget, hist, PInv, TypeOK
<1>3. Evolves
  BY <1>1, ReadingEvolves DEF PInv
<1>4. \A p \in Live' : p \in Live /\ payments'[p] = payments[p]
  BY DEF Live, IsPayment, vars, db
<1>5. HeldOK' /\ PaidFirst' /\ OneBookingPerSession'
  BY DEF PInv, HeldOK, PaidFirst, OneBookingPerSession, vars, db, outside, hist, IsBooking, Paid, Booked
<1>6. QED
  BY <1>2, <1>3, <1>4, <1>5, Assemble

\* What the handlers rely on stays true: PInv is inductive.
THEOREM Inductive == Spec => []PInv
<1>1. ASSUME PInv, [Next]_vars PROVE PInv'
  <2>1. ASSUME StripeStep PROVE PInv'
    BY <1>1, <2>1, OpenSessionKeeps, PayFailsKeeps, PaySucceedsKeeps DEF StripeStep
  <2>2. ASSUME NEW h \in Handlers,
               \/ Step(h) \/ Calls(h) \/ StripeFails(h)
               \/ \E e \in EventKinds \X Payable : Deliver(h, e) \/ Redeliver(h, e)
        PROVE  PInv'
    BY <1>1, <2>2, StepKeeps, CallsKeep, ThrowKeeps, DeliverKeeps, RedeliverKeeps
  <2>3. ASSUME NEW b \in DOMAIN bookings, Update(b) \/ Remove(b) PROVE PInv'
    BY <1>1, <2>3, UpdateKeeps, RemoveKeeps
  <2>4. QED
    BY <1>1, <2>1, <2>2, <2>3, CrashKeeps, StutterKeeps DEF Next
<1>2. QED
  BY <1>1, InitPInv, PTL DEF Spec

\* The tables, the calls and what Stripe knows have their types, whatever is
\* interleaved, repeated or cut short.
THEOREM TypeCorrect == Spec => []TypeOK
<1>1. PInv => TypeOK
  BY DEF PInv
<1>2. QED
  BY <1>1, Inductive, PTL

\* A session is booked once: of two bookings of one session that both still block
\* their dates, the later was checked before the earlier was inserted.
THEOREM BookedOnce == Spec => []OneBookingPerSession
<1>1. PInv => OneBookingPerSession
  BY DEF PInv
<1>2. QED
  BY <1>1, Inductive, PTL

\* Nothing is booked or settled before the guest has paid at Stripe.
THEOREM PaidBefore == Spec => []NothingBeforePayment
<1>1. ASSUME PInv PROVE NothingBeforePayment
  <2>1. ASSUME NEW b \in DOMAIN origin, origin[b].session # Null
        PROVE  stripe[origin[b].session].st = "paid"
    BY <1>1, <2>1 DEF PInv, PaidFirst, Booked, Paid
  <2>2. ASSUME NEW p \in Live, payments[p].st = "COMPLETED", payments[p].intent # Null
        PROVE  stripe[payments[p].intent].st = "paid"
    BY <1>1, <2>2 DEF PInv, PaidFirst, RowsOK, RowOK, Completed, Account, Paid
  <2>3. QED
    BY <2>1, <2>2 DEF NothingBeforePayment
<1>2. QED
  BY <1>1, Inductive, PTL

\* A payment with a charge that says REFUNDED has been given back in full, unless
\* a cancellation swallowed an error.
THEOREM Returned == Spec => []RefundedIsReturned
<1>1. PInv => RefundedIsReturned
  BY DEF PInv, RowsOK, RowOK, RefundedIsReturned
<1>2. QED
  BY <1>1, Inductive, PTL

-----------------------------------------------------------------------------
(***************************************************************************)
(* The handlers implement the ledger                                       *)
(***************************************************************************)
PaidAccounts == {i \in Payable : stripe[i].st = "paid"}
GivenBack == [i \in Payable |-> stripe[i].returned]

LedgerStep == [Accounting!Next]_(Accounting!ledger)

\* What leaves the accounts as they are is no step of the ledger.
LEMMA LedgerStutters ==
    ASSUME UNCHANGED <<PaidAccounts, Booked, settled, GivenBack>>
    PROVE  LedgerStep
BY DEF LedgerStep, Accounting!ledger, PaidAccounts, Booked, GivenBack

\* Where Stripe and the settled money stay, the ledger stutters.
LEMMA QuietSteps ==
    ASSUME UNCHANGED <<stripe, origin, settled>>
    PROVE  LedgerStep
<1>1. UNCHANGED <<PaidAccounts, Booked, settled, GivenBack>>
  BY DEF PaidAccounts, Booked, GivenBack
<1>2. QED
  BY <1>1, LedgerStutters

\* An intent that opens is neither paid nor given back.
LEMMA OpeningStutters ==
    ASSUME TypeOK, NEW i \in Payable, stripe[i].st = "new", stripe' = [stripe EXCEPT ![i].st = "open"],
           UNCHANGED <<origin, settled>>
    PROVE  LedgerStep
<1>1. /\ \A j \in Payable : (stripe'[j].st = "paid") <=> (stripe[j].st = "paid")
      /\ \A j \in Payable : stripe'[j].returned = stripe[j].returned
  BY DEF TypeOK
<1>2. UNCHANGED <<PaidAccounts, Booked, settled, GivenBack>>
  BY <1>1 DEF PaidAccounts, Booked, GivenBack
<1>3. QED
  BY <1>2, LedgerStutters

\* A payment taken at Stripe pays its account.
LEMMA PayingPays ==
    ASSUME TypeOK, NEW i \in Payable, PaySucceeds(i)
    PROVE  LedgerStep
<1>1. stripe[i].st = "open" /\ stripe' = [stripe EXCEPT ![i].st = "paid"] /\ UNCHANGED <<origin, settled>>
  BY DEF PaySucceeds, CanPay, hist
<1>2. /\ \A j \in Payable : (stripe'[j].st = "paid") <=> (stripe[j].st = "paid" \/ j = i)
      /\ \A j \in Payable : stripe'[j].returned = stripe[j].returned
  BY <1>1 DEF TypeOK
<1>3. /\ i \notin PaidAccounts /\ PaidAccounts' = PaidAccounts \cup {i}
      /\ UNCHANGED <<Booked, settled, GivenBack>>
  BY <1>1, <1>2 DEF PaidAccounts, Booked, GivenBack
<1>4. Accounting!Pay(i)
  BY <1>3 DEF Accounting!Pay, PaidAccounts, Booked, GivenBack
<1>5. QED
  BY <1>4 DEF LedgerStep, Accounting!Next

\* The booking of a paid session is made for its account, once; a second booking
\* of the session books nothing more.
LEMMA InsertBooks ==
    ASSUME PInv, NEW h \in Handlers, CreateInsert(h)
    PROVE  LedgerStep
<1> DEFINE c == handler[h]
           session == IF c.kind = "direct" THEN Null ELSE c.on
           from == [session |-> session, seen |-> c.n]
<1>1. /\ c \in Call /\ CallOK(c) /\ c.kind \in SessionKinds \cup {"direct"} /\ c.pc = "insert"
      /\ origin' = Append(origin, from) /\ UNCHANGED <<stripe, settled>>
  BY Running DEF CreateInsert, At, outside
<1>2. session \in Sessions \cup {Null} /\ (session # Null => Paid(session))
  BY <1>1 DEF CallOK, Placed, SessionKinds
<1>3. Len(bookings) \in Nat /\ c.n \in 0 .. MaxRows
  BY <1>1, Tables, DataAssumption DEF CallOK, CheckStands, Call, PInv, TypeOK
<1>4. from \in [session : Sessions \cup {Null}, seen : 0 .. MaxRows] /\ from.session = session
  BY <1>2, <1>3
<1> HIDE DEF session, from
<1>5. /\ DOMAIN origin' = DOMAIN origin \cup {Len(bookings) + 1}
      /\ origin'[Len(bookings) + 1] = from
      /\ \A a \in DOMAIN origin : origin'[a] = origin[a]
  BY <1>1, <1>3, <1>4, Tables, AppendProperties, LenProperties DEF PInv, TypeOK
<1>6. Booked' = Booked \cup ({session} \ {Null})
  BY <1>4, <1>5 DEF Booked
<1>7. UNCHANGED <<PaidAccounts, settled, GivenBack>>
  BY <1>1 DEF PaidAccounts, GivenBack
<1>8. CASE session \in Booked \cup {Null}
  BY <1>6, <1>7, <1>8, LedgerStutters
<1>9. CASE session \notin Booked \cup {Null}
  <2>1. session \in (PaidAccounts \cap Sessions) \ Booked /\ session \in Payable
    BY <1>2, <1>9 DEF PaidAccounts, Paid, Payable
  <2>2. PICK a \in Payable : a = session
    BY <2>1
  <2>3. a \in (PaidAccounts \cap Sessions) \ Booked /\ Booked' = Booked \cup {a}
    BY <1>6, <1>9, <2>1, <2>2
  <2>4. Accounting!Book(a)
    BY <1>7, <2>3 DEF Accounting!Book, PaidAccounts, Booked, GivenBack
  <2>5. QED
    BY <2>4 DEF LedgerStep, Accounting!Next
<1>10. QED
  BY <1>8, <1>9

\* The payment of a session or of an intent of its own settles one account, which
\* is paid, and booked if it is a session's.
LEMMA CompletingSettles ==
    ASSUME PInv, NEW h \in Handlers, CompletePayment(h)
    PROVE  LedgerStep
<1> DEFINE p == handler[h].pay
           account == Account(payments[p])
<1>1. /\ payments[p] \in Payment /\ RowOK(p)
      /\ settled' = settled \cup account /\ \A s \in account : Paid(s)
      /\ UNCHANGED <<stripe, origin>>
  BY Completing DEF CompletePayment, WritePayment, outside
<1>2. UNCHANGED <<PaidAccounts, Booked, GivenBack>>
  BY <1>1 DEF PaidAccounts, Booked, GivenBack
<1>3. account = {} \/ \E a \in Payable : account = {a} /\ (a \in Sessions => a \in Booked)
  <2>1. CASE payments[p].session # Null
    BY <1>1, <2>1 DEF RowOK, Account, Payment, Payable
  <2>2. CASE payments[p].session = Null
    BY <1>1, <2>2, DataAssumption DEF RowOK, Account, Payment, Payable
  <2>3. QED
    BY <2>1, <2>2
<1>4. CASE account \subseteq settled
  <2>1. settled' = settled
    BY <1>1, <1>4
  <2>2. QED
    BY <1>2, <2>1, LedgerStutters
<1>5. CASE ~(account \subseteq settled)
  <2>1. PICK a \in Payable : account = {a} /\ a \notin settled /\ (a \in Sessions => a \in Booked)
    BY <1>3, <1>5
  <2>2. a \in PaidAccounts \ settled /\ settled' = settled \cup {a}
    BY <1>1, <2>1 DEF PaidAccounts, Paid
  <2>3. Accounting!Settle(a)
    BY <1>2, <2>1, <2>2 DEF Accounting!Settle, PaidAccounts, Booked, GivenBack
  <2>4. QED
    BY <2>3 DEF LedgerStep, Accounting!Next
<1>6. QED
  BY <1>4, <1>5

\* What Stripe gives back is the charge of a settled account, within its amount.
LEMMA RefundingGivesBack ==
    ASSUME PInv, NEW h \in Handlers, RefundAtStripe(h) \/ CancelAtStripe(h)
    PROVE  LedgerStep
<1> DEFINE c == handler[h]
<1>1. /\ c \in Call /\ CallOK(c) /\ c.kind \in {"refund", "cancel"} /\ c.pc = "stripe"
      /\ UNCHANGED <<origin, settled>>
  BY Running DEF RefundAtStripe, CancelAtStripe, At, hist
<1>2. \/ UNCHANGED stripe
      \/ c.on # Null /\ Refundable(c.on, c.n) /\ ReturnMoney(c.on, c.n) /\ c.n \in 1 .. Amount
  <2>1. /\ c.kind = "refund" => c.n \in 1 .. Amount
        /\ c.kind = "cancel" => c.n \in 0 .. Amount
    BY <1>1 DEF CallOK, Placed
  <2>2. CASE RefundAtStripe(h)
    BY <2>1, <2>2 DEF RefundAtStripe, At
  <2>3. CASE CancelAtStripe(h)
    BY <2>1, <2>3 DEF CancelAtStripe, At, Amount
  <2>4. QED
    BY <2>2, <2>3
<1>3. CASE UNCHANGED stripe
  BY <1>1, <1>3, QuietSteps
<1>4. CASE c.on # Null /\ Refundable(c.on, c.n) /\ ReturnMoney(c.on, c.n) /\ c.n \in 1 .. Amount
  <2>1. c.on \in settled /\ c.on \in Payable
    BY <1>1, <1>4 DEF CallOK, KnowsCharge, PInv, TypeOK
  <2>2. PICK i, n : i = c.on /\ n = c.n
    OBVIOUS
  <2>3. /\ stripe \in [Payable -> [st : {"new", "open", "paid"}, returned : 0 .. Amount]]
        /\ stripe' = [stripe EXCEPT ![i].returned = stripe[i].returned + n]
    BY <1>4, <2>2 DEF PInv, TypeOK, ReturnMoney
  <2>4. /\ \A j \in Payable : stripe'[j].st = stripe[j].st
        /\ \A j \in Payable : stripe'[j].returned = IF j = i THEN stripe[i].returned + n ELSE stripe[j].returned
    BY <2>1, <2>2, <2>3
  <2>5. GivenBack' = [GivenBack EXCEPT ![i] = GivenBack[i] + n] /\ UNCHANGED <<PaidAccounts, Booked, settled>>
    BY <1>1, <2>1, <2>2, <2>4 DEF GivenBack, PaidAccounts, Booked
  <2>6. n \in 1 .. Amount - GivenBack[i]
    BY <1>4, <2>1, <2>2, <2>3 DEF Refundable, GivenBack, Amount
  <2>7. Accounting!GiveBack(i)
    BY <2>1, <2>2, <2>5, <2>6 DEF Accounting!GiveBack, GivenBack, PaidAccounts, Booked
  <2>8. QED
    BY <2>1, <2>2, <2>7 DEF LedgerStep, Accounting!Next
<1>5. QED
  BY <1>2, <1>3, <1>4

\* Neither a refund that is recorded nor a payment that is added or fails settles
\* an account.
LEMMA OtherPayments ==
    ASSUME PInv, NEW h \in Handlers,
           SessionPayment(h) \/ DirectPayment(h) \/ FailPayment(h) \/ RecordRefund(h)
    PROVE  LedgerStep
<1> DEFINE c == handler[h]
<1>1. UNCHANGED <<stripe, origin>>
  BY DEF SessionPayment, DirectPayment, FailPayment, RecordRefund, outside
<1>2. settled' = settled
  <2>1. CASE SessionPayment(h)
    BY <2>1 DEF SessionPayment, AddPayment, Settles
  <2>2. CASE DirectPayment(h)
    BY <2>2 DEF DirectPayment, AddPayment, Settles
  <2>3. CASE FailPayment(h)
    <3>1. payments[c.pay] \in Payment
      BY <2>3, RowTypes DEF FailPayment, PInv
    <3>2. QED
      BY <2>3, <3>1 DEF FailPayment, WritePayment, Settles, Payment
  <2>4. CASE RecordRefund(h)
    <3>1. payments[c.pay] \in Payment /\ c \in Call /\ CallOK(c) /\ c.pc = "record" /\ IsPayment(c.pay)
      BY <2>4, RowTypes, Running DEF RecordRefund, PInv
    <3>2. {payments[c.pay].intent, payments[c.pay].session} \ {Null} \subseteq settled
      BY <3>1, KindsAt DEF CallOK, KnowsCharge, Account
    <3>3. QED
      BY <2>4, <3>1, <3>2 DEF RecordRefund, WritePayment, Settles, Payment
  <2>5. QED
    BY <2>1, <2>2, <2>3, <2>4
<1>3. QED
  BY <1>1, <1>2, QuietSteps

\* What the steps of the handlers are to the ledger.
LEMMA HandlerLedger ==
    ASSUME PInv, NEW h \in Handlers, Step(h)
    PROVE  LedgerStep
<1>1. CASE \/ SessionLook(h) \/ SessionLoad(h) \/ CreateCheck(h) \/ ConfirmLook(h)
           \/ ConfirmBooking(h) \/ FailLook(h) \/ FailBooking(h) \/ CancelFind(h)
           \/ ReleaseBooking(h) \/ RowGone(h)
  <2>1. UNCHANGED <<stripe, origin, settled>>
    BY <1>1 DEF SessionLook, SessionLoad, CreateCheck, ConfirmLook, ConfirmBooking, FailLook,
        FailBooking, CancelFind, ReleaseBooking, RowGone, WriteBooking, outside, hist
  <2>2. QED
    BY <2>1, QuietSteps
<1>2. CASE ProcessIntent(h)
  BY <1>2, OpeningStutters DEF ProcessIntent, PInv, Payable, hist
<1>3. QED
  BY <1>1, <1>2, InsertBooks, CompletingSettles, RefundingGivesBack, OtherPayments DEF Step

\* The handlers implement the ledger: the money of each session and each intent
\* moves in one order - paid, booked, settled, given back - and no step moves two.
THEOREM Implements == Spec => KeepsTheLedger
<1>1. Init => Accounting!Init
  BY EmptySeq DEF Init, Accounting!Init
<1>2. ASSUME PInv, [Next]_vars PROVE LedgerStep
  <2>1. ASSUME StripeStep PROVE LedgerStep
    <3>1. ASSUME NEW s \in Sessions, OpenSession(s) PROVE LedgerStep
      BY <1>2, <3>1, OpeningStutters DEF OpenSession, PInv, Payable, hist
    <3>2. ASSUME NEW i \in Payable, PayFails(i) PROVE LedgerStep
      BY <3>2, QuietSteps DEF PayFails, hist
    <3>3. QED
      BY <1>2, <2>1, <3>1, <3>2, PayingPays DEF StripeStep, PInv
  <2>2. ASSUME NEW h \in Handlers,
               \/ Calls(h) \/ StripeFails(h)
               \/ \E e \in EventKinds \X Payable : Deliver(h, e) \/ Redeliver(h, e)
        PROVE  LedgerStep
    BY <2>2, QuietSteps DEF Calls, StripeFails, Deliver, Redeliver, outside, hist
  <2>3. ASSUME NEW b \in DOMAIN bookings, Update(b) \/ Remove(b) PROVE LedgerStep
    BY <2>3, QuietSteps DEF Update, Remove, WriteBooking, outside
  <2>4. ASSUME Crash \/ UNCHANGED vars PROVE LedgerStep
    BY <2>4, QuietSteps DEF Crash, vars, outside, hist
  <2>5. QED
    BY <1>2, <2>1, <2>2, <2>3, <2>4, HandlerLedger DEF Next
<1>3. QED
  BY <1>1, <1>2, Inductive, PTL DEF Spec, KeepsTheLedger, Accounting!Spec, LedgerStep

\* What follows for the handlers from the ledger alone (LedgerProofs): nothing is
\* booked or settled that was not paid, no session is settled without its booking,
\* and money is given back only where a payment was COMPLETED.
Money == INSTANCE LedgerProofs WITH
    Accounts <- Payable,
    Seats <- Sessions,
    paid <- PaidAccounts,
    booked <- Booked,
    back <- GivenBack

\* Both hold of the sessions, intents and payments themselves.
THEOREM MoneyInOrder == Spec => [](Money!InOrder /\ Money!BackIsSettled)
<1>1. Amount \in Nat
  BY DEF Amount
<1>2. Money!Spec => [](Money!TypeOK /\ Money!InOrder /\ Money!BackIsSettled)
  BY <1>1, Money!LedgerInOrder
<1>3. (Accounting!Init => Money!Init) /\ (LedgerStep => [Money!Next]_(Money!ledger))
  BY DEF LedgerStep, Accounting!Init, Money!Init, Accounting!Next, Money!Next, Accounting!ledger, Money!ledger,
     Accounting!Pay, Money!Pay, Accounting!Book, Money!Book, Accounting!Settle, Money!Settle,
     Accounting!GiveBack, Money!GiveBack, PaidAccounts, Booked, GivenBack
<1>4. QED
  BY <1>2, <1>3, Implements, PTL DEF KeepsTheLedger, Accounting!Spec, Money!Spec, LedgerStep

=============================================================================
