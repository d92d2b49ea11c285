---------------------------- MODULE RoomsProofs ----------------------------
(***************************************************************************)
(* Proofs about Rooms, for any rooms, properties, rules and days: the      *)
(* inductive invariant RInv, the safety invariants and the action property *)
(* AvailabilityEditsShow.  Of every property that no order of Rooms has    *)
(* made unsure, RInv says that its flag is right or which call still owes  *)
(* it a write, and that no call is about to lower it over a room.          *)
(***************************************************************************)
EXTENDS Rooms, PricesProofs

-----------------------------------------------------------------------------
(***************************************************************************)
(* What the tables hold                                                    *)
(***************************************************************************)
Tables ==
    /\ room \in [Rooms -> {"new", "here", "gone"}] /\ IsFiniteSet(Here)
    /\ property \in [Rooms -> Properties]
    /\ bookable \subseteq Here
    /\ active \subseteq Properties /\ dynamic \subseteq Properties /\ unsure \subseteq Properties
    /\ blocked \subseteq Properties \X Days

RulesOK ==
    /\ rules \subseteq Rule /\ IsFiniteSet(rules)
    /\ \A x \in rules : x.room \in Here

StaysOK ==
    /\ stays \subseteq Stay /\ IsFiniteSet(stays) /\ Cardinality(stays) <= MaxStays

-----------------------------------------------------------------------------
(***************************************************************************)
(* The reads agree                                                         *)
(***************************************************************************)

\* What the search offers is free: both ask the same bookings and rules.
LEMMA OfferedFree == StaysOK /\ RulesOK => OfferedIsFree
<1> DEFINE guests(r, n) == {s \in CalendarStays(r, n) : s.st \in Occupying}
<1> SUFFICES ASSUME StaysOK, RulesOK, NEW r \in Here, NEW d \in Nights
             PROVE  /\ Offered(r, d[1], d[2]) =>
                          \A n \in d[1] .. d[2] - 1 :
                              CalendarOpen(r, n) /\ guests(r, n) = {} /\ CountedAvailable(r, n)
                    /\ RoomAvailable(r, d[1], d[2]) =>
                          \A n \in d[1] .. d[2] - 1 : \A s \in guests(r, n) : s.prop # property[r]
                    /\ ~ShownOccupied(r, d[1]) =>
                          \A s \in guests(r, d[1]) : s.st \in Firm => RoomsOf(s.prop) = {}
  BY DEF OfferedIsFree
<1> DEFINE from == d[1]
           to == d[2]
<1>1. from \in Nat /\ to \in Nat /\ from < to /\ from \in Days /\ to \in Days
  BY RoomsAssumption DEF Nights, Pairs, Days
<1>2. \A s \in stays : s.from \in Nat /\ s.to \in Nat
  BY RoomsAssumption DEF StaysOK, Stay, Days
<1>3. \A x \in rules : x.from \in Nat /\ x.to \in Nat
  BY RoomsAssumption DEF RulesOK, Rule, Days
<1> HIDE DEF from, to
<1>4. ASSUME Offered(r, from, to), NEW n \in from .. to - 1
      PROVE  CalendarOpen(r, n) /\ guests(r, n) = {} /\ CountedAvailable(r, n)
  <2>1. CalendarOpen(r, n)
    BY <1>1, <1>3, <1>4 DEF Offered, ClosedIn, CalendarOpen, Covers
  <2>2. \A s \in stays : s.room = r /\ s.st \in Occupying => ~(s.from < n + 1 /\ s.to > n)
    BY <1>1, <1>2, <1>4 DEF Offered, BookedIn, SearchedStatuses
  <2>3. CountedAvailable(r, n)
    BY <1>1, <1>4, <2>2 DEF Offered, Listed, Blocks, CountedAvailable
  <2>4. guests(r, n) = {}
    BY <1>1, <1>2, <2>2 DEF CalendarStays
  <2> QED BY <2>1, <2>3, <2>4
<1>5. ASSUME RoomAvailable(r, from, to), NEW n \in from .. to - 1, NEW s \in guests(r, n)
      PROVE  s.prop # property[r]
  BY <1>1, <1>2, <1>5 DEF RoomAvailable, CalendarStays
<1>6. ASSUME ~ShownOccupied(r, from), NEW s \in guests(r, from), s.st \in Firm
      PROVE  RoomsOf(s.prop) = {}
  BY <1>1, <1>2, <1>6 DEF ShownOccupied, CalendarStays, Firm
<1> HIDE DEF guests
<1> QED
  BY <1>4, <1>5, <1>6 DEF from, to

\* Create turns down what the search offers only for a stay that touches it.
LEMMA OfferedAccepted == StaysOK => OfferedIsAccepted
<1> SUFFICES ASSUME StaysOK, NEW r \in Rooms, NEW d \in Nights, Offered(r, d[1], d[2]),
                    NEW s \in Conflicts(r, d[1], d[2])
             PROVE  s.to = d[1] \/ s.from = d[2]
  BY DEF OfferedIsAccepted, Offered, Listed
<1>1. d[1] \in Nat /\ d[2] \in Nat
  BY RoomsAssumption DEF Nights, Pairs, Days
<1>2. s \in stays /\ s.from \in Nat /\ s.to \in Nat
  BY RoomsAssumption DEF StaysOK, Stay, Days, Conflicts
<1> QED
  BY <1>1, <1>2 DEF Offered, BookedIn, SearchedStatuses, Conflicts

\* What is free is offered, but for what touches its ends.
LEMMA FreeOffered == StaysOK /\ RulesOK => FreeIsOffered
<1> SUFFICES ASSUME StaysOK, RulesOK, NEW r \in Rooms, NEW d \in Nights,
                    Listed(r), ~Offered(r, d[1], d[2]),
                    \A n \in d[1] .. d[2] - 1 : CalendarOpen(r, n) /\ CountedAvailable(r, n)
             PROVE  \/ Blocks(r, d[1], d[2]) = {d[2]}
                    \/ \E x \in ClosedIn(r, d[1], d[2]) : x.to = d[1] \/ x.from = d[2] \/ x.from >= x.to
                    \/ \E s \in BookedIn(r, d[1], d[2]) : s.from >= s.to
  BY DEF FreeIsOffered
<1>1. PICK from, to : from = d[1] /\ to = d[2]
  OBVIOUS
<1>2. from \in Nat /\ to \in Nat /\ from < to
  BY <1>1, RoomsAssumption DEF Nights, Pairs, Days
<1>3. \A n \in from .. to - 1 : CalendarOpen(r, n) /\ CountedAvailable(r, n)
  BY <1>1
<1>4. CASE Blocks(r, from, to) # {}
  <2>1. \A n \in from .. to - 1 : n \notin Blocks(r, from, to)
    BY <1>3 DEF CountedAvailable, Blocks
  <2>2. Blocks(r, from, to) \subseteq from .. to
    BY DEF Blocks
  <2>3. Blocks(r, from, to) = {to}
    BY <1>2, <1>4, <2>1, <2>2
  <2> QED BY <1>1, <2>3
<1>5. CASE BookedIn(r, from, to) # {}
  <2>1. PICK s \in BookedIn(r, from, to) : TRUE
    BY <1>5
  <2>2. /\ s \in stays /\ s.from \in Nat /\ s.to \in Nat
        /\ s.room = r /\ s.st \in Occupying /\ s.from < to /\ s.to > from
    BY <2>1, RoomsAssumption DEF BookedIn, SearchedStatuses, StaysOK, Stay, Days
  <2>3. \A n \in from .. to - 1 : ~(s.from < n + 1 /\ s.to > n)
    BY <1>3, <2>2 DEF CountedAvailable
  <2>4. s.from >= s.to
    <3>1. CASE s.from <= from BY <1>2, <2>2, <2>3, <3>1
    <3>2. CASE s.from > from
      <4>1. s.from \in from .. to - 1 BY <1>2, <2>2, <3>2
      <4>2. ~(s.from < s.from + 1 /\ s.to > s.from) BY <2>3, <4>1
      <4> QED BY <2>2, <4>2
    <3> QED BY <1>2, <2>2, <3>1, <3>2
  <2> QED BY <1>1, <2>1, <2>4
<1>6. CASE ClosedIn(r, from, to) # {}
  <2>1. PICK x \in ClosedIn(r, from, to) : TRUE
    BY <1>6
  <2>2. /\ x \in rules /\ x.from \in Nat /\ x.to \in Nat
        /\ x.room = r /\ ~x.open /\ x.from <= to /\ x.to >= from
    BY <2>1, RoomsAssumption DEF ClosedIn, RulesOK, Rule, Days
  <2>3. \A n \in from .. to - 1 : ~(x.from <= n /\ n < x.to)
    BY <1>3, <2>2 DEF CalendarOpen, Covers
  <2>4. x.to = from \/ x.from = to \/ x.from >= x.to
    <3>1. CASE x.from <= from
      <4>1. from \in from .. to - 1 BY <1>2
      <4> QED BY <1>2, <2>2, <2>3, <3>1, <4>1
    <3>2. CASE x.from > from /\ x.from < to
      <4>1. x.from \in from .. to - 1 BY <1>2, <2>2, <3>2
      <4> QED BY <2>2, <2>3, <4>1
    <3> QED BY <1>2, <2>2, <3>1, <3>2
  <2> QED BY <1>1, <2>1, <2>4
<1> QED
  BY <1>1, <1>4, <1>5, <1>6 DEF Offered

-----------------------------------------------------------------------------
\* A refund is fair at every price, those below nothing included.
LEMMA AllFair ==
    ASSUME NEW total \in Int, NEW now \in Int, NEW checkIn \in Int, NEW p \in Policies
    PROVE  FairRefund(total, now, checkIn, p)
<1>1. CASE total < 0
  <2>1. RefundAmount(total, now, checkIn, p) <= 0
    BY <1>1, NegativeRefund
  <2> QED BY <1>1, <2>1 DEF FairRefund
<1>2. CASE total >= 0
  <2>1. total \in Nat
    BY <1>2
  <2> QED BY <1>2, <2>1, RefundFair DEF FairRefund
<1> QED BY <1>1, <1>2

\* So a cancellation gives back what is fair of any stay.
LEMMA RefundsFair == StaysOK => RefundIsFair
<1> SUFFICES ASSUME StaysOK PROVE RefundIsFair
  OBVIOUS
<1>1. ASSUME NEW s \in stays, NEW p \in Policies,
             NEW now \in {24 * (s.from - n) + h : n \in {0, 1, 5, 7}, h \in {0, 1}}
      PROVE  FairRefund(s.price, now, s.from, p)
  <2>1. s.price \in Int /\ s.from \in Int
    BY RoomsAssumption DEF StaysOK, Stay, Days
  <2>2. now \in Int
    BY <2>1
  <2> QED BY <2>1, <2>2, AllFair
<1> QED
  BY <1>1 DEF RefundIsFair

-----------------------------------------------------------------------------
(***************************************************************************)
(* Prices                                                                  *)
(***************************************************************************)

\* A night has a price under any rules of the room, and it is a natural number.
LEMMA NightPriced ==
    ASSUME RulesOK, NEW r \in Rooms, NEW found \in SUBSET rules, NEW d
    PROVE  NightPrices(r, found, d) # {} /\ NightPrices(r, found, d) \subseteq Nat
<1>1. Base[r] \in Nat
  BY RoomsAssumption
<1>2. \A x \in rules : PriceBy(x) \in Nat
  BY RoomsAssumption DEF RulesOK, Rule, PriceBy
<1> DEFINE covering == {x \in found : Covers(x, d)}
<1>3. NightPrices(r, found, d) = IF covering = {} THEN {Base[r]} ELSE {PriceBy(x) : x \in covering}
  BY DEF NightPrices
<1>4. covering \subseteq rules
  OBVIOUS
<1> HIDE DEF covering
<1> QED BY <1>1, <1>2, <1>3, <1>4

\* So has a stay, and create charges what its nights cost.
LEMMA ChargeIs ==
    ASSUME RulesOK, NEW r \in Rooms, NEW from \in Days, NEW to \in Days
    PROVE  /\ from <= to => NightlySubtotal(Chosen(ChargedPrices(r, from, to)), from, to) \in Nat
           /\ from <= to => Charge(r, from, to) \in Nat
           /\ Charge(r, from, to) \in Int
<1>1. from \in Nat /\ to \in Nat
  BY RoomsAssumption DEF Days
<1> DEFINE prices == ChargedPrices(r, from, to)
           chosen == Chosen(prices)
           subtotal == NightlySubtotal(chosen, from, to)
<1>2. \A d \in from .. to - 1 : chosen[d] \in Nat
  <2> SUFFICES ASSUME NEW d \in from .. to - 1 PROVE chosen[d] \in Nat
    OBVIOUS
  <2> DEFINE open == OpenRules(r, from, to)
             first == {x \in open : Covers(x, d) /\ \A y \in open : Covers(y, d) => x.from <= y.from}
  <2>1. DOMAIN prices = from .. to - 1 /\ prices[d] = NightPrices(r, first, d)
    BY DEF ChargedPrices
  <2>2. first \subseteq rules
    BY DEF OpenRules
  <2> HIDE DEF first, prices
  <2>3. prices[d] # {} /\ prices[d] \subseteq Nat
    BY <2>1, <2>2, NightPriced
  <2>4. chosen[d] = CHOOSE p \in prices[d] : TRUE
    BY <2>1 DEF Chosen
  <2> QED BY <2>3, <2>4
<1> HIDE DEF chosen
<1>3. from <= to => subtotal \in Nat
  BY <1>1, <1>2, SubtotalType
<1>4. from < to => Charge(r, from, to) = RoundDiv(subtotal * (to - from), to - from)
  BY <1>1 DEF Charge, TotalPrice, chosen
<1> HIDE DEF subtotal
<1>5. from < to => Charge(r, from, to) = subtotal
  <2> SUFFICES ASSUME from < to PROVE Charge(r, from, to) = subtotal
    OBVIOUS
  <2>1. to - from \in Nat \ {0} /\ subtotal \in Nat
    BY <1>1, <1>3
  <2> QED BY <1>4, <2>1, RoundedWhole
<1>6. from >= to => Charge(r, from, to) = Base[r] * (to - from)
  BY DEF Charge
<1>7. Base[r] \in Nat
  BY RoomsAssumption
<1>8. Base[r] * (to - from) \in Int /\ (from = to => Base[r] * (to - from) = 0)
  <2>1. to - from \in Int /\ (from = to => to - from = 0)
    BY <1>1
  <2> QED BY <1>7, <2>1
<1>9. from < to \/ from = to \/ from > to
  BY <1>1
<1> QED
  BY <1>1, <1>3, <1>5, <1>6, <1>8, <1>9 DEF subtotal, chosen

\* Where no night has two open rules the search and create find the same prices.
LEMMA PricesAgree ==
    ASSUME RulesOK, NEW r \in Here, NEW from \in Days, NEW to \in Days,
           \A n \in from .. to - 1 :
              Cardinality({x \in OpenRules(r, from, to) : Covers(x, n)}) <= 1
    PROVE  QuotedPrices(r, from, to) = ChargedPrices(r, from, to)
<1> DEFINE open == OpenRules(r, from, to)
<1>1. from \in Nat /\ to \in Nat
  BY RoomsAssumption DEF Days
<1>2. /\ open \subseteq rules
      /\ \A x \in open : x.room = r /\ x.from \in Nat
  BY RoomsAssumption DEF OpenRules, RulesOK, Rule, Days
<1> SUFFICES ASSUME NEW n \in from .. to - 1
             PROVE  QuotedPrices(r, from, to)[n] = ChargedPrices(r, from, to)[n]
  BY DEF QuotedPrices, ChargedPrices
<1> DEFINE priced == {x \in open : x.price # Null}
           first == {x \in open : Covers(x, n) /\ \A y \in open : Covers(y, n) => x.from <= y.from}
           C == {x \in open : Covers(x, n)}
<1>3. /\ QuotedPrices(r, from, to)[n] = NightPrices(r, priced, n)
      /\ ChargedPrices(r, from, to)[n] = NightPrices(r, first, n)
  BY DEF QuotedPrices, ChargedPrices
<1>4. C = {} \/ \E x : C = {x}
  <2>1. C \in SUBSET rules /\ IsFiniteSet(rules)
    BY <1>2 DEF RulesOK
  <2>2. Cardinality(C) <= 1
    OBVIOUS
  <2> HIDE DEF C
  <2>3. IsFiniteSet(C)
    BY <2>1, FS_Subset
  <2>4. Cardinality(C) \in Nat
    BY <2>3, FS_CardinalityType
  <2>5. Cardinality(C) = 0 \/ Cardinality(C) = 1
    BY <2>2, <2>4
  <2> QED BY <2>3, <2>5, FS_EmptySet, FS_Singleton
<1>5. {x \in priced : Covers(x, n)} = {x \in C : x.price # Null}
  OBVIOUS
<1>6. {x \in first : Covers(x, n)} = C
  <2> SUFFICES ASSUME NEW x \in C PROVE x \in first
    OBVIOUS
  <2>1. \A y \in C : y = x
    BY <1>4
  <2> QED BY <1>2, <2>1
<1>7. /\ NightPrices(r, priced, n) = IF {x \in C : x.price # Null} = {} THEN {Base[r]}
                                     ELSE {PriceBy(x) : x \in {x \in C : x.price # Null}}
      /\ NightPrices(r, first, n) = IF C = {} THEN {Base[r]} ELSE {PriceBy(x) : x \in C}
  BY <1>5, <1>6 DEF NightPrices
<1>8. CASE C = {}
  <2>1. {x \in C : x.price # Null} = {}
    BY <1>8
  <2> HIDE DEF C, priced, first
  <2> QED BY <1>3, <1>7, <1>8, <2>1
<1>9. CASE \E x : C = {x}
  <2>1. PICK x : C = {x}
    BY <1>9
  <2>2. x \in open /\ x.room = r
    BY <1>2, <2>1
  <2> HIDE DEF C, open, priced, first
  <2>3. NightPrices(r, first, n) = {PriceBy(x)}
    BY <1>7, <2>1
  <2>4. CASE x.price = Null
    <3>1. NightPrices(r, priced, n) = {Base[r]}
      BY <1>7, <2>1, <2>4
    <3> QED BY <2>2, <2>3, <2>4, <3>1, <1>3 DEF PriceBy
  <2>5. CASE x.price # Null
    <3>1. {y \in C : y.price # Null} = {x}
      BY <2>1, <2>5
    <3>2. NightPrices(r, priced, n) = {PriceBy(x)}
      BY <1>7, <3>1
    <3> QED BY <2>3, <3>2, <1>3
  <2> QED BY <2>4, <2>5
<1> QED
  BY <1>3, <1>4, <1>8, <1>9

\* The quote and the charge differ by the rounding of each night.
LEMMA QuoteCharged == RulesOK => QuoteIsCharged
<1> SUFFICES ASSUME RulesOK, NEW r \in Here, NEW d \in Nights,
                    \A n \in d[1] .. d[2] - 1 :
                       Cardinality({x \in OpenRules(r, d[1], d[2]) : Covers(x, n)}) <= 1
             PROVE  2 * (Quote(r, d[1], d[2]) * (d[2] - d[1]) - Charge(r, d[1], d[2]))
                        \in -(d[2] - d[1]) .. d[2] - d[1]
  BY DEF QuoteIsCharged
<1>1. PICK from, to : from = d[1] /\ to = d[2]
  OBVIOUS
<1>2. from \in Days /\ to \in Days /\ from \in Nat /\ to \in Nat /\ from < to
  BY <1>1, RoomsAssumption DEF Nights, Pairs, Days
<1>3. QuotedPrices(r, from, to) = ChargedPrices(r, from, to)
  BY <1>1, <1>2, PricesAgree
<1>4. PICK subtotal : subtotal = NightlySubtotal(Chosen(ChargedPrices(r, from, to)), from, to)
  OBVIOUS
<1>5. PICK nights \in Nat \ {0} : nights = to - from
  BY <1>2
<1>6. /\ Quote(r, from, to) = RoundDiv(subtotal, nights)
      /\ Charge(r, from, to) = RoundDiv(subtotal * nights, nights)
  BY <1>2, <1>3, <1>4, <1>5 DEF Quote, Charge, PerNight, TotalPrice
<1>7. subtotal \in Nat
  BY <1>2, <1>4, ChargeIs DEF Here
<1>8. Charge(r, from, to) = subtotal
  BY <1>6, <1>7, RoundedWhole
<1>9. PICK q : q = RoundDiv(subtotal, nights)
  OBVIOUS
<1>10. q \in Int /\ 2 * (nights * q) \in 2 * subtotal - nights + 1 .. 2 * subtotal + nights
  BY <1>7, <1>9, Rounded
<1>11. 2 * (q * nights - subtotal) \in -nights .. nights
  <2>1. nights * q = q * nights /\ nights * q \in Int
    BY <1>10
  <2> QED BY <1>7, <1>10, <2>1
<1> QED
  BY <1>1, <1>5, <1>6, <1>8, <1>9, <1>11

-----------------------------------------------------------------------------
(***************************************************************************)
(* What the calls know                                                     *)
(***************************************************************************)
CreateCall == [op : {"createRoom"}, pc : {"insert", "flag"}, prop : Properties]

RemoveCall == [op : {"removeRoom"}, pc : {"delete", "count", "unflag"}, prop : Properties, room : Rooms]

CallsOK ==
    /\ handler = [h \in Handlers |-> handler[h]]
    /\ calls \in 0 .. MaxCalls /\ workload \in Workloads
    /\ \A h \in Handlers :
        /\ handler[h].op = "createRoom" => handler[h] \in CreateCall
        /\ handler[h].op = "removeRoom" => handler[h] \in RemoveCall
        /\ handler[h].op = "seedRooms" => handler[h].prop \in Properties

AddsTo(h, p) == handler[h].op \in {"createRoom", "seedRooms"} /\ handler[h].prop = p

RemovesFrom(h, p) == handler[h].op = "removeRoom" /\ handler[h].prop = p

\* A room has come, and the flag is not written yet.
Flagging(h, p) == AddsTo(h, p) /\ handler[h].pc = "flag"

\* The script is to make a room.
Seeding(h, p) == AddsTo(h, p) /\ handler[h].pc = "create"

\* A room is gone, and what is left is to be counted or has been.
Counting(h, p) == RemovesFrom(h, p) /\ handler[h].pc \in {"count", "unflag"}

Unflagging(h, p) == RemovesFrom(h, p) /\ handler[h].pc = "unflag"

RaisedOnly(p) ==
    p \in dynamic => RoomsOf(p) # {} \/ \E h \in Handlers : Counting(h, p) \/ Seeding(h, p)

LoweredOnly(p) ==
    RoomsOf(p) # {} => p \in dynamic \/ \E h \in Handlers : Flagging(h, p) \/ Seeding(h, p)

ToBeLowered(p) == \A h \in Handlers : Unflagging(h, p) => RoomsOf(p) = {}

FlagOf(p) == RaisedOnly(p) /\ LoweredOnly(p) /\ ToBeLowered(p)

FlagOK == \A p \in Properties \ unsure : FlagOf(p)

RInv == CallsOK /\ Tables /\ RulesOK /\ StaysOK /\ FlagOK

-----------------------------------------------------------------------------
(***************************************************************************)
(* A call moves on                                                         *)
(***************************************************************************)
LEMMA CallWritten ==
    ASSUME handler = [g \in Handlers |-> handler[g]], NEW h \in Handlers, NEW c,
           handler' = [handler EXCEPT ![h] = c]
    PROVE  /\ handler' = [g \in Handlers |-> handler'[g]]
           /\ handler'[h] = c
           /\ \A g \in Handlers \ {h} : handler'[g] = handler[g]
OBVIOUS

\* A handler without a call.
LEMMA IdleKnows == Idle.op = "none" /\ Idle.pc = "idle"
BY DEF Idle

\* A new call, the next step of one or its return, if it knows what it should.
LEMMA CallKept ==
    ASSUME CallsOK, NEW h \in Handlers, NEW c, handler' = [handler EXCEPT ![h] = c],
           calls' \in 0 .. MaxCalls, workload' = workload,
           c.op = "createRoom" => c \in CreateCall,
           c.op = "removeRoom" => c \in RemoveCall,
           c.op = "seedRooms" => c.prop \in Properties
    PROVE  CallsOK'
<1>1. /\ handler' = [g \in Handlers |-> handler'[g]]
      /\ handler'[h] = c
      /\ \A g \in Handlers \ {h} : handler'[g] = handler[g]
  BY CallWritten DEF CallsOK
<1>2. ASSUME NEW g \in Handlers
      PROVE  /\ handler'[g].op = "createRoom" => handler'[g] \in CreateCall
             /\ handler'[g].op = "removeRoom" => handler'[g] \in RemoveCall
             /\ handler'[g].op = "seedRooms" => handler'[g].prop \in Properties
  <2>1. CASE g = h BY <1>1, <2>1
  <2>2. CASE g # h
    <3>1. handler'[g] = handler[g] BY <1>1, <2>2
    <3> QED BY <3>1 DEF CallsOK
  <2> QED BY <2>1, <2>2
<1>3. CreateCall' = CreateCall /\ RemoveCall' = RemoveCall
  BY DEF CreateCall, RemoveCall
<1> HIDE DEF CreateCall, RemoveCall
<1> QED BY <1>1, <1>2, <1>3 DEF CallsOK

\* A call that ends.
LEMMA ReturnKept ==
    ASSUME CallsOK, NEW h \in Handlers, Return(h)
    PROVE  CallsOK' /\ handler'[h] = Idle /\ \A g \in Handlers \ {h} : handler'[g] = handler[g]
<1>1. handler' = [handler EXCEPT ![h] = Idle] /\ calls' \in 0 .. MaxCalls /\ workload' = workload
  BY DEF Return, Goto, CallsOK
<1> QED
  BY <1>1, CallWritten, CallKept, IdleKnows DEF CallsOK

-----------------------------------------------------------------------------
(***************************************************************************)
(* The flag                                                                *)
(***************************************************************************)

\* What the other calls owe the flag of p stays as it is.
LEMMA OthersOwe ==
    ASSUME NEW p, NEW h \in Handlers, \A g \in Handlers \ {h} : handler'[g] = handler[g]
    PROVE  \A g \in Handlers \ {h} : /\ Flagging(g, p)' <=> Flagging(g, p)
                                     /\ Seeding(g, p)' <=> Seeding(g, p)
                                     /\ Counting(g, p)' <=> Counting(g, p)
                                     /\ Unflagging(g, p)' <=> Unflagging(g, p)
BY DEF AddsTo, RemovesFrom, Flagging, Seeding, Counting, Unflagging

\* Where rooms and flag of p stay, it is enough that no debt is lost and that
\* nobody has newly counted no room, unless there is none.
LEMMA FlagStays ==
    ASSUME NEW p, FlagOf(p), NEW h \in Handlers,
           \A g \in Handlers \ {h} : handler'[g] = handler[g],
           RoomsOf(p)' = RoomsOf(p), p \in dynamic' <=> p \in dynamic,
           Flagging(h, p) => Flagging(h, p)', Seeding(h, p) => Seeding(h, p)',
           Counting(h, p) => Counting(h, p)' \/ RoomsOf(p) # {},
           Unflagging(h, p)' => RoomsOf(p) = {}
    PROVE  FlagOf(p)'
<1>1. \A g \in Handlers : /\ Flagging(g, p) => Flagging(g, p)'
                          /\ Seeding(g, p) => Seeding(g, p)'
                          /\ Counting(g, p) => Counting(g, p)' \/ RoomsOf(p) # {}
                          /\ Unflagging(g, p)' => Unflagging(g, p) \/ RoomsOf(p) = {}
  BY OthersOwe
<1> QED
  BY <1>1 DEF FlagOf, RaisedOnly, LoweredOnly, ToBeLowered

\* A call that is about another property, or about no room.
LEMMA FlagElsewhere ==
    ASSUME NEW p, FlagOf(p), NEW h \in Handlers,
           \A g \in Handlers \ {h} : handler'[g] = handler[g],
           ~AddsTo(h, p), ~RemovesFrom(h, p), ~RemovesFrom(h, p)',
           RoomsOf(p)' = RoomsOf(p), p \in dynamic' <=> p \in dynamic
    PROVE  FlagOf(p)'
BY FlagStays DEF Flagging, Seeding, Counting, Unflagging

\* A step that moves no call and changes no room leaves the flag as it was.
LEMMA FlagUntouched ==
    ASSUME FlagOK, handler' = handler, room' = room, property' = property, dynamic' = dynamic,
           unsure' = unsure
    PROVE  FlagOK'
BY DEF FlagOK, FlagOf, RaisedOnly, LoweredOnly, ToBeLowered, AddsTo,
       RemovesFrom, Flagging, Seeding, Counting, Unflagging, RoomsOf, Here

\* A removal that is to lower the flag is one that the marks look for.
LEMMA LoweringIs ==
    ASSUME NEW p, NEW h \in Handlers, Unflagging(h, p)
    PROVE  Lowering(p)
BY IdleKnows DEF Unflagging, RemovesFrom, Lowering, At, Busy

\* A call that begins has written nothing yet.
LEMMA FlagBegun ==
    ASSUME CallsOK, FlagOK, NEW h \in Handlers, NEW c, Begin(h, c), UNCHANGED roomVars,
           c.op \in RoomOps, c.pc \in {"insert", "delete", "clear", "create"}
    PROVE  FlagOK'
<1>1. /\ handler[h] = Idle
      /\ handler'[h] = c
      /\ \A g \in Handlers \ {h} : handler'[g] = handler[g]
  BY CallWritten DEF Begin, Busy, CallsOK
<1> SUFFICES ASSUME NEW p \in Properties \ unsure PROVE FlagOf(p)'
  BY DEF FlagOK, roomVars
<1>2. FlagOf(p) /\ RoomsOf(p)' = RoomsOf(p) /\ (p \in dynamic' <=> p \in dynamic)
  BY DEF FlagOK, RoomsOf, Here, roomVars, tables
<1>3. ~Flagging(h, p) /\ ~Seeding(h, p) /\ ~Counting(h, p) /\ ~Unflagging(h, p)'
  BY <1>1, IdleKnows DEF AddsTo, RemovesFrom, Flagging, Seeding, Counting, Unflagging
<1> QED
  BY <1>1, <1>2, <1>3, FlagStays

\* A room is added by a call that is to raise the flag, or to add another; the
\* property is sure still if nobody is to lower its flag.
LEMMA FlagAdded ==
    ASSUME FlagOK, NEW h \in Handlers, NEW r \in Rooms, r \notin Here,
           \A g \in Handlers \ {h} : handler'[g] = handler[g],
           handler[h].op \in {"createRoom", "seedRooms"}, handler'[h].op = handler[h].op,
           handler'[h].prop = handler[h].prop, handler'[h].pc \in {"flag", "create"},
           Here' = Here \cup {r}, property \in [Rooms -> Properties],
           property' = [property EXCEPT ![r] = handler[h].prop],
           dynamic' = dynamic, unsure' = Overtaken(handler[h].prop)
    PROVE  FlagOK'
<1> SUFFICES ASSUME NEW p \in Properties \ unsure' PROVE FlagOf(p)'
  BY DEF FlagOK
<1>1. FlagOf(p)
  BY DEF FlagOK, Overtaken
<1>2. RoomsOf(p)' = IF handler[h].prop = p THEN RoomsOf(p) \cup {r} ELSE RoomsOf(p)
  BY DEF RoomsOf, Here
<1>3. CASE handler[h].prop # p
  <2>1. ~AddsTo(h, p) /\ ~RemovesFrom(h, p) /\ ~RemovesFrom(h, p)'
    BY <1>3 DEF AddsTo, RemovesFrom
  <2> QED BY <1>1, <1>2, <1>3, <2>1, FlagElsewhere
<1>4. CASE handler[h].prop = p
  <2>1. ~Lowering(p)
    BY <1>4 DEF Overtaken
  <2>2. RoomsOf(p)' # {} /\ (Flagging(h, p)' \/ Seeding(h, p)') /\ ~Unflagging(h, p)'
    BY <1>2, <1>4 DEF Flagging, Seeding, AddsTo, Unflagging, RemovesFrom
  <2>3. \A g \in Handlers : ~Unflagging(g, p)'
    BY <2>1, <2>2, LoweringIs, OthersOwe
  <2> QED BY <2>2, <2>3 DEF FlagOf, RaisedOnly, LoweredOnly, ToBeLowered
<1> QED BY <1>3, <1>4

\* The flag is raised; the property is sure still if it has a room.
LEMMA FlagRaised ==
    ASSUME FlagOK, NEW h \in Handlers, NEW q, Raise(q),
           \A g \in Handlers \ {h} : handler'[g] = handler[g],
           AddsTo(h, q), handler'[h] = Idle
    PROVE  FlagOK'
<1> SUFFICES ASSUME NEW p \in Properties \ unsure' PROVE FlagOf(p)'
  BY DEF FlagOK
<1>1. FlagOf(p) /\ RoomsOf(p)' = RoomsOf(p)
  BY DEF FlagOK, RoomsOf, Here, Raise
<1>2. ~RemovesFrom(h, p)' /\ ~Unflagging(h, p)'
  BY IdleKnows DEF RemovesFrom, Unflagging
<1>3. CASE q # p
  <2>1. ~AddsTo(h, p) /\ ~RemovesFrom(h, p) /\ (p \in dynamic' <=> p \in dynamic)
    BY <1>3 DEF AddsTo, RemovesFrom, Raise
  <2> QED BY <1>1, <1>2, <2>1, FlagElsewhere
<1>4. CASE q = p
  <2>1. p \in dynamic' /\ RoomsOf(p) # {}
    BY <1>4 DEF Raise
  <2>2. \A g \in Handlers : Unflagging(g, p)' => Unflagging(g, p)
    BY <1>2, OthersOwe
  <2> QED BY <1>1, <2>1, <2>2 DEF FlagOf, RaisedOnly, LoweredOnly, ToBeLowered
<1> QED BY <1>3, <1>4

\* A property that a room leaves is sure still if others stay or the flag is down.
LEMMA FlagLeaves ==
    ASSUME NEW p, FlagOf(p), NEW h \in Handlers, NEW r, p \notin Deserted(r), p \in Properties,
           \A g \in Handlers \ {h} : handler'[g] = handler[g],
           RoomsOf(p)' = RoomsOf(p) \ {r}, p \in dynamic' <=> p \in dynamic,
           Flagging(h, p) => Flagging(h, p)', Seeding(h, p) => Seeding(h, p)',
           Counting(h, p) => Counting(h, p)', Unflagging(h, p)' => Unflagging(h, p)
    PROVE  FlagOf(p)'
<1>1. \A g \in Handlers : /\ Flagging(g, p) => Flagging(g, p)'
                          /\ Seeding(g, p) => Seeding(g, p)'
                          /\ Counting(g, p) => Counting(g, p)'
                          /\ Unflagging(g, p)' => Unflagging(g, p)
  BY OthersOwe
<1>2. p \in dynamic /\ RoomsOf(p)' = {} => RoomsOf(p) = {}
  BY DEF Deserted
<1> QED
  BY <1>1, <1>2 DEF FlagOf, RaisedOnly, LoweredOnly, ToBeLowered

\* A room is deleted by a call that is to count the rest, in the property where it
\* has found the room.
LEMMA FlagDeleted ==
    ASSUME FlagOK, NEW h \in Handlers, NEW r \in Rooms,
           \A g \in Handlers \ {h} : handler'[g] = handler[g],
           handler[h].op = "removeRoom", handler[h].pc = "delete", handler'[h].op = "removeRoom",
           handler'[h].prop = handler[h].prop, handler'[h].pc = "count",
           Here' = Here \ {r}, property' = property, dynamic' = dynamic,
           unsure' = unsure \cup (Deserted(r) \ {handler[h].prop})
    PROVE  FlagOK'
<1> SUFFICES ASSUME NEW p \in Properties \ unsure' PROVE FlagOf(p)'
  BY DEF FlagOK
<1>1. FlagOf(p) /\ RoomsOf(p)' = RoomsOf(p) \ {r}
  BY DEF FlagOK, RoomsOf
<1>2. /\ ~Flagging(h, p) /\ ~Seeding(h, p) /\ ~Counting(h, p) /\ ~Unflagging(h, p)'
      /\ (handler[h].prop = p => Counting(h, p)')
  BY DEF AddsTo, RemovesFrom, Flagging, Seeding, Counting, Unflagging
<1>3. CASE handler[h].prop # p
  <2>1. p \notin Deserted(r)
    BY <1>3
  <2> QED BY <1>1, <1>2, <2>1, FlagLeaves
<1>4. CASE handler[h].prop = p
  <2>1. \A g \in Handlers : /\ Flagging(g, p) => Flagging(g, p)'
                            /\ Seeding(g, p) => Seeding(g, p)'
                            /\ Unflagging(g, p)' => Unflagging(g, p)
    BY <1>2, OthersOwe
  <2> QED BY <1>1, <1>2, <1>4, <2>1 DEF FlagOf, RaisedOnly, LoweredOnly, ToBeLowered
<1> QED BY <1>3, <1>4

\* The rest is counted: nothing is left and the flag is to go, or the call ends.
LEMMA FlagCounted ==
    ASSUME FlagOK, NEW h \in Handlers,
           \A g \in Handlers \ {h} : handler'[g] = handler[g],
           handler[h].op = "removeRoom", handler[h].pc = "count",
           IF RoomsOf(handler[h].prop) = {}
           THEN handler'[h].op = "removeRoom" /\ handler'[h].prop = handler[h].prop
                /\ handler'[h].pc = "unflag"
           ELSE handler'[h] = Idle,
           Here' = Here, property' = property, dynamic' = dynamic, unsure' = unsure
    PROVE  FlagOK'
<1> SUFFICES ASSUME NEW p \in Properties \ unsure PROVE FlagOf(p)'
  BY DEF FlagOK
<1>1. FlagOf(p) /\ RoomsOf(p)' = RoomsOf(p)
  BY DEF FlagOK, RoomsOf
<1>2. ~Flagging(h, p) /\ ~Seeding(h, p)
  BY DEF AddsTo, Flagging, Seeding
<1>3. Unflagging(h, p)' => RoomsOf(p) = {}
  BY IdleKnows DEF Unflagging, RemovesFrom
<1>4. Counting(h, p) => Counting(h, p)' \/ RoomsOf(p) # {}
  BY DEF Counting, RemovesFrom
<1> QED
  BY <1>1, <1>2, <1>3, <1>4, FlagStays

\* The flag is lowered by a call that has counted no room.
LEMMA FlagLowered ==
    ASSUME FlagOK, NEW h \in Handlers,
           \A g \in Handlers \ {h} : handler'[g] = handler[g],
           handler[h].op = "removeRoom", handler[h].pc = "unflag", handler'[h] = Idle,
           Here' = Here, property' = property, dynamic' = dynamic \ {handler[h].prop}, unsure' = unsure
    PROVE  FlagOK'
<1> SUFFICES ASSUME NEW p \in Properties \ unsure PROVE FlagOf(p)'
  BY DEF FlagOK
<1>1. FlagOf(p) /\ RoomsOf(p)' = RoomsOf(p)
  BY DEF FlagOK, RoomsOf
<1>2. ~AddsTo(h, p) /\ ~RemovesFrom(h, p)'
  BY IdleKnows DEF AddsTo, RemovesFrom
<1>3. CASE handler[h].prop # p
  <2>1. ~RemovesFrom(h, p) /\ (p \in dynamic' <=> p \in dynamic)
    BY <1>3 DEF RemovesFrom
  <2> QED BY <1>1, <1>2, <2>1, FlagElsewhere
<1>4. CASE handler[h].prop = p
  <2>1. Unflagging(h, p)
    BY <1>4 DEF Unflagging, RemovesFrom
  <2>2. RoomsOf(p) = {} /\ p \notin dynamic'
    BY <1>1, <1>4, <2>1 DEF FlagOf, ToBeLowered
  <2> QED BY <1>1, <2>2 DEF FlagOf, RaisedOnly, LoweredOnly, ToBeLowered
<1> QED BY <1>3, <1>4

\* A call that has changed nothing ends.
LEMMA FlagLeft ==
    ASSUME FlagOK, NEW h \in Handlers,
           \A g \in Handlers \ {h} : handler'[g] = handler[g],
           handler[h].op = "removeRoom", handler[h].pc = "delete", handler'[h] = Idle,
           Here' = Here, property' = property, dynamic' = dynamic, unsure' = unsure
    PROVE  FlagOK'
<1> SUFFICES ASSUME NEW p \in Properties \ unsure PROVE FlagOf(p)'
  BY DEF FlagOK
<1>1. FlagOf(p) /\ RoomsOf(p)' = RoomsOf(p)
  BY DEF FlagOK, RoomsOf
<1>2. ~Flagging(h, p) /\ ~Seeding(h, p) /\ ~Counting(h, p) /\ ~Unflagging(h, p)'
  BY IdleKnows DEF AddsTo, RemovesFrom, Seeding, Counting, Flagging, Unflagging
<1> QED
  BY <1>1, <1>2, FlagStays

\* A room moves: what it leaves and where it comes is marked if the flag is wrong then.
LEMMA FlagMoved ==
    ASSUME FlagOK, NEW r \in Rooms, NEW q \in Properties, MoveRoom(r, q),
           handler' = handler, room' = room, dynamic' = dynamic,
           property \in [Rooms -> Properties], q # property[r], r \in Here
    PROVE  FlagOK'
<1> SUFFICES ASSUME NEW p \in Properties \ unsure' PROVE FlagOf(p)'
  BY DEF FlagOK
<1>1. FlagOf(p) /\ p \notin Deserted(r)
  BY DEF FlagOK, MoveRoom, Overtaken
<1>2. RoomsOf(p)' = IF p = q THEN RoomsOf(p) \cup {r} ELSE RoomsOf(p) \ {r}
  BY DEF RoomsOf, Here, MoveRoom
<1>3. \A h \in Handlers : /\ Flagging(h, p)' <=> Flagging(h, p)
                          /\ Seeding(h, p)' <=> Seeding(h, p)
                          /\ Counting(h, p)' <=> Counting(h, p)
                          /\ Unflagging(h, p)' <=> Unflagging(h, p)
  BY DEF AddsTo, RemovesFrom, Flagging, Seeding, Counting, Unflagging
<1>4. CASE p = q
  <2>1. p \in dynamic /\ ~Lowering(p)
    BY <1>4 DEF MoveRoom, Overtaken
  <2>2. \A h \in Handlers : ~Unflagging(h, p)
    BY <2>1, LoweringIs
  <2> QED BY <1>2, <1>3, <1>4, <2>1, <2>2 DEF FlagOf, RaisedOnly, LoweredOnly, ToBeLowered
<1>5. CASE p # q
  <2>1. p \in dynamic /\ RoomsOf(p)' = {} => RoomsOf(p) = {}
    BY <1>1, <1>2, <1>5 DEF Deserted
  <2> QED BY <1>1, <1>2, <1>3, <1>5, <2>1 DEF FlagOf, RaisedOnly, LoweredOnly, ToBeLowered
<1> QED BY <1>4, <1>5

\* A client writes the flag; the property is marked if it is wrong then.
LEMMA FlagSet ==
    ASSUME FlagOK, NEW q \in Properties, NEW up \in BOOLEAN,
           handler' = handler, room' = room, property' = property,
           dynamic' = IF up THEN dynamic \cup {q} ELSE dynamic \ {q},
           unsure' = IF up = (RoomsOf(q) # {}) THEN unsure ELSE unsure \cup {q}
    PROVE  FlagOK'
<1> SUFFICES ASSUME NEW p \in Properties \ unsure' PROVE FlagOf(p)'
  BY DEF FlagOK
<1>1. FlagOf(p) /\ RoomsOf(p)' = RoomsOf(p)
  BY DEF FlagOK, RoomsOf, Here
<1>2. \A h \in Handlers : /\ Flagging(h, p)' <=> Flagging(h, p)
                          /\ Seeding(h, p)' <=> Seeding(h, p)
                          /\ Counting(h, p)' <=> Counting(h, p)
                          /\ Unflagging(h, p)' <=> Unflagging(h, p)
  BY DEF AddsTo, RemovesFrom, Flagging, Seeding, Counting, Unflagging
<1>3. CASE p # q
  <2>1. p \in dynamic' <=> p \in dynamic
    BY <1>3
  <2> QED BY <1>1, <1>2, <2>1 DEF FlagOf, RaisedOnly, LoweredOnly, ToBeLowered
<1>4. CASE p = q
  <2>1. p \in dynamic' <=> RoomsOf(p) # {}
    BY <1>4
  <2> QED BY <1>1, <1>2, <2>1 DEF FlagOf, RaisedOnly, LoweredOnly, ToBeLowered
<1> QED BY <1>3, <1>4

-----------------------------------------------------------------------------
(***************************************************************************)
(* Each action keeps the invariant                                         *)
(***************************************************************************)

\* A room that is made.
LEMMA RoomMade ==
    ASSUME Tables, RulesOK, StaysOK, NEW r \in Rooms, NEW p \in Properties, NEW new \in SUBSET {r},
           room' = [room EXCEPT ![r] = "here"], property' = [property EXCEPT ![r] = p],
           bookable' = bookable \cup new, unsure' = Overtaken(p),
           UNCHANGED <<active, dynamic, rules, stays, blocked>>
    PROVE  Here' = Here \cup {r} /\ Tables' /\ RulesOK' /\ StaysOK'
<1>1. Here' = Here \cup {r} /\ room' \in [Rooms -> {"new", "here", "gone"}]
  BY DEF Here, Tables
<1>2. IsFiniteSet(Here \cup {r})
  BY FS_AddElement DEF Tables
<1>3. property' \in [Rooms -> Properties] /\ unsure' \subseteq Properties
  BY DEF Tables, Overtaken
<1>4. Tables'
  BY <1>1, <1>2, <1>3 DEF Tables
<1>5. RulesOK'
  BY <1>1 DEF RulesOK, Rule, Days
<1>6. StaysOK'
  BY DEF StaysOK, Stay, Days
<1> QED BY <1>1, <1>4, <1>5, <1>6

\* Rooms that go, and their rules with them.
LEMMA RoomsGone ==
    ASSUME Tables, RulesOK, StaysOK, NEW gone \in SUBSET Rooms,
           room' \in [Rooms -> {"new", "here", "gone"}], Here' = Here \ gone,
           bookable' = bookable \ gone, rules' = {x \in rules : x.room \notin gone},
           unsure' \subseteq Properties, UNCHANGED <<property, active, dynamic, stays, blocked>>
    PROVE  Tables' /\ RulesOK' /\ StaysOK'
<1>1. IsFiniteSet(Here \ gone) /\ IsFiniteSet(rules')
  <2>1. Here \ gone \in SUBSET Here /\ rules' \in SUBSET rules
    OBVIOUS
  <2> QED BY <2>1, FS_Subset DEF Tables, RulesOK
<1>2. Tables'
  BY <1>1 DEF Tables
<1>3. RulesOK'
  BY <1>1 DEF RulesOK, Rule, Days
<1>4. StaysOK'
  BY DEF StaysOK, Stay, Days
<1> QED BY <1>2, <1>3, <1>4

\* A step that writes no table leaves the tables in order.
LEMMA DataUntouched ==
    ASSUME Tables, RulesOK, StaysOK, room' = room, property' = property,
           bookable' = bookable, active' = active,
           rules' = rules, stays' = stays, blocked' = blocked,
           dynamic' \subseteq Properties, unsure' \subseteq Properties
    PROVE  Tables' /\ RulesOK' /\ StaysOK' /\ Here' = Here
<1>1. Here' = Here BY DEF Here
<1> QED BY <1>1 DEF Tables, RulesOK, StaysOK, Rule, Stay, Days

\* create and remove of a room begin.
LEMMA Begun ==
    ASSUME RInv, NEW h \in Handlers, NEW p \in Properties, CreateRoom(h, p)
    PROVE  RInv'
<1> DEFINE c == [op |-> "createRoom", pc |-> "insert", prop |-> p]
<1>1. Begin(h, c) /\ UNCHANGED roomVars BY DEF CreateRoom
<1>2. c \in CreateCall /\ c.op = "createRoom" /\ c.pc = "insert" /\ c.prop = p
  BY DEF CreateCall
<1> HIDE DEF c
<1>3. handler' = [handler EXCEPT ![h] = c] /\ workload' = workload /\ calls' \in 0 .. MaxCalls
  BY <1>1, <1>2, CallsAssumption DEF Begin, Asked, RInv, CallsOK
<1>4. CallsOK'
  BY <1>2, <1>3, CallKept DEF RInv
<1>5. FlagOK'
  BY <1>1, <1>2, FlagBegun DEF RInv, RoomOps
<1> QED
  BY <1>1, <1>4, <1>5, DataUntouched DEF RInv, roomVars, tables, Tables

\* The removal of a room begins; nothing is written yet.
LEMMA BegunRemoval ==
    ASSUME RInv, NEW h \in Handlers, NEW r \in Rooms, RemoveRoom(h, r)
    PROVE  RInv'
<1> DEFINE c == [op |-> "removeRoom", pc |-> "delete", prop |-> property[r], room |-> r]
<1>1. Begin(h, c) /\ UNCHANGED roomVars BY DEF RemoveRoom
<1>2. c \in RemoveCall /\ c.op = "removeRoom" /\ c.pc = "delete"
  BY DEF RInv, Tables, RemoveCall
<1> HIDE DEF c
<1>3. handler' = [handler EXCEPT ![h] = c] /\ workload' = workload /\ calls' \in 0 .. MaxCalls
  BY <1>1, <1>2, CallsAssumption DEF Begin, Asked, RInv, CallsOK
<1>4. CallsOK'
  BY <1>2, <1>3, CallKept DEF RInv
<1>5. FlagOK'
  BY <1>1, <1>2, FlagBegun DEF RInv, RoomOps
<1> QED
  BY <1>1, <1>4, <1>5, DataUntouched DEF RInv, roomVars, tables, Tables

\* create inserts the room, then raises the flag of its property.
LEMMA Inserted ==
    ASSUME RInv, NEW h \in Handlers, InsertRoom(h)
    PROVE  RInv'
<1> DEFINE c == [handler[h] EXCEPT !.pc = "flag"]
<1>1. PICK r \in Rooms :
        /\ room[r] = "new"
        /\ room' = [room EXCEPT ![r] = "here"]
        /\ property' = [property EXCEPT ![r] = handler[h].prop]
        /\ \E new \in SUBSET {r} : bookable' = bookable \cup new
  BY DEF InsertRoom
<1>2. handler[h] \in CreateCall
  BY DEF InsertRoom, At, RInv, CallsOK
<1>3. /\ c \in CreateCall /\ c.op = "createRoom" /\ c.pc = "flag" /\ c.prop = handler[h].prop
      /\ handler[h].prop \in Properties
  BY <1>2 DEF CreateCall
<1>4. /\ Goto(h, c) /\ handler[h].op = "createRoom" /\ unsure' = Overtaken(handler[h].prop)
      /\ UNCHANGED <<active, dynamic, rules, stays, blocked>>
  BY DEF InsertRoom, At
<1> HIDE DEF c
<1>5. /\ handler' = [handler EXCEPT ![h] = c] /\ workload' = workload /\ calls' \in 0 .. MaxCalls
      /\ handler = [g \in Handlers |-> handler[g]]
  BY <1>4 DEF Goto, RInv, CallsOK
<1>6. CallsOK'
  BY <1>3, <1>5, CallKept DEF RInv
<1>7. Here' = Here \cup {r} /\ Tables' /\ RulesOK' /\ StaysOK'
  <2>1. PICK new \in SUBSET {r} : bookable' = bookable \cup new
    BY <1>1
  <2> QED BY <1>1, <1>3, <1>4, <2>1, RoomMade DEF RInv
<1>8. handler'[h] = c /\ \A g \in Handlers \ {h} : handler'[g] = handler[g]
  BY <1>5, CallWritten
<1>9. r \notin Here /\ property \in [Rooms -> Properties]
  BY <1>1 DEF Here, RInv, Tables
<1>10. FlagOK'
  BY <1>1, <1>3, <1>4, <1>7, <1>8, <1>9, FlagAdded DEF RInv
<1> QED
  BY <1>6, <1>7, <1>10 DEF RInv

\* The flag of the property is raised for a new room.
LEMMA Raised ==
    ASSUME RInv, NEW h \in Handlers, RaiseFlag(h)
    PROVE  RInv'
<1>1. handler[h].op = "createRoom" /\ handler[h].pc = "flag" /\ handler[h].prop \in Properties
  BY DEF RaiseFlag, At, RInv, CallsOK, CreateCall
<1>2. CallsOK' /\ handler'[h] = Idle /\ \A g \in Handlers \ {h} : handler'[g] = handler[g]
  BY ReturnKept DEF RaiseFlag, RInv
<1>3. Tables' /\ RulesOK' /\ StaysOK' /\ Here' = Here
  BY <1>1, DataUntouched DEF RaiseFlag, Raise, RInv, Tables
<1>4. AddsTo(h, handler[h].prop)
  BY <1>1 DEF AddsTo
<1>5. FlagOK'
  BY <1>1, <1>2, <1>3, <1>4, FlagRaised DEF RaiseFlag, RInv
<1> QED
  BY <1>2, <1>3, <1>5 DEF RInv

\* remove deletes the room, counts those left, then lowers the flag.
LEMMA Deleted ==
    ASSUME RInv, NEW h \in Handlers, DeleteRoom(h)
    PROVE  RInv'
<1>1. handler[h].op = "removeRoom" /\ handler[h].pc = "delete" /\ handler[h] \in RemoveCall
  BY DEF DeleteRoom, At, RInv, CallsOK
<1>2. PICK r \in Rooms : r = handler[h].room
  BY <1>1 DEF RemoveCall
<1>3. CASE r \in Here
  <2> DEFINE c == [handler[h] EXCEPT !.pc = "count"]
  <2>1. /\ room' = [room EXCEPT ![r] = "gone"]
        /\ bookable' = bookable \ {r}
        /\ rules' = {x \in rules : x.room # r}
        /\ unsure' = unsure \cup (Deserted(r) \ {handler[h].prop})
        /\ Goto(h, c)
        /\ UNCHANGED <<property, active, dynamic, stays, blocked>>
    BY <1>2, <1>3 DEF DeleteRoom
  <2>2. c \in RemoveCall /\ c.op = "removeRoom" /\ c.pc = "count" /\ c.prop = handler[h].prop /\ c.room = r
    BY <1>1, <1>2 DEF RemoveCall
  <2> HIDE DEF c
  <2>3. /\ handler' = [handler EXCEPT ![h] = c] /\ workload' = workload /\ calls' \in 0 .. MaxCalls
        /\ handler = [g \in Handlers |-> handler[g]]
    BY <2>1 DEF Goto, RInv, CallsOK
  <2>4. CallsOK'
    BY <1>1, <1>2, <2>2, <2>3, CallKept DEF RInv
  <2>5. handler'[h] = c /\ \A g \in Handlers \ {h} : handler'[g] = handler[g]
    BY <2>3, CallWritten
  <2>6. Here' = Here \ {r} /\ room' \in [Rooms -> {"new", "here", "gone"}]
    BY <2>1 DEF Here, RInv, Tables
  <2>7. Tables' /\ RulesOK' /\ StaysOK'
    <3>1. /\ rules' = {x \in rules : x.room \notin {r}} /\ {r} \in SUBSET Rooms
          /\ unsure' \subseteq Properties
      BY <2>1 DEF Deserted, RInv, Tables
    <3> QED BY <2>1, <2>6, <3>1, RoomsGone DEF RInv
  <2>8. FlagOK'
    BY <1>1, <1>2, <2>1, <2>2, <2>5, <2>6, FlagDeleted DEF RInv
  <2> QED BY <2>4, <2>7, <2>8 DEF RInv
<1>4. CASE r \notin Here
  <2>1. Return(h) /\ UNCHANGED roomVars
    BY <1>2, <1>4 DEF DeleteRoom, roomVars, tables
  <2>2. CallsOK' /\ handler'[h] = Idle /\ \A g \in Handlers \ {h} : handler'[g] = handler[g]
    BY <2>1, ReturnKept DEF RInv
  <2>3. Tables' /\ RulesOK' /\ StaysOK' /\ Here' = Here
    BY <2>1, DataUntouched DEF RInv, Tables, roomVars, tables
  <2>4. FlagOK'
    BY <1>1, <2>1, <2>2, <2>3, FlagLeft DEF RInv, roomVars, tables
  <2> QED BY <2>2, <2>3, <2>4 DEF RInv
<1> QED BY <1>3, <1>4

\* The rooms that are left are counted.
LEMMA Counted ==
    ASSUME RInv, NEW h \in Handlers, CountRooms(h)
    PROVE  RInv'
<1>1. /\ handler[h].op = "removeRoom" /\ handler[h].pc = "count" /\ handler[h] \in RemoveCall
      /\ UNCHANGED roomVars
  BY DEF CountRooms, At, RInv, CallsOK
<1>2. Tables' /\ RulesOK' /\ StaysOK' /\ Here' = Here
  BY <1>1, DataUntouched DEF RInv, Tables, roomVars, tables
<1>3. Remaining(handler[h].prop) = 0 <=> RoomsOf(handler[h].prop) = {}
  <2>1. RoomsOf(handler[h].prop) \in SUBSET Here
    BY DEF RoomsOf
  <2>2. IsFiniteSet(RoomsOf(handler[h].prop))
    BY <2>1, FS_Subset DEF RInv, Tables
  <2> QED BY <2>2, FS_EmptySet DEF Remaining
<1>4. CASE RoomsOf(handler[h].prop) = {}
  <2> DEFINE c == [handler[h] EXCEPT !.pc = "unflag"]
  <2>1. Goto(h, c)
    BY <1>3, <1>4 DEF CountRooms
  <2>2. /\ c \in RemoveCall /\ c.op = "removeRoom" /\ c.pc = "unflag"
        /\ c.prop = handler[h].prop /\ c.room = handler[h].room
    BY <1>1 DEF RemoveCall
  <2> HIDE DEF c
  <2>3. /\ handler' = [handler EXCEPT ![h] = c] /\ workload' = workload /\ calls' \in 0 .. MaxCalls
        /\ handler = [g \in Handlers |-> handler[g]]
    BY <2>1 DEF Goto, RInv, CallsOK
  <2>4. CallsOK'
    BY <1>1, <2>2, <2>3, CallKept DEF RInv
  <2>5. handler'[h] = c /\ \A g \in Handlers \ {h} : handler'[g] = handler[g]
    BY <2>3, CallWritten
  <2>6. FlagOK'
    BY <1>1, <1>2, <1>4, <2>2, <2>5, FlagCounted DEF RInv, roomVars, tables
  <2> QED BY <1>2, <2>4, <2>6 DEF RInv
<1>5. CASE RoomsOf(handler[h].prop) # {}
  <2>1. Return(h)
    BY <1>3, <1>5 DEF CountRooms
  <2>2. CallsOK' /\ handler'[h] = Idle /\ \A g \in Handlers \ {h} : handler'[g] = handler[g]
    BY <2>1, ReturnKept DEF RInv
  <2>3. FlagOK'
    BY <1>1, <1>2, <1>5, <2>2, FlagCounted DEF RInv, roomVars, tables
  <2> QED BY <1>2, <2>2, <2>3 DEF RInv
<1> QED BY <1>4, <1>5

\* The flag is lowered, on what the count has said.
LEMMA Lowered ==
    ASSUME RInv, NEW h \in Handlers, LowerFlag(h)
    PROVE  RInv'
<1>1. handler[h].op = "removeRoom" /\ handler[h].pc = "unflag"
  BY DEF LowerFlag, At
<1>2. CallsOK' /\ handler'[h] = Idle /\ \A g \in Handlers \ {h} : handler'[g] = handler[g]
  BY ReturnKept DEF LowerFlag, RInv
<1>3. Tables' /\ RulesOK' /\ StaysOK' /\ Here' = Here
  BY DataUntouched DEF LowerFlag, RInv, Tables
<1>4. FlagOK'
  BY <1>1, <1>2, <1>3, FlagLowered DEF LowerFlag, RInv
<1> QED
  BY <1>2, <1>3, <1>4 DEF RInv

\* After a restart no call owes a flag anything: those that are wrong are marked.
LEMMA Restarted ==
    ASSUME RInv, RoomsCrash
    PROVE  RInv'
<1>1. /\ handler' = [h \in Handlers |-> Idle] /\ unsure' = unsure \cup Misflagged /\ UNCHANGED tables
      /\ calls' \in 0 .. MaxCalls /\ workload' = workload
  BY CallsAssumption DEF RoomsCrash, Asked, RInv, CallsOK
<1>2. handler' = [h \in Handlers |-> handler'[h]] /\ \A h \in Handlers : handler'[h].op = "none"
  BY <1>1, IdleKnows
<1>3. \A p \in Properties : (RoomsOf(p)' = RoomsOf(p)) /\ (p \in dynamic' <=> p \in dynamic)
  BY <1>1 DEF RoomsOf, Here, tables
<1>4. FlagOK'
  <2> SUFFICES ASSUME NEW p \in Properties \ unsure' PROVE FlagOf(p)'
    BY DEF FlagOK
  <2>1. p \in dynamic <=> RoomsOf(p) # {}
    BY <1>1 DEF Misflagged
  <2>2. ToBeLowered(p)'
    BY <1>2 DEF ToBeLowered, Unflagging, RemovesFrom
  <2> QED BY <1>3, <2>1, <2>2 DEF FlagOf, RaisedOnly, LoweredOnly
<1>5. CallsOK'
  BY <1>1, <1>2 DEF RInv, CallsOK
<1>6. Tables' /\ RulesOK' /\ StaysOK'
  <2>1. unsure' \subseteq Properties /\ dynamic' \subseteq Properties
    BY <1>1 DEF Misflagged, RInv, Tables, tables
  <2> QED BY <1>1, <2>1, DataUntouched DEF RInv, tables
<1> QED
  BY <1>4, <1>5, <1>6 DEF RInv

\* A call at once leaves the calls as they are.
LEMMA AtOnceKept ==
    ASSUME CallsOK, NEW op, AtOnce(op)
    PROVE  CallsOK' /\ handler' = handler
<1>1. handler' = handler /\ calls' \in 0 .. MaxCalls /\ workload' = workload
  BY CallsAssumption DEF AtOnce, Asked, CallsOK
<1> QED
  BY <1>1 DEF CallsOK, CreateCall, RemoveCall

\* And the flags, where it moves no room.
LEMMA EditKept ==
    ASSUME RInv, NEW op, AtOnce(op),
           UNCHANGED <<room, property, dynamic, unsure>>, Tables', RulesOK', StaysOK'
    PROVE  RInv'
<1>1. CallsOK' /\ handler' = handler
  BY AtOnceKept DEF RInv
<1>2. FlagOK'
  BY <1>1, FlagUntouched DEF RInv
<1> QED
  BY <1>1, <1>2 DEF RInv

\* A step that writes rules only.
LEMMA RulesEdited ==
    ASSUME RInv, NEW new, EditRules(new), new \subseteq Rule, IsFiniteSet(new),
           \A x \in new : x.room \in Here
    PROVE  Tables' /\ RulesOK' /\ StaysOK' /\ UNCHANGED <<room, property, dynamic, unsure>>
<1>1. Here' = Here /\ rules' = new
  BY DEF EditRules, Here
<1>2. Tables'
  BY <1>1 DEF EditRules, RInv, Tables
<1>3. RulesOK'
  BY <1>1 DEF RulesOK, Rule, Days
<1>4. StaysOK'
  BY DEF EditRules, RInv, StaysOK, Stay, Days
<1> QED
  BY <1>2, <1>3, <1>4 DEF EditRules

\* A step that writes stays only.
LEMMA StaysWritten ==
    ASSUME RInv, NEW new, WriteStays(new), new \subseteq Stay, IsFiniteSet(new),
           Cardinality(new) <= MaxStays
    PROVE  Tables' /\ RulesOK' /\ StaysOK' /\ UNCHANGED <<room, property, dynamic, unsure>>
<1>1. Here' = Here /\ stays' = new
  BY DEF WriteStays, Here
<1>2. Tables'
  BY <1>1 DEF WriteStays, RInv, Tables
<1>3. RulesOK'
  BY <1>1 DEF WriteStays, RInv, RulesOK, Rule, Days
<1>4. StaysOK'
  BY <1>1 DEF StaysOK, Stay, Days
<1> QED
  BY <1>2, <1>3, <1>4 DEF WriteStays

\* A room is made bookable or not, or moves.
LEMMA RoomEdited == ASSUME RInv, NEW r \in Rooms, UpdateRoom(r) PROVE RInv'
<1>1. Here' = Here /\ AtOnce("updateRoom") /\ room' = room /\ dynamic' = dynamic /\ r \in Here
  BY DEF UpdateRoom, Here
<1>2. RulesOK' /\ StaysOK'
  BY <1>1 DEF UpdateRoom, RInv, RulesOK, Rule, StaysOK, Stay, Days
<1>3. CASE UNCHANGED <<property, unsure>> /\ bookable' \subseteq Here
  <2>1. Tables'
    BY <1>1, <1>3 DEF UpdateRoom, RInv, Tables
  <2> QED BY <1>1, <1>2, <1>3, <2>1, EditKept
<1>4. ASSUME NEW q \in Properties \ {property[r]}, MoveRoom(r, q)
      PROVE  RInv'
  <2>1. property' \in [Rooms -> Properties] /\ unsure' \subseteq Properties
    BY <1>4 DEF MoveRoom, Overtaken, Deserted, RInv, Tables
  <2>2. Tables'
    BY <1>1, <1>4, <2>1 DEF UpdateRoom, MoveRoom, RInv, Tables
  <2>3. CallsOK' /\ handler' = handler
    BY <1>1, AtOnceKept DEF RInv
  <2>4. FlagOK'
    <3>1. property \in [Rooms -> Properties]
      BY DEF RInv, Tables
    <3> QED BY <1>1, <1>4, <2>3, <3>1, FlagMoved DEF RInv
  <2> QED BY <1>2, <2>2, <2>3, <2>4 DEF RInv
<1>5. bookable \subseteq Here
  BY DEF RInv, Tables
<1> QED
  BY <1>1, <1>3, <1>4, <1>5 DEF UpdateRoom

\* The status of a property changes, or the flag as the client says.
LEMMA PropertyEdited == ASSUME RInv, NEW p \in Properties, UpdateProperty(p) PROVE RInv'
<1>1. /\ Here' = Here /\ AtOnce("updateProperty")
      /\ UNCHANGED <<room, property, bookable, rules, stays, blocked>>
  BY DEF UpdateProperty, Here
<1>2. RulesOK' /\ StaysOK'
  BY <1>1 DEF RInv, RulesOK, Rule, StaysOK, Stay, Days
<1>3. CASE UNCHANGED <<dynamic, unsure>> /\ active' \subseteq Properties
  <2>1. Tables'
    BY <1>1, <1>3 DEF RInv, Tables
  <2> QED BY <1>1, <1>2, <1>3, <2>1, EditKept
<1>4. ASSUME NEW up \in BOOLEAN,
             dynamic' = IF up THEN dynamic \cup {p} ELSE dynamic \ {p},
             unsure' = IF up = (RoomsOf(p) # {}) THEN unsure ELSE unsure \cup {p},
             active' = active
      PROVE  RInv'
  <2>1. Tables'
    BY <1>1, <1>4 DEF RInv, Tables
  <2>2. CallsOK' /\ handler' = handler
    BY <1>1, AtOnceKept DEF RInv
  <2>3. FlagOK'
    BY <1>1, <1>4, <2>2, FlagSet DEF RInv
  <2> QED BY <1>2, <2>1, <2>2, <2>3 DEF RInv
<1>5. active \subseteq Properties
  BY DEF RInv, Tables
<1> QED
  BY <1>3, <1>4, <1>5 DEF UpdateProperty

\* The blocked days go, and nothing else.
LEMMA Refreshed == ASSUME RInv, NEW p \in Properties, RefreshAvailability(p) PROVE RInv'
<1>1. Here' = Here /\ AtOnce("refresh")
  BY DEF RefreshAvailability, Here
<1>2. Tables'
  BY <1>1 DEF RefreshAvailability, RInv, Tables
<1>3. RulesOK' /\ StaysOK'
  BY <1>1 DEF RefreshAvailability, RInv, RulesOK, Rule, StaysOK, Stay, Days
<1> QED
  BY <1>1, <1>2, <1>3, EditKept DEF RefreshAvailability

\* The rules a client may send for room r.
LEMMA RulesSent ==
    ASSUME NEW r \in Rooms, NEW x \in RulesFor(r)
    PROVE  x \in Rule /\ x.room = r
<1>1. PICK d \in Pairs, o \in BOOLEAN, p \in Overrides \cup {Null} :
        x = [room |-> r, from |-> d[1], to |-> d[2], open |-> o, price |-> p]
  BY DEF RulesFor
<1>2. d[1] \in Days /\ d[2] \in Days /\ p \in Nat \cup {Null}
  BY RoomsAssumption DEF Pairs
<1> QED
  BY <1>1, <1>2 DEF Rule

\* Rules are created and updated.
LEMMA RuleCreated == ASSUME RInv, NEW r \in Rooms, CreateRule(r) PROVE RInv'
<1>1. PICK x \in RulesFor(r) : EditRules(rules \cup {x})
  BY DEF CreateRule
<1>2. x \in Rule /\ x.room \in Here
  BY RulesSent DEF CreateRule
<1>3. IsFiniteSet(rules \cup {x})
  BY FS_AddElement DEF RInv, RulesOK
<1>4. \A y \in rules \cup {x} : y \in Rule /\ y.room \in Here
  BY <1>2 DEF RInv, RulesOK
<1> HIDE DEF Rule
<1> QED
  BY <1>1, <1>3, <1>4, RulesEdited, EditKept DEF CreateRule

\* The price rule of a night is changed.
LEMMA RuleUpdated == ASSUME RInv, NEW x \in rules, UpdateRule(x) PROVE RInv'
<1>1. PICK y \in RulesFor(x.room) : EditRules((rules \ {x}) \cup {y})
  BY DEF UpdateRule
<1>2. x.room \in Here /\ x.room \in Rooms
  BY DEF RInv, RulesOK, Here
<1>3. y \in Rule /\ y.room \in Here
  BY <1>2, RulesSent
<1>4. IsFiniteSet((rules \ {x}) \cup {y})
  BY FS_AddElement, FS_RemoveElement DEF RInv, RulesOK
<1>5. \A z \in (rules \ {x}) \cup {y} : z \in Rule /\ z.room \in Here
  BY <1>3 DEF RInv, RulesOK
<1> HIDE DEF Rule
<1> QED
  BY <1>1, <1>4, <1>5, RulesEdited, EditKept DEF UpdateRule

\* Fewer rules.
LEMMA RulesDropped ==
    ASSUME RInv, NEW op, AtOnce(op), NEW gone, EditRules(rules \ gone)
    PROVE  RInv'
<1>1. rules \ gone \in SUBSET rules
  OBVIOUS
<1>2. IsFiniteSet(rules \ gone)
  BY <1>1, FS_Subset DEF RInv, RulesOK
<1>3. \A y \in rules \ gone : y \in Rule /\ y.room \in Here
  BY DEF RInv, RulesOK
<1> HIDE DEF Rule
<1> QED
  BY <1>2, <1>3, RulesEdited, EditKept

\* An owner closes a period of a room.
LEMMA Closed ==
    ASSUME RInv, NEW r \in Rooms, NEW d \in Pairs, CloseRange(r, d[1], d[2]) PROVE RInv'
<1>1. PICK x : /\ x = [room |-> r, from |-> d[1], to |-> EndOfRange(d[2]), open |-> FALSE, price |-> Null]
               /\ EditRules(rules \cup {x})
  BY DEF CloseRange
<1>2. d[1] \in Nat /\ d[2] \in Nat /\ d[1] \in Days /\ d[2] \in Days
  BY RoomsAssumption DEF Pairs, Days
<1>3. EndOfRange(d[2]) \in Days \cup {MaxDay + 1}
  BY <1>2, RoomsAssumption DEF EndOfRange, Days
<1>4. x \in Rule /\ x.room \in Here
  BY <1>1, <1>2, <1>3 DEF CloseRange, Rule
<1>5. IsFiniteSet(rules \cup {x})
  BY FS_AddElement DEF RInv, RulesOK
<1>6. \A y \in rules \cup {x} : y \in Rule /\ y.room \in Here
  BY <1>4 DEF RInv, RulesOK
<1> HIDE DEF Rule
<1> QED
  BY <1>1, <1>5, <1>6, RulesEdited, EditKept DEF CloseRange

\* A stay is booked, and its status set.
LEMMA Booked == ASSUME RInv, NEW p \in Properties, NEW r \in Rooms, Book(p, r) PROVE RInv'
<1>1. PICK d \in Pairs, st \in {"PENDING", "CONFIRMED"} :
        WriteStays(stays \cup {[prop |-> p, room |-> r, from |-> d[1], to |-> d[2], st |-> st,
                                price |-> Price(p, r, d[1], d[2])]})
  BY DEF Book
<1>2. PICK s : s = [prop |-> p, room |-> r, from |-> d[1], to |-> d[2], st |-> st,
                    price |-> Price(p, r, d[1], d[2])]
  OBVIOUS
<1>3. d[1] \in Days /\ d[2] \in Days
  BY DEF Pairs
<1>4. Price(p, r, d[1], d[2]) \in Int
  <2>1. Charge(r, d[1], d[2]) \in Int
    BY <1>3, ChargeIs DEF RInv
  <2>2. PropertyBase[p] \in Nat /\ d[2] - d[1] \in Int
    BY <1>3, RoomsAssumption DEF Days
  <2>3. PropertyBase[p] * (d[2] - d[1]) \in Int
    BY <2>2
  <2> QED BY <2>1, <2>3 DEF Price
<1>5. s \in Stay
  BY <1>2, <1>3, <1>4 DEF Stay, StayStatuses
<1>6. IsFiniteSet(stays) /\ Cardinality(stays) \in Nat /\ Cardinality(stays) < MaxStays
  BY FS_CardinalityType DEF RInv, StaysOK, Book
<1>7. IsFiniteSet(stays \cup {s}) /\ Cardinality(stays \cup {s}) <= MaxStays
  <2>1. /\ IsFiniteSet(stays \cup {s})
        /\ Cardinality(stays \cup {s}) = IF s \in stays THEN Cardinality(stays) ELSE Cardinality(stays) + 1
    BY <1>6, FS_AddElement
  <2> QED BY <1>6, <2>1, RoomsAssumption
<1>8. \A t \in stays \cup {s} : t \in Stay
  BY <1>5 DEF RInv, StaysOK
<1>9. WriteStays(stays \cup {s}) /\ AtOnce("book")
  BY <1>1, <1>2 DEF Book
<1> HIDE DEF Stay
<1> QED
  BY <1>7, <1>8, <1>9, StaysWritten, EditKept

\* The staff changes the status of a booking.
LEMMA StatusSet == ASSUME RInv, NEW s \in stays, SetStatus(s) PROVE RInv'
<1>1. PICK st \in StayStatuses : WriteStays((stays \ {s}) \cup {[s EXCEPT !.st = st]})
  BY DEF SetStatus
<1>2. PICK t : t = [s EXCEPT !.st = st]
  OBVIOUS
<1>3. s \in Stay
  BY DEF RInv, StaysOK
<1>4. t \in Stay
  BY <1>2, <1>3 DEF Stay
<1>5. IsFiniteSet(stays) /\ Cardinality(stays) \in Nat /\ Cardinality(stays) <= MaxStays
  BY FS_CardinalityType DEF RInv, StaysOK
<1>6. IsFiniteSet(stays \ {s}) /\ Cardinality(stays \ {s}) = Cardinality(stays) - 1
  BY <1>5, FS_RemoveElement
<1>7. IsFiniteSet((stays \ {s}) \cup {t}) /\ Cardinality((stays \ {s}) \cup {t}) <= Cardinality(stays)
  <2>1. PICK U : U = stays \ {s}
    OBVIOUS
  <2>2. IsFiniteSet(U) /\ Cardinality(U) = Cardinality(stays) - 1
    BY <1>6, <2>1
  <2>3. /\ IsFiniteSet(U \cup {t})
        /\ Cardinality(U \cup {t}) = IF t \in U THEN Cardinality(U) ELSE Cardinality(U) + 1
    BY <2>2, FS_AddElement
  <2> QED BY <1>5, <2>1, <2>2, <2>3
<1>8. PICK new : new = (stays \ {s}) \cup {t}
  OBVIOUS
<1>9. IsFiniteSet(new) /\ Cardinality(new) <= MaxStays
  <2>1. Cardinality(new) \in Nat /\ Cardinality(new) <= Cardinality(stays) /\ IsFiniteSet(new)
    BY <1>7, <1>8, FS_CardinalityType
  <2> QED BY <1>5, <2>1, RoomsAssumption
<1>10. \A u \in new : u \in Stay
  BY <1>4, <1>8 DEF RInv, StaysOK
<1>11. WriteStays(new) /\ AtOnce("setStatus")
  BY <1>1, <1>2, <1>8 DEF SetStatus
<1> HIDE DEF Stay
<1> QED
  BY <1>9, <1>10, <1>11, StaysWritten, EditKept

-----------------------------------------------------------------------------
(***************************************************************************)
(* The invariant                                                           *)
(***************************************************************************)
LEMMA Started == Init => RInv
<1> SUFFICES ASSUME Init PROVE RInv
  OBVIOUS
<1> USE DEF Init, RequestsInit, RoomsInit
<1>1. Here = SeededRooms
  BY RoomsAssumption DEF Here
<1>2. \A h \in Handlers : handler[h].op = "none" /\ handler[h].pc = "idle"
  BY IdleKnows
<1>3. CallsOK
  BY <1>2, CallsAssumption DEF CallsOK
<1>4. Tables
  <2>1. /\ dynamic \subseteq Properties /\ room \in [Rooms -> {"new", "here", "gone"}]
        /\ property \in [Rooms -> Properties]
    BY RoomsAssumption
  <2> QED BY <1>1, <2>1, RoomsAssumption DEF Tables
<1>5. RulesOK /\ StaysOK
  BY FS_EmptySet, RoomsAssumption DEF RulesOK, StaysOK
<1>6. FlagOK
  <2> SUFFICES ASSUME NEW p \in Properties PROVE FlagOf(p)
    BY DEF FlagOK
  <2>1. p \in dynamic <=> RoomsOf(p) # {}
    BY <1>1, RoomsAssumption DEF RoomsOf
  <2>2. \A h \in Handlers : ~Unflagging(h, p)
    BY <1>2 DEF Unflagging, RemovesFrom
  <2> QED BY <2>1, <2>2 DEF FlagOf, RaisedOnly, LoweredOnly, ToBeLowered
<1> QED
  BY <1>3, <1>4, <1>5, <1>6 DEF RInv

\* Every action keeps the invariant, and stuttering does.
LEMMA StepKeeps == RInv /\ Next => RInv'
<1> SUFFICES ASSUME RInv, Next PROVE RInv'
  OBVIOUS
<1>1. ASSUME NEW h \in Handlers, RoomCalls(h) PROVE RInv'
  BY <1>1, Begun, BegunRemoval DEF RoomCalls
<1>2. ASSUME NEW h \in Handlers, RoomSteps(h) PROVE RInv'
  BY <1>2, Inserted, Raised, Deleted, Counted, Lowered DEF RoomSteps
<1>3. ASSUME RoomsCrash PROVE RInv'
  BY <1>3, Restarted
<1>4. ASSUME NEW r \in Rooms,
             UpdateRoom(r) \/ CreateRule(r) \/ \E p \in Properties : Book(p, r)
      PROVE  RInv'
  BY <1>4, RoomEdited, RuleCreated, Booked
<1>5. ASSUME NEW r \in Rooms, NEW d \in Pairs, OpenRange(r, d[1], d[2]) \/ CloseRange(r, d[1], d[2])
      PROVE  RInv'
  <2>1. CASE OpenRange(r, d[1], d[2])
    <3>1. PICK gone : gone = Closing(r, d[1], EndOfRange(d[2]))
      OBVIOUS
    <3>2. AtOnce("updateAvailability") /\ EditRules(rules \ gone)
      BY <2>1, <3>1 DEF OpenRange
    <3> QED BY <3>2, RulesDropped
  <2> QED BY <1>5, <2>1, Closed
<1>6. ASSUME NEW x \in rules, UpdateRule(x) \/ DeleteRule(x) PROVE RInv'
  BY <1>6, RuleUpdated, RulesDropped DEF DeleteRule
<1>7. ASSUME NEW s \in stays, SetStatus(s) PROVE RInv'
  BY <1>7, StatusSet
<1>8. ASSUME NEW p \in Properties, UpdateProperty(p) \/ RefreshAvailability(p) PROVE RInv'
  BY <1>8, PropertyEdited, Refreshed
<1> QED
  BY <1>1, <1>2, <1>3, <1>4, <1>5, <1>6, <1>7, <1>8 DEF Next, RoomEdits

\* A step in which nothing happens.
LEMMA StutterKeeps == RInv /\ UNCHANGED vars => RInv'
<1> SUFFICES ASSUME RInv, UNCHANGED vars PROVE RInv'
  OBVIOUS
<1> USE DEF vars, requests, roomVars, tables
<1>1. CallsOK'
  BY DEF RInv, CallsOK, CreateCall, RemoveCall
<1>2. Tables' /\ RulesOK' /\ StaysOK'
  BY DataUntouched DEF RInv, Tables
<1>3. FlagOK'
  BY FlagUntouched DEF RInv
<1> QED
  BY <1>1, <1>2, <1>3 DEF RInv

\* The invariant holds throughout, whatever calls overlap and wherever a restart cuts.
THEOREM Inductive == Spec => []RInv
<1>1. RInv /\ [Next]_vars => RInv'
  BY StepKeeps, StutterKeeps
<1> QED
  BY Started, <1>1, PTL DEF Spec

-----------------------------------------------------------------------------
\* The invariant gives the types, and the flag of every property that is sure.
LEMMA TypesFollow == RInv => TypeOK
<1> SUFFICES ASSUME RInv PROVE TypeOK
  OBVIOUS
<1>1. \A h \in Busy : handler[h].op \in {"createRoom", "removeRoom"} => handler[h] \in RoomCall
  <2> SUFFICES ASSUME NEW h \in Handlers, handler[h].op \in {"createRoom", "removeRoom"}
               PROVE  handler[h] \in RoomCall
    BY DEF Busy
  <2>1. handler[h] \in CreateCall \/ handler[h] \in RemoveCall
    BY DEF RInv, CallsOK
  <2>2. RoomCall = CreateCall \cup RemoveCall
    BY DEF RoomCall, CreateCall, RemoveCall
  <2> HIDE DEF RoomCall, CreateCall, RemoveCall
  <2> QED BY <2>1, <2>2
<1>2. bookable \in SUBSET Here /\ rules \in SUBSET Rule /\ stays \in SUBSET Stay
      /\ Cardinality(stays) <= MaxStays /\ \A x \in rules : x.room \in Here
  BY DEF RInv, Tables, RulesOK, StaysOK
<1> HIDE DEF Rule, Stay
<1> QED
  BY <1>1, <1>2 DEF TypeOK, RInv, CallsOK, Tables

\* The part about the flag gives the property, when no call is about to write it.
LEMMA FlagFollows == RInv => FlagFollowsRooms
<1> SUFFICES ASSUME RInv, NEW p \in Properties \ unsure,
                    \A h \in Busy : ~(handler[h].op \in RoomOps /\ handler[h].prop = p)
             PROVE  p \in dynamic <=> RoomsOf(p) # {}
  BY DEF FlagFollowsRooms
<1>1. \A h \in Handlers : ~AddsTo(h, p) /\ ~RemovesFrom(h, p)
  BY IdleKnows DEF AddsTo, RemovesFrom, RoomOps, Busy
<1>2. FlagOf(p)
  BY DEF RInv, FlagOK
<1> QED
  BY <1>1, <1>2 DEF FlagOf, RaisedOnly, LoweredOnly, Counting, Flagging, Seeding

\* The backend alone keeps every property of rooms.service.ts, for rooms that move,
\* bookings filed under any property and dates in any order: its types, the flag
\* hasDynamicRooms but after the orders it names, how far search, calendar, occupancy,
\* dashboard and create agree, the price shown and the one charged, and the refunds.
THEOREM RoomsHold ==
    Spec => [](/\ TypeOK /\ FlagFollowsRooms
               /\ OfferedIsFree /\ FreeIsOffered /\ OfferedIsAccepted
               /\ QuoteIsCharged /\ RefundIsFair)
<1>1. RInv => /\ TypeOK /\ FlagFollowsRooms
              /\ OfferedIsFree /\ FreeIsOffered /\ OfferedIsAccepted
              /\ QuoteIsCharged /\ RefundIsFair
  BY TypesFollow, FlagFollows, OfferedFree, FreeOffered, OfferedAccepted, QuoteCharged, RefundsFair
     DEF RInv
<1> QED
  BY Inductive, <1>1, PTL

-----------------------------------------------------------------------------
\* OpenRange leaves no closure that covers a day of the range, CloseRange adds one
\* that covers each day of it and no other.
LEMMA EditShows ==
    ASSUME RInv, NEW r \in Rooms, NEW d \in Pairs
    PROVE  /\ OpenRange(r, d[1], d[2]) => \A n \in d[1] .. d[2] : CalendarOpen(r, n)'
           /\ CloseRange(r, d[1], d[2]) =>
                 /\ \A n \in Days : CalendarOpen(r, n)' <=> CalendarOpen(r, n) /\ n \notin d[1] .. d[2]
                 /\ \A e \in Nights : e[1] <= d[2] /\ e[2] > d[1] => ~Offered(r, e[1], e[2])'
<1>1. PICK first, last : first = d[1] /\ last = d[2]
  OBVIOUS
<1>2. first \in Nat /\ last \in Nat
  BY <1>1, RoomsAssumption DEF Pairs, Days
<1>3. \A x \in rules : x.from \in Nat /\ x.to \in Nat
  BY RoomsAssumption DEF RInv, RulesOK, Rule, Days
<1>4. ASSUME OpenRange(r, first, last), NEW n \in first .. last PROVE CalendarOpen(r, n)'
  <2>1. rules' = rules \ Closing(r, first, last + 1)
    BY <1>4 DEF OpenRange, EditRules, EndOfRange
  <2>2. ASSUME NEW x \in rules', x.room = r, ~x.open PROVE ~(x.from <= n /\ n < x.to)
    <3>1. ~(x.from < last + 1 /\ x.to > first)
      BY <2>1, <2>2 DEF Closing
    <3> QED BY <1>2, <1>3, <2>1, <3>1
  <2> QED BY <2>2 DEF CalendarOpen, Covers
<1>5. ASSUME CloseRange(r, first, last)
      PROVE  /\ \A n \in Days : CalendarOpen(r, n)' <=> CalendarOpen(r, n) /\ n \notin first .. last
             /\ \A e \in Nights : e[1] <= last /\ e[2] > first => ~Offered(r, e[1], e[2])'
  <2>1. PICK x : /\ x = [room |-> r, from |-> first, to |-> last + 1, open |-> FALSE, price |-> Null]
                 /\ rules' = rules \cup {x}
    BY <1>5 DEF CloseRange, EditRules, EndOfRange
  <2>2. x.room = r /\ ~x.open /\ x.from = first /\ x.to = last + 1 /\ x \in rules'
    BY <2>1
  <2>3. ASSUME NEW n \in Days
        PROVE  CalendarOpen(r, n)' <=> CalendarOpen(r, n) /\ n \notin first .. last
    <3>1. n \in Nat
      BY RoomsAssumption DEF Days
    <3>2. Covers(x, n) <=> n \in first .. last
      BY <1>2, <2>2, <3>1 DEF Covers
    <3>3. \A y : y \in rules' <=> y \in rules \/ y = x
      BY <2>1
    <3> QED BY <2>2, <3>2, <3>3 DEF CalendarOpen, Covers
  <2>4. ASSUME NEW e \in Nights, e[1] <= last, e[2] > first PROVE ~Offered(r, e[1], e[2])'
    <3>1. PICK a, b : a = e[1] /\ b = e[2]
      OBVIOUS
    <3>2. a \in Nat /\ b \in Nat
      BY <3>1, RoomsAssumption DEF Nights, Pairs, Days
    <3>3. x \in ClosedIn(r, a, b)'
      BY <1>2, <2>2, <2>4, <3>1, <3>2 DEF ClosedIn
    <3> QED BY <3>1, <3>3 DEF Offered
  <2> QED BY <2>3, <2>4
<1> QED
  BY <1>1, <1>4, <1>5

\* What updateAvailability writes is what the calendar and the search then show.
THEOREM EditsShow == Spec => AvailabilityEditsShow
<1>1. RInv => \A r \in Rooms, d \in Pairs :
        /\ OpenRange(r, d[1], d[2]) => \A n \in d[1] .. d[2] : CalendarOpen(r, n)'
        /\ CloseRange(r, d[1], d[2]) =>
              /\ \A n \in Days : CalendarOpen(r, n)' <=> CalendarOpen(r, n) /\ n \notin d[1] .. d[2]
              /\ \A e \in Nights : e[1] <= d[2] /\ e[2] > d[1] => ~Offered(r, e[1], e[2])'
  BY EditShows
<1> QED
  BY Inductive, <1>1, PTL DEF AvailabilityEditsShow

=============================================================================
