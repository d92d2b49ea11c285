--------------------------- MODULE ScriptsProofs ---------------------------
(***************************************************************************)
(* Proofs about Rooms with the scripts beside it: SInv adds to RInv what   *)
(* the scripts have left to do and that, until somebody else edits them,   *)
(* the priced rules of a room are those of the seasons.  The invariants of *)
(* Rooms hold whatever scripts run beside the backend.  The charts of      *)
(* Figures add up for any stays, lengths of weeks and months.              *)
(***************************************************************************)
EXTENDS Scripts, Figures, RoomsProofs

\* The calls of the two scripts.
SeedCall == [op : {"seedRooms"}, prop : {Hotel}, left : Int, pc : {"clear", "create", "flag"}]

PriceCall == [op : {"seedPrices"}, pc : {"clear", "create"}, left : SUBSET Rooms]

ScriptCallsOK ==
    \A h \in Handlers : /\ handler[h].op = "seedRooms" => handler[h] \in SeedCall
                        /\ handler[h].op = "seedPrices" => handler[h] \in PriceCall

\* The rules of a room that set a price.
PricedRules(r) == {x \in RulesOf(r) : x.price # Null}

\* Until somebody else edits the rules of a room, those with a price are the
\* seasons', and all of them once the script has done the room.
PricesOK ==
    /\ priced \subseteq Rooms
    /\ \A r \in Rooms \ handmade : /\ PricedRules(r) \subseteq SeasonRules(r)
                                   /\ r \in priced => SeasonRules(r) \subseteq RulesOf(r)

SInv == RInv /\ ScriptCallsOK /\ PricesOK

-----------------------------------------------------------------------------
(***************************************************************************)
(* The seasons                                                             *)
(***************************************************************************)
LEMMA SeasonRule ==
    ASSUME NEW r \in Rooms
    PROVE  /\ IsFiniteSet(SeasonRules(r))
           /\ \A x \in SeasonRules(r) : /\ x \in Rule /\ x.room = r
                                        /\ x.open /\ x.price # Null
<1> DEFINE rule(s) == [room |-> r, from |-> s.from, to |-> s.to, open |-> TRUE, price |-> s.price]
           f == [s \in Seasons |-> rule(s)]
<1>1. SeasonRules(r) = {rule(s) : s \in Seasons}
  BY DEF SeasonRules
<1>2. f \in Surjection(Seasons, SeasonRules(r))
  BY <1>1 DEF Surjection
<1>3. IsFiniteSet(SeasonRules(r))
  BY <1>2, FS_Surjection, ScriptsAssumption
<1>4. ASSUME NEW s \in Seasons
      PROVE  LET x == rule(s)
             IN  x \in Rule /\ x.room = r /\ x.open /\ x.price # Null
  BY ScriptsAssumption, RoomsAssumption DEF Rule, Days
<1> QED
  BY <1>1, <1>3, <1>4

\* Once its own rules are in place, a room is quoted and charged by them.
LEMMA Priced == RInv /\ PricesOK => SeasonsArePriced
<1> SUFFICES ASSUME RInv, PricesOK, NEW r \in (priced \ handmade) \cap Here, NEW s \in Seasons,
                    NEW d \in s.from .. s.to - 1
             PROVE  /\ QuotedPrices(r, d, d + 1)[d] = {s.price}
                    /\ (\A x \in RulesOf(r) : Covers(x, d) /\ x.open => x.price # Null) =>
                          ChargedPrices(r, d, d + 1)[d] = {s.price}
  BY DEF SeasonsArePriced
<1> DEFINE mine == [room |-> r, from |-> s.from, to |-> s.to, open |-> TRUE, price |-> s.price]
           open == OpenRules(r, d, d + 1)
           first == {x \in open : Covers(x, d) /\ \A y \in open : Covers(y, d) => x.from <= y.from}
           found == {x \in open : x.price # Null}
<1>1. /\ s.from \in Nat /\ s.to \in Nat /\ s.from < s.to /\ s.price \in Nat /\ s.price # Null
      /\ d \in Nat
  BY ScriptsAssumption, RoomsAssumption DEF Days
<1>2. r \in Rooms /\ \A x \in RulesOf(r) : x.price # Null => x \in SeasonRules(r)
  BY DEF PricesOK, PricedRules, Here
<1>3. ASSUME NEW x \in SeasonRules(r), Covers(x, d) PROVE x = mine
  <2>1. PICK t \in Seasons :
          x = [room |-> r, from |-> t.from, to |-> t.to, open |-> TRUE, price |-> t.price]
    BY DEF SeasonRules
  <2>2. t.from \in Nat /\ t.to \in Nat /\ t.from <= d /\ d < t.to
    BY <1>3, <2>1, ScriptsAssumption, RoomsAssumption DEF Covers, Days
  <2>3. s = t
    BY <1>1, <2>2, ScriptsAssumption
  <2> QED BY <2>1, <2>3
<1>4. mine \in RulesOf(r) /\ mine.price = s.price /\ mine.room = r /\ mine.open
      /\ mine.from = s.from /\ mine.to = s.to
  BY DEF PricesOK, SeasonRules, Here
<1>5. Covers(mine, d) /\ mine \in open /\ PriceBy(mine) = s.price
  BY <1>1, <1>4 DEF Covers, OpenRules, RulesOf, PriceBy
<1>6. open \subseteq RulesOf(r) /\ \A x \in open : x.open
  BY DEF OpenRules, RulesOf
<1> HIDE DEF mine, open
<1>7. {x \in found : Covers(x, d)} = {mine}
  BY <1>1, <1>2, <1>3, <1>4, <1>5, <1>6
<1>8. QuotedPrices(r, d, d + 1)[d] = NightPrices(r, found, d)
      /\ ChargedPrices(r, d, d + 1)[d] = NightPrices(r, first, d)
  BY <1>1 DEF QuotedPrices, ChargedPrices, open
<1>9. ASSUME \A x \in RulesOf(r) : Covers(x, d) /\ x.open => x.price # Null
      PROVE  {x \in first : Covers(x, d)} = {mine}
  <2>1. \A x \in open : Covers(x, d) => x = mine
    BY <1>2, <1>3, <1>6, <1>9
  <2> QED BY <1>1, <1>4, <1>5, <2>1
<1> HIDE DEF found, first
<1>10. NightPrices(r, found, d) = {s.price}
  BY <1>5, <1>7 DEF NightPrices
<1>11. (\A x \in RulesOf(r) : Covers(x, d) /\ x.open => x.price # Null) =>
          NightPrices(r, first, d) = {s.price}
  BY <1>5, <1>9 DEF NightPrices
<1> QED
  BY <1>8, <1>10, <1>11

-----------------------------------------------------------------------------
(***************************************************************************)
(* What the backend does beside a script                                   *)
(***************************************************************************)

\* No call of the backend touches a script, but a restart ends it.
LEMMA ScriptsLeft ==
    ASSUME SInv, Next, NEW h \in Handlers,
           handler'[h].op \in {"seedRooms", "seedPrices"}
    PROVE  handler'[h] = handler[h]
<1>1. handler = [g \in Handlers |-> handler[g]]
  BY DEF SInv, RInv, CallsOK
<1> DEFINE Kept(g) == \A k \in Handlers \ {g} : handler'[k] = handler[k]
<1>2. ASSUME NEW g \in Handlers, RoomCalls(g) PROVE handler'[h] = handler[h]
  <2>1. PICK c : handler' = [handler EXCEPT ![g] = c] /\ c.op \in {"createRoom", "removeRoom"}
    <3>1. ASSUME NEW p, CreateRoom(g, p)
          PROVE  \E c : handler' = [handler EXCEPT ![g] = c] /\ c.op = "createRoom"
      <4> DEFINE c == [op |-> "createRoom", pc |-> "insert", prop |-> p]
      <4>1. handler' = [handler EXCEPT ![g] = c]
        BY <3>1 DEF CreateRoom, Begin
      <4>2. c.op = "createRoom"
        OBVIOUS
      <4> HIDE DEF c
      <4> QED BY <4>1, <4>2
    <3>2. ASSUME NEW r, RemoveRoom(g, r)
          PROVE  \E c : handler' = [handler EXCEPT ![g] = c] /\ c.op = "removeRoom"
      <4> DEFINE c == [op |-> "removeRoom", pc |-> "delete", prop |-> property[r], room |-> r]
      <4>1. handler' = [handler EXCEPT ![g] = c]
        BY <3>2 DEF RemoveRoom, Begin
      <4>2. c.op = "removeRoom"
        OBVIOUS
      <4> HIDE DEF c
      <4> QED BY <4>1, <4>2
    <3> QED BY <1>2, <3>1, <3>2 DEF RoomCalls
  <2>2. handler'[g] = c /\ Kept(g)
    BY <1>1, <2>1, CallWritten
  <2> QED BY <2>1, <2>2
<1>3. ASSUME NEW g \in Handlers, RoomSteps(g) PROVE handler'[h] = handler[h]
  <2>1. handler[g].op = "createRoom" \/ handler[g].op = "removeRoom"
    BY <1>3 DEF RoomSteps, InsertRoom, RaiseFlag, DeleteRoom, CountRooms, LowerFlag, At
  <2>2. handler[g] \in CreateCall \/ handler[g] \in RemoveCall
    BY <2>1 DEF SInv, RInv, CallsOK
  <2>3. PICK c : /\ handler' = [handler EXCEPT ![g] = c]
                 /\ c = Idle \/ \E pc : c = [handler[g] EXCEPT !.pc = pc]
    BY <1>3 DEF RoomSteps, InsertRoom, RaiseFlag, DeleteRoom, CountRooms, LowerFlag, Return, Goto
  <2>4. c.op \notin {"seedRooms", "seedPrices"}
    <3>1. CASE c = Idle BY <3>1, IdleKnows
    <3>2. CASE \E pc : c = [handler[g] EXCEPT !.pc = pc]
      <4>1. c.op = handler[g].op
        BY <2>2, <3>2 DEF CreateCall, RemoveCall
      <4> QED BY <2>1, <4>1
    <3> QED BY <2>3, <3>1, <3>2
  <2>5. handler'[g] = c /\ Kept(g)
    BY <1>1, <2>3, CallWritten
  <2> QED BY <2>4, <2>5
<1>4. ASSUME RoomsCrash PROVE handler'[h] = handler[h]
  BY <1>4, IdleKnows DEF RoomsCrash
<1>5. RoomEdits => RoomsCrash \/ handler' = handler
  BY DEF RoomEdits, UpdateRoom, CreateRule, Book, OpenRange, CloseRange, UpdateRule, DeleteRule,
         SetStatus, UpdateProperty, RefreshAvailability, AtOnce
<1> QED
  BY <1>2, <1>3, <1>4, <1>5 DEF Next

\* A step that moves no script.
LEMMA CallsLeft ==
    ASSUME ScriptCallsOK, \A h \in Handlers : handler'[h].op \in {"seedRooms", "seedPrices"} =>
                              handler'[h] = handler[h]
    PROVE  ScriptCallsOK'
<1>1. SeedCall' = SeedCall /\ PriceCall' = PriceCall
  BY DEF SeedCall, PriceCall
<1> HIDE DEF SeedCall, PriceCall
<1> QED BY <1>1 DEF ScriptCallsOK

\* Whoever edits the rules of a room is remembered.
LEMMA PricesLeft ==
    ASSUME PricesOK, priced' = priced,
           handmade' = handmade \cup {r \in Rooms : RulesOf(r)' # RulesOf(r)}
    PROVE  PricesOK'
<1>1. \A r \in Rooms \ handmade' : r \notin handmade /\ RulesOf(r)' = RulesOf(r)
  OBVIOUS
<1>2. \A r \in Rooms : SeasonRules(r)' = SeasonRules(r)
  BY DEF SeasonRules
<1>3. \A r \in Rooms \ handmade' : PricedRules(r)' = PricedRules(r)
  BY <1>1 DEF PricedRules
<1> HIDE DEF PricedRules
<1> QED
  BY <1>1, <1>2, <1>3 DEF PricesOK

\* Every action of Rooms keeps the invariant of the scripts.
LEMMA NextBeside == ASSUME SInv, Beside(Next) PROVE SInv'
<1>1. RInv'
  BY StepKeeps DEF Beside, SInv
<1>2. ScriptCallsOK'
  BY ScriptsLeft, CallsLeft DEF Beside, SInv
<1>3. PricesOK'
  BY PricesLeft DEF Beside, SInv
<1> QED
  BY <1>1, <1>2, <1>3 DEF SInv

-----------------------------------------------------------------------------
(***************************************************************************)
(* The steps of the scripts                                                *)
(***************************************************************************)

\* The next step of a script, or its return.
LEMMA ScriptWritten ==
    ASSUME SInv, NEW h \in Handlers, NEW c, handler' = [handler EXCEPT ![h] = c],
           calls' \in 0 .. MaxCalls, workload' = workload,
           c \in SeedCall \/ c \in PriceCall \/ c = Idle
    PROVE  /\ CallsOK' /\ ScriptCallsOK'
           /\ handler'[h] = c /\ \A g \in Handlers \ {h} : handler'[g] = handler[g]
<1>1. c.op \in {"seedRooms", "seedPrices", "none"} /\ (c.op = "seedRooms" => c \in SeedCall /\ c.prop \in Properties)
      /\ (c.op = "seedPrices" => c \in PriceCall)
  <2>1. CASE c \in SeedCall BY <2>1, ScriptsAssumption DEF SeedCall
  <2>2. CASE c \in PriceCall BY <2>2 DEF PriceCall
  <2>3. CASE c = Idle BY <2>3, IdleKnows
  <2> QED BY <2>1, <2>2, <2>3
<1>2. CallsOK'
  BY <1>1, CallKept DEF SInv, RInv
<1>3. handler'[h] = c /\ \A g \in Handlers \ {h} : handler'[g] = handler[g]
  BY CallWritten DEF SInv, RInv, CallsOK
<1>4. ScriptCallsOK'
  <2>1. SeedCall' = SeedCall /\ PriceCall' = PriceCall
    BY DEF SeedCall, PriceCall
  <2> HIDE DEF SeedCall, PriceCall
  <2>2. ASSUME NEW g \in Handlers
        PROVE  /\ handler'[g].op = "seedRooms" => handler'[g] \in SeedCall
               /\ handler'[g].op = "seedPrices" => handler'[g] \in PriceCall
    <3>1. CASE g = h BY <1>1, <1>3, <3>1
    <3>2. CASE g # h BY <1>3, <3>2 DEF SInv, ScriptCallsOK
    <3> QED BY <3>1, <3>2
  <2> QED BY <2>1, <2>2 DEF ScriptCallsOK
<1> QED
  BY <1>2, <1>3, <1>4

\* A step of seed-incanto-rooms.ts.
LEMMA SeedGoes ==
    ASSUME SInv, NEW h \in Handlers, handler[h].op = "seedRooms", NEW c, Goto(h, c),
           c = Idle \/ c \in SeedCall
    PROVE  /\ CallsOK' /\ ScriptCallsOK'
           /\ handler'[h] = c /\ \A g \in Handlers \ {h} : handler'[g] = handler[g]
           /\ handler[h] \in SeedCall /\ handler[h].prop = Hotel
<1>1. handler' = [handler EXCEPT ![h] = c] /\ calls' \in 0 .. MaxCalls /\ workload' = workload
  BY DEF Goto, SInv, RInv, CallsOK
<1>2. handler[h] \in SeedCall /\ handler[h].prop = Hotel
  BY DEF SInv, ScriptCallsOK, SeedCall
<1> QED
  BY <1>1, <1>2, ScriptWritten

\* The script of the rooms begins, clears the rooms, makes them anew and sets
\* the flag.
LEMMA SeedBegun == ASSUME SInv, NEW h \in Handlers, SeedRooms(h) PROVE RInv' /\ ScriptCallsOK'
<1> DEFINE c == [op |-> "seedRooms", prop |-> Hotel, left |-> SeedSize,
                 pc |-> IF RoomsOf(Hotel) = {} THEN "create" ELSE "clear"]
<1>1. Begin(h, c) /\ UNCHANGED roomVars BY DEF SeedRooms
<1>2. c \in SeedCall /\ c.op = "seedRooms" /\ c.pc \in {"clear", "create"}
  BY ScriptsAssumption DEF SeedCall
<1> HIDE DEF c
<1>3. handler' = [handler EXCEPT ![h] = c] /\ workload' = workload /\ calls' \in 0 .. MaxCalls
  BY <1>1, <1>2, CallsAssumption DEF Begin, Asked, SInv, RInv, CallsOK
<1>4. CallsOK' /\ ScriptCallsOK'
  BY <1>2, <1>3, ScriptWritten
<1>5. FlagOK'
  BY <1>1, <1>2, FlagBegun DEF SInv, RInv, RoomOps
<1> QED
  BY <1>1, <1>4, <1>5, DataUntouched DEF SInv, RInv, roomVars, tables, Tables

\* The rooms go, and the script is to make others.
LEMMA FlagCleared ==
    ASSUME FlagOK, NEW h \in Handlers,
           \A g \in Handlers \ {h} : handler'[g] = handler[g],
           handler[h].op = "seedRooms", handler'[h].op = "seedRooms", handler'[h].pc = "create",
           handler'[h].prop = handler[h].prop, Here' = Here \ RoomsOf(handler[h].prop),
           property' = property, dynamic' = dynamic, unsure' = unsure
    PROVE  FlagOK'
<1> SUFFICES ASSUME NEW p \in Properties \ unsure PROVE FlagOf(p)'
  BY DEF FlagOK
<1>1. FlagOf(p)
  BY DEF FlagOK
<1>2. RoomsOf(p)' = IF handler[h].prop = p THEN {} ELSE RoomsOf(p)
  BY DEF RoomsOf
<1>3. CASE handler[h].prop # p
  <2>1. ~AddsTo(h, p) /\ ~RemovesFrom(h, p) /\ ~RemovesFrom(h, p)'
    BY <1>3 DEF AddsTo, RemovesFrom
  <2> QED BY <1>1, <1>2, <1>3, <2>1, FlagElsewhere
<1>4. CASE handler[h].prop = p
  <2>1. Seeding(h, p)'
    BY <1>4 DEF AddsTo, Seeding
  <2> QED BY <1>2, <1>4, <2>1 DEF FlagOf, RaisedOnly, LoweredOnly, ToBeLowered
<1> QED BY <1>3, <1>4

\* The seed of the rooms deletes those of its property.
LEMMA RoomsCleared == ASSUME SInv, NEW h \in Handlers, ClearRooms(h) PROVE RInv' /\ ScriptCallsOK'
<1> DEFINE c == [handler[h] EXCEPT !.pc = "create"]
<1>1. /\ handler[h].op = "seedRooms" /\ handler[h].pc = "clear" /\ Goto(h, c)
      /\ handler[h] \in SeedCall
  BY DEF ClearRooms, At, SInv, ScriptCallsOK
<1>2. c \in SeedCall /\ c.op = "seedRooms" /\ c.pc = "create" /\ c.prop = Hotel /\ handler[h].prop = Hotel
  BY <1>1 DEF SeedCall
<1> HIDE DEF c
<1>3. /\ CallsOK' /\ ScriptCallsOK'
      /\ handler'[h] = c /\ \A g \in Handlers \ {h} : handler'[g] = handler[g]
  BY <1>1, <1>2, SeedGoes
<1>4. PICK gone \in SUBSET Rooms : gone = RoomsOf(Hotel)
  BY DEF RoomsOf, Here
<1>5. /\ room' = [r \in Rooms |-> IF r \in gone THEN "gone" ELSE room[r]]
      /\ bookable' = bookable \ gone
      /\ rules' = {x \in rules : x.room \notin gone}
      /\ UNCHANGED <<property, active, dynamic, stays, blocked, unsure>>
  BY <1>4 DEF ClearRooms
<1>6. room' \in [Rooms -> {"new", "here", "gone"}] /\ Here' = Here \ gone
  BY <1>5 DEF Here, SInv, RInv, Tables
<1>7. Tables' /\ RulesOK' /\ StaysOK'
  <2>1. unsure' \subseteq Properties
    BY <1>5 DEF SInv, RInv, Tables
  <2> QED BY <1>5, <1>6, <2>1, RoomsGone DEF SInv, RInv
<1>8. FlagOK'
  BY <1>1, <1>2, <1>3, <1>4, <1>5, <1>6, FlagCleared DEF SInv, RInv
<1> QED
  BY <1>3, <1>7, <1>8 DEF RInv

\* And makes them again, one after another.
LEMMA RoomSeeded == ASSUME SInv, NEW h \in Handlers, SeedRoom(h) PROVE RInv' /\ ScriptCallsOK'
<1> DEFINE left == handler[h].left - 1
           c == [handler[h] EXCEPT !.left = left, !.pc = IF left = 0 THEN "flag" ELSE "create"]
<1>1. /\ handler[h].op = "seedRooms" /\ Goto(h, c) /\ handler[h] \in SeedCall
      /\ unsure' = Overtaken(Hotel) /\ UNCHANGED <<active, dynamic, rules, stays, blocked>>
  BY DEF SeedRoom, At, SInv, ScriptCallsOK
<1>2. c \in SeedCall /\ c.op = "seedRooms" /\ c.pc \in {"flag", "create"} /\ c.prop = Hotel
      /\ handler[h].prop = Hotel
  <2>1. PICK pc \in {"flag", "create"} : pc = IF left = 0 THEN "flag" ELSE "create"
    OBVIOUS
  <2>2. PICK rest : rest = left
    OBVIOUS
  <2>3. c = [handler[h] EXCEPT !.left = rest, !.pc = pc] /\ rest \in Int
    BY <1>1, <2>1, <2>2 DEF SeedCall
  <2> HIDE DEF c, left
  <2> QED BY <1>1, <2>1, <2>3 DEF SeedCall
<1> HIDE DEF c, left
<1>3. /\ CallsOK' /\ ScriptCallsOK'
      /\ handler'[h] = c /\ \A g \in Handlers \ {h} : handler'[g] = handler[g]
  BY <1>1, <1>2, SeedGoes
<1>4. PICK r \in Rooms : /\ room[r] = "new" /\ room' = [room EXCEPT ![r] = "here"]
                         /\ property' = [property EXCEPT ![r] = Hotel]
                         /\ \E new \in SUBSET {r} : bookable' = bookable \cup new
  BY DEF SeedRoom
<1>5. PICK new \in SUBSET {r} : bookable' = bookable \cup new
  BY <1>4
<1>6. Here' = Here \cup {r} /\ Tables' /\ RulesOK' /\ StaysOK'
  BY <1>1, <1>4, <1>5, RoomMade, ScriptsAssumption DEF SInv, RInv
<1>7. r \notin Here /\ property \in [Rooms -> Properties]
  BY <1>4 DEF Here, SInv, RInv, Tables
<1>8. FlagOK'
  BY <1>1, <1>2, <1>3, <1>4, <1>6, <1>7, FlagAdded DEF SInv, RInv
<1> QED
  BY <1>3, <1>6, <1>8 DEF RInv

\* And raises the flag of the property at the end.
LEMMA SeedFlagged == ASSUME SInv, NEW h \in Handlers, FlagSeeded(h) PROVE RInv' /\ ScriptCallsOK'
<1>1. handler[h].op = "seedRooms" /\ handler[h].pc = "flag" /\ Goto(h, Idle)
  BY DEF FlagSeeded, At, Return
<1>2. /\ CallsOK' /\ ScriptCallsOK' /\ handler[h].prop = Hotel
      /\ handler'[h] = Idle /\ \A g \in Handlers \ {h} : handler'[g] = handler[g]
  BY <1>1, SeedGoes
<1>3. Tables' /\ RulesOK' /\ StaysOK' /\ Here' = Here
  BY DataUntouched, ScriptsAssumption DEF FlagSeeded, Raise, SInv, RInv, Tables
<1>4. AddsTo(h, handler[h].prop)
  BY <1>1 DEF AddsTo
<1>5. FlagOK'
  BY <1>1, <1>2, <1>3, <1>4, FlagRaised DEF FlagSeeded, SInv, RInv
<1> QED
  BY <1>2, <1>3, <1>5 DEF RInv

\* Its steps leave the seasons as they are.
LEMMA SeedBeside == ASSUME SInv, NEW h \in Handlers, Beside(SeedSteps(h)) PROVE SInv'
<1>1. RInv' /\ ScriptCallsOK'
  BY SeedBegun, RoomsCleared, RoomSeeded, SeedFlagged DEF Beside, SeedSteps
<1>2. PricesOK'
  BY PricesLeft DEF Beside, SInv
<1> QED
  BY <1>1, <1>2 DEF SInv

\* A call that is about neither kind of room call before and after.
LEMMA FlagAside ==
    ASSUME FlagOK, NEW h \in Handlers,
           \A g \in Handlers \ {h} : handler'[g] = handler[g],
           handler[h].op \in {"seedPrices", "none"}, handler'[h].op \in {"seedPrices", "none"},
           Here' = Here, property' = property, dynamic' = dynamic, unsure' = unsure
    PROVE  FlagOK'
<1> SUFFICES ASSUME NEW p \in Properties \ unsure PROVE FlagOf(p)'
  BY DEF FlagOK
<1>1. FlagOf(p) /\ RoomsOf(p)' = RoomsOf(p)
  BY DEF FlagOK, RoomsOf
<1>2. ~AddsTo(h, p) /\ ~RemovesFrom(h, p) /\ ~RemovesFrom(h, p)'
  BY DEF AddsTo, RemovesFrom
<1> QED BY <1>1, <1>2, FlagElsewhere

\* The script of the prices begins, clears the seasons and prices room after
\* room.
LEMMA PricesBegun == ASSUME SInv, NEW h \in Handlers, SeedPrices(h) PROVE SInv'
<1>1. PICK found : found = RoomsOf(Hotel) \cap bookable
  OBVIOUS
<1> DEFINE c == [op |-> "seedPrices", pc |-> "clear", left |-> found]
<1>2. handler' = [handler EXCEPT ![h] = c] /\ workload' = workload /\ calls' \in 0 .. MaxCalls
      /\ handler[h] = Idle
  BY <1>1, CallsAssumption DEF SeedPrices, Begin, Asked, Busy, SInv, RInv, CallsOK
<1>3. c \in PriceCall /\ c.op = "seedPrices"
  BY <1>1 DEF PriceCall, RoomsOf, Here
<1> HIDE DEF c
<1>4. /\ CallsOK' /\ ScriptCallsOK'
      /\ handler'[h] = c /\ \A g \in Handlers \ {h} : handler'[g] = handler[g]
  BY <1>2, <1>3, ScriptWritten
<1>5. UNCHANGED <<roomVars, priceVars>>
  BY DEF SeedPrices
<1>6. Tables' /\ RulesOK' /\ StaysOK' /\ Here' = Here
  BY <1>5, DataUntouched DEF SInv, RInv, Tables, roomVars, tables
<1>7. FlagOK'
  BY <1>2, <1>3, <1>4, <1>5, <1>6, FlagAside, IdleKnows DEF SInv, RInv, roomVars, tables
<1>8. PricesOK'
  BY <1>5 DEF SInv, PricesOK, PricedRules, RulesOf, SeasonRules, roomVars, tables, priceVars
<1> QED
  BY <1>4, <1>6, <1>7, <1>8 DEF SInv, RInv

\* A step of seed-incanto-pricing.ts.
LEMMA PriceGoes ==
    ASSUME SInv, NEW h \in Handlers, handler[h].op = "seedPrices", NEW c, Goto(h, c),
           c = Idle \/ c \in PriceCall, UNCHANGED <<room, property, dynamic, unsure>>
    PROVE  CallsOK' /\ ScriptCallsOK' /\ FlagOK'
<1>1. handler' = [handler EXCEPT ![h] = c] /\ calls' \in 0 .. MaxCalls /\ workload' = workload
  BY DEF Goto, SInv, RInv, CallsOK
<1>2. /\ CallsOK' /\ ScriptCallsOK'
      /\ handler'[h] = c /\ \A g \in Handlers \ {h} : handler'[g] = handler[g]
  BY <1>1, ScriptWritten
<1>3. c.op \in {"seedPrices", "none"}
  BY IdleKnows DEF PriceCall
<1>4. FlagOK'
  BY <1>2, <1>3, FlagAside DEF SInv, RInv, Here
<1> QED
  BY <1>2, <1>4

\* The script of the prices deletes the rules of a season.
LEMMA PricesCleared == ASSUME SInv, NEW h \in Handlers, ClearPrices(h) PROVE SInv'
<1>1. PICK found : found = handler[h].left
  OBVIOUS
<1> DEFINE c == [handler[h] EXCEPT !.pc = "create"]
           left == {x \in rules : ~(x.room \in found /\ Cleared(x))}
<1>2. /\ handler[h].op = "seedPrices" /\ Goto(h, c) /\ handler[h] \in PriceCall
      /\ EditRules(left) /\ priced' = priced \ found /\ handmade' = handmade \ found
  BY <1>1 DEF ClearPrices, At, SInv, ScriptCallsOK
<1>3. c \in PriceCall
  BY <1>2 DEF PriceCall
<1> HIDE DEF c
<1>4. CallsOK' /\ ScriptCallsOK' /\ FlagOK'
  BY <1>2, <1>3, PriceGoes DEF EditRules
<1>5. Tables' /\ RulesOK' /\ StaysOK'
  <2>1. left \in SUBSET rules
    OBVIOUS
  <2>2. IsFiniteSet(left) /\ left \subseteq Rule /\ \A x \in left : x.room \in Here
    BY <2>1, FS_Subset DEF SInv, RInv, RulesOK
  <2> HIDE DEF left
  <2> QED BY <1>2, <2>2, RulesEdited DEF SInv
<1>6. PricesOK'
  <2>1. priced' \subseteq Rooms
    BY <1>2 DEF SInv, PricesOK
  <2>2. ASSUME NEW r \in Rooms \ handmade'
        PROVE  /\ PricedRules(r)' \subseteq SeasonRules(r)
               /\ r \in priced' => SeasonRules(r) \subseteq RulesOf(r)'
    <3>1. CASE r \in found
      <4>1. PricedRules(r)' = {}
        BY <1>2, <3>1 DEF EditRules, PricedRules, RulesOf, Cleared
      <4> QED BY <1>2, <3>1, <4>1
    <3>2. CASE r \notin found
      <4>1. RulesOf(r)' = RulesOf(r)
        BY <1>2, <3>2 DEF EditRules, RulesOf
      <4>2. PricedRules(r)' = PricedRules(r) /\ r \notin handmade /\ (r \in priced' => r \in priced)
        BY <1>2, <3>2, <4>1 DEF PricedRules
      <4> QED BY <4>1, <4>2 DEF SInv, PricesOK
    <3> QED BY <3>1, <3>2
  <2>3. \A r : SeasonRules(r)' = SeasonRules(r)
    BY DEF SeasonRules
  <2> HIDE DEF left
  <2> QED BY <2>1, <2>2, <2>3 DEF PricesOK
<1> QED
  BY <1>4, <1>5, <1>6 DEF SInv, RInv

\* And writes those of one room after another.
LEMMA RoomPriced == ASSUME SInv, NEW h \in Handlers, PriceRoom(h) PROVE SInv'
<1>1. /\ handler[h].op = "seedPrices" /\ handler[h] \in PriceCall /\ handmade' = handmade
  BY DEF PriceRoom, At, SInv, ScriptCallsOK
<1>2. PICK r \in handler[h].left, listed \in BOOLEAN :
        IF listed => r \in Here
        THEN LET left == handler[h].left \ {r} IN
             /\ EditRules(IF listed THEN rules \cup SeasonRules(r) ELSE rules)
             /\ priced' = IF listed THEN priced \cup {r} ELSE priced
             /\ IF left = {} THEN Return(h) ELSE Goto(h, [handler[h] EXCEPT !.left = left])
        ELSE Return(h) /\ UNCHANGED <<roomVars, priced>>
  BY DEF PriceRoom
<1>3. r \in Rooms
  BY <1>1 DEF PriceCall
<1>4. PICK c : Goto(h, c) /\ (c = Idle \/ c \in PriceCall)
  <2>1. PICK left : left = handler[h].left \ {r}
    OBVIOUS
  <2>2. [handler[h] EXCEPT !.left = left] \in PriceCall
    BY <1>1, <2>1 DEF PriceCall
  <2>3. Goto(h, Idle) \/ Goto(h, [handler[h] EXCEPT !.left = left])
    BY <1>2, <2>1 DEF Return
  <2> QED BY <2>2, <2>3
<1>5. PICK new : /\ rules' = new
                 /\ \/ (new = rules \cup SeasonRules(r) /\ r \in Here /\ priced' = priced \cup {r})
                    \/ (new = rules /\ priced' = priced)
  BY <1>2 DEF EditRules, roomVars, tables
<1>6. EditRules(new)
  BY <1>2, <1>5 DEF EditRules, roomVars, tables
<1>7. CallsOK' /\ ScriptCallsOK' /\ FlagOK'
  BY <1>1, <1>4, <1>6, PriceGoes DEF EditRules
<1>8. Tables' /\ RulesOK' /\ StaysOK'
  <2>1. IsFiniteSet(rules) /\ IsFiniteSet(rules \cup SeasonRules(r))
    BY <1>3, SeasonRule, FS_Union DEF SInv, RInv, RulesOK
  <2>2. \A x \in rules : x \in Rule /\ x.room \in Here
    BY DEF SInv, RInv, RulesOK
  <2>3. r \in Here => \A x \in SeasonRules(r) : x \in Rule /\ x.room \in Here
    BY <1>3, SeasonRule
  <2> HIDE DEF Rule
  <2>4. IsFiniteSet(new) /\ \A x \in new : x \in Rule /\ x.room \in Here
    BY <1>5, <2>1, <2>2, <2>3
  <2> QED BY <1>6, <2>4, RulesEdited DEF SInv
<1>9. PricesOK'
  <2>1. priced' \subseteq Rooms
    BY <1>3, <1>5 DEF SInv, PricesOK
  <2>2. ASSUME NEW q \in Rooms \ handmade'
        PROVE  /\ PricedRules(q)' \subseteq SeasonRules(q)
               /\ q \in priced' => SeasonRules(q) \subseteq RulesOf(q)'
    <3>1. /\ PricedRules(q) \subseteq SeasonRules(q)
          /\ q \in priced => SeasonRules(q) \subseteq RulesOf(q)
      BY <1>1 DEF SInv, PricesOK
    <3>2. RulesOf(q)' = RulesOf(q) \cup {x \in new : x.room = q} /\ RulesOf(q) = {x \in rules : x.room = q}
      BY <1>5 DEF RulesOf
    <3>3. \A x \in SeasonRules(r) : x.room = r
      BY <1>3, SeasonRule
    <3>4. CASE q = r
      <4>1. PricedRules(q)' \subseteq PricedRules(q) \cup SeasonRules(q)
        BY <1>5, <3>4 DEF PricedRules, RulesOf
      <4>2. q \in priced' => SeasonRules(q) \subseteq RulesOf(q)'
        BY <1>5, <3>1, <3>2, <3>3, <3>4
      <4> QED BY <3>1, <4>1, <4>2
    <3>5. CASE q # r
      <4>1. RulesOf(q)' = RulesOf(q)
        BY <1>5, <3>2, <3>3, <3>5
      <4>2. PricedRules(q)' = PricedRules(q) /\ (q \in priced' => q \in priced)
        BY <1>5, <3>5, <4>1 DEF PricedRules
      <4> QED BY <3>1, <4>1, <4>2
    <3> QED BY <3>4, <3>5
  <2>3. \A q : SeasonRules(q)' = SeasonRules(q)
    BY DEF SeasonRules
  <2> QED BY <2>1, <2>2, <2>3 DEF PricesOK
<1> QED
  BY <1>7, <1>8, <1>9 DEF SInv, RInv

-----------------------------------------------------------------------------
\* The scripts that restore and clear the bookings.
LEMMA BookingsRestored == ASSUME SInv, RestoreBookings PROVE RInv' /\ handler' = handler
<1>1. PICK excluded \in SUBSET stays :
        WriteStays({IF s.st = "CANCELLED" /\ s \notin excluded
                    THEN [s EXCEPT !.st = "CONFIRMED"] ELSE s : s \in stays})
  BY DEF RestoreBookings
<1> DEFINE back(s) == IF s.st = "CANCELLED" /\ s \notin excluded
                      THEN [s EXCEPT !.st = "CONFIRMED"] ELSE s
           new == {back(s) : s \in stays}
           f == [s \in stays |-> back(s)]
<1>2. f \in Surjection(stays, new)
  BY DEF Surjection
<1>3. IsFiniteSet(stays) /\ Cardinality(stays) \in Nat /\ Cardinality(stays) <= MaxStays
  BY FS_CardinalityType DEF SInv, RInv, StaysOK
<1>4. IsFiniteSet(new) /\ Cardinality(new) <= Cardinality(stays)
  <2> HIDE DEF f, new
  <2> QED BY <1>2, <1>3, FS_Surjection
<1>5. ASSUME NEW s \in stays PROVE back(s) \in Stay
  <2>1. s \in Stay
    BY DEF SInv, RInv, StaysOK
  <2>2. [s EXCEPT !.st = "CONFIRMED"] \in Stay
    BY <2>1 DEF Stay, StayStatuses
  <2> HIDE DEF Stay
  <2> QED BY <2>1, <2>2
<1>6. \A t \in new : t \in Stay
  BY <1>5
<1>7. WriteStays(new) /\ AtOnce("restore")
  BY <1>1 DEF RestoreBookings
<1> HIDE DEF new
<1>8. Cardinality(new) <= MaxStays
  <2>1. Cardinality(new) \in Nat
    BY <1>4, FS_CardinalityType
  <2> QED BY <1>3, <1>4, <2>1, RoomsAssumption
<1>9. Tables' /\ RulesOK' /\ StaysOK' /\ UNCHANGED <<room, property, dynamic, unsure>>
  BY <1>4, <1>6, <1>7, <1>8, StaysWritten DEF SInv
<1> QED
  BY <1>7, <1>9, EditKept DEF SInv, AtOnce

\* The bookings are deleted, and no call moves.
LEMMA BookingsCleared == ASSUME SInv, ClearBookings PROVE RInv' /\ handler' = handler
<1>1. WriteStays({}) /\ AtOnce("clearBookings")
  BY DEF ClearBookings
<1>2. IsFiniteSet({}) /\ Cardinality({}) <= MaxStays
  BY FS_EmptySet, RoomsAssumption
<1>3. Tables' /\ RulesOK' /\ StaysOK' /\ UNCHANGED <<room, property, dynamic, unsure>>
  BY <1>1, <1>2, StaysWritten DEF SInv
<1> QED
  BY <1>1, <1>3, EditKept DEF SInv, AtOnce

\* The scripts that restore or delete bookings keep the invariant.
LEMMA BookingScripts == ASSUME SInv, Beside(RestoreBookings \/ ClearBookings) PROVE SInv'
<1>1. RInv' /\ handler' = handler
  BY BookingsRestored, BookingsCleared DEF Beside
<1>2. ScriptCallsOK'
  BY <1>1, CallsLeft DEF SInv
<1>3. PricesOK'
  BY PricesLeft DEF Beside, SInv
<1> QED
  BY <1>1, <1>2, <1>3 DEF SInv

-----------------------------------------------------------------------------
(***************************************************************************)
(* The charts                                                              *)
(***************************************************************************)

\* The months follow one another from day 0, and the last day has a month after it.
LEMMA MonthsFollow ==
    /\ 1 \in DOMAIN MonthStart /\ MonthStart[1] = 0
    /\ \A m \in DOMAIN MonthStart :
          m \in Nat \ {0} /\ MonthStart[m] \in Nat /\ (m > 1 => m - 1 \in DOMAIN MonthStart)
    /\ \A m, n \in DOMAIN MonthStart : m < n => MonthStart[m] < MonthStart[n]
    /\ \E m \in DOMAIN MonthStart : MonthStart[m] > MaxDay
<1>1. PICK len \in Nat : len = Len(MonthStart) /\ DOMAIN MonthStart = 1 .. len
  BY FiguresAssumption
<1>2. \A m \in 1 .. len : MonthStart[m] \in Nat
  BY <1>1, FiguresAssumption
<1>3. 1 \in DOMAIN MonthStart
  BY <1>1, FiguresAssumption
<1> QED
  BY <1>1, <1>2, <1>3, FiguresAssumption

\* A day lies between the first of its month and the first of the next, and no other
\* month has it.
LEMMA MonthOfDay ==
    ASSUME NEW d \in Days
    PROVE  LET m == MonthOf(d) IN
           /\ m \in DOMAIN MonthStart /\ m + 1 \in DOMAIN MonthStart
           /\ MonthStart[m] <= d /\ d < MonthStart[m + 1]
<1>1. d \in Nat /\ d <= MaxDay /\ MaxDay \in Nat
  BY RoomsAssumption DEF Days
<1> DEFINE T == {n \in DOMAIN MonthStart : MonthStart[n] > d}
<1>2. T \in SUBSET Nat /\ T # {}
  BY <1>1, MonthsFollow
<1>3. PICK n \in T : \A k \in T : n <= k
  <2> HIDE DEF T
  <2> QED BY <1>2, LeastNatural
<1>4. n > 1 /\ n - 1 \in DOMAIN MonthStart /\ n - 1 \notin T /\ (n - 1) + 1 = n
  BY <1>1, <1>3, MonthsFollow
<1>5. MonthStart[n - 1] <= d
  BY <1>1, <1>4, MonthsFollow
<1> DEFINE Is(m) == MonthStart[m] <= d /\ (m + 1 \in DOMAIN MonthStart => d < MonthStart[m + 1])
<1>6. Is(n - 1)
  BY <1>3, <1>4, <1>5
<1>7. PICK m \in DOMAIN MonthStart : m = MonthOf(d) /\ Is(m)
  BY <1>4, <1>6 DEF MonthOf
<1>8. m + 1 \in DOMAIN MonthStart
  <2>1. PICK last \in DOMAIN MonthStart : MonthStart[last] > MaxDay
    BY MonthsFollow
  <2>2. m < last
    <3>1. CASE last < m
      BY <1>1, <1>7, <2>1, <3>1, MonthsFollow
    <3>2. CASE last = m
      BY <1>1, <1>7, <2>1, <3>2, MonthsFollow
    <3> QED BY <3>1, <3>2, MonthsFollow
  <2> QED BY <2>2, FiguresAssumption
<1> QED
  BY <1>7, <1>8

\* There is one month only that a day lies in.
LEMMA MonthIs ==
    ASSUME NEW d \in Days, NEW m \in DOMAIN MonthStart, m + 1 \in DOMAIN MonthStart,
           MonthStart[m] <= d, d < MonthStart[m + 1]
    PROVE  MonthOf(d) = m
<1>1. PICK n : n = MonthOf(d)
  OBVIOUS
<1>2. /\ n \in DOMAIN MonthStart /\ n + 1 \in DOMAIN MonthStart
      /\ MonthStart[n] <= d /\ d < MonthStart[n + 1]
  BY <1>1, MonthOfDay
<1>3. d \in Nat /\ m \in Nat /\ n \in Nat
  BY <1>2, MonthsFollow, RoomsAssumption DEF Days
<1>4. CASE m < n
  <2>1. MonthStart[m + 1] <= MonthStart[n]
    BY <1>2, <1>3, <1>4, MonthsFollow
  <2> QED BY <1>2, <1>3, <2>1, MonthsFollow
<1>5. CASE n < m
  <2>1. MonthStart[n + 1] <= MonthStart[m]
    BY <1>2, <1>3, <1>5, MonthsFollow
  <2> QED BY <1>2, <1>3, <2>1, MonthsFollow
<1> QED
  BY <1>1, <1>3, <1>4, <1>5

\* The first day after the bucket of d.
NextKey(d, period) ==
    CASE period = "DAILY" -> d + 1
      [] period = "WEEKLY" -> BucketKey(d, period) + WeekLength
      [] period = "MONTHLY" -> MonthStart[MonthOf(d) + 1]

\* The buckets of a period lie end to end, and the loop goes to the same day of the
\* next one.
LEMMA BucketsFollow ==
    ASSUME NEW d \in Days, NEW period \in Periods
    PROVE  LET key == BucketKey(d, period)
               next == NextKey(d, period)
           IN  /\ key \in Nat /\ next \in Nat /\ key <= d /\ d < next
               /\ Advance(d, period) = next + (d - key)
               /\ \A x \in Days : /\ key <= x /\ x < next => BucketKey(x, period) = key
                                  /\ x >= next => BucketKey(x, period) >= next
<1>1. d \in Nat /\ Days \subseteq Nat
  BY RoomsAssumption DEF Days
<1>2. CASE period = "DAILY"
  BY <1>1, <1>2 DEF BucketKey, NextKey, Advance
<1>3. CASE period = "WEEKLY"
  <2>1. PICK w \in Nat \ {0} : w = WeekLength
    BY FiguresAssumption
  <2>2. \A x \in Nat : /\ x \div w \in Int /\ x - (x % w) = w * (x \div w)
                       /\ w * (x \div w) <= x /\ x < w * (x \div w) + w
    BY Division
  <2>3. \A x : BucketKey(x, period) = x - (x % w)
    BY <1>3, <2>1 DEF BucketKey
  <2>4. PICK q \in Int : q = d \div w
    BY <1>1, <2>2
  <2>5. BucketKey(d, period) = w * q /\ w * q \in Int /\ w * q <= d /\ d < w * q + w
    BY <1>1, <2>2, <2>3, <2>4
  <2>6. q >= 0
    <3>1. CASE q <= -1
      <4>1. w * q <= w * (-1)
        BY <3>1
      <4> QED BY <1>1, <2>5, <4>1
    <3> QED BY <3>1
  <2>7. w * q >= 0
    BY <2>6
  <2>8. NextKey(d, period) = w * q + w /\ Advance(d, period) = d + w
    BY <1>3, <2>1, <2>5 DEF NextKey, Advance
  <2>9. ASSUME NEW x \in Days, w * q <= x, x < w * q + w
        PROVE  BucketKey(x, period) = w * q
    <3>1. x \div w = q
      BY <1>1, <2>9, QuotientIs
    <3> QED BY <1>1, <2>2, <2>3, <3>1
  <2>10. ASSUME NEW x \in Days, x >= w * q + w PROVE BucketKey(x, period) >= w * q + w
    <3>1. PICK p \in Int : p = x \div w
      BY <1>1, <2>2
    <3>2. BucketKey(x, period) = w * p /\ x < w * p + w /\ w * p \in Int
      BY <1>1, <2>2, <2>3, <3>1
    <3>3. p >= q + 1
      <4>1. CASE p <= q
        <5>1. w * p <= w * q
          BY <4>1
        <5> QED BY <1>1, <2>5, <2>10, <3>2, <5>1
      <4> QED BY <4>1
    <3>4. w * p >= w * (q + 1) /\ w * (q + 1) = w * q + w
      BY <3>3
    <3> QED BY <3>2, <3>4
  <2> QED BY <1>1, <2>5, <2>7, <2>8, <2>9, <2>10
<1>4. CASE period = "MONTHLY"
  <2>1. \A x : BucketKey(x, period) = MonthStart[MonthOf(x)]
    BY <1>4 DEF BucketKey
  <2>2. PICK m : m = MonthOf(d)
    OBVIOUS
  <2>3. /\ m \in DOMAIN MonthStart /\ m + 1 \in DOMAIN MonthStart
        /\ MonthStart[m] <= d /\ d < MonthStart[m + 1]
    BY <2>2, MonthOfDay
  <2>4. m \in Nat /\ MonthStart[m] \in Nat /\ MonthStart[m + 1] \in Nat
    BY <2>3, MonthsFollow
  <2>5. NextKey(d, period) = MonthStart[m + 1]
        /\ Advance(d, period) = MonthStart[m + 1] + d - MonthStart[m]
    BY <1>4, <2>2 DEF NextKey, Advance
  <2>6. ASSUME NEW x \in Days, MonthStart[m] <= x, x < MonthStart[m + 1]
        PROVE  BucketKey(x, period) = MonthStart[m]
    BY <2>1, <2>3, <2>6, MonthIs
  <2>7. ASSUME NEW x \in Days, x >= MonthStart[m + 1]
        PROVE  BucketKey(x, period) >= MonthStart[m + 1]
    <3>1. PICK n : n = MonthOf(x)
      OBVIOUS
    <3>2. n \in DOMAIN MonthStart /\ n + 1 \in DOMAIN MonthStart /\ x < MonthStart[n + 1]
      BY <3>1, MonthOfDay
    <3>3. n \in Nat /\ MonthStart[n] \in Nat /\ MonthStart[n + 1] \in Nat
      BY <3>2, MonthsFollow
    <3>4. n > m
      <4>1. CASE n <= m
        <5>1. MonthStart[n + 1] <= MonthStart[m + 1]
          BY <2>3, <2>4, <3>2, <3>3, <4>1, MonthsFollow
        <5> QED BY <1>1, <2>4, <2>7, <3>2, <3>3, <5>1
      <4> QED BY <2>4, <3>3, <4>1
    <3>5. MonthStart[n] >= MonthStart[m + 1]
      BY <2>3, <2>4, <3>2, <3>3, <3>4, MonthsFollow
    <3> QED BY <2>1, <3>1, <3>5
  <2> QED BY <1>1, <2>1, <2>2, <2>3, <2>4, <2>5, <2>6, <2>7
<1> QED
  BY <1>2, <1>3, <1>4 DEF Periods

\* What passes to each number from all the greater ones holds of every number up to n.
LEMMA Backwards ==
    ASSUME NEW n \in Nat, NEW S, \A k \in 0 .. n : k + 1 .. n \subseteq S => k \in S
    PROVE  0 .. n \subseteq S
<1> DEFINE T == {k \in 0 .. n : n - k \notin S}
<1> SUFFICES ASSUME NEW x \in 0 .. n, x \notin S PROVE FALSE
  OBVIOUS
<1>0. T # {}
  <2>1. n - x \in 0 .. n /\ n - (n - x) = x
    OBVIOUS
  <2> QED BY <2>1
<1>1. PICK k \in T : \A m \in T : k <= m
  <2>1. T \in SUBSET Nat OBVIOUS
  <2> HIDE DEF T
  <2> QED BY <1>0, <2>1, LeastNatural
<1>2. ASSUME NEW m \in n - k + 1 .. n PROVE m \in S
  <2>1. n - m \in 0 .. n /\ n - (n - m) = m /\ n - m < k
    BY <1>2
  <2> QED BY <1>1, <2>1
<1>3. n - k \in 0 .. n /\ n - k \notin S
  OBVIOUS
<1> QED
  BY <1>2, <1>3

\* The recursion of the loop has a solution: from d on, the days of every set that
\* has d and that the loop does not leave before it ends.
LEMMA LoopRuns ==
    ASSUME NEW end \in Days, NEW period \in Periods, NEW d \in Nat
    PROVE  Visited(d, end, period) =
              IF d <= end THEN {d} \cup Visited(Advance(d, period), end, period) ELSE {}
<1>1. end \in Nat /\ end <= MaxDay /\ 0 .. end \subseteq Days
  BY RoomsAssumption DEF Days
<1>2. \A e \in 0 .. end : Advance(e, period) \in Nat /\ Advance(e, period) > e
  <2> SUFFICES ASSUME NEW e \in 0 .. end
               PROVE  Advance(e, period) \in Nat /\ Advance(e, period) > e
    OBVIOUS
  <2>1. PICK key, next : /\ key = BucketKey(e, period) /\ next = NextKey(e, period)
    OBVIOUS
  <2>2. key \in Nat /\ next \in Nat /\ key <= e /\ e < next
        /\ Advance(e, period) = next + (e - key)
    BY <1>1, <2>1, BucketsFollow
  <2> QED BY <2>2
<1> DEFINE Goes(S) == \A e \in S : Advance(e, period) <= end => Advance(e, period) \in S
           Reach(e) == {x \in 0 .. end : \A S \in SUBSET (0 .. end) : e \in S /\ Goes(S) => x \in S}
           all == [e \in Nat |-> IF e <= end THEN Reach(e) ELSE {}]
<1>3. ASSUME NEW e \in 0 .. end
      PROVE  Reach(e) = {e} \cup (IF Advance(e, period) <= end THEN Reach(Advance(e, period)) ELSE {})
  <2>1. PICK n \in Nat : n = Advance(e, period)
    BY <1>2
  <2>2. CASE n > end
    <3>1. {e} \in SUBSET (0 .. end) /\ Goes({e})
      BY <1>1, <2>1, <2>2
    <3> QED BY <1>1, <2>1, <2>2, <3>1
  <2>3. CASE n <= end
    <3>1. n \in 0 .. end
      BY <2>3
    <3>2. ASSUME NEW x \in Reach(n) PROVE x \in Reach(e)
      BY <2>1, <2>3, <3>2
    <3>3. ASSUME NEW x \in Reach(e), x # e, NEW S \in SUBSET (0 .. end), n \in S, Goes(S)
          PROVE  x \in S
      <4>1. S \cup {e} \in SUBSET (0 .. end) /\ Goes(S \cup {e})
        BY <2>1, <3>3
      <4> QED BY <3>3, <4>1
    <3>4. Reach(e) \subseteq {e} \cup Reach(n)
      BY <3>3
    <3> QED BY <2>1, <2>3, <3>2, <3>4
  <2> QED BY <1>1, <2>2, <2>3
<1>4. all = [e \in Nat |-> IF LoopOn(e, end) THEN {e} \cup all[Advance(e, period)] ELSE {}]
  <2>1. ASSUME NEW e \in Nat, e <= end PROVE Reach(e) = {e} \cup all[Advance(e, period)]
    <3>1. e \in 0 .. end /\ Advance(e, period) \in Nat
      BY <1>2, <2>1
    <3> HIDE DEF Reach
    <3> QED BY <1>3, <3>1
  <2> HIDE DEF Reach
  <2> QED BY <2>1 DEF LoopOn
<1> HIDE DEF Reach, all
<1> DEFINE visit == CHOOSE v :
               v = [e \in Nat |-> IF LoopOn(e, end) THEN {e} \cup v[Advance(e, period)] ELSE {}]
<1>5. visit = [e \in Nat |-> IF LoopOn(e, end) THEN {e} \cup visit[Advance(e, period)] ELSE {}]
  BY <1>4
<1>6. \A e : Visited(e, end, period) = visit[e]
  BY DEF Visited
<1> HIDE DEF visit
<1> QED
  BY <1>5, <1>6 DEF LoopOn

\* How far a day lies into its bucket.
Offset(d, period) == d - BucketKey(d, period)

\* Every bucket after that of start, up to the one of end, has a day as far into it.
Even(start, end, period) ==
    \A z \in 0 .. end : BucketKey(z, period) > start =>
        Offset(start, period) < NextKey(z, period) - BucketKey(z, period)

\* The loop visits a day and its bucket's successor begins by then: the day visited
\* next lies in that bucket, as far as this one lies in its own.
LEMMA AsFarIntoTheNext ==
    ASSUME NEW end \in Days, NEW period \in Periods, NEW d \in 0 .. end,
           Even(d, end, period), NEW x \in Days,
           NextKey(d, period) <= x, x <= Advance(d, period), NextKey(d, period) <= end
    PROVE  /\ BucketKey(x, period) = NextKey(d, period)
           /\ BucketKey(Advance(d, period), period) = NextKey(d, period) \/ Advance(d, period) > end
           /\ d < NextKey(d, period)
<1>1. end \in Nat /\ 0 .. end \subseteq Days /\ Days \subseteq Nat
  BY RoomsAssumption DEF Days
<1>2. PICK key, next, n : /\ key = BucketKey(d, period) /\ next = NextKey(d, period)
                          /\ n = Advance(d, period)
  OBVIOUS
<1>3. key \in Nat /\ next \in Nat /\ key <= d /\ d < next /\ n = next + (d - key)
  BY <1>1, <1>2, BucketsFollow
<1>4. next \in 0 .. end /\ next \in Days
  BY <1>1, <1>2, <1>3
<1>5. BucketKey(next, period) = next
  <2>1. BucketKey(next, period) >= next
    BY <1>1, <1>2, <1>4, BucketsFollow
  <2>2. BucketKey(next, period) \in Nat /\ BucketKey(next, period) <= next
    BY <1>4, BucketsFollow
  <2> QED BY <1>3, <2>1, <2>2
<1>6. PICK after \in Nat : after = NextKey(next, period)
  BY <1>4, BucketsFollow
<1>7. d - key < after - next
  BY <1>1, <1>2, <1>3, <1>4, <1>5, <1>6 DEF Even, Offset
<1>8. \A y \in Days : next <= y /\ y < after => BucketKey(y, period) = next
  BY <1>4, <1>5, <1>6, BucketsFollow
<1>9. n < after
  BY <1>1, <1>3, <1>6, <1>7
<1>10. n <= end => n \in Days /\ next <= n
  BY <1>1, <1>3
<1> QED
  BY <1>1, <1>2, <1>3, <1>6, <1>8, <1>9, <1>10

\* The days that the loop visits: it reaches the next one from each until it passes
\* the end, leaves none between, and visits each bucket as far into it as the first.
LEMMA Visits ==
    ASSUME NEW end \in Days, NEW period \in Periods, NEW start \in 0 .. end
    PROVE  LET days == Visited(start, end, period) IN
           /\ days \subseteq start .. end
           /\ \A d \in days : Advance(d, period) <= end => Advance(d, period) \in days
           /\ \A x \in start .. end : \E d \in days : d <= x /\ x < Advance(d, period)
           /\ Even(start, end, period) =>
                 \A d \in days : /\ Offset(d, period) = Offset(start, period)
                                 /\ Even(d, end, period)
<1>1. end \in Nat /\ 0 .. end \subseteq Days /\ Days \subseteq Nat
  BY RoomsAssumption DEF Days
<1> DEFINE Good(e, days) ==
             /\ days \subseteq e .. end
             /\ \A d \in days : Advance(d, period) <= end => Advance(d, period) \in days
             /\ \A x \in e .. end : \E d \in days : d <= x /\ x < Advance(d, period)
             /\ Even(e, end, period) => \A d \in days : /\ Offset(d, period) = Offset(e, period)
                                                        /\ Even(d, end, period)
           S == {e \in 0 .. end : Good(e, Visited(e, end, period))}
<1>2. ASSUME NEW e \in 0 .. end, e + 1 .. end \subseteq S PROVE e \in S
  <2>1. PICK n, days, rest : /\ n = Advance(e, period) /\ days = Visited(e, end, period)
                             /\ rest = Visited(n, end, period)
    OBVIOUS
  <2>2. PICK key, next : key = BucketKey(e, period) /\ next = NextKey(e, period)
    OBVIOUS
  <2>3. key \in Nat /\ next \in Nat /\ key <= e /\ e < next /\ n = next + (e - key)
    BY <1>1, <2>1, <2>2, BucketsFollow
  <2>4. n \in Nat /\ n > e
    BY <1>1, <2>3
  <2>5. days = {e} \cup rest
    BY <1>1, <2>1, LoopRuns
  <2>6. CASE n > end
    <3>1. rest = {}
      BY <1>1, <2>1, <2>4, <2>6, LoopRuns
    <3>2. days = {e}
      BY <2>5, <3>1
    <3>3. Good(e, days)
      BY <1>1, <2>1, <2>4, <2>6, <3>2
    <3> QED BY <2>1, <3>3
  <2>7. CASE n <= end
    <3>1. n \in e + 1 .. end /\ n \in Days
      BY <1>1, <2>4, <2>7
    <3>2. Good(n, rest)
      BY <1>2, <2>1, <3>1
    <3> HIDE DEF S
    <3>3. days \subseteq e .. end
      BY <1>1, <2>4, <2>5, <3>2
    <3>4. n \in rest
      BY <1>1, <2>1, <2>4, <2>7, LoopRuns
    <3>5. \A d \in days : Advance(d, period) <= end => Advance(d, period) \in days
      BY <2>1, <2>5, <3>2, <3>4
    <3>6. \A x \in e .. end : \E d \in days : d <= x /\ x < Advance(d, period)
      <4> SUFFICES ASSUME NEW x \in e .. end
                   PROVE  \E d \in days : d <= x /\ x < Advance(d, period)
        OBVIOUS
      <4>1. CASE x < n
        BY <2>1, <2>5, <4>1
      <4>2. CASE x >= n
        <5>1. x \in n .. end
          BY <1>1, <2>4, <4>2
        <5> QED BY <2>5, <3>2, <5>1
      <4> QED BY <1>1, <2>4, <4>1, <4>2
    <3>7. ASSUME Even(e, end, period)
          PROVE  \A d \in days : Offset(d, period) = Offset(e, period) /\ Even(d, end, period)
      <4>1. BucketKey(n, period) = next
        <5>1. next <= n /\ next <= end
          BY <1>1, <2>3, <2>7
        <5>2. /\ n \in Days /\ NextKey(e, period) <= n /\ n <= Advance(e, period)
              /\ NextKey(e, period) <= end
          BY <2>1, <2>2, <2>4, <3>1, <5>1
        <5> QED BY <2>2, <3>7, <5>2, AsFarIntoTheNext
      <4>2. Offset(n, period) = Offset(e, period)
        BY <1>1, <2>2, <2>3, <4>1 DEF Offset
      <4>3. ASSUME NEW z \in 0 .. end, BucketKey(z, period) > n PROVE BucketKey(z, period) > e
        <5>1. BucketKey(z, period) \in Nat
          BY <1>1, BucketsFollow
        <5> QED BY <1>1, <2>4, <4>3, <5>1
      <4>4. Even(n, end, period)
        BY <3>7, <4>2, <4>3 DEF Even
      <4> QED BY <2>5, <3>2, <3>7, <4>2, <4>4
    <3>8. Good(e, days)
      BY <3>3, <3>5, <3>6, <3>7
    <3> QED BY <2>1, <3>8 DEF S
  <2> QED BY <1>1, <2>4, <2>6, <2>7
<1>3. 0 .. end \subseteq S
  <2> HIDE DEF S
  <2> QED BY <1>1, <1>2, Backwards
<1> QED
  BY <1>3

\* A day of the window lies in a bucket of the chart, unless the window ends earlier
\* in its last bucket than it begins in its first, and the day is of the last.
LEMMA DaysAreCharted ==
    ASSUME NEW end \in Days, NEW period \in Periods, NEW start \in 0 .. end,
           Even(start, end, period), NEW x \in start .. end,
           BucketKey(x, period) \notin Buckets(start, end, period)
    PROVE  /\ BucketKey(x, period) = BucketKey(end, period)
           /\ Offset(end, period) < Offset(start, period)
<1>1. end \in Nat /\ 0 .. end \subseteq Days /\ Days \subseteq Nat /\ x \in 0 .. end
  BY RoomsAssumption DEF Days
<1>2. PICK d \in Visited(start, end, period) : d <= x /\ x < Advance(d, period)
  BY Visits
<1>3. /\ d \in 0 .. end /\ Even(d, end, period)
      /\ Offset(d, period) = Offset(start, period)
      /\ Advance(d, period) <= end => Advance(d, period) \in Visited(start, end, period)
  <2>1. d \in start .. end
    BY Visits
  <2> QED BY <1>1, <2>1, Visits
<1>4. PICK key, next, n : /\ key = BucketKey(d, period) /\ next = NextKey(d, period)
                          /\ n = Advance(d, period)
  OBVIOUS
<1>5. key \in Nat /\ next \in Nat /\ key <= d /\ d < next /\ n = next + (d - key)
  BY <1>1, <1>3, <1>4, BucketsFollow
<1>6. \A y \in Visited(start, end, period) : BucketKey(x, period) # BucketKey(y, period)
  BY DEF Buckets
<1>7. x >= next
  <2>1. CASE x < next
    <3>1. BucketKey(x, period) = key
      BY <1>1, <1>2, <1>3, <1>4, <1>5, <2>1, BucketsFollow
    <3> QED BY <1>2, <1>4, <1>6, <3>1
  <2> QED BY <1>1, <1>5, <2>1
<1>8. next <= end /\ x <= n
  BY <1>1, <1>2, <1>4, <1>5, <1>7
<1>9. BucketKey(x, period) = next /\ (BucketKey(n, period) = next \/ n > end)
  BY <1>1, <1>3, <1>4, <1>7, <1>8, AsFarIntoTheNext
<1>10. n > end
  BY <1>1, <1>3, <1>4, <1>5, <1>6, <1>9
<1>11. BucketKey(end, period) = next
  <2>1. NextKey(d, period) <= end /\ end <= Advance(d, period)
    BY <1>1, <1>4, <1>5, <1>8, <1>10
  <2> QED BY <1>3, <1>4, <2>1, AsFarIntoTheNext
<1>12. Offset(start, period) = d - key
  BY <1>3, <1>4 DEF Offset
<1> QED
  BY <1>1, <1>3, <1>5, <1>9, <1>10, <1>11, <1>12 DEF Offset

\* Days and weeks are all as long, and so are months as far as the window needs it.
LEMMA EvenPeriods ==
    ASSUME NEW end \in Days, NEW period \in Periods, NEW start \in 0 .. end,
           period = "MONTHLY" => ~Overflows(start, end)
    PROVE  Even(start, end, period)
<1>1. end \in Nat /\ 0 .. end \subseteq Days /\ Days \subseteq Nat /\ start \in Days
  BY RoomsAssumption DEF Days
<1> SUFFICES ASSUME NEW z \in 0 .. end, BucketKey(z, period) > start
             PROVE  Offset(start, period) < NextKey(z, period) - BucketKey(z, period)
  BY DEF Even
<1>2. CASE period = "DAILY"
  BY <1>1, <1>2 DEF Offset, BucketKey, NextKey
<1>3. CASE period = "WEEKLY"
  <2>1. PICK w \in Nat \ {0} : w = WeekLength
    BY FiguresAssumption
  <2>2. NextKey(z, period) = BucketKey(z, period) + w
        /\ NextKey(start, period) = BucketKey(start, period) + w
    BY <1>3, <2>1 DEF NextKey
  <2>3. BucketKey(z, period) \in Nat /\ BucketKey(start, period) \in Nat
        /\ start < BucketKey(start, period) + w
    BY <1>1, <2>2, BucketsFollow
  <2> QED BY <1>1, <2>2, <2>3 DEF Offset
<1>4. CASE period = "MONTHLY"
  <2>1. PICK m : m = MonthOf(z)
    OBVIOUS
  <2>2. m \in DOMAIN MonthStart /\ m + 1 \in DOMAIN MonthStart /\ MonthStart[m] <= z
    BY <1>1, <2>1, MonthOfDay
  <2>3. BucketKey(z, period) = MonthStart[m] /\ NextKey(z, period) = MonthStart[m + 1]
        /\ Offset(start, period) = start - MonthStart[MonthOf(start)]
    BY <1>4, <2>1 DEF BucketKey, NextKey, Offset
  <2>4. MonthStart[m] \in Nat /\ MonthStart[m + 1] \in Nat /\ MonthStart[MonthOf(start)] \in Nat
    BY <1>1, <2>2, MonthOfDay, MonthsFollow
  <2>5. MonthStart[m] > start /\ MonthStart[m] <= end
    BY <1>1, <2>2, <2>3, <2>4
  <2>6. ~(start - MonthStart[MonthOf(start)] >= MonthStart[m + 1] - MonthStart[m])
    BY <1>4, <2>2, <2>5 DEF Overflows
  <2> QED BY <1>1, <2>3, <2>4, <2>6
<1> QED
  BY <1>2, <1>3, <1>4 DEF Periods

\* What the chart leaves out of the revenue beside it, whatever stays there are.
LEMMA ChartsAdd == StaysOK => ChartAddsUp
<1> SUFFICES ASSUME StaysOK, NEW w \in Pairs, NEW period \in Periods
             PROVE  LET missing == Earned(w[1], w[2]) \ Charted(w[1], w[2], period)
                        early == w[2] - BucketKey(w[2], period) < w[1] - BucketKey(w[1], period)
                    IN  /\ \A s \in Reported(w[1], w[2]) \ Earned(w[1], w[2]) : s.to < s.from
                        /\ missing # {} => period # "DAILY"
                        /\ (missing # {} /\ (period = "WEEKLY" \/ ~Overflows(w[1], w[2]))) =>
                              /\ early
                              /\ \A s \in missing : BucketKey(s.from, period) = BucketKey(w[2], period)
  BY DEF ChartAddsUp
<1>1. PICK start, end : start = w[1] /\ end = w[2]
  OBVIOUS
<1>2. end \in Days /\ end \in Nat /\ start \in Nat
  BY <1>1, RoomsAssumption DEF Pairs, Days
<1>3. \A s \in stays : s.from \in Nat /\ s.to \in Nat
  BY RoomsAssumption DEF StaysOK, Stay, Days
<1>4. \A s \in Reported(start, end) \ Earned(start, end) : s.to < s.from
  BY <1>2, <1>3 DEF Reported, Earned
<1> DEFINE missing == Earned(start, end) \ Charted(start, end, period)
<1>5. ASSUME NEW s \in missing
      PROVE  start \in 0 .. end /\ s \in Earned(start, end) /\ s.from \in start .. end
  BY <1>2 DEF Earned
<1>6. ASSUME NEW s \in missing, period = "MONTHLY" => ~Overflows(start, end)
      PROVE  /\ BucketKey(s.from, period) = BucketKey(end, period)
             /\ Offset(end, period) < Offset(start, period)
  <2>1. start \in 0 .. end /\ s \in Earned(start, end) /\ s.from \in start .. end
    BY <1>5
  <2>2. BucketKey(s.from, period) \notin Buckets(start, end, period)
    BY <2>1 DEF Charted, Bar
  <2> QED BY <1>2, <1>6, <2>1, <2>2, DaysAreCharted, EvenPeriods
<1>7. missing # {} => period # "DAILY"
  <2>1. ASSUME NEW s \in missing, period = "DAILY" PROVE FALSE
    <3>1. Offset(end, period) < Offset(start, period)
      BY <1>6, <2>1
    <3> QED BY <1>2, <2>1, <3>1 DEF Offset, BucketKey
  <2> QED BY <2>1
<1>8. (missing # {} /\ (period = "WEEKLY" \/ ~Overflows(start, end))) =>
        /\ end - BucketKey(end, period) < start - BucketKey(start, period)
        /\ \A s \in missing : BucketKey(s.from, period) = BucketKey(end, period)
  BY <1>6 DEF Offset
<1> QED
  BY <1>1, <1>4, <1>7, <1>8

-----------------------------------------------------------------------------
(***************************************************************************)
(* The invariant                                                           *)
(***************************************************************************)
LEMMA ScriptStarted == ScriptInit => SInv
<1> SUFFICES ASSUME ScriptInit PROVE SInv
  OBVIOUS
<1>1. RInv
  BY Started DEF ScriptInit, Init
<1>2. \A h \in Handlers : handler[h].op = "none"
  BY IdleKnows DEF ScriptInit, RequestsInit
<1>3. ScriptCallsOK
  BY <1>2 DEF ScriptCallsOK
<1>4. PricesOK
  BY DEF ScriptInit, RoomsInit, PricesOK, PricedRules, RulesOf
<1> QED
  BY <1>1, <1>3, <1>4 DEF SInv

\* Every step keeps the invariant, and stuttering does.
LEMMA ScriptStepKeeps == SInv /\ ScriptNext => SInv'
<1> SUFFICES ASSUME SInv, ScriptNext PROVE SInv'
  OBVIOUS
<1>1. ASSUME NEW h \in Handlers, PriceSteps(h) PROVE SInv'
  BY <1>1, PricesBegun, PricesCleared, RoomPriced DEF PriceSteps
<1> QED
  BY <1>1, NextBeside, SeedBeside, BookingScripts DEF ScriptNext

\* A step in which nothing happens.
LEMMA ScriptStutterKeeps == SInv /\ UNCHANGED scriptVars => SInv'
<1> SUFFICES ASSUME SInv, UNCHANGED scriptVars PROVE SInv'
  OBVIOUS
<1>1. RInv'
  BY StutterKeeps DEF SInv, scriptVars
<1>2. ScriptCallsOK'
  BY CallsLeft DEF SInv, scriptVars, vars, requests
<1>3. PricesOK'
  BY DEF SInv, PricesOK, PricedRules, RulesOf, SeasonRules, scriptVars, priceVars, vars, roomVars, tables
<1> QED
  BY <1>1, <1>2, <1>3 DEF SInv

\* The same invariant, with what the scripts know and write, holds while they run.
THEOREM ScriptsInductive == ScriptSpec => []SInv
<1>1. SInv /\ [ScriptNext]_scriptVars => SInv'
  BY ScriptStepKeeps, ScriptStutterKeeps
<1> QED
  BY ScriptStarted, <1>1, PTL DEF ScriptSpec

\* The tables and calls of rooms.service.ts keep their types beside the scripts, and
\* no more stays are stored than bookings were made.
THEOREM TypesHold == ScriptSpec => []TypeOK
<1>1. SInv => TypeOK
  BY TypesFollow DEF SInv, RInv
<1> QED
  BY ScriptsInductive, <1>1, PTL

\* hasDynamicRooms says whether the property has rooms once nobody is changing them,
\* whatever creations, removals, moves and runs of seed-incanto-rooms.ts overlap, but
\* for the orders that FlagFollowsRooms names: each of these alone leaves it wrong.
THEOREM FlagHolds == ScriptSpec => []FlagFollowsRooms
<1>1. SInv => FlagFollowsRooms
  BY FlagFollows DEF SInv, RInv
<1> QED
  BY ScriptsInductive, <1>1, PTL

\* What the search offers is free on the calendar and in the occupancy, whatever
\* property a booking names; what getRoomAvailability and the dashboard show as free
\* has no guest but of another property than the room's, as OfferedIsFree says.
THEOREM OffersHold == ScriptSpec => []OfferedIsFree
<1>1. SInv => OfferedIsFree
  BY OfferedFree DEF SInv, RInv
<1> QED
  BY ScriptsInductive, <1>1, PTL

\* The search leaves out a room with free nights only for what touches their ends, or
\* for a closure or a booking that ends where it begins or before.
THEOREM FreeHolds == ScriptSpec => []FreeIsOffered
<1>1. SInv => FreeIsOffered
  BY FreeOffered DEF SInv, RInv
<1> QED
  BY ScriptsInductive, <1>1, PTL

\* create turns down what the search offers only for a stay on the day of change.
THEOREM AcceptedHolds == ScriptSpec => []OfferedIsAccepted
<1>1. SInv => OfferedIsAccepted
  BY OfferedAccepted DEF SInv, RInv
<1> QED
  BY ScriptsInductive, <1>1, PTL

\* The price per night that the search shows is what create charges, whatever the
\* rules are, as long as no night has two of them.
THEOREM QuotesHold == ScriptSpec => []QuoteIsCharged
<1>1. SInv => QuoteIsCharged
  BY QuoteCharged DEF SInv, RInv
<1> QED
  BY ScriptsInductive, <1>1, PTL

\* A cancellation gives back what the policy says of any price and at any hour, and
\* nothing of a price below zero.
THEOREM RefundsHold == ScriptSpec => []RefundIsFair
<1>1. SInv => RefundIsFair
  BY RefundsFair DEF SInv, RInv
<1> QED
  BY ScriptsInductive, <1>1, PTL

\* seed-incanto-pricing.ts is safe to run again: a room it has done is quoted and
\* charged at the price of the season, until somebody else edits its rules.
THEOREM SeasonsHold == ScriptSpec => []SeasonsArePriced
<1>1. SInv => SeasonsArePriced
  BY Priced DEF SInv
<1> QED
  BY ScriptsInductive, <1>1, PTL

\* The bars of the dashboard add up to the revenue beside them, whatever the stays
\* (those that end before they begin included), the window and the lengths of weeks
\* and months: all that is left out is the last bar of a window that ends earlier in
\* it than it begins, and what a month too short for the first day leaves over.
THEOREM ChartsHold == ScriptSpec => []ChartAddsUp
<1>1. SInv => ChartAddsUp
  BY ChartsAdd DEF SInv, RInv
<1> QED
  BY ScriptsInductive, <1>1, PTL

\* The edits of updateAvailability show while the scripts run, too.
THEOREM EditsShowBeside == ScriptSpec => AvailabilityEditsShow
<1>1. SInv => \A r \in Rooms, d \in Pairs :
        /\ OpenRange(r, d[1], d[2]) => \A n \in d[1] .. d[2] : CalendarOpen(r, n)'
        /\ CloseRange(r, d[1], d[2]) =>
              /\ \A n \in Days : CalendarOpen(r, n)' <=> CalendarOpen(r, n) /\ n \notin d[1] .. d[2]
              /\ \A e \in Nights : e[1] <= d[2] /\ e[2] > d[1] => ~Offered(r, e[1], e[2])'
  BY EditShows DEF SInv
<1> QED
  BY ScriptsInductive, <1>1, PTL DEF AvailabilityEditsShow

=============================================================================
