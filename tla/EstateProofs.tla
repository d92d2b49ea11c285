---------------------------- MODULE EstateProofs ----------------------------
(***************************************************************************)
(* Proofs about Estate, for any properties, groups, bookings, handlers and *)
(* bounds: the inductive invariant EInv and the invariants of its five     *)
(* parts.  EInv says what each running call may rely on, and for every     *)
(* property that is neither astray nor tangled, how far the one call on it *)
(* has come.                                                               *)
(***************************************************************************)
EXTENDS Estate, PricesProofs, SequenceTheorems

-----------------------------------------------------------------------------
(***************************************************************************)
(* Means of ratings                                                        *)
(***************************************************************************)

\* What a review of table r counts.
Counts(r, v) == IF r[v].clean = Null THEN 0 ELSE r[v].clean

First(s) == CHOOSE v \in s : TRUE

SumOf(r, S) == FoldSet(LAMBDA v, sum : Counts(r, v) + sum, 0, S)

MeanOf(r, S) == RoundDiv(100 * SumOf(r, S), Cardinality(S))

\* The sums of the sets of at most k reviews, each from a smaller one.
SumsUpTo(r, S, k) ==
    {it \in [{s \in SUBSET S : Cardinality(s) <= k} -> Nat] :
        \A s \in SUBSET S : Cardinality(s) <= k =>
            it[s] = IF s = {} THEN 0 ELSE Counts(r, First(s)) + it[s \ {First(s)}]}

\* A set that is not empty has a first element, and one element less without it.
LEMMA OneLess ==
    ASSUME NEW S, IsFiniteSet(S), NEW s \in SUBSET S
    PROVE  /\ Cardinality(s) \in Nat
           /\ Cardinality(s) = 0 <=> s = {}
           /\ s # {} => /\ First(s) \in s /\ s \ {First(s)} \in SUBSET S
                        /\ Cardinality(s \ {First(s)}) = Cardinality(s) - 1
<1>1. IsFiniteSet(s)
  BY FS_Subset
<1>2. s # {} => First(s) \in s
  BY DEF First
<1> QED
  BY <1>1, <1>2, FS_CardinalityType, FS_EmptySet, FS_RemoveElement

\* The sums exist, however the elements are taken.
LEMMA SumsExist ==
    ASSUME NEW S, IsFiniteSet(S), NEW r, \A v \in S : Counts(r, v) \in Nat
    PROVE  \A k \in Nat : SumsUpTo(r, S, k) # {}
<1> SUFFICES ASSUME NEW n \in Nat PROVE SumsUpTo(r, S, n) # {}
  OBVIOUS
<1> DEFINE K == {k \in Nat : SumsUpTo(r, S, k) # {}}
<1>1. 0 \in K
  <2> DEFINE it == [s \in {s \in SUBSET S : Cardinality(s) <= 0} |-> 0]
  <2>1. it \in [{s \in SUBSET S : Cardinality(s) <= 0} -> Nat]
    OBVIOUS
  <2>2. ASSUME NEW s \in SUBSET S, Cardinality(s) <= 0 PROVE s = {} /\ it[s] = 0
    <3>1. Cardinality(s) \in Nat /\ (Cardinality(s) = 0 <=> s = {})
      BY OneLess
    <3>2. it[s] = 0
      BY <2>2
    <3> HIDE DEF it
    <3> QED BY <2>2, <3>1, <3>2
  <2> HIDE DEF it
  <2>3. it \in SumsUpTo(r, S, 0)
    BY <2>1, <2>2 DEF SumsUpTo
  <2> QED BY <2>3
<1>2. ASSUME NEW k \in 0 .. n - 1, k \in K PROVE k + 1 \in K
  <2>1. PICK old \in SumsUpTo(r, S, k) : TRUE
    BY <1>2
  <2>2. /\ old \in [{s \in SUBSET S : Cardinality(s) <= k} -> Nat]
        /\ \A s \in SUBSET S : Cardinality(s) <= k =>
            old[s] = IF s = {} THEN 0 ELSE Counts(r, First(s)) + old[s \ {First(s)}]
    BY <2>1 DEF SumsUpTo
  <2> DEFINE it == [s \in {s \in SUBSET S : Cardinality(s) <= k + 1} |->
                       IF Cardinality(s) <= k THEN old[s] ELSE Counts(r, First(s)) + old[s \ {First(s)}]]
  <2>3. ASSUME NEW s \in SUBSET S, Cardinality(s) <= k + 1
        PROVE  /\ it[s] \in Nat
               /\ it[s] = IF s = {} THEN 0 ELSE Counts(r, First(s)) + it[s \ {First(s)}]
    <3>1. it[s] = IF Cardinality(s) <= k THEN old[s] ELSE Counts(r, First(s)) + old[s \ {First(s)}]
      BY <2>3
    <3>2. CASE s = {}
      <4>1. Cardinality(s) = 0
        BY <3>2, OneLess
      <4>2. old[s] = 0
        <5>1. Cardinality(s) <= k
          BY <4>1
        <5>2. old[s] = IF s = {} THEN 0 ELSE Counts(r, First(s)) + old[s \ {First(s)}]
          BY <2>2, <5>1
        <5> QED BY <3>2, <5>2
      <4>3. it[s] = 0
        BY <3>1, <4>1, <4>2
      <4> HIDE DEF it
      <4> QED BY <3>2, <4>3
    <3>3. CASE s # {}
      <4> DEFINE t == s \ {First(s)}
      <4>1. t \in SUBSET S /\ Cardinality(t) <= k /\ First(s) \in S
        <5>1. /\ Cardinality(s) \in Nat /\ First(s) \in s /\ t \in SUBSET S
              /\ Cardinality(t) = Cardinality(s) - 1
          BY <3>3, OneLess
        <5> HIDE DEF t
        <5> QED BY <2>3, <5>1
      <4>2. it[t] = old[t]
        <5>1. Cardinality(t) <= k + 1
          <6>1. Cardinality(t) \in Nat
            BY <4>1, OneLess
          <6> HIDE DEF t
          <6> QED BY <4>1, <6>1
        <5> HIDE DEF t
        <5> QED BY <4>1, <5>1
      <4>3. old[t] \in Nat /\ Counts(r, First(s)) \in Nat
        BY <2>2, <4>1
      <4> HIDE DEF t
      <4>4. it[s] = Counts(r, First(s)) + old[t]
        BY <3>1, <3>3, <2>2 DEF t
      <4> HIDE DEF it
      <4> QED BY <3>3, <4>2, <4>3, <4>4 DEF t
    <3> QED BY <3>2, <3>3
  <2>4. it \in [{s \in SUBSET S : Cardinality(s) <= k + 1} -> Nat]
    <3>1. it = [s \in {s \in SUBSET S : Cardinality(s) <= k + 1} |-> it[s]]
      OBVIOUS
    <3> HIDE DEF it
    <3> QED BY <2>3, <3>1
  <2> HIDE DEF it
  <2>5. it \in SumsUpTo(r, S, k + 1)
    BY <2>3, <2>4 DEF SumsUpTo
  <2> QED BY <2>5
<1>3. 0 .. n \subseteq K
  <2> HIDE DEF K
  <2> QED BY <1>1, <1>2, UpTo
<1> QED
  BY <1>3

SumsOf(it, r, S) ==
    \A s \in SUBSET S : it[s] = IF s = {} THEN 0 ELSE Counts(r, First(s)) + it[s \ {First(s)}]

\* A sum is what its recursion says.
LEMMA SumIs ==
    ASSUME NEW S, IsFiniteSet(S), NEW r, \A v \in S : Counts(r, v) \in Nat
    PROVE  \E it : SumOf(r, S) = it[S] /\ SumsOf(it, r, S)
<1> DEFINE sums == CHOOSE it : it = [s \in SUBSET S |->
                IF s = {} THEN 0 ELSE Counts(r, First(s)) + it[s \ {First(s)}]]
           n == Cardinality(S)
<1>1. SumOf(r, S) = sums[S]
  BY DEF SumOf, FoldSet, MapThenFoldSet, First
<1>2. n \in Nat /\ \A s \in SUBSET S : Cardinality(s) <= n
  BY OneLess, FS_Subset
<1>3. PICK it \in SumsUpTo(r, S, n) : TRUE
  BY <1>2, SumsExist
<1>4. {s \in SUBSET S : Cardinality(s) <= n} = SUBSET S
  BY <1>2
<1>5. /\ it \in [SUBSET S -> Nat]
      /\ \A s \in SUBSET S : it[s] = IF s = {} THEN 0 ELSE Counts(r, First(s)) + it[s \ {First(s)}]
  BY <1>2, <1>3, <1>4 DEF SumsUpTo
<1>6. it = [s \in SUBSET S |-> IF s = {} THEN 0 ELSE Counts(r, First(s)) + it[s \ {First(s)}]]
  BY <1>5
<1>7. sums = [s \in SUBSET S |-> IF s = {} THEN 0 ELSE Counts(r, First(s)) + sums[s \ {First(s)}]]
  BY <1>6
<1> HIDE DEF sums
<1>8. SumsOf(sums, r, S)
  BY <1>7 DEF SumsOf
<1> QED
  BY <1>1, <1>8

\* So the sum depends on what the elements count and on nothing else.
LEMMA SameSum ==
    ASSUME NEW S, IsFiniteSet(S), NEW r, NEW q,
           \A v \in S : Counts(r, v) \in Nat /\ Counts(q, v) = Counts(r, v)
    PROVE  SumOf(q, S) = SumOf(r, S)
<1>1. PICK a : SumOf(r, S) = a[S] /\ SumsOf(a, r, S)
  <2>1. \A v \in S : Counts(r, v) \in Nat
    OBVIOUS
  <2> QED BY <2>1, SumIs
<1>2. PICK b : SumOf(q, S) = b[S] /\ SumsOf(b, q, S)
  <2>1. \A v \in S : Counts(q, v) \in Nat
    OBVIOUS
  <2> QED BY <2>1, SumIs
<1> DEFINE n == Cardinality(S)
           K == {k \in Nat : \A s \in SUBSET S : Cardinality(s) = k => b[s] = a[s]}
<1>3. 0 \in K
  <2> SUFFICES ASSUME NEW s \in SUBSET S, Cardinality(s) = 0 PROVE b[s] = a[s]
    OBVIOUS
  <2>1. s = {}
    BY OneLess
  <2> QED BY <1>1, <1>2, <2>1 DEF SumsOf
<1>4. ASSUME NEW k \in 0 .. n - 1, k \in K PROVE k + 1 \in K
  <2> SUFFICES ASSUME NEW s \in SUBSET S, Cardinality(s) = k + 1 PROVE b[s] = a[s]
    OBVIOUS
  <2>1. s # {}
    <3>1. Cardinality(s) # 0 OBVIOUS
    <3> QED BY <3>1, OneLess
  <2> DEFINE t == s \ {First(s)}
  <2>2. First(s) \in S /\ t \in SUBSET S /\ Cardinality(t) = k
    <3>1. First(s) \in s /\ t \in SUBSET S /\ Cardinality(t) = Cardinality(s) - 1
      BY <2>1, OneLess
    <3> HIDE DEF t
    <3> QED BY <3>1
  <2>3. b[t] = a[t]
    BY <1>4, <2>2
  <2>4. a[s] = Counts(r, First(s)) + a[t]
    BY <1>1, <2>1 DEF SumsOf
  <2>5. b[s] = Counts(q, First(s)) + b[t]
    BY <1>2, <2>1 DEF SumsOf
  <2>6. Counts(q, First(s)) = Counts(r, First(s))
    BY <2>2
  <2> HIDE DEF t
  <2> QED BY <2>3, <2>4, <2>5, <2>6
<1>5. n \in Nat
  BY OneLess, FS_CardinalityType
<1>6. 0 .. n \subseteq K
  <2> HIDE DEF K, n
  <2> QED BY <1>3, <1>4, <1>5, UpTo
<1>7. n \in K
  BY <1>5, <1>6
<1> QED
  BY <1>1, <1>2, <1>7

\* A sum of ratings lies between as many ones and as many fives.
LEMMA SumRange ==
    ASSUME NEW S, IsFiniteSet(S), NEW r, \A v \in S : Counts(r, v) \in 1 .. 5
    PROVE  SumOf(r, S) \in Cardinality(S) .. 5 * Cardinality(S)
<1>1. PICK a : SumOf(r, S) = a[S] /\ SumsOf(a, r, S)
  <2>1. \A v \in S : Counts(r, v) \in Nat
    OBVIOUS
  <2> QED BY <2>1, SumIs
<1> DEFINE n == Cardinality(S)
           K == {k \in Nat : \A s \in SUBSET S : Cardinality(s) = k => a[s] \in k .. 5 * k}
<1>2. 0 \in K
  <2> SUFFICES ASSUME NEW s \in SUBSET S, Cardinality(s) = 0 PROVE a[s] = 0
    OBVIOUS
  <2>1. s = {}
    BY OneLess
  <2> QED BY <1>1, <2>1 DEF SumsOf
<1>3. ASSUME NEW k \in 0 .. n - 1, k \in K PROVE k + 1 \in K
  <2> SUFFICES ASSUME NEW s \in SUBSET S, Cardinality(s) = k + 1
               PROVE  a[s] \in k + 1 .. 5 * (k + 1)
    OBVIOUS
  <2>1. s # {}
    <3>1. Cardinality(s) # 0 OBVIOUS
    <3> QED BY <3>1, OneLess
  <2> DEFINE t == s \ {First(s)}
  <2>2. First(s) \in S /\ t \in SUBSET S /\ Cardinality(t) = k
    <3>1. First(s) \in s /\ t \in SUBSET S /\ Cardinality(t) = Cardinality(s) - 1
      BY <2>1, OneLess
    <3> HIDE DEF t
    <3> QED BY <3>1
  <2>3. a[t] \in k .. 5 * k
    BY <1>3, <2>2
  <2>4. a[s] = Counts(r, First(s)) + a[t]
    BY <1>1, <2>1 DEF SumsOf
  <2>5. Counts(r, First(s)) \in 1 .. 5
    BY <2>2
  <2> HIDE DEF t
  <2> QED BY <2>3, <2>4, <2>5
<1>4. n \in Nat
  BY OneLess, FS_CardinalityType
<1>5. 0 .. n \subseteq K
  <2> HIDE DEF K, n
  <2> QED BY <1>2, <1>3, <1>4, UpTo
<1>6. n \in K
  BY <1>4, <1>5
<1> QED
  BY <1>1, <1>6

\* So the mean lies between one star and five, in hundredths.
LEMMA MeanRange ==
    ASSUME NEW S, IsFiniteSet(S), S # {}, NEW r, \A v \in S : Counts(r, v) \in 1 .. 5
    PROVE  MeanOf(r, S) \in 100 .. 500
<1>1. PICK n, a : n = Cardinality(S) /\ a = SumOf(r, S)
  OBVIOUS
<1>2. n \in Nat \ {0} /\ a \in n .. 5 * n
  BY <1>1, SumRange, FS_CardinalityType, FS_EmptySet
<1>3. 100 * a \in Int
  BY <1>2
<1>4. /\ RoundDiv(100 * a, n) \in Int
      /\ 2 * (n * RoundDiv(100 * a, n)) \in 2 * (100 * a) - n + 1 .. 2 * (100 * a) + n
  BY <1>2, <1>3, Rounded
<1>5. PICK m \in Int : m = RoundDiv(100 * a, n)
  BY <1>4
<1>6. 2 * (n * m) \in 200 * a - n + 1 .. 200 * a + n
  BY <1>2, <1>4, <1>5
<1>7. CASE m <= 99
  <2>1. n * m <= n * 99
    BY <1>2, <1>7
  <2> QED BY <1>2, <1>6, <2>1
<1>8. CASE m >= 501
  <2>1. n * m >= n * 501
    BY <1>2, <1>8
  <2> QED BY <1>2, <1>6, <2>1
<1> QED
  BY <1>1, <1>5, <1>7, <1>8 DEF MeanOf

\* The mean of the model is the mean of these sums.
LEMMA MeanIs ==
    ASSUME NEW p
    PROVE  Mean(Rated(p)) = MeanOf(reviews, Rated(p)) /\ Mean(Rated(p))' = MeanOf(reviews', Rated(p)')
BY DEF Mean, MeanOf, SumOf, Counts, Stars, FoldSet, MapThenFoldSet

-----------------------------------------------------------------------------
(***************************************************************************)
(* What the calls know                                                     *)
(***************************************************************************)
ReviewOps == {"review"}
GroupOps == {"removeGroup", "addToGroup", "removeFromGroup"}
RepairOps == {"assign", "completeRepair", "updateRepair"}

\* The review that a call changes is or was in the table; an insert is for a stay
\* that was completed.
ReviewKnows(c) ==
    /\ c.prop \in PropertyIds
    /\ c.pc = "insert" => c.booking \in completed
    /\ c.pc \in {"update", "delete"} => c.review \in DOMAIN reviews
    /\ c.pc = "write" => c.mean \in 100 .. 500

EmptyCall == [op : {"removeGroup"}, pc : {"empty", "delete"}, group : GroupIds]

CleaningCall ==
    [op : {"cleaned"}, pc : {"both", "property", "schedule"}, schedule : DOMAIN schedules,
     prop : PropertyIds, freq : AllFrequencies, day : CleaningDays]

CleaningKnows(c) ==
    /\ c \in CleaningCall
    /\ property[c.prop] # "new"
    /\ IsSchedule(c.schedule) => schedules[c.schedule].prop = c.prop

StayKnows(c) ==
    /\ c.prop \in PropertyIds /\ c.day \in CleaningDays
    /\ c.pc = "write" => c.schedule \in {0} \cup DOMAIN schedules

RepairKnows(c) ==
    /\ c.prop \in PropertyIds /\ c.booking \in BookingIds \cup {Null}
    /\ IsBooking(c.booking) => bookings[c.booking].prop = c.prop

Knows(c) ==
    /\ c.op = "review" => ReviewKnows(c)
    /\ c.op = "removeGroup" => c \in EmptyCall
    /\ c.op \in {"addToGroup", "removeFromGroup"} =>
          c.prop \in PropertyIds /\ c.group \in GroupIds \cup {Null}
    /\ c.op = "cleaned" => CleaningKnows(c)
    /\ c.op = "completeStay" => StayKnows(c)
    /\ c.op = "repair" => RepairKnows(c)
    /\ c.op \in RepairOps => c.repair \in DOMAIN repairs /\ c.st \in RepairStatuses

CallsOK ==
    /\ handler = [h \in Handlers |-> handler[h]]
    /\ calls \in 0 .. MaxCalls /\ workload \in Workloads
    /\ \A h \in Handlers : Knows(handler[h])

-----------------------------------------------------------------------------
(***************************************************************************)
(* What the tables hold                                                    *)
(***************************************************************************)
GroupsOK ==
    /\ property \in [PropertyIds -> Lives] /\ group \in [GroupIds -> Lives]
    /\ groupOf \in [PropertyIds -> GroupIds \cup {Null}]
    /\ \A p \in PropertyIds : Reference(groupOf[p])

BookingsOK ==
    /\ bookings \in [BookingIds -> [prop : PropertyIds, st : BookingStatuses] \cup {Null}]
    /\ completed \in SUBSET BookingIds
    /\ \A b \in BookingsLeft :
          PropertyHere(bookings[b].prop) /\ (bookings[b].st = "COMPLETED" => b \in completed)

ReviewsOK ==
    /\ reviews \in Seq(Review \cup {Null}) /\ repointed \in SUBSET DOMAIN reviews
    /\ \A v, w \in Reviewed : reviews[v].booking = reviews[w].booking => v = w
    /\ \A v \in Reviewed :
          /\ reviews[v].booking \in BookingsLeft /\ PropertyHere(reviews[v].prop)
          /\ v \in repointed \/ reviews[v].booking \in completed

SchedulesOK ==
    /\ schedules \in Seq(Schedule \cup {Null}) /\ edited \in SUBSET DOMAIN schedules
    /\ \A s \in DOMAIN schedules : IsSchedule(s) =>
          /\ PropertyHere(schedules[s].prop)
          /\ s \in edited \/ schedules[s].next = NextCleaning(schedules[s].freq, schedules[s].last)

RepairsOK ==
    /\ repairs \in Seq(Repair \cup {Null})
    /\ \A m \in DOMAIN repairs : IsRepair(m) =>
          /\ PropertyHere(repairs[m].prop)
          /\ repairs[m].booking # Null =>
                repairs[m].booking \in BookingsLeft /\ bookings[repairs[m].booking].prop = repairs[m].prop

-----------------------------------------------------------------------------
(***************************************************************************)
(* What is on its way while calls run                                      *)
(***************************************************************************)

\* A property that is not astray has one call at most on the way to its average; up
\* to the look for its ratings the average is their mean, and after it the call has
\* their mean in hand.
AverageOf(p) ==
    /\ \A g, h \in Averaging(p) : g = h
    /\ Rated(p) # {} /\ (\A h \in Averaging(p) : handler[h].pc \notin {"average", "write"})
          => average[p] = Mean(Rated(p))
    /\ \A h \in Averaging(p) : handler[h].pc = "write" =>
          Rated(p) # {} /\ handler[h].mean = Mean(Rated(p))

AveragesOK ==
    /\ average \in [PropertyIds -> 100 .. 500 \cup {Null}] /\ astray \in SUBSET PropertyIds
    /\ \A p \in PropertyIds \ astray : AverageOf(p)

DatedBy(p, day) ==
    \E s \in DOMAIN schedules : IsSchedule(s) /\ schedules[s].prop = p /\ schedules[s].last = day

\* A property that is not tangled has one cleaning at most, of a schedule that is
\* there, and between its two writes one of the two dates is the new one.
CleaningOf(p) ==
    /\ \A g, h \in CleaningsOf(p) : g = h
    /\ PropertyHere(p) =>
          /\ lastCleaning[p] # Null /\ (\A h \in CleaningsOf(p) : handler[h].pc = "both")
                => DatedBy(p, lastCleaning[p])
          /\ \A h \in CleaningsOf(p) :
                /\ IsSchedule(handler[h].schedule)
                /\ handler[h].pc = "schedule" => lastCleaning[p] = handler[h].day
                /\ handler[h].pc = "property" => schedules[handler[h].schedule].last = handler[h].day

CleaningsOK ==
    /\ lastCleaning \in [PropertyIds -> CleaningDays \cup {Null}] /\ tangled \in SUBSET PropertyIds
    /\ \A p \in PropertyIds : property[p] = "new" => lastCleaning[p] = Null
    /\ \A p \in PropertyIds \ tangled : CleaningOf(p)

EInv ==
    /\ CallsOK /\ GroupsOK /\ BookingsOK /\ ReviewsOK /\ SchedulesOK /\ RepairsOK
    /\ AveragesOK /\ CleaningsOK

-----------------------------------------------------------------------------
(***************************************************************************)
(* Steps that leave a part alone                                           *)
(***************************************************************************)

\* Ids are not given twice and no row changes its property, reviews excepted.
Grows ==
    /\ completed \subseteq completed'
    /\ DOMAIN reviews \subseteq DOMAIN reviews' /\ DOMAIN schedules \subseteq DOMAIN schedules'
    /\ DOMAIN repairs \subseteq DOMAIN repairs'
    /\ \A p \in PropertyIds : property[p] # "new" => property'[p] # "new"
    /\ \A s \in DOMAIN schedules : schedules'[s] # Null =>
          schedules[s] # Null /\ schedules'[s].prop = schedules[s].prop
    /\ \A b \in BookingIds : bookings'[b] # Null =>
          bookings[b] # Null /\ bookings'[b].prop = bookings[b].prop

\* Nothing is deleted.
Remains ==
    /\ completed \subseteq completed'
    /\ \A p \in PropertyIds :
          property'[p] = property[p] \/ (property[p] = "new" /\ property'[p] = "here")
    /\ \A b \in BookingIds : bookings[b] # Null =>
          bookings'[b] # Null /\ bookings'[b].prop = bookings[b].prop

\* No call of op on property p begins, goes on or ends.
CallsAway(op, p) ==
    \A g \in Handlers :
        \/ handler'[g] = handler[g]
        \/ /\ handler[g].op = op => handler[g].prop # p
           /\ handler'[g].op = op => handler'[g].prop # p

Aside(op) ==
    \A g \in Handlers : handler'[g] = handler[g] \/ (handler[g].op # op /\ handler'[g].op # op)

\* Who works on a property, before and after a step.
LEMMA BusyCalls ==
    /\ \A p : Averaging(p) = {h \in Handlers : handler[h].op = "review" /\ handler[h].prop = p}
    /\ \A p : CleaningsOf(p) = {h \in Handlers : handler[h].op = "cleaned" /\ handler[h].prop = p}
BY DEF Averaging, CleaningsOf, Busy, Idle

\* The calls that average or clean after a step, by what the handlers then hold.
LEMMA BusyCallsNext ==
    /\ \A p : Averaging(p)' = {h \in Handlers : handler'[h].op = "review" /\ handler'[h].prop = p}
    /\ \A p : CleaningsOf(p)' = {h \in Handlers : handler'[h].op = "cleaned" /\ handler'[h].prop = p}
BY DEF Averaging, CleaningsOf, Busy, Idle

\* What a call knows stays known.
LEMMA KnowsKept ==
    ASSUME Grows, NEW h \in Handlers, Knows(handler[h]), handler'[h] = handler[h]
    PROVE  Knows(handler[h])'
<1> DEFINE c == handler[h]
<1>1. c.op = "review" => ReviewKnows(c)'
  BY DEF Knows, ReviewKnows, Grows
<1>2. c.op = "cleaned" => CleaningKnows(c)'
  <2> SUFFICES ASSUME c.op = "cleaned" PROVE CleaningKnows(c)'
    OBVIOUS
  <2>1. c \in CleaningCall /\ property[c.prop] # "new"
        /\ (c.schedule \in DOMAIN schedules /\ schedules[c.schedule] # Null
              => schedules[c.schedule].prop = c.prop)
    BY DEF Knows, CleaningKnows, IsSchedule
  <2>2. /\ c.op = "cleaned" /\ c.schedule \in DOMAIN schedules /\ c.prop \in PropertyIds
        /\ property'[c.prop] # "new"
    BY <2>1 DEF CleaningCall, Grows
  <2>3. handler'[h] \in CleaningCall'
    BY <2>1 DEF CleaningCall, Grows
  <2>4. schedules'[c.schedule] # Null => schedules'[c.schedule].prop = c.prop
    BY <2>1, <2>2 DEF Grows
  <2> QED BY <2>2, <2>3, <2>4 DEF CleaningKnows, IsSchedule
<1>3. c.op = "completeStay" => StayKnows(c)'
  BY DEF Knows, StayKnows, Grows
<1>4. c.op = "repair" => RepairKnows(c)'
  BY DEF Knows, RepairKnows, Grows, IsBooking
<1>5. c.op = "removeGroup" => c' \in EmptyCall
  BY DEF Knows, EmptyCall
<1>6. c.op \in {"addToGroup", "removeFromGroup"} => c'.prop \in PropertyIds /\ c'.group \in GroupIds \cup {Null}
  BY DEF Knows
<1>7. c.op \in RepairOps => c'.repair \in DOMAIN repairs' /\ c'.st \in RepairStatuses
  BY DEF Knows, Grows
<1> QED
  BY <1>1, <1>2, <1>3, <1>4, <1>5, <1>6, <1>7 DEF Knows

\* A call that is written changes its own handler only.
LEMMA CallWritten ==
    ASSUME CallsOK, NEW h \in Handlers, NEW c, handler' = [handler EXCEPT ![h] = c]
    PROVE  /\ handler' = [g \in Handlers |-> handler'[g]]
           /\ handler'[h] = c /\ \A g \in Handlers \ {h} : handler'[g] = handler[g]
BY DEF CallsOK

\* The count of calls stays within its bound.
LEMMA Counted ==
    ASSUME CallsOK, (\E op : Asked(op)) \/ UNCHANGED <<calls, workload>>
    PROVE  calls' \in 0 .. MaxCalls /\ workload' \in Workloads
BY CallsAssumption DEF CallsOK, Asked

\* The calls, when one of them moves.
LEMMA CallsWritten ==
    ASSUME CallsOK, Grows, NEW h \in Handlers, NEW c, handler' = [handler EXCEPT ![h] = c],
           Knows(handler[h])', (\E op : Asked(op)) \/ UNCHANGED <<calls, workload>>
    PROVE  CallsOK'
<1>1. /\ handler' = [g \in Handlers |-> handler'[g]]
      /\ \A g \in Handlers \ {h} : handler'[g] = handler[g]
  BY CallWritten
<1>2. calls' \in 0 .. MaxCalls /\ workload' \in Workloads
  BY Counted
<1>3. ASSUME NEW g \in Handlers PROVE Knows(handler[g])'
  <2>1. CASE g = h
    BY <2>1
  <2>2. CASE g # h
    <3>1. Knows(handler[g])
      BY DEF CallsOK
    <3> QED BY <1>1, <2>2, <3>1, KnowsKept
  <2> QED BY <2>1, <2>2
<1> QED
  BY <1>1, <1>2, <1>3 DEF CallsOK

\* The calls, when none of them moves.
LEMMA CallsLeft ==
    ASSUME CallsOK, Grows, UNCHANGED handler, (\E op : Asked(op)) \/ UNCHANGED <<calls, workload>>
    PROVE  CallsOK'
<1>1. calls' \in 0 .. MaxCalls /\ workload' \in Workloads
  BY Counted
<1>2. ASSUME NEW g \in Handlers PROVE Knows(handler[g])'
  <2>1. Knows(handler[g])
    BY DEF CallsOK
  <2> QED BY <2>1, KnowsKept
<1> QED
  BY <1>1, <1>2 DEF CallsOK

\* The rows that a property's average is taken from.
LEMMA RatedRows ==
    ASSUME ReviewsOK, NEW p
    PROVE  /\ IsFiniteSet(Rated(p))
           /\ \A v \in Rated(p) : v \in Reviewed /\ Counts(reviews, v) \in 1 .. 5
                                  /\ PropertyHere(p) /\ reviews[v].prop = p
           /\ Rated(p) # {} => Mean(Rated(p)) \in 100 .. 500
<1>1. IsFiniteSet(DOMAIN reviews)
  <2>1. DOMAIN reviews = 1 .. Len(reviews) /\ Len(reviews) \in Nat
    BY DEF ReviewsOK
  <2> QED BY <2>1, FS_Interval
<1>2. IsFiniteSet(Rated(p))
  <2>1. Rated(p) \subseteq DOMAIN reviews
    BY DEF Rated, Reviewed
  <2> QED BY <1>1, <2>1, FS_Subset
<1>3. ASSUME NEW v \in Rated(p)
      PROVE  v \in Reviewed /\ Counts(reviews, v) \in 1 .. 5 /\ PropertyHere(p) /\ reviews[v].prop = p
  <2>1. v \in Reviewed /\ reviews[v] \in Review /\ reviews[v].prop = p /\ reviews[v].clean # Null
    BY DEF Rated, Reviewed, ReviewsOK
  <2>2. reviews[v].clean \in 1 .. 5
    BY <2>1, ReviewsAssumption DEF Review
  <2> QED BY <2>1, <2>2 DEF Counts, ReviewsOK
<1>4. ASSUME Rated(p) # {} PROVE Mean(Rated(p)) \in 100 .. 500
  BY <1>2, <1>3, <1>4, MeanRange, MeanIs
<1> QED
  BY <1>2, <1>3, <1>4

\* Rows rated alike have the same mean.
LEMMA MeanKept ==
    ASSUME ReviewsOK, NEW p, Rated(p)' = Rated(p),
           \A v \in Rated(p) : reviews'[v].clean = reviews[v].clean
    PROVE  Mean(Rated(p))' = Mean(Rated(p))
<1>1. IsFiniteSet(Rated(p)) /\ \A v \in Rated(p) : Counts(reviews, v) \in Nat
  BY RatedRows
<1>2. \A v \in Rated(p) : Counts(reviews', v) = Counts(reviews, v)
  BY DEF Counts
<1>3. SumOf(reviews', Rated(p)) = SumOf(reviews, Rated(p))
  BY <1>1, <1>2, SameSum
<1>4. Mean(Rated(p))' = MeanOf(reviews', Rated(p)')
  BY MeanIs
<1> QED
  BY <1>3, <1>4, MeanIs DEF MeanOf

\* A property whose reviews, average and calls no step touches.
LEMMA AverageElsewhere ==
    ASSUME ReviewsOK, NEW p \in PropertyIds, AverageOf(p), CallsAway("review", p),
           Rated(p)' = Rated(p), \A v \in Rated(p) : reviews'[v].clean = reviews[v].clean,
           average'[p] = average[p]
    PROVE  AverageOf(p)'
<1>1. Averaging(p)' = Averaging(p) /\ \A h \in Averaging(p) : handler'[h] = handler[h]
  BY BusyCalls, BusyCallsNext DEF CallsAway
<1>2. Mean(Rated(p))' = Mean(Rated(p))
  BY MeanKept
<1> QED
  BY <1>1, <1>2 DEF AverageOf

\* A property whose schedules, date and calls no step touches, but for new
\* schedules.
LEMMA CleaningElsewhere ==
    ASSUME CallsOK, NEW p \in PropertyIds, CleaningOf(p), CallsAway("cleaned", p),
           lastCleaning'[p] = lastCleaning[p], PropertyHere(p)' => PropertyHere(p),
           \A s \in DOMAIN schedules :
              PropertyHere(p)' /\ schedules[s] # Null /\ schedules[s].prop = p =>
                  /\ s \in DOMAIN schedules' /\ schedules'[s] # Null
                  /\ schedules'[s].prop = p /\ schedules'[s].last = schedules[s].last
    PROVE  CleaningOf(p)'
<1>1. CleaningsOf(p)' = CleaningsOf(p) /\ \A h \in CleaningsOf(p) : handler'[h] = handler[h]
  BY BusyCalls, BusyCallsNext DEF CallsAway
<1>2. \A h \in CleaningsOf(p) : CleaningKnows(handler[h]) /\ handler[h].prop = p
  BY BusyCalls DEF CallsOK, Knows
<1>3. ASSUME PropertyHere(p)', DatedBy(p, lastCleaning[p]) PROVE DatedBy(p, lastCleaning[p])'
  BY <1>3 DEF DatedBy, IsSchedule
<1>4. ASSUME PropertyHere(p)', NEW h \in CleaningsOf(p), IsSchedule(handler[h].schedule)
      PROVE  /\ IsSchedule(handler[h].schedule)'
             /\ schedules'[handler[h].schedule].last = schedules[handler[h].schedule].last
  <2>1. /\ handler'[h] = handler[h]
        /\ handler[h].schedule \in DOMAIN schedules /\ schedules[handler[h].schedule] # Null
        /\ schedules[handler[h].schedule].prop = p
    BY <1>1, <1>2, <1>4 DEF CleaningKnows, IsSchedule
  <2> QED BY <1>4, <2>1 DEF IsSchedule
<1>5. \A g, h \in CleaningsOf(p)' : g = h
  BY <1>1 DEF CleaningOf
<1>6. ASSUME PropertyHere(p)', lastCleaning'[p] # Null, \A h \in CleaningsOf(p)' : handler'[h].pc = "both"
      PROVE  DatedBy(p, lastCleaning[p])'
  BY <1>1, <1>3, <1>6 DEF CleaningOf
<1>7. ASSUME PropertyHere(p)', NEW h \in CleaningsOf(p)'
      PROVE  /\ IsSchedule(handler[h].schedule)'
             /\ handler'[h].pc = "schedule" => lastCleaning'[p] = handler'[h].day
             /\ handler'[h].pc = "property" => schedules'[handler'[h].schedule].last = handler'[h].day
  BY <1>1, <1>4, <1>7 DEF CleaningOf
<1> QED
  BY <1>5, <1>6, <1>7 DEF CleaningOf

\* A step that deletes nothing and is none of reviews leaves them in order.
LEMMA ReviewSide ==
    ASSUME EInv, Remains, Aside("review"), UNCHANGED reviewVars
    PROVE  ReviewsOK' /\ AveragesOK'
<1> USE DEF EInv, reviewVars
<1>1. ReviewsOK'
  BY DEF ReviewsOK, Remains, Reviewed, BookingsLeft, PropertyHere, Review
<1>2. ASSUME NEW p \in PropertyIds \ astray PROVE AverageOf(p)'
  <2>1. CallsAway("review", p)
    BY DEF Aside, CallsAway
  <2>2. Rated(p)' = Rated(p)
    BY DEF Rated, Reviewed
  <2>3. AverageOf(p)
    BY DEF AveragesOK
  <2> QED BY <2>1, <2>2, <2>3, AverageElsewhere
<1> QED
  BY <1>1, <1>2 DEF AveragesOK

\* The same of cleaning.
LEMMA ScheduleSide ==
    ASSUME EInv, Remains, Aside("cleaned"), UNCHANGED cleaningVars
    PROVE  SchedulesOK' /\ CleaningsOK'
<1> USE DEF EInv, cleaningVars
<1>1. SchedulesOK'
  BY DEF SchedulesOK, Remains, IsSchedule, PropertyHere, Schedule
<1>2. ASSUME NEW p \in PropertyIds \ tangled PROVE CleaningOf(p)'
  <2>1. CallsAway("cleaned", p)
    BY DEF Aside, CallsAway
  <2>2. CleaningOf(p)
    BY DEF CleaningsOK
  <2>3. CASE property'[p] = property[p]
    BY <2>1, <2>2, <2>3, CleaningElsewhere DEF PropertyHere
  <2>4. CASE property[p] = "new"
    <3>1. CleaningsOf(p) = {}
      BY <2>4, BusyCalls DEF CallsOK, Knows, CleaningKnows
    <3>2. CleaningsOf(p)' = {}
      BY <3>1, <2>1, BusyCalls, BusyCallsNext DEF CallsAway
    <3>3. lastCleaning'[p] = Null
      BY <2>4 DEF CleaningsOK
    <3> QED BY <3>2, <3>3 DEF CleaningOf
  <2> QED BY <2>3, <2>4 DEF Remains
<1>3. \A p \in PropertyIds : property'[p] = "new" => lastCleaning'[p] = Null
  BY DEF CleaningsOK, Remains
<1> QED
  BY <1>1, <1>2, <1>3 DEF CleaningsOK

\* The same of maintenance.
LEMMA RepairSide ==
    ASSUME EInv, Remains, UNCHANGED repairs
    PROVE  RepairsOK'
BY DEF EInv, RepairsOK, Remains, IsRepair, PropertyHere, Repair, BookingsLeft

\* A step that writes neither properties nor bookings.
LEMMA TableSide ==
    ASSUME EInv, UNCHANGED <<propertyVars, bookingVars>>
    PROVE  GroupsOK' /\ BookingsOK'
BY DEF EInv, GroupsOK, BookingsOK, propertyVars, bookingVars, Reference, GroupHere, BookingsLeft, PropertyHere

\* A step that writes no table but those of reviews, or of upkeep, or a property's group.
LEMMA Growing ==
    ASSUME EInv, UNCHANGED <<property, bookingVars>>,
           DOMAIN reviews \subseteq DOMAIN reviews', DOMAIN repairs \subseteq DOMAIN repairs',
           UNCHANGED schedules
    PROVE  Grows /\ Remains
BY DEF Grows, Remains, bookingVars

\* A call of another kind moves.
LEMMA CallAside ==
    ASSUME CallsOK, NEW h \in Handlers, NEW c, handler' = [handler EXCEPT ![h] = c], NEW op,
           handler[h].op # op, c.op # op
    PROVE  Aside(op)
BY CallWritten DEF Aside

\* An idle handler, and how a call begins, goes on and ends.
LEMMA Moves ==
    ASSUME NEW h \in Handlers, NEW c
    PROVE  /\ h \notin Busy => handler[h].op = "none"
           /\ Begin(h, c) => /\ handler' = [handler EXCEPT ![h] = c] /\ handler[h].op = "none"
                             /\ \E op : Asked(op)
           /\ Goto(h, c) => handler' = [handler EXCEPT ![h] = c] /\ UNCHANGED <<calls, workload>>
           /\ Return(h) => handler' = [handler EXCEPT ![h] = Idle] /\ UNCHANGED <<calls, workload>>
           /\ Idle.op = "none"
BY DEF Busy, Idle, Begin, Goto, Return

\* A handler without a call relies on nothing.
LEMMA IdleKnows == ASSUME NEW h \in Handlers, handler'[h] = Idle PROVE Knows(handler[h])'
BY DEF Knows, Idle, RepairOps

-----------------------------------------------------------------------------
(***************************************************************************)
(* Groups and properties                                                   *)
(***************************************************************************)

\* A step of a call on groups.
LEMMA GroupMoves ==
    ASSUME EInv, NEW h \in Handlers, NEW c, handler' = [handler EXCEPT ![h] = c],
           (\E op : Asked(op)) \/ UNCHANGED <<calls, workload>>,
           handler[h].op \in GroupOps \cup {"none"}, c.op \in GroupOps \cup {"none"},
           Knows(handler[h])', GroupsOK',
           UNCHANGED <<property, bookingVars, reviewVars, upkeepVars>>
    PROVE  EInv'
<1>1. CallsOK
  BY DEF EInv
<1>2. Grows /\ Remains
  BY Growing DEF reviewVars, upkeepVars, cleaningVars
<1>3. CallsOK'
  BY <1>1, <1>2, CallsWritten
<1>4. Aside("review") /\ Aside("cleaned")
  BY <1>1, CallAside DEF GroupOps
<1>5. ReviewsOK' /\ AveragesOK'
  BY <1>2, <1>4, ReviewSide
<1>6. SchedulesOK' /\ CleaningsOK'
  BY <1>2, <1>4, ScheduleSide DEF upkeepVars
<1>7. RepairsOK'
  BY <1>2, RepairSide DEF upkeepVars
<1>8. BookingsOK'
  BY DEF EInv, BookingsOK, bookingVars, BookingsLeft, PropertyHere
<1> QED
  BY <1>3, <1>5, <1>6, <1>7, <1>8 DEF EInv

\* A call on groups begins.
LEMMA GroupBegins ==
    ASSUME EInv, NEW h \in Handlers, NEW c, Begin(h, c), c.op \in GroupOps,
           Knows(handler[h])', UNCHANGED <<propertyVars, bookingVars, reviewVars, upkeepVars>>
    PROVE  EInv'
<1>1. /\ handler' = [handler EXCEPT ![h] = c] /\ handler[h].op = "none" /\ \E op : Asked(op)
  BY Moves
<1>2. GroupsOK'
  BY TableSide
<1> QED
  BY <1>1, <1>2, GroupMoves DEF propertyVars

\* The removal of a group begins; nothing is written yet.
LEMMA RemovalOfGroupBegun ==
    ASSUME EInv, NEW h \in Handlers, NEW g \in GroupIds, RemoveGroup(h, g), UNCHANGED <<reviewVars, upkeepVars>>
    PROVE  EInv'
<1> DEFINE c == [op |-> "removeGroup", pc |-> "empty", group |-> g]
<1>1. Begin(h, c) /\ UNCHANGED <<propertyVars, bookingVars>> /\ c.op = "removeGroup" /\ c \in EmptyCall
  BY DEF RemoveGroup, EmptyCall
<1> HIDE DEF c
<1>2. handler'[h] = c
  BY <1>1, CallWritten DEF EInv, Begin
<1>3. Knows(handler[h])'
  BY <1>1, <1>2 DEF Knows, RepairOps, EmptyCall
<1> QED
  BY <1>1, <1>3, GroupBegins DEF GroupOps

\* So does a change of its members.
LEMMA MemberBegun ==
    ASSUME EInv, NEW h \in Handlers, NEW g \in GroupIds, NEW p \in PropertyIds,
           AddToGroup(h, g, p) \/ RemoveFromGroup(h, g, p), UNCHANGED <<reviewVars, upkeepVars>>
    PROVE  EInv'
<1>1. PICK c : /\ Begin(h, c) /\ c.op \in {"addToGroup", "removeFromGroup"}
               /\ c.prop \in PropertyIds /\ c.group \in GroupIds \cup {Null}
  <2> DEFINE a == [op |-> "addToGroup", pc |-> "write", group |-> g, prop |-> p]
             b == [op |-> "removeFromGroup", pc |-> "write", group |-> Null, prop |-> p]
  <2>1. Begin(h, a) \/ Begin(h, b)
    BY DEF AddToGroup, RemoveFromGroup
  <2>2. /\ a.op = "addToGroup" /\ a.prop = p /\ a.group = g
        /\ b.op = "removeFromGroup" /\ b.prop = p /\ b.group = Null
    OBVIOUS
  <2> HIDE DEF a, b
  <2> QED BY <2>1, <2>2
<1>2. UNCHANGED <<propertyVars, bookingVars>>
  BY DEF AddToGroup, RemoveFromGroup
<1>3. handler'[h] = c
  BY <1>1, CallWritten DEF EInv, Begin
<1>4. Knows(handler[h])'
  BY <1>1, <1>3 DEF Knows, RepairOps
<1> QED
  BY <1>1, <1>2, <1>4, GroupBegins DEF GroupOps

\* remove empties the group, then deletes it.
LEMMA GroupEmptied ==
    ASSUME EInv, NEW h \in Handlers, EmptyGroup(h), UNCHANGED <<reviewVars, upkeepVars>>
    PROVE  EInv'
<1> DEFINE c == handler[h]
           d == [c EXCEPT !.pc = "delete"]
<1>1. c \in EmptyCall /\ c.op = "removeGroup"
  BY DEF EInv, CallsOK, Knows, EmptyGroup, At
<1>2. d \in EmptyCall /\ d.op = "removeGroup"
  BY <1>1 DEF EmptyCall
<1>3. handler' = [handler EXCEPT ![h] = d] /\ UNCHANGED <<calls, workload>>
  BY DEF EmptyGroup, Goto
<1>4. groupOf' = Emptied(c.group) /\ UNCHANGED <<property, group, bookingVars>>
  BY DEF EmptyGroup
<1> HIDE DEF c, d
<1>5. Knows(handler[h])'
  <2>1. handler'[h] = d
    BY <1>3, CallWritten DEF EInv
  <2> QED BY <1>2, <2>1 DEF Knows, RepairOps, EmptyCall
<1>6. GroupsOK'
  BY <1>4 DEF EInv, GroupsOK, Emptied, Reference, GroupHere
<1> QED
  BY <1>1, <1>2, <1>3, <1>4, <1>5, <1>6, GroupMoves DEF GroupOps, c

\* A group goes, and no property keeps it.
LEMMA GroupDeleted ==
    ASSUME EInv, NEW h \in Handlers, DeleteGroup(h), UNCHANGED <<reviewVars, upkeepVars>>
    PROVE  EInv'
<1> DEFINE g == handler[h].group
<1>1. handler[h].op = "removeGroup"
  BY DEF DeleteGroup, At
<1>2. handler' = [handler EXCEPT ![h] = Idle] /\ UNCHANGED <<calls, workload>> /\ Idle.op = "none"
  BY Moves DEF DeleteGroup
<1>3. /\ UNCHANGED <<property, bookingVars>>
      /\ \/ UNCHANGED <<group, groupOf>>
         \/ g \in GroupIds /\ group' = [group EXCEPT ![g] = "gone"] /\ groupOf' = KeysWithoutGroup(g)
  BY DEF DeleteGroup, GroupHere
<1> HIDE DEF g
<1>4. GroupsOK'
  BY <1>3 DEF EInv, GroupsOK, KeysWithoutGroup, Emptied, Reference, GroupHere, Lives
<1>5. Knows(handler[h])'
  BY <1>2, CallWritten, IdleKnows DEF EInv
<1> QED
  BY <1>1, <1>2, <1>3, <1>4, <1>5, GroupMoves DEF GroupOps

\* addPropertyToGroup and removePropertyFromGroup write the key if it may be
\* written.
LEMMA GroupWritten ==
    ASSUME EInv, NEW h \in Handlers, WriteGroup(h), UNCHANGED <<reviewVars, upkeepVars>>
    PROVE  EInv'
<1> DEFINE c == handler[h]
<1>1. c.op \in {"addToGroup", "removeFromGroup"}
  BY DEF WriteGroup, AtAny
<1>2. c.prop \in PropertyIds /\ c.group \in GroupIds \cup {Null}
  BY <1>1 DEF EInv, CallsOK, Knows
<1>3. handler' = [handler EXCEPT ![h] = Idle] /\ UNCHANGED <<calls, workload>> /\ Idle.op = "none"
  BY Moves DEF WriteGroup
<1>4. /\ UNCHANGED <<property, group, bookingVars>>
      /\ groupOf' = IF PropertyHere(c.prop) /\ Reference(c.group)
                    THEN [groupOf EXCEPT ![c.prop] = c.group] ELSE groupOf
  BY DEF WriteGroup
<1> HIDE DEF c
<1>5. GroupsOK'
  BY <1>2, <1>4 DEF EInv, GroupsOK, Reference, GroupHere
<1>6. Knows(handler[h])'
  BY <1>3, CallWritten, IdleKnows DEF EInv
<1> QED
  BY <1>1, <1>3, <1>4, <1>5, <1>6, GroupMoves DEF GroupOps, c

\* An edit with no call of its own, which deletes nothing.
LEMMA EditAside ==
    ASSUME EInv, UNCHANGED <<handler, reviewVars, upkeepVars>>, (\E op : Asked(op)),
           Remains, \A b \in BookingIds : bookings'[b] # Null => bookings[b] # Null,
           GroupsOK', BookingsOK'
    PROVE  EInv'
<1>1. Grows
  BY DEF Remains, Grows, reviewVars, upkeepVars, cleaningVars
<1>2. CallsOK'
  BY <1>1, CallsLeft DEF EInv
<1>3. Aside("review") /\ Aside("cleaned")
  BY DEF Aside
<1>4. ReviewsOK' /\ AveragesOK'
  BY <1>3, ReviewSide
<1>5. SchedulesOK' /\ CleaningsOK'
  BY <1>3, ScheduleSide DEF upkeepVars
<1>6. RepairsOK'
  BY RepairSide DEF upkeepVars
<1> QED
  BY <1>2, <1>4, <1>5, <1>6 DEF EInv

\* A property is created or updated, a group created.
LEMMA PropertyMade ==
    ASSUME EInv, NEW p \in PropertyIds, CreateProperty(p) \/ UpdateProperty(p), UNCHANGED <<reviewVars, upkeepVars>>
    PROVE  EInv'
<1>1. PICK g \in GroupIds \cup {Null} : Reference(g) /\ groupOf' = [groupOf EXCEPT ![p] = g]
  BY DEF CreateProperty, UpdateProperty
<1>2. /\ UNCHANGED <<group, bookingVars, handler>> /\ \E op : Asked(op)
      /\ \/ property' = property
         \/ property[p] = "new" /\ property' = [property EXCEPT ![p] = "here"]
  BY DEF CreateProperty, UpdateProperty, AtOnce
<1>3. Remains
  BY <1>2 DEF Remains, bookingVars, EInv, GroupsOK
<1>4. GroupsOK'
  BY <1>1, <1>2 DEF EInv, GroupsOK, Reference, GroupHere, Lives
<1>5. BookingsOK'
  BY <1>2, <1>3 DEF EInv, BookingsOK, bookingVars, BookingsLeft, PropertyHere, Remains
<1> QED
  BY <1>2, <1>3, <1>4, <1>5, EditAside DEF bookingVars

\* A group comes with no member.
LEMMA GroupMade ==
    ASSUME EInv, NEW g \in GroupIds, CreateGroup(g), UNCHANGED <<reviewVars, upkeepVars>>
    PROVE  EInv'
<1>1. /\ group' = [group EXCEPT ![g] = "here"]
      /\ UNCHANGED <<property, groupOf, bookingVars, handler>> /\ \E op : Asked(op)
  BY DEF CreateGroup, AtOnce
<1>2. Remains
  BY <1>1 DEF Remains, bookingVars
<1>3. GroupsOK'
  BY <1>1 DEF EInv, GroupsOK, Reference, GroupHere, Lives
<1>4. BookingsOK'
  BY <1>1 DEF EInv, BookingsOK, bookingVars, BookingsLeft, PropertyHere
<1> QED
  BY <1>1, <1>2, <1>3, <1>4, EditAside DEF bookingVars

\* A booking whose status is written stays the booking of its property.
LEMMA StatusKept ==
    ASSUME EInv, NEW b \in BookingIds, IsBooking(b), NEW st \in BookingStatuses, WriteStatus(b, st),
           UNCHANGED property
    PROVE  /\ BookingsOK' /\ Remains
           /\ \A x \in BookingIds : bookings'[x] # Null => bookings[x] # Null
<1> DEFINE row == [bookings[b] EXCEPT !.st = st]
<1>1. bookings \in [BookingIds -> [prop : PropertyIds, st : BookingStatuses] \cup {Null}]
      /\ completed \in SUBSET BookingIds
  BY DEF EInv, BookingsOK
<1>2. bookings[b] \in [prop : PropertyIds, st : BookingStatuses]
  BY <1>1 DEF IsBooking
<1>3. row \in [prop : PropertyIds, st : BookingStatuses] /\ row.prop = bookings[b].prop /\ row.st = st
  BY <1>2
<1>4. row # Null
  BY <1>3, PropertiesAssumption
<1>5. /\ bookings' = [bookings EXCEPT ![b] = row]
      /\ completed' = IF st = "COMPLETED" THEN completed \cup {b} ELSE completed
  BY DEF WriteStatus
<1> HIDE DEF row
<1>6. /\ bookings' \in [BookingIds -> [prop : PropertyIds, st : BookingStatuses] \cup {Null}]
      /\ \A x \in BookingIds : bookings'[x] # Null <=> bookings[x] # Null
      /\ \A x \in BookingIds : bookings'[x].prop = bookings[x].prop
      /\ \A x \in BookingIds \ {b} : bookings'[x] = bookings[x]
      /\ bookings'[b].st = st
  BY <1>1, <1>3, <1>4, <1>5 DEF IsBooking
<1>7. completed \subseteq completed' /\ completed' \in SUBSET BookingIds /\ (st = "COMPLETED" => b \in completed')
  BY <1>1, <1>5
<1>8. \A x \in BookingIds : bookings[x] # Null =>
          PropertyHere(bookings[x].prop) /\ (bookings[x].st = "COMPLETED" => x \in completed)
  BY DEF EInv, BookingsOK, BookingsLeft
<1>9. ASSUME NEW x \in BookingIds, bookings'[x] # Null
      PROVE  PropertyHere(bookings[x].prop)' /\ (bookings'[x].st = "COMPLETED" => x \in completed')
  <2>1. PropertyHere(bookings[x].prop)'
    BY <1>6, <1>8, <1>9 DEF PropertyHere
  <2>2. CASE x = b
    BY <1>6, <1>7, <2>1, <2>2
  <2>3. CASE x # b
    BY <1>6, <1>7, <1>8, <1>9, <2>1, <2>3
  <2> QED BY <2>2, <2>3
<1>10. BookingsOK'
  BY <1>6, <1>7, <1>9 DEF BookingsOK, BookingsLeft
<1>11. Remains
  BY <1>6, <1>7 DEF Remains
<1> QED
  BY <1>6, <1>10, <1>11

\* A status is set.
LEMMA StatusSet ==
    ASSUME EInv, NEW b \in BookingIds, SetBookingStatus(b), UNCHANGED <<reviewVars, upkeepVars>>
    PROVE  EInv'
<1>1. /\ IsBooking(b) /\ UNCHANGED <<propertyVars, handler>> /\ \E op : Asked(op)
      /\ \E st \in BookingStatuses : WriteStatus(b, st)
  BY DEF SetBookingStatus, AtOnce
<1>2. /\ BookingsOK' /\ Remains
      /\ \A x \in BookingIds : bookings'[x] # Null => bookings[x] # Null
  BY <1>1, StatusKept DEF propertyVars
<1>3. GroupsOK'
  BY <1>1 DEF EInv, GroupsOK, propertyVars, Reference, GroupHere
<1> QED
  BY <1>1, <1>2, <1>3, EditAside

\* All of these.
LEMMA PropertiesEdited == ASSUME EInv, PropertyEdits, UNCHANGED <<reviewVars, upkeepVars>> PROVE EInv'
BY PropertyMade, GroupMade, StatusSet DEF PropertyEdits

\* Whatever the groups do keeps the invariant.
LEMMA GroupsCalled ==
    ASSUME EInv, NEW h \in Handlers, GroupCalls(h) \/ GroupSteps(h), UNCHANGED <<reviewVars, upkeepVars>>
    PROVE  EInv'
BY RemovalOfGroupBegun, MemberBegun, GroupEmptied, GroupDeleted, GroupWritten DEF GroupCalls, GroupSteps

-----------------------------------------------------------------------------
(***************************************************************************)
(* Reviews                                                                 *)
(***************************************************************************)

\* A step of a call on reviews.
LEMMA ReviewMoves ==
    ASSUME EInv, NEW h \in Handlers, NEW c, handler' = [handler EXCEPT ![h] = c],
           (\E op : Asked(op)) \/ UNCHANGED <<calls, workload>>,
           handler[h].op \in {"review", "none"}, c.op \in {"review", "none"}, Knows(handler[h])',
           DOMAIN reviews \subseteq DOMAIN reviews', ReviewsOK', AveragesOK',
           UNCHANGED <<propertyVars, bookingVars, upkeepVars>>
    PROVE  EInv'
<1>1. Grows /\ Remains
  BY Growing DEF propertyVars, upkeepVars, cleaningVars
<1>2. CallsOK'
  BY <1>1, CallsWritten DEF EInv
<1>3. Aside("cleaned")
  BY CallAside DEF EInv
<1>4. SchedulesOK' /\ CleaningsOK'
  BY <1>1, <1>3, ScheduleSide DEF upkeepVars
<1>5. RepairsOK'
  BY <1>1, RepairSide DEF upkeepVars
<1>6. GroupsOK' /\ BookingsOK'
  BY TableSide
<1> QED
  BY <1>2, <1>4, <1>5, <1>6 DEF EInv

\* Who averages a property, when the call of a handler moves.
LEMMA AveragingMoves ==
    ASSUME EInv, NEW h \in Handlers, NEW c, handler' = [handler EXCEPT ![h] = c], NEW p
    PROVE  /\ Averaging(p)' = IF c.op = "review" /\ c.prop = p THEN Averaging(p) \cup {h}
                              ELSE Averaging(p) \ {h}
           /\ \A g \in Handlers \ {h} : handler'[g] = handler[g]
           /\ handler'[h] = c
           /\ h \in Averaging(p) <=> handler[h].op = "review" /\ handler[h].prop = p
           /\ Averaging(p) \subseteq Handlers
<1>1. handler'[h] = c /\ \A g \in Handlers \ {h} : handler'[g] = handler[g]
  BY CallWritten DEF EInv
<1> QED
  BY <1>1, BusyCalls, BusyCallsNext

\* A call that works on reviews of a property that is not astray is alone
\* there.
LEMMA AloneNow ==
    ASSUME NEW h \in Handlers, handler[h].op = "review", AverageOf(handler[h].prop)
    PROVE  Averaging(handler[h].prop) = {h}
<1>1. h \in Averaging(handler[h].prop)
  BY BusyCalls
<1> QED
  BY <1>1 DEF AverageOf

\* Where nobody else averages a property, only this call may in the next state.
LEMMA AloneNext ==
    ASSUME EInv, NEW h \in Handlers, NEW c, handler' = [handler EXCEPT ![h] = c], NEW p,
           Averaging(p) \subseteq {h}
    PROVE  /\ c.op = "review" /\ c.prop = p => Averaging(p)' = {h}
           /\ ~(c.op = "review" /\ c.prop = p) => Averaging(p)' = {}
<1>1. handler'[h] = c /\ \A g \in Handlers \ {h} : handler'[g] = handler[g]
  BY CallWritten DEF EInv
<1>2. \A g \in Handlers \ {h} : ~(handler'[g].op = "review" /\ handler'[g].prop = p)
  BY <1>1, BusyCalls
<1> QED
  BY <1>1, <1>2, BusyCallsNext

\* A call begins: it is alone, or its property is astray.
LEMMA ReviewBegins ==
    ASSUME EInv, NEW h \in Handlers, NEW c, Begin(h, c),
           c.op = "review", c.pc \in {"insert", "update", "delete"}, ReviewKnows(c), TakesUp(c.prop),
           UNCHANGED <<propertyVars, bookingVars, upkeepVars, reviews, average, repointed>>
    PROVE  EInv'
<1>1. /\ handler' = [handler EXCEPT ![h] = c] /\ handler[h].op = "none" /\ \E op : Asked(op)
  BY Moves
<1>2. handler'[h] = c
  BY <1>1, CallWritten DEF EInv
<1>3. Knows(handler[h])'
  BY <1>2 DEF Knows, ReviewKnows, RepairOps, bookingVars
<1>4. c.prop \in PropertyIds
  BY DEF ReviewKnows
<1>5. /\ astray' \in SUBSET PropertyIds /\ astray \subseteq astray'
      /\ c.prop \notin astray' => Averaging(c.prop) = {}
  BY <1>4 DEF TakesUp, EInv, AveragesOK
<1>6. ReviewsOK'
  BY DEF EInv, ReviewsOK, bookingVars, propertyVars, Reviewed, BookingsLeft, PropertyHere
<1>7. ASSUME NEW p \in PropertyIds \ astray' PROVE AverageOf(p)'
  <2>1. AverageOf(p) /\ ReviewsOK
    BY <1>5 DEF EInv, AveragesOK
  <2>2. Rated(p)' = Rated(p) /\ reviews' = reviews
    BY DEF Rated, Reviewed
  <2>3. CASE p # c.prop
    <3>1. CallsAway("review", p)
      BY <1>1, <1>2, <2>3, AveragingMoves DEF CallsAway
    <3> QED BY <2>1, <2>2, <3>1, AverageElsewhere
  <2>4. CASE p = c.prop
    <3>1. Averaging(p) = {} /\ Averaging(p)' = {h} /\ handler'[h] = c
      BY <1>1, <1>5, <2>4, AveragingMoves
    <3>2. Mean(Rated(p))' = Mean(Rated(p))
      BY <2>1, <2>2, MeanKept
    <3> QED BY <2>1, <2>2, <3>1, <3>2 DEF AverageOf
  <2> QED BY <2>3, <2>4
<1>8. AveragesOK'
  BY <1>5, <1>7 DEF AveragesOK, EInv
<1> QED
  BY <1>1, <1>3, <1>6, <1>8, ReviewMoves

\* create, update and remove of a review begin.
LEMMA CreationBegun ==
    ASSUME EInv, NEW h \in Handlers, NEW b \in BookingIds, NEW p \in PropertyIds, CreateReview(h, b, p),
           UNCHANGED <<propertyVars, bookingVars, upkeepVars>>
    PROVE  EInv'
<1> DEFINE c == [op |-> "review", pc |-> "insert", booking |-> b, prop |-> p]
<1>1. /\ IsBooking(b) /\ bookings[b].st = "COMPLETED" /\ Begin(h, c) /\ TakesUp(p)
      /\ UNCHANGED <<reviews, average, repointed>>
  BY DEF CreateReview
<1>2. b \in completed
  BY <1>1 DEF EInv, BookingsOK, BookingsLeft, IsBooking
<1>3. c.op = "review" /\ c.pc = "insert" /\ c.prop = p /\ c.booking = b
  OBVIOUS
<1> HIDE DEF c
<1>4. ReviewKnows(c)
  BY <1>2, <1>3 DEF ReviewKnows
<1> QED
  BY <1>1, <1>3, <1>4, ReviewBegins

\* The change of a review begins; nothing is written yet.
LEMMA UpdateBegun ==
    ASSUME EInv, NEW h \in Handlers, NEW v \in DOMAIN reviews, UpdateReview(h, v),
           UNCHANGED <<propertyVars, bookingVars, upkeepVars>>
    PROVE  EInv'
<1> DEFINE p == reviews[v].prop
           c == [op |-> "review", pc |-> "update", review |-> v, prop |-> p]
<1>1. v \in Reviewed /\ Begin(h, c) /\ TakesUp(p) /\ UNCHANGED <<reviews, average, repointed>>
  BY DEF UpdateReview
<1>2. p \in PropertyIds
  BY <1>1 DEF EInv, ReviewsOK, Reviewed, Review
<1>3. c.op = "review" /\ c.pc = "update" /\ c.review = v /\ c.prop = p
  OBVIOUS
<1> HIDE DEF p, c
<1>4. ReviewKnows(c)
  BY <1>2, <1>3 DEF ReviewKnows
<1> QED
  BY <1>1, <1>3, <1>4, ReviewBegins

\* So does its deletion.
LEMMA DeletionBegun ==
    ASSUME EInv, NEW h \in Handlers, NEW v \in DOMAIN reviews, RemoveReview(h, v),
           UNCHANGED <<propertyVars, bookingVars, upkeepVars>>
    PROVE  EInv'
<1> DEFINE p == reviews[v].prop
           c == [op |-> "review", pc |-> "delete", review |-> v, prop |-> p]
<1>1. v \in Reviewed /\ Begin(h, c) /\ TakesUp(p) /\ UNCHANGED <<reviews, average, repointed>>
  BY DEF RemoveReview
<1>2. p \in PropertyIds
  BY <1>1 DEF EInv, ReviewsOK, Reviewed, Review
<1>3. c.op = "review" /\ c.pc = "delete" /\ c.review = v /\ c.prop = p
  OBVIOUS
<1> HIDE DEF p, c
<1>4. ReviewKnows(c)
  BY <1>2, <1>3 DEF ReviewKnows
<1> QED
  BY <1>1, <1>3, <1>4, ReviewBegins

Changing == {"insert", "update", "delete"}

\* A row has changed: the call goes on to the average of its own property, and any
\* other whose ratings have changed is astray.
LEMMA AveragesWritten ==
    ASSUME EInv, NEW h \in Handlers, NEW c, handler' = [handler EXCEPT ![h] = c],
           handler[h].op = "review", handler[h].pc \in Changing,
           c.op = "review", c.pc = "average", c.prop = handler[h].prop,
           astray' \in SUBSET PropertyIds, astray \subseteq astray', UNCHANGED average,
           \A p \in PropertyIds \ astray' : p # c.prop =>
              Rated(p)' = Rated(p) /\ \A v \in Rated(p) : reviews'[v].clean = reviews[v].clean
    PROVE  AveragesOK'
<1>1. ASSUME NEW p \in PropertyIds \ astray' PROVE AverageOf(p)'
  <2>1. AverageOf(p) /\ ReviewsOK
    BY DEF EInv, AveragesOK
  <2>2. CASE p # c.prop
    <3>1. CallsAway("review", p)
      BY <2>2, AveragingMoves DEF CallsAway
    <3> QED BY <2>1, <2>2, <3>1, AverageElsewhere
  <2>3. CASE p = c.prop
    <3>1. Averaging(p) = {h}
      BY <2>1, <2>3, AloneNow
    <3>2. Averaging(p)' = {h} /\ handler'[h] = c
      BY <2>3, <3>1, AloneNext, AveragingMoves
    <3> QED BY <3>2 DEF AverageOf
  <2> QED BY <2>2, <2>3
<1> QED
  BY <1>1 DEF AveragesOK, EInv

\* A call that ends without averaging: where no rating has changed, the average
\* stands.
LEMMA AveragesReturned ==
    ASSUME EInv, NEW h \in Handlers, handler' = [handler EXCEPT ![h] = Idle],
           handler[h].op = "review", handler[h].pc \in Changing, UNCHANGED average,
           astray' \in SUBSET PropertyIds, astray \subseteq astray',
           \A p \in PropertyIds \ astray' :
              Rated(p)' = Rated(p) /\ \A v \in Rated(p) : reviews'[v].clean = reviews[v].clean
    PROVE  AveragesOK'
<1>1. Idle.op = "none"
  BY DEF Idle
<1>2. ASSUME NEW p \in PropertyIds \ astray' PROVE AverageOf(p)'
  <2>1. AverageOf(p) /\ ReviewsOK
    BY <1>2 DEF EInv, AveragesOK
  <2>2. Rated(p)' = Rated(p) /\ \A v \in Rated(p) : reviews'[v].clean = reviews[v].clean
    BY <1>2
  <2>3. CASE p # handler[h].prop
    <3>1. CallsAway("review", p)
      BY <1>1, <2>3, AveragingMoves DEF CallsAway
    <3> QED BY <2>1, <2>2, <3>1, AverageElsewhere
  <2>4. CASE p = handler[h].prop
    <3>1. Averaging(p) = {h} /\ handler[h].pc \notin {"average", "write"}
      BY <2>1, <2>4, AloneNow DEF Changing
    <3>2. Averaging(p)' = {}
      BY <1>1, <3>1, AloneNext
    <3>3. Mean(Rated(p))' = Mean(Rated(p))
      BY <2>1, <2>2, MeanKept
    <3> QED BY <2>1, <2>2, <3>1, <3>2, <3>3 DEF AverageOf
  <2> QED BY <2>3, <2>4
<1> QED
  BY <1>2 DEF AveragesOK, EInv

\* A call on reviews ends without averaging.
LEMMA ReviewReturned ==
    ASSUME EInv, NEW h \in Handlers, Return(h), handler[h].op = "review", handler[h].pc \in Changing,
           UNCHANGED <<average, propertyVars, bookingVars, upkeepVars>>,
           astray' \in SUBSET PropertyIds, astray \subseteq astray',
           \A p \in PropertyIds \ astray' :
              Rated(p)' = Rated(p) /\ \A v \in Rated(p) : reviews'[v].clean = reviews[v].clean,
           ReviewsOK', DOMAIN reviews \subseteq DOMAIN reviews'
    PROVE  EInv'
<1>1. handler' = [handler EXCEPT ![h] = Idle] /\ UNCHANGED <<calls, workload>> /\ Idle.op = "none"
  BY Moves
<1>2. AveragesOK'
  BY <1>1, AveragesReturned
<1>3. Knows(handler[h])'
  BY <1>1, CallWritten, IdleKnows DEF EInv
<1> QED
  BY <1>1, <1>2, <1>3, ReviewMoves

\* A call that changes nothing ends.
LEMMA ReviewRefused ==
    ASSUME EInv, NEW h \in Handlers, Return(h), handler[h].op = "review", handler[h].pc \in Changing,
           UNCHANGED <<reviewVars, propertyVars, bookingVars, upkeepVars>>
    PROVE  EInv'
<1>1. /\ UNCHANGED average /\ astray' \in SUBSET PropertyIds /\ astray \subseteq astray'
      /\ DOMAIN reviews \subseteq DOMAIN reviews'
      /\ \A p \in PropertyIds \ astray' :
            Rated(p)' = Rated(p) /\ \A v \in Rated(p) : reviews'[v].clean = reviews[v].clean
  BY DEF EInv, AveragesOK, reviewVars, Rated, Reviewed
<1>2. ReviewsOK'
  BY DEF EInv, ReviewsOK, reviewVars, bookingVars, propertyVars, Reviewed, BookingsLeft, PropertyHere
<1> QED
  BY <1>1, <1>2, ReviewReturned

\* The call of a row that has changed goes on to the average.
LEMMA GoesOn ==
    ASSUME EInv, NEW h \in Handlers, handler[h].op = "review",
           Goto(h, [op |-> "review", pc |-> "average", prop |-> handler[h].prop])
    PROVE  \E c : /\ handler' = [handler EXCEPT ![h] = c] /\ UNCHANGED <<calls, workload>>
                  /\ c.op = "review" /\ c.pc = "average" /\ c.prop = handler[h].prop
                  /\ Knows(handler[h])'
<1> DEFINE c == [op |-> "review", pc |-> "average", prop |-> handler[h].prop]
<1>1. handler' = [handler EXCEPT ![h] = c] /\ UNCHANGED <<calls, workload>>
  BY Moves
<1>2. c.op = "review" /\ c.pc = "average" /\ c.prop = handler[h].prop
  OBVIOUS
<1> HIDE DEF c
<1>3. handler'[h] = c
  BY <1>1, CallWritten DEF EInv
<1>4. c.prop \in PropertyIds
  BY <1>2 DEF EInv, CallsOK, Knows, ReviewKnows
<1>5. Knows(handler[h])'
  BY <1>2, <1>3, <1>4 DEF Knows, ReviewKnows, RepairOps
<1> QED
  BY <1>1, <1>2, <1>5

\* A review is inserted, updated or deleted; its call goes on to the average.
LEMMA ReviewInserted ==
    ASSUME EInv, NEW h \in Handlers, InsertReview(h), UNCHANGED <<propertyVars, bookingVars, upkeepVars>>
    PROVE  EInv'
<1> DEFINE c == handler[h]
<1>1. c.op = "review" /\ c.pc = "insert" /\ UNCHANGED <<average, astray, repointed>>
  BY DEF InsertReview, At
<1>2. CASE ~Valid(c.booking, c.prop, Reviewed)
  <2>1. Return(h) /\ UNCHANGED reviews
    BY <1>2 DEF InsertReview
  <2> QED BY <1>1, <2>1, ReviewRefused DEF Changing, reviewVars
<1>3. CASE Valid(c.booking, c.prop, Reviewed)
  <2> DEFINE made(clean, public) == [booking |-> c.booking, prop |-> c.prop, clean |-> clean, public |-> public]
  <2>1. PICK clean \in Ratings, public \in BOOLEAN : reviews' = Append(reviews, made(clean, public))
    BY <1>3 DEF InsertReview
  <2>2. PICK row : row = made(clean, public)
    OBVIOUS
  <2>3. /\ c.prop \in PropertyIds /\ c.booking \in completed /\ completed \in SUBSET BookingIds
        /\ IsBooking(c.booking) /\ PropertyHere(c.prop)
        /\ \A v \in Reviewed : reviews[v].booking # c.booking
    BY <1>1, <1>3 DEF EInv, CallsOK, Knows, ReviewKnows, Valid, AdmitsReview, BookingsOK
  <2>4. row.booking = c.booking /\ row.prop = c.prop /\ row \in Review
    BY <2>2, <2>3 DEF Review
  <2>5. PICK n : n = Len(reviews)
    OBVIOUS
  <2>6. reviews \in Seq(Review \cup {Null}) /\ DOMAIN reviews = 1 .. n /\ n \in Nat
    BY <2>5 DEF EInv, ReviewsOK
  <2>7. /\ reviews' \in Seq(Review \cup {Null}) /\ DOMAIN reviews' = 1 .. n + 1
        /\ reviews'[n + 1] = row /\ \A v \in 1 .. n : reviews'[v] = reviews[v]
    BY <2>1, <2>2, <2>4, <2>5, <2>6
  <2>8. ReviewsOK'
    <3>1. Reviewed' \subseteq Reviewed \cup {n + 1} /\ \A v \in Reviewed : v \in 1 .. n /\ reviews'[v] = reviews[v]
      BY <2>6, <2>7 DEF Reviewed
    <3>2. repointed' \in SUBSET DOMAIN reviews'
      BY <1>1, <2>6, <2>7 DEF EInv, ReviewsOK
    <3>3. \A v, w \in Reviewed' : reviews'[v].booking = reviews'[w].booking => v = w
      BY <2>3, <2>4, <2>7, <3>1 DEF EInv, ReviewsOK
    <3>4. \A v \in Reviewed' :
            /\ reviews'[v].booking \in BookingsLeft' /\ PropertyHere(reviews[v].prop)'
            /\ v \in repointed' \/ reviews'[v].booking \in completed'
      <4>1. BookingsLeft' = BookingsLeft /\ property' = property /\ completed' = completed
        BY DEF BookingsLeft, bookingVars, propertyVars
      <4>2. row.booking \in BookingsLeft /\ PropertyHere(row.prop) /\ row.booking \in completed
        BY <2>3, <2>4 DEF IsBooking, BookingsLeft
      <4> QED BY <1>1, <2>7, <3>1, <4>1, <4>2 DEF EInv, ReviewsOK, PropertyHere
    <3> QED BY <2>7, <3>2, <3>3, <3>4 DEF ReviewsOK
  <2>9. \A p \in PropertyIds : p # c.prop =>
          Rated(p)' = Rated(p) /\ \A v \in Rated(p) : reviews'[v].clean = reviews[v].clean
    BY <2>4, <2>6, <2>7 DEF Rated, Reviewed
  <2>10. Goto(h, [op |-> "review", pc |-> "average", prop |-> handler[h].prop])
    BY <1>3 DEF InsertReview
  <2>11. PICK d : /\ handler' = [handler EXCEPT ![h] = d] /\ UNCHANGED <<calls, workload>>
                  /\ d.op = "review" /\ d.pc = "average" /\ d.prop = handler[h].prop
                  /\ Knows(handler[h])'
    BY <1>1, <2>10, GoesOn
  <2>12. AveragesOK'
    BY <1>1, <2>9, <2>11, AveragesWritten DEF Changing, EInv, AveragesOK
  <2>13. DOMAIN reviews \subseteq DOMAIN reviews'
    BY <2>6, <2>7
  <2> HIDE DEF c
  <2> QED BY <1>1, <2>8, <2>11, <2>12, <2>13, ReviewMoves DEF c
<1> QED
  BY <1>2, <1>3

\* A review is changed; with a rating, the average is behind until this call has
\* written it.
LEMMA ReviewWritten ==
    ASSUME EInv, NEW h \in Handlers, WriteReview(h), UNCHANGED <<propertyVars, bookingVars, upkeepVars>>
    PROVE  EInv'
<1> DEFINE c == handler[h]
           v == c.review
           row == reviews[v]
<1>1. c.op = "review" /\ c.pc = "update" /\ UNCHANGED average
  BY DEF WriteReview, At
<1>2. CASE Return(h) /\ UNCHANGED <<reviews, astray, repointed>>
  BY <1>1, <1>2, ReviewRefused DEF Changing, reviewVars
<1>3. ASSUME NEW new \in Review, NEW rated \in BOOLEAN, v \in Reviewed,
             Valid(new.booking, new.prop, Reviewed \ {v}),
             reviews' = [reviews EXCEPT ![v] = new],
             repointed' = IF new.booking = row.booking THEN repointed ELSE repointed \cup {v},
             IF rated
             THEN /\ Goto(h, [op |-> "review", pc |-> "average", prop |-> c.prop])
                  /\ astray' = astray \cup ({row.prop, new.prop} \ {c.prop})
             ELSE /\ Return(h) /\ new.clean = row.clean
                  /\ astray' = IF new.prop = row.prop THEN astray
                               ELSE astray \cup {row.prop, new.prop}
      PROVE  EInv'
  <2>2. /\ v \in DOMAIN reviews /\ new.prop \in PropertyIds
        /\ IsBooking(new.booking) /\ PropertyHere(new.prop)
        /\ \A w \in Reviewed \ {v} : reviews[w].booking # new.booking
    BY <1>3 DEF Reviewed, Review, Valid, AdmitsReview
  <2>3. row \in Review
    BY <1>3 DEF EInv, ReviewsOK, Reviewed
  <2>5. reviews \in Seq(Review \cup {Null}) /\ repointed \in SUBSET DOMAIN reviews
    BY DEF EInv, ReviewsOK
  <2> HIDE DEF row, v, c
  <2>6. /\ reviews' \in Seq(Review \cup {Null}) /\ DOMAIN reviews' = DOMAIN reviews
        /\ reviews'[v] = new /\ \A w \in DOMAIN reviews \ {v} : reviews'[w] = reviews[w]
    BY <1>3, <2>2, <2>5
  <2>7. ReviewsOK'
    <3>1. Reviewed' \subseteq Reviewed /\ \A w \in Reviewed' \ {v} : reviews'[w] = reviews[w]
      BY <1>3, <2>6 DEF Reviewed
    <3>2. repointed' \in SUBSET DOMAIN reviews'
      BY <1>3, <2>2, <2>5, <2>6
    <3>3. \A w \in Reviewed' \ {v} : reviews'[w].booking # new.booking
      BY <2>2, <3>1
    <3>4. \A w, x \in Reviewed' : reviews'[w].booking = reviews'[x].booking => w = x
      BY <2>6, <3>1, <3>3 DEF EInv, ReviewsOK
    <3>5. BookingsLeft' = BookingsLeft /\ property' = property /\ completed' = completed
      BY DEF BookingsLeft, bookingVars, propertyVars
    <3>6. new.booking \in BookingsLeft /\ PropertyHere(new.prop)
      BY <1>3, <2>2 DEF IsBooking, BookingsLeft, Review
    <3>7. v \in repointed' \/ new.booking \in completed
      BY <1>3 DEF row, EInv, ReviewsOK
    <3>8. ASSUME NEW w \in Reviewed'
          PROVE  /\ reviews'[w].booking \in BookingsLeft' /\ PropertyHere(reviews[w].prop)'
                 /\ w \in repointed' \/ reviews'[w].booking \in completed'
      <4>1. CASE w = v
        BY <2>6, <3>5, <3>6, <3>7, <4>1 DEF PropertyHere
      <4>2. CASE w # v
        BY <1>3, <3>1, <3>5, <4>2 DEF EInv, ReviewsOK, PropertyHere
      <4> QED BY <4>1, <4>2
    <3> QED BY <2>6, <3>2, <3>4, <3>8 DEF ReviewsOK
  <2>8. row.prop \in PropertyIds /\ astray \in SUBSET PropertyIds
    BY <2>3 DEF Review, EInv, AveragesOK
  <2>9. ASSUME NEW p \in PropertyIds, p = row.prop <=> p = new.prop,
               p = row.prop => new.clean = row.clean
        PROVE  Rated(p)' = Rated(p) /\ \A w \in Rated(p) : reviews'[w].clean = reviews[w].clean
    BY <1>3, <2>3, <2>6, <2>9, ReviewsAssumption DEF Rated, Reviewed, row
  <2>10. CASE rated
    <3>1. /\ Goto(h, [op |-> "review", pc |-> "average", prop |-> handler[h].prop])
          /\ astray' = astray \cup ({row.prop, new.prop} \ {c.prop})
      BY <1>3, <2>10 DEF c
    <3>2. PICK d : /\ handler' = [handler EXCEPT ![h] = d] /\ UNCHANGED <<calls, workload>>
                   /\ d.op = "review" /\ d.pc = "average" /\ d.prop = handler[h].prop
                   /\ Knows(handler[h])'
      BY <1>1, <3>1, GoesOn DEF c
    <3>3. \A p \in PropertyIds \ astray' : p # d.prop => p # row.prop /\ p # new.prop
      BY <3>1, <3>2 DEF c
    <3>4. \A p \in PropertyIds \ astray' : p # d.prop =>
            Rated(p)' = Rated(p) /\ \A w \in Rated(p) : reviews'[w].clean = reviews[w].clean
      BY <2>9, <3>3
    <3>5. astray' \in SUBSET PropertyIds /\ astray \subseteq astray'
      BY <2>2, <2>8, <3>1
    <3>6. AveragesOK'
      BY <1>1, <3>2, <3>4, <3>5, AveragesWritten DEF Changing, c
    <3> QED BY <1>1, <2>6, <2>7, <3>2, <3>6, ReviewMoves DEF c
  <2>11. CASE ~rated
    <3>1. /\ Return(h) /\ new.clean = row.clean
          /\ astray' = IF new.prop = row.prop THEN astray ELSE astray \cup {row.prop, new.prop}
      BY <1>3, <2>11
    <3>2. astray' \in SUBSET PropertyIds /\ astray \subseteq astray'
      BY <2>2, <2>8, <3>1
    <3>3. \A p \in PropertyIds \ astray' : p = row.prop <=> p = new.prop
      BY <3>1
    <3>4. \A p \in PropertyIds \ astray' :
            Rated(p)' = Rated(p) /\ \A w \in Rated(p) : reviews'[w].clean = reviews[w].clean
      BY <2>9, <3>1, <3>3
    <3> QED BY <1>1, <2>6, <2>7, <3>1, <3>2, <3>4, ReviewReturned DEF Changing, c
  <2> QED BY <2>10, <2>11
<1> QED
  BY <1>1, <1>2, <1>3 DEF WriteReview

\* A review goes, if it is still there, and the average follows in the same way.
LEMMA ReviewDeleted ==
    ASSUME EInv, NEW h \in Handlers, DeleteReview(h), UNCHANGED <<propertyVars, bookingVars, upkeepVars>>
    PROVE  EInv'
<1> DEFINE c == handler[h]
           v == c.review
           row == reviews[v]
<1>1. c.op = "review" /\ c.pc = "delete" /\ UNCHANGED <<average, repointed>>
  BY DEF DeleteReview, At
<1>2. CASE v \notin Reviewed
  <2>1. Return(h) /\ UNCHANGED <<reviews, astray>>
    BY <1>2 DEF DeleteReview
  <2> QED BY <1>1, <2>1, ReviewRefused DEF Changing, reviewVars
<1>3. CASE v \in Reviewed
  <2>1. /\ reviews' = [reviews EXCEPT ![v] = Null]
        /\ Goto(h, [op |-> "review", pc |-> "average", prop |-> handler[h].prop])
        /\ astray' = astray \cup ({row.prop} \ {c.prop})
    BY <1>3 DEF DeleteReview
  <2>2. row \in Review /\ v \in DOMAIN reviews
    BY <1>3 DEF EInv, ReviewsOK, Reviewed
  <2>3. reviews \in Seq(Review \cup {Null}) /\ repointed \in SUBSET DOMAIN reviews
    BY DEF EInv, ReviewsOK
  <2> HIDE DEF row, v, c
  <2>4. /\ reviews' \in Seq(Review \cup {Null}) /\ DOMAIN reviews' = DOMAIN reviews
        /\ reviews'[v] = Null /\ \A w \in DOMAIN reviews \ {v} : reviews'[w] = reviews[w]
    BY <2>1, <2>2, <2>3
  <2>5. ReviewsOK'
    <3>1. Reviewed' \subseteq Reviewed /\ \A w \in Reviewed' : reviews'[w] = reviews[w]
      BY <2>4 DEF Reviewed
    <3>2. BookingsLeft' = BookingsLeft /\ property' = property /\ completed' = completed
      BY DEF BookingsLeft, bookingVars, propertyVars
    <3> QED BY <1>1, <2>3, <2>4, <3>1, <3>2 DEF EInv, ReviewsOK, PropertyHere
  <2>6. \A p \in PropertyIds \ astray' : p # c.prop =>
          Rated(p)' = Rated(p) /\ \A w \in Rated(p) : reviews'[w].clean = reviews[w].clean
    BY <2>1, <2>4 DEF Rated, Reviewed, row
  <2>7. PICK d : /\ handler' = [handler EXCEPT ![h] = d] /\ UNCHANGED <<calls, workload>>
                 /\ d.op = "review" /\ d.pc = "average" /\ d.prop = handler[h].prop
                 /\ Knows(handler[h])'
    BY <1>1, <2>1, GoesOn DEF c
  <2>8. AveragesOK'
    <3>1. row.prop \in PropertyIds /\ astray \in SUBSET PropertyIds
      BY <2>2 DEF Review, EInv, AveragesOK
    <3>2. astray' \in SUBSET PropertyIds /\ astray \subseteq astray'
      BY <2>1, <3>1
    <3> QED BY <1>1, <2>6, <2>7, <3>2, AveragesWritten DEF Changing, c
  <2> QED BY <1>1, <2>4, <2>5, <2>7, <2>8, ReviewMoves DEF c
<1> QED
  BY <1>2, <1>3

\* The look for ratings: a call that is alone sets its property right again.
LEMMA RatingsFound ==
    ASSUME EInv, NEW h \in Handlers, FindRatings(h), UNCHANGED <<propertyVars, bookingVars, upkeepVars>>
    PROVE  EInv'
<1> DEFINE p == handler[h].prop
           next == [op |-> "review", pc |-> "write", prop |-> p, mean |-> Mean(Rated(p))]
<1>1. /\ handler[h].op = "review" /\ UNCHANGED <<reviews, average, repointed>>
      /\ astray' = IF Averaging(p) = {h} THEN astray \ {p} ELSE astray
  BY DEF FindRatings, At
<1>2. p \in PropertyIds
  BY <1>1 DEF EInv, CallsOK, Knows, ReviewKnows
<1>3. PICK c : /\ handler' = [handler EXCEPT ![h] = c] /\ UNCHANGED <<calls, workload>>
               /\ \/ Rated(p) = {} /\ c = Idle
                  \/ /\ Rated(p) # {} /\ c.op = "review" /\ c.pc = "write" /\ c.prop = p
                     /\ c.mean = Mean(Rated(p))
  <2>1. CASE Rated(p) = {}
    <3>1. Return(h)
      BY <2>1 DEF FindRatings, Averaged
    <3> QED BY <2>1, <3>1, Moves
  <2>2. CASE Rated(p) # {}
    <3>1. Goto(h, next)
      BY <2>2 DEF FindRatings, Averaged
    <3>2. next.op = "review" /\ next.pc = "write" /\ next.prop = p /\ next.mean = Mean(Rated(p))
      OBVIOUS
    <3> HIDE DEF next
    <3> QED BY <2>2, <3>1, <3>2, Moves
  <2> QED BY <2>1, <2>2
<1> HIDE DEF p
<1>4. Idle.op = "none" /\ handler'[h] = c
  BY <1>3, CallWritten DEF Idle, EInv
<1>5. Knows(handler[h])'
  <2>1. CASE c = Idle
    BY <1>4, <2>1, IdleKnows
  <2>2. CASE Rated(p) # {} /\ c.op = "review" /\ c.pc = "write" /\ c.prop = p /\ c.mean = Mean(Rated(p))
    <3>1. c.mean \in 100 .. 500
      BY <2>2, RatedRows DEF EInv
    <3> QED BY <1>2, <1>4, <2>2, <3>1 DEF Knows, ReviewKnows, RepairOps
  <2> QED BY <1>3, <2>1, <2>2
<1>6. ReviewsOK'
  BY <1>1 DEF EInv, ReviewsOK, bookingVars, propertyVars, Reviewed, BookingsLeft, PropertyHere
<1>7. ASSUME NEW q \in PropertyIds \ astray' PROVE AverageOf(q)'
  <2>1. Rated(q)' = Rated(q) /\ ReviewsOK
    BY <1>1 DEF Rated, Reviewed, EInv
  <2>2. CASE q # p
    <3>1. CallsAway("review", q)
      BY <1>1, <1>3, <1>4, <2>2, AveragingMoves DEF CallsAway, p
    <3>2. AverageOf(q)
      BY <1>1, <2>2 DEF EInv, AveragesOK
    <3> QED BY <1>1, <2>1, <3>1, <3>2, AverageElsewhere
  <2>3. CASE q = p
    <3>1. Averaging(q) = {h}
      <4>1. CASE q \in astray
        BY <1>1, <2>3, <4>1
      <4>2. CASE q \notin astray
        BY <1>1, <2>3, <4>2, AloneNow DEF EInv, AveragesOK, p
      <4> QED BY <4>1, <4>2
    <3>2. Mean(Rated(q))' = Mean(Rated(q))
      BY <1>1, <2>1, MeanKept
    <3>3. CASE c = Idle /\ Rated(q) = {}
      <4>1. Averaging(q)' = {}
        BY <1>3, <1>4, <3>1, <3>3, AloneNext
      <4> QED BY <2>1, <3>3, <4>1 DEF AverageOf
    <3>4. CASE Rated(q) # {} /\ c.op = "review" /\ c.pc = "write" /\ c.prop = q /\ c.mean = Mean(Rated(q))
      <4>1. Averaging(q)' = {h}
        BY <1>3, <3>1, <3>4, AloneNext
      <4> QED BY <1>4, <2>1, <3>2, <3>4, <4>1 DEF AverageOf
    <3> QED BY <1>3, <2>3, <3>3, <3>4
  <2> QED BY <2>2, <2>3
<1>8. AveragesOK'
  BY <1>1, <1>7 DEF AveragesOK, EInv
<1> QED
  BY <1>1, <1>3, <1>4, <1>5, <1>6, <1>8, ReviewMoves

\* The mean that was worked out becomes the average.
LEMMA AverageWritten ==
    ASSUME EInv, NEW h \in Handlers, WriteAverage(h), UNCHANGED <<propertyVars, bookingVars, upkeepVars>>
    PROVE  EInv'
<1> DEFINE p == handler[h].prop
           mean == handler[h].mean
<1>1. /\ handler[h].op = "review" /\ handler[h].pc = "write" /\ UNCHANGED <<reviews, astray, repointed>>
      /\ average' = IF PropertyHere(p) THEN [average EXCEPT ![p] = mean] ELSE average
      /\ handler' = [handler EXCEPT ![h] = Idle] /\ UNCHANGED <<calls, workload>> /\ Idle.op = "none"
  BY Moves DEF WriteAverage, At
<1>2. p \in PropertyIds /\ mean \in 100 .. 500
  BY <1>1 DEF EInv, CallsOK, Knows, ReviewKnows
<1> HIDE DEF p, mean
<1>3. Knows(handler[h])'
  BY <1>1, CallWritten, IdleKnows DEF EInv
<1>4. ReviewsOK'
  BY <1>1 DEF EInv, ReviewsOK, bookingVars, propertyVars, Reviewed, BookingsLeft, PropertyHere
<1>5. average \in [PropertyIds -> 100 .. 500 \cup {Null}]
  BY DEF EInv, AveragesOK
<1>6. average' \in [PropertyIds -> 100 .. 500 \cup {Null}] /\ \A q \in PropertyIds \ {p} : average'[q] = average[q]
  BY <1>1, <1>2, <1>5
<1>7. ASSUME NEW q \in PropertyIds \ astray' PROVE AverageOf(q)'
  <2>1. AverageOf(q) /\ Rated(q)' = Rated(q) /\ ReviewsOK
    BY <1>1, <1>7 DEF EInv, AveragesOK, Rated, Reviewed
  <2>2. CASE q # p
    <3>1. CallsAway("review", q)
      BY <1>1, <2>2, AveragingMoves DEF CallsAway, p
    <3> QED BY <1>1, <1>6, <2>1, <2>2, <3>1, AverageElsewhere
  <2>3. CASE q = p
    <3>1. Averaging(q) = {h}
      BY <1>1, <2>1, <2>3, AloneNow DEF p
    <3>2. Averaging(q)' = {}
      BY <1>1, <3>1, AloneNext
    <3>3. Rated(q) # {} /\ mean = Mean(Rated(q))
      BY <1>1, <2>1, <3>1 DEF AverageOf, mean
    <3>4. PropertyHere(q)
      BY <2>1, <3>3, RatedRows
    <3>5. average'[q] = Mean(Rated(q))
      BY <1>1, <1>2, <1>5, <2>3, <3>3, <3>4
    <3>6. Mean(Rated(q))' = Mean(Rated(q))
      BY <1>1, <2>1, MeanKept
    <3> QED BY <3>2, <3>5, <3>6 DEF AverageOf
  <2> QED BY <2>2, <2>3
<1>8. AveragesOK'
  BY <1>1, <1>6, <1>7 DEF AveragesOK, EInv
<1> QED
  BY <1>1, <1>3, <1>4, <1>8, ReviewMoves

\* All of these.
LEMMA ReviewsCalled ==
    ASSUME EInv, NEW h \in Handlers, ReviewCalls(h) \/ ReviewSteps(h),
           UNCHANGED <<propertyVars, bookingVars, upkeepVars>>
    PROVE  EInv'
BY CreationBegun, UpdateBegun, DeletionBegun, ReviewInserted, ReviewWritten, ReviewDeleted,
   RatingsFound, AverageWritten
   DEF ReviewCalls, ReviewSteps

-----------------------------------------------------------------------------
(***************************************************************************)
(* Cleaning                                                                *)
(***************************************************************************)

\* A step of a call on schedules, requests or a stay that is completed.
LEMMA UpkeepMoves ==
    ASSUME EInv, NEW h \in Handlers, NEW c, handler' = [handler EXCEPT ![h] = c],
           (\E op : Asked(op)) \/ UNCHANGED <<calls, workload>>,
           handler[h].op # "review", c.op # "review", Knows(handler[h])', Grows, Remains,
           BookingsOK', SchedulesOK', CleaningsOK', RepairsOK', UNCHANGED <<propertyVars, reviewVars>>
    PROVE  EInv'
<1>1. CallsOK'
  BY CallsWritten DEF EInv
<1>2. Aside("review")
  BY CallAside DEF EInv
<1>3. ReviewsOK' /\ AveragesOK'
  BY <1>2, ReviewSide
<1>4. GroupsOK'
  BY DEF EInv, GroupsOK, propertyVars, Reference, GroupHere
<1> QED
  BY <1>1, <1>3, <1>4 DEF EInv

\* An edit of the schedules, which no call makes.
LEMMA ScheduleEdited ==
    ASSUME EInv, UNCHANGED <<handler, propertyVars, bookingVars, reviewVars, repairs>>, (\E op : Asked(op)),
           Grows, SchedulesOK', CleaningsOK'
    PROVE  EInv'
<1>1. CallsOK'
  BY CallsLeft DEF EInv
<1>2. Remains
  BY DEF Remains, propertyVars, bookingVars
<1>3. ReviewsOK' /\ AveragesOK'
  BY <1>2, ReviewSide DEF Aside
<1>4. RepairsOK'
  BY <1>2, RepairSide
<1>5. GroupsOK' /\ BookingsOK'
  BY TableSide
<1> QED
  BY <1>1, <1>3, <1>4, <1>5 DEF EInv

\* A schedule that is there has its type, and its property is there.
LEMMA RowsOfSchedules ==
    ASSUME SchedulesOK, NEW s, IsSchedule(s)
    PROVE  /\ s \in DOMAIN schedules /\ schedules[s] \in Schedule /\ schedules[s] # Null
           /\ PropertyHere(schedules[s].prop) /\ schedules[s].prop \in PropertyIds
BY DEF SchedulesOK, IsSchedule, Schedule

\* A schedule is written: it is marked edited, or due by its frequency.
LEMMA ScheduleWritten ==
    ASSUME EInv, NEW s, IsSchedule(s), NEW row \in Schedule, row.prop = schedules[s].prop,
           schedules' = [schedules EXCEPT ![s] = row], UNCHANGED property,
           edited' \in {edited \cup {s}, edited \ {s}},
           s \in edited' \/ row.next = NextCleaning(row.freq, row.last)
    PROVE  /\ SchedulesOK' /\ DOMAIN schedules' = DOMAIN schedules
           /\ schedules'[s] = row /\ row # Null
           /\ \A t \in DOMAIN schedules \ {s} : schedules'[t] = schedules[t]
<1>1. /\ schedules \in Seq(Schedule \cup {Null}) /\ edited \in SUBSET DOMAIN schedules
      /\ s \in DOMAIN schedules
  BY DEF EInv, SchedulesOK, IsSchedule
<1>2. row # Null
  BY UpkeepAssumption
<1>3. /\ schedules' \in Seq(Schedule \cup {Null}) /\ DOMAIN schedules' = DOMAIN schedules
      /\ schedules'[s] = row /\ \A t \in DOMAIN schedules \ {s} : schedules'[t] = schedules[t]
  BY <1>1
<1>4. edited' \in SUBSET DOMAIN schedules'
  BY <1>1, <1>3
<1>5. ASSUME NEW t \in DOMAIN schedules', IsSchedule(t)'
      PROVE  /\ PropertyHere(schedules[t].prop)'
             /\ t \in edited' \/ schedules'[t].next = NextCleaning(schedules'[t].freq, schedules'[t].last)
  <2>1. CASE t = s
    <3>1. PropertyHere(row.prop)
      BY RowsOfSchedules DEF EInv
    <3> QED BY <1>3, <2>1, <3>1 DEF PropertyHere
  <2>2. CASE t # s
    <3>1. IsSchedule(t) /\ schedules'[t] = schedules[t]
      BY <1>3, <1>5, <2>2 DEF IsSchedule
    <3>2. /\ PropertyHere(schedules[t].prop)
          /\ t \in edited \/ schedules[t].next = NextCleaning(schedules[t].freq, schedules[t].last)
      BY <1>3, <3>1 DEF EInv, SchedulesOK
    <3> QED BY <2>2, <3>1, <3>2 DEF PropertyHere
  <2> QED BY <2>1, <2>2
<1>6. SchedulesOK'
  BY <1>3, <1>4, <1>5 DEF SchedulesOK, NextCleaning
<1> QED
  BY <1>2, <1>3, <1>6

\* A schedule is added.
LEMMA ScheduleAdded ==
    ASSUME EInv, NEW row \in Schedule, PropertyHere(row.prop), AddSchedule(row), UNCHANGED property,
           edited' = edited \cup {Len(schedules')}
    PROVE  /\ SchedulesOK' /\ DOMAIN schedules \subseteq DOMAIN schedules'
           /\ \A t \in DOMAIN schedules : schedules'[t] = schedules[t]
<1>1. PICK n : n = Len(schedules)
  OBVIOUS
<1>2. schedules \in Seq(Schedule \cup {Null}) /\ edited \in SUBSET DOMAIN schedules
      /\ n \in Nat /\ DOMAIN schedules = 1 .. n
  BY <1>1 DEF EInv, SchedulesOK
<1>3. /\ schedules' \in Seq(Schedule \cup {Null}) /\ DOMAIN schedules' = 1 .. n + 1
      /\ Len(schedules') = n + 1 /\ schedules'[n + 1] = row /\ \A t \in 1 .. n : schedules'[t] = schedules[t]
  BY <1>1, <1>2 DEF AddSchedule
<1>4. edited' = edited \cup {n + 1} /\ edited' \in SUBSET DOMAIN schedules'
  BY <1>2, <1>3
<1>5. ASSUME NEW t \in DOMAIN schedules', IsSchedule(t)'
      PROVE  /\ PropertyHere(schedules[t].prop)'
             /\ t \in edited' \/ schedules'[t].next = NextCleaning(schedules'[t].freq, schedules'[t].last)
  <2>1. CASE t = n + 1
    BY <1>3, <1>4, <2>1 DEF PropertyHere
  <2>2. CASE t # n + 1
    <3>1. IsSchedule(t) /\ schedules'[t] = schedules[t]
      BY <1>2, <1>3, <1>5, <2>2 DEF IsSchedule
    <3>2. /\ PropertyHere(schedules[t].prop)
          /\ t \in edited \/ schedules[t].next = NextCleaning(schedules[t].freq, schedules[t].last)
      BY <3>1 DEF EInv, SchedulesOK, IsSchedule
    <3> QED BY <1>4, <3>1, <3>2 DEF PropertyHere
  <2> QED BY <2>1, <2>2
<1>6. SchedulesOK'
  BY <1>3, <1>4, <1>5 DEF SchedulesOK, NextCleaning
<1> QED
  BY <1>2, <1>3, <1>6

\* Schedules of properties that are not tangled keep the date of their last cleaning.
LEMMA CleaningsLeft ==
    ASSUME EInv, Aside("cleaned"), UNCHANGED <<property, lastCleaning>>,
           tangled' \in SUBSET PropertyIds, tangled \subseteq tangled',
           \A s \in DOMAIN schedules :
              schedules[s] # Null /\ schedules[s].prop \notin tangled' =>
                  /\ s \in DOMAIN schedules' /\ schedules'[s] # Null
                  /\ schedules'[s].prop = schedules[s].prop /\ schedules'[s].last = schedules[s].last
    PROVE  CleaningsOK'
<1>1. ASSUME NEW p \in PropertyIds \ tangled' PROVE CleaningOf(p)'
  <2>1. CallsAway("cleaned", p)
    BY DEF Aside, CallsAway
  <2>2. CallsOK /\ CleaningOf(p)
    BY DEF EInv, CleaningsOK
  <2> QED BY <2>1, <2>2, CleaningElsewhere DEF PropertyHere
<1> QED
  BY <1>1 DEF EInv, CleaningsOK

\* The next cleaning is a day.
LEMMA NextIsDay ==
    ASSUME NEW freq \in AllFrequencies, NEW last \in Nat PROVE NextCleaning(freq, last) \in Nat
BY DEF NextCleaning, AllFrequencies

\* Edits of schedules: created, updated, deleted.
LEMMA ScheduleCreated ==
    ASSUME EInv, NEW p \in PropertyIds, CreateSchedule(p), UNCHANGED <<propertyVars, bookingVars, reviewVars>>
    PROVE  EInv'
<1> DEFINE due(freq, last, next, today) ==
        IF next # Null THEN next ELSE NextCleaning(freq, IF last # Null THEN last ELSE today)
<1>1. PICK freq \in Frequencies, last \in CleaningDays \cup {Null}, next \in CleaningDays \cup {Null},
           today \in CleaningDays :
        AddSchedule([prop |-> p, freq |-> freq, last |-> last, next |-> due(freq, last, next, today)])
  BY DEF CreateSchedule
<1>2. freq \in AllFrequencies /\ last \in Nat \cup {Null} /\ today \in Nat /\ (last # Null => last \in Nat)
      /\ (next # Null => next \in Nat)
  BY UpkeepAssumption
<1>3. NextCleaning(freq, IF last # Null THEN last ELSE today) \in Nat
  BY <1>2, NextIsDay
<1>4. PICK when : when = due(freq, last, next, today)
  OBVIOUS
<1>5. when \in Nat
  BY <1>2, <1>3, <1>4
<1> HIDE DEF due
<1> DEFINE row == [prop |-> p, freq |-> freq, last |-> last, next |-> when]
<1>6. row \in Schedule /\ row.prop = p /\ AddSchedule(row)
  BY <1>1, <1>2, <1>4, <1>5 DEF Schedule
<1> HIDE DEF row
<1>7. /\ PropertyHere(p) /\ UNCHANGED <<lastCleaning, tangled, repairs, handler>> /\ \E op : Asked(op)
      /\ edited' = edited \cup {Len(schedules')}
  BY DEF CreateSchedule, AtOnce
<1>8. /\ SchedulesOK' /\ DOMAIN schedules \subseteq DOMAIN schedules'
      /\ \A t \in DOMAIN schedules : schedules'[t] = schedules[t]
  BY <1>6, <1>7, ScheduleAdded DEF propertyVars
<1>9. Grows
  BY <1>7, <1>8 DEF Grows, propertyVars, bookingVars, reviewVars
<1>10. CleaningsOK'
  BY <1>7, <1>8, CleaningsLeft DEF Aside, propertyVars, EInv, CleaningsOK
<1> QED
  BY <1>7, <1>8, <1>9, <1>10, ScheduleEdited

\* A schedule is edited by the staff.
LEMMA ScheduleUpdated ==
    ASSUME EInv, NEW s \in DOMAIN schedules, UpdateSchedule(s), UNCHANGED <<propertyVars, bookingVars, reviewVars>>
    PROVE  EInv'
<1>1. PICK freq \in Frequencies, next \in CleaningDays \cup {schedules[s].next},
           last \in CleaningDays \cup {schedules[s].last} :
        schedules' = [schedules EXCEPT ![s].freq = freq, ![s].next = next, ![s].last = last]
  BY DEF UpdateSchedule
<1>2. /\ IsSchedule(s) /\ UNCHANGED <<lastCleaning, repairs, handler>> /\ \E op : Asked(op)
      /\ edited' = edited \cup {s} /\ tangled' = tangled \cup {schedules[s].prop}
  BY DEF UpdateSchedule, AtOnce
<1>3. schedules[s] \in Schedule /\ schedules[s].prop \in PropertyIds /\ s \in DOMAIN schedules
  BY <1>2, RowsOfSchedules DEF EInv
<1> DEFINE row == [schedules[s] EXCEPT !.freq = freq, !.next = next, !.last = last]
<1>4. row \in Schedule /\ row.prop = schedules[s].prop
  BY <1>3, UpkeepAssumption DEF Schedule
<1>5. schedules' = [schedules EXCEPT ![s] = row]
  BY <1>1, <1>3 DEF Schedule, EInv, SchedulesOK
<1> HIDE DEF row
<1>6. /\ SchedulesOK' /\ DOMAIN schedules' = DOMAIN schedules /\ schedules'[s] = row /\ row # Null
      /\ \A t \in DOMAIN schedules \ {s} : schedules'[t] = schedules[t]
  BY <1>2, <1>4, <1>5, ScheduleWritten DEF propertyVars
<1>7. Grows
  BY <1>2, <1>3, <1>4, <1>6 DEF Grows, propertyVars, bookingVars, reviewVars, IsSchedule
<1>8. CleaningsOK'
  <2>1. tangled' \in SUBSET PropertyIds
    BY <1>2, <1>3 DEF EInv, CleaningsOK
  <2> QED BY <1>2, <1>6, <2>1, CleaningsLeft DEF Aside, propertyVars
<1> QED
  BY <1>2, <1>6, <1>7, <1>8, ScheduleEdited

\* A schedule goes.
LEMMA ScheduleRemoved ==
    ASSUME EInv, NEW s \in DOMAIN schedules, RemoveSchedule(s), UNCHANGED <<propertyVars, bookingVars, reviewVars>>
    PROVE  EInv'
<1>1. /\ IsSchedule(s) /\ UNCHANGED <<lastCleaning, edited, repairs, handler>> /\ \E op : Asked(op)
      /\ schedules' = [schedules EXCEPT ![s] = Null] /\ tangled' = tangled \cup {schedules[s].prop}
  BY DEF RemoveSchedule, AtOnce
<1>2. schedules[s].prop \in PropertyIds
  BY <1>1, RowsOfSchedules DEF EInv
<1>3. schedules \in Seq(Schedule \cup {Null}) /\ edited \in SUBSET DOMAIN schedules
  BY DEF EInv, SchedulesOK
<1>4. /\ schedules' \in Seq(Schedule \cup {Null}) /\ DOMAIN schedules' = DOMAIN schedules
      /\ schedules'[s] = Null /\ \A t \in DOMAIN schedules \ {s} : schedules'[t] = schedules[t]
  BY <1>1, <1>3
<1>5. SchedulesOK'
  <2>1. \A t \in DOMAIN schedules' : IsSchedule(t)' => IsSchedule(t) /\ schedules'[t] = schedules[t]
    BY <1>4 DEF IsSchedule
  <2> QED BY <1>1, <1>3, <1>4, <2>1 DEF EInv, SchedulesOK, PropertyHere, propertyVars, NextCleaning
<1>6. Grows
  BY <1>1, <1>4 DEF Grows, propertyVars, bookingVars, reviewVars
<1>7. CleaningsOK'
  <2>1. tangled' \in SUBSET PropertyIds
    BY <1>1, <1>2 DEF EInv, CleaningsOK
  <2> QED BY <1>1, <1>4, <2>1, CleaningsLeft DEF Aside, propertyVars
<1> QED
  BY <1>1, <1>5, <1>6, <1>7, ScheduleEdited

\* All of these.
LEMMA SchedulesEdited ==
    ASSUME EInv, UpkeepEdits, UNCHANGED <<propertyVars, bookingVars, reviewVars>> PROVE EInv'
BY ScheduleCreated, ScheduleUpdated, ScheduleRemoved DEF UpkeepEdits

-----------------------------------------------------------------------------
\* A call that leaves the schedules and the requests as they are.
LEMMA OnlyMoves ==
    ASSUME EInv, NEW h \in Handlers, NEW c, handler' = [handler EXCEPT ![h] = c],
           (\E op : Asked(op)) \/ UNCHANGED <<calls, workload>>,
           handler[h].op \notin {"review", "cleaned"}, c.op \notin {"review", "cleaned"},
           Knows(handler[h])', Remains, BookingsOK', UNCHANGED <<propertyVars, reviewVars, upkeepVars>>,
           \A b \in BookingIds : bookings'[b] # Null => bookings[b] # Null
    PROVE  EInv'
<1>1. Grows
  BY DEF Grows, Remains, propertyVars, reviewVars, upkeepVars, cleaningVars
<1>2. SchedulesOK' /\ CleaningsOK'
  BY CallAside, ScheduleSide DEF EInv, upkeepVars
<1>3. RepairsOK'
  BY RepairSide DEF upkeepVars
<1> QED
  BY <1>1, <1>2, <1>3, UpkeepMoves

\* A stay is completed: the booking is written, a schedule is looked for, and
\* moved or made.
LEMMA StayCompleted ==
    ASSUME EInv, NEW h \in Handlers, NEW b \in BookingIds, CompleteStay(h, b),
           UNCHANGED <<propertyVars, reviewVars>>
    PROVE  EInv'
<1> DEFINE call(day) == [op |-> "completeStay", pc |-> "find", prop |-> bookings[b].prop, day |-> day]
<1>1. PICK day \in CleaningDays : Begin(h, call(day))
  BY DEF CompleteStay
<1>2. PICK c : c = call(day)
  OBVIOUS
<1>3. c.op = "completeStay" /\ c.pc = "find" /\ c.prop = bookings[b].prop /\ c.day = day
  BY <1>2
<1>4. Begin(h, c)
  BY <1>1, <1>2
<1> HIDE DEF call
<1>5. /\ handler' = [handler EXCEPT ![h] = c] /\ handler[h].op = "none" /\ \E op : Asked(op)
  BY <1>4, Moves
<1>6. IsBooking(b) /\ WriteStatus(b, "COMPLETED") /\ UNCHANGED upkeepVars /\ "COMPLETED" \in BookingStatuses
  BY DEF CompleteStay, BookingStatuses
<1>7. /\ BookingsOK' /\ Remains
      /\ \A x \in BookingIds : bookings'[x] # Null => bookings[x] # Null
  BY <1>6, StatusKept DEF propertyVars
<1>8. bookings[b].prop \in PropertyIds
  BY <1>6 DEF EInv, BookingsOK, IsBooking
<1>9. Knows(handler[h])'
  <2>1. handler'[h] = c
    BY <1>5, CallWritten DEF EInv
  <2> QED BY <1>3, <1>8, <2>1 DEF Knows, StayKnows, RepairOps
<1> QED
  BY <1>3, <1>5, <1>6, <1>7, <1>9, OnlyMoves

\* The completion of a cleaning looks for the schedule.
LEMMA ScheduleFound ==
    ASSUME EInv, NEW h \in Handlers, FindSchedule(h), UNCHANGED <<propertyVars, bookingVars, reviewVars>>
    PROVE  EInv'
<1> DEFINE call(s) == [op |-> "completeStay", pc |-> "write", prop |-> handler[h].prop,
                       day |-> handler[h].day, schedule |-> s]
<1>1. handler[h].op = "completeStay" /\ UNCHANGED upkeepVars
  BY DEF FindSchedule, At
<1>2. PICK s \in {0} \cup DOMAIN schedules : Goto(h, call(s))
  BY DEF FindSchedule
<1>3. PICK c : c = call(s)
  OBVIOUS
<1>4. c.op = "completeStay" /\ c.prop = handler[h].prop /\ c.day = handler[h].day /\ c.schedule = s
  BY <1>3
<1>5. Goto(h, c)
  BY <1>2, <1>3
<1> HIDE DEF call
<1>6. handler' = [handler EXCEPT ![h] = c] /\ UNCHANGED <<calls, workload>>
  BY <1>5, Moves
<1>7. handler[h].prop \in PropertyIds /\ handler[h].day \in CleaningDays
  BY <1>1 DEF EInv, CallsOK, Knows, StayKnows
<1>8. Knows(handler[h])'
  <2>1. handler'[h] = c /\ schedules' = schedules
    BY <1>1, <1>6, CallWritten DEF EInv, upkeepVars, cleaningVars
  <2> QED BY <1>4, <1>7, <2>1 DEF Knows, StayKnows, RepairOps
<1>9. Remains /\ BookingsOK' /\ \A b \in BookingIds : bookings'[b] # Null => bookings[b] # Null
  BY TableSide DEF Remains, propertyVars, bookingVars
<1> QED
  BY <1>1, <1>4, <1>6, <1>8, <1>9, OnlyMoves

\* And moves its dates, if it is still there.
LEMMA ScheduleMoved ==
    ASSUME EInv, NEW h \in Handlers, MoveSchedule(h), UNCHANGED <<propertyVars, bookingVars, reviewVars>>
    PROVE  EInv'
<1> DEFINE c == handler[h]
<1>1. /\ c.op = "completeStay" /\ c.pc = "write" /\ UNCHANGED <<lastCleaning, tangled, repairs>>
      /\ handler' = [handler EXCEPT ![h] = Idle] /\ UNCHANGED <<calls, workload>> /\ Idle.op = "none"
  BY Moves DEF MoveSchedule, At
<1>2. c.prop \in PropertyIds /\ c.day \in CleaningDays /\ c.day \in Nat
  BY <1>1, UpkeepAssumption DEF EInv, CallsOK, Knows, StayKnows
<1>3. \/ UNCHANGED <<schedules, edited>>
      \/ /\ PropertyHere(c.prop) /\ edited' = edited \cup {Len(schedules')}
         /\ AddSchedule([prop |-> c.prop, freq |-> "AFTER_EACH_BOOKING", last |-> Null, next |-> c.day])
      \/ /\ IsSchedule(c.schedule) /\ edited' = edited \cup {c.schedule}
         /\ schedules' = [schedules EXCEPT ![c.schedule].next = c.day]
  BY DEF MoveSchedule
<1>4. Knows(handler[h])'
  BY <1>1, CallWritten, IdleKnows DEF EInv
<1> HIDE DEF c
<1>5. /\ SchedulesOK' /\ DOMAIN schedules \subseteq DOMAIN schedules'
      /\ \A t \in DOMAIN schedules : schedules[t] # Null =>
            /\ schedules'[t] # Null /\ schedules'[t].prop = schedules[t].prop
            /\ schedules'[t].last = schedules[t].last
      /\ \A t \in DOMAIN schedules : schedules'[t] # Null => schedules[t] # Null
  <2>1. CASE UNCHANGED <<schedules, edited>>
    BY <2>1 DEF EInv, SchedulesOK, IsSchedule, PropertyHere, propertyVars, NextCleaning
  <2>2. CASE /\ PropertyHere(c.prop) /\ edited' = edited \cup {Len(schedules')}
             /\ AddSchedule([prop |-> c.prop, freq |-> "AFTER_EACH_BOOKING", last |-> Null, next |-> c.day])
    <3> DEFINE row == [prop |-> c.prop, freq |-> "AFTER_EACH_BOOKING", last |-> Null, next |-> c.day]
    <3>1. row \in Schedule /\ row.prop = c.prop /\ AddSchedule(row)
      BY <1>2, <2>2 DEF Schedule, AllFrequencies
    <3> HIDE DEF row
    <3>2. /\ SchedulesOK' /\ DOMAIN schedules \subseteq DOMAIN schedules'
          /\ \A t \in DOMAIN schedules : schedules'[t] = schedules[t]
      BY <2>2, <3>1, ScheduleAdded DEF propertyVars
    <3> QED BY <3>2
  <2>3. CASE /\ IsSchedule(c.schedule) /\ edited' = edited \cup {c.schedule}
             /\ schedules' = [schedules EXCEPT ![c.schedule].next = c.day]
    <3> DEFINE s == c.schedule
               row == [schedules[s] EXCEPT !.next = c.day]
    <3>1. schedules[s] \in Schedule /\ s \in DOMAIN schedules /\ schedules[s] # Null
      BY <2>3, RowsOfSchedules DEF EInv
    <3>2. /\ row \in Schedule /\ row.prop = schedules[s].prop /\ row.last = schedules[s].last
          /\ schedules' = [schedules EXCEPT ![s] = row]
      BY <1>2, <2>3, <3>1 DEF Schedule
    <3> HIDE DEF row, s
    <3>3. /\ SchedulesOK' /\ DOMAIN schedules' = DOMAIN schedules /\ schedules'[s] = row /\ row # Null
          /\ \A t \in DOMAIN schedules \ {s} : schedules'[t] = schedules[t]
      BY <2>3, <3>2, ScheduleWritten DEF propertyVars, s
    <3> QED BY <3>1, <3>2, <3>3
  <2> QED BY <1>3, <2>1, <2>2, <2>3
<1>6. Grows /\ Remains
  BY <1>1, <1>5 DEF Grows, Remains, propertyVars, bookingVars, reviewVars
<1>7. Aside("cleaned")
  BY <1>1, CallAside DEF EInv, c
<1>8. CleaningsOK'
  BY <1>1, <1>5, <1>7, CleaningsLeft DEF propertyVars, EInv, CleaningsOK
<1>9. RepairsOK' /\ BookingsOK'
  BY <1>1, <1>6, RepairSide, TableSide
<1> QED
  BY <1>1, <1>4, <1>5, <1>6, <1>8, <1>9, UpkeepMoves DEF c

-----------------------------------------------------------------------------
\* Who cleans a property, when the call of a handler moves.
LEMMA CleanerNow ==
    ASSUME NEW h \in Handlers, handler[h].op = "cleaned", CleaningOf(handler[h].prop)
    PROVE  CleaningsOf(handler[h].prop) = {h}
<1>1. h \in CleaningsOf(handler[h].prop)
  BY BusyCalls
<1> QED
  BY <1>1 DEF CleaningOf

\* The same once the call has moved.
LEMMA CleanerNext ==
    ASSUME EInv, NEW h \in Handlers, NEW c, handler' = [handler EXCEPT ![h] = c], NEW p,
           CleaningsOf(p) \subseteq {h}
    PROVE  /\ c.op = "cleaned" /\ c.prop = p => CleaningsOf(p)' = {h}
           /\ ~(c.op = "cleaned" /\ c.prop = p) => CleaningsOf(p)' = {}
<1>1. handler'[h] = c /\ \A g \in Handlers \ {h} : handler'[g] = handler[g]
  BY CallWritten DEF EInv
<1>2. \A g \in Handlers \ {h} : ~(handler'[g].op = "cleaned" /\ handler'[g].prop = p)
  BY <1>1, BusyCalls
<1> QED
  BY <1>1, <1>2, BusyCallsNext

\* The call of a handler moves on another property.
LEMMA CleanersElsewhere ==
    ASSUME EInv, NEW h \in Handlers, NEW c, handler' = [handler EXCEPT ![h] = c], NEW p,
           handler[h].op = "cleaned" => handler[h].prop # p, c.op = "cleaned" => c.prop # p
    PROVE  CallsAway("cleaned", p)
BY CallWritten DEF CallsAway, EInv

\* updateCleaningDate begins: a second one on the property tangles it.
LEMMA CleaningBegun ==
    ASSUME EInv, NEW h \in Handlers, NEW s \in DOMAIN schedules, CleaningDone(h, s),
           UNCHANGED <<propertyVars, bookingVars, reviewVars>>
    PROVE  EInv'
<1> DEFINE call(day) == [op |-> "cleaned", pc |-> "both", schedule |-> s, prop |-> schedules[s].prop,
                         freq |-> schedules[s].freq, day |-> day]
<1>1. PICK day \in CleaningDays : Begin(h, call(day))
  BY DEF CleaningDone
<1>2. /\ IsSchedule(s) /\ UNCHANGED <<schedules, lastCleaning, edited, repairs>>
      /\ tangled' = IF CleaningsOf(schedules[s].prop) = {} THEN tangled
                    ELSE tangled \cup {schedules[s].prop}
  BY DEF CleaningDone
<1>3. /\ schedules[s] \in Schedule /\ schedules[s].prop \in PropertyIds
      /\ PropertyHere(schedules[s].prop)
  BY <1>2, RowsOfSchedules DEF EInv
<1>4. PICK c : c = call(day)
  OBVIOUS
<1>5. /\ c \in CleaningCall /\ c.op = "cleaned" /\ c.pc = "both" /\ c.prop = schedules[s].prop
      /\ c.schedule = s /\ Begin(h, c)
  BY <1>1, <1>3, <1>4 DEF CleaningCall, Schedule
<1> HIDE DEF call
<1>6. /\ handler' = [handler EXCEPT ![h] = c] /\ handler[h].op = "none" /\ \E op : Asked(op)
  BY <1>5, Moves
<1>7. handler'[h] = c
  BY <1>6, CallWritten DEF EInv
<1>8. Grows /\ Remains
  BY <1>2, Growing DEF propertyVars, reviewVars
<1>9. Knows(handler[h])'
  <2>1. CleaningKnows(handler[h])'
    BY <1>2, <1>3, <1>5, <1>7 DEF CleaningKnows, CleaningCall, IsSchedule, PropertyHere, propertyVars
  <2> QED BY <1>5, <1>7, <2>1 DEF Knows, RepairOps
<1>10. SchedulesOK'
  BY <1>2 DEF EInv, SchedulesOK, IsSchedule, PropertyHere, propertyVars, NextCleaning
<1>11. tangled' \in SUBSET PropertyIds /\ tangled \subseteq tangled'
  BY <1>2, <1>3 DEF EInv, CleaningsOK
<1>12. ASSUME NEW p \in PropertyIds \ tangled' PROVE CleaningOf(p)'
  <2>1. CallsOK /\ CleaningOf(p)
    BY <1>11 DEF EInv, CleaningsOK
  <2>2. CASE p # schedules[s].prop
    <3>1. CallsAway("cleaned", p)
      BY <1>5, <1>6, <2>2, CleanersElsewhere
    <3> QED BY <1>2, <2>1, <3>1, CleaningElsewhere DEF PropertyHere, propertyVars
  <2>3. CASE p = schedules[s].prop
    <3>1. CleaningsOf(p) = {}
      BY <1>2, <1>12, <2>3
    <3>2. CleaningsOf(p)' = {h}
      <4>1. CleaningsOf(p) \subseteq {h} /\ c.op = "cleaned" /\ c.prop = p
        BY <1>5, <2>3, <3>1
      <4> QED BY <1>6, <4>1, CleanerNext
    <3>3. lastCleaning'[p] # Null => DatedBy(p, lastCleaning[p])'
      BY <1>2, <1>3, <2>1, <2>3, <3>1 DEF CleaningOf, DatedBy, IsSchedule
    <3>4. IsSchedule(handler[h].schedule)'
      BY <1>2, <1>5, <1>7 DEF IsSchedule
    <3> QED BY <1>5, <1>7, <3>2, <3>3, <3>4 DEF CleaningOf
  <2> QED BY <2>2, <2>3
<1>13. CleaningsOK'
  BY <1>2, <1>11, <1>12 DEF CleaningsOK, EInv, propertyVars
<1>14. RepairsOK' /\ BookingsOK'
  BY <1>2, <1>8, RepairSide, TableSide
<1> QED
  BY <1>5, <1>6, <1>8, <1>9, <1>10, <1>13, <1>14, UpkeepMoves

\* A cleaning goes on or ends: to what comes after its write.
LEMMA CleaningGoesOn ==
    ASSUME EInv, NEW h \in Handlers, handler[h].op = "cleaned", Grows, NEW pc \in {"property", "schedule"},
           IF handler[h].pc = "both" THEN Goto(h, [handler[h] EXCEPT !.pc = pc]) ELSE Return(h)
    PROVE  \E c : /\ handler' = [handler EXCEPT ![h] = c] /\ UNCHANGED <<calls, workload>>
                  /\ c.op # "review" /\ Knows(handler[h])'
                  /\ \/ c.op = "none"
                     \/ /\ c.op = "cleaned" /\ c.pc = pc /\ c.prop = handler[h].prop
                        /\ c.schedule = handler[h].schedule /\ c.day = handler[h].day
                        /\ handler[h].pc = "both"
<1>1. CASE handler[h].pc # "both"
  <2>1. handler' = [handler EXCEPT ![h] = Idle] /\ UNCHANGED <<calls, workload>> /\ Idle.op = "none"
    BY <1>1, Moves
  <2>2. Knows(handler[h])'
    BY <2>1, CallWritten, IdleKnows DEF EInv
  <2> QED BY <2>1, <2>2
<1>2. CASE handler[h].pc = "both"
  <2> DEFINE c == handler[h]
             d == [c EXCEPT !.pc = pc]
  <2>1. handler' = [handler EXCEPT ![h] = d] /\ UNCHANGED <<calls, workload>>
    BY <1>2, Moves
  <2>2. CleaningKnows(c)
    BY DEF EInv, CallsOK, Knows
  <2>3. c \in CleaningCall
    BY <2>2 DEF CleaningKnows
  <2>4. /\ d \in CleaningCall /\ d.op = "cleaned" /\ d.pc = pc /\ d.prop = c.prop
        /\ d.schedule = c.schedule /\ d.day = c.day
    BY <2>3 DEF CleaningCall
  <2>5. handler'[h] = d
    BY <2>1, CallWritten DEF EInv
  <2>6. /\ c.prop \in PropertyIds /\ c.schedule \in DOMAIN schedules /\ property[c.prop] # "new"
        /\ schedules[c.schedule] # Null => schedules[c.schedule].prop = c.prop
    BY <2>2, <2>3 DEF CleaningKnows, CleaningCall, IsSchedule
  <2>7. PICK e : e = d
    OBVIOUS
  <2>8. PICK q, s, day : q = c.prop /\ s = c.schedule /\ day = c.day
    OBVIOUS
  <2> HIDE DEF c, d
  <2>9. CleaningKnows(handler[h])'
    <3>1. e \in CleaningCall'
      BY <2>4, <2>7 DEF CleaningCall, Grows
    <3>2. property'[q] # "new" /\ (schedules'[s] # Null => schedules'[s].prop = q)
      BY <2>6, <2>8 DEF Grows
    <3> QED BY <2>4, <2>5, <2>7, <2>8, <3>1, <3>2 DEF CleaningKnows, IsSchedule
  <2>10. Knows(handler[h])'
    BY <2>4, <2>5, <2>7, <2>9 DEF Knows, RepairOps
  <2> QED BY <1>2, <2>1, <2>4, <2>10 DEF c
<1> QED
  BY <1>1, <1>2

\* Its write of the property: between the two writes this date is the new one.
LEMMA PropertyCleaned ==
    ASSUME EInv, NEW h \in Handlers, CleaningOfProperty(h), UNCHANGED <<propertyVars, bookingVars, reviewVars>>
    PROVE  EInv'
<1> DEFINE c == handler[h]
<1>1. /\ c.op = "cleaned" /\ c.pc \in {"both", "property"} /\ UNCHANGED <<schedules, edited, tangled, repairs>>
      /\ lastCleaning' = IF PropertyHere(c.prop) THEN [lastCleaning EXCEPT ![c.prop] = c.day] ELSE lastCleaning
      /\ IF c.pc = "both" THEN Goto(h, [c EXCEPT !.pc = "schedule"]) ELSE Return(h)
  BY DEF CleaningOfProperty
<1>2. Grows /\ Remains
  BY <1>1, Growing DEF propertyVars, reviewVars
<1>3. PICK d : /\ handler' = [handler EXCEPT ![h] = d] /\ UNCHANGED <<calls, workload>>
               /\ d.op # "review" /\ Knows(handler[h])'
               /\ \/ d.op = "none"
                  \/ /\ d.op = "cleaned" /\ d.pc = "schedule" /\ d.prop = c.prop
                     /\ d.schedule = c.schedule /\ d.day = c.day /\ c.pc = "both"
  BY <1>1, <1>2, CleaningGoesOn
<1>4. CleaningKnows(c) /\ c.prop \in PropertyIds /\ c.day \in CleaningDays
  BY <1>1 DEF EInv, CallsOK, Knows, CleaningKnows, CleaningCall
<1>5. handler'[h] = d
  BY <1>3, CallWritten DEF EInv
<1>6. PICK q, s, day : q = c.prop /\ s = c.schedule /\ day = c.day
  OBVIOUS
<1> HIDE DEF c
<1>7. lastCleaning \in [PropertyIds -> CleaningDays \cup {Null}]
  BY DEF EInv, CleaningsOK
<1>8. /\ lastCleaning' \in [PropertyIds -> CleaningDays \cup {Null}]
      /\ \A p \in PropertyIds \ {q} : lastCleaning'[p] = lastCleaning[p]
      /\ PropertyHere(q) => lastCleaning'[q] = day
      /\ ~PropertyHere(q) => lastCleaning'[q] = lastCleaning[q]
  BY <1>1, <1>4, <1>6, <1>7
<1>9. SchedulesOK'
  BY <1>1 DEF EInv, SchedulesOK, IsSchedule, PropertyHere, propertyVars, NextCleaning
<1>10. ASSUME NEW p \in PropertyIds \ tangled' PROVE CleaningOf(p)'
  <2>1. CallsOK /\ CleaningOf(p)
    BY <1>1, <1>10 DEF EInv, CleaningsOK
  <2>2. CASE p # q
    <3>1. CallsAway("cleaned", p)
      BY <1>3, <1>6, <2>2, CleanersElsewhere DEF c
    <3> QED BY <1>1, <1>8, <2>1, <2>2, <3>1, CleaningElsewhere DEF PropertyHere, propertyVars
  <2>3. CASE p = q
    <3>1. CleaningsOf(p) = {h}
      BY <1>1, <1>6, <2>1, <2>3, CleanerNow DEF c
    <3>2. PropertyHere(p) =>
            /\ IsSchedule(s)
            /\ c.pc = "property" => schedules[s].last = day
      BY <1>6, <2>1, <3>1 DEF CleaningOf, c
    <3>3. PropertyHere(p)' <=> PropertyHere(p)
      BY DEF PropertyHere, propertyVars
    <3>4. IsSchedule(s)' <=> IsSchedule(s)
      BY <1>1 DEF IsSchedule
    <3>5. CASE d.op = "none"
      <4>1. CleaningsOf(p)' = {}
        BY <1>3, <3>1, <3>5, CleanerNext
      <4>2. PropertyHere(p) => lastCleaning'[p] = day /\ IsSchedule(s) /\ schedules[s].prop = p
        BY <1>4, <1>6, <1>8, <2>3, <3>2 DEF CleaningKnows
      <4>3. PropertyHere(p) => c.pc = "property"
        <5>1. CASE c.pc = "both"
          <6>1. handler'[h] = [c EXCEPT !.pc = "schedule"] /\ c \in CleaningCall
            BY <1>1, <1>4, <5>1, CallWritten DEF Goto, EInv, CleaningKnows
          <6>2. [c EXCEPT !.pc = "schedule"].op = "cleaned"
            BY <1>1, <6>1 DEF CleaningCall
          <6> QED BY <1>5, <3>5, <6>1, <6>2
        <5> QED BY <1>1, <5>1
      <4>4. PropertyHere(p) => DatedBy(p, lastCleaning[p])'
        BY <1>1, <3>2, <3>4, <4>2, <4>3 DEF DatedBy, IsSchedule
      <4> QED BY <3>3, <4>1, <4>4 DEF CleaningOf
    <3>6. CASE /\ d.op = "cleaned" /\ d.pc = "schedule" /\ d.prop = c.prop
               /\ d.schedule = c.schedule /\ d.day = c.day /\ c.pc = "both"
      <4>1. CleaningsOf(p)' = {h}
        <5>1. d.prop = p
          BY <1>6, <2>3, <3>6
        <5> QED BY <1>3, <3>1, <3>6, <5>1, CleanerNext
      <4>2. d.pc = "schedule" /\ d.schedule = s /\ d.day = day
        BY <1>6, <3>6
      <4> QED BY <1>5, <1>8, <2>3, <3>2, <3>3, <3>4, <4>1, <4>2 DEF CleaningOf, IsSchedule
    <3> QED BY <1>3, <3>5, <3>6
  <2> QED BY <2>2, <2>3
<1>11. \A p \in PropertyIds : property'[p] = "new" => lastCleaning'[p] = Null
  <2>1. PropertyHere(q) => property[q] # "new"
    BY DEF PropertyHere
  <2>2. \A p \in PropertyIds : property[p] = "new" => lastCleaning[p] = Null
    BY DEF EInv, CleaningsOK
  <2> QED BY <1>8, <2>1, <2>2 DEF propertyVars
<1>12. CleaningsOK'
  BY <1>1, <1>8, <1>10, <1>11 DEF EInv, CleaningsOK
<1>13. RepairsOK' /\ BookingsOK'
  BY <1>1, <1>2, RepairSide, TableSide
<1> QED
  BY <1>1, <1>2, <1>3, <1>9, <1>12, <1>13, UpkeepMoves DEF c

\* Its write of the schedule, which may come first.
LEMMA ScheduleCleaned ==
    ASSUME EInv, NEW h \in Handlers, CleaningOfSchedule(h), UNCHANGED <<propertyVars, bookingVars, reviewVars>>
    PROVE  EInv'
<1> DEFINE c == handler[h]
<1>1. /\ c.op = "cleaned" /\ c.pc \in {"both", "schedule"} /\ UNCHANGED <<lastCleaning, tangled, repairs>>
      /\ IF IsSchedule(c.schedule)
         THEN /\ schedules' = [schedules EXCEPT ![c.schedule] = Cleaned(@, c)]
              /\ edited' \in {edited \ {c.schedule}, edited \cup {c.schedule}}
              /\ schedules[c.schedule].freq = c.freq \/ edited' = edited \cup {c.schedule}
         ELSE UNCHANGED <<schedules, edited>>
      /\ IF c.pc = "both" THEN Goto(h, [c EXCEPT !.pc = "property"]) ELSE Return(h)
  BY DEF CleaningOfSchedule
<1>2. CleaningKnows(c) /\ c.prop \in PropertyIds /\ c.day \in CleaningDays /\ c.schedule \in DOMAIN schedules
      /\ c.freq \in AllFrequencies
  BY <1>1 DEF EInv, CallsOK, Knows, CleaningKnows, CleaningCall
<1>3. PICK q, s, day : q = c.prop /\ s = c.schedule /\ day = c.day
  OBVIOUS
<1>4. IsSchedule(s) => schedules[s].prop = q
  BY <1>2, <1>3 DEF CleaningKnows
<1> HIDE DEF c
<1>5. /\ SchedulesOK' /\ DOMAIN schedules' = DOMAIN schedules
      /\ \A t \in DOMAIN schedules \ {s} : schedules'[t] = schedules[t]
      /\ \A t \in DOMAIN schedules : schedules'[t] # Null <=> schedules[t] # Null
      /\ \A t \in DOMAIN schedules : schedules'[t].prop = schedules[t].prop
      /\ IsSchedule(s) => schedules'[s].last = day
  <2>1. CASE ~IsSchedule(s)
    <3>1. UNCHANGED <<schedules, edited>>
      BY <1>1, <1>3, <2>1
    <3> QED
      BY <2>1, <3>1 DEF EInv, SchedulesOK, IsSchedule, PropertyHere, propertyVars, NextCleaning
  <2>2. CASE IsSchedule(s)
    <3> DEFINE row == Cleaned(schedules[s], c)
    <3>1. schedules[s] \in Schedule /\ s \in DOMAIN schedules /\ schedules[s] # Null
      BY <2>2, RowsOfSchedules DEF EInv
    <3>2. NextCleaning(c.freq, day) \in Nat /\ day \in Nat
      BY <1>2, <1>3, UpkeepAssumption DEF NextCleaning
    <3>3. /\ row \in Schedule /\ row.prop = schedules[s].prop /\ row.last = day
          /\ row.next = NextCleaning(c.freq, day) /\ row.freq = schedules[s].freq
      BY <1>3, <3>1, <3>2 DEF Schedule, Cleaned
    <3>4. schedules' = [schedules EXCEPT ![s] = row]
      BY <1>1, <1>3, <2>2
    <3>5. edited' \in {edited \ {s}, edited \cup {s}} /\ (row.freq = c.freq \/ edited' = edited \cup {s})
      BY <1>1, <1>3, <2>2, <3>3
    <3> HIDE DEF row
    <3>6. s \in edited' \/ row.next = NextCleaning(row.freq, row.last)
      BY <3>3, <3>5
    <3>7. /\ SchedulesOK' /\ DOMAIN schedules' = DOMAIN schedules /\ schedules'[s] = row /\ row # Null
          /\ \A t \in DOMAIN schedules \ {s} : schedules'[t] = schedules[t]
      BY <2>2, <3>3, <3>4, <3>5, <3>6, ScheduleWritten DEF propertyVars
    <3> QED BY <3>1, <3>3, <3>7
  <2> QED BY <2>1, <2>2
<1>6. Grows /\ Remains
  <2>1. Remains
    BY DEF Remains, propertyVars, bookingVars
  <2>2. /\ completed' = completed /\ reviews' = reviews /\ repairs' = repairs
        /\ property' = property /\ bookings' = bookings
    BY <1>1 DEF propertyVars, bookingVars, reviewVars
  <2> QED BY <1>5, <2>1, <2>2 DEF Grows
<1>7. PICK d : /\ handler' = [handler EXCEPT ![h] = d] /\ UNCHANGED <<calls, workload>>
               /\ d.op # "review" /\ Knows(handler[h])'
               /\ \/ d.op = "none"
                  \/ /\ d.op = "cleaned" /\ d.pc = "property" /\ d.prop = c.prop
                     /\ d.schedule = c.schedule /\ d.day = c.day /\ c.pc = "both"
  <2>1. /\ c.op = "cleaned"
        /\ IF c.pc = "both" THEN Goto(h, [c EXCEPT !.pc = "property"]) ELSE Return(h)
    BY <1>1
  <2> QED BY <1>6, <2>1, CleaningGoesOn DEF c
<1>8. handler'[h] = d
  BY <1>7, CallWritten DEF EInv
<1>9. ASSUME NEW p \in PropertyIds \ tangled' PROVE CleaningOf(p)'
  <2>1. CallsOK /\ CleaningOf(p)
    BY <1>1, <1>9 DEF EInv, CleaningsOK
  <2>2. CASE p # q
    <3>1. CallsAway("cleaned", p)
      BY <1>3, <1>7, <2>2, CleanersElsewhere DEF c
    <3>2. \A t \in DOMAIN schedules : schedules[t] # Null /\ schedules[t].prop = p =>
            t \in DOMAIN schedules' /\ schedules'[t] = schedules[t]
      BY <1>4, <1>5, <2>2 DEF IsSchedule
    <3> QED BY <1>1, <2>1, <3>1, <3>2, CleaningElsewhere DEF PropertyHere, propertyVars
  <2>3. CASE p = q
    <3>1. CleaningsOf(p) = {h}
      BY <1>1, <1>3, <2>1, <2>3, CleanerNow DEF c
    <3>2. PropertyHere(p) => IsSchedule(s) /\ (c.pc = "schedule" => lastCleaning[p] = day)
      BY <1>3, <2>1, <3>1 DEF CleaningOf, c
    <3>3. PropertyHere(p)' <=> PropertyHere(p)
      BY DEF PropertyHere, propertyVars
    <3>4. PropertyHere(p) => IsSchedule(s)' /\ schedules'[s].prop = p /\ schedules'[s].last = day
                             /\ s \in DOMAIN schedules'
      BY <1>4, <1>5, <2>3, <3>2 DEF IsSchedule
    <3>5. CASE d.op = "none"
      <4>1. CleaningsOf(p)' = {}
        BY <1>7, <3>1, <3>5, CleanerNext
      <4>2. c.pc = "schedule"
        <5>1. CASE c.pc = "both"
          <6>1. handler'[h] = [c EXCEPT !.pc = "property"] /\ c \in CleaningCall
            BY <1>1, <1>2, <5>1, CallWritten DEF Goto, EInv, CleaningKnows
          <6>2. [c EXCEPT !.pc = "property"].op = "cleaned"
            BY <1>1, <6>1 DEF CleaningCall
          <6> QED BY <1>8, <3>5, <6>1, <6>2
        <5> QED BY <1>1, <5>1
      <4>3. PropertyHere(p) => DatedBy(p, lastCleaning[p])'
        BY <1>1, <3>2, <3>4, <4>2 DEF DatedBy
      <4> QED BY <3>3, <4>1, <4>3 DEF CleaningOf
    <3>6. CASE /\ d.op = "cleaned" /\ d.pc = "property" /\ d.prop = q
               /\ d.schedule = s /\ d.day = day /\ c.pc = "both"
      <4>1. CleaningsOf(p)' = {h}
        <5>1. d.prop = p
          BY <2>3, <3>6
        <5> QED BY <1>7, <3>1, <3>6, <5>1, CleanerNext
      <4> QED BY <1>8, <3>3, <3>4, <3>6, <4>1 DEF CleaningOf, IsSchedule
    <3> QED BY <1>3, <1>7, <3>5, <3>6
  <2> QED BY <2>2, <2>3
<1>10. CleaningsOK'
  BY <1>1, <1>9 DEF EInv, CleaningsOK, propertyVars
<1>11. RepairsOK' /\ BookingsOK'
  BY <1>1, <1>6, RepairSide, TableSide
<1> QED
  BY <1>1, <1>5, <1>6, <1>7, <1>10, <1>11, UpkeepMoves DEF c

-----------------------------------------------------------------------------
(***************************************************************************)
(* Maintenance                                                             *)
(***************************************************************************)

\* A step of a call on requests.
LEMMA RepairMoves ==
    ASSUME EInv, NEW h \in Handlers, NEW c, handler' = [handler EXCEPT ![h] = c],
           (\E op : Asked(op)) \/ UNCHANGED <<calls, workload>>,
           handler[h].op \notin {"review", "cleaned"}, c.op \notin {"review", "cleaned"},
           Knows(handler[h])', DOMAIN repairs \subseteq DOMAIN repairs', RepairsOK',
           UNCHANGED <<propertyVars, bookingVars, reviewVars, cleaningVars>>
    PROVE  EInv'
<1>1. Grows /\ Remains
  BY Growing DEF propertyVars, reviewVars, cleaningVars
<1>2. SchedulesOK' /\ CleaningsOK'
  BY <1>1, CallAside, ScheduleSide DEF EInv
<1>3. BookingsOK'
  BY TableSide
<1> QED
  BY <1>1, <1>2, <1>3, UpkeepMoves

\* A call on requests begins: a request is made, or changed.
LEMMA RepairBegins ==
    ASSUME EInv, NEW h \in Handlers, NEW c, Begin(h, c), c.op \in RepairOps \cup {"repair"},
           Knows(handler[h])', UNCHANGED <<propertyVars, bookingVars, reviewVars, upkeepVars>>
    PROVE  EInv'
<1>1. /\ handler' = [handler EXCEPT ![h] = c] /\ handler[h].op = "none" /\ \E op : Asked(op)
  BY Moves
<1>2. c.op \notin {"review", "cleaned"}
  BY DEF RepairOps
<1>3. RepairsOK'
  BY DEF EInv, RepairsOK, IsRepair, PropertyHere, BookingsLeft, propertyVars, bookingVars, upkeepVars
<1> QED
  BY <1>1, <1>2, <1>3, RepairMoves DEF upkeepVars

\* A request for a repair has found its property and booking.
LEMMA RepairBegun ==
    ASSUME EInv, NEW h \in Handlers, NEW p \in PropertyIds, NEW b \in BookingIds \cup {Null},
           CreateRepair(h, p, b), UNCHANGED <<propertyVars, bookingVars, reviewVars>>
    PROVE  EInv'
<1>1. PICK c : c = [op |-> "repair", pc |-> "insert", prop |-> p, booking |-> b]
  OBVIOUS
<1>2. c.op = "repair" /\ c.prop = p /\ c.booking = b
  BY <1>1
<1>3. Begin(h, c) /\ UNCHANGED upkeepVars /\ (b # Null => IsBooking(b) /\ bookings[b].prop = p)
  BY <1>1 DEF CreateRepair
<1>4. handler'[h] = c
  BY <1>3, CallWritten DEF EInv, Begin
<1>5. RepairKnows(handler[h])'
  BY <1>2, <1>3, <1>4, PropertiesAssumption DEF RepairKnows, IsBooking, bookingVars
<1>6. Knows(handler[h])'
  BY <1>2, <1>4, <1>5 DEF Knows, RepairOps
<1> QED
  BY <1>2, <1>3, <1>6, RepairBegins DEF upkeepVars

\* The change of a repair begins; nothing is written yet.
LEMMA ChangeOfRepairBegun ==
    ASSUME EInv, NEW h \in Handlers, NEW m \in DOMAIN repairs, CallOnRepair(h, m),
           UNCHANGED <<propertyVars, bookingVars, reviewVars>>
    PROVE  EInv'
<1>1. PICK c \in RepairWrites(m) : Begin(h, c)
  BY DEF CallOnRepair
<1>2. c.op \in RepairOps /\ c.repair = m /\ c.st \in RepairStatuses
  BY DEF RepairWrites, RepairOps, RepairStatuses
<1>3. handler'[h] = c /\ UNCHANGED upkeepVars
  BY <1>1, CallWritten DEF EInv, Begin, CallOnRepair
<1>4. Knows(handler[h])'
  BY <1>2, <1>3 DEF Knows, RepairOps, upkeepVars
<1> QED
  BY <1>1, <1>2, <1>3, <1>4, RepairBegins DEF upkeepVars

\* A request is inserted with the booking it names, or not at all.
LEMMA RepairInserted ==
    ASSUME EInv, NEW h \in Handlers, InsertRepair(h), UNCHANGED <<propertyVars, bookingVars, reviewVars>>
    PROVE  EInv'
<1> DEFINE c == handler[h]
           made == [prop |-> c.prop, booking |-> c.booking, st |-> "OPEN", done |-> FALSE]
<1>1. /\ c.op = "repair" /\ UNCHANGED cleaningVars
      /\ IF AdmitsRepair(c) THEN repairs' = Append(repairs, made) ELSE UNCHANGED repairs
      /\ handler' = [handler EXCEPT ![h] = Idle] /\ UNCHANGED <<calls, workload>> /\ Idle.op = "none"
  BY Moves DEF InsertRepair, At
<1>2. RepairKnows(c)
  BY <1>1 DEF EInv, CallsOK, Knows
<1>3. PICK row : row = made
  OBVIOUS
<1>4. row \in Repair /\ row.prop = c.prop /\ row.booking = c.booking
  BY <1>2, <1>3 DEF Repair, RepairKnows, RepairStatuses
<1>5. IF AdmitsRepair(c) THEN repairs' = Append(repairs, row) ELSE UNCHANGED repairs
  BY <1>1, <1>3
<1> HIDE DEF c, made
<1>6. RepairsOK
  BY DEF EInv
<1>7. BookingsLeft' = BookingsLeft /\ property' = property /\ bookings' = bookings
  BY DEF BookingsLeft, propertyVars, bookingVars
<1>8. RepairsOK' /\ DOMAIN repairs \subseteq DOMAIN repairs'
  <2>1. CASE ~AdmitsRepair(c)
    BY <1>5, <1>6, <1>7, <2>1 DEF RepairsOK, IsRepair, PropertyHere
  <2>2. CASE AdmitsRepair(c)
    <3>1. PICK n : n = Len(repairs)
      OBVIOUS
    <3>2. repairs \in Seq(Repair \cup {Null}) /\ n \in Nat /\ DOMAIN repairs = 1 .. n
      BY <1>6, <3>1 DEF RepairsOK
    <3>3. /\ repairs' \in Seq(Repair \cup {Null}) /\ DOMAIN repairs' = 1 .. n + 1
          /\ repairs'[n + 1] = row /\ \A m \in 1 .. n : repairs'[m] = repairs[m]
      BY <1>4, <1>5, <2>2, <3>1, <3>2
    <3>4. /\ PropertyHere(row.prop)
          /\ row.booking # Null => row.booking \in BookingsLeft /\ bookings[row.booking].prop = row.prop
      BY <1>2, <1>4, <2>2 DEF AdmitsRepair, RepairKnows, IsBooking, BookingsLeft
    <3>5. ASSUME NEW m \in DOMAIN repairs', IsRepair(m)'
          PROVE  /\ PropertyHere(repairs[m].prop)'
                 /\ repairs'[m].booking # Null =>
                      /\ repairs'[m].booking \in BookingsLeft'
                      /\ bookings'[repairs'[m].booking].prop = repairs'[m].prop
      <4>1. CASE m = n + 1
        BY <1>7, <3>3, <3>4, <4>1 DEF PropertyHere
      <4>2. CASE m # n + 1
        <5>1. m \in DOMAIN repairs /\ IsRepair(m) /\ repairs'[m] = repairs[m]
          BY <3>2, <3>3, <3>5, <4>2 DEF IsRepair
        <5> QED BY <1>6, <1>7, <5>1 DEF RepairsOK, PropertyHere
      <4> QED BY <4>1, <4>2
    <3> QED BY <3>2, <3>3, <3>5 DEF RepairsOK
  <2> QED BY <2>1, <2>2
<1>9. Knows(handler[h])'
  BY <1>1, CallWritten, IdleKnows DEF EInv
<1> QED
  BY <1>1, <1>8, <1>9, RepairMoves DEF c

\* A request is written; its property and its booking stay.
LEMMA RepairWritten ==
    ASSUME EInv, NEW h \in Handlers, WriteRepair(h), UNCHANGED <<propertyVars, bookingVars, reviewVars>>
    PROVE  EInv'
<1> DEFINE c == handler[h]
           m == c.repair
           done == repairs[m].done \/ c.op = "completeRepair"
           row == [repairs[m] EXCEPT !.st = c.st, !.done = done]
<1>1. /\ c.op \in RepairOps /\ UNCHANGED cleaningVars
      /\ repairs' = IF IsRepair(m)
                    THEN [repairs EXCEPT ![m].st = c.st, ![m].done = @ \/ c.op = "completeRepair"]
                    ELSE repairs
      /\ handler' = [handler EXCEPT ![h] = Idle] /\ UNCHANGED <<calls, workload>> /\ Idle.op = "none"
  BY Moves DEF WriteRepair, AtAny, RepairOps
<1>2. c.st \in RepairStatuses
  BY <1>1 DEF EInv, CallsOK, Knows
<1>3. RepairsOK /\ repairs \in Seq(Repair \cup {Null})
  BY DEF EInv, RepairsOK
<1>4. /\ IsRepair(m) => repairs[m] \in Repair /\ m \in DOMAIN repairs
      /\ done \in BOOLEAN
  BY <1>3 DEF IsRepair
<1>5. repairs' = IF IsRepair(m) THEN [repairs EXCEPT ![m] = row] ELSE repairs
  BY <1>1, <1>3, <1>4
<1>6. BookingsLeft' = BookingsLeft /\ property' = property /\ bookings' = bookings
  BY DEF BookingsLeft, propertyVars, bookingVars
<1> HIDE DEF c, m, done
<1>7. IsRepair(m) => row \in Repair /\ row.prop = repairs[m].prop /\ row.booking = repairs[m].booking
  BY <1>2, <1>4 DEF Repair
<1> HIDE DEF row
<1>8. RepairsOK' /\ DOMAIN repairs \subseteq DOMAIN repairs'
  <2>1. CASE ~IsRepair(m)
    BY <1>3, <1>5, <1>6, <2>1 DEF RepairsOK, IsRepair, PropertyHere
  <2>2. CASE IsRepair(m)
    <3>1. /\ repairs' \in Seq(Repair \cup {Null}) /\ DOMAIN repairs' = DOMAIN repairs
          /\ repairs'[m] = row /\ \A x \in DOMAIN repairs \ {m} : repairs'[x] = repairs[x]
      BY <1>3, <1>4, <1>5, <1>7, <2>2
    <3>2. ASSUME NEW x \in DOMAIN repairs', IsRepair(x)'
          PROVE  /\ PropertyHere(repairs[x].prop)'
                 /\ repairs'[x].booking # Null =>
                      /\ repairs'[x].booking \in BookingsLeft'
                      /\ bookings'[repairs'[x].booking].prop = repairs'[x].prop
      <4>1. x \in DOMAIN repairs /\ IsRepair(x) /\ repairs'[x].prop = repairs[x].prop
            /\ repairs'[x].booking = repairs[x].booking
        BY <1>4, <1>7, <2>2, <3>1, <3>2 DEF IsRepair
      <4> QED BY <1>3, <1>6, <4>1 DEF RepairsOK, PropertyHere
    <3> QED BY <3>1, <3>2 DEF RepairsOK
  <2> QED BY <2>1, <2>2
<1>9. Knows(handler[h])'
  BY <1>1, CallWritten, IdleKnows DEF EInv
<1> QED
  BY <1>1, <1>8, <1>9, RepairMoves DEF c, RepairOps

\* All calls of cleaning and maintenance.
LEMMA UpkeepCalled ==
    ASSUME EInv, NEW h \in Handlers, UpkeepCalls(h) \/ UpkeepSteps(h),
           UNCHANGED <<propertyVars, bookingVars, reviewVars>>
    PROVE  EInv'
<1>1. ASSUME UpkeepCalls(h) PROVE EInv'
  BY <1>1, CleaningBegun, RepairBegun, ChangeOfRepairBegun DEF UpkeepCalls
<1>2. ASSUME UpkeepSteps(h) PROVE EInv'
  BY <1>2, PropertyCleaned, ScheduleCleaned, ScheduleFound, ScheduleMoved, RepairInserted, RepairWritten
  DEF UpkeepSteps
<1> QED
  BY <1>1, <1>2

-----------------------------------------------------------------------------
(***************************************************************************)
(* Deletions                                                               *)
(***************************************************************************)
LEMMA RowsLeft ==
    ASSUME NEW T, NEW t \in Seq(T), NEW u, u = [v \in DOMAIN t |-> u[v]], \A v \in DOMAIN t : u[v] \in T
    PROVE  u \in Seq(T) /\ DOMAIN u = DOMAIN t
<1>1. PICK n \in Nat : n = Len(t) /\ DOMAIN t = 1 .. n
  OBVIOUS
<1>2. u \in [1 .. n -> T]
  BY <1>1
<1> QED
  BY <1>1, <1>2, SeqDef

\* What a deletion of a property or a booking does to the rest.
Deletes ==
    /\ UNCHANGED <<handler, completed>> /\ \E op : Asked(op)
    /\ \A b \in BookingIds : bookings'[b] = bookings[b] \/ bookings'[b] = Null
    /\ \A p \in PropertyIds : property'[p] = property[p] \/ (property[p] = "here" /\ property'[p] = "gone")
    /\ Cascades

\* Reviews go with their booking or property, and lead the average of theirs
\* astray.
LEMMA ReviewsCascade ==
    ASSUME EInv, Deletes
    PROVE  ReviewsOK' /\ AveragesOK' /\ DOMAIN reviews' = DOMAIN reviews
<1>1. PICK lost : /\ lost = {v \in Reviewed : reviews[v].booking \notin BookingsLeft'
                                              \/ reviews[v].prop \notin PropertiesLeft'}
                  /\ reviews' = [v \in DOMAIN reviews |-> IF v \in lost THEN Null ELSE reviews[v]]
                  /\ astray' = astray \cup {reviews[v].prop : v \in lost}
                  /\ UNCHANGED <<average, repointed>>
  BY DEF Deletes, Cascades, CascadeReviews
<1>2. /\ ReviewsOK /\ AveragesOK /\ CallsOK /\ reviews \in Seq(Review \cup {Null})
      /\ handler' = handler /\ completed' = completed
  BY DEF EInv, ReviewsOK, Deletes
<1>3. reviews' \in Seq(Review \cup {Null}) /\ DOMAIN reviews' = DOMAIN reviews
  <2>1. reviews' = [v \in DOMAIN reviews |-> reviews'[v]]
    BY <1>1
  <2>2. \A v \in DOMAIN reviews : reviews'[v] \in Review \cup {Null}
    BY <1>1, <1>2
  <2> QED BY <1>2, <2>1, <2>2, RowsLeft
<1>4. \A v \in Reviewed' : v \in Reviewed /\ v \notin lost /\ reviews'[v] = reviews[v]
  BY <1>1, <1>3 DEF Reviewed
<1>5. \A v \in Reviewed : v \notin lost => v \in Reviewed' /\ reviews'[v] = reviews[v]
  BY <1>1, <1>3 DEF Reviewed
<1>6. \A v \in Reviewed' :
        /\ reviews'[v].booking \in BookingsLeft' /\ PropertyHere(reviews[v].prop)'
        /\ v \in repointed' \/ reviews'[v].booking \in completed'
  BY <1>1, <1>2, <1>4 DEF ReviewsOK, PropertiesLeft, PropertyHere
<1>7. ReviewsOK'
  <2>1. \A v, w \in Reviewed' : reviews'[v].booking = reviews'[w].booking => v = w
    BY <1>2, <1>4 DEF ReviewsOK
  <2>2. repointed' \in SUBSET DOMAIN reviews'
    BY <1>1, <1>2, <1>3 DEF ReviewsOK
  <2> QED BY <1>3, <1>6, <2>1, <2>2 DEF ReviewsOK
<1>8. ASSUME NEW p \in PropertyIds \ astray' PROVE AverageOf(p)'
  <2>1. \A v \in Rated(p) : v \in Reviewed /\ v \notin lost
    BY <1>1, <1>8 DEF Rated
  <2>2. Rated(p)' = Rated(p) /\ \A v \in Rated(p) : reviews'[v].clean = reviews[v].clean
    BY <1>4, <1>5, <2>1 DEF Rated
  <2>3. AverageOf(p) /\ average'[p] = average[p]
    BY <1>1, <1>2, <1>8 DEF AveragesOK
  <2>4. CallsAway("review", p)
    BY <1>2 DEF CallsAway
  <2> QED BY <1>2, <2>2, <2>3, <2>4, AverageElsewhere
<1>9. astray' \in SUBSET PropertyIds
  <2>1. \A v \in lost : reviews[v].prop \in PropertyIds
    BY <1>1, <1>2 DEF Reviewed, Review
  <2> QED BY <1>1, <1>2, <2>1 DEF AveragesOK
<1> QED
  BY <1>1, <1>2, <1>3, <1>7, <1>8, <1>9 DEF AveragesOK

\* Schedules go with their property.
LEMMA SchedulesCascade ==
    ASSUME EInv, Deletes
    PROVE  /\ SchedulesOK' /\ CleaningsOK' /\ DOMAIN schedules' = DOMAIN schedules
           /\ \A s \in DOMAIN schedules : schedules'[s] # Null =>
                schedules[s] # Null /\ schedules'[s].prop = schedules[s].prop
<1>1. /\ schedules' = [s \in DOMAIN schedules |->
            IF ~IsSchedule(s) \/ schedules[s].prop \notin PropertiesLeft' THEN Null ELSE schedules[s]]
      /\ UNCHANGED <<lastCleaning, edited, tangled>>
  BY DEF Deletes, Cascades, CascadeUpkeep
<1>2. SchedulesOK /\ CleaningsOK /\ CallsOK /\ schedules \in Seq(Schedule \cup {Null}) /\ handler' = handler
  BY DEF EInv, SchedulesOK, Deletes
<1>3. schedules' \in Seq(Schedule \cup {Null}) /\ DOMAIN schedules' = DOMAIN schedules
  <2>1. schedules' = [s \in DOMAIN schedules |-> schedules'[s]]
    BY <1>1
  <2>2. \A s \in DOMAIN schedules : schedules'[s] \in Schedule \cup {Null}
    BY <1>1, <1>2
  <2> QED BY <1>2, <2>1, <2>2, RowsLeft
<1>4. \A s \in DOMAIN schedules : schedules'[s] # Null =>
        schedules'[s] = schedules[s] /\ schedules[s] # Null /\ schedules[s].prop \in PropertiesLeft'
  BY <1>1
<1>5. SchedulesOK'
  <2>1. \A s \in DOMAIN schedules' : IsSchedule(s)' =>
          /\ PropertyHere(schedules[s].prop)'
          /\ s \in edited' \/ schedules'[s].next = NextCleaning(schedules'[s].freq, schedules'[s].last)
    BY <1>1, <1>2, <1>3, <1>4 DEF SchedulesOK, IsSchedule, PropertiesLeft, PropertyHere
  <2> QED BY <1>1, <1>2, <1>3, <2>1 DEF SchedulesOK, NextCleaning
<1>6. ASSUME NEW p \in PropertyIds \ tangled' PROVE CleaningOf(p)'
  <2>1. CleaningOf(p) /\ lastCleaning'[p] = lastCleaning[p]
    BY <1>1, <1>2, <1>6 DEF CleaningsOK
  <2>2. CallsAway("cleaned", p)
    BY <1>2 DEF CallsAway
  <2>3. PropertyHere(p)' => PropertyHere(p)
    BY DEF Deletes, PropertyHere
  <2>4. \A s \in DOMAIN schedules : PropertyHere(p)' /\ schedules[s] # Null /\ schedules[s].prop = p =>
          /\ s \in DOMAIN schedules' /\ schedules'[s] # Null
          /\ schedules'[s].prop = p /\ schedules'[s].last = schedules[s].last
    BY <1>1, <1>3 DEF IsSchedule, PropertiesLeft, PropertyHere
  <2> QED BY <1>2, <2>1, <2>2, <2>3, <2>4, CleaningElsewhere
<1>7. \A p \in PropertyIds : property'[p] = "new" => lastCleaning'[p] = Null
  BY <1>1, <1>2 DEF CleaningsOK, Deletes
<1> QED
  BY <1>1, <1>2, <1>3, <1>4, <1>5, <1>6, <1>7 DEF CleaningsOK

\* Requests go with their property, and lose the booking that is gone.
LEMMA RepairsCascade ==
    ASSUME EInv, Deletes
    PROVE  RepairsOK' /\ DOMAIN repairs' = DOMAIN repairs
<1>1. repairs' = [m \in DOMAIN repairs |->
        IF ~IsRepair(m) \/ repairs[m].prop \notin PropertiesLeft' THEN Null
        ELSE RepairWithout(m, BookingsLeft')]
  BY DEF Deletes, Cascades, CascadeUpkeep
<1>2. /\ RepairsOK /\ repairs \in Seq(Repair \cup {Null})
      /\ \A m \in DOMAIN repairs : repairs[m] # Null => repairs[m] \in Repair
  BY DEF EInv, RepairsOK
<1>3. ASSUME NEW m \in DOMAIN repairs, repairs[m] # Null
      PROVE  LET row == RepairWithout(m, BookingsLeft')
             IN  /\ row \in Repair /\ row.prop = repairs[m].prop
                 /\ row.booking = Null \/ (row.booking = repairs[m].booking /\ row.booking \in BookingsLeft')
  BY <1>2, <1>3 DEF RepairWithout, Repair
<1>4. repairs' \in Seq(Repair \cup {Null}) /\ DOMAIN repairs' = DOMAIN repairs
  <2>1. repairs' = [m \in DOMAIN repairs |-> repairs'[m]]
    BY <1>1
  <2>2. \A m \in DOMAIN repairs : repairs'[m] \in Repair \cup {Null}
    BY <1>1, <1>3 DEF IsRepair
  <2> QED BY <1>2, <2>1, <2>2, RowsLeft
<1>5. ASSUME NEW m \in DOMAIN repairs', IsRepair(m)'
      PROVE  /\ PropertyHere(repairs[m].prop)'
             /\ repairs'[m].booking # Null =>
                  /\ repairs'[m].booking \in BookingsLeft'
                  /\ bookings'[repairs'[m].booking].prop = repairs'[m].prop
  <2>1. /\ m \in DOMAIN repairs /\ repairs[m] # Null /\ repairs[m].prop \in PropertiesLeft'
        /\ repairs'[m] = RepairWithout(m, BookingsLeft')
    BY <1>1, <1>4, <1>5 DEF IsRepair
  <2>2. /\ repairs'[m].prop = repairs[m].prop
        /\ \/ repairs'[m].booking = Null
           \/ repairs'[m].booking = repairs[m].booking /\ repairs'[m].booking \in BookingsLeft'
    BY <1>3, <2>1
  <2>3. repairs'[m].booking # Null => bookings[repairs[m].booking].prop = repairs[m].prop
    BY <1>2, <2>1, <2>2 DEF RepairsOK, IsRepair
  <2>4. \A b \in BookingsLeft' : bookings'[b] = bookings[b]
    BY DEF BookingsLeft, Deletes
  <2> QED BY <2>1, <2>2, <2>3, <2>4 DEF PropertiesLeft, PropertyHere
<1> QED
  BY <1>4, <1>5 DEF RepairsOK

\* With the bookings of a property gone, a deletion leaves everything in order.
LEMMA Deleted ==
    ASSUME EInv, Deletes, GroupsOK', BookingsOK'
    PROVE  EInv'
<1>1. ReviewsOK' /\ AveragesOK' /\ DOMAIN reviews' = DOMAIN reviews
  BY ReviewsCascade
<1>2. /\ SchedulesOK' /\ CleaningsOK' /\ DOMAIN schedules' = DOMAIN schedules
      /\ \A s \in DOMAIN schedules : schedules'[s] # Null =>
            schedules[s] # Null /\ schedules'[s].prop = schedules[s].prop
  BY SchedulesCascade
<1>3. RepairsOK' /\ DOMAIN repairs' = DOMAIN repairs
  BY RepairsCascade
<1>4. Grows
  <2>1. \A p \in PropertyIds : property[p] # "new" => property'[p] # "new"
    BY DEF Deletes
  <2>2. \A b \in BookingIds : bookings'[b] # Null => bookings[b] # Null /\ bookings'[b].prop = bookings[b].prop
    BY DEF Deletes
  <2> QED BY <1>1, <1>2, <1>3, <2>1, <2>2 DEF Grows, Deletes
<1>5. CallsOK'
  BY <1>4, CallsLeft DEF EInv, Deletes
<1> QED
  BY <1>1, <1>2, <1>3, <1>5 DEF EInv

\* The two deletions.
LEMMA PropertyRemoved == ASSUME EInv, NEW p \in PropertyIds, RemoveProperty(p) PROVE EInv'
<1>1. /\ PropertyHere(p) /\ UNCHANGED <<group, completed, handler>> /\ \E op : Asked(op)
      /\ property' = [property EXCEPT ![p] = "gone"] /\ groupOf' = [groupOf EXCEPT ![p] = Null]
      /\ bookings' = [b \in BookingIds |-> IF IsBooking(b) /\ bookings[b].prop = p THEN Null ELSE bookings[b]]
      /\ Cascades
  BY DEF RemoveProperty, DeleteProperty, AtOnce
<1>2. GroupsOK /\ BookingsOK
  BY DEF EInv
<1>3. Deletes
  BY <1>1, <1>2 DEF Deletes, GroupsOK, PropertyHere
<1>4. GroupsOK'
  BY <1>1, <1>2 DEF GroupsOK, Reference, GroupHere, Lives
<1>5. BookingsOK'
  <2>1. \A b \in BookingIds : bookings'[b] # Null =>
          bookings'[b] = bookings[b] /\ bookings[b] # Null /\ bookings[b].prop # p
    BY <1>1 DEF IsBooking
  <2>2. bookings' \in [BookingIds -> [prop : PropertyIds, st : BookingStatuses] \cup {Null}]
    BY <1>1, <1>2 DEF BookingsOK
  <2>3. \A b \in BookingsLeft' :
          PropertyHere(bookings[b].prop)' /\ (bookings'[b].st = "COMPLETED" => b \in completed')
    BY <1>1, <1>2, <2>1 DEF BookingsOK, BookingsLeft, PropertyHere, GroupsOK
  <2> QED BY <1>1, <1>2, <2>2, <2>3 DEF BookingsOK
<1> QED
  BY <1>3, <1>4, <1>5, Deleted

\* A booking goes with everything that refers to it.
LEMMA BookingRemoved == ASSUME EInv, NEW b \in BookingIds, RemoveBooking(b) PROVE EInv'
<1>1. /\ UNCHANGED <<propertyVars, completed, handler>> /\ \E op : Asked(op)
      /\ bookings' = [bookings EXCEPT ![b] = Null] /\ Cascades
  BY DEF RemoveBooking, DeleteBooking, AtOnce
<1>2. GroupsOK /\ BookingsOK
  BY DEF EInv
<1>3. Deletes
  BY <1>1, <1>2 DEF Deletes, BookingsOK, propertyVars
<1>4. GroupsOK'
  BY <1>1, <1>2 DEF GroupsOK, Reference, GroupHere, propertyVars
<1>5. BookingsOK'
  BY <1>1, <1>2 DEF BookingsOK, BookingsLeft, PropertyHere, propertyVars
<1> QED
  BY <1>3, <1>4, <1>5, Deleted

-----------------------------------------------------------------------------
(***************************************************************************)
(* The whole                                                               *)
(***************************************************************************)
LEMMA Restarted == ASSUME EInv, Restart PROVE EInv'
<1>1. /\ handler' = [h \in Handlers |-> Idle] /\ \E op : Asked(op)
      /\ astray' = astray \cup {handler[h].prop : h \in {g \in Busy : handler[g].op = "review"}}
      /\ tangled' = tangled \cup {handler[h].prop : h \in {g \in Busy : handler[g].op = "cleaned"}}
      /\ UNCHANGED <<propertyVars, bookingVars, reviews, average, repointed,
                     schedules, lastCleaning, edited, repairs>>
  BY DEF Restart
<1>2. CallsOK /\ ReviewsOK /\ AveragesOK /\ SchedulesOK /\ CleaningsOK
  BY DEF EInv
<1>3. /\ \A p : Averaging(p) = {h \in Handlers : handler[h].op = "review" /\ handler[h].prop = p}
      /\ \A p : CleaningsOf(p) = {h \in Handlers : handler[h].op = "cleaned" /\ handler[h].prop = p}
  BY BusyCalls
<1>4. Remains
  BY <1>1 DEF Remains, propertyVars, bookingVars
<1>5. CallsOK'
  <2>1. \A h \in Handlers : Knows(handler[h])'
    BY <1>1, IdleKnows
  <2> QED BY <1>1, <1>2, <2>1, Counted DEF CallsOK
<1>6. ReviewsOK'
  BY <1>1, <1>2 DEF ReviewsOK, Reviewed, BookingsLeft, PropertyHere, propertyVars, bookingVars
<1>7. SchedulesOK'
  BY <1>1, <1>2 DEF SchedulesOK, IsSchedule, PropertyHere, propertyVars, NextCleaning
<1>8. ASSUME NEW p \in PropertyIds \ astray' PROVE AverageOf(p)'
  <2>1. \A g \in Handlers : handler[g].op = "review" => handler[g].prop # p
    BY <1>1, <1>8 DEF Busy, Idle
  <2>2. CallsAway("review", p)
    BY <1>1, <2>1 DEF CallsAway, Idle
  <2>3. AverageOf(p)
    BY <1>1, <1>2, <1>8 DEF AveragesOK
  <2>4. Rated(p)' = Rated(p)
    BY <1>1 DEF Rated, Reviewed
  <2> QED BY <1>1, <1>2, <2>2, <2>3, <2>4, AverageElsewhere
<1>9. ASSUME NEW p \in PropertyIds \ tangled' PROVE CleaningOf(p)'
  <2>1. \A g \in Handlers : handler[g].op = "cleaned" => handler[g].prop # p
    BY <1>1, <1>9 DEF Busy, Idle
  <2>2. CallsAway("cleaned", p)
    BY <1>1, <2>1 DEF CallsAway, Idle
  <2>3. CleaningOf(p)
    BY <1>1, <1>2, <1>9 DEF CleaningsOK
  <2> QED BY <1>1, <1>2, <2>2, <2>3, CleaningElsewhere DEF PropertyHere, propertyVars
<1>10. astray' \in SUBSET PropertyIds
  BY <1>1, <1>2 DEF CallsOK, Knows, ReviewKnows, Busy, AveragesOK
<1>11. tangled' \in SUBSET PropertyIds
  BY <1>1, <1>2 DEF CallsOK, Knows, CleaningKnows, CleaningCall, Busy, CleaningsOK
<1>12. AveragesOK' /\ CleaningsOK'
  BY <1>1, <1>2, <1>8, <1>9, <1>10, <1>11 DEF AveragesOK, CleaningsOK, propertyVars
<1>13. RepairsOK' /\ GroupsOK' /\ BookingsOK'
  BY <1>1, <1>4, RepairSide, TableSide
<1> QED
  BY <1>5, <1>6, <1>7, <1>12, <1>13 DEF EInv

\* The initial states, stuttering and every action keep the invariant.
LEMMA EstateStarts == Init => EInv
<1> SUFFICES ASSUME Init PROVE EInv
  OBVIOUS
<1> USE DEF Init, RequestsInit, PropertiesInit, ReviewsInit, UpkeepInit
<1>1. CallsOK
  BY CallsAssumption DEF CallsOK, Knows, Idle, RepairOps
<1>2. GroupsOK
  BY PropertiesAssumption DEF GroupsOK, Lives, Reference
<1>3. BookingsOK
  <2>1. \A b \in BookingIds : /\ SeededBookings[b] \in [prop : PropertyIds, st : BookingStatuses]
                              /\ SeededBookings[b].prop \in SeededProperties
    BY PropertiesAssumption
  <2>2. bookings \in [BookingIds -> [prop : PropertyIds, st : BookingStatuses] \cup {Null}]
    BY <2>1, PropertiesAssumption
  <2>3. \A b \in BookingIds : PropertyHere(SeededBookings[b].prop)
    BY <2>1, PropertiesAssumption DEF PropertyHere
  <2> QED BY <2>2, <2>3 DEF BookingsOK, BookingsLeft
<1>4. ReviewsOK /\ SchedulesOK /\ RepairsOK
  BY DEF ReviewsOK, Reviewed, SchedulesOK, RepairsOK
<1>5. \A p : Averaging(p) = {} /\ CleaningsOf(p) = {}
  BY BusyCalls DEF Idle
<1>6. AveragesOK
  BY <1>5 DEF AveragesOK, AverageOf, Rated, Reviewed
<1>7. CleaningsOK
  BY <1>5 DEF CleaningsOK, CleaningOf
<1> QED
  BY <1>1, <1>2, <1>3, <1>4, <1>6, <1>7 DEF EInv

\* A step in which nothing happens.
LEMMA EstateStands == ASSUME EInv, UNCHANGED estateVars PROVE EInv'
<1>1. /\ UNCHANGED <<handler, calls, workload, property, group, groupOf, bookings, completed, reviews,
                     average, astray, repointed, schedules, lastCleaning, edited, tangled, repairs>>
  BY DEF estateVars, requests, propertyVars, bookingVars, reviewVars, upkeepVars, cleaningVars
<1>2. Grows /\ Remains
  BY <1>1 DEF Grows, Remains
<1>3. CallsOK'
  BY <1>1, <1>2, CallsLeft DEF EInv
<1>4. Aside("review") /\ Aside("cleaned")
  BY <1>1 DEF Aside
<1>5. ReviewsOK' /\ AveragesOK'
  BY <1>1, <1>2, <1>4, ReviewSide DEF reviewVars
<1>6. SchedulesOK' /\ CleaningsOK'
  BY <1>1, <1>2, <1>4, ScheduleSide DEF cleaningVars
<1>7. RepairsOK' /\ GroupsOK' /\ BookingsOK'
  BY <1>1, <1>2, RepairSide, TableSide DEF propertyVars, bookingVars
<1> QED
  BY <1>3, <1>5, <1>6, <1>7 DEF EInv

\* Every step keeps the invariant.
LEMMA EstateSteps == ASSUME EInv, Next PROVE EInv'
<1>1. ASSUME NEW h \in Handlers, GroupCalls(h) \/ GroupSteps(h), UNCHANGED <<reviewVars, upkeepVars>> PROVE EInv'
  BY <1>1, GroupsCalled
<1>2. ASSUME NEW h \in Handlers, ReviewCalls(h) \/ ReviewSteps(h),
             UNCHANGED <<propertyVars, bookingVars, upkeepVars>> PROVE EInv'
  BY <1>2, ReviewsCalled
<1>3. ASSUME NEW h \in Handlers, UpkeepCalls(h) \/ UpkeepSteps(h),
             UNCHANGED <<propertyVars, bookingVars, reviewVars>> PROVE EInv'
  BY <1>3, UpkeepCalled
<1>4. ASSUME PropertyEdits, UNCHANGED <<reviewVars, upkeepVars>> PROVE EInv'
  BY <1>4, PropertiesEdited
<1>5. ASSUME UpkeepEdits, UNCHANGED <<propertyVars, bookingVars, reviewVars>> PROVE EInv'
  BY <1>5, SchedulesEdited
<1> QED
  BY <1>1, <1>2, <1>3, <1>4, <1>5, StayCompleted, PropertyRemoved, BookingRemoved, Restarted DEF Next

\* What the calls of properties, groups, reviews, cleaning and maintenance know and
\* what the tables hold, in every state.
THEOREM EstateInductive == Spec => []EInv
<1>1. EInv /\ [Next]_estateVars => EInv'
  BY EstateSteps, EstateStands
<1> QED
  BY <1>1, EstateStarts, PTL DEF Spec

-----------------------------------------------------------------------------
\* Every row and every history variable of the five parts has its type.
THEOREM EstateTyped == Spec => []TypeOK
<1>1. EInv => TypeOK
  BY DEF EInv, TypeOK, CallsOK, GroupsOK, BookingsOK, ReviewsOK, SchedulesOK, RepairsOK, AveragesOK, CleaningsOK
<1> QED
  BY <1>1, EstateInductive, PTL

\* No deletion of a property, a booking or a group leaves a row behind that points
\* to it, wherever it falls between the look-up of a call and its insert.
THEOREM ReferencesStand == Spec => []ReferencesHold
<1>1. EInv => ReferencesHold
  BY DEF EInv, ReferencesHold, GroupsOK, BookingsOK, ReviewsOK, SchedulesOK, RepairsOK, PropertiesLeft
<1> QED
  BY <1>1, EstateInductive, PTL

\* Calls of create and update that overlap give a stay one review, and every review
\* that no update moved is of a completed booking.
THEOREM StaysReviewedOnce == Spec => []OneReviewPerStay
<1>1. EInv => OneReviewPerStay
  BY DEF EInv, OneReviewPerStay, ReviewsOK
<1> QED
  BY <1>1, EstateInductive, PTL

\* The stored average of a property is the mean of its ratings when nobody is at
\* work on them, unless the history variable says what led it astray.
THEOREM AveragesFollow == Spec => []AverageFollowsReviews
<1>1. ASSUME EInv PROVE AverageFollowsReviews
  <2>1. ASSUME NEW p \in PropertyIds \ astray, Averaging(p) = {}, Rated(p) # {}
        PROVE  /\ average[p] = CleanlinessMean(p)
               /\ (\A v \in Rated(p) : reviews[v].public) => average[p] = PublicMean(p)
    <3>1. average[p] = Mean(Rated(p))
      BY <1>1, <2>1 DEF EInv, AveragesOK, AverageOf
    <3>2. (\A v \in Rated(p) : reviews[v].public) => {v \in Rated(p) : reviews[v].public} = Rated(p)
      OBVIOUS
    <3> QED BY <2>1, <3>1, <3>2 DEF CleanlinessMean, PublicMean
  <2> QED BY <2>1 DEF AverageFollowsReviews
<1> QED
  BY <1>1, EstateInductive, PTL

\* The next date of a schedule follows from its last by its frequency, and a
\* property's date is that of one of its schedules, however the two writes of
\* updateCleaningDate fall among other calls.
THEOREM CleaningsAgree == Spec => []CleaningDatesAgree
<1>1. EInv => CleaningDatesAgree
  BY DEF EInv, CleaningDatesAgree, SchedulesOK, CleaningsOK, CleaningOf, DatedBy
<1> QED
  BY <1>1, EstateInductive, PTL

\* The day of an instant.
LEMMA InstantDay ==
    ASSUME NEW day \in Nat, NEW part \in 0 .. 2
    PROVE  Instant(day, part) \in Nat /\ DayOf(Instant(day, part)) = day
<1>1. PICK now : now = 3 * day + part
  OBVIOUS
<1>2. now \in Nat /\ day * 3 <= now /\ now < (day + 1) * 3
  BY <1>1
<1>3. now \div 3 = day
  BY <1>2, QuotientIs
<1> QED
  BY <1>1, <1>2, <1>3 DEF Instant, DayOf

\* The status that the cleaning page shows and its figures agree for every date a
\* schedule can have, at every instant.
THEOREM DueCounted == Spec => []DueIsCounted
<1>1. ASSUME EInv PROVE DueIsCounted
  <2>1. ASSUME NEW s \in DOMAIN schedules, IsSchedule(s), NEW now \in 0 .. 2, NEW part \in 0 .. 2,
               NEW day \in CleaningDays, NEW at, at = Instant(day, now), NEW next,
               next = IF schedules[s].next = Null THEN Null ELSE Instant(schedules[s].next, part)
        PROVE  /\ ComputedStatus(next, at) = "OVERDUE" <=> CountedOverdue(next, at)
               /\ ComputedStatus(next, at) = "DUE_TODAY" => PendingToday(next, at)
               /\ PendingToday(next, at) => ComputedStatus(next, at) \in {"DUE_TODAY", "OVERDUE"} \/ part = 2
    <3>1. day \in Nat /\ schedules[s].next \in Nat \cup {Null}
      BY <1>1, <2>1, UpkeepAssumption, RowsOfSchedules DEF EInv, Schedule
    <3>2. at \in Nat /\ at = 3 * day + now /\ DayOf(at) = day
      BY <2>1, <3>1, InstantDay DEF Instant
    <3>3. CASE next = Null
      BY <3>3 DEF ComputedStatus, CountedOverdue, PendingToday
    <3>4. CASE next # Null
      <4>1. PICK due \in Nat : next = 3 * due + part
        BY <2>1, <3>1, <3>4 DEF Instant
      <4>2. PICK first \in Nat : first = 3 * day
        BY <3>1
      <4>3. Instant(day, 1) = first + 1 /\ Instant(day, 0) = first /\ Instant(day + 1, 0) = first + 3
        BY <3>1, <4>2 DEF Instant
      <4>4. next \in Nat /\ (next = first + 2 => part = 2)
        BY <3>1, <4>1, <4>2
      <4> QED
        BY <3>2, <3>4, <4>2, <4>3, <4>4 DEF ComputedStatus, CountedOverdue, PendingToday
    <3> QED BY <3>3, <3>4
  <2> QED BY <2>1 DEF DueIsCounted
<1> QED
  BY <1>1, EstateInductive, PTL

=============================================================================
