------------------------------- MODULE Upkeep -------------------------------
(***************************************************************************)
(* cleaning.service.ts, maintenance.service.ts and the cleaning task that  *)
(* bookings.update makes when a stay is completed.  Days are numbers; a    *)
(* month has thirty of them.                                               *)
(***************************************************************************)
EXTENDS Properties, Sequences

CONSTANTS
    Frequencies,        \* those of the schedules in use
    CleaningDays,       \* days that clients send
    MaxSchedules, MaxRepairs

VARIABLES
    schedules,          \* cleaning_schedules, ids from 1; Null once deleted
    lastCleaning,       \* property -> lastCleaningDate or Null
    edited,             \* history: schedules written by other means than a cleaning since
    tangled,            \* history: properties whose cleanings overlapped or were cut short
    repairs             \* maintenance_requests, ids from 1; Null once deleted

cleaningVars == <<schedules, lastCleaning, edited, tangled>>
upkeepVars == <<cleaningVars, repairs>>

-----------------------------------------------------------------------------
AllFrequencies == {"AFTER_EACH_BOOKING", "DAILY", "WEEKLY", "BIWEEKLY", "MONTHLY", "CUSTOM"}
RepairStatuses == {"OPEN", "IN_PROGRESS", "COMPLETED", "CANCELLED"}

Schedule == [prop : PropertyIds, freq : AllFrequencies, last : Nat \cup {Null}, next : Nat \cup {Null}]
Repair == [prop : PropertyIds, booking : BookingIds \cup {Null}, st : RepairStatuses, done : BOOLEAN]

ASSUME UpkeepAssumption ==
    /\ Frequencies \subseteq AllFrequencies
    /\ CleaningDays \subseteq Nat /\ Null \notin CleaningDays
    /\ MaxSchedules \in Nat /\ MaxRepairs \in Nat
    /\ Null \notin Schedule

UpkeepInit ==
    /\ schedules = << >> /\ repairs = << >>
    /\ lastCleaning = [p \in PropertyIds |-> Null]
    /\ edited = {} /\ tangled = {}

IsSchedule(s) == s \in DOMAIN schedules /\ schedules[s] # Null
IsRepair(m) == m \in DOMAIN repairs /\ repairs[m] # Null

-----------------------------------------------------------------------------
(***************************************************************************)
(* Cleaning                                                                *)
(***************************************************************************)

\* calculateNextCleaning; an unknown frequency counts as weekly.
NextCleaning(freq, last) ==
    last + (CASE freq \in {"AFTER_EACH_BOOKING", "DAILY"} -> 1
              [] freq = "BIWEEKLY" -> 14
              [] freq = "MONTHLY" -> 30
              [] OTHER -> 7)

AddSchedule(row) ==
    /\ Len(schedules) < MaxSchedules
    /\ schedules' = Append(schedules, row)

\* createSchedule: the next cleaning is the client's, or follows from the last one
\* (or from today).
CreateSchedule(p) ==
    /\ PropertyHere(p)
    /\ AtOnce("createSchedule")
    /\ \E freq \in Frequencies, last \in CleaningDays \cup {Null}, next \in CleaningDays \cup {Null},
          today \in CleaningDays :
        AddSchedule([prop |-> p, freq |-> freq, last |-> last, next |->
            IF next # Null THEN next
            ELSE NextCleaning(freq, IF last # Null THEN last ELSE today)])
    /\ edited' = edited \cup {Len(schedules')}
    /\ UNCHANGED <<lastCleaning, tangled, repairs>>

\* updateSchedule: any of the fields, none worked out from another.
UpdateSchedule(s) ==
    /\ IsSchedule(s)
    /\ AtOnce("updateSchedule")
    /\ \E freq \in Frequencies, next \in CleaningDays \cup {schedules[s].next},
          last \in CleaningDays \cup {schedules[s].last} :
        schedules' = [schedules EXCEPT ![s].freq = freq, ![s].next = next, ![s].last = last]
    /\ edited' = edited \cup {s}
    /\ tangled' = tangled \cup {schedules[s].prop}
    /\ UNCHANGED <<lastCleaning, repairs>>

RemoveSchedule(s) ==
    /\ IsSchedule(s)
    /\ AtOnce("removeSchedule")
    /\ schedules' = [schedules EXCEPT ![s] = Null]
    /\ tangled' = tangled \cup {schedules[s].prop}
    /\ UNCHANGED <<lastCleaning, edited, repairs>>

CleaningsOf(p) == {h \in Busy : handler[h].op = "cleaned" /\ handler[h].prop = p}

\* updateCleaningDate has read the schedule, its frequency included.
CleaningDone(h, s) ==
    LET row == schedules[s] IN
    /\ IsSchedule(s)
    /\ \E day \in CleaningDays :
        Begin(h, [op |-> "cleaned", pc |-> "both", schedule |-> s, prop |-> row.prop,
                  freq |-> row.freq, day |-> day])
    /\ tangled' = IF CleaningsOf(row.prop) = {} THEN tangled ELSE tangled \cup {row.prop}
    /\ UNCHANGED <<schedules, lastCleaning, edited, repairs>>

\* Promise.all of the two updates: either may come first, and one that fails does
\* not stop the other.
CleaningOfProperty(h) ==
    LET c == handler[h] IN
    /\ c.op = "cleaned" /\ c.pc \in {"both", "property"}
    /\ lastCleaning' = IF PropertyHere(c.prop) THEN [lastCleaning EXCEPT ![c.prop] = c.day]
                       ELSE lastCleaning
    /\ IF c.pc = "both" THEN Goto(h, [c EXCEPT !.pc = "schedule"]) ELSE Return(h)
    /\ UNCHANGED <<schedules, edited, tangled, repairs>>

\* Variant: only the date of the cleaning is written.
LastOnly(row, c) == [row EXCEPT !.last = c.day]

Cleaned(row, c) == [row EXCEPT !.last = c.day, !.next = NextCleaning(c.freq, c.day)]

\* Unless the frequency was edited since it was read, the schedule has its rhythm.
CleaningOfSchedule(h) ==
    LET c == handler[h]
        s == c.schedule
    IN
    /\ c.op = "cleaned" /\ c.pc \in {"both", "schedule"}
    /\ IF IsSchedule(s)
       THEN /\ schedules' = [schedules EXCEPT ![s] = Cleaned(@, c)]
            /\ edited' = IF schedules[s].freq = c.freq THEN edited \ {s} ELSE edited \cup {s}
       ELSE UNCHANGED <<schedules, edited>>
    /\ IF c.pc = "both" THEN Goto(h, [c EXCEPT !.pc = "property"]) ELSE Return(h)
    /\ UNCHANGED <<lastCleaning, tangled, repairs>>

\* bookings.update to COMPLETED writes the booking, looks for the schedule of the
\* property that follows every booking, and moves it to the day of check-out or
\* makes one.
CompleteStay(h, b) ==
    /\ IsBooking(b)
    /\ \E day \in CleaningDays :
        Begin(h, [op |-> "completeStay", pc |-> "find", prop |-> bookings[b].prop, day |-> day])
    /\ WriteStatus(b, "COMPLETED")
    /\ UNCHANGED upkeepVars

FindSchedule(h) ==
    LET c == handler[h]
        found == {s \in DOMAIN schedules : IsSchedule(s) /\ schedules[s].prop = c.prop
                                           /\ schedules[s].freq = "AFTER_EACH_BOOKING"}
    IN
    /\ At(h, "completeStay", "find")
    /\ \E s \in IF found = {} THEN {0} ELSE found :
        Goto(h, [op |-> "completeStay", pc |-> "write", prop |-> c.prop, day |-> c.day, schedule |-> s])
    /\ UNCHANGED upkeepVars

MoveSchedule(h) ==
    LET c == handler[h] IN
    /\ At(h, "completeStay", "write")
    /\ IF c.schedule = 0 /\ PropertyHere(c.prop)
       THEN /\ AddSchedule([prop |-> c.prop, freq |-> "AFTER_EACH_BOOKING", last |-> Null, next |-> c.day])
            /\ edited' = edited \cup {Len(schedules')}
       ELSE IF IsSchedule(c.schedule)
       THEN /\ schedules' = [schedules EXCEPT ![c.schedule].next = c.day]
            /\ edited' = edited \cup {c.schedule}
       ELSE UNCHANGED <<schedules, edited>>
    /\ Return(h)
    /\ UNCHANGED <<lastCleaning, tangled, repairs>>

(***************************************************************************)
(* The list and the figures of the cleaning page, at an instant of a day:  *)
(* 0 its first, 1 during it, 2 its last second, which the list leaves out. *)
(***************************************************************************)
Instant(day, part) == 3 * day + part
DayOf(now) == now \div 3

\* Variant: the next cleaning is compared with the end of the day first.
DueFirst(next, now) ==
    CASE next = Null -> "SCHEDULED"
      [] next # Null /\ next <= Instant(DayOf(now), 1) -> "DUE_TODAY"
      [] next # Null /\ next > Instant(DayOf(now), 1) /\ next <= now + 6 -> "UPCOMING"
      [] OTHER -> "SCHEDULED"

\* computedStatus of findAll.
ComputedStatus(next, now) ==
    CASE next = Null -> "SCHEDULED"
      [] next # Null /\ next < now -> "OVERDUE"
      [] next # Null /\ next >= now /\ next <= Instant(DayOf(now), 1) -> "DUE_TODAY"
      [] next # Null /\ next >= now /\ next > Instant(DayOf(now), 1) /\ next <= now + 6 -> "UPCOMING"
      [] OTHER -> "SCHEDULED"

\* getStats counts a schedule as overdue, as pending today.
CountedOverdue(next, now) == next # Null /\ next < now
PendingToday(next, now) ==
    next # Null /\ next >= Instant(DayOf(now), 0) /\ next < Instant(DayOf(now) + 1, 0)

-----------------------------------------------------------------------------
(***************************************************************************)
(* Maintenance                                                             *)
(***************************************************************************)

\* create has found the property, and the booking among those of the property.
CreateRepair(h, p, b) ==
    /\ PropertyHere(p)
    /\ b # Null => IsBooking(b) /\ bookings[b].prop = p
    /\ Begin(h, [op |-> "repair", pc |-> "insert", prop |-> p, booking |-> b])
    /\ UNCHANGED upkeepVars

\* Variant: the request is inserted although its booking is gone.
AdmitsOrphan(c) == PropertyHere(c.prop)

AdmitsRepair(c) == PropertyHere(c.prop) /\ (c.booking # Null => IsBooking(c.booking))

InsertRepair(h) ==
    LET c == handler[h] IN
    /\ At(h, "repair", "insert")
    /\ IF AdmitsRepair(c)
       THEN /\ Len(repairs) < MaxRepairs
            /\ repairs' = Append(repairs, [prop |-> c.prop, booking |-> c.booking,
                                           st |-> "OPEN", done |-> FALSE])
       ELSE UNCHANGED repairs
    /\ Return(h)
    /\ UNCHANGED cleaningVars

\* assign, complete and update have found the request; what they write does not
\* depend on what they read.
RepairWrites(m) ==
    {[op |-> "assign", pc |-> "write", repair |-> m, st |-> "IN_PROGRESS"],
     [op |-> "completeRepair", pc |-> "write", repair |-> m, st |-> "COMPLETED"]} \cup
    {[op |-> "updateRepair", pc |-> "write", repair |-> m, st |-> st] : st \in RepairStatuses}

CallOnRepair(h, m) ==
    /\ IsRepair(m)
    /\ \E c \in RepairWrites(m) : Begin(h, c)
    /\ UNCHANGED upkeepVars

\* complete also writes completedAt, which nothing ever clears.
WriteRepair(h) ==
    LET c == handler[h] IN
    /\ AtAny(h, {"assign", "completeRepair", "updateRepair"}, "write")
    /\ repairs' = IF IsRepair(c.repair)
                  THEN [repairs EXCEPT ![c.repair].st = c.st,
                                       ![c.repair].done = @ \/ c.op = "completeRepair"]
                  ELSE repairs
    /\ Return(h)
    /\ UNCHANGED cleaningVars

-----------------------------------------------------------------------------
\* Variant: a deleted booking stays in the requests that name it.
RepairWithBooking(m, bookingsLeft) == repairs[m]

\* onDelete: SetNull.
RepairWithout(m, bookingsLeft) ==
    IF repairs[m].booking \in bookingsLeft THEN repairs[m] ELSE [repairs[m] EXCEPT !.booking = Null]

\* Schedules and requests go with their property.
CascadeUpkeep(bookingsLeft, propertiesLeft) ==
    /\ repairs' = [m \in DOMAIN repairs |->
          IF ~IsRepair(m) \/ repairs[m].prop \notin propertiesLeft THEN Null
          ELSE RepairWithout(m, bookingsLeft)]
    /\ schedules' = [s \in DOMAIN schedules |->
          IF ~IsSchedule(s) \/ schedules[s].prop \notin propertiesLeft THEN Null ELSE schedules[s]]
    /\ UNCHANGED <<lastCleaning, edited, tangled>>

-----------------------------------------------------------------------------
UpkeepCalls(h) ==
    \/ \E s \in DOMAIN schedules : CleaningDone(h, s)
    \/ \E p \in PropertyIds, b \in BookingIds \cup {Null} : CreateRepair(h, p, b)
    \/ \E m \in DOMAIN repairs : CallOnRepair(h, m)

UpkeepSteps(h) ==
    \/ CleaningOfProperty(h) \/ CleaningOfSchedule(h)
    \/ FindSchedule(h) \/ MoveSchedule(h)
    \/ InsertRepair(h) \/ WriteRepair(h)

UpkeepEdits ==
    \/ \E p \in PropertyIds : CreateSchedule(p)
    \/ \E s \in DOMAIN schedules : UpdateSchedule(s) \/ RemoveSchedule(s)

-----------------------------------------------------------------------------
\* Cleaning dates belong together: a schedule last written by a cleaning is next
\* due by its own frequency, though cleanings and edits overlap, unless the
\* frequency changed while one ran; and a property's lastCleaningDate is that of
\* one of its schedules, though updateCleaningDate writes the two at once, unless
\* two of its cleanings overlapped, one was cut short or a schedule was edited.
CleaningDatesAgree ==
    /\ \A s \in DOMAIN schedules : (IsSchedule(s) /\ s \notin edited) =>
          schedules[s].next = NextCleaning(schedules[s].freq, schedules[s].last)
    /\ \A p \in PropertyIds \ tangled :
          (PropertyHere(p) /\ CleaningsOf(p) = {} /\ lastCleaning[p] # Null) =>
              \E s \in DOMAIN schedules :
                  IsSchedule(s) /\ schedules[s].prop = p /\ schedules[s].last = lastCleaning[p]

\* The list of the cleaning page and its figures, computed apart from the same
\* dates, agree at every instant: overdue in the one is overdue in the other, what
\* is shown due today is counted for today, and what is counted for today is shown
\* due or overdue, but for the last second of the day.
DueIsCounted ==
    \A s \in DOMAIN schedules : IsSchedule(s) =>
        \A now, part \in 0 .. 2 : \A day \in CleaningDays :
            LET at == Instant(day, now)
                next == IF schedules[s].next = Null THEN Null ELSE Instant(schedules[s].next, part)
                shown == ComputedStatus(next, at)
            IN  /\ shown = "OVERDUE" <=> CountedOverdue(next, at)
                /\ shown = "DUE_TODAY" => PendingToday(next, at)
                /\ PendingToday(next, at) =>
                      shown \in {"DUE_TODAY", "OVERDUE"} \/ part = 2
=============================================================================
