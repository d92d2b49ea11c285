------------------------------- MODULE Estate -------------------------------
(***************************************************************************)
(* Properties and groups, reviews, cleaning and maintenance together: the  *)
(* calls of each, and the deletions that reach into all of them.           *)
(***************************************************************************)
EXTENDS Reviews, Upkeep

estateVars == <<requests, propertyVars, bookingVars, reviewVars, upkeepVars>>

BookingsLeft == {b \in BookingIds : bookings[b] # Null}
PropertiesLeft == {p \in PropertyIds : property[p] = "here"}

\* The foreign keys of schema.prisma: Cascade for reviews, schedules and requests,
\* SetNull for the booking of a request.
Cascades ==
    /\ CascadeReviews(BookingsLeft', PropertiesLeft')
    /\ CascadeUpkeep(BookingsLeft', PropertiesLeft')

RemoveProperty(p) == DeleteProperty(p) /\ Cascades
RemoveBooking(b) == DeleteBooking(b) /\ Cascades

\* A restart of the backend.  A review call that has changed its row leaves the
\* average behind, a cleaning one of its two dates.
Restart ==
    /\ Busy # {}
    /\ Asked("restart")
    /\ handler' = [h \in Handlers |-> Idle]
    /\ astray' = astray \cup {handler[h].prop : h \in {g \in Busy : handler[g].op = "review"}}
    /\ tangled' = tangled \cup {handler[h].prop : h \in {g \in Busy : handler[g].op = "cleaned"}}
    /\ UNCHANGED <<propertyVars, bookingVars, reviews, average, repointed,
                   schedules, lastCleaning, edited, repairs>>

Init == RequestsInit /\ PropertiesInit /\ ReviewsInit /\ UpkeepInit

Next ==
    \/ \E h \in Handlers :
        \/ (GroupCalls(h) \/ GroupSteps(h)) /\ UNCHANGED <<reviewVars, upkeepVars>>
        \/ (ReviewCalls(h) \/ ReviewSteps(h)) /\ UNCHANGED <<propertyVars, bookingVars, upkeepVars>>
        \/ (UpkeepCalls(h) \/ UpkeepSteps(h)) /\ UNCHANGED <<propertyVars, bookingVars, reviewVars>>
        \/ \E b \in BookingIds : CompleteStay(h, b) /\ UNCHANGED <<propertyVars, reviewVars>>
    \/ PropertyEdits /\ UNCHANGED <<reviewVars, upkeepVars>>
    \/ UpkeepEdits /\ UNCHANGED <<propertyVars, bookingVars, reviewVars>>
    \/ \E p \in PropertyIds : RemoveProperty(p)
    \/ \E b \in BookingIds : RemoveBooking(b)
    \/ Restart

Spec == Init /\ [][Next]_estateVars

-----------------------------------------------------------------------------
TypeOK ==
    /\ calls \in 0 .. MaxCalls /\ workload \in Workloads
    /\ property \in [PropertyIds -> Lives] /\ group \in [GroupIds -> Lives]
    /\ groupOf \in [PropertyIds -> GroupIds \cup {Null}]
    /\ bookings \in [BookingIds -> [prop : PropertyIds, st : BookingStatuses] \cup {Null}]
    /\ completed \in SUBSET BookingIds
    /\ reviews \in Seq(Review \cup {Null})
    /\ average \in [PropertyIds -> 100 .. 500 \cup {Null}]
    /\ astray \in SUBSET PropertyIds /\ repointed \in SUBSET DOMAIN reviews
    /\ schedules \in Seq(Schedule \cup {Null}) /\ edited \in SUBSET DOMAIN schedules
    /\ lastCleaning \in [PropertyIds -> CleaningDays \cup {Null}]
    /\ tangled \in SUBSET PropertyIds
    /\ repairs \in Seq(Repair \cup {Null})

\* No row points to what is gone, or to a booking of another property, however
\* deletions fall between the checks of a call and its insert: a property's group,
\* a review's booking and property, a schedule's and a request's property, and a
\* request's booking, which is one of its property.
ReferencesHold ==
    /\ \A p \in PropertiesLeft : Reference(groupOf[p])
    /\ \A b \in BookingsLeft : PropertyHere(bookings[b].prop)
    /\ \A v \in Reviewed : reviews[v].booking \in BookingsLeft /\ PropertyHere(reviews[v].prop)
    /\ \A s \in DOMAIN schedules : IsSchedule(s) => PropertyHere(schedules[s].prop)
    /\ \A m \in DOMAIN repairs : IsRepair(m) =>
          /\ PropertyHere(repairs[m].prop)
          /\ repairs[m].booking # Null =>
                repairs[m].booking \in BookingsLeft /\ bookings[repairs[m].booking].prop = repairs[m].prop
=============================================================================
