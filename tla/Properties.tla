----------------------------- MODULE Properties -----------------------------
(***************************************************************************)
(* properties.service.ts and property-groups.service.ts: properties, the   *)
(* groups they are in and the bookings that other tables refer to.  What a *)
(* deletion takes with it is in schema.prisma (onDelete); the tables that  *)
(* hang on properties and bookings are in Reviews and Upkeep, and Estate   *)
(* puts the deletions together.                                            *)
(*                                                                         *)
(* Ids are uuids: one that has been deleted does not come back.            *)
(***************************************************************************)
EXTENDS Requests, FiniteSets

CONSTANTS
    PropertyIds,
    SeededProperties,
    GroupIds,
    BookingIds,
    SeededBookings      \* BookingIds -> [prop, st]

VARIABLES
    property,           \* id -> "new", "here" or "gone"
    group,              \* id -> "new", "here" or "gone"
    groupOf,            \* property -> its group or Null
    bookings,           \* id -> [prop, st] or Null once deleted
    completed           \* history: bookings that have been COMPLETED

propertyVars == <<property, group, groupOf>>
bookingVars == <<bookings, completed>>

-----------------------------------------------------------------------------
BookingStatuses == {"PENDING", "CONFIRMED", "CHECKED_IN", "COMPLETED", "CANCELLED", "NO_SHOW"}
Lives == {"new", "here", "gone"}

ASSUME PropertiesAssumption ==
    /\ SeededProperties \subseteq PropertyIds
    /\ SeededBookings \in [BookingIds -> [prop : SeededProperties, st : BookingStatuses]]
    /\ Null \notin PropertyIds \cup GroupIds \cup BookingIds
    /\ Null \notin [prop : PropertyIds, st : BookingStatuses]

PropertiesInit ==
    /\ property = [p \in PropertyIds |-> IF p \in SeededProperties THEN "here" ELSE "new"]
    /\ group = [g \in GroupIds |-> "new"]
    /\ groupOf = [p \in PropertyIds |-> Null]
    /\ bookings = SeededBookings
    /\ completed = {b \in BookingIds : SeededBookings[b].st = "COMPLETED"}

PropertyHere(p) == property[p] = "here"
GroupHere(g) == g \in GroupIds /\ group[g] = "here"
IsBooking(b) == b \in BookingIds /\ bookings[b] # Null

\* A group a foreign key may point to.
Reference(g) == g = Null \/ GroupHere(g)

-----------------------------------------------------------------------------
(***************************************************************************)
(* Properties                                                              *)
(***************************************************************************)
CreateProperty(p) ==
    /\ property[p] = "new"
    /\ AtOnce("createProperty")
    /\ property' = [property EXCEPT ![p] = "here"]
    /\ \E g \in GroupIds \cup {Null} : Reference(g) /\ groupOf' = [groupOf EXCEPT ![p] = g]
    /\ UNCHANGED <<group, bookingVars>>

\* propertyGroupId is among the fields the update takes.
UpdateProperty(p) ==
    /\ PropertyHere(p)
    /\ AtOnce("updateProperty")
    /\ \E g \in GroupIds \cup {Null} : Reference(g) /\ groupOf' = [groupOf EXCEPT ![p] = g]
    /\ UNCHANGED <<property, group, bookingVars>>

\* The bookings go with the property; Estate adds the other tables.
DeleteProperty(p) ==
    /\ PropertyHere(p)
    /\ AtOnce("removeProperty")
    /\ property' = [property EXCEPT ![p] = "gone"]
    /\ groupOf' = [groupOf EXCEPT ![p] = Null]
    /\ bookings' = [b \in BookingIds |->
          IF IsBooking(b) /\ bookings[b].prop = p THEN Null ELSE bookings[b]]
    /\ UNCHANGED <<group, completed>>

(***************************************************************************)
(* Bookings, as far as other tables refer to them                          *)
(***************************************************************************)
WriteStatus(b, st) ==
    /\ bookings' = [bookings EXCEPT ![b].st = st]
    /\ completed' = IF st = "COMPLETED" THEN completed \cup {b} ELSE completed

\* bookings.update; completing a stay goes on in Upkeep.
SetBookingStatus(b) ==
    /\ IsBooking(b)
    /\ AtOnce("setBookingStatus")
    /\ \E st \in BookingStatuses \ {"COMPLETED"} : WriteStatus(b, st)
    /\ UNCHANGED propertyVars

DeleteBooking(b) ==
    /\ IsBooking(b)
    /\ AtOnce("removeBooking")
    /\ bookings' = [bookings EXCEPT ![b] = Null]
    /\ UNCHANGED <<propertyVars, completed>>

-----------------------------------------------------------------------------
(***************************************************************************)
(* Groups                                                                  *)
(***************************************************************************)
CreateGroup(g) ==
    /\ group[g] = "new"
    /\ AtOnce("createGroup")
    /\ group' = [group EXCEPT ![g] = "here"]
    /\ UNCHANGED <<property, groupOf, bookingVars>>

\* remove has found the group.
RemoveGroup(h, g) ==
    /\ GroupHere(g)
    /\ Begin(h, [op |-> "removeGroup", pc |-> "empty", group |-> g])
    /\ UNCHANGED <<propertyVars, bookingVars>>

Emptied(g) == [p \in PropertyIds |-> IF groupOf[p] = g THEN Null ELSE groupOf[p]]

EmptyGroup(h) ==
    /\ At(h, "removeGroup", "empty")
    /\ groupOf' = Emptied(handler[h].group)
    /\ Goto(h, [handler[h] EXCEPT !.pc = "delete"])
    /\ UNCHANGED <<property, group, bookingVars>>

\* Variant: the key of a property added meanwhile is left dangling.
GroupKeysAfter(g) == groupOf

\* onDelete: SetNull.
KeysWithoutGroup(g) == Emptied(g)

\* A group that another call has deleted makes this one throw.
DeleteGroup(h) ==
    LET g == handler[h].group IN
    /\ At(h, "removeGroup", "delete")
    /\ IF GroupHere(g)
       THEN /\ group' = [group EXCEPT ![g] = "gone"]
            /\ groupOf' = KeysWithoutGroup(g)
       ELSE UNCHANGED <<group, groupOf>>
    /\ Return(h)
    /\ UNCHANGED <<property, bookingVars>>

\* addPropertyToGroup has found group and property.
AddToGroup(h, g, p) ==
    /\ GroupHere(g) /\ PropertyHere(p)
    /\ Begin(h, [op |-> "addToGroup", pc |-> "write", group |-> g, prop |-> p])
    /\ UNCHANGED <<propertyVars, bookingVars>>

\* removePropertyFromGroup has found the group; it does not ask whether the
\* property is in it.
RemoveFromGroup(h, g, p) ==
    /\ GroupHere(g)
    /\ Begin(h, [op |-> "removeFromGroup", pc |-> "write", group |-> Null, prop |-> p])
    /\ UNCHANGED <<propertyVars, bookingVars>>

\* The update throws when the property is gone, or the group it names.
WriteGroup(h) ==
    LET c == handler[h] IN
    /\ AtAny(h, {"addToGroup", "removeFromGroup"}, "write")
    /\ groupOf' = IF PropertyHere(c.prop) /\ Reference(c.group)
                  THEN [groupOf EXCEPT ![c.prop] = c.group]
                  ELSE groupOf
    /\ Return(h)
    /\ UNCHANGED <<property, group, bookingVars>>

GroupCalls(h) ==
    \E g \in GroupIds :
        \/ RemoveGroup(h, g)
        \/ \E p \in PropertyIds : AddToGroup(h, g, p) \/ RemoveFromGroup(h, g, p)

GroupSteps(h) == EmptyGroup(h) \/ DeleteGroup(h) \/ WriteGroup(h)

PropertyEdits ==
    \/ \E p \in PropertyIds : CreateProperty(p) \/ UpdateProperty(p)
    \/ \E g \in GroupIds : CreateGroup(g)
    \/ \E b \in BookingIds : SetBookingStatus(b)
=============================================================================
