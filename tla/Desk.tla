-------------------------------- MODULE Desk --------------------------------
(***************************************************************************)
(* inquiries.service.ts and messages.service.ts: what guests ask and write *)
(* and what the staff does with it.  The bookings and properties these     *)
(* rows belong to come from elsewhere and may be deleted at any time.      *)
(***************************************************************************)
EXTENDS Requests, Sequences, Functions

CONSTANTS
    Owners,             \* properties and bookings that inquiries and messages belong to
    InquiryIds,
    MessageIds

VARIABLES
    owner,              \* Owners that are there
    inquiry,            \* id -> [owner, status, respondedAt], Null once deleted
    message             \* id -> [owner, read], Null once deleted

deskVars == <<owner, inquiry, message>>

-----------------------------------------------------------------------------
InquiryStatuses == {"NEW", "IN_PROGRESS", "RESPONDED", "CLOSED", "SPAM"}

\* The time of an answer is the number of the call that gave it.
Inquiry == [owner : Owners, status : InquiryStatuses, respondedAt : 0 .. MaxCalls]
Message == [owner : Owners, read : BOOLEAN]

ASSUME DeskAssumption == Null \notin Inquiry /\ Null \notin Message

NoAnswer == 0

Inquiries == {i \in DOMAIN inquiry : inquiry[i] # Null}
Messages == {m \in DOMAIN message : message[m] # Null}

DeskInit == owner = Owners /\ inquiry = << >> /\ message = << >>

\* Variant: what an owner leaves behind stays.
Orphaned(row, o) == row

\* onDelete: Cascade, for both.
WithoutOwner(row, o) == IF row # Null /\ row.owner = o THEN Null ELSE row

DeleteOwner(o) ==
    /\ o \in owner
    /\ AtOnce("removeOwner")
    /\ owner' = owner \ {o}
    /\ inquiry' = [i \in DOMAIN inquiry |-> WithoutOwner(inquiry[i], o)]
    /\ message' = [m \in DOMAIN message |-> WithoutOwner(message[m], o)]

-----------------------------------------------------------------------------
\* create has found the property or the booking; one that goes before the insert
\* makes it throw.
AskOrWrite(h) ==
    /\ \E o \in owner, op \in {"createInquiry", "createMessage"} :
        Begin(h, [op |-> op, pc |-> "insert", owner |-> o])
    /\ UNCHANGED deskVars

InsertInquiry(h) ==
    LET o == handler[h].owner IN
    /\ At(h, "createInquiry", "insert")
    /\ IF o \in owner
       THEN \E i \in InquiryIds \ DOMAIN inquiry :
              inquiry' = With(inquiry, i, [owner |-> o, status |-> "NEW", respondedAt |-> NoAnswer])
       ELSE UNCHANGED inquiry
    /\ Return(h)
    /\ UNCHANGED <<owner, message>>

InsertMessage(h) ==
    LET o == handler[h].owner IN
    /\ At(h, "createMessage", "insert")
    /\ IF o \in owner
       THEN \E m \in MessageIds \ DOMAIN message :
              message' = With(message, m, [owner |-> o, read |-> FALSE])
       ELSE UNCHANGED message
    /\ Return(h)
    /\ UNCHANGED <<owner, inquiry>>

-----------------------------------------------------------------------------
\* Variant: the time is written with the answers only.
OnlyFromNew(seen, status) == status = "RESPONDED" /\ seen = "NEW"

\* The time is written when an inquiry becomes answered, by the status as it was read.
BecomesAnswered(seen, status) == status = "RESPONDED" /\ seen # "RESPONDED"

UpdateInquiry(h) ==
    /\ \E i \in Inquiries, status \in InquiryStatuses :
        Begin(h, [op |-> "updateInquiry", pc |-> "write", id |-> i, status |-> status,
                  answers |-> BecomesAnswered(inquiry[i].status, status)])
    /\ UNCHANGED deskVars

WriteInquiry(h) ==
    LET c == handler[h] IN
    /\ At(h, "updateInquiry", "write")
    /\ inquiry' = IF c.id \notin Inquiries THEN inquiry
                  ELSE [inquiry EXCEPT ![c.id].status = c.status,
                                       ![c.id].respondedAt = IF c.answers THEN calls ELSE @]
    /\ Return(h)
    /\ UNCHANGED <<owner, message>>

\* markAsRead and update of a message.
UpdateMessage(h) ==
    /\ \E m \in Messages, read \in BOOLEAN :
        Begin(h, [op |-> "updateMessage", pc |-> "write", id |-> m, read |-> read])
    /\ UNCHANGED deskVars

WriteMessage(h) ==
    LET c == handler[h] IN
    /\ At(h, "updateMessage", "write")
    /\ message' = IF c.id \in Messages THEN [message EXCEPT ![c.id].read = c.read] ELSE message
    /\ Return(h)
    /\ UNCHANGED <<owner, inquiry>>

\* Both removals find the row and delete it; a row that is gone by then throws.
RemoveRow(h) ==
    /\ \/ \E i \in Inquiries : Begin(h, [op |-> "removeInquiry", pc |-> "delete", id |-> i])
       \/ \E m \in Messages : Begin(h, [op |-> "removeMessage", pc |-> "delete", id |-> m])
    /\ UNCHANGED deskVars

DeleteRow(h) ==
    /\ \/ /\ At(h, "removeInquiry", "delete")
          /\ inquiry' = [inquiry EXCEPT ![handler[h].id] = Null]
          /\ UNCHANGED message
       \/ /\ At(h, "removeMessage", "delete")
          /\ message' = [message EXCEPT ![handler[h].id] = Null]
          /\ UNCHANGED inquiry
    /\ Return(h)
    /\ UNCHANGED owner

-----------------------------------------------------------------------------
DeskCalls(h) == AskOrWrite(h) \/ UpdateInquiry(h) \/ UpdateMessage(h) \/ RemoveRow(h)

DeskSteps(h) ==
    InsertInquiry(h) \/ InsertMessage(h) \/ WriteInquiry(h) \/ WriteMessage(h) \/ DeleteRow(h)

DeskEdits == \E o \in Owners : DeleteOwner(o)

-----------------------------------------------------------------------------
\* An inquiry that stands as answered says when, although the time is written by
\* what its status was when it was read: neither two answers at once nor an answer
\* beside a change back loses it.
RespondedHasTime ==
    \A i \in Inquiries : inquiry[i].status = "RESPONDED" => inquiry[i].respondedAt # NoAnswer
=============================================================================
