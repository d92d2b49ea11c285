------------------------------ MODULE Services ------------------------------
(***************************************************************************)
(* services.service.ts: the catalogue of services.  A change drops the     *)
(* entry of the service and, for the lists, adds one to a counter that no  *)
(* list key contains.                                                      *)
(***************************************************************************)
EXTENDS ReadThrough

CONSTANTS
    ServiceIds,
    Names,              \* what an update changes
    SeededServices      \* id -> [name, active], made by the seed

VARIABLE
    service             \* id -> [name, active], Null once deleted, for the ids given out

-----------------------------------------------------------------------------
ServiceRow == [name : Names, active : BOOLEAN]

ASSUME ServicesAssumption ==
    /\ DOMAIN SeededServices \subseteq ServiceIds /\ Range(SeededServices) \subseteq ServiceRow
    /\ Null \notin ServiceRow

ServicesInit == service = SeededServices

One(s) == <<"services:one", s>>
Bust == <<"services:bust", "all">>

\* Lists of the catalogue, of which the query is part of the key.
Queries == {"every", "active"}
List(q) == <<"services:list", q>>

Offering == {s \in DOMAIN service : service[s] # Null}

Matching(q) == {s \in Offering : q = "every" \/ service[s].active}

ListOf(q) == Restrict(service, Matching(q))

ShowingServices == {List(q) : q \in Queries} \cup {One(s) : s \in ServiceIds}

-----------------------------------------------------------------------------
ReadServices(h) ==
    /\ \/ \E q \in Queries : Hit("readList", List(q)) \/ Miss(h, "readList", List(q))
       \/ \E s \in ServiceIds : Hit("readService", One(s)) \/ Miss(h, "readService", One(s))
    /\ UNCHANGED service

LoadList(h) ==
    /\ At(h, "readList", "load")
    /\ Load(h, ListOf(handler[h].entry[2]))
    /\ UNCHANGED service

\* A service that is not there throws.
LoadService(h) ==
    LET s == handler[h].entry[2] IN
    /\ At(h, "readService", "load")
    /\ IF s \in Offering THEN Load(h, service[s]) ELSE Return(h) /\ UNCHANGED cacheVars
    /\ UNCHANGED service

FillServices(h) ==
    /\ AtAny(h, {"readList", "readService"}, "fill")
    /\ Fill(h)
    /\ UNCHANGED service

-----------------------------------------------------------------------------
\* What is still to do once the row is written: the counter, read and then
\* written, and beside it the entry of the service.
Busting(s, entries) ==
    [op |-> "writeService", pc |-> "drop", id |-> s, entries |-> entries, bust |-> "read", busted |-> 0]

CreateService(h) ==
    /\ h \notin Busy /\ Asked("createService")
    /\ \E s \in ServiceIds \ DOMAIN service, row \in ServiceRow :
        /\ service' = With(service, s, row)
        /\ handler' = [g \in Handlers |->
              CASE g = h -> Busting(s, {})
                [] g # h /\ g \in Passing({List(q) : q \in Queries}) -> [handler[g] EXCEPT !.late = TRUE]
                [] OTHER -> handler[g]]
    /\ UNCHANGED cacheVars

\* update, toggle and remove have found the service; toggle turns around what it read.
ServiceCall(h) ==
    /\ \E s \in Offering :
        \/ Begin(h, [op |-> "toggleService", pc |-> "write", id |-> s, to |-> ~service[s].active])
        \/ \E op \in {"updateService", "removeService"} : Begin(h, [op |-> op, pc |-> "write", id |-> s])
    /\ UNCHANGED <<service, cacheVars>>

\* Variant: toggle forgets the entry of the service.
DroppedButToggled(c) == IF c.op = "toggleService" THEN {} ELSE {One(c.id)}

Dropped(c) == {One(c.id)}

\* update writes what the request names, and a field it leaves out keeps what the
\* row has; toggle writes the flag alone.
WriteService(h) ==
    LET c == handler[h] IN
    /\ AtAny(h, {"updateService", "toggleService", "removeService"}, "write")
    /\ IF c.id \in Offering
       THEN /\ \/ c.op = "updateService" /\ \E row \in ServiceRow : service' = [service EXCEPT ![c.id] = row]
               \/ c.op = "toggleService" /\ service' = [service EXCEPT ![c.id].active = c.to]
               \/ c.op = "removeService" /\ service' = [service EXCEPT ![c.id] = Null]
            /\ WriteThen(h, Busting(c.id, Dropped(c)), {List(q) : q \in Queries} \cup {One(c.id)})
       ELSE Return(h) /\ UNCHANGED <<service, cacheVars>>

\* Promise.all: the drop and the counter go on side by side; the call returns
\* after the last of them.
OnceBoth(h, c) == Goto(h, IF c.entries = {} /\ c.bust = "done" THEN Idle ELSE c)

DropService(h) ==
    LET c == handler[h] IN
    /\ At(h, "writeService", "drop") /\ c.entries # {}
    /\ Drop(c.entries)
    /\ OnceBoth(h, [c EXCEPT !.entries = {}])
    /\ UNCHANGED service

ReadBust(h) ==
    LET c == handler[h] IN
    /\ At(h, "writeService", "drop") /\ c.bust = "read"
    /\ Goto(h, [c EXCEPT !.bust = "write", !.busted = IF Cached(Bust) THEN cache[Bust] ELSE 0])
    /\ UNCHANGED <<service, cacheVars>>

WriteBust(h) ==
    LET c == handler[h] IN
    /\ At(h, "writeService", "drop") /\ c.bust = "write"
    /\ cache' = With(cache, Bust, c.busted + 1)
    /\ OnceBoth(h, [c EXCEPT !.bust = "done"])
    /\ UNCHANGED <<service, overtaken>>

-----------------------------------------------------------------------------
ServiceCalls(h) == ReadServices(h) \/ CreateService(h) \/ ServiceCall(h)

ServiceSteps(h) ==
    \/ LoadList(h) \/ LoadService(h) \/ FillServices(h)
    \/ WriteService(h) \/ DropService(h) \/ ReadBust(h) \/ WriteBust(h)

-----------------------------------------------------------------------------
\* The entry of a single service shows its row, although every change of the
\* service drops it after the write, beside the counter, unless a reader had
\* loaded the row before the change and filled the entry after it, or a restart
\* came between write and drop.
ServicesAreCurrent ==
    \A s \in ServiceIds :
        Current(One(s), IF s \in Offering THEN service[s] ELSE Null)

\* "Clears list cache by resetting all services:list:* entries via a shared bust
\* key" (services.service.ts:91): a list in the cache shows the catalogue unless a
\* change is still running or has passed the reader that filled it.
ListsAreCleared ==
    \A q \in Queries :
        Cached(List(q)) /\ cache[List(q)] # ListOf(q) =>
            \/ List(q) \in overtaken
            \/ \E h \in Busy : handler[h].op = "writeService"
=============================================================================
