---------------------------- MODULE ReadThrough ----------------------------
(***************************************************************************)
(* The shared cache (Redis behind cache-manager, app.module.ts) as the     *)
(* services use it: a read looks in the cache, on a miss loads the rows    *)
(* and then fills the entry; a write changes the rows and then drops the   *)
(* entries it knows of.  Nothing orders the fill of one call and the drop  *)
(* of another.  Entries outlive a restart and end by their time to live.   *)
(*                                                                         *)
(* What an entry should hold is for the modules that use this one.         *)
(***************************************************************************)
EXTENDS Requests, Sequences, Functions

VARIABLES
    cache,              \* entry -> value, for the entries that are there
    overtaken           \* history: entries that a write has passed on the way in

cacheVars == <<cache, overtaken>>

CacheInit == cache = << >> /\ overtaken = {}

Cached(e) == e \in DOMAIN cache

Without(entries) == Restrict(cache, DOMAIN cache \ entries)

-----------------------------------------------------------------------------
\* cache.get finds the entry.
Hit(op, e) == Cached(e) /\ AtOnce(op) /\ UNCHANGED cacheVars

\* It finds none; the rows come next.
Miss(h, op, e) ==
    /\ ~Cached(e)
    /\ Begin(h, [op |-> op, pc |-> "load", entry |-> e, value |-> Null, late |-> FALSE])
    /\ UNCHANGED cacheVars

\* The rows are read, and a write from here on makes them late.
Load(h, value) ==
    /\ Goto(h, [handler[h] EXCEPT !.pc = "fill", !.value = value])
    /\ UNCHANGED cacheVars

\* cache.set, after which the call goes on to next.
FillThen(h, next) ==
    LET c == handler[h] IN
    /\ c.pc = "fill"
    /\ cache' = With(cache, c.entry, c.value)
    /\ overtaken' = IF c.late THEN overtaken \cup {c.entry} ELSE overtaken \ {c.entry}
    /\ Goto(h, next)

Fill(h) == FillThen(h, Idle)

\* Call h writes rows that these entries show, and goes on to next.
Passing(entries) == {g \in Handlers : handler[g].pc \in {"fill", "upsert"} /\ handler[g].entry \in entries}

WriteThen(h, next, entries) ==
    /\ handler' = [g \in Handlers |->
          CASE g = h -> next
            [] g # h /\ g \in Passing(entries) -> [handler[g] EXCEPT !.late = TRUE]
            [] OTHER -> handler[g]]
    /\ UNCHANGED <<calls, workload, cacheVars>>

\* A call whose write is done and whose drops are not.
Dropping(e) == {h \in Busy : handler[h].pc = "drop" /\ e \in handler[h].entries}

\* cache.del
Drop(entries) ==
    /\ cache' = Without(entries)
    /\ overtaken' = overtaken \ entries

\* Variant: signed-in users are cached without a time to live.
ExpiringButUsers == {"settings", "services:one", "services:list", "services:bust"}

\* Every cache.set names a time to live; the default is none ("ttl: 0").
Expiring == {"settings", "services:one", "services:list", "services:bust", "jwt_user"}

Expire(e) ==
    /\ Cached(e) /\ e[1] \in Expiring
    /\ Drop({e})
    /\ UNCHANGED requests

\* A restart leaves the entries that were still to be dropped.
CutShort == UNION {handler[h].entries : h \in {g \in Busy : handler[g].pc = "drop"}}

CacheRestart == cache' = cache /\ overtaken' = overtaken \cup CutShort

\* What nobody has overtaken shows the rows, or is about to go.
Current(e, rows) ==
    Cached(e) /\ cache[e] # rows => e \in overtaken \/ Dropping(e) # {}
=============================================================================
