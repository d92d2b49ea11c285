---------------------------- MODULE OfficeProofs ----------------------------
(***************************************************************************)
(* Proofs about Office, for any handlers, settings, services, users, rows  *)
(* and bounds.  Each part has an inductive invariant of its own over its   *)
(* rows and its calls; what all of them rest on is that a call is of one   *)
(* part, changes calls and entries of that part only, and waits at one of  *)
(* the places of its operation (Placed).                                   *)
(***************************************************************************)
EXTENDS Office, FiniteSetTheorems, SequenceTheorems, TLAPS

-----------------------------------------------------------------------------
(***************************************************************************)
(* The calls of each part and the places they wait at                      *)
(***************************************************************************)
SettingWrites == {"setValue", "updateSetting", "removeSetting"}
SettingOps == SettingWrites \cup {"readSettings", "updateTaxes"}

ServiceWrites == {"updateService", "toggleService", "removeService"}
ServiceOps == ServiceWrites \cup {"readList", "readService", "writeService"}

UserWrites == {"setActive", "setRole"}
AccountOps == UserWrites \cup {"register", "guestBooks", "seedAdmin", "validate"}

DeskOps == {"createInquiry", "createMessage", "updateInquiry", "updateMessage",
            "removeInquiry", "removeMessage"}

PublishingOps == {"createContent", "updateContent", "removeContent", "addMedia", "upload",
                  "removeMedia", "updateArticle", "publishArticle", "removeArticle"}

ScriptOps == {"init", "migrate"}

Readers == {"readSettings", "updateTaxes", "readList", "readService", "validate"}

Lists0 == {List(q) : q \in Queries}
Ones == {One(s) : s \in ServiceIds}
Doors == {SignedIn(u) : u \in UserIds}

\* What the calls of an operation look for in the cache.
EntriesOf(op) ==
    CASE op = "readSettings" -> Views
      [] op = "updateTaxes" -> {TaxView}
      [] op = "readList" -> Lists0
      [] op = "readService" -> Ones
      [] op = "validate" -> Doors

\* On the way from a look in the cache to its fill, with whatever value was loaded.
Plain(c) ==
    c \in [op : Readers \ {"updateTaxes"}, pc : {"load", "fill"}, entry : EntriesOf(c.op),
           value : {c.value}, late : BOOLEAN]

Taxing(c) ==
    c \in [op : {"updateTaxes"}, pc : {"load", "fill", "upsert"}, entry : {TaxView},
           patch : Patches, value : {c.value}, late : BOOLEAN]

Reading(c) == Plain(c) \/ Taxing(c)

\* On the way from a write to the drops.
ServiceDrop(c) ==
    c \in [op : {"writeService"}, pc : {"drop"}, id : ServiceIds, entries : {{}, {One(c.id)}},
           bust : {"read", "write", "done"}, busted : {c.busted}]

Dropper(c) ==
    \/ c.op \in SettingWrites \cup {"updateTaxes"} /\ c.pc = "drop" /\ c.entries \subseteq Views
    \/ ServiceDrop(c)

Elsewhere(c) ==
    \/ c.op \in SettingWrites \cup ServiceWrites \cup UserWrites /\ c.pc = "write"
    \/ c.op \in {"register", "guestBooks"} /\ c.pc = "create"
    \/ c.op = "seedAdmin" /\ c.pc \in {"create", "write"}
    \/ c.op \in DeskOps /\ c.pc \in {"insert", "write", "delete"}
    \/ c.op \in PublishingOps /\ c.pc \in {"insert", "write", "delete", "file", "host", "row"}
    \/ c.op \in ScriptOps /\ c.pc \in {"columns", "apply"}

Placed(c) == c = Idle \/ Reading(c) \/ Dropper(c) \/ Elsewhere(c)

CallsOK ==
    /\ handler = [h \in Handlers |-> handler[h]]
    /\ calls \in 0 .. MaxCalls /\ workload \in Workloads
    /\ \A h \in Handlers : Placed(handler[h])

-----------------------------------------------------------------------------
(***************************************************************************)
(* Tables and records                                                      *)
(***************************************************************************)

\* The entries of the parts are different.
LEMMA EntriesApart ==
    /\ \A e \in Views : e[1] = "settings"
    /\ \A e \in Lists0 : e[1] = "services:list"
    /\ \A e \in Ones : e[1] = "services:one"
    /\ \A e \in Doors : e[1] = "jwt_user"
    /\ Bust[1] = "services:bust"
BY DEF Views, HotelInfo, SocialLinks, TaxView, Lists0, List, Ones, One, Doors, SignedIn, Bust

\* What a reader is before and after it is marked late, or has loaded.
LEMMA Marked ==
    ASSUME NEW c, Reading(c)
    PROVE  LET d == [c EXCEPT !.late = TRUE] IN
           /\ Reading(d) /\ d.late
           /\ d.op = c.op /\ d.pc = c.pc /\ d.entry = c.entry /\ d.value = c.value
           /\ c.op = "updateTaxes" => d.patch = c.patch
BY DEF Reading, Plain, Taxing

\* What a reader is once it has loaded a value.
LEMMA Loaded ==
    ASSUME NEW c, Reading(c), NEW v
    PROVE  LET d == [c EXCEPT !.pc = "fill", !.value = v] IN
           /\ Reading(d) /\ d.late = c.late
           /\ d.op = c.op /\ d.pc = "fill" /\ d.entry = c.entry /\ d.value = v
           /\ c.op = "updateTaxes" => d.patch = c.patch
BY DEF Reading, Plain, Taxing

\* What the update of a tax field is once it has filled the cache.
LEMMA Filled ==
    ASSUME NEW c, Taxing(c)
    PROVE  LET d == [c EXCEPT !.pc = "upsert"] IN
           /\ Taxing(d) /\ d.late = c.late
           /\ d.op = c.op /\ d.pc = "upsert" /\ d.entry = c.entry /\ d.value = c.value
           /\ d.patch = c.patch
BY DEF Taxing

-----------------------------------------------------------------------------
(***************************************************************************)
(* How a call moves                                                        *)
(***************************************************************************)

\* Handler g is left alone, or runs a call of O before and after; calls are not taken back.
Within(O) ==
    /\ \A g \in Handlers : handler'[g] = handler[g]
                           \/ {handler[g].op, handler'[g].op} \subseteq O \cup {"none"}
    /\ calls' >= calls

\* What the step of a part with calls O and entries E leaves alone.
Entries == Views \cup Lists0 \cup Ones \cup Doors \cup {Bust}

SameBut(E) ==
    \A e : e \notin E => /\ e \in DOMAIN cache' <=> e \in DOMAIN cache
                         /\ e \in DOMAIN cache => cache'[e] = cache[e]
                         /\ e \in overtaken' <=> e \in overtaken

\* A handler without a call.
LEMMA IdleNone == Idle.op = "none" /\ Idle.pc = "idle" /\ \A h \in Handlers \ Busy : handler[h] = Idle
BY DEF Idle, Busy

\* The operations and places of a call.
LEMMA PlacedAt ==
    ASSUME NEW c, Placed(c)
    PROVE  /\ c.pc \in {"load", "fill", "upsert"} => Reading(c)
           /\ c.op \in Readers => Reading(c) \/ Dropper(c)
           /\ c.pc = "drop" => Dropper(c)
           /\ c.op = "none" => c = Idle
           /\ c.op \in DeskOps \cup PublishingOps \cup ScriptOps => Elsewhere(c)
BY DEF Placed, Idle, Reading, Plain, Taxing, Dropper, ServiceDrop, Elsewhere, Readers, SettingWrites,
       ServiceWrites, UserWrites, DeskOps, PublishingOps, ScriptOps

\* A call is written into its handler.
LEMMA Written ==
    ASSUME CallsOK, NEW h \in Handlers, NEW c, handler' = [handler EXCEPT ![h] = c]
    PROVE  /\ handler' = [g \in Handlers |-> handler'[g]]
           /\ handler'[h] = c /\ \A g \in Handlers \ {h} : handler'[g] = handler[g]
BY DEF CallsOK

\* The number of calls stays within its bound.
LEMMA Counted ==
    ASSUME CallsOK, (\E op : Asked(op)) \/ UNCHANGED <<calls, workload>>
    PROVE  calls' \in 0 .. MaxCalls /\ calls' >= calls /\ workload' \in Workloads
BY CallsAssumption DEF CallsOK, Asked

\* A call begins, goes on or ends.
LEMMA Moved ==
    ASSUME CallsOK, NEW h \in Handlers, NEW c, NEW O,
           (h \notin Busy /\ Begin(h, c)) \/ (handler[h].op \in O \cup {"none"} /\ Goto(h, c)),
           Placed(c), c.op \in O \cup {"none"}
    PROVE  /\ CallsOK' /\ Within(O)
           /\ handler'[h] = c /\ \A g \in Handlers \ {h} : handler'[g] = handler[g]
<1>1. handler' = [handler EXCEPT ![h] = c] /\ ((\E op : Asked(op)) \/ UNCHANGED <<calls, workload>>)
  BY DEF Begin, Goto
<1>2. /\ handler' = [g \in Handlers |-> handler'[g]]
      /\ handler'[h] = c /\ \A g \in Handlers \ {h} : handler'[g] = handler[g]
  BY <1>1, Written
<1>3. calls' \in 0 .. MaxCalls /\ calls' >= calls /\ workload' \in Workloads
  BY <1>1, Counted
<1>4. handler[h].op \in O \cup {"none"}
  BY IdleNone
<1>5. ASSUME NEW g \in Handlers PROVE Placed(handler'[g])
  BY <1>2 DEF CallsOK
<1>6. CallsOK'
  BY <1>2, <1>3, <1>5 DEF CallsOK, Placed, Reading, Plain, Taxing, Dropper, ServiceDrop, Elsewhere
<1>7. Within(O)
  BY <1>2, <1>3, <1>4 DEF Within
<1> QED
  BY <1>2, <1>6, <1>7

-----------------------------------------------------------------------------
(***************************************************************************)
(* Settings                                                                *)
(***************************************************************************)

\* A write has its key and a value for it; a value on its way to the cache is what
\* the rows give, unless the call knows that it is late.
SettingKnows(c) ==
    /\ c.op \in SettingWrites /\ c.pc = "write" =>
          c.key \in SettingKeys /\ (c.op # "removeSetting" => c.to \in ValuesOf(c.key))
    /\ c.op \in {"readSettings", "updateTaxes"} /\ c.pc \in {"fill", "upsert"} =>
          /\ ~c.late => c.value = ViewOf(c.entry)
          /\ c.entry = TaxView => c.value \in Taxes

SettingRows ==
    /\ DOMAIN setting \subseteq SettingKeys
    /\ \A k \in DOMAIN setting : setting[k] \in ValuesOf(k)

SettingsOK ==
    /\ SettingRows
    /\ Cached(TaxView) => cache[TaxView] \in Taxes
    /\ SettingsAreCurrent
    /\ \A h \in Handlers : SettingKnows(handler[h])

\* The view of the taxes is always a record of taxes.
LEMMA TaxesTyped ==
    ASSUME SettingRows
    PROVE  ViewOf(TaxView) \in Taxes
<1>1. TaxKey \in DOMAIN setting => setting[TaxKey] \in Taxes
  <2>1. ValuesOf(TaxKey) = Taxes
    BY DEF ValuesOf
  <2> QED BY <2>1 DEF SettingRows
<1>2. NoTaxes \in Taxes
  BY SettingsAssumption DEF NoTaxes, Taxes
<1> QED
  BY <1>1, <1>2 DEF ViewOf

SettingKept ==
    /\ CallsOK' /\ Within(SettingOps) /\ SameBut(Views)
    /\ SettingsOK'

\* A step of a call that writes no row and no entry.
LEMMA SettingMoves ==
    ASSUME CallsOK, SettingsOK, NEW h \in Handlers, NEW c,
           (h \notin Busy /\ Begin(h, c)) \/ (handler[h].op \in SettingOps \cup {"none"} /\ Goto(h, c)),
           handler[h].pc # "drop",
           Placed(c), c.op \in SettingOps \cup {"none"}, SettingKnows(c), UNCHANGED <<setting, cacheVars>>
    PROVE  SettingKept
<1>1. /\ CallsOK' /\ Within(SettingOps)
      /\ handler'[h] = c /\ \A g \in Handlers \ {h} : handler'[g] = handler[g]
  BY Moved
<1>2. \A g \in Handlers : SettingKnows(handler[g])'
  <2>1. \A g \in Handlers : SettingKnows(handler'[g])
    BY <1>1 DEF SettingsOK
  <2> QED BY <2>1 DEF SettingKnows, ViewOf
<1>3. \A e : Dropping(e) \subseteq Dropping(e)'
  BY <1>1 DEF Dropping, Busy
<1>4. SettingsAreCurrent'
  <2>1. \A view \in Views : ViewOf(view)' = ViewOf(view)
    BY DEF ViewOf
  <2> QED BY <1>3, <2>1 DEF SettingsOK, SettingsAreCurrent, Current, Cached, cacheVars
<1>5. SameBut(Views)
  BY DEF SameBut, cacheVars
<1> QED
  BY <1>1, <1>2, <1>4, <1>5 DEF SettingKept, SettingsOK, SettingRows, Cached, cacheVars

\* A call without an await moves no handler.
LEMMA AtOnceMoves ==
    ASSUME CallsOK, NEW op, AtOnce(op)
    PROVE  CallsOK' /\ UNCHANGED handler /\ \A O : Within(O)
<1>1. calls' \in 0 .. MaxCalls /\ calls' >= calls /\ workload' \in Workloads
  BY Counted DEF AtOnce
<1>2. CallsOK' /\ UNCHANGED handler
  BY <1>1 DEF AtOnce, CallsOK, Placed, Reading, Plain, Taxing, Dropper, ServiceDrop, Elsewhere
<1> QED
  BY <1>1, <1>2 DEF Within

\* getSettings finds the view in the cache, or goes for the rows.
LEMMA ReadViewKeeps ==
    ASSUME CallsOK, SettingsOK, NEW h \in Handlers, ReadView(h)
    PROVE  SettingKept
<1> PICK view \in Views : Hit("readSettings", view) \/ Miss(h, "readSettings", view)
  BY DEF ReadView
<1>1. CASE Hit("readSettings", view)
  <2>1. CallsOK' /\ UNCHANGED handler /\ UNCHANGED <<setting, cacheVars>> /\ Within(SettingOps)
    BY <1>1, AtOnceMoves DEF Hit, ReadView
  <2>2. SameBut(Views)
    BY <2>1 DEF SameBut, cacheVars
  <2>3. SettingsOK'
    BY <2>1 DEF SettingsOK, SettingRows, SettingsAreCurrent, Current, Cached, Dropping, Busy,
       SettingKnows, ViewOf, cacheVars
  <2> QED BY <2>1, <2>2, <2>3 DEF SettingKept
<1>2. CASE Miss(h, "readSettings", view)
  <2> DEFINE c == [op |-> "readSettings", pc |-> "load", entry |-> view, value |-> Null, late |-> FALSE]
  <2>1. Begin(h, c) /\ h \notin Busy /\ UNCHANGED <<setting, cacheVars>>
    BY <1>2 DEF Miss, Begin, ReadView
  <2>2. Plain(c) /\ c.op = "readSettings" /\ c.pc = "load"
    BY DEF Plain, Readers, EntriesOf
  <2>3. Placed(c) /\ SettingKnows(c) /\ c.op \in SettingOps
    BY <2>2 DEF Placed, Reading, SettingKnows, SettingWrites, SettingOps
  <2>4. handler[h].pc # "drop"
    BY <2>1, IdleNone
  <2> HIDE DEF c
  <2> QED BY <2>1, <2>3, <2>4, SettingMoves
<1> QED
  BY <1>1, <1>2

\* It has the rows of this moment.
LEMMA LoadViewKeeps ==
    ASSUME CallsOK, SettingsOK, NEW h \in Handlers, LoadView(h)
    PROVE  SettingKept
<1> DEFINE b == handler[h]
           v == ViewOf(b.entry)
           c == [b EXCEPT !.pc = "fill", !.value = v]
<1>1. /\ b.op \in {"readSettings", "updateTaxes"} /\ b.pc = "load" /\ Goto(h, c)
      /\ UNCHANGED <<setting, cacheVars>>
  BY DEF LoadView, AtAny, Load
<1>2. Reading(b)
  BY <1>1, PlacedAt DEF CallsOK
<1>3. /\ Reading(c) /\ c.late = b.late /\ c.op = b.op /\ c.pc = "fill"
      /\ c.entry = b.entry /\ c.value = v
  <2> HIDE DEF b, v
  <2> QED BY <1>2, Loaded
<1>4. c.entry = TaxView => c.value \in Taxes
  BY <1>3, TaxesTyped DEF SettingsOK
<1>5. SettingKnows(c) /\ Placed(c) /\ c.op \in SettingOps
  <2> HIDE DEF c
  <2> QED BY <1>1, <1>3, <1>4 DEF SettingKnows, Placed, SettingOps, SettingWrites
<1>6. b.op \in SettingOps
  BY <1>1 DEF SettingOps
<1> HIDE DEF c
<1> QED
  BY <1>1, <1>5, <1>6, SettingMoves

\* A change of one setting begins with its value.
LEMMA SettingCallKeeps ==
    ASSUME CallsOK, SettingsOK, NEW h \in Handlers, SettingCall(h)
    PROVE  SettingKept
<1>1. PICK c : /\ Begin(h, c) /\ c.op \in SettingWrites /\ c.pc = "write" /\ c.key \in SettingKeys
               /\ c.op # "removeSetting" => c.to \in ValuesOf(c.key)
  <2>1. PICK k \in SettingKeys :
            \/ \E v \in ValuesOf(k) :
                \/ Begin(h, [op |-> "setValue", pc |-> "write", key |-> k, to |-> v,
                             found |-> k \in DOMAIN setting])
                \/ /\ k \in DOMAIN setting
                   /\ Begin(h, [op |-> "updateSetting", pc |-> "write", key |-> k, to |-> v,
                                found |-> TRUE])
            \/ /\ k \in DOMAIN setting
               /\ Begin(h, [op |-> "removeSetting", pc |-> "write", key |-> k, found |-> TRUE])
    BY DEF SettingCall
  <2> DEFINE set(v, f) == [op |-> "setValue", pc |-> "write", key |-> k, to |-> v, found |-> f]
             upd(v) == [op |-> "updateSetting", pc |-> "write", key |-> k, to |-> v, found |-> TRUE]
             rem == [op |-> "removeSetting", pc |-> "write", key |-> k, found |-> TRUE]
  <2>2. \A v, f : set(v, f).op = "setValue" /\ set(v, f).pc = "write" /\ set(v, f).key = k /\ set(v, f).to = v
    OBVIOUS
  <2>3. \A v : upd(v).op = "updateSetting" /\ upd(v).pc = "write" /\ upd(v).key = k /\ upd(v).to = v
    OBVIOUS
  <2>4. rem.op = "removeSetting" /\ rem.pc = "write" /\ rem.key = k
    OBVIOUS
  <2>5. \/ \E v \in ValuesOf(k) : Begin(h, set(v, k \in DOMAIN setting)) \/ Begin(h, upd(v))
        \/ Begin(h, rem)
    BY <2>1
  <2> HIDE DEF set, upd, rem
  <2> QED BY <2>2, <2>3, <2>4, <2>5 DEF SettingWrites
<1>2. Placed(c) /\ SettingKnows(c) /\ c.op \in SettingOps
  BY <1>1 DEF Placed, Elsewhere, SettingKnows, SettingOps, SettingWrites
<1>3. h \notin Busy /\ handler[h].pc # "drop" /\ UNCHANGED <<setting, cacheVars>>
  BY <1>1, IdleNone DEF Begin, SettingCall
<1> QED
  BY <1>1, <1>2, <1>3, SettingMoves

\* Which calls look for which entries.
LEMMA EntryOps ==
    ASSUME NEW c, Reading(c)
    PROVE  /\ c.op \in {"readSettings", "updateTaxes"} => c.entry \in Views
           /\ c.op = "readList" => c.entry \in Lists0
           /\ c.op = "readService" => c.entry \in Ones
           /\ c.op = "validate" => c.entry \in Doors
           /\ c.op \in Readers /\ c.late \in BOOLEAN
           /\ c.entry \in Views => c.op \in {"readSettings", "updateTaxes"}
           /\ c.entry \in Lists0 => c.op = "readList"
           /\ c.entry \in Ones => c.op = "readService"
           /\ c.entry \in Doors => c.op = "validate"
           /\ c.entry \in Entries \ {Bust}
<1>1. /\ c.op \in {"readSettings", "updateTaxes"} => c.entry \in Views
      /\ c.op = "readList" => c.entry \in Lists0
      /\ c.op = "readService" => c.entry \in Ones
      /\ c.op = "validate" => c.entry \in Doors
      /\ c.op \in Readers /\ c.late \in BOOLEAN
  <2>1. CASE Taxing(c)
    BY <2>1 DEF Taxing, Readers, Views
  <2>2. CASE Plain(c)
    BY <2>2 DEF Plain, Readers, EntriesOf
  <2> QED BY <2>1, <2>2 DEF Reading
<1>2. c.op \in {"readSettings", "updateTaxes", "readList", "readService", "validate"}
  BY <1>1 DEF Readers
<1> QED
  BY <1>1, <1>2, EntriesApart DEF Entries

\* Rows are written, and the readers that are passed are marked.
Writes(h, next, entries) ==
    /\ handler' = [g \in Handlers |-> handler'[g]] /\ handler'[h] = next
    /\ \A g \in Handlers \ {h} : g \notin Passing(entries) => handler'[g] = handler[g]
    /\ \A g \in Passing(entries) \ {h} : handler'[g] = [handler[g] EXCEPT !.late = TRUE]
    /\ (\E op : Asked(op)) \/ UNCHANGED <<calls, workload>>

Passed(h, next, entries) ==
    /\ handler'[h] = next
    /\ \A g \in Handlers \ {h} :
          /\ g \notin Passing(entries) => handler'[g] = handler[g]
          /\ g \in Passing(entries) =>
                /\ Reading(handler[g]) /\ Reading(handler'[g]) /\ handler'[g].late
                /\ handler'[g].op = handler[g].op /\ handler'[g].pc = handler[g].pc
                /\ handler'[g].entry = handler[g].entry /\ handler'[g].value = handler[g].value
                /\ handler[g].op = "updateTaxes" => handler'[g].patch = handler[g].patch

\* A write that drops entries later writes no entry now.
LEMMA WriteThenWrites ==
    ASSUME CallsOK, NEW h \in Handlers, NEW next, NEW entries, WriteThen(h, next, entries)
    PROVE  Writes(h, next, entries) /\ UNCHANGED cacheVars
BY DEF WriteThen, Writes, Passing

\* Readers of what is written are marked late, and nothing else of them changes.
LEMMA PassedBy ==
    ASSUME CallsOK, NEW h \in Handlers, NEW next, NEW entries, NEW O,
           Writes(h, next, entries), Placed(next), {handler[h].op, next.op} \subseteq O \cup {"none"},
           \A g \in Passing(entries) : handler[g].op \in O
    PROVE  CallsOK' /\ Within(O) /\ Passed(h, next, entries)
<1>1. /\ handler' = [g \in Handlers |-> handler'[g]] /\ handler'[h] = next
      /\ \A g \in Handlers \ {h} : g \notin Passing(entries) => handler'[g] = handler[g]
      /\ \A g \in Passing(entries) \ {h} : handler'[g] = [handler[g] EXCEPT !.late = TRUE]
      /\ (\E op : Asked(op)) \/ UNCHANGED <<calls, workload>>
  BY DEF Writes
<1>2. ASSUME NEW g \in Handlers \ {h}, g \in Passing(entries)
      PROVE  /\ Reading(handler[g]) /\ Reading(handler'[g]) /\ handler'[g].late
             /\ handler'[g].op = handler[g].op /\ handler'[g].pc = handler[g].pc
             /\ handler'[g].entry = handler[g].entry /\ handler'[g].value = handler[g].value
             /\ handler[g].op = "updateTaxes" => handler'[g].patch = handler[g].patch
  <2>1. Reading(handler[g])
    BY <1>2, PlacedAt DEF Passing, CallsOK
  <2>2. handler'[g] = [handler[g] EXCEPT !.late = TRUE]
    BY <1>1, <1>2
  <2> QED BY <2>1, <2>2, Marked
<1>3. calls' \in 0 .. MaxCalls /\ calls' >= calls /\ workload' \in Workloads
  BY <1>1, Counted
<1>4. ASSUME NEW g \in Handlers PROVE Placed(handler'[g])
  <2>1. CASE g = h
    BY <1>1, <2>1
  <2>2. CASE g # h /\ g \in Passing(entries)
    BY <1>2, <2>2 DEF Placed
  <2>3. CASE g # h /\ g \notin Passing(entries)
    BY <1>1, <2>3 DEF CallsOK
  <2> QED BY <2>1, <2>2, <2>3
<1>5. CallsOK'
  BY <1>1, <1>3, <1>4 DEF CallsOK, Placed, Reading, Plain, Taxing, Dropper, ServiceDrop, Elsewhere
<1>6. Within(O)
  BY <1>1, <1>2, <1>3 DEF Within
<1> QED
  BY <1>1, <1>2, <1>5, <1>6 DEF Passed

\* An entry of this part is filled.
LEMMA FillKeeps ==
    ASSUME CallsOK, SettingsOK, NEW h \in Handlers, NEW next,
           handler[h].op \in {"readSettings", "updateTaxes"}, FillThen(h, next), UNCHANGED setting,
           Placed(next), SettingKnows(next), next.op \in SettingOps \cup {"none"}
    PROVE  SettingKept
<1> DEFINE c == handler[h]
<1>1. /\ c.pc = "fill" /\ cache' = With(cache, c.entry, c.value) /\ Goto(h, next)
      /\ overtaken' = IF c.late THEN overtaken \cup {c.entry} ELSE overtaken \ {c.entry}
  BY DEF FillThen
<1>2. Reading(c) /\ c.entry \in Views
  BY <1>1, PlacedAt, EntryOps DEF CallsOK
<1>3. /\ CallsOK' /\ Within(SettingOps)
      /\ handler'[h] = next /\ \A g \in Handlers \ {h} : handler'[g] = handler[g]
  BY <1>1, Moved DEF SettingOps
<1>4. /\ DOMAIN cache' = DOMAIN cache \cup {c.entry} /\ cache'[c.entry] = c.value
      /\ \A e \in DOMAIN cache \ {c.entry} : cache'[e] = cache[e]
  BY <1>1 DEF With
<1>5. SameBut(Views)
  BY <1>1, <1>2, <1>4 DEF SameBut
<1>6. /\ ~c.late => c.value = ViewOf(c.entry)
      /\ c.entry = TaxView => c.value \in Taxes
  BY <1>1 DEF SettingsOK, SettingKnows
<1>7. \A g \in Handlers : SettingKnows(handler[g])'
  <2>1. \A g \in Handlers : SettingKnows(handler'[g])
    BY <1>3 DEF SettingsOK
  <2> QED BY <2>1 DEF SettingKnows, ViewOf
<1>8. \A e : Dropping(e) \subseteq Dropping(e)'
  BY <1>1, <1>3 DEF Dropping, Busy
<1>9. ASSUME NEW view \in Views PROVE Current(view, ViewOf(view))'
  <2>1. ViewOf(view)' = ViewOf(view)
    BY DEF ViewOf
  <2>2. Current(view, ViewOf(view))
    BY DEF SettingsOK, SettingsAreCurrent
  <2>3. CASE view = c.entry
    BY <1>1, <1>4, <1>6, <2>1, <2>3 DEF Current
  <2>4. CASE view # c.entry
    BY <1>1, <1>4, <1>8, <2>1, <2>2, <2>4 DEF Current, Cached
  <2> QED BY <2>3, <2>4
<1>10. Cached(TaxView)' => cache'[TaxView] \in Taxes
  BY <1>4, <1>6 DEF SettingsOK, Cached
<1> QED
  BY <1>3, <1>5, <1>7, <1>9, <1>10 DEF SettingKept, SettingsOK, SettingRows, SettingsAreCurrent

\* A reader puts what it has loaded into the cache, late or not.
LEMMA FillViewKeeps ==
    ASSUME CallsOK, SettingsOK, NEW h \in Handlers, FillView(h)
    PROVE  SettingKept
<1>1. Placed(Idle) /\ SettingKnows(Idle) /\ Idle.op \in SettingOps \cup {"none"}
  BY IdleNone DEF Placed, SettingKnows, SettingWrites
<1>2. handler[h].op = "readSettings" /\ FillThen(h, Idle) /\ UNCHANGED setting
  BY DEF FillView, Fill, At
<1> QED
  BY <1>1, <1>2, FillKeeps

\* So does the update of a tax field, which reads before it writes.
LEMMA FillTaxesKeeps ==
    ASSUME CallsOK, SettingsOK, NEW h \in Handlers, FillTaxes(h)
    PROVE  SettingKept
<1> DEFINE b == handler[h]
           c == [b EXCEPT !.pc = "upsert"]
<1>1. b.op = "updateTaxes" /\ b.pc = "fill" /\ FillThen(h, c) /\ UNCHANGED setting
  BY DEF FillTaxes, At
<1>2. Taxing(b)
  <2>1. Reading(b)
    BY <1>1, PlacedAt DEF CallsOK
  <2> QED BY <1>1, <2>1 DEF Reading, Plain
<1>3. /\ Taxing(c) /\ c.late = b.late /\ c.op = b.op /\ c.pc = "upsert" /\ c.entry = b.entry
      /\ c.value = b.value
  <2> HIDE DEF b
  <2> QED BY <1>2, Filled
<1>4. SettingKnows(b)
  BY DEF SettingsOK
<1> HIDE DEF c
<1>5. Placed(c) /\ SettingKnows(c) /\ c.op \in SettingOps \cup {"none"}
  BY <1>1, <1>3, <1>4 DEF Placed, Reading, SettingKnows, SettingWrites, SettingOps
<1> QED
  BY <1>1, <1>5, FillKeeps

\* The two lists of keys agree: what shows a key is dropped with it.
LEMMA ShownIsDropped ==
    /\ \A view \in Views : \A k : k \in ShownBy(view) => view \in Invalidated(k)
    /\ \A k : Invalidated(k) \subseteq Views
    /\ {view \in Views : TaxKey \in ShownBy(view)} = {TaxView}
<1>1. HotelInfo # SocialLinks /\ HotelInfo # TaxView /\ SocialLinks # TaxView
  BY DEF HotelInfo, SocialLinks, TaxView
<1>2. ShownBy(HotelInfo) = {"hotel_name", "check_in_time"}
  BY <1>1 DEF ShownBy
<1>3. ShownBy(SocialLinks) = {"facebook_url"}
  BY <1>1 DEF ShownBy
<1>4. ShownBy(TaxView) = {TaxKey}
  BY <1>1 DEF ShownBy
<1> QED
  BY <1>2, <1>3, <1>4 DEF Views, Invalidated, TaxKey

\* A view that does not show the key does not change with it.
LEMMA ViewElsewhere ==
    ASSUME NEW k, NEW view \in Views, k \notin ShownBy(view),
           \A y : y # k => /\ y \in DOMAIN setting' <=> y \in DOMAIN setting
                           /\ y \in DOMAIN setting => setting'[y] = setting[y]
    PROVE  ViewOf(view)' = ViewOf(view)
<1>1. CASE view = TaxView
  <2>1. k # TaxKey
    BY <1>1 DEF ShownBy, HotelInfo, SocialLinks, TaxView
  <2> QED BY <1>1, <2>1 DEF ViewOf
<1>2. CASE view # TaxView
  <2> DEFINE S == DOMAIN setting \cap ShownBy(view)
  <2>1. DOMAIN setting' \cap ShownBy(view) = S
    OBVIOUS
  <2>2. \A y \in S : setting'[y] = setting[y]
    OBVIOUS
  <2>3. Restrict(setting', S) = Restrict(setting, S)
    BY <2>2 DEF Restrict
  <2>4. ViewOf(view) = Restrict(setting, S)
    BY <1>2 DEF ViewOf
  <2>5. ViewOf(view)' = Restrict(setting', DOMAIN setting' \cap ShownBy(view))
    BY <1>2 DEF ViewOf
  <2> QED BY <2>1, <2>3, <2>4, <2>5
<1> QED
  BY <1>1, <1>2

\* The row of a key is written or deleted.
LEMMA SettingWritten ==
    ASSUME CallsOK, SettingsOK, NEW h \in Handlers, NEW next, NEW k \in SettingKeys,
           handler[h].op \in SettingOps, handler[h].pc # "drop",
           WriteThen(h, next, {view \in Views : k \in ShownBy(view)}),
           SettingRows',
           \A y : y # k => /\ y \in DOMAIN setting' <=> y \in DOMAIN setting
                           /\ y \in DOMAIN setting => setting'[y] = setting[y],
           Placed(next), next.op \in SettingOps \cup {"none"}, next.pc \in {"drop", "idle"},
           \A view \in Views : k \in ShownBy(view) => next.pc = "drop" /\ view \in next.entries
    PROVE  SettingKept
<1> DEFINE E == {view \in Views : k \in ShownBy(view)}
<1>1. \A g \in Passing(E) : handler[g].op \in SettingOps
  <2>1. \A g \in Passing(E) : Reading(handler[g]) /\ handler[g].entry \in Views
    BY PlacedAt DEF Passing, CallsOK
  <2> QED BY <2>1, EntryOps DEF SettingOps
<1>2. /\ CallsOK' /\ Within(SettingOps) /\ handler'[h] = next
      /\ \A g \in Handlers \ {h} :
            /\ g \notin Passing(E) => handler'[g] = handler[g]
            /\ g \in Passing(E) =>
                  /\ Reading(handler[g]) /\ Reading(handler'[g]) /\ handler'[g].late
                  /\ handler'[g].op = handler[g].op /\ handler'[g].pc = handler[g].pc
                  /\ handler'[g].entry = handler[g].entry /\ handler'[g].value = handler[g].value
  <2>1. Writes(h, next, E)
    BY WriteThenWrites
  <2>2. {handler[h].op, next.op} \subseteq SettingOps \cup {"none"}
    OBVIOUS
  <2> HIDE DEF E
  <2>3. CallsOK' /\ Within(SettingOps) /\ Passed(h, next, E)
    BY <1>1, <2>1, <2>2, PassedBy
  <2> QED BY <2>3 DEF Passed
<1>3. UNCHANGED cacheVars
  BY DEF WriteThen
<1>4. \A view \in Views : k \notin ShownBy(view) => ViewOf(view)' = ViewOf(view)
  BY ViewElsewhere
<1>5. ASSUME NEW g \in Handlers PROVE SettingKnows(handler[g])'
  <2>1. CASE g = h
    BY <1>2, <2>1 DEF SettingKnows
  <2>2. CASE g # h /\ g \in Passing(E)
    <3>1. SettingKnows(handler[g])
      BY DEF SettingsOK
    <3> QED BY <1>2, <2>2, <3>1 DEF SettingKnows, Passing
  <2>3. CASE g # h /\ g \notin Passing(E)
    <3>1. SettingKnows(handler[g]) /\ handler'[g] = handler[g]
      BY <1>2, <2>3 DEF SettingsOK
    <3>2. handler[g].op \in {"readSettings", "updateTaxes"} /\ handler[g].pc \in {"fill", "upsert"}
             => handler[g].entry \in Views /\ k \notin ShownBy(handler[g].entry)
      <4>1. handler[g].pc \in {"fill", "upsert"} => Reading(handler[g])
        BY PlacedAt DEF CallsOK
      <4> QED BY <2>3, <4>1, EntryOps DEF Passing
    <3> QED BY <1>4, <3>1, <3>2 DEF SettingKnows
  <2> QED BY <2>1, <2>2, <2>3
<1>6. ASSUME NEW view \in Views PROVE Current(view, ViewOf(view))'
  <2>1. CASE k \in ShownBy(view)
    <3>1. handler'[h] # Idle /\ handler'[h].pc = "drop" /\ view \in handler'[h].entries
      BY <1>2, <2>1, IdleNone
    <3> QED BY <3>1 DEF Current, Dropping, Busy
  <2>2. CASE k \notin ShownBy(view)
    <3>1. Dropping(view) \subseteq Dropping(view)'
      <4>1. \A g \in Dropping(view) : g # h /\ g \notin Passing(E)
        BY DEF Dropping, Passing
      <4> QED BY <1>2, <4>1 DEF Dropping, Busy
    <3> QED BY <1>3, <1>4, <2>2, <3>1 DEF SettingsOK, SettingsAreCurrent, Current, Cached, cacheVars
  <2> QED BY <2>1, <2>2
<1>7. SameBut(Views)
  BY <1>3 DEF SameBut, cacheVars
<1> QED
  BY <1>2, <1>3, <1>5, <1>6, <1>7 DEF SettingKept, SettingsOK, SettingsAreCurrent, Cached, cacheVars

\* The row is written, and its view is to be dropped.
LEMMA WriteSettingKeeps ==
    ASSUME CallsOK, SettingsOK, NEW h \in Handlers, WriteSetting(h)
    PROVE  SettingKept
<1> DEFINE c == handler[h]
           drops == Invalidated(c.key)
           drop == [op |-> c.op, pc |-> "drop", entries |-> drops]
           next == IF drops = {} THEN Idle ELSE drop
<1>1. /\ c.op \in SettingWrites /\ c.op \in SettingOps /\ c.pc = "write" /\ c.key \in SettingKeys
      /\ c.op # "removeSetting" => c.to \in ValuesOf(c.key)
  BY DEF WriteSetting, AtAny, SettingsOK, SettingKnows, SettingWrites, SettingOps
<1>2. CASE Return(h) /\ UNCHANGED <<setting, cacheVars>>
  <2>1. Placed(Idle) /\ SettingKnows(Idle) /\ Idle.op \in SettingOps \cup {"none"}
    BY IdleNone DEF Placed, SettingKnows, SettingWrites
  <2> QED BY <1>1, <1>2, <2>1, SettingMoves DEF Return
<1>3. CASE /\ setting' = IF c.op = "removeSetting"
                         THEN Restrict(setting, DOMAIN setting \ {c.key})
                         ELSE With(setting, c.key, c.to)
           /\ WriteThen(h, next, {view \in Views : c.key \in ShownBy(view)})
  <2>1. \A y : y # c.key => /\ y \in DOMAIN setting' <=> y \in DOMAIN setting
                            /\ y \in DOMAIN setting => setting'[y] = setting[y]
    <3>1. CASE c.op = "removeSetting"
      <4>1. setting' = [y \in DOMAIN setting \ {c.key} |-> setting[y]]
        BY <1>3, <3>1 DEF Restrict
      <4> QED BY <4>1
    <3>2. CASE c.op # "removeSetting"
      <4>1. setting' = [y \in DOMAIN setting \cup {c.key} |-> IF y = c.key THEN c.to ELSE setting[y]]
        BY <1>3, <3>2 DEF With
      <4> QED BY <4>1
    <3> QED BY <3>1, <3>2
  <2>2. c.key \in DOMAIN setting' => setting'[c.key] \in ValuesOf(c.key)
    <3>1. CASE c.op = "removeSetting"
      <4>1. setting' = [y \in DOMAIN setting \ {c.key} |-> setting[y]]
        BY <1>3, <3>1 DEF Restrict
      <4> QED BY <4>1
    <3>2. CASE c.op # "removeSetting"
      <4>1. setting' = [y \in DOMAIN setting \cup {c.key} |-> IF y = c.key THEN c.to ELSE setting[y]]
        BY <1>3, <3>2 DEF With
      <4> QED BY <1>1, <3>2, <4>1
    <3> QED BY <3>1, <3>2
  <2>3. SettingRows'
    BY <1>1, <2>1, <2>2 DEF SettingsOK, SettingRows, ValuesOf
  <2>4. /\ Placed(next) /\ next.op \in SettingOps \cup {"none"} /\ next.pc \in {"drop", "idle"}
        /\ \A view \in Views : c.key \in ShownBy(view) => next.pc = "drop" /\ view \in next.entries
    <3>1. drop.op = c.op /\ drop.pc = "drop" /\ drop.entries = drops
      OBVIOUS
    <3>2. drops \subseteq Views /\ \A view \in Views : c.key \in ShownBy(view) => view \in drops
      BY ShownIsDropped
    <3>3. Placed(drop)
      BY <1>1, <3>1, <3>2 DEF Placed, Dropper
    <3>4. Placed(Idle) /\ Idle.op = "none" /\ Idle.pc = "idle"
      BY IdleNone DEF Placed
    <3> HIDE DEF drop, drops
    <3> QED BY <1>1, <3>1, <3>2, <3>3, <3>4
  <2> HIDE DEF next
  <2> QED BY <1>1, <1>3, <2>1, <2>3, <2>4, SettingWritten
<1> QED
  BY <1>2, <1>3 DEF WriteSetting

\* The taxes are written from what was read: unless a change has come between, the other
\* fields stay.
LEMMA UpsertTaxesKeeps ==
    ASSUME CallsOK, SettingsOK, NEW h \in Handlers, UpsertTaxes(h)
    PROVE  SettingKept /\ (~handler[h].late =>
              \A f \in TaxFields \ {handler[h].patch.field} : ViewOf(TaxView)'[f] = ViewOf(TaxView)[f])
<1> DEFINE c == handler[h]
           next == [op |-> "updateTaxes", pc |-> "drop", entries |-> {TaxView}]
           merged == Merged(c.patch, c.value)
<1>1. c.op = "updateTaxes" /\ c.pc = "upsert" /\ setting' = With(setting, TaxKey, merged)
      /\ WriteThen(h, next, {TaxView})
  BY DEF UpsertTaxes, At
<1>2. Taxing(c) /\ c.entry = TaxView /\ c.patch \in Patches
  BY <1>1, PlacedAt DEF CallsOK, Reading, Plain, Taxing
<1>3. c.value \in Taxes /\ (~c.late => c.value = ViewOf(TaxView))
  BY <1>1, <1>2 DEF SettingsOK, SettingKnows
<1>4. merged \in Taxes /\ \A f \in TaxFields \ {c.patch.field} : merged[f] = c.value[f]
  BY <1>2, <1>3 DEF Merged, Taxes, Patches
<1>5. setting' = [y \in DOMAIN setting \cup {TaxKey} |-> IF y = TaxKey THEN merged ELSE setting[y]]
  BY <1>1 DEF With
<1> HIDE DEF merged
<1>6. /\ TaxKey \in DOMAIN setting' /\ setting'[TaxKey] = merged
      /\ \A y : y # TaxKey => /\ y \in DOMAIN setting' <=> y \in DOMAIN setting
                              /\ y \in DOMAIN setting => setting'[y] = setting[y]
  BY <1>5
<1>7. ValuesOf(TaxKey) = Taxes /\ TaxKey \in SettingKeys
  BY SettingsAssumption DEF ValuesOf
<1>8. SettingRows'
  BY <1>4, <1>6, <1>7 DEF SettingsOK, SettingRows, ValuesOf
<1>9. /\ Placed(next) /\ next.op \in SettingOps \cup {"none"} /\ next.pc \in {"drop", "idle"}
      /\ \A view \in Views : TaxKey \in ShownBy(view) => next.pc = "drop" /\ view \in next.entries
  <2>1. next.op = "updateTaxes" /\ next.pc = "drop" /\ next.entries = {TaxView}
    OBVIOUS
  <2> HIDE DEF next
  <2> QED BY <2>1, ShownIsDropped DEF Placed, Dropper, SettingOps, Views
<1>10. SettingKept
  <2>1. WriteThen(h, next, {view \in Views : TaxKey \in ShownBy(view)})
    BY <1>1, ShownIsDropped
  <2>2. c.op \in SettingOps /\ c.pc # "drop"
    BY <1>1 DEF SettingOps
  <2> HIDE DEF next
  <2> QED BY <1>6, <1>7, <1>8, <1>9, <2>1, <2>2, SettingWritten
<1>11. ViewOf(TaxView)' = merged
  BY <1>6 DEF ViewOf
<1> QED
  BY <1>3, <1>4, <1>10, <1>11

\* The views go; what was to be dropped is gone.
LEMMA DropViewsKeeps ==
    ASSUME CallsOK, SettingsOK, NEW h \in Handlers, DropViews(h)
    PROVE  SettingKept
<1> DEFINE E == handler[h].entries
<1>1. /\ handler[h].op \in SettingWrites \cup {"updateTaxes"} /\ handler[h].pc = "drop"
      /\ cache' = Without(E) /\ overtaken' = overtaken \ E
      /\ Goto(h, Idle) /\ UNCHANGED setting
  BY DEF DropViews, AtAny, Drop, Return, SettingWrites
<1>2. E \subseteq Views
  <2>1. Dropper(handler[h])
    BY <1>1, PlacedAt DEF CallsOK
  <2> QED BY <1>1, <2>1 DEF Dropper, ServiceDrop, SettingWrites
<1>3. /\ CallsOK' /\ Within(SettingOps)
      /\ handler'[h] = Idle /\ \A g \in Handlers \ {h} : handler'[g] = handler[g]
  <2>1. Placed(Idle) /\ Idle.op = "none" /\ handler[h].op \in SettingOps
    BY <1>1, IdleNone DEF Placed, SettingOps
  <2> QED BY <1>1, <2>1, Moved
<1>4. /\ DOMAIN cache' = DOMAIN cache \ E /\ \A e \in DOMAIN cache \ E : cache'[e] = cache[e]
  BY <1>1 DEF Without, Restrict
<1>5. SameBut(Views)
  BY <1>1, <1>2, <1>4 DEF SameBut
<1>6. ASSUME NEW g \in Handlers PROVE SettingKnows(handler[g])'
  <2>1. SettingKnows(handler'[g])
    BY <1>3, IdleNone DEF SettingsOK, SettingKnows, SettingWrites
  <2> QED BY <1>1, <2>1 DEF SettingKnows, ViewOf
<1>7. ASSUME NEW view \in Views PROVE Current(view, ViewOf(view))'
  <2>1. ViewOf(view)' = ViewOf(view)
    BY <1>1 DEF ViewOf
  <2>2. CASE view \in E
    BY <1>4, <2>2 DEF Current, Cached
  <2>3. CASE view \notin E
    <3>1. Dropping(view) \subseteq Dropping(view)'
      BY <1>3, <2>3 DEF Dropping, Busy
    <3>2. Current(view, ViewOf(view))
      BY DEF SettingsOK, SettingsAreCurrent
    <3> QED BY <1>1, <1>4, <2>1, <2>3, <3>1, <3>2 DEF Current, Cached
  <2> QED BY <2>2, <2>3
<1>8. Cached(TaxView)' => cache'[TaxView] \in Taxes
  BY <1>4 DEF SettingsOK, Cached
<1> QED
  BY <1>1, <1>3, <1>5, <1>6, <1>7, <1>8 DEF SettingKept, SettingsOK, SettingRows, SettingsAreCurrent

\* What is merged into is current, or known to be late.
LEMMA UpdateTaxesKeeps ==
    ASSUME CallsOK, SettingsOK, NEW h \in Handlers, UpdateTaxes(h)
    PROVE  SettingKept
<1>1. PICK patch \in Patches :
        Begin(h, IF Cached(TaxView)
                 THEN [op |-> "updateTaxes", pc |-> "upsert", entry |-> TaxView, patch |-> patch,
                       value |-> cache[TaxView],
                       late |-> TaxView \in overtaken \/ Dropping(TaxView) # {}]
                 ELSE [op |-> "updateTaxes", pc |-> "load", entry |-> TaxView, patch |-> patch,
                       value |-> Null, late |-> FALSE])
  BY DEF UpdateTaxes
<1> DEFINE b == TaxView \in overtaken \/ Dropping(TaxView) # {}
           hit == [op |-> "updateTaxes", pc |-> "upsert", entry |-> TaxView, patch |-> patch,
                   value |-> cache[TaxView], late |-> b]
           miss == [op |-> "updateTaxes", pc |-> "load", entry |-> TaxView, patch |-> patch,
                    value |-> Null, late |-> FALSE]
           c == IF Cached(TaxView) THEN hit ELSE miss
<1>2. /\ Begin(h, c) /\ h \notin Busy /\ handler[h].pc # "drop" /\ UNCHANGED <<setting, cacheVars>>
  BY <1>1, IdleNone DEF Begin, UpdateTaxes
<1>3. Cached(TaxView) => cache[TaxView] \in Taxes /\ (~b => cache[TaxView] = ViewOf(TaxView))
  BY DEF SettingsOK, SettingsAreCurrent, Current, Views
<1>4. b \in BOOLEAN
  OBVIOUS
<1>5. Taxing(hit) /\ hit.op = "updateTaxes" /\ hit.entry = TaxView /\ hit.value = cache[TaxView] /\ hit.late = b
  <2> HIDE DEF b
  <2> QED BY <1>4 DEF Taxing
<1>6. Taxing(miss) /\ miss.op = "updateTaxes" /\ miss.pc = "load"
  BY DEF Taxing
<1> HIDE DEF hit, miss, b
<1>7. Taxing(c) /\ SettingKnows(c) /\ c.op \in SettingOps
  BY <1>3, <1>5, <1>6 DEF SettingKnows, SettingWrites, SettingOps
<1> HIDE DEF c
<1> QED
  BY <1>2, <1>7, SettingMoves DEF Placed, Reading

\* Whatever the settings do keeps their part.
LEMMA SettingStepKeeps ==
    ASSUME CallsOK, SettingsOK, NEW h \in Handlers, SettingSteps(h) \/ SettingCalls(h)
    PROVE  SettingKept
BY ReadViewKeeps, SettingCallKeeps, UpdateTaxesKeeps, LoadViewKeeps, FillViewKeeps, FillTaxesKeeps,
   WriteSettingKeeps, UpsertTaxesKeeps, DropViewsKeeps DEF SettingSteps, SettingCalls

\* Steps of the other parts.
LEMMA SettingsAside ==
    ASSUME CallsOK, SettingsOK, NEW O, Within(O), O \cap SettingOps = {},
           NEW E, SameBut(E), E \cap Views = {}, UNCHANGED setting
    PROVE  SettingsOK'
<1>1. ASSUME NEW g \in Handlers PROVE handler'[g] = handler[g] \/ handler'[g].op \notin SettingOps
  BY DEF Within, SettingOps, SettingWrites
<1>2. ASSUME NEW g \in Handlers PROVE SettingKnows(handler[g])'
  <2>1. SettingKnows(handler'[g])
    BY <1>1 DEF SettingsOK, SettingKnows, SettingOps
  <2> QED BY <2>1 DEF SettingKnows, ViewOf
<1>3. ASSUME NEW view \in Views PROVE Current(view, ViewOf(view))'
  <2>1. ASSUME NEW g \in Dropping(view) PROVE g \in Dropping(view)'
    <3>1. g \in Handlers /\ Dropper(handler[g]) /\ handler[g] # Idle
      BY PlacedAt DEF Dropping, Busy, CallsOK
    <3>2. ~ServiceDrop(handler[g])
      <4>1. \A c : ServiceDrop(c) => c.entries \subseteq Ones
        BY DEF ServiceDrop, Ones
      <4>2. view \in handler[g].entries /\ view \notin Ones
        BY EntriesApart DEF Dropping
      <4> QED BY <4>1, <4>2
    <3>3. handler[g].op \in SettingOps /\ handler[g].op # "none"
      BY <3>1, <3>2 DEF Dropper, SettingOps, SettingWrites
    <3>4. handler'[g] = handler[g]
      BY <3>1, <3>3 DEF Within
    <3> QED BY <3>1, <3>4 DEF Dropping, Busy
  <2>2. ViewOf(view)' = ViewOf(view)
    BY DEF ViewOf
  <2> QED BY <2>1, <2>2 DEF SettingsOK, SettingsAreCurrent, Current, Cached, SameBut
<1>4. Cached(TaxView)' => cache'[TaxView] \in Taxes
  BY DEF SettingsOK, Cached, SameBut, Views
<1> QED
  BY <1>2, <1>3, <1>4 DEF SettingsOK, SettingRows, SettingsAreCurrent

\* The end of an entry, and of everything that runs.
LEMMA SettingsExpire ==
    ASSUME CallsOK, SettingsOK, NEW e, Expire(e), UNCHANGED setting
    PROVE  SettingsOK'
<1>1. /\ DOMAIN cache' = DOMAIN cache \ {e} /\ \A x \in DOMAIN cache \ {e} : cache'[x] = cache[x]
      /\ overtaken' = overtaken \ {e} /\ UNCHANGED requests
  BY DEF Expire, Drop, Without, Restrict
<1>2. \A view \in Views : ViewOf(view)' = ViewOf(view) /\ Dropping(view)' = Dropping(view)
  BY <1>1 DEF ViewOf, Dropping, Busy, requests
<1>3. SettingsAreCurrent'
  BY <1>1, <1>2 DEF SettingsOK, SettingsAreCurrent, Current, Cached
<1>4. \A g \in Handlers : SettingKnows(handler[g])'
  BY <1>1 DEF SettingsOK, SettingKnows, ViewOf, requests
<1> QED
  BY <1>1, <1>3, <1>4 DEF SettingsOK, SettingRows, Cached

\* A restart leaves behind what it cut short.
LEMMA SettingsRestart ==
    ASSUME CallsOK, SettingsOK, handler' = [g \in Handlers |-> Idle], CacheRestart, UNCHANGED setting
    PROVE  SettingsOK'
<1>1. cache' = cache /\ overtaken' = overtaken \cup CutShort
  BY DEF CacheRestart
<1>2. \A view \in Views : ViewOf(view)' = ViewOf(view) /\ (Dropping(view) # {} => view \in CutShort)
  BY DEF ViewOf, Dropping, CutShort
<1>3. SettingsAreCurrent'
  BY <1>1, <1>2 DEF SettingsOK, SettingsAreCurrent, Current, Cached
<1>4. \A g \in Handlers : SettingKnows(handler[g])'
  BY IdleNone DEF SettingKnows, SettingWrites
<1> QED
  BY <1>1, <1>3, <1>4 DEF SettingsOK, SettingRows, Cached

-----------------------------------------------------------------------------
(***************************************************************************)
(* Services                                                                *)
(***************************************************************************)

\* What the entry of a service should hold.
RowFor(s) == IF s \in Offering THEN service[s] ELSE Null

\* A write has a service and a row for it; a service on its way to the cache has
\* been given out, and is as its row unless the call is late.
ServiceKnows(c) ==
    /\ c.op \in ServiceWrites /\ c.pc = "write" =>
          c.id \in ServiceIds /\ (c.op = "toggleService" => c.to \in BOOLEAN)
    /\ c.op = "readService" /\ c.pc = "fill" =>
          \A s \in ServiceIds : c.entry = One(s) =>
              s \in DOMAIN service /\ (~c.late => c.value = RowFor(s))

ServiceRows ==
    /\ DOMAIN service \subseteq ServiceIds
    /\ \A s \in DOMAIN service : service[s] \in ServiceRow \cup {Null}

ServicesOK ==
    /\ ServiceRows
    /\ \A s \in ServiceIds : Cached(One(s)) => s \in DOMAIN service
    /\ ServicesAreCurrent
    /\ \A h \in Handlers : ServiceKnows(handler[h])

ServiceKept ==
    /\ CallsOK' /\ Within(ServiceOps) /\ SameBut(Lists0 \cup Ones \cup {Bust})
    /\ ServicesOK'

\* The entry of a service is that of no other and of no other part.
LEMMA OnesApart ==
    /\ \A s, t : One(s) = One(t) => s = t
    /\ \A s : One(s) \notin Lists0 /\ One(s) # Bust /\ One(s) \notin Views /\ One(s) \notin Doors
BY EntriesApart DEF One

\* The entry of a service stays current when neither its row nor the entry changes
\* and whoever is to drop it still is.
LEMMA OneStays ==
    ASSUME NEW s \in ServiceIds, Current(One(s), RowFor(s)), RowFor(s)' = RowFor(s),
           One(s) \in DOMAIN cache' => One(s) \in DOMAIN cache /\ cache'[One(s)] = cache[One(s)],
           One(s) \in overtaken => One(s) \in overtaken',
           Dropping(One(s)) \subseteq Dropping(One(s))'
    PROVE  Current(One(s), RowFor(s))'
BY DEF Current, Cached

\* ServicesAreCurrent, said by RowFor.
LEMMA CurrentServices ==
    /\ ServicesAreCurrent <=> \A s \in ServiceIds : Current(One(s), RowFor(s))
    /\ ServicesAreCurrent' <=> \A s \in ServiceIds : Current(One(s), RowFor(s))'
BY DEF ServicesAreCurrent, RowFor

\* Where no service changes, no entry should change.
LEMMA RowForKept == service' = service => \A s : RowFor(s)' = RowFor(s)
BY DEF RowFor, Offering

\* A step of a call that writes no row and, of the entries, the counter at most.
LEMMA ServiceMoves ==
    ASSUME CallsOK, ServicesOK, NEW h \in Handlers, NEW c,
           (h \notin Busy /\ Begin(h, c)) \/ (handler[h].op \in ServiceOps \cup {"none"} /\ Goto(h, c)),
           Placed(c), c.op \in ServiceOps \cup {"none"}, ServiceKnows(c),
           handler[h].pc = "drop" => /\ handler[h] # Idle
                                     /\ handler[h].entries # {} => c.pc = "drop" /\ c.entries = handler[h].entries,
           UNCHANGED service, SameBut({Bust})
    PROVE  ServiceKept
<1>1. /\ CallsOK' /\ Within(ServiceOps)
      /\ handler'[h] = c /\ \A g \in Handlers \ {h} : handler'[g] = handler[g]
  BY Moved
<1>2. \A g \in Handlers : ServiceKnows(handler[g])'
  <2>1. \A g \in Handlers : ServiceKnows(handler'[g])
    BY <1>1 DEF ServicesOK
  <2> QED BY <2>1 DEF ServiceKnows, RowFor, Offering
<1>3. ASSUME NEW e PROVE Dropping(e) \subseteq Dropping(e)'
  BY <1>1, IdleNone DEF Dropping, Busy
<1>4. ServicesAreCurrent'
  <2>1. ASSUME NEW s \in ServiceIds PROVE Current(One(s), RowFor(s))'
    <3>1. Current(One(s), RowFor(s)) /\ RowFor(s)' = RowFor(s)
      BY CurrentServices, RowForKept DEF ServicesOK
    <3>2. /\ One(s) \in DOMAIN cache' => One(s) \in DOMAIN cache /\ cache'[One(s)] = cache[One(s)]
          /\ One(s) \in overtaken => One(s) \in overtaken'
      BY OnesApart DEF SameBut
    <3> QED BY <1>3, <3>1, <3>2, OneStays
  <2> QED BY <2>1, CurrentServices
<1>5. SameBut(Lists0 \cup Ones \cup {Bust})
  BY DEF SameBut
<1>6. \A s \in ServiceIds : Cached(One(s))' => s \in DOMAIN service'
  BY OnesApart DEF SameBut, ServicesOK, Cached
<1> QED
  BY <1>1, <1>2, <1>4, <1>5, <1>6 DEF ServiceKept, ServicesOK, ServiceRows

\* A step without the cache leaves every entry.
LEMMA NoEntry == UNCHANGED cacheVars => SameBut({Bust}) /\ SameBut({})
BY DEF SameBut, cacheVars

\* A list or a service is in the cache, or the call goes for the rows.
LEMMA ReadServicesKeeps ==
    ASSUME CallsOK, ServicesOK, NEW h \in Handlers, ReadServices(h)
    PROVE  ServiceKept
<1> PICK op, e : /\ (op = "readList" /\ e \in Lists0) \/ (op = "readService" /\ e \in Ones)
                 /\ Hit(op, e) \/ Miss(h, op, e)
  BY DEF ReadServices, Lists0, Ones
<1>1. CASE Hit(op, e)
  <2>1. CallsOK' /\ UNCHANGED handler /\ UNCHANGED <<service, cacheVars>> /\ Within(ServiceOps)
    BY <1>1, AtOnceMoves DEF Hit, ReadServices
  <2>2. SameBut(Lists0 \cup Ones \cup {Bust})
    BY <2>1 DEF SameBut, cacheVars
  <2>3. ServicesOK'
    BY <2>1 DEF ServicesOK, ServiceRows, ServicesAreCurrent, Current, Cached, Dropping, Busy,
       ServiceKnows, RowFor, Offering, cacheVars
  <2> QED BY <2>1, <2>2, <2>3 DEF ServiceKept
<1>2. CASE Miss(h, op, e)
  <2> DEFINE c == [op |-> op, pc |-> "load", entry |-> e, value |-> Null, late |-> FALSE]
  <2>1. Begin(h, c) /\ h \notin Busy /\ UNCHANGED <<service, cacheVars>>
    BY <1>2 DEF Miss, Begin, ReadServices
  <2>2. Plain(c) /\ c.op = op /\ c.pc = "load"
    BY DEF Plain, Readers, EntriesOf
  <2>3. Placed(c) /\ ServiceKnows(c) /\ c.op \in ServiceOps
    BY <2>2 DEF Placed, Reading, ServiceKnows, ServiceWrites, ServiceOps
  <2>4. handler[h].pc # "drop" /\ SameBut({Bust})
    BY <2>1, IdleNone, NoEntry
  <2> HIDE DEF c
  <2> QED BY <2>1, <2>3, <2>4, ServiceMoves
<1> QED
  BY <1>1, <1>2

\* The rows of a list are read.
LEMMA LoadListKeeps ==
    ASSUME CallsOK, ServicesOK, NEW h \in Handlers, LoadList(h)
    PROVE  ServiceKept
<1> DEFINE b == handler[h]
           v == ListOf(b.entry[2])
           c == [b EXCEPT !.pc = "fill", !.value = v]
<1>1. b.op = "readList" /\ b.pc = "load" /\ Goto(h, c) /\ UNCHANGED <<service, cacheVars>>
  BY DEF LoadList, At, Load
<1>2. Reading(b)
  BY <1>1, PlacedAt DEF CallsOK
<1>3. Reading(c) /\ c.op = b.op /\ c.pc = "fill"
  <2> HIDE DEF b, v
  <2> QED BY <1>2, Loaded
<1> HIDE DEF c
<1>4. ServiceKnows(c) /\ Placed(c) /\ c.op \in ServiceOps /\ b.op \in ServiceOps /\ SameBut({Bust})
  BY <1>1, <1>3, NoEntry DEF ServiceKnows, Placed, ServiceOps, ServiceWrites
<1> QED
  BY <1>1, <1>4, ServiceMoves

\* The row of a service is read, or it is not there.
LEMMA LoadServiceKeeps ==
    ASSUME CallsOK, ServicesOK, NEW h \in Handlers, LoadService(h)
    PROVE  ServiceKept
<1> DEFINE b == handler[h]
           s == b.entry[2]
           v == service[s]
           c == [b EXCEPT !.pc = "fill", !.value = v]
<1>1. /\ b.op = "readService" /\ b.pc = "load" /\ UNCHANGED <<service, cacheVars>>
      /\ (s \in Offering /\ Goto(h, c)) \/ Goto(h, Idle)
  BY DEF LoadService, At, Load, Return
<1>2. Reading(b) /\ b.entry \in Ones
  BY <1>1, PlacedAt, EntryOps DEF CallsOK
<1>3. b.op \in ServiceOps /\ SameBut({Bust})
  BY <1>1, NoEntry DEF ServiceOps
<1>4. CASE s \in Offering /\ Goto(h, c)
  <2>1. Reading(c) /\ c.late = b.late /\ c.op = b.op /\ c.pc = "fill" /\ c.entry = b.entry /\ c.value = v
    <3> HIDE DEF b, v
    <3> QED BY <1>2, Loaded
  <2> HIDE DEF c
  <2>2. ASSUME NEW t \in ServiceIds, c.entry = One(t) PROVE t \in DOMAIN service /\ c.value = RowFor(t)
    <3>1. t = s
      BY <2>1, <2>2 DEF One
    <3> QED BY <1>4, <2>1, <3>1 DEF RowFor, Offering
  <2>3. ServiceKnows(c) /\ Placed(c) /\ c.op \in ServiceOps
    BY <1>1, <2>1, <2>2 DEF ServiceKnows, Placed, ServiceOps, ServiceWrites
  <2> QED BY <1>1, <1>3, <1>4, <2>3, ServiceMoves
<1>5. CASE Goto(h, Idle)
  <2>1. Placed(Idle) /\ ServiceKnows(Idle) /\ Idle.op = "none"
    BY IdleNone DEF Placed, ServiceKnows, ServiceWrites
  <2> QED BY <1>1, <1>3, <1>5, <2>1, ServiceMoves
<1> QED
  BY <1>1, <1>4, <1>5

\* A reader fills the entry, late or not.
LEMMA FillServicesKeeps ==
    ASSUME CallsOK, ServicesOK, NEW h \in Handlers, FillServices(h)
    PROVE  ServiceKept
<1> DEFINE c == handler[h]
<1>1. /\ c.op \in {"readList", "readService"} /\ c.pc = "fill" /\ UNCHANGED service
      /\ cache' = With(cache, c.entry, c.value) /\ Goto(h, Idle)
      /\ overtaken' = IF c.late THEN overtaken \cup {c.entry} ELSE overtaken \ {c.entry}
  BY DEF FillServices, Fill, FillThen, AtAny
<1>2. Reading(c) /\ c.entry \in Lists0 \cup Ones /\ (c.entry \in Ones => c.op = "readService")
  BY <1>1, PlacedAt, EntryOps DEF CallsOK
<1>3. Placed(Idle) /\ ServiceKnows(Idle) /\ Idle.op = "none" /\ c.op \in ServiceOps
  BY <1>1, IdleNone DEF Placed, ServiceKnows, ServiceWrites, ServiceOps
<1>4. /\ CallsOK' /\ Within(ServiceOps)
      /\ handler'[h] = Idle /\ \A g \in Handlers \ {h} : handler'[g] = handler[g]
  BY <1>1, <1>3, Moved
<1>5. /\ DOMAIN cache' = DOMAIN cache \cup {c.entry} /\ cache'[c.entry] = c.value
      /\ \A e \in DOMAIN cache \ {c.entry} : cache'[e] = cache[e]
  BY <1>1 DEF With
<1>6. SameBut(Lists0 \cup Ones \cup {Bust})
  BY <1>1, <1>2, <1>5 DEF SameBut
<1>7. \A g \in Handlers : ServiceKnows(handler[g])'
  <2>1. \A g \in Handlers : ServiceKnows(handler'[g])
    BY <1>3, <1>4 DEF ServicesOK
  <2> QED BY <1>1, <2>1 DEF ServiceKnows, RowFor, Offering
<1>8. ASSUME NEW s \in ServiceIds
      PROVE  Current(One(s), RowFor(s))' /\ (Cached(One(s))' => s \in DOMAIN service')
  <2>1. RowFor(s)' = RowFor(s) /\ Current(One(s), RowFor(s))
    BY <1>1, RowForKept, CurrentServices DEF ServicesOK
  <2>2. CASE c.entry = One(s)
    <3>1. s \in DOMAIN service /\ (~c.late => c.value = RowFor(s))
      BY <1>1, <1>2, <2>2 DEF ServicesOK, ServiceKnows, Ones
    <3> QED BY <1>1, <1>5, <2>1, <2>2, <3>1 DEF Current, Cached
  <2>3. CASE c.entry # One(s)
    <3>1. Dropping(One(s)) \subseteq Dropping(One(s))'
      BY <1>1, <1>4 DEF Dropping, Busy
    <3>2. /\ One(s) \in DOMAIN cache' => One(s) \in DOMAIN cache /\ cache'[One(s)] = cache[One(s)]
          /\ One(s) \in overtaken => One(s) \in overtaken'
      BY <1>1, <1>5, <2>3
    <3>3. Current(One(s), RowFor(s))'
      BY <2>1, <3>1, <3>2, OneStays
    <3> QED BY <1>1, <3>2, <3>3 DEF ServicesOK, Cached
  <2> QED BY <2>2, <2>3
<1>9. ServicesAreCurrent'
  BY <1>8, CurrentServices
<1> QED
  BY <1>1, <1>4, <1>6, <1>7, <1>8, <1>9 DEF ServiceKept, ServicesOK, ServiceRows

\* An update, a toggle or a removal has found its service.
LEMMA ServiceCallKeeps ==
    ASSUME CallsOK, ServicesOK, NEW h \in Handlers, ServiceCall(h)
    PROVE  ServiceKept
<1>1. PICK s \in Offering :
        \/ Begin(h, [op |-> "toggleService", pc |-> "write", id |-> s, to |-> ~service[s].active])
        \/ \E op \in {"updateService", "removeService"} : Begin(h, [op |-> op, pc |-> "write", id |-> s])
  BY DEF ServiceCall
<1>2. s \in ServiceIds /\ service[s] \in ServiceRow
  BY DEF Offering, ServicesOK, ServiceRows
<1>3. (~service[s].active) \in BOOLEAN
  <2>1. service[s].active \in BOOLEAN
    BY <1>2 DEF ServiceRow
  <2> QED BY <2>1, Zenon
<1>4. PICK c : /\ Begin(h, c) /\ c.op \in ServiceWrites /\ c.pc = "write" /\ c.id \in ServiceIds
               /\ c.op = "toggleService" => c.to \in BOOLEAN
  <2> DEFINE tog(to) == [op |-> "toggleService", pc |-> "write", id |-> s, to |-> to]
             other(op) == [op |-> op, pc |-> "write", id |-> s]
  <2>1. \A to : tog(to).op = "toggleService" /\ tog(to).pc = "write" /\ tog(to).id = s /\ tog(to).to = to
    OBVIOUS
  <2>2. \A op : other(op).op = op /\ other(op).pc = "write" /\ other(op).id = s
    OBVIOUS
  <2>3. (\E to \in BOOLEAN : Begin(h, tog(to))) \/ \E op \in {"updateService", "removeService"} : Begin(h, other(op))
    BY <1>1, <1>3, Zenon
  <2> HIDE DEF tog, other
  <2> QED BY <1>2, <2>1, <2>2, <2>3 DEF ServiceWrites
<1>5. Placed(c) /\ ServiceKnows(c) /\ c.op \in ServiceOps
  BY <1>4 DEF Placed, Elsewhere, ServiceKnows, ServiceOps, ServiceWrites
<1>6. h \notin Busy /\ handler[h].pc # "drop" /\ UNCHANGED service /\ SameBut({Bust})
  BY <1>4, IdleNone, NoEntry DEF Begin, ServiceCall
<1> QED
  BY <1>4, <1>5, <1>6, ServiceMoves

\* What is left to do after a write.
LEMMA BustingIs ==
    ASSUME NEW s \in ServiceIds, NEW E, E \in {{}, {One(s)}}
    PROVE  LET c == Busting(s, E) IN
           /\ ServiceDrop(c) /\ Placed(c) /\ ServiceKnows(c) /\ c # Idle
           /\ c.op = "writeService" /\ c.pc = "drop" /\ c.entries = E
<1> DEFINE c == Busting(s, E)
<1>1. ServiceDrop(c)
  BY DEF Busting, ServiceDrop
<1>2. c.op = "writeService" /\ c.pc = "drop" /\ c.entries = E
  BY DEF Busting
<1> HIDE DEF c
<1>3. c # Idle /\ Placed(c) /\ ServiceKnows(c)
  BY <1>1, <1>2, IdleNone DEF Placed, Dropper, ServiceKnows, ServiceWrites
<1> QED
  BY <1>1, <1>2, <1>3 DEF c

\* Rows are written: those of S at most.
LEMMA ServiceWritten ==
    ASSUME CallsOK, ServicesOK, NEW h \in Handlers, NEW s \in ServiceIds, NEW E, NEW F,
           E \in {{}, {One(s)}}, F \in {Lists0, Lists0 \cup {One(s)}}, Writes(h, Busting(s, E), F),
           handler[h].op \in ServiceOps \cup {"none"}, handler[h].pc # "drop", UNCHANGED cacheVars,
           ServiceRows', DOMAIN service \subseteq DOMAIN service',
           \A t \in ServiceIds \ {s} : RowFor(t)' = RowFor(t),
           (E = {One(s)} /\ One(s) \in F) \/ s \notin DOMAIN service
    PROVE  ServiceKept
<1> DEFINE next == Busting(s, E)
<1>1. /\ Placed(next) /\ ServiceKnows(next) /\ next # Idle
      /\ next.op = "writeService" /\ next.pc = "drop" /\ next.entries = E
  BY BustingIs
<1> HIDE DEF next
<1>2. \A g \in Passing(F) : handler[g].op \in ServiceOps
  <2>1. \A g \in Passing(F) : Reading(handler[g]) /\ handler[g].entry \in Lists0 \cup Ones
    BY PlacedAt DEF Passing, CallsOK, Ones
  <2> QED BY <2>1, EntryOps DEF ServiceOps
<1>3. CallsOK' /\ Within(ServiceOps) /\ Passed(h, next, F)
  <2>1. {handler[h].op, next.op} \subseteq ServiceOps \cup {"none"}
    BY <1>1 DEF ServiceOps
  <2> QED BY <1>1, <1>2, <2>1, PassedBy DEF next
<1>4. ASSUME NEW t \in ServiceIds, t \in DOMAIN service, One(t) \notin F
      PROVE  RowFor(t)' = RowFor(t)
  BY <1>4 DEF RowFor
<1>5. ASSUME NEW g \in Handlers PROVE ServiceKnows(handler[g])'
  <2>1. CASE g = h
    BY <1>1, <1>3, <2>1 DEF ServiceKnows, Passed, ServiceWrites
  <2>2. CASE g # h /\ g \in Passing(F)
    <3>1. ServiceKnows(handler[g])
      BY DEF ServicesOK
    <3> QED BY <1>3, <2>2, <3>1 DEF ServiceKnows, Passed, Passing, ServiceWrites
  <2>3. CASE g # h /\ g \notin Passing(F)
    <3>1. ServiceKnows(handler[g]) /\ handler'[g] = handler[g]
      BY <1>3, <2>3 DEF ServicesOK, Passed
    <3>2. ASSUME handler[g].op = "readService", handler[g].pc = "fill", NEW t \in ServiceIds,
                 handler[g].entry = One(t)
          PROVE  t \in DOMAIN service' /\ (~handler[g].late => handler[g].value = RowFor(t)')
      <4>1. One(t) \notin F
        BY <2>3, <3>2 DEF Passing
      <4>2. t \in DOMAIN service /\ (~handler[g].late => handler[g].value = RowFor(t))
        BY <3>1, <3>2 DEF ServiceKnows
      <4> QED BY <1>4, <4>1, <4>2
    <3> QED BY <3>1, <3>2 DEF ServiceKnows
  <2> QED BY <2>1, <2>2, <2>3
<1>6. ASSUME NEW t \in ServiceIds PROVE Current(One(t), RowFor(t))'
  <2>1. CASE One(t) \in E
    BY <1>1, <1>3, <2>1 DEF Current, Dropping, Busy, Passed
  <2>2. CASE t \notin DOMAIN service
    BY <2>2 DEF Current, Cached, ServicesOK, cacheVars
  <2>3. CASE One(t) \notin E /\ t \in DOMAIN service
    <3>1. RowFor(t)' = RowFor(t)
      BY <2>3
    <3>2. Dropping(One(t)) \subseteq Dropping(One(t))'
      BY <1>3 DEF Dropping, Passed, Passing, Busy
    <3>3. Current(One(t), RowFor(t))
      BY CurrentServices DEF ServicesOK
    <3> QED BY <3>1, <3>2, <3>3, OneStays DEF cacheVars
  <2> QED BY <2>1, <2>2, <2>3
<1>7. ServicesAreCurrent'
  BY <1>6, CurrentServices
<1>8. SameBut(Lists0 \cup Ones \cup {Bust})
  BY DEF SameBut, cacheVars
<1> QED
  BY <1>3, <1>5, <1>7, <1>8 DEF ServiceKept, ServicesOK, Cached, cacheVars

\* A service is made, and the lists are to be cleared.
LEMMA CreateServiceKeeps ==
    ASSUME CallsOK, ServicesOK, NEW h \in Handlers, CreateService(h)
    PROVE  ServiceKept
<1>1. PICK s \in ServiceIds \ DOMAIN service, row \in ServiceRow :
        /\ service' = With(service, s, row)
        /\ handler' = [g \in Handlers |->
              CASE g = h -> Busting(s, {})
                [] g # h /\ g \in Passing({List(q) : q \in Queries}) -> [handler[g] EXCEPT !.late = TRUE]
                [] OTHER -> handler[g]]
  BY DEF CreateService
<1>2. handler[h] = Idle /\ Asked("createService") /\ UNCHANGED cacheVars
  BY IdleNone DEF CreateService
<1>3. Writes(h, Busting(s, {}), Lists0)
  BY <1>1, <1>2 DEF Writes, Passing, Lists0
<1>4. /\ DOMAIN service' = DOMAIN service \cup {s} /\ service'[s] = row
      /\ \A t \in DOMAIN service : service'[t] = service[t]
  BY <1>1 DEF With
<1>5. ServiceRows'
  BY <1>4 DEF ServicesOK, ServiceRows
<1>6. \A t \in ServiceIds \ {s} : RowFor(t)' = RowFor(t)
  BY <1>4 DEF RowFor, Offering
<1>7. handler[h].op \in ServiceOps \cup {"none"} /\ handler[h].pc # "drop"
  BY <1>2, IdleNone
<1> QED
  BY <1>2, <1>3, <1>4, <1>5, <1>6, <1>7, ServiceWritten

\* The row is written if it is still there, and its entry is to be dropped.
LEMMA WriteServiceKeeps ==
    ASSUME CallsOK, ServicesOK, NEW h \in Handlers, WriteService(h)
    PROVE  ServiceKept
<1> DEFINE c == handler[h]
           s == c.id
<1>1. /\ c.op \in ServiceWrites /\ c.op \in ServiceOps /\ c.pc = "write" /\ s \in ServiceIds
      /\ c.op = "toggleService" => c.to \in BOOLEAN
  BY DEF WriteService, AtAny, ServicesOK, ServiceKnows, ServiceWrites, ServiceOps
<1>2. CASE s \notin Offering
  <2>1. Goto(h, Idle) /\ UNCHANGED <<service, cacheVars>>
    BY <1>2 DEF WriteService, Return
  <2>2. Placed(Idle) /\ ServiceKnows(Idle) /\ Idle.op = "none" /\ SameBut({Bust})
    BY <2>1, IdleNone, NoEntry DEF Placed, ServiceKnows, ServiceWrites
  <2> QED BY <1>1, <2>1, <2>2, ServiceMoves
<1>3. CASE s \in Offering
  <2>1. /\ \/ c.op = "updateService" /\ \E row \in ServiceRow : service' = [service EXCEPT ![s] = row]
           \/ c.op = "toggleService" /\ service' = [service EXCEPT ![s].active = c.to]
           \/ c.op = "removeService" /\ service' = [service EXCEPT ![s] = Null]
        /\ WriteThen(h, Busting(s, {One(s)}), Lists0 \cup {One(s)})
    BY <1>3 DEF WriteService, Dropped, Lists0
  <2>2. service[s] \in ServiceRow /\ s \in DOMAIN service
    BY <1>3 DEF Offering, ServicesOK, ServiceRows
  <2>3. /\ DOMAIN service' = DOMAIN service
        /\ \A t \in DOMAIN service \ {s} : service'[t] = service[t]
        /\ service'[s] \in ServiceRow \cup {Null}
    <3>1. CASE c.op = "updateService"
      <4>1. PICK row \in ServiceRow : service' = [service EXCEPT ![s] = row]
        BY <2>1, <3>1
      <4> QED BY <2>2, <4>1
    <3>2. CASE c.op = "toggleService"
      <4>1. service' = [service EXCEPT ![s].active = c.to] /\ c.to \in BOOLEAN
        BY <1>1, <2>1, <3>2
      <4> QED BY <2>2, <4>1 DEF ServiceRow
    <3>3. CASE c.op = "removeService"
      <4>1. service' = [service EXCEPT ![s] = Null]
        BY <2>1, <3>3
      <4> QED BY <2>2, <4>1
    <3> QED BY <1>1, <3>1, <3>2, <3>3 DEF ServiceWrites
  <2>4. ServiceRows'
    BY <2>3 DEF ServicesOK, ServiceRows
  <2>5. \A t \in ServiceIds \ {s} : RowFor(t)' = RowFor(t)
    BY <2>3 DEF RowFor, Offering
  <2>6. Writes(h, Busting(s, {One(s)}), Lists0 \cup {One(s)}) /\ UNCHANGED cacheVars
    BY <2>1, WriteThenWrites
  <2> QED BY <1>1, <2>3, <2>4, <2>5, <2>6, ServiceWritten
<1> QED
  BY <1>2, <1>3

\* The drop and the counter: what becomes of the call that does them.
LEMMA BothAre ==
    ASSUME NEW c, ServiceDrop(c), NEW d,
           d \in [op : {"writeService"}, pc : {"drop"}, id : {c.id}, entries : {{}, c.entries},
                  bust : {"read", "write", "done"}, busted : {d.busted}]
    PROVE  /\ ServiceDrop(d) /\ Placed(d) /\ ServiceKnows(d)
           /\ d.op = "writeService" /\ d.pc = "drop"
<1>1. ServiceDrop(d)
  BY DEF ServiceDrop
<1> QED
  BY <1>1 DEF Placed, Dropper, ServiceKnows, ServiceWrites

\* The call that is dropping and counting.
LEMMA BothFrom ==
    ASSUME CallsOK, NEW h \in Handlers, At(h, "writeService", "drop")
    PROVE  /\ ServiceDrop(handler[h]) /\ handler[h] # Idle /\ handler[h].op \in ServiceOps
           /\ Placed(Idle) /\ ServiceKnows(Idle) /\ Idle.op = "none"
<1>1. handler[h].op = "writeService" /\ handler[h].pc = "drop"
  BY DEF At
<1>2. Dropper(handler[h])
  BY <1>1, PlacedAt DEF CallsOK
<1>3. ServiceDrop(handler[h])
  BY <1>1, <1>2 DEF Dropper, SettingWrites
<1> QED
  BY <1>1, <1>3, IdleNone DEF Placed, ServiceKnows, ServiceWrites, ServiceOps

\* The entry goes, beside the counter.
LEMMA DropServiceKeeps ==
    ASSUME CallsOK, ServicesOK, NEW h \in Handlers, DropService(h)
    PROVE  ServiceKept
<1> DEFINE c == handler[h]
           E == c.entries
           d == [c EXCEPT !.entries = {}]
           next == IF d.entries = {} /\ d.bust = "done" THEN Idle ELSE d
<1>1. /\ At(h, "writeService", "drop") /\ c.pc = "drop" /\ Goto(h, next) /\ UNCHANGED service
      /\ cache' = Without(E) /\ overtaken' = overtaken \ E
  BY DEF DropService, OnceBoth, Drop, At
<1>2. ServiceDrop(c) /\ c # Idle /\ c.op \in ServiceOps /\ Placed(Idle) /\ ServiceKnows(Idle) /\ Idle.op = "none"
  BY <1>1, BothFrom
<1>3. Placed(d) /\ ServiceKnows(d) /\ d.op = "writeService"
  <2>1. d \in [op : {"writeService"}, pc : {"drop"}, id : {c.id}, entries : {{}, c.entries},
                 bust : {"read", "write", "done"}, busted : {d.busted}]
    BY <1>2 DEF ServiceDrop
  <2> HIDE DEF c, d
  <2> QED BY <1>2, <2>1, BothAre
<1> HIDE DEF d
<1>4. Placed(next) /\ ServiceKnows(next) /\ next.op \in ServiceOps \cup {"none"}
  BY <1>2, <1>3 DEF ServiceOps
<1> HIDE DEF next
<1>5. /\ CallsOK' /\ Within(ServiceOps)
      /\ handler'[h] = next /\ \A g \in Handlers \ {h} : handler'[g] = handler[g]
  BY <1>1, <1>2, <1>4, Moved
<1>6. E \subseteq Ones
  BY <1>2 DEF ServiceDrop, Ones
<1>7. DOMAIN cache' = DOMAIN cache \ E /\ \A e \in DOMAIN cache \ E : cache'[e] = cache[e]
  BY <1>1 DEF Without, Restrict
<1>8. SameBut(Lists0 \cup Ones \cup {Bust})
  BY <1>1, <1>6, <1>7 DEF SameBut
<1>9. \A g \in Handlers : ServiceKnows(handler[g])'
  <2>1. \A g \in Handlers : ServiceKnows(handler'[g])
    BY <1>4, <1>5 DEF ServicesOK
  <2> QED BY <1>1, <2>1 DEF ServiceKnows, RowFor, Offering
<1>10. ASSUME NEW s \in ServiceIds PROVE Current(One(s), RowFor(s))'
  <2>1. CASE One(s) \in E
    BY <1>7, <2>1 DEF Current, Cached
  <2>2. CASE One(s) \notin E
    <3>1. Dropping(One(s)) \subseteq Dropping(One(s))'
      BY <1>5, <2>2 DEF Dropping, Busy
    <3>2. RowFor(s)' = RowFor(s) /\ Current(One(s), RowFor(s))
      BY <1>1, RowForKept, CurrentServices DEF ServicesOK
    <3> QED BY <1>1, <1>7, <2>2, <3>1, <3>2, OneStays
  <2> QED BY <2>1, <2>2
<1>11. ServicesAreCurrent'
  BY <1>10, CurrentServices
<1>12. \A s \in ServiceIds : Cached(One(s))' => s \in DOMAIN service'
  BY <1>1, <1>7 DEF ServicesOK, Cached
<1> QED
  BY <1>1, <1>5, <1>8, <1>9, <1>11, <1>12 DEF ServiceKept, ServicesOK, ServiceRows

\* The counter is read.
LEMMA ReadBustKeeps ==
    ASSUME CallsOK, ServicesOK, NEW h \in Handlers, ReadBust(h)
    PROVE  ServiceKept
<1> DEFINE c == handler[h]
           n == IF Cached(Bust) THEN cache[Bust] ELSE 0
           d == [c EXCEPT !.bust = "write", !.busted = n]
<1>1. At(h, "writeService", "drop") /\ Goto(h, d) /\ UNCHANGED <<service, cacheVars>>
  BY DEF ReadBust
<1>2. ServiceDrop(c) /\ c # Idle /\ c.op \in ServiceOps
  BY <1>1, BothFrom
<1>3. Placed(d) /\ ServiceKnows(d) /\ d.op = "writeService" /\ d.pc = "drop" /\ d.entries = c.entries
  <2>1. /\ d \in [op : {"writeService"}, pc : {"drop"}, id : {c.id}, entries : {{}, c.entries},
                    bust : {"read", "write", "done"}, busted : {d.busted}]
        /\ d.entries = c.entries
    BY <1>2 DEF ServiceDrop
  <2> HIDE DEF c, n, d
  <2> QED BY <1>2, <2>1, BothAre
<1> HIDE DEF d
<1>4. d.op \in ServiceOps /\ SameBut({Bust})
  BY <1>1, <1>3, NoEntry DEF ServiceOps
<1> QED
  BY <1>1, <1>2, <1>3, <1>4, ServiceMoves

\* The counter is written, one higher than it was read.
LEMMA WriteBustKeeps ==
    ASSUME CallsOK, ServicesOK, NEW h \in Handlers, WriteBust(h)
    PROVE  ServiceKept
<1> DEFINE c == handler[h]
           d == [c EXCEPT !.bust = "done"]
           next == IF d.entries = {} /\ d.bust = "done" THEN Idle ELSE d
<1>1. /\ At(h, "writeService", "drop") /\ Goto(h, next) /\ UNCHANGED <<service, overtaken>>
      /\ cache' = With(cache, Bust, c.busted + 1)
  BY DEF WriteBust, OnceBoth
<1>2. ServiceDrop(c) /\ c # Idle /\ c.op \in ServiceOps /\ Placed(Idle) /\ ServiceKnows(Idle) /\ Idle.op = "none"
  BY <1>1, BothFrom
<1>3. Placed(d) /\ ServiceKnows(d) /\ d.op = "writeService" /\ d.pc = "drop" /\ d.entries = c.entries
  <2>1. /\ d \in [op : {"writeService"}, pc : {"drop"}, id : {c.id}, entries : {{}, c.entries},
                    bust : {"read", "write", "done"}, busted : {d.busted}]
        /\ d.entries = c.entries
    BY <1>2 DEF ServiceDrop
  <2> HIDE DEF c, d
  <2> QED BY <1>2, <2>1, BothAre
<1> HIDE DEF d
<1>4. /\ Placed(next) /\ ServiceKnows(next) /\ next.op \in ServiceOps \cup {"none"}
      /\ c.entries # {} => next.pc = "drop" /\ next.entries = c.entries
  BY <1>2, <1>3 DEF ServiceOps
<1> HIDE DEF next
<1>5. SameBut({Bust})
  <2> DEFINE v == c.busted + 1
  <2>1. cache' = With(cache, Bust, v)
    BY <1>1
  <2> HIDE DEF v
  <2>2. DOMAIN cache' = DOMAIN cache \cup {Bust} /\ \A e \in DOMAIN cache \ {Bust} : cache'[e] = cache[e]
    BY <2>1 DEF With
  <2> QED BY <1>1, <2>2 DEF SameBut
<1> QED
  BY <1>1, <1>2, <1>4, <1>5, ServiceMoves

\* Whatever the services do keeps their part.
LEMMA ServiceStepKeeps ==
    ASSUME CallsOK, ServicesOK, NEW h \in Handlers, ServiceSteps(h) \/ ServiceCalls(h)
    PROVE  ServiceKept
BY ReadServicesKeeps, CreateServiceKeeps, ServiceCallKeeps, LoadListKeeps, LoadServiceKeeps,
   FillServicesKeeps, WriteServiceKeeps, DropServiceKeeps, ReadBustKeeps, WriteBustKeeps
   DEF ServiceSteps, ServiceCalls

\* Steps of the other parts.
LEMMA ServicesAside ==
    ASSUME CallsOK, ServicesOK, NEW O, Within(O), O \cap ServiceOps = {},
           NEW E, SameBut(E), E \cap Ones = {}, UNCHANGED service
    PROVE  ServicesOK'
<1>1. ASSUME NEW g \in Handlers PROVE handler'[g] = handler[g] \/ handler'[g].op \notin ServiceOps
  BY DEF Within, ServiceOps, ServiceWrites
<1>2. ASSUME NEW g \in Handlers PROVE ServiceKnows(handler[g])'
  <2>1. ServiceKnows(handler'[g])
    BY <1>1 DEF ServicesOK, ServiceKnows, ServiceOps
  <2> QED BY <2>1 DEF ServiceKnows, RowFor, Offering
<1>3. ASSUME NEW s \in ServiceIds
      PROVE  Current(One(s), RowFor(s))' /\ (Cached(One(s))' => s \in DOMAIN service')
  <2>1. ASSUME NEW g \in Dropping(One(s)) PROVE g \in Dropping(One(s))'
    <3>1. g \in Handlers /\ Dropper(handler[g]) /\ handler[g] # Idle
      BY PlacedAt DEF Dropping, Busy, CallsOK
    <3>2. handler[g].op = "writeService"
      <4>1. One(s) \in handler[g].entries /\ One(s) \notin Views
        BY OnesApart DEF Dropping
      <4> QED BY <3>1, <4>1 DEF Dropper, ServiceDrop
    <3>3. handler'[g] = handler[g]
      BY <3>1, <3>2 DEF Within, ServiceOps
    <3> QED BY <3>1, <3>3 DEF Dropping, Busy
  <2>2. RowFor(s)' = RowFor(s) /\ Current(One(s), RowFor(s))
    BY RowForKept, CurrentServices DEF ServicesOK
  <2>3. One(s) \notin E
    BY DEF Ones
  <2> QED BY <2>1, <2>2, <2>3, OneStays DEF ServicesOK, Cached, SameBut
<1>4. ServicesAreCurrent'
  BY <1>3, CurrentServices
<1> QED
  BY <1>2, <1>3, <1>4 DEF ServicesOK, ServiceRows

\* The end of an entry, and of everything that runs.
LEMMA ServicesExpire ==
    ASSUME CallsOK, ServicesOK, NEW e, Expire(e), UNCHANGED service
    PROVE  ServicesOK'
<1>1. /\ DOMAIN cache' = DOMAIN cache \ {e} /\ \A x \in DOMAIN cache \ {e} : cache'[x] = cache[x]
      /\ overtaken' = overtaken \ {e} /\ UNCHANGED requests
  BY DEF Expire, Drop, Without, Restrict
<1>2. \A s : Dropping(One(s))' = Dropping(One(s))
  BY <1>1 DEF Dropping, Busy, requests
<1>3. ASSUME NEW s \in ServiceIds
      PROVE  Current(One(s), RowFor(s))' /\ (Cached(One(s))' => s \in DOMAIN service')
  <2>1. RowFor(s)' = RowFor(s) /\ Current(One(s), RowFor(s))
    BY RowForKept, CurrentServices DEF ServicesOK
  <2> QED BY <1>1, <1>2, <2>1 DEF ServicesOK, Current, Cached
<1>4. ServicesAreCurrent'
  BY <1>3, CurrentServices
<1>5. \A g \in Handlers : ServiceKnows(handler[g])'
  BY <1>1 DEF ServicesOK, ServiceKnows, RowFor, Offering, requests
<1> QED
  BY <1>3, <1>4, <1>5 DEF ServicesOK, ServiceRows

\* A restart leaves behind what it cut short.
LEMMA ServicesRestart ==
    ASSUME CallsOK, ServicesOK, handler' = [g \in Handlers |-> Idle], CacheRestart, UNCHANGED service
    PROVE  ServicesOK'
<1>1. cache' = cache /\ overtaken' = overtaken \cup CutShort
  BY DEF CacheRestart
<1>2. \A s : Dropping(One(s)) # {} => One(s) \in CutShort
  BY DEF Dropping, CutShort
<1>3. ASSUME NEW s \in ServiceIds PROVE Current(One(s), RowFor(s))'
  <2>1. RowFor(s)' = RowFor(s) /\ Current(One(s), RowFor(s))
    BY RowForKept, CurrentServices DEF ServicesOK
  <2> QED BY <1>1, <1>2, <2>1 DEF Current, Cached
<1>4. ServicesAreCurrent'
  BY <1>3, CurrentServices
<1>5. \A g \in Handlers : ServiceKnows(handler[g])'
  BY IdleNone DEF ServiceKnows, ServiceWrites
<1> QED
  BY <1>1, <1>4, <1>5 DEF ServicesOK, ServiceRows, Cached

-----------------------------------------------------------------------------
(***************************************************************************)
(* Accounts                                                                *)
(***************************************************************************)

\* A new user has a row, a change a user and a value for it; a user who is on the
\* way to the cache may come in, unless the call is late.
AccountKnows(c) ==
    /\ c.op \in {"register", "guestBooks", "seedAdmin"} /\ c.pc = "create" => c.row \in User
    /\ c.op \in UserWrites \cup {"seedAdmin"} /\ c.pc = "write" =>
          /\ c.id \in DOMAIN user
          /\ c.op \in {"setActive", "seedAdmin"} => c.active \in BOOLEAN
          /\ c.op \in {"setRole", "seedAdmin"} => c.role \in Roles
    /\ c.op = "validate" /\ c.pc = "fill" =>
          \A u \in UserIds : c.entry = SignedIn(u) =>
              u \in DOMAIN user /\ (~c.late => user[u].active)

UserRows ==
    /\ DOMAIN user \subseteq UserIds
    /\ \A u \in DOMAIN user : user[u] \in User

AccountsOK ==
    /\ UserRows
    /\ OneUserPerEmail
    /\ \A h \in Handlers : AccountKnows(handler[h])

\* Nobody inactive is put into the cache.
DoorsKept ==
    \A u \in DOMAIN user :
        Cached(SignedIn(u))' /\ ~Cached(SignedIn(u)) /\ ~user[u].active => SignedIn(u) \in overtaken'

AccountKept ==
    /\ CallsOK' /\ Within(AccountOps) /\ SameBut(Doors)
    /\ AccountsOK' /\ DoorsKept

\* The entry of a user is that of no other.
LEMMA DoorsApart ==
    /\ \A u, v : SignedIn(u) = SignedIn(v) => u = v
    /\ \A u \in UserIds : SignedIn(u) \in Doors
BY DEF SignedIn, Doors

\* A step that writes no row and no entry.
LEMMA AccountMoves ==
    ASSUME CallsOK, AccountsOK, NEW h \in Handlers, NEW c,
           (h \notin Busy /\ Begin(h, c)) \/ (handler[h].op \in AccountOps \cup {"none"} /\ Goto(h, c)),
           Placed(c), c.op \in AccountOps \cup {"none"}, AccountKnows(c), UNCHANGED <<user, cacheVars>>
    PROVE  AccountKept
<1>1. /\ CallsOK' /\ Within(AccountOps)
      /\ handler'[h] = c /\ \A g \in Handlers \ {h} : handler'[g] = handler[g]
  BY Moved
<1>2. \A g \in Handlers : AccountKnows(handler[g])'
  <2>1. \A g \in Handlers : AccountKnows(handler'[g])
    BY <1>1 DEF AccountsOK
  <2> QED BY <2>1 DEF AccountKnows
<1>3. SameBut(Doors) /\ DoorsKept
  BY DEF SameBut, DoorsKept, Cached, cacheVars
<1> QED
  BY <1>1, <1>2, <1>3 DEF AccountKept, AccountsOK, UserRows, OneUserPerEmail, Holding

\* A call that ends as it begins.
LEMMA AccountAtOnce ==
    ASSUME CallsOK, AccountsOK, NEW op, AtOnce(op), UNCHANGED <<user, cacheVars>>
    PROVE  AccountKept
<1>1. CallsOK' /\ UNCHANGED handler /\ Within(AccountOps)
  BY AtOnceMoves
<1>2. SameBut(Doors) /\ DoorsKept
  BY <1>1 DEF SameBut, DoorsKept, Cached, cacheVars
<1>3. AccountsOK'
  BY <1>1 DEF AccountsOK, UserRows, OneUserPerEmail, Holding, AccountKnows
<1> QED
  BY <1>1, <1>2, <1>3 DEF AccountKept

\* A call that is to make a user.
LEMMA Creates ==
    ASSUME CallsOK, AccountsOK, NEW h \in Handlers, NEW row \in User,
           NEW op \in {"register", "guestBooks", "seedAdmin"},
           Begin(h, [op |-> op, pc |-> "create", row |-> row]), UNCHANGED <<user, cacheVars>>
    PROVE  AccountKept
<1> DEFINE c == [op |-> op, pc |-> "create", row |-> row]
<1>1. c.op = op /\ c.pc = "create" /\ c.row = row
  OBVIOUS
<1>2. Begin(h, c) /\ h \notin Busy
  BY DEF Begin
<1> HIDE DEF c
<1>3. Placed(c) /\ AccountKnows(c) /\ c.op \in AccountOps
  BY <1>1 DEF Placed, Elsewhere, AccountKnows, AccountOps, UserWrites
<1> QED
  BY <1>2, <1>3, AccountMoves

\* A registration or the booking of an unknown guest has found the e-mail free.
LEMMA NewUsers ==
    ASSUME CallsOK, AccountsOK, NEW h \in Handlers, Register(h) \/ GuestBooks(h)
    PROVE  AccountKept
<1>1. UNCHANGED <<user, cacheVars>>
  BY DEF Register, GuestBooks
<1>2. CASE Register(h)
  <2> PICK row \in User : Begin(h, [op |-> "register", pc |-> "create", row |-> row])
    BY <1>2 DEF Register
  <2> QED BY <1>1, Creates
<1>3. CASE GuestBooks(h)
  <2> PICK email \in Emails :
        \/ Begin(h, [op |-> "guestBooks", pc |-> "create",
                     row |-> [email |-> email, role |-> "USER", active |-> TRUE]])
        \/ AtOnce("guestBooks")
    BY <1>3 DEF GuestBooks
  <2> DEFINE row == [email |-> email, role |-> "USER", active |-> TRUE]
  <2>1. row \in User
    BY AccountsAssumption DEF User
  <2>2. Begin(h, [op |-> "guestBooks", pc |-> "create", row |-> row]) \/ AtOnce("guestBooks")
    OBVIOUS
  <2> HIDE DEF row
  <2> QED BY <1>1, <2>1, <2>2, Creates, AccountAtOnce
<1> QED
  BY <1>2, <1>3

\* A call that is to change a user.
LEMMA Changes ==
    ASSUME CallsOK, AccountsOK, NEW h \in Handlers, NEW c, Begin(h, c),
           c.op \in UserWrites \cup {"seedAdmin"}, c.pc = "write", c.id \in DOMAIN user,
           c.op \in {"setActive", "seedAdmin"} => c.active \in BOOLEAN,
           c.op \in {"setRole", "seedAdmin"} => c.role \in Roles,
           UNCHANGED <<user, cacheVars>>
    PROVE  AccountKept
<1>1. Placed(c) /\ AccountKnows(c) /\ c.op \in AccountOps /\ h \notin Busy
  BY DEF Placed, Elsewhere, AccountKnows, AccountOps, UserWrites, Begin
<1> QED
  BY <1>1, AccountMoves

\* The seed has looked for the administrator.
LEMMA SeedAdminKeeps ==
    ASSUME CallsOK, AccountsOK, NEW h \in Handlers, SeedAdmin(h)
    PROVE  AccountKept
<1>1. UNCHANGED <<user, cacheVars>>
  BY DEF SeedAdmin
<1> PICK email \in Emails :
      \/ Begin(h, [op |-> "seedAdmin", pc |-> "create",
                   row |-> [email |-> email, role |-> "ADMIN", active |-> TRUE]])
      \/ \E u \in Holding(email) :
          Begin(h, [op |-> "seedAdmin", pc |-> "write", id |-> u, role |-> "ADMIN", active |-> TRUE])
  BY DEF SeedAdmin
<1> DEFINE row == [email |-> email, role |-> "ADMIN", active |-> TRUE]
           c(u) == [op |-> "seedAdmin", pc |-> "write", id |-> u, role |-> "ADMIN", active |-> TRUE]
<1>2. row \in User /\ "ADMIN" \in Roles
  BY AccountsAssumption DEF User
<1>3. \A u : /\ c(u).op = "seedAdmin" /\ c(u).pc = "write" /\ c(u).id = u
             /\ c(u).role = "ADMIN" /\ c(u).active = TRUE
  OBVIOUS
<1>4. \/ Begin(h, [op |-> "seedAdmin", pc |-> "create", row |-> row])
      \/ \E u \in DOMAIN user : Begin(h, c(u))
  BY DEF Holding
<1> HIDE DEF row, c
<1>5. CASE Begin(h, [op |-> "seedAdmin", pc |-> "create", row |-> row])
  BY <1>1, <1>2, <1>5, Creates
<1>6. ASSUME NEW u \in DOMAIN user, Begin(h, c(u)) PROVE AccountKept
  <2>1. PICK d : d = c(u)
    OBVIOUS
  <2>2. /\ d.op = "seedAdmin" /\ d.pc = "write" /\ d.id = u /\ d.role \in Roles /\ d.active \in BOOLEAN
        /\ Begin(h, d)
    BY <1>2, <1>3, <1>6, <2>1
  <2>3. d.id \in DOMAIN user
    BY <2>2
  <2> QED BY <1>1, <2>2, <2>3, Changes
<1> QED
  BY <1>4, <1>5, <1>6

\* A change of a user has found it.
LEMMA UserCallKeeps ==
    ASSUME CallsOK, AccountsOK, NEW h \in Handlers, UserCall(h)
    PROVE  AccountKept
<1>1. UNCHANGED <<user, cacheVars>>
  BY DEF UserCall
<1>2. PICK u \in DOMAIN user :
        \/ \E active \in {TRUE, FALSE, ~user[u].active} :
            Begin(h, [op |-> "setActive", pc |-> "write", id |-> u, active |-> active])
        \/ \E role \in Roles :
            Begin(h, [op |-> "setRole", pc |-> "write", id |-> u, role |-> role])
  BY DEF UserCall
<1> DEFINE act(a) == [op |-> "setActive", pc |-> "write", id |-> u, active |-> a]
           rol(r) == [op |-> "setRole", pc |-> "write", id |-> u, role |-> r]
<1>3. \A a : act(a).op = "setActive" /\ act(a).pc = "write" /\ act(a).id = u /\ act(a).active = a
  OBVIOUS
<1>4. \A r : rol(r).op = "setRole" /\ rol(r).pc = "write" /\ rol(r).id = u /\ rol(r).role = r
  OBVIOUS
<1>5. (\E a \in BOOLEAN : Begin(h, act(a))) \/ (\E r \in Roles : Begin(h, rol(r)))
  BY <1>2
<1> HIDE DEF act, rol
<1>6. ASSUME NEW a \in BOOLEAN, Begin(h, act(a)) PROVE AccountKept
  BY <1>1, <1>3, <1>6, Changes DEF UserWrites
<1>7. ASSUME NEW r \in Roles, Begin(h, rol(r)) PROVE AccountKept
  BY <1>1, <1>4, <1>7, Changes DEF UserWrites
<1> QED
  BY <1>5, <1>6, <1>7

\* However two calls overlap, the second of one e-mail makes no user.
LEMMA CreateUserKeeps ==
    ASSUME CallsOK, AccountsOK, NEW h \in Handlers, CreateUser(h)
    PROVE  AccountKept
<1> DEFINE b == handler[h]
           row == b.row
<1>1. /\ b.op \in {"register", "guestBooks", "seedAdmin"} /\ b.pc = "create" /\ Goto(h, Idle)
      /\ UNCHANGED cacheVars
  BY DEF CreateUser, AtAny, Return
<1>2. row \in User
  BY <1>1 DEF AccountsOK, AccountKnows
<1>3. Placed(Idle) /\ AccountKnows(Idle) /\ Idle.op = "none" /\ b.op \in AccountOps
  BY <1>1, IdleNone DEF Placed, AccountKnows, UserWrites, AccountOps
<1>4. CASE UNCHANGED user
  BY <1>1, <1>3, <1>4, AccountMoves
<1>5. CASE Holding(row.email) = {} /\ \E u \in UserIds \ DOMAIN user : user' = With(user, u, row)
  <2> PICK u \in UserIds \ DOMAIN user : user' = With(user, u, row)
    BY <1>5
  <2>1. /\ DOMAIN user' = DOMAIN user \cup {u} /\ user'[u] = row
        /\ \A v \in DOMAIN user : user'[v] = user[v]
    BY DEF With
  <2>2. /\ CallsOK' /\ Within(AccountOps)
        /\ handler'[h] = Idle /\ \A g \in Handlers \ {h} : handler'[g] = handler[g]
    BY <1>1, <1>3, Moved
  <2>3. UserRows' /\ OneUserPerEmail'
    BY <1>2, <1>5, <2>1 DEF AccountsOK, UserRows, OneUserPerEmail, Holding
  <2>4. ASSUME NEW g \in Handlers PROVE AccountKnows(handler[g])'
    <3>1. AccountKnows(handler'[g])
      BY <1>3, <2>2 DEF AccountsOK
    <3> QED BY <2>1, <3>1 DEF AccountKnows
  <2>5. SameBut(Doors) /\ DoorsKept
    BY <1>1 DEF SameBut, DoorsKept, Cached, cacheVars
  <2> QED BY <2>2, <2>3, <2>4, <2>5 DEF AccountKept, AccountsOK
<1> QED
  BY <1>4, <1>5 DEF CreateUser, AdmitsUser

\* What is on the way to the cache is passed by a change of the user.
LEMMA WriteUserKeeps ==
    ASSUME CallsOK, AccountsOK, NEW h \in Handlers, WriteUser(h)
    PROVE  AccountKept
<1> DEFINE c == handler[h]
           u == c.id
           F == {SignedIn(u)}
<1>1. /\ c.op \in UserWrites \cup {"seedAdmin"} /\ c.pc = "write"
      /\ user' = CASE c.op = "setActive" -> [user EXCEPT ![u].active = c.active]
                   [] c.op = "setRole" -> [user EXCEPT ![u].role = c.role]
                   [] c.op = "seedAdmin" -> [user EXCEPT ![u].role = c.role, ![u].active = c.active]
      /\ WriteThen(h, Idle, F)
  BY DEF WriteUser, AtAny, UserWrites
<1>2. /\ u \in DOMAIN user /\ u \in UserIds /\ user[u] \in User
      /\ c.op \in {"setActive", "seedAdmin"} => c.active \in BOOLEAN
      /\ c.op \in {"setRole", "seedAdmin"} => c.role \in Roles
  BY <1>1 DEF AccountsOK, AccountKnows, UserRows
<1>3. /\ DOMAIN user' = DOMAIN user /\ \A v \in DOMAIN user \ {u} : user'[v] = user[v]
      /\ user'[u] \in User /\ user'[u].email = user[u].email
  <2>1. CASE c.op = "setActive"
    <3>1. user' = [user EXCEPT ![u].active = c.active] /\ c.active \in BOOLEAN
      BY <1>1, <1>2, <2>1
    <3> QED BY <1>2, <3>1 DEF User
  <2>2. CASE c.op = "setRole"
    <3>1. user' = [user EXCEPT ![u].role = c.role] /\ c.role \in Roles
      BY <1>1, <1>2, <2>2
    <3> QED BY <1>2, <3>1 DEF User
  <2>3. CASE c.op = "seedAdmin"
    <3> DEFINE a == c.active
               r == c.role
    <3>1. user' = [user EXCEPT ![u].role = r, ![u].active = a] /\ a \in BOOLEAN /\ r \in Roles
      BY <1>1, <1>2, <2>3
    <3> HIDE DEF a, r, c
    <3> QED BY <1>2, <3>1 DEF User
  <2> QED BY <1>1, <2>1, <2>2, <2>3 DEF UserWrites
<1>4. Placed(Idle) /\ AccountKnows(Idle) /\ Idle.op = "none" /\ c.op \in AccountOps
  BY <1>1, IdleNone DEF Placed, AccountKnows, UserWrites, AccountOps
<1>5. \A g \in Passing(F) : handler[g].op \in AccountOps
  <2>1. \A g \in Passing(F) : Reading(handler[g]) /\ handler[g].entry \in Doors
    BY <1>2, PlacedAt, DoorsApart DEF Passing, CallsOK
  <2> QED BY <2>1, EntryOps DEF AccountOps
<1>6. Writes(h, Idle, F) /\ UNCHANGED cacheVars
  BY <1>1, WriteThenWrites
<1>7. CallsOK' /\ Within(AccountOps) /\ Passed(h, Idle, F)
  <2>1. {handler[h].op, Idle.op} \subseteq AccountOps \cup {"none"}
    BY <1>4
  <2> HIDE DEF F
  <2> QED BY <1>4, <1>5, <1>6, <2>1, PassedBy
<1>8. UserRows' /\ OneUserPerEmail'
  BY <1>2, <1>3 DEF AccountsOK, UserRows, OneUserPerEmail, Holding
<1>9. ASSUME NEW g \in Handlers PROVE AccountKnows(handler[g])'
  <2>1. AccountKnows(handler[g])
    BY DEF AccountsOK
  <2>2. CASE g = h
    BY <1>4, <1>7, <2>2 DEF AccountKnows, Passed, UserWrites
  <2>3. CASE g # h /\ g \in Passing(F)
    BY <1>3, <1>7, <2>1, <2>3 DEF AccountKnows, Passed, Passing, UserWrites
  <2>4. CASE g # h /\ g \notin Passing(F)
    <3>1. handler'[g] = handler[g]
      BY <1>7, <2>4 DEF Passed
    <3>2. handler[g].op = "validate" /\ handler[g].pc = "fill" => handler[g].entry # SignedIn(u)
      BY <2>4 DEF Passing
    <3> QED BY <1>3, <2>1, <3>1, <3>2 DEF AccountKnows
  <2> QED BY <2>2, <2>3, <2>4
<1>10. SameBut(Doors) /\ DoorsKept
  BY <1>6 DEF SameBut, DoorsKept, Cached, cacheVars
<1> QED
  BY <1>7, <1>8, <1>9, <1>10 DEF AccountKept, AccountsOK

\* A request comes with a token: the user is in the cache, or is looked up.
LEMMA ValidateKeeps ==
    ASSUME CallsOK, AccountsOK, NEW h \in Handlers, Validate(h)
    PROVE  AccountKept
<1> PICK u \in DOMAIN user : Hit("validate", SignedIn(u)) \/ Miss(h, "validate", SignedIn(u))
  BY DEF Validate
<1>1. SignedIn(u) \in Doors
  BY DoorsApart DEF AccountsOK, UserRows
<1>2. CASE Hit("validate", SignedIn(u))
  BY <1>2, AccountAtOnce DEF Hit, Validate
<1>3. CASE Miss(h, "validate", SignedIn(u))
  <2> DEFINE e == SignedIn(u)
             c == [op |-> "validate", pc |-> "load", entry |-> e, value |-> Null, late |-> FALSE]
  <2>1. Begin(h, c) /\ h \notin Busy /\ UNCHANGED <<user, cacheVars>>
    BY <1>3 DEF Miss, Begin, Validate
  <2>2. Plain(c) /\ c.op = "validate" /\ c.pc = "load"
    <3> HIDE DEF e
    <3> QED BY <1>1 DEF Plain, Readers, EntriesOf, e
  <2> HIDE DEF c
  <2>3. Placed(c) /\ AccountKnows(c) /\ c.op \in AccountOps
    BY <2>2 DEF Placed, Reading, AccountKnows, UserWrites, AccountOps
  <2> QED BY <2>1, <2>3, AccountMoves
<1> QED
  BY <1>2, <1>3

\* An inactive user is not let in, and not put into the cache.
LEMMA LoadUserKeeps ==
    ASSUME CallsOK, AccountsOK, NEW h \in Handlers, LoadUser(h)
    PROVE  AccountKept
<1> DEFINE b == handler[h]
           u == b.entry[2]
           v == Profile(u)
           c == [b EXCEPT !.pc = "fill", !.value = v]
<1>1. /\ b.op = "validate" /\ b.pc = "load" /\ UNCHANGED <<user, cacheVars>>
      /\ (LetsIn(u) /\ Goto(h, c)) \/ Goto(h, Idle)
  BY DEF LoadUser, At, Load, Return
<1>2. Reading(b)
  BY <1>1, PlacedAt DEF CallsOK
<1>3. b.op \in AccountOps
  BY <1>1 DEF AccountOps
<1>4. CASE LetsIn(u) /\ Goto(h, c)
  <2>1. Reading(c) /\ c.late = b.late /\ c.op = b.op /\ c.pc = "fill" /\ c.entry = b.entry
    <3> HIDE DEF b, v
    <3> QED BY <1>2, Loaded
  <2> HIDE DEF c
  <2>2. ASSUME NEW w \in UserIds, c.entry = SignedIn(w) PROVE w \in DOMAIN user /\ user[w].active
    <3>1. w = u
      BY <2>1, <2>2 DEF SignedIn
    <3> QED BY <1>4, <3>1 DEF LetsIn
  <2>3. AccountKnows(c) /\ Placed(c) /\ c.op \in AccountOps
    BY <1>1, <2>1, <2>2 DEF AccountKnows, Placed, AccountOps, UserWrites
  <2> QED BY <1>1, <1>3, <1>4, <2>3, AccountMoves
<1>5. CASE Goto(h, Idle)
  <2>1. Placed(Idle) /\ AccountKnows(Idle) /\ Idle.op = "none"
    BY IdleNone DEF Placed, AccountKnows, UserWrites
  <2> QED BY <1>1, <1>3, <1>5, <2>1, AccountMoves
<1> QED
  BY <1>1, <1>4, <1>5

\* An active one is, though a change may have come between.
LEMMA FillUserKeeps ==
    ASSUME CallsOK, AccountsOK, NEW h \in Handlers, FillUser(h)
    PROVE  AccountKept
<1> DEFINE c == handler[h]
<1>1. /\ c.op = "validate" /\ c.pc = "fill" /\ UNCHANGED user
      /\ cache' = With(cache, c.entry, c.value) /\ Goto(h, Idle)
      /\ overtaken' = IF c.late THEN overtaken \cup {c.entry} ELSE overtaken \ {c.entry}
  BY DEF FillUser, Fill, FillThen, At
<1>2. c.entry \in Doors
  BY <1>1, PlacedAt, EntryOps DEF CallsOK
<1>3. Placed(Idle) /\ AccountKnows(Idle) /\ Idle.op = "none" /\ c.op \in AccountOps
  BY <1>1, IdleNone DEF Placed, AccountKnows, UserWrites, AccountOps
<1>4. /\ CallsOK' /\ Within(AccountOps)
      /\ handler'[h] = Idle /\ \A g \in Handlers \ {h} : handler'[g] = handler[g]
  BY <1>1, <1>3, Moved
<1>5. /\ DOMAIN cache' = DOMAIN cache \cup {c.entry}
      /\ \A e \in DOMAIN cache \ {c.entry} : cache'[e] = cache[e]
  BY <1>1 DEF With
<1>6. SameBut(Doors)
  BY <1>1, <1>2, <1>5 DEF SameBut
<1>7. ASSUME NEW u \in DOMAIN user, Cached(SignedIn(u))', ~Cached(SignedIn(u)), ~user[u].active
      PROVE  SignedIn(u) \in overtaken'
  <2>1. c.entry = SignedIn(u) /\ u \in UserIds
    BY <1>5, <1>7 DEF Cached, AccountsOK, UserRows
  <2>2. c.late
    BY <1>1, <1>7, <2>1 DEF AccountsOK, AccountKnows
  <2> QED BY <1>1, <2>1, <2>2
<1>8. \A g \in Handlers : AccountKnows(handler[g])'
  <2>1. \A g \in Handlers : AccountKnows(handler'[g])
    BY <1>3, <1>4 DEF AccountsOK
  <2> QED BY <1>1, <2>1 DEF AccountKnows
<1> QED
  BY <1>1, <1>4, <1>6, <1>7, <1>8
     DEF AccountKept, AccountsOK, UserRows, OneUserPerEmail, Holding, DoorsKept

\* Whatever the users do keeps their part.
LEMMA AccountStepKeeps ==
    ASSUME CallsOK, AccountsOK, NEW h \in Handlers, AccountSteps(h) \/ AccountCalls(h)
    PROVE  AccountKept
BY NewUsers, SeedAdminKeeps, UserCallKeeps, ValidateKeeps, CreateUserKeeps, WriteUserKeeps,
   LoadUserKeeps, FillUserKeeps DEF AccountSteps, AccountCalls

\* Steps of the other parts.
LEMMA AccountsAside ==
    ASSUME CallsOK, AccountsOK, NEW O, Within(O), O \cap AccountOps = {},
           NEW E, SameBut(E), E \cap Doors = {}, UNCHANGED user
    PROVE  AccountsOK' /\ DoorsKept
<1>1. ASSUME NEW g \in Handlers PROVE handler'[g] = handler[g] \/ handler'[g].op \notin AccountOps
  BY DEF Within, AccountOps, UserWrites
<1>2. ASSUME NEW g \in Handlers PROVE AccountKnows(handler[g])'
  <2>1. AccountKnows(handler'[g])
    BY <1>1 DEF AccountsOK, AccountKnows, AccountOps
  <2> QED BY <2>1 DEF AccountKnows
<1>3. DoorsKept
  BY DoorsApart DEF DoorsKept, SameBut, Cached, AccountsOK, UserRows
<1> QED
  BY <1>2, <1>3 DEF AccountsOK, UserRows, OneUserPerEmail, Holding

\* The end of an entry, and of everything that runs.
LEMMA AccountsExpire ==
    ASSUME AccountsOK, NEW e, Expire(e), UNCHANGED user
    PROVE  AccountsOK' /\ DoorsKept
<1>1. DOMAIN cache' = DOMAIN cache \ {e} /\ UNCHANGED requests
  BY DEF Expire, Drop, Without, Restrict
<1> QED
  BY <1>1 DEF AccountsOK, UserRows, OneUserPerEmail, Holding, AccountKnows, DoorsKept, Cached, requests

\* A restart changes no user.
LEMMA AccountsRestart ==
    ASSUME AccountsOK, handler' = [g \in Handlers |-> Idle], CacheRestart, UNCHANGED user
    PROVE  AccountsOK' /\ DoorsKept
<1>1. \A g \in Handlers : AccountKnows(handler[g])'
  BY IdleNone DEF AccountKnows, UserWrites
<1> QED
  BY <1>1 DEF AccountsOK, UserRows, OneUserPerEmail, Holding, DoorsKept, Cached, CacheRestart

-----------------------------------------------------------------------------
(***************************************************************************)
(* Desk                                                                    *)
(***************************************************************************)

\* What a call at the desk carries; an answer that does not write its time is to a
\* row which has one, or is gone.
DeskKnows(c) ==
    /\ c.op \in {"createInquiry", "createMessage"} => c.owner \in Owners
    /\ c.op \in {"updateInquiry", "removeInquiry"} => c.id \in DOMAIN inquiry
    /\ c.op = "updateInquiry" =>
          /\ c.status \in InquiryStatuses
          /\ c.status = "RESPONDED" /\ ~c.answers /\ c.id \in Inquiries
                => inquiry[c.id].respondedAt # NoAnswer
    /\ c.op \in {"updateMessage", "removeMessage"} => c.id \in DOMAIN message
    /\ c.op = "updateMessage" => c.read \in BOOLEAN

DeskRows ==
    /\ owner \subseteq Owners
    /\ \A i \in DOMAIN inquiry : inquiry[i] = Null \/ (inquiry[i] \in Inquiry /\ inquiry[i].owner \in owner)
    /\ \A m \in DOMAIN message : message[m] = Null \/ (message[m] \in Message /\ message[m].owner \in owner)

DeskOK ==
    /\ DeskRows
    /\ RespondedHasTime
    /\ \A h \in Handlers : DeskKnows(handler[h]) /\ (handler[h].op \in DeskOps => calls > 0)

\* No id is forgotten, no row comes back, and no time is taken away.
TimesKept ==
    /\ DOMAIN inquiry \subseteq DOMAIN inquiry' /\ DOMAIN message \subseteq DOMAIN message'
    /\ \A i \in DOMAIN inquiry :
          i \in Inquiries' => /\ i \in Inquiries
                              /\ inquiry[i].respondedAt # NoAnswer => inquiry'[i].respondedAt # NoAnswer

DeskKept == CallsOK' /\ Within(DeskOps) /\ DeskOK'

\* A call begins.
LEMMA DeskBegins ==
    ASSUME CallsOK, DeskOK, NEW h \in Handlers, NEW c, Begin(h, c), UNCHANGED deskVars,
           c.op \in DeskOps, c.pc \in {"insert", "write", "delete"}, DeskKnows(c)
    PROVE  DeskKept
<1>1. Placed(c) /\ h \notin Busy
  BY DEF Placed, Elsewhere, Begin
<1>2. /\ CallsOK' /\ Within(DeskOps)
      /\ handler'[h] = c /\ \A g \in Handlers \ {h} : handler'[g] = handler[g]
  BY <1>1, Moved
<1>3. calls' > 0
  BY DEF Begin, Asked, CallsOK
<1>4. \A g \in Handlers : DeskKnows(handler[g])'
  <2>1. \A g \in Handlers : DeskKnows(handler'[g])
    BY <1>2 DEF DeskOK
  <2> QED BY <2>1 DEF DeskKnows, Inquiries, deskVars
<1> QED
  BY <1>2, <1>3, <1>4 DEF DeskKept, DeskOK, DeskRows, RespondedHasTime, Inquiries, deskVars

\* A call writes and ends.
LEMMA DeskEnds ==
    ASSUME CallsOK, DeskOK, NEW h \in Handlers, handler[h].op \in DeskOps, Return(h),
           DeskRows', RespondedHasTime', TimesKept
    PROVE  DeskKept
<1>1. Placed(Idle) /\ Idle.op = "none"
  BY IdleNone DEF Placed
<1>2. /\ CallsOK' /\ Within(DeskOps)
      /\ handler'[h] = Idle /\ \A g \in Handlers \ {h} : handler'[g] = handler[g]
  BY <1>1, Moved DEF Return
<1>3. UNCHANGED calls
  BY DEF Return, Goto
<1>4. ASSUME NEW g \in Handlers PROVE DeskKnows(handler[g])'
  <2>1. CASE g = h
    BY <1>1, <1>2, <2>1 DEF DeskKnows
  <2>2. CASE g # h
    BY <1>2, <2>2 DEF DeskOK, DeskKnows, TimesKept
  <2> QED BY <2>1, <2>2
<1> QED
  BY <1>1, <1>2, <1>3, <1>4 DEF DeskKept, DeskOK, DeskOps

\* A call of the desk begins, with what it has looked up.
LEMMA DeskCallKeeps ==
    ASSUME CallsOK, DeskOK, NEW h \in Handlers, DeskCalls(h)
    PROVE  DeskKept
<1>1. UNCHANGED deskVars
  BY DEF DeskCalls, AskOrWrite, UpdateInquiry, UpdateMessage, RemoveRow
<1>2. CASE AskOrWrite(h)
  <2> PICK o \in owner, op \in {"createInquiry", "createMessage"} :
        Begin(h, [op |-> op, pc |-> "insert", owner |-> o])
    BY <1>2 DEF AskOrWrite
  <2> DEFINE c == [op |-> op, pc |-> "insert", owner |-> o]
  <2>1. c.op = op /\ c.pc = "insert" /\ c.owner = o /\ Begin(h, c)
    OBVIOUS
  <2> HIDE DEF c
  <2>2. DeskKnows(c) /\ c.op \in DeskOps
    BY <2>1 DEF DeskKnows, DeskOps, DeskOK, DeskRows
  <2> QED BY <1>1, <2>1, <2>2, DeskBegins
<1>3. CASE UpdateInquiry(h)
  <2> PICK i \in Inquiries, status \in InquiryStatuses :
        Begin(h, [op |-> "updateInquiry", pc |-> "write", id |-> i, status |-> status,
                  answers |-> BecomesAnswered(inquiry[i].status, status)])
    BY <1>3 DEF UpdateInquiry
  <2> DEFINE a == BecomesAnswered(inquiry[i].status, status)
             c == [op |-> "updateInquiry", pc |-> "write", id |-> i, status |-> status, answers |-> a]
  <2>1. /\ c.op = "updateInquiry" /\ c.pc = "write" /\ c.id = i /\ c.status = status /\ c.answers = a
        /\ Begin(h, c)
    OBVIOUS
  <2>2. status = "RESPONDED" /\ ~a => inquiry[i].respondedAt # NoAnswer
    BY DEF BecomesAnswered, DeskOK, RespondedHasTime
  <2> HIDE DEF c, a
  <2>3. DeskKnows(c) /\ c.op \in DeskOps
    BY <2>1, <2>2 DEF DeskKnows, DeskOps, Inquiries
  <2> QED BY <1>1, <2>1, <2>3, DeskBegins
<1>4. CASE UpdateMessage(h)
  <2> PICK m \in Messages, read \in BOOLEAN :
        Begin(h, [op |-> "updateMessage", pc |-> "write", id |-> m, read |-> read])
    BY <1>4 DEF UpdateMessage
  <2> DEFINE c == [op |-> "updateMessage", pc |-> "write", id |-> m, read |-> read]
  <2>1. c.op = "updateMessage" /\ c.pc = "write" /\ c.id = m /\ c.read = read /\ Begin(h, c)
    OBVIOUS
  <2> HIDE DEF c
  <2>2. DeskKnows(c) /\ c.op \in DeskOps
    BY <2>1 DEF DeskKnows, DeskOps, Messages
  <2> QED BY <1>1, <2>1, <2>2, DeskBegins
<1>5. CASE RemoveRow(h)
  <2> PICK op \in {"removeInquiry", "removeMessage"} : \E x :
          /\ Begin(h, [op |-> op, pc |-> "delete", id |-> x])
          /\ op = "removeInquiry" => x \in DOMAIN inquiry
          /\ op = "removeMessage" => x \in DOMAIN message
    BY <1>5 DEF RemoveRow, Inquiries, Messages
  <2>1. PICK x :
          /\ Begin(h, [op |-> op, pc |-> "delete", id |-> x])
          /\ op = "removeInquiry" => x \in DOMAIN inquiry
          /\ op = "removeMessage" => x \in DOMAIN message
    OBVIOUS
  <2> DEFINE c == [op |-> op, pc |-> "delete", id |-> x]
  <2>2. c.op = op /\ c.pc = "delete" /\ c.id = x /\ Begin(h, c)
    BY <2>1
  <2> HIDE DEF c
  <2>3. DeskKnows(c) /\ c.op \in DeskOps
    BY <2>1, <2>2 DEF DeskKnows, DeskOps
  <2> QED BY <1>1, <2>2, <2>3, DeskBegins
<1> QED
  BY <1>2, <1>3, <1>4, <1>5 DEF DeskCalls

\* An inquiry or a message is inserted, if its owner is still there.
LEMMA InsertsKeep ==
    ASSUME CallsOK, DeskOK, NEW h \in Handlers, InsertInquiry(h) \/ InsertMessage(h)
    PROVE  DeskKept
<1> DEFINE o == handler[h].owner
<1>1. CASE InsertInquiry(h)
  <2>1. handler[h].op \in DeskOps /\ Return(h) /\ UNCHANGED <<owner, message>>
    BY <1>1 DEF InsertInquiry, At, DeskOps
  <2>2. CASE UNCHANGED inquiry
    <3>1. DeskRows' /\ RespondedHasTime' /\ TimesKept
      BY <2>1, <2>2 DEF DeskOK, DeskRows, RespondedHasTime, TimesKept, Inquiries
    <3> QED BY <2>1, <3>1, DeskEnds
  <2>3. CASE /\ o \in owner
             /\ \E i \in InquiryIds \ DOMAIN inquiry :
                  inquiry' = With(inquiry, i, [owner |-> o, status |-> "NEW", respondedAt |-> NoAnswer])
    <3> DEFINE row == [owner |-> o, status |-> "NEW", respondedAt |-> NoAnswer]
    <3>1. PICK i \in InquiryIds \ DOMAIN inquiry : inquiry' = With(inquiry, i, row)
      BY <2>3
    <3>2. row \in Inquiry /\ row.owner \in owner /\ row.status = "NEW"
      BY <2>3, CallsAssumption DEF DeskOK, DeskRows, Inquiry, InquiryStatuses, NoAnswer
    <3> HIDE DEF row
    <3>3. /\ DOMAIN inquiry' = DOMAIN inquiry \cup {i} /\ inquiry'[i] = row
          /\ \A j \in DOMAIN inquiry : inquiry'[j] = inquiry[j]
      BY <3>1 DEF With
    <3>4. DeskRows' /\ RespondedHasTime' /\ TimesKept
      BY <2>1, <3>2, <3>3 DEF DeskOK, DeskRows, RespondedHasTime, TimesKept, Inquiries
    <3> QED BY <2>1, <3>4, DeskEnds
  <2> QED BY <1>1, <2>2, <2>3 DEF InsertInquiry
<1>2. CASE InsertMessage(h)
  <2>1. handler[h].op \in DeskOps /\ Return(h) /\ UNCHANGED <<owner, inquiry>>
    BY <1>2 DEF InsertMessage, At, DeskOps
  <2>2. CASE UNCHANGED message
    <3>1. DeskRows' /\ RespondedHasTime' /\ TimesKept
      BY <2>1, <2>2 DEF DeskOK, DeskRows, RespondedHasTime, TimesKept, Inquiries
    <3> QED BY <2>1, <3>1, DeskEnds
  <2>3. CASE /\ o \in owner
             /\ \E m \in MessageIds \ DOMAIN message : message' = With(message, m, [owner |-> o, read |-> FALSE])
    <3> DEFINE row == [owner |-> o, read |-> FALSE]
    <3>1. PICK m \in MessageIds \ DOMAIN message : message' = With(message, m, row)
      BY <2>3
    <3>2. row \in Message /\ row.owner \in owner
      BY <2>3 DEF DeskOK, DeskRows, Message
    <3> HIDE DEF row
    <3>3. /\ DOMAIN message' = DOMAIN message \cup {m} /\ message'[m] = row
          /\ \A j \in DOMAIN message : message'[j] = message[j]
      BY <3>1 DEF With
    <3>4. DeskRows' /\ RespondedHasTime' /\ TimesKept
      BY <2>1, <3>2, <3>3 DEF DeskOK, DeskRows, RespondedHasTime, TimesKept, Inquiries
    <3> QED BY <2>1, <3>4, DeskEnds
  <2> QED BY <1>2, <2>2, <2>3 DEF InsertMessage
<1> QED
  BY <1>1, <1>2

\* An inquiry is written, with the time of the answer if it says RESPONDED.
LEMMA WriteInquiryKeeps ==
    ASSUME CallsOK, DeskOK, NEW h \in Handlers, WriteInquiry(h)
    PROVE  DeskKept
<1> DEFINE c == handler[h]
           i == c.id
           at == IF c.answers THEN calls ELSE inquiry[i].respondedAt
<1>1. c.op = "updateInquiry" /\ Return(h) /\ UNCHANGED <<owner, message>>
  BY DEF WriteInquiry, At
<1>2. /\ c.op \in DeskOps /\ i \in DOMAIN inquiry /\ c.status \in InquiryStatuses
      /\ c.status = "RESPONDED" /\ ~c.answers /\ i \in Inquiries => inquiry[i].respondedAt # NoAnswer
      /\ calls \in 0 .. MaxCalls /\ calls # NoAnswer
  BY <1>1 DEF DeskOK, DeskKnows, DeskOps, CallsOK, NoAnswer
<1>3. CASE i \notin Inquiries
  <2>1. inquiry' = inquiry
    BY <1>3 DEF WriteInquiry
  <2>2. DeskRows' /\ RespondedHasTime' /\ TimesKept
    BY <1>1, <2>1 DEF DeskOK, DeskRows, RespondedHasTime, TimesKept, Inquiries
  <2> QED BY <1>1, <1>2, <2>2, DeskEnds
<1>4. CASE i \in Inquiries
  <2>1. inquiry' = [inquiry EXCEPT ![i].status = c.status,
                                   ![i].respondedAt = IF c.answers THEN calls ELSE @]
    BY <1>4 DEF WriteInquiry
  <2>2. inquiry[i] \in Inquiry /\ inquiry[i].owner \in owner
    BY <1>4 DEF DeskOK, DeskRows, Inquiries
  <2>3. at \in 0 .. MaxCalls /\ (inquiry[i].respondedAt # NoAnswer => at # NoAnswer)
        /\ (c.status = "RESPONDED" => at # NoAnswer)
    BY <1>2, <1>4, <2>2 DEF Inquiry
  <2>4. DOMAIN inquiry' = DOMAIN inquiry /\ \A j \in DOMAIN inquiry \ {i} : inquiry'[j] = inquiry[j]
    BY <2>1
  <2>5. inquiry'[i] = [owner |-> inquiry[i].owner, status |-> c.status, respondedAt |-> at]
    BY <1>2, <2>1, <2>2 DEF Inquiry
  <2> DEFINE row == [owner |-> inquiry[i].owner, status |-> c.status, respondedAt |-> at]
  <2> HIDE DEF at
  <2>6. row \in Inquiry /\ row.owner \in owner /\ row.status = c.status /\ row.respondedAt = at
    BY <1>2, <2>2, <2>3 DEF Inquiry
  <2>7. inquiry'[i] = row
    BY <2>5
  <2> HIDE DEF row
  <2>8. DeskRows' /\ RespondedHasTime' /\ TimesKept
    BY <1>1, <1>4, <2>3, <2>4, <2>6, <2>7 DEF DeskOK, DeskRows, RespondedHasTime, TimesKept, Inquiries
  <2> QED BY <1>1, <1>2, <2>8, DeskEnds
<1> QED
  BY <1>3, <1>4

\* A message is marked as read or unread, if it is still there.
LEMMA WriteMessageKeeps ==
    ASSUME CallsOK, DeskOK, NEW h \in Handlers, WriteMessage(h)
    PROVE  DeskKept
<1> DEFINE c == handler[h]
           m == c.id
<1>1. c.op = "updateMessage" /\ Return(h) /\ UNCHANGED <<owner, inquiry>>
  BY DEF WriteMessage, At
<1>2. c.op \in DeskOps /\ m \in DOMAIN message /\ c.read \in BOOLEAN
  BY <1>1 DEF DeskOK, DeskKnows, DeskOps
<1>3. /\ DOMAIN message' = DOMAIN message /\ \A n \in DOMAIN message \ {m} : message'[n] = message[n]
      /\ message'[m] = Null \/ (message'[m] \in Message /\ message'[m].owner \in owner)
  <2>1. CASE m \in Messages
    <3>1. message' = [message EXCEPT ![m].read = c.read]
      BY <2>1 DEF WriteMessage
    <3>2. message[m] \in Message /\ message[m].owner \in owner
      BY <2>1 DEF DeskOK, DeskRows, Messages
    <3> QED BY <1>2, <3>1, <3>2 DEF Message
  <2>2. CASE m \notin Messages
    <3>1. message' = message /\ message[m] = Null
      BY <1>2, <2>2 DEF WriteMessage, Messages
    <3> QED BY <3>1
  <2> QED BY <2>1, <2>2
<1>4. DeskRows' /\ RespondedHasTime' /\ TimesKept
  BY <1>1, <1>3 DEF DeskOK, DeskRows, RespondedHasTime, TimesKept, Inquiries
<1> QED
  BY <1>1, <1>2, <1>4, DeskEnds

\* An inquiry or a message goes, if it is still there.
LEMMA DeleteRowKeeps ==
    ASSUME CallsOK, DeskOK, NEW h \in Handlers, DeleteRow(h)
    PROVE  DeskKept
<1> DEFINE x == handler[h].id
<1>1. handler[h].op \in DeskOps /\ Return(h) /\ UNCHANGED owner
  BY DEF DeleteRow, At, DeskOps
<1>2. \/ inquiry' = [inquiry EXCEPT ![x] = Null] /\ UNCHANGED message
      \/ message' = [message EXCEPT ![x] = Null] /\ UNCHANGED inquiry
  BY DEF DeleteRow
<1>3. DeskRows' /\ RespondedHasTime' /\ TimesKept
  <2> HIDE DEF x
  <2> QED BY <1>1, <1>2 DEF DeskOK, DeskRows, RespondedHasTime, TimesKept, Inquiries
<1> QED
  BY <1>1, <1>3, DeskEnds

\* Rows go with the property or the booking they belong to.
LEMMA DeleteOwnerKeeps ==
    ASSUME CallsOK, DeskOK, NEW o \in Owners, DeleteOwner(o)
    PROVE  DeskKept
<1>1. /\ CallsOK' /\ Within(DeskOps) /\ UNCHANGED handler /\ calls' >= calls
      /\ calls \in Nat /\ calls' \in Nat
  BY AtOnceMoves DEF DeleteOwner, Within, CallsOK
<1>2. /\ owner' = owner \ {o}
      /\ DOMAIN inquiry' = DOMAIN inquiry /\ DOMAIN message' = DOMAIN message
      /\ \A i \in DOMAIN inquiry : inquiry'[i] = WithoutOwner(inquiry[i], o)
      /\ \A m \in DOMAIN message : message'[m] = WithoutOwner(message[m], o)
  BY DEF DeleteOwner
<1>3. /\ \A i \in DOMAIN inquiry : inquiry'[i] = Null \/ (inquiry'[i] = inquiry[i] /\ inquiry[i].owner # o)
      /\ \A m \in DOMAIN message : message'[m] = Null \/ (message'[m] = message[m] /\ message[m].owner # o)
  BY <1>2 DEF WithoutOwner
<1>4. DeskRows' /\ RespondedHasTime' /\ TimesKept
  BY <1>2, <1>3 DEF DeskOK, DeskRows, RespondedHasTime, TimesKept, Inquiries
<1>5. \A g \in Handlers : DeskKnows(handler[g])' /\ (handler'[g].op \in DeskOps => calls' > 0)
  <2>1. \A g \in Handlers : DeskKnows(handler'[g]) /\ (handler'[g].op \in DeskOps => calls > 0)
    BY <1>1 DEF DeskOK
  <2>2. calls > 0 => calls' > 0
    BY <1>1
  <2> QED BY <1>4, <2>1, <2>2 DEF DeskKnows, TimesKept
<1> QED
  BY <1>1, <1>4, <1>5 DEF DeskKept, DeskOK

\* Whatever the desk does keeps its part.
LEMMA DeskStepKeeps ==
    ASSUME CallsOK, DeskOK,
           (\E h \in Handlers : DeskSteps(h) \/ DeskCalls(h)) \/ DeskEdits
    PROVE  DeskKept
BY DeskCallKeeps, InsertsKeep, WriteInquiryKeeps, WriteMessageKeeps, DeleteRowKeeps, DeleteOwnerKeeps
   DEF DeskSteps, DeskEdits

\* Steps of the other parts, and the end of everything that runs.
LEMMA DeskAside ==
    ASSUME CallsOK, CallsOK', DeskOK, NEW O, Within(O), O \cap DeskOps = {}, UNCHANGED deskVars
    PROVE  DeskOK'
<1>1. \A g \in Handlers : handler'[g] = handler[g] \/ handler'[g].op \notin DeskOps
  BY DEF Within, DeskOps
<1>2. calls' >= calls /\ calls \in Nat /\ calls' \in Nat
  BY DEF Within, CallsOK
<1>3. ASSUME NEW g \in Handlers PROVE DeskKnows(handler[g])'
  <2>1. DeskKnows(handler'[g])
    BY <1>1 DEF DeskOK, DeskKnows, DeskOps
  <2> QED BY <2>1 DEF DeskKnows, Inquiries, deskVars
<1>4. calls > 0 => calls' > 0
  BY <1>2
<1> QED
  BY <1>1, <1>3, <1>4 DEF DeskOK, DeskRows, RespondedHasTime, Inquiries, deskVars

\* A restart changes no row of the desk.
LEMMA DeskRestart ==
    ASSUME DeskOK, handler' = [g \in Handlers |-> Idle], UNCHANGED deskVars
    PROVE  DeskOK'
<1>1. \A g \in Handlers : DeskKnows(handler[g])' /\ handler'[g].op \notin DeskOps
  BY IdleNone DEF DeskKnows, DeskOps
<1> QED
  BY <1>1 DEF DeskOK, DeskRows, RespondedHasTime, Inquiries, deskVars

-----------------------------------------------------------------------------
(***************************************************************************)
(* Publishing                                                              *)
(***************************************************************************)

\* What a call carries: an upload that makes its row has its file at the host, and
\* an update that is not late leaves a published article published.
PublishingKnows(c) ==
    /\ c.op \in {"createContent", "updateContent"} => c.place \in Places
    /\ c.op = "upload" /\ c.pc = "row" => c.id \in MediaIds /\ c.id \in file \cup halfRemoved
    /\ c.op = "removeMedia" => c \in [op : {"removeMedia"}, pc : {"host", "row"}, id : MediaIds]
    /\ c.op = "updateArticle" =>
          /\ c \in [op : {"updateArticle"}, pc : {"write"}, id : DOMAIN article, to : BOOLEAN, late : BOOLEAN]
          /\ ~c.late /\ Published(c.id) => c.to
    /\ c.op = "publishArticle" => c.to = TRUE

PublishingRows ==
    /\ \A c \in DOMAIN content : content[c] \in Places \cup {Null}
    /\ \A c, d \in Contents : content[c] = content[d] => c = d
    /\ media \subseteq MediaIds /\ file \subseteq MediaIds /\ halfRemoved \subseteq MediaIds
    /\ DOMAIN article \subseteq ArticleIds
    /\ \A a \in DOMAIN article : article[a] \in BOOLEAN \cup {Null}

PublishingOK ==
    /\ PublishingRows
    /\ MediaRowsHaveFiles
    /\ \A h \in Handlers : PublishingKnows(handler[h])

\* No published article is taken off by a call that had read it as such.
PublishedStep ==
    \A a \in Articles :
        Published(a) /\ a \in Articles' /\ ~Published(a)' =>
            \E h \in Handlers : At(h, "updateArticle", "write") /\ handler[h].id = a /\ handler[h].late

PublishingKept == CallsOK' /\ Within(PublishingOps) /\ PublishingOK' /\ PublishedStep

\* No file is lost without a trace, and no article appears.
TracesKept ==
    /\ file \cup halfRemoved \subseteq file' \cup halfRemoved'
    /\ DOMAIN article \subseteq DOMAIN article'
    /\ \A a \in DOMAIN article : Published(a)' => Published(a)

\* What a call knows remains true.
LEMMA KnowsStill ==
    ASSUME NEW g \in Handlers, PublishingKnows(handler[g]), TracesKept, handler'[g] = handler[g]
    PROVE  PublishingKnows(handler[g])'
<1> DEFINE c == handler[g]
<1>1. /\ c.op \in {"createContent", "updateContent"} => c.place \in Places
      /\ c.op = "upload" /\ c.pc = "row" => c.id \in MediaIds /\ c.id \in file' \cup halfRemoved'
      /\ c.op = "removeMedia" => c \in [op : {"removeMedia"}, pc : {"host", "row"}, id : MediaIds]
      /\ c.op = "publishArticle" => c.to = TRUE
  BY DEF PublishingKnows, TracesKept
<1>2. ASSUME c.op = "updateArticle"
      PROVE  /\ c \in [op : {"updateArticle"}, pc : {"write"}, id : DOMAIN article', to : BOOLEAN, late : BOOLEAN]
             /\ ~c.late /\ Published(c.id)' => c.to
  <2>1. /\ c \in [op : {"updateArticle"}, pc : {"write"}, id : DOMAIN article, to : BOOLEAN, late : BOOLEAN]
        /\ ~c.late /\ Published(c.id) => c.to
    BY <1>2 DEF PublishingKnows
  <2> QED BY <2>1 DEF TracesKept
<1> QED
  BY <1>1, <1>2 DEF PublishingKnows

\* A call begins.
LEMMA PublishingBegins ==
    ASSUME CallsOK, PublishingOK, NEW h \in Handlers, NEW c, Begin(h, c), UNCHANGED publishingVars,
           c.op \in PublishingOps, c.pc \in {"insert", "write", "delete", "file", "host"}, PublishingKnows(c)
    PROVE  PublishingKept
<1>1. Placed(c) /\ h \notin Busy
  BY DEF Placed, Elsewhere, Begin
<1>2. /\ CallsOK' /\ Within(PublishingOps)
      /\ handler'[h] = c /\ \A g \in Handlers \ {h} : handler'[g] = handler[g]
  BY <1>1, Moved
<1>3. \A g \in Handlers : PublishingKnows(handler[g])'
  <2>1. \A g \in Handlers : PublishingKnows(handler'[g])
    BY <1>2 DEF PublishingOK
  <2> QED BY <2>1 DEF PublishingKnows, Published, Articles, publishingVars
<1>4. PublishedStep
  BY DEF PublishedStep, Published, Articles, publishingVars
<1> QED
  BY <1>2, <1>3, <1>4
     DEF PublishingKept, PublishingOK, PublishingRows, MediaRowsHaveFiles, Contents, publishingVars

\* A call goes on or ends.
LEMMA PublishingMoves ==
    ASSUME CallsOK, PublishingOK, NEW h \in Handlers, NEW next, Goto(h, next),
           handler[h].op \in PublishingOps, Placed(next), next.op \in PublishingOps \cup {"none"},
           handler'[h] = next => PublishingKnows(handler[h])',
           PublishingRows', MediaRowsHaveFiles', TracesKept, PublishedStep
    PROVE  PublishingKept
<1>1. /\ CallsOK' /\ Within(PublishingOps)
      /\ handler'[h] = next /\ \A g \in Handlers \ {h} : handler'[g] = handler[g]
  BY Moved
<1>2. ASSUME NEW g \in Handlers PROVE PublishingKnows(handler[g])'
  <2>1. CASE g = h
    BY <1>1, <2>1
  <2>2. CASE g # h
    BY <1>1, <2>2, KnowsStill DEF PublishingOK
  <2> QED BY <2>1, <2>2
<1> QED
  BY <1>1, <1>2 DEF PublishingKept, PublishingOK

\* A call writes and ends, articles apart.
LEMMA PublishingEnds ==
    ASSUME CallsOK, PublishingOK, NEW h \in Handlers, handler[h].op \in PublishingOps, Return(h),
           PublishingRows', MediaRowsHaveFiles', UNCHANGED <<article, file, halfRemoved>>
    PROVE  PublishingKept
<1>1. Placed(Idle) /\ Idle.op = "none" /\ Goto(h, Idle)
  BY IdleNone DEF Placed, Return
<1>2. handler'[h] = Idle => PublishingKnows(handler[h])'
  BY <1>1 DEF PublishingKnows
<1>3. TracesKept /\ PublishedStep
  BY DEF TracesKept, PublishedStep, Published, Articles
<1> QED
  BY <1>1, <1>2, <1>3, PublishingMoves

\* A call on a content has found it, or its place free.
LEMMA ContentCallKeeps ==
    ASSUME CallsOK, PublishingOK, NEW h \in Handlers, ContentCall(h) \/ AddMedia(h)
    PROVE  PublishingKept
<1>1. UNCHANGED publishingVars
  BY DEF ContentCall, AddMedia
<1> DEFINE new(p) == [op |-> "createContent", pc |-> "write", place |-> p]
           upd(x, p) == [op |-> "updateContent", pc |-> "write", id |-> x, place |-> p]
           rem(x) == [op |-> "removeContent", pc |-> "write", id |-> x]
           add(l) == [op |-> "addMedia", pc |-> "insert", link |-> l]
<1>2. \A p : new(p).op = "createContent" /\ new(p).pc = "write" /\ new(p).place = p
  OBVIOUS
<1>3. \A x, p : upd(x, p).op = "updateContent" /\ upd(x, p).pc = "write" /\ upd(x, p).place = p
  OBVIOUS
<1>4. \A x : rem(x).op = "removeContent" /\ rem(x).pc = "write"
  OBVIOUS
<1>5. \A l : add(l).op = "addMedia" /\ add(l).pc = "insert"
  OBVIOUS
<1>6. \/ \E p \in Places : Begin(h, new(p))
      \/ \E x, p : p \in Places /\ Begin(h, upd(x, p))
      \/ \E x : Begin(h, rem(x))
      \/ \E l : Begin(h, add(l))
  BY DEF ContentCall, AddMedia
<1> HIDE DEF new, upd, rem, add
<1>7. \E c : /\ Begin(h, c)
             /\ \/ c.op \in {"createContent", "updateContent"} /\ c.place \in Places /\ c.pc = "write"
                \/ c.op \in {"removeContent", "addMedia"} /\ c.pc \in {"write", "insert"}
  BY <1>2, <1>3, <1>4, <1>5, <1>6
<1> PICK c : /\ Begin(h, c)
             /\ \/ c.op \in {"createContent", "updateContent"} /\ c.place \in Places /\ c.pc = "write"
                \/ c.op \in {"removeContent", "addMedia"} /\ c.pc \in {"write", "insert"}
  BY <1>7
<1>8. PublishingKnows(c) /\ c.op \in PublishingOps /\ c.pc \in {"insert", "write"}
  BY DEF PublishingKnows, PublishingOps
<1> QED
  BY <1>1, <1>8, PublishingBegins

\* An upload begins, or a removal that has found its row.
LEMMA MediaCallKeeps ==
    ASSUME CallsOK, PublishingOK, NEW h \in Handlers, UploadMedia(h) \/ RemoveMedia(h)
    PROVE  PublishingKept
<1>1. UNCHANGED publishingVars
  BY DEF UploadMedia, RemoveMedia
<1>2. CASE UploadMedia(h)
  <2> DEFINE c == [op |-> "upload", pc |-> "file"]
  <2>1. c.op = "upload" /\ c.pc = "file" /\ Begin(h, c)
    BY <1>2 DEF UploadMedia
  <2> HIDE DEF c
  <2>2. PublishingKnows(c) /\ c.op \in PublishingOps
    BY <2>1 DEF PublishingKnows, PublishingOps
  <2> QED BY <1>1, <2>1, <2>2, PublishingBegins
<1>3. CASE RemoveMedia(h)
  <2> PICK m \in media : Begin(h, [op |-> "removeMedia", pc |-> "host", id |-> m])
    BY <1>3 DEF RemoveMedia
  <2> DEFINE c == [op |-> "removeMedia", pc |-> "host", id |-> m]
  <2>1. /\ c \in [op : {"removeMedia"}, pc : {"host", "row"}, id : MediaIds]
        /\ c.op = "removeMedia" /\ c.pc = "host" /\ Begin(h, c)
    BY DEF PublishingOK, PublishingRows
  <2> HIDE DEF c
  <2>2. PublishingKnows(c) /\ c.op \in PublishingOps
    BY <2>1 DEF PublishingKnows, PublishingOps
  <2> QED BY <1>1, <2>1, <2>2, PublishingBegins
<1> QED
  BY <1>2, <1>3

\* A call on an article begins; an update has read whether it is published.
LEMMA ArticleCallKeeps ==
    ASSUME CallsOK, PublishingOK, NEW h \in Handlers, ArticleCall(h)
    PROVE  PublishingKept
<1>1. UNCHANGED publishingVars
  BY DEF ArticleCall
<1> PICK a \in Articles :
      \/ \E sent \in BOOLEAN :
          Begin(h, [op |-> "updateArticle", pc |-> "write", id |-> a,
                    to |-> PublishedAfter(sent, article[a]), late |-> FALSE])
      \/ Begin(h, [op |-> "publishArticle", pc |-> "write", id |-> a, to |-> TRUE, late |-> FALSE])
      \/ Begin(h, [op |-> "removeArticle", pc |-> "delete", id |-> a])
  BY DEF ArticleCall
<1>2. a \in DOMAIN article /\ article[a] \in BOOLEAN
  BY DEF Articles, PublishingOK, PublishingRows
<1> DEFINE upd(to) == [op |-> "updateArticle", pc |-> "write", id |-> a, to |-> to, late |-> FALSE]
           pub == [op |-> "publishArticle", pc |-> "write", id |-> a, to |-> TRUE, late |-> FALSE]
           rem == [op |-> "removeArticle", pc |-> "delete", id |-> a]
<1>3. \A to \in BOOLEAN :
        /\ upd(to) \in [op : {"updateArticle"}, pc : {"write"}, id : DOMAIN article, to : BOOLEAN, late : BOOLEAN]
        /\ upd(to).op = "updateArticle" /\ upd(to).pc = "write" /\ upd(to).id = a /\ upd(to).to = to
  BY <1>2
<1>4. pub.op = "publishArticle" /\ pub.pc = "write" /\ pub.to = TRUE
  OBVIOUS
<1>5. rem.op = "removeArticle" /\ rem.pc = "delete"
  OBVIOUS
<1>6. ASSUME NEW sent \in BOOLEAN
      PROVE  /\ PublishedAfter(sent, article[a]) \in BOOLEAN
             /\ Published(a) => PublishedAfter(sent, article[a])
  BY <1>2 DEF PublishedAfter, Published
<1>7. \/ \E to \in BOOLEAN : (Published(a) => to) /\ Begin(h, upd(to))
      \/ Begin(h, pub) \/ Begin(h, rem)
  BY <1>6
<1> HIDE DEF upd, pub, rem
<1>8. ASSUME NEW to \in BOOLEAN, Published(a) => to, Begin(h, upd(to)) PROVE PublishingKept
  <2>1. PICK c : c = upd(to)
    OBVIOUS
  <2>2. PublishingKnows(c) /\ c.op \in PublishingOps /\ c.pc = "write" /\ Begin(h, c)
    BY <1>3, <1>8, <2>1 DEF PublishingKnows, PublishingOps
  <2> QED BY <1>1, <2>2, PublishingBegins
<1>9. CASE Begin(h, pub)
  <2>1. PublishingKnows(pub) /\ pub.op \in PublishingOps /\ pub.pc = "write"
    BY <1>4 DEF PublishingKnows, PublishingOps
  <2> QED BY <1>1, <1>9, <2>1, PublishingBegins
<1>10. CASE Begin(h, rem)
  <2>1. PublishingKnows(rem) /\ rem.op \in PublishingOps /\ rem.pc = "delete"
    BY <1>5 DEF PublishingKnows, PublishingOps
  <2> QED BY <1>1, <1>10, <2>1, PublishingBegins
<1> QED
  BY <1>7, <1>8, <1>9, <1>10

\* A content is written where no other is, or not at all.
LEMMA WriteContentKeeps ==
    ASSUME CallsOK, PublishingOK, NEW h \in Handlers, WriteContent(h)
    PROVE  PublishingKept
<1> DEFINE c == handler[h]
<1>1. /\ c.op \in {"createContent", "updateContent", "removeContent"} /\ Return(h)
      /\ UNCHANGED <<media, file, article, halfRemoved>>
  BY DEF WriteContent, AtAny
<1>2. c.op \in PublishingOps
  BY <1>1 DEF PublishingOps
<1>3. /\ \A x \in DOMAIN content : content[x] \in Places \cup {Null}
      /\ \A x, y \in Contents : content[x] = content[y] => x = y
      /\ \A l \in link : l[1] \in Contents /\ l[2] \in media
  BY DEF PublishingOK, PublishingRows, MediaRowsHaveFiles
<1>4. SUFFICES /\ \A x \in DOMAIN content' : content'[x] \in Places \cup {Null}
               /\ \A x, y \in Contents' : content'[x] = content'[y] => x = y
               /\ \A l \in link' : l[1] \in Contents' /\ l[2] \in media
  <2>1. PublishingRows' /\ MediaRowsHaveFiles'
    BY <1>1, <1>4 DEF PublishingOK, PublishingRows, MediaRowsHaveFiles
  <2> QED BY <1>1, <1>2, <2>1, PublishingEnds
<1>5. CASE /\ c.op = "createContent" /\ Taken(c.place) = {}
           /\ \E new \in ContentIds \ DOMAIN content : content' = With(content, new, c.place)
           /\ UNCHANGED link
  <2> DEFINE p == c.place
  <2> PICK new \in ContentIds \ DOMAIN content : content' = With(content, new, p)
    BY <1>5
  <2>1. p \in Places
    BY <1>5 DEF PublishingOK, PublishingKnows
  <2> HIDE DEF p
  <2>2. /\ DOMAIN content' = DOMAIN content \cup {new} /\ content'[new] = p
        /\ \A x \in DOMAIN content : content'[x] = content[x]
    BY DEF With
  <2>3. \A x \in Contents : content[x] # p
    BY <1>5 DEF Taken, p
  <2>4. Contents' = Contents \cup {new}
    BY <2>1, <2>2, PublishingAssumption DEF Contents
  <2> QED BY <1>3, <1>5, <2>1, <2>2, <2>3, <2>4 DEF Contents
<1>6. CASE /\ c.op = "updateContent" /\ c.id \in Contents /\ Taken(c.place) \subseteq {c.id}
           /\ content' = [content EXCEPT ![c.id] = c.place]
           /\ UNCHANGED link
  <2>1. c.place \in Places
    BY <1>6 DEF PublishingOK, PublishingKnows
  <2>2. \A x \in Contents \ {c.id} : content[x] # c.place
    BY <1>6 DEF Taken
  <2>3. /\ DOMAIN content' = DOMAIN content /\ content'[c.id] = c.place
        /\ \A x \in DOMAIN content \ {c.id} : content'[x] = content[x]
    BY <1>6 DEF Contents
  <2>4. Contents' = Contents
    BY <1>6, <2>1, <2>3, PublishingAssumption DEF Contents
  <2> QED BY <1>3, <1>6, <2>1, <2>2, <2>3, <2>4 DEF Contents
<1>7. CASE /\ c.op = "removeContent" /\ c.id \in Contents
           /\ content' = [content EXCEPT ![c.id] = Null]
           /\ link' = {l \in link : l[1] # c.id}
  <2>1. /\ DOMAIN content' = DOMAIN content /\ content'[c.id] = Null
        /\ \A x \in DOMAIN content \ {c.id} : content'[x] = content[x]
    BY <1>7 DEF Contents
  <2>2. Contents' = Contents \ {c.id}
    BY <2>1 DEF Contents
  <2> QED BY <1>3, <1>7, <2>1, <2>2 DEF Contents
<1>8. CASE UNCHANGED <<content, link>>
  BY <1>3, <1>8 DEF Contents
<1> QED
  BY <1>5, <1>6, <1>7, <1>8 DEF WriteContent

\* A link is made between a content and a row of the media that are both still there.
LEMMA LinksKeep ==
    ASSUME CallsOK, PublishingOK, NEW h \in Handlers, InsertLink(h)
    PROVE  PublishingKept
<1>1. /\ handler[h].op \in PublishingOps /\ Return(h)
      /\ UNCHANGED <<content, media, file, article, halfRemoved>>
  BY DEF InsertLink, At, PublishingOps
<1>2. link' = link \/ \E l : l[1] \in Contents /\ l[2] \in media /\ link' = link \cup {l}
  BY DEF InsertLink
<1>3. PublishingRows' /\ MediaRowsHaveFiles'
  BY <1>1, <1>2 DEF PublishingOK, PublishingRows, MediaRowsHaveFiles, Contents
<1> QED
  BY <1>1, <1>3, PublishingEnds

\* The file is put at the host before its row is written.
LEMMA UploadFileKeeps ==
    ASSUME CallsOK, PublishingOK, NEW h \in Handlers, UploadFile(h)
    PROVE  PublishingKept
<1> PICK took \in BOOLEAN, m \in Unused :
      /\ file' = IF took THEN file \cup {m} ELSE file
      /\ IF Proceeds(took) THEN Goto(h, [op |-> "upload", pc |-> "row", id |-> m]) ELSE Return(h)
  BY DEF UploadFile
<1> DEFINE c == [op |-> "upload", pc |-> "row", id |-> m]
           next == IF took THEN c ELSE Idle
<1>1. /\ handler[h].op \in PublishingOps /\ Goto(h, next)
      /\ UNCHANGED <<content, media, link, article, halfRemoved>> /\ m \in MediaIds
  BY DEF UploadFile, At, PublishingOps, Proceeds, Return, Unused
<1>2. c.op = "upload" /\ c.pc = "row" /\ c.id = m
  OBVIOUS
<1> HIDE DEF c
<1>3. Placed(next) /\ next.op \in PublishingOps \cup {"none"}
  BY <1>2, IdleNone DEF Placed, Elsewhere, PublishingOps
<1>4. handler'[h] = next => PublishingKnows(handler[h])'
  BY <1>1, <1>2, IdleNone DEF PublishingKnows
<1>5. PublishingRows' /\ MediaRowsHaveFiles' /\ TracesKept /\ PublishedStep
  BY <1>1 DEF PublishingOK, PublishingRows, MediaRowsHaveFiles, TracesKept, PublishedStep,
     Contents, Published, Articles
<1> HIDE DEF next
<1> QED
  BY <1>1, <1>3, <1>4, <1>5, PublishingMoves

\* The row of a file that is there.
LEMMA InsertMediaKeeps ==
    ASSUME CallsOK, PublishingOK, NEW h \in Handlers, InsertMedia(h)
    PROVE  PublishingKept
<1> DEFINE m == handler[h].id
<1>1. /\ handler[h].op \in PublishingOps /\ Return(h) /\ media' = media \cup {m}
      /\ UNCHANGED <<content, file, link, article, halfRemoved>>
  BY DEF InsertMedia, At, PublishingOps
<1>2. m \in MediaIds /\ m \in file \cup halfRemoved
  BY DEF InsertMedia, At, PublishingOK, PublishingKnows
<1>3. PublishingRows' /\ MediaRowsHaveFiles'
  BY <1>1, <1>2 DEF PublishingOK, PublishingRows, MediaRowsHaveFiles, Contents
<1> QED
  BY <1>1, <1>3, PublishingEnds

\* The file goes first; from here on the removal is half done.
LEMMA DeleteFileKeeps ==
    ASSUME CallsOK, PublishingOK, NEW h \in Handlers, DeleteFile(h)
    PROVE  PublishingKept
<1> DEFINE b == handler[h]
           m == b.id
           c == [b EXCEPT !.pc = "row"]
<1>1. /\ b.op = "removeMedia" /\ Goto(h, c) /\ halfRemoved' = halfRemoved \cup {m}
      /\ file' = file \ {m} \/ file' = file
      /\ UNCHANGED <<content, media, link, article>>
  BY DEF DeleteFile, At
<1>2. b \in [op : {"removeMedia"}, pc : {"host", "row"}, id : MediaIds]
  BY <1>1 DEF PublishingOK, PublishingKnows
<1>3. /\ c \in [op : {"removeMedia"}, pc : {"host", "row"}, id : MediaIds]
      /\ c.op = "removeMedia" /\ c.pc = "row" /\ m \in MediaIds
  BY <1>2
<1> HIDE DEF c
<1>4. Placed(c) /\ c.op \in PublishingOps /\ b.op \in PublishingOps
  BY <1>1, <1>3 DEF Placed, Elsewhere, PublishingOps
<1>5. handler'[h] = c => PublishingKnows(handler[h])'
  BY <1>3 DEF PublishingKnows
<1>6. PublishingRows' /\ MediaRowsHaveFiles' /\ TracesKept /\ PublishedStep
  BY <1>1, <1>3 DEF PublishingOK, PublishingRows, MediaRowsHaveFiles, TracesKept, PublishedStep,
     Contents, Published, Articles
<1> QED
  BY <1>1, <1>4, <1>5, <1>6, PublishingMoves

\* Then the row goes, with its links.
LEMMA DeleteMediaKeeps ==
    ASSUME CallsOK, PublishingOK, NEW h \in Handlers, DeleteMedia(h)
    PROVE  PublishingKept
<1> DEFINE m == handler[h].id
<1>1. /\ handler[h].op \in PublishingOps /\ Return(h)
      /\ media' = media \ {m} /\ link' = {l \in link : l[2] # m}
      /\ UNCHANGED <<content, file, article, halfRemoved>>
  BY DEF DeleteMedia, At, PublishingOps
<1>2. PublishingRows' /\ MediaRowsHaveFiles'
  BY <1>1 DEF PublishingOK, PublishingRows, MediaRowsHaveFiles, Contents
<1> QED
  BY <1>1, <1>2, PublishingEnds

\* An update that is not late keeps what is published, and what it passes is late.
LEMMA WriteArticleKeeps ==
    ASSUME CallsOK, PublishingOK, NEW h \in Handlers, WriteArticle(h)
    PROVE  PublishingKept
<1> DEFINE c == handler[h]
           a == c.id
<1>1. /\ c.op \in {"updateArticle", "publishArticle"} /\ c.op \in PublishingOps /\ c.pc = "write"
      /\ UNCHANGED <<calls, workload, content, media, file, link, halfRemoved>>
      /\ handler' = [g \in Handlers |-> handler'[g]] /\ handler'[h] = Idle
      /\ \A g \in Handlers \ {h} : g \notin Racing(h) => handler'[g] = handler[g]
      /\ \A g \in Racing(h) : handler'[g] = [handler[g] EXCEPT !.late = @ \/ c.to]
  BY DEF WriteArticle, AtAny, PublishingOps, Racing
<1>2. /\ c.to \in BOOLEAN
      /\ c.op = "updateArticle" /\ ~c.late /\ Published(a) => c.to
      /\ c.op = "publishArticle" => c.to
  BY <1>1 DEF PublishingOK, PublishingKnows
<1>3. /\ DOMAIN article' = DOMAIN article /\ \A x \in DOMAIN article \ {a} : article'[x] = article[x]
      /\ a \in DOMAIN article => article'[a] = IF a \in Articles THEN c.to ELSE article[a]
  BY DEF WriteArticle
<1>4. ASSUME NEW g \in Racing(h)
      PROVE  LET d == handler'[g] IN
             /\ d \in [op : {"updateArticle"}, pc : {"write"}, id : DOMAIN article, to : BOOLEAN, late : BOOLEAN]
             /\ d.op = "updateArticle" /\ d.pc = "write" /\ d.id = a /\ d.to = handler[g].to
             /\ d.late <=> (handler[g].late \/ c.to)
  <2> DEFINE e == handler[g]
             t == c.to
  <2>1. /\ e \in [op : {"updateArticle"}, pc : {"write"}, id : DOMAIN article, to : BOOLEAN, late : BOOLEAN]
        /\ e.id = a
    BY DEF Racing, At, PublishingOK, PublishingKnows
  <2>2. handler'[g] = [e EXCEPT !.late = @ \/ t] /\ t \in BOOLEAN
    BY <1>1, <1>2
  <2> DEFINE l == e.late \/ t
  <2>3. handler'[g] = [e EXCEPT !.late = l] /\ l \in BOOLEAN
    BY <2>1, <2>2
  <2>4. l <=> (e.late \/ t)
    OBVIOUS
  <2> HIDE DEF e, t, l
  <2>5. LET d == [e EXCEPT !.late = l] IN
        /\ d \in [op : {"updateArticle"}, pc : {"write"}, id : DOMAIN article, to : BOOLEAN, late : BOOLEAN]
        /\ d.op = "updateArticle" /\ d.pc = "write" /\ d.id = e.id /\ d.to = e.to /\ d.late = l
    BY <2>1, <2>3
  <2> QED BY <2>1, <2>3, <2>4, <2>5 DEF e, t
<1>5. ASSUME NEW g \in Handlers PROVE Placed(handler'[g])
  <2>1. CASE g = h
    BY <1>1, <2>1 DEF Placed
  <2>2. CASE g \in Racing(h)
    BY <1>4, <2>2 DEF Placed, Elsewhere, PublishingOps
  <2>3. CASE g # h /\ g \notin Racing(h)
    BY <1>1, <2>3 DEF CallsOK
  <2> QED BY <2>1, <2>2, <2>3
<1>6. CallsOK' /\ Within(PublishingOps)
  <2>1. CallsOK'
    BY <1>1, <1>5 DEF CallsOK, Placed, Reading, Plain, Taxing, Dropper, ServiceDrop, Elsewhere
  <2>2. \A g \in Racing(h) : {handler[g].op, handler'[g].op} \subseteq PublishingOps
    BY <1>4 DEF Racing, At, PublishingOps
  <2>3. calls' >= calls
    BY <1>1 DEF CallsOK
  <2> QED BY <1>1, <2>1, <2>2, <2>3, IdleNone DEF Within
<1>7. ASSUME NEW g \in Handlers PROVE PublishingKnows(handler[g])'
  <2>1. PublishingKnows(handler[g])
    BY DEF PublishingOK
  <2>2. CASE g = h
    BY <1>1, <2>2, IdleNone DEF PublishingKnows
  <2>3. CASE g \in Racing(h)
    <3> DEFINE d == handler'[g]
    <3>1. d.op = "updateArticle" /\ d.id = a /\ d.to = handler[g].to /\ (d.late <=> (handler[g].late \/ c.to))
          /\ d \in [op : {"updateArticle"}, pc : {"write"}, id : DOMAIN article', to : BOOLEAN, late : BOOLEAN]
      BY <1>3, <1>4, <2>3
    <3> PICK x : x = a
      OBVIOUS
    <3>2. ~d.late => ~Published(x)'
      BY <1>3, <3>1 DEF Published, Articles
    <3>3. d.id = x
      BY <3>1
    <3> QED BY <3>1, <3>2, <3>3 DEF PublishingKnows
  <2>4. CASE g # h /\ g \notin Racing(h)
    <3>1. handler'[g] = handler[g]
      BY <1>1, <2>4
    <3>2. /\ file \cup halfRemoved \subseteq file' \cup halfRemoved' /\ DOMAIN article' = DOMAIN article
          /\ handler[g].op = "updateArticle" => (Published(handler[g].id)' => Published(handler[g].id))
      <4>1. handler[g].op = "updateArticle" => handler[g].id # a
        BY <2>1, <2>4 DEF Racing, At, PublishingKnows
      <4> PICK x : x = handler[g].id
        OBVIOUS
      <4>2. x # a => (Published(x)' => Published(x))
        BY <1>3 DEF Published, Articles
      <4>3. Published(handler[g].id)' <=> Published(x)'
        BY <3>1 DEF Published, Articles
      <4> QED BY <1>1, <1>3, <4>1, <4>2, <4>3
    <3> QED BY <2>1, <3>1, <3>2 DEF PublishingKnows
  <2> QED BY <2>2, <2>3, <2>4
<1>8. PublishingRows' /\ MediaRowsHaveFiles'
  BY <1>1, <1>2, <1>3 DEF PublishingOK, PublishingRows, MediaRowsHaveFiles, Contents
<1>9. PublishedStep
  <2>1. ASSUME NEW x \in Articles, Published(x), x \in Articles', ~Published(x)'
        PROVE  At(h, "updateArticle", "write") /\ c.id = x /\ c.late
    <3>1. x = a /\ ~c.to
      BY <1>3, <2>1 DEF Published, Articles
    <3> QED BY <1>1, <1>2, <2>1, <3>1 DEF At
  <2> QED BY <2>1 DEF PublishedStep
<1> QED
  BY <1>6, <1>7, <1>8, <1>9 DEF PublishingKept, PublishingOK

\* An article goes, if it is still there.
LEMMA DeleteArticleKeeps ==
    ASSUME CallsOK, PublishingOK, NEW h \in Handlers, DeleteArticle(h)
    PROVE  PublishingKept
<1> DEFINE a == handler[h].id
<1>1. /\ handler[h].op \in PublishingOps /\ Goto(h, Idle) /\ article' = [article EXCEPT ![a] = Null]
      /\ UNCHANGED <<content, media, file, link, halfRemoved>>
  BY DEF DeleteArticle, At, PublishingOps, Return
<1>2. Placed(Idle) /\ Idle.op = "none" /\ (handler'[h] = Idle => PublishingKnows(handler[h])')
  BY IdleNone DEF Placed, PublishingKnows
<1>3. /\ DOMAIN article' = DOMAIN article
      /\ \A x \in DOMAIN article : article'[x] = article[x] \/ article'[x] = Null
  <2> HIDE DEF a
  <2> QED BY <1>1
<1>4. PublishingRows' /\ MediaRowsHaveFiles'
  BY <1>1, <1>3 DEF PublishingOK, PublishingRows, MediaRowsHaveFiles, Contents
<1>5. TracesKept /\ PublishedStep
  BY <1>1, <1>3 DEF TracesKept, PublishedStep, Published, Articles
<1> QED
  BY <1>1, <1>2, <1>4, <1>5, PublishingMoves

\* What takes no time: a link removed, an article created.
LEMMA EditsKeep ==
    ASSUME CallsOK, PublishingOK, PublishingEdits
    PROVE  PublishingKept
<1>1. CallsOK' /\ Within(PublishingOps) /\ UNCHANGED handler
  BY AtOnceMoves DEF PublishingEdits, RemoveLink, CreateArticle
<1>2. CASE RemoveLink
  <2>1. link' \subseteq link /\ UNCHANGED <<content, media, file, article, halfRemoved>>
    BY <1>2 DEF RemoveLink
  <2>2. PublishingRows' /\ MediaRowsHaveFiles' /\ TracesKept /\ PublishedStep
    BY <2>1 DEF PublishingOK, PublishingRows, MediaRowsHaveFiles, TracesKept, PublishedStep,
       Contents, Published, Articles
  <2> QED BY <1>1, <2>2, KnowsStill DEF PublishingKept, PublishingOK
<1>3. CASE CreateArticle
  <2> PICK a \in ArticleIds \ DOMAIN article, now \in BOOLEAN : article' = With(article, a, now)
    BY <1>3 DEF CreateArticle
  <2>1. /\ DOMAIN article' = DOMAIN article \cup {a} /\ article'[a] \in BOOLEAN
        /\ \A x \in DOMAIN article : article'[x] = article[x]
        /\ UNCHANGED <<content, media, file, link, halfRemoved>>
    BY <1>3 DEF With, CreateArticle
  <2>2. PublishingRows' /\ MediaRowsHaveFiles' /\ TracesKept /\ PublishedStep
    BY <2>1 DEF PublishingOK, PublishingRows, MediaRowsHaveFiles, TracesKept, PublishedStep,
       Contents, Published, Articles
  <2> QED BY <1>1, <2>2, KnowsStill DEF PublishingKept, PublishingOK
<1> QED
  BY <1>2, <1>3 DEF PublishingEdits

\* Whatever is published keeps its part.
LEMMA PublishingStepKeeps ==
    ASSUME CallsOK, PublishingOK,
           (\E h \in Handlers : PublishingSteps(h) \/ PublishingCalls(h)) \/ PublishingEdits
    PROVE  PublishingKept
BY ContentCallKeeps, MediaCallKeeps, ArticleCallKeeps, WriteContentKeeps, LinksKeep, UploadFileKeeps,
   InsertMediaKeeps, DeleteFileKeeps, DeleteMediaKeeps, WriteArticleKeeps, DeleteArticleKeeps, EditsKeep
   DEF PublishingSteps, PublishingCalls

\* Steps of the other parts, and the end of everything that runs.
LEMMA PublishingAside ==
    ASSUME PublishingOK, NEW O, Within(O), O \cap PublishingOps = {}, UNCHANGED publishingVars
    PROVE  PublishingOK' /\ PublishedStep
<1>1. \A g \in Handlers : handler'[g] = handler[g] \/ handler'[g].op \notin PublishingOps
  BY DEF Within, PublishingOps
<1>2. ASSUME NEW g \in Handlers PROVE PublishingKnows(handler[g])'
  <2>1. PublishingKnows(handler'[g])
    BY <1>1 DEF PublishingOK, PublishingKnows, PublishingOps
  <2> QED BY <2>1 DEF PublishingKnows, Published, Articles, publishingVars
<1> QED
  BY <1>2 DEF PublishingOK, PublishingRows, MediaRowsHaveFiles, Contents, PublishedStep,
     Published, Articles, publishingVars

\* A restart leaves the file without a row, or the row of a removal.
LEMMA PublishingRestart ==
    ASSUME PublishingOK, handler' = [g \in Handlers |-> Idle], UNCHANGED publishingVars
    PROVE  PublishingOK' /\ PublishedStep
<1>1. \A g \in Handlers : PublishingKnows(handler[g])'
  BY IdleNone DEF PublishingKnows
<1> QED
  BY <1>1 DEF PublishingOK, PublishingRows, MediaRowsHaveFiles, Contents, PublishedStep,
     Published, Articles, publishingVars

-----------------------------------------------------------------------------
(***************************************************************************)
(* The schema                                                              *)
(***************************************************************************)
Tables == TablesOf(Schema)

\* The table is there with all its columns, if it is there.
Made(s) == s.name \in DOMAIN columns => s.columns \subseteq columns[s.name]

\* What is behind a statement of the schema once its part of the plan is done.
Covered(c, n) ==
    LET s == Schema[n] IN
    \/ s \in c.plan[n]
    \/ s.do = "index" /\ s.name \in indexes
    \/ /\ s.do = "table" /\ s.name \in DOMAIN columns
       /\ c.op = "migrate" => \A x \in s.columns : x \in columns[s.name] \/ AddColumn(s.name, x) \in c.plan[n]

\* What a plan may hold for it.
Planned(c, n, s) ==
    \/ s = Schema[n] /\ (s.do = "table" /\ c.op = "migrate" => Made(s))
    \/ /\ ~fresh /\ c.op = "migrate" /\ Schema[n].do = "table" /\ Schema[n].name \in DOMAIN columns
       /\ \E x \in Schema[n].columns : s = AddColumn(Schema[n].name, x)

\* A script that reads has seen no more than there is, and what it has not seen has
\* been made since; a script that applies covers what is missing.
ScriptKnows(c) ==
    /\ c.op \in ScriptOps /\ c.pc = "columns" =>
          /\ c \in [op : {"migrate"}, pc : {"columns"}, found : {c.found}, left : {c.left}]
          /\ c.left \subseteq DOMAIN columns
          /\ \A t \in DOMAIN c.found : t \in DOMAIN columns /\ c.found[t] \subseteq columns[t]
          /\ \A s \in Tables : s.name \notin DOMAIN c.found \cup c.left => Made(s)
          /\ fresh => \A s \in Tables : s.name \in DOMAIN c.found => s.columns \subseteq c.found[s.name]
    /\ c.op \in ScriptOps /\ c.pc = "apply" =>
          /\ c \in [op : {c.op}, pc : {"apply"}, plan : {c.plan}]
          /\ c.plan = [n \in DOMAIN Schema |-> c.plan[n]]
          /\ \A n \in DOMAIN Schema : Covered(c, n) /\ \A s \in c.plan[n] : Planned(c, n, s)

Applying == {h \in Handlers : handler[h].op \in ScriptOps /\ handler[h].pc = "apply"}

SchemaFacts ==
    /\ {up, fresh, migrated, failed, stopped} \subseteq BOOLEAN
    /\ fresh => (failed => repeated # {}) /\ \A s \in Tables : Made(s)
    /\ up => DOMAIN columns # {}
    /\ migrated => Complete
    /\ fresh /\ ~stopped /\ ~failed /\ DOMAIN columns # {} => Complete \/ Applying # {}

SchemaOK == SchemaFacts /\ \A h \in Handlers : ScriptKnows(handler[h])

SchemaKept == CallsOK' /\ Within(ScriptOps) /\ SchemaOK'

\* Tables, columns and indexes come and never go, and a table comes with all its columns.
Grown ==
    /\ DOMAIN columns \subseteq DOMAIN columns' /\ indexes \subseteq indexes' /\ UNCHANGED fresh
    /\ \A t \in DOMAIN columns : columns[t] \subseteq columns'[t]
    /\ \A s \in Tables : s.name \in DOMAIN columns' \ DOMAIN columns => s.columns \subseteq columns'[s.name]

\* The statements of the schema.
LEMMA SchemaIs ==
    /\ \A s : s \in Tables <=> s.do = "table" /\ \E n \in DOMAIN Schema : s = Schema[n]
    /\ \A n \in DOMAIN Schema : Schema[n].do \in {"table", "index"} /\ n \in Nat
    /\ \A s \in IndexesOf(Schema) : s.do = "index" /\ \E n \in DOMAIN Schema : s = Schema[n]
    /\ \E s \in Tables : s.name = RoomsTable
    /\ \A s, t \in Tables : s.name = t.name => s = t
    /\ \A n \in DOMAIN Schema : Schema[n].do = "index" =>
          \E m \in DOMAIN Schema : /\ m < n /\ Schema[m] \in Tables
                                   /\ Schema[m].name = Schema[n].on
                                   /\ Schema[n].columns \subseteq Schema[m].columns
BY MigrationsAssumption DEF Tables, TablesOf, IndexesOf, ToSet

\* A table that has all its columns keeps them.
LEMMA MadeStays == ASSUME Grown PROVE \A s \in Tables : Made(s) => Made(s)'
BY DEF Grown, Made

\* A whole schema stays whole.
LEMMA CompleteStays == ASSUME Grown, Complete PROVE Complete'
BY DEF Grown, Complete, Tables

\* What a plan covers and holds remains so.
LEMMA PlanStill ==
    ASSUME Grown, NEW c, NEW n \in DOMAIN Schema, Covered(c, n), \A s \in c.plan[n] : Planned(c, n, s)
    PROVE  Covered(c, n)' /\ \A s \in c.plan[n] : Planned(c, n, s)'
<1>1. \A s \in Tables : Made(s) => Made(s)'
  BY MadeStays
<1>2. Schema[n].do = "table" => Schema[n] \in Tables
  BY SchemaIs
<1> QED
  BY <1>1, <1>2 DEF Covered, Planned, Grown

\* What a script knows and covers remains true.
LEMMA ScriptKnowsStill ==
    ASSUME NEW g \in Handlers, ScriptKnows(handler[g]), Grown, handler'[g] = handler[g]
    PROVE  ScriptKnows(handler[g])'
<1> DEFINE c == handler[g]
<1>1. ASSUME c.op \in ScriptOps, c.pc = "columns"
      PROVE  /\ c \in [op : {"migrate"}, pc : {"columns"}, found : {c.found}, left : {c.left}]
             /\ c.left \subseteq DOMAIN columns'
             /\ \A t \in DOMAIN c.found : t \in DOMAIN columns' /\ c.found[t] \subseteq columns'[t]
             /\ \A s \in Tables : s.name \notin DOMAIN c.found \cup c.left => Made(s)'
             /\ fresh' => \A s \in Tables : s.name \in DOMAIN c.found => s.columns \subseteq c.found[s.name]
  <2>1. /\ c \in [op : {"migrate"}, pc : {"columns"}, found : {c.found}, left : {c.left}]
        /\ c.left \subseteq DOMAIN columns
        /\ \A t \in DOMAIN c.found : t \in DOMAIN columns /\ c.found[t] \subseteq columns[t]
        /\ \A s \in Tables : s.name \notin DOMAIN c.found \cup c.left => Made(s)
        /\ fresh => \A s \in Tables : s.name \in DOMAIN c.found => s.columns \subseteq c.found[s.name]
    BY <1>1 DEF ScriptKnows
  <2> HIDE DEF c
  <2>2. \A s \in Tables : s.name \notin DOMAIN c.found \cup c.left => Made(s)'
    BY <2>1, MadeStays
  <2> QED BY <2>1, <2>2 DEF Grown
<1>2. ASSUME c.op \in ScriptOps, c.pc = "apply", NEW n \in DOMAIN Schema
      PROVE  /\ Schema[n] \in c.plan[n] \/ (Schema[n].do = "index" /\ Schema[n].name \in indexes')
                \/ (/\ Schema[n].do = "table" /\ Schema[n].name \in DOMAIN columns'
                    /\ c.op = "migrate" => \A x \in Schema[n].columns :
                          x \in columns'[Schema[n].name] \/ AddColumn(Schema[n].name, x) \in c.plan[n])
             /\ \A s \in c.plan[n] :
                  \/ s = Schema[n] /\ (s.do = "table" /\ c.op = "migrate" => Made(s)')
                  \/ /\ ~fresh' /\ c.op = "migrate" /\ Schema[n].do = "table"
                     /\ Schema[n].name \in DOMAIN columns'
                     /\ \E x \in Schema[n].columns : s = AddColumn(Schema[n].name, x)
  <2>1. Covered(c, n) /\ \A s \in c.plan[n] : Planned(c, n, s)
    BY <1>2 DEF ScriptKnows
  <2> HIDE DEF c
  <2>2. \A s \in Tables : Made(s) => Made(s)'
    BY MadeStays
  <2>3. Schema[n].do = "table" => Schema[n] \in Tables
    BY SchemaIs
  <2> QED BY <2>1, <2>2, <2>3 DEF Covered, Planned, Grown
<1> QED
  BY <1>1, <1>2 DEF ScriptKnows, Covered, Planned

\* A step that writes nothing leaves what there is to be known.
LEMMA FactsStay ==
    ASSUME SchemaFacts, UNCHANGED schemaVars, Applying # {} => Applying' # {}
    PROVE  SchemaFacts' /\ Grown
<1>1. Complete' <=> Complete
  BY DEF Complete, schemaVars
<1>2. \A s : Made(s)' <=> Made(s)
  BY DEF Made, schemaVars
<1> QED
  BY <1>1, <1>2 DEF SchemaFacts, Grown, schemaVars

\* A script begins or reads on.
LEMMA ScriptReads ==
    ASSUME CallsOK, SchemaOK, NEW h \in Handlers, NEW next, UNCHANGED schemaVars,
           Begin(h, next) \/ (At(h, "migrate", "columns") /\ Goto(h, next)),
           next.op \in ScriptOps, next.pc \in {"columns", "apply"}, ScriptKnows(next)
    PROVE  SchemaKept
<1>1. Placed(next)
  BY DEF Placed, Elsewhere
<1>2. /\ CallsOK' /\ Within(ScriptOps)
      /\ handler'[h] = next /\ \A g \in Handlers \ {h} : handler'[g] = handler[g]
  BY <1>1, Moved DEF Begin, At, ScriptOps
<1>3. h \notin Applying
  BY IdleNone DEF Applying, Begin, At, ScriptOps
<1>4. SchemaFacts' /\ Grown
  BY <1>2, <1>3, FactsStay DEF SchemaOK, Applying
<1>5. ASSUME NEW g \in Handlers PROVE ScriptKnows(handler[g])'
  <2>1. CASE g = h
    BY <1>2, <2>1 DEF ScriptKnows, Covered, Planned, Made, schemaVars
  <2>2. CASE g # h
    BY <1>2, <1>4, <2>2, ScriptKnowsStill DEF SchemaOK
  <2> QED BY <2>1, <2>2
<1> QED
  BY <1>2, <1>4, <1>5 DEF SchemaKept, SchemaOK

\* init-db.js begins with every statement in its plan.
LEMMA InitDbKeeps ==
    ASSUME CallsOK, SchemaOK, NEW h \in Handlers, InitDb(h)
    PROVE  SchemaKept
<1> DEFINE c == [op |-> "init", pc |-> "apply", plan |-> [n \in DOMAIN Schema |-> {Schema[n]}]]
<1>1. /\ c.op = "init" /\ c.pc = "apply" /\ c \in [op : {c.op}, pc : {"apply"}, plan : {c.plan}]
      /\ c.plan = [n \in DOMAIN Schema |-> c.plan[n]]
      /\ \A n \in DOMAIN Schema : c.plan[n] = {Schema[n]}
  OBVIOUS
<1>2. Begin(h, c) /\ UNCHANGED schemaVars
  BY DEF InitDb
<1> HIDE DEF c
<1>3. ScriptKnows(c) /\ c.op \in ScriptOps
  BY <1>1 DEF ScriptKnows, Covered, Planned, ScriptOps
<1> QED
  BY <1>1, <1>2, <1>3, ScriptReads

\* migrate-db.js begins with the tables there are.
LEMMA MigrateKeeps ==
    ASSUME CallsOK, SchemaOK, NEW h \in Handlers, Migrate(h)
    PROVE  SchemaKept
<1> DEFINE c == [op |-> "migrate", pc |-> "columns", found |-> << >>, left |-> DOMAIN columns]
<1>1. /\ c.op = "migrate" /\ c.pc = "columns" /\ c.left = DOMAIN columns /\ DOMAIN c.found = {}
      /\ c \in [op : {"migrate"}, pc : {"columns"}, found : {c.found}, left : {c.left}]
  OBVIOUS
<1>2. Begin(h, c) /\ UNCHANGED schemaVars
  BY DEF Migrate
<1> HIDE DEF c
<1>3. ScriptKnows(c) /\ c.op \in ScriptOps
  BY <1>1 DEF ScriptKnows, Made, ScriptOps
<1> QED
  BY <1>1, <1>2, <1>3, ScriptReads

\* It reads the columns of one table.
LEMMA ReadColumnsKeeps ==
    ASSUME CallsOK, SchemaOK, NEW h \in Handlers, ReadColumns(h)
    PROVE  SchemaKept
<1> DEFINE m == handler[h]
<1>1. /\ At(h, "migrate", "columns") /\ UNCHANGED schemaVars
      /\ m.op \in ScriptOps /\ m.pc = "columns"
      /\ m \in [op : {"migrate"}, pc : {"columns"}, found : {m.found}, left : {m.left}]
      /\ m.left \subseteq DOMAIN columns
      /\ \A t \in DOMAIN m.found : t \in DOMAIN columns /\ m.found[t] \subseteq columns[t]
      /\ \A s \in Tables : s.name \notin DOMAIN m.found \cup m.left => Made(s)
      /\ fresh => \A s \in Tables : s.name \in DOMAIN m.found => s.columns \subseteq m.found[s.name]
  BY DEF ReadColumns, At, ScriptOps, SchemaOK, ScriptKnows
<1> DEFINE seen(t) == [u \in DOMAIN m.found \cup {t} |-> IF u = t THEN columns[t] ELSE m.found[u]]
           next(t) == [m EXCEPT !.found = seen(t), !.left = @ \ {t}]
<1>2. PICK t \in m.left : Goto(h, next(t))
  BY DEF ReadColumns
<1>3. PICK f : f = seen(t)
  OBVIOUS
<1>4. /\ DOMAIN f = DOMAIN m.found \cup {t} /\ f[t] = columns[t]
      /\ \A u \in DOMAIN m.found \ {t} : f[u] = m.found[u]
  BY <1>3
<1>5. PICK c : c = next(t)
  OBVIOUS
<1>6. /\ c.op = "migrate" /\ c.pc = "columns" /\ c.found = f /\ c.left = m.left \ {t}
      /\ c \in [op : {"migrate"}, pc : {"columns"}, found : {c.found}, left : {c.left}]
  <2> HIDE DEF seen
  <2>1. m \in [op : {"migrate"}, pc : {"columns"}, found : {m.found}, left : {m.left}]
    BY <1>1
  <2> HIDE DEF m
  <2>2. c = [m EXCEPT !.found = f, !.left = @ \ {t}]
    BY <1>3, <1>5
  <2> QED BY <2>1, <2>2
<1>7. Goto(h, c)
  BY <1>2, <1>5
<1> HIDE DEF next, seen, m
<1>8. fresh => \A s \in Tables : Made(s)
  BY DEF SchemaOK, SchemaFacts
<1>9. ScriptKnows(c)
  <2>1. c.left \subseteq DOMAIN columns
    BY <1>1, <1>6
  <2>2. \A u \in DOMAIN c.found : u \in DOMAIN columns /\ c.found[u] \subseteq columns[u]
    BY <1>1, <1>2, <1>4, <1>6
  <2>3. \A s \in Tables : s.name \notin DOMAIN c.found \cup c.left => Made(s)
    BY <1>1, <1>4, <1>6
  <2>4. fresh => \A s \in Tables : s.name \in DOMAIN c.found => s.columns \subseteq c.found[s.name]
    BY <1>1, <1>2, <1>4, <1>6, <1>8 DEF Made
  <2> QED BY <1>6, <2>1, <2>2, <2>3, <2>4 DEF ScriptKnows
<1> QED
  BY <1>1, <1>6, <1>7, <1>9, ScriptReads DEF ScriptOps

\* It reads the indexes, and its plan is what is missing.
LEMMA ReadIndexesKeeps ==
    ASSUME CallsOK, SchemaOK, NEW h \in Handlers, ReadIndexes(h)
    PROVE  SchemaKept
<1> DEFINE m == handler[h]
<1>1. /\ At(h, "migrate", "columns") /\ UNCHANGED schemaVars /\ m.left = {}
      /\ \A t \in DOMAIN m.found : t \in DOMAIN columns /\ m.found[t] \subseteq columns[t]
      /\ \A s \in Tables : s.name \notin DOMAIN m.found => Made(s)
      /\ fresh => \A s \in Tables : s.name \in DOMAIN m.found => s.columns \subseteq m.found[s.name]
  BY DEF ReadIndexes, At, ScriptOps, SchemaOK, ScriptKnows
<1> DEFINE c == [op |-> "migrate", pc |-> "apply", plan |-> Missing(m.found, indexes)]
<1>2. Goto(h, c)
  BY DEF ReadIndexes
<1>3. /\ c.op = "migrate" /\ c.pc = "apply" /\ c.plan = Missing(m.found, indexes)
      /\ c \in [op : {c.op}, pc : {"apply"}, plan : {c.plan}]
  OBVIOUS
<1> HIDE DEF c, m
<1>4. /\ c.plan = [n \in DOMAIN Schema |-> c.plan[n]]
      /\ \A n \in DOMAIN Schema : c.plan[n] = MissingOf(Schema[n], m.found, indexes)
  BY <1>3 DEF Missing
<1>5. ASSUME NEW n \in DOMAIN Schema
      PROVE  Covered(c, n) /\ \A s \in c.plan[n] : Planned(c, n, s)
  <2> PICK s : s = Schema[n]
    OBVIOUS
  <2>1. CASE s.do = "index"
    <3>1. c.plan[n] = IF s.name \in indexes THEN {} ELSE {s}
      BY <1>4, <2>1 DEF MissingOf
    <3> QED BY <2>1, <3>1 DEF Covered, Planned
  <2>2. CASE s.do = "table" /\ s.name \notin DOMAIN m.found
    <3>1. c.plan[n] = {s}
      BY <1>4, <2>2 DEF MissingOf, MissingOfTable
    <3>2. Made(s)
      BY <1>1, <2>2, SchemaIs
    <3> QED BY <3>1, <3>2 DEF Covered, Planned
  <2>3. CASE s.do = "table" /\ s.name \in DOMAIN m.found
    <3>1. c.plan[n] = {AddColumn(s.name, x) : x \in s.columns \ m.found[s.name]}
      BY <1>4, <2>3 DEF MissingOf, MissingOfTable
    <3>2. s \in Tables
      BY <2>3, SchemaIs
    <3>3. s.name \in DOMAIN columns /\ m.found[s.name] \subseteq columns[s.name]
      BY <1>1, <2>3
    <3>4. Covered(c, n)
      BY <1>3, <2>3, <3>1, <3>3 DEF Covered
    <3>5. fresh => c.plan[n] = {}
      BY <1>1, <2>3, <3>1, <3>2
    <3> QED BY <1>3, <2>3, <3>1, <3>3, <3>4, <3>5 DEF Planned
  <2> QED BY <2>1, <2>2, <2>3, SchemaIs
<1>6. ScriptKnows(c)
  BY <1>3, <1>4, <1>5 DEF ScriptKnows
<1> QED
  BY <1>1, <1>2, <1>3, <1>6, ScriptReads DEF ScriptOps

\* A statement that SQLite accepts only adds.
LEMMA ExecuteGrows ==
    ASSUME NEW s, NEW refused \in Refusals(s), ~refused, Execute(s), UNCHANGED fresh,
           (s \in Tables /\ ~Exists(s)) \/ s.do \in {"index", "column"}
    PROVE  /\ Grown
           /\ s.do = "table" => s.name \in DOMAIN columns' /\ s.columns \subseteq columns'[s.name]
           /\ s.do = "index" => s.name \in indexes'
           /\ s.do = "column" => s.name \in columns'[s.on]
<1>1. CASE s \in Tables /\ ~Exists(s)
  <2>1. s.do = "table" /\ s.name \notin DOMAIN columns
    BY <1>1, SchemaIs DEF Exists
  <2>2. /\ DOMAIN columns' = DOMAIN columns \cup {s.name} /\ columns'[s.name] = s.columns
        /\ \A t \in DOMAIN columns : columns'[t] = columns[t]
        /\ indexes' = indexes
    BY <2>1 DEF Execute
  <2>3. \A t \in Tables : t.name = s.name => t = s
    BY <1>1, SchemaIs
  <2> QED BY <2>1, <2>2, <2>3 DEF Grown
<1>2. CASE s.do = "index"
  <2>1. columns' = columns /\ indexes' = indexes \cup {s.name}
    BY <1>2 DEF Execute
  <2> QED BY <1>2, <2>1 DEF Grown
<1>3. CASE s.do = "column"
  <2>1. s.on \in DOMAIN columns
    BY <1>3 DEF Refusals
  <2>2. columns' = [columns EXCEPT ![s.on] = @ \cup {s.name}] /\ indexes' = indexes
    BY <1>3 DEF Execute
  <2>3. /\ DOMAIN columns' = DOMAIN columns /\ columns'[s.on] = columns[s.on] \cup {s.name}
        /\ \A t \in DOMAIN columns \ {s.on} : columns'[t] = columns[t]
    BY <2>1, <2>2
  <2>4. \A t \in DOMAIN columns : columns[t] \subseteq columns'[t]
    BY <2>1, <2>3
  <2>5. Grown
    BY <2>2, <2>3, <2>4 DEF Grown
  <2>6. s.name \in columns'[s.on]
    BY <2>3
  <2> QED BY <1>3, <2>5, <2>6
<1> QED
  BY <1>1, <1>2, <1>3

\* A part of the plan less.
LEMMA PartDone ==
    ASSUME NEW c, c \in [op : {c.op}, pc : {"apply"}, plan : {c.plan}],
           c.plan = [m \in DOMAIN Schema |-> c.plan[m]], NEW n \in DOMAIN Schema, NEW s,
           NEW d, d = [c EXCEPT !.plan[n] = @ \ {s}]
    PROVE  /\ d \in [op : {d.op}, pc : {"apply"}, plan : {d.plan}] /\ d.op = c.op /\ d.pc = "apply"
           /\ d.plan = [m \in DOMAIN Schema |-> d.plan[m]]
           /\ d.plan[n] = c.plan[n] \ {s} /\ \A m \in DOMAIN Schema \ {n} : d.plan[m] = c.plan[m]
<1> DEFINE p == [c.plan EXCEPT ![n] = @ \ {s}]
<1>1. /\ p = [m \in DOMAIN Schema |-> p[m]] /\ p[n] = c.plan[n] \ {s}
      /\ \A m \in DOMAIN Schema \ {n} : p[m] = c.plan[m]
  <2> PICK q : q = c.plan
    OBVIOUS
  <2>1. q = [m \in DOMAIN Schema |-> q[m]] /\ p = [q EXCEPT ![n] = @ \ {s}]
    OBVIOUS
  <2> QED BY <2>1
<1>2. d = [c EXCEPT !.plan = p]
  OBVIOUS
<1> HIDE DEF p
<1>3. d \in [op : {c.op}, pc : {"apply"}, plan : {p}]
  BY <1>2
<1> QED
  BY <1>1, <1>3

\* Every statement before an index is through, so that its table is there; and no
\* statement fails on a database that began empty, unless rows have repeated a value.
LEMMA NoFailure ==
    ASSUME SchemaOK, fresh, repeated = {}, NEW c, c.op \in ScriptOps, c.pc = "apply", ScriptKnows(c),
           NEW n \in DOMAIN Schema, NEW s \in c.plan[n], NEW refused \in Refusals(s),
           \A m \in DOMAIN Schema : m < n => c.plan[m] = {}
    PROVE  Skips(c.op, s) \/ ~(Exists(s) \/ refused)
<1>1. \A m \in DOMAIN Schema : Covered(c, m) /\ \A t \in c.plan[m] : Planned(c, m, t)
  BY DEF ScriptKnows
<1>2. s = Schema[n]
  BY <1>1 DEF Planned
<1>3. CASE s.do = "table"
  BY <1>3 DEF Skips, Refusals
<1>4. CASE s.do = "index"
  <2> PICK m \in DOMAIN Schema : m < n /\ Schema[m] \in Tables /\ Schema[m].name = s.on
                                 /\ s.columns \subseteq Schema[m].columns
    BY <1>2, <1>4, SchemaIs
  <2>1. Covered(c, m) /\ c.plan[m] = {} /\ Schema[m].do = "table"
    BY <1>1, SchemaIs
  <2>2. Schema[m].name \in DOMAIN columns /\ Made(Schema[m])
    BY <2>1 DEF Covered, SchemaOK, SchemaFacts
  <2>3. ~refused
    BY <1>4, <2>2 DEF Refusals, Indexable, Made
  <2> QED BY <1>4, <2>3 DEF Skips
<1> QED
  BY <1>2, <1>3, <1>4, SchemaIs

\* One statement is through.
LEMMA ApplyOneKeeps ==
    ASSUME CallsOK, SchemaOK, NEW h \in Handlers, NEW n \in DOMAIN Schema, NEW s \in handler[h].plan[n],
           NEW refused \in Refusals(s), AtAny(h, {"init", "migrate"}, "apply"),
           Skips(handler[h].op, s) \/ ~(Exists(s) \/ refused),
           IF Exists(s) THEN UNCHANGED <<columns, indexes>> ELSE Execute(s),
           Goto(h, [handler[h] EXCEPT !.plan[n] = @ \ {s}]),
           UNCHANGED <<failed, up, repeated, fresh, migrated, stopped>>
    PROVE  SchemaKept
<1> DEFINE c == handler[h]
<1>1. /\ c.op \in ScriptOps /\ c.pc = "apply"
      /\ c \in [op : {c.op}, pc : {"apply"}, plan : {c.plan}]
      /\ c.plan = [m \in DOMAIN Schema |-> c.plan[m]]
      /\ \A m \in DOMAIN Schema : Covered(c, m) /\ \A t \in c.plan[m] : Planned(c, m, t)
  BY DEF AtAny, ScriptOps, SchemaOK, ScriptKnows
<1> PICK d : d = [c EXCEPT !.plan[n] = @ \ {s}]
  OBVIOUS
<1>2. /\ d \in [op : {d.op}, pc : {"apply"}, plan : {d.plan}] /\ d.op = c.op /\ d.pc = "apply"
      /\ d.plan = [m \in DOMAIN Schema |-> d.plan[m]]
      /\ d.plan[n] = c.plan[n] \ {s} /\ \A m \in DOMAIN Schema \ {n} : d.plan[m] = c.plan[m]
  <2> HIDE DEF c
  <2> QED BY <1>1, PartDone
<1>3. Goto(h, d)
  OBVIOUS
<1>4. Skips(c.op, s) \/ ~(Exists(s) \/ refused)
  OBVIOUS
<1>5. s \in c.plan[n]
  OBVIOUS
<1> HIDE DEF c
<1>6. Placed(d) /\ d.op \in ScriptOps
  BY <1>1, <1>2 DEF Placed, Elsewhere
<1>7. /\ CallsOK' /\ Within(ScriptOps)
      /\ handler'[h] = d /\ \A g \in Handlers \ {h} : handler'[g] = handler[g]
  BY <1>1, <1>3, <1>6, Moved DEF c
<1> DEFINE t == Schema[n]
<1>8. Planned(c, n, s)
  BY <1>1, <1>5
<1>9. (s = t /\ (t.do = "table" => t \in Tables)) \/ (s.do = "column" /\ t.do = "table"
          /\ t \in Tables /\ s.on = t.name /\ c.op = "migrate" /\ s = AddColumn(t.name, s.name))
  BY <1>8, SchemaIs DEF Planned, AddColumn
<1>10. /\ Grown
       /\ s.do = "table" => s.name \in DOMAIN columns' /\ (c.op = "migrate" => s.columns \subseteq columns'[s.name])
       /\ s.do = "index" => s.name \in indexes'
       /\ s.do = "column" => s.name \in columns'[s.on]
  <2>1. CASE Exists(s)
    <3>1. Grown /\ columns' = columns /\ indexes' = indexes
      BY <2>1 DEF Grown
    <3>2. s.do = "table" => s.name \in DOMAIN columns /\ (c.op = "migrate" => s.columns \subseteq columns[s.name])
      BY <2>1, <1>8 DEF Exists, Planned, Made, AddColumn
    <3>3. s.do = "index" => s.name \in indexes
      BY <2>1 DEF Exists
    <3>4. s.do = "column" => s.name \in columns[s.on]
      BY <2>1 DEF Exists
    <3> QED BY <3>1, <3>2, <3>3, <3>4
  <2>2. CASE ~Exists(s)
    <3>1. Execute(s) /\ ~refused
      BY <1>4, <2>2 DEF Skips
    <3>2. (s \in Tables /\ ~Exists(s)) \/ s.do \in {"index", "column"}
      BY <1>9, <2>2, SchemaIs
    <3> QED BY <3>1, <3>2, ExecuteGrows
  <2> QED BY <2>1, <2>2
<1>11. ASSUME NEW g \in Handlers \ {h} PROVE ScriptKnows(handler[g])'
  BY <1>7, <1>10, ScriptKnowsStill DEF SchemaOK
<1> PICK b : b = c
  OBVIOUS
<1>12. \A m \in DOMAIN Schema : Covered(b, m)' /\ \A u \in b.plan[m] : Planned(b, m, u)'
  BY <1>1, <1>10, PlanStill
<1>13. ASSUME NEW m \in DOMAIN Schema \ {n}
       PROVE  Covered(d, m)' /\ \A u \in d.plan[m] : Planned(d, m, u)'
  BY <1>2, <1>12 DEF Covered, Planned
<1>14. Covered(d, n)' /\ \A u \in d.plan[n] : Planned(d, n, u)'
  <2>1. \A u \in d.plan[n] : Planned(d, n, u)'
    BY <1>2, <1>12 DEF Planned
  <2> SUFFICES Covered(d, n)'
    BY <2>1
  <2>2. Covered(b, n)'
    BY <1>12
  <2>3. CASE s = t /\ t.do = "table"
    BY <1>2, <1>10, <2>3 DEF Covered
  <2>4. CASE s = t /\ t.do = "index"
    BY <1>10, <2>4 DEF Covered
  <2>5. CASE s.do = "column"
    <3>1. /\ t.do = "table" /\ s.on = t.name /\ s = AddColumn(t.name, s.name)
          /\ s.name \in columns'[t.name] /\ s # t
      BY <1>9, <1>10, <2>5, SchemaIs
    <3>2. \A x : x # s.name => AddColumn(t.name, x) # s
      BY DEF AddColumn
    <3>3. CASE t \in c.plan[n]
      BY <1>2, <3>1, <3>3 DEF Covered
    <3>4. CASE t \notin c.plan[n]
      <4>1. /\ t.name \in DOMAIN columns'
            /\ c.op = "migrate" => \A x \in t.columns :
                  x \in columns'[t.name] \/ AddColumn(t.name, x) \in c.plan[n]
        BY <2>2, <3>1, <3>4 DEF Covered
      <4>2. c.op = "migrate" => \A x \in t.columns :
                  x \in columns'[t.name] \/ AddColumn(t.name, x) \in d.plan[n]
        BY <1>2, <3>1, <3>2, <4>1
      <4> QED BY <1>2, <3>1, <4>1, <4>2 DEF Covered
    <3> QED BY <3>3, <3>4
  <2> QED BY <1>9, <2>3, <2>4, <2>5, SchemaIs
<1>15. ScriptKnows(d)'
  BY <1>2, <1>13, <1>14 DEF ScriptKnows
<1>16. ScriptKnows(handler[h])'
  BY <1>7, <1>15 DEF ScriptKnows, Covered, Planned, Made
<1>17. SchemaFacts'
  <2>1. h \in Applying'
    BY <1>2, <1>7, <1>6 DEF Applying
  <2>2. \A u \in Tables : Made(u) => Made(u)'
    BY <1>10, MadeStays
  <2>3. Complete => Complete'
    BY <1>10, CompleteStays
  <2>4. DOMAIN columns # {} => DOMAIN columns' # {}
    BY <1>10 DEF Grown
  <2> QED BY <2>1, <2>2, <2>3, <2>4 DEF SchemaOK, SchemaFacts
<1> QED
  BY <1>7, <1>11, <1>16, <1>17 DEF SchemaKept, SchemaOK

\* A script ends, in whatever way, and leaves the database as it is.
LEMMA ScriptEnds ==
    ASSUME CallsOK, SchemaOK, NEW h \in Handlers, handler[h].op \in ScriptOps, Return(h),
           UNCHANGED <<columns, indexes, up, repeated, fresh>>,
           {failed', migrated', stopped'} \subseteq BOOLEAN, failed => failed', stopped => stopped',
           fresh /\ failed' => repeated # {}, migrated' => Complete,
           fresh /\ ~stopped' /\ ~failed' /\ h \in Applying => Complete
    PROVE  SchemaKept
<1>1. Placed(Idle) /\ Idle.op = "none" /\ Goto(h, Idle)
  BY IdleNone DEF Placed, Return
<1>2. /\ CallsOK' /\ Within(ScriptOps)
      /\ handler'[h] = Idle /\ \A g \in Handlers \ {h} : handler'[g] = handler[g]
  BY <1>1, Moved
<1>3. Grown
  BY DEF Grown
<1>4. ASSUME NEW g \in Handlers PROVE ScriptKnows(handler[g])'
  <2>1. CASE g = h
    BY <1>1, <1>2, <2>1 DEF ScriptKnows, ScriptOps
  <2>2. CASE g # h
    BY <1>2, <1>3, <2>2, ScriptKnowsStill DEF SchemaOK
  <2> QED BY <2>1, <2>2
<1>5. SchemaFacts'
  <2>1. Complete' <=> Complete
    BY DEF Complete
  <2>2. \A s : Made(s)' <=> Made(s)
    BY DEF Made
  <2>3. Applying \ {h} \subseteq Applying'
    BY <1>2 DEF Applying
  <2> QED BY <2>1, <2>2, <2>3 DEF SchemaOK, SchemaFacts
<1> QED
  BY <1>2, <1>4, <1>5 DEF SchemaKept, SchemaOK

\* One statement is executed, or skipped, or ends the script.
LEMMA ApplyKeeps ==
    ASSUME CallsOK, SchemaOK, NEW h \in Handlers, Apply(h)
    PROVE  SchemaKept
<1> DEFINE c == handler[h]
<1>1. UNCHANGED <<up, repeated, fresh, migrated, stopped>> /\ AtAny(h, {"init", "migrate"}, "apply")
  BY DEF Apply
<1> PICK n \in DOMAIN Schema : \E s \in c.plan[n] : \E refused \in Refusals(s) :
        /\ \A m \in DOMAIN Schema : m < n => c.plan[m] = {}
        /\ IF Skips(c.op, s) \/ ~(Exists(s) \/ refused)
           THEN /\ IF Exists(s) THEN UNCHANGED <<columns, indexes>> ELSE Execute(s)
                /\ Goto(h, [c EXCEPT !.plan[n] = @ \ {s}])
                /\ UNCHANGED failed
           ELSE Return(h) /\ failed' = TRUE /\ UNCHANGED <<columns, indexes>>
  BY DEF Apply
<1> PICK s \in c.plan[n] : \E refused \in Refusals(s) :
        /\ \A m \in DOMAIN Schema : m < n => c.plan[m] = {}
        /\ IF Skips(c.op, s) \/ ~(Exists(s) \/ refused)
           THEN /\ IF Exists(s) THEN UNCHANGED <<columns, indexes>> ELSE Execute(s)
                /\ Goto(h, [c EXCEPT !.plan[n] = @ \ {s}])
                /\ UNCHANGED failed
           ELSE Return(h) /\ failed' = TRUE /\ UNCHANGED <<columns, indexes>>
  OBVIOUS
<1>2. PICK refused \in Refusals(s) :
        /\ \A m \in DOMAIN Schema : m < n => c.plan[m] = {}
        /\ IF Skips(c.op, s) \/ ~(Exists(s) \/ refused)
           THEN /\ IF Exists(s) THEN UNCHANGED <<columns, indexes>> ELSE Execute(s)
                /\ Goto(h, [c EXCEPT !.plan[n] = @ \ {s}])
                /\ UNCHANGED failed
           ELSE Return(h) /\ failed' = TRUE /\ UNCHANGED <<columns, indexes>>
  OBVIOUS
<1>3. CASE Skips(c.op, s) \/ ~(Exists(s) \/ refused)
  <2>1. /\ IF Exists(s) THEN UNCHANGED <<columns, indexes>> ELSE Execute(s)
        /\ Goto(h, [c EXCEPT !.plan[n] = @ \ {s}])
        /\ UNCHANGED <<failed, up, repeated, fresh, migrated, stopped>>
    BY <1>1, <1>2, <1>3
  <2> QED BY <1>1, <1>3, <2>1, ApplyOneKeeps
<1>4. CASE ~(Skips(c.op, s) \/ ~(Exists(s) \/ refused))
  <2>1. Return(h) /\ failed' = TRUE /\ UNCHANGED <<columns, indexes, up, repeated, fresh, migrated, stopped>>
    BY <1>1, <1>2, <1>4
  <2>2. c.op \in ScriptOps /\ c.pc = "apply" /\ ScriptKnows(c)
    BY <1>1 DEF AtAny, ScriptOps, SchemaOK
  <2>3. fresh => repeated # {}
    BY <1>2, <1>4, <2>2, NoFailure
  <2> QED BY <2>1, <2>2, <2>3, ScriptEnds DEF SchemaOK, SchemaFacts
<1> QED
  BY <1>3, <1>4

\* A script whose plan is done leaves the whole schema.
LEMMA EndScriptKeeps ==
    ASSUME CallsOK, SchemaOK, NEW h \in Handlers, EndScript(h)
    PROVE  SchemaKept
<1> DEFINE c == handler[h]
<1>1. /\ c.op \in ScriptOps /\ c.pc = "apply" /\ \A n \in DOMAIN Schema : c.plan[n] = {}
      /\ migrated' = (migrated \/ c.op = "migrate")
      /\ failed' = (failed \/ (c.op = "init" /\ RoomsTable \notin DOMAIN columns))
      /\ Return(h) /\ UNCHANGED <<columns, indexes, up, repeated, fresh, stopped>>
  BY DEF EndScript, AtAny, ScriptOps
<1>2. \A n \in DOMAIN Schema : Covered(c, n)
  BY <1>1 DEF SchemaOK, ScriptKnows
<1>3. /\ \A s \in Tables : s.name \in DOMAIN columns /\ (c.op = "migrate" => s.columns \subseteq columns[s.name])
      /\ \A s \in IndexesOf(Schema) : s.name \in indexes
  BY <1>1, <1>2, SchemaIs DEF Covered
<1>4. RoomsTable \in DOMAIN columns
  BY <1>3, SchemaIs
<1>5. fresh => \A s \in Tables : Made(s)
  BY DEF SchemaOK, SchemaFacts
<1>6. fresh \/ c.op = "migrate" => Complete
  BY <1>3, <1>5 DEF Complete, Made, Tables
<1>7. /\ {failed', migrated', stopped'} \subseteq BOOLEAN /\ failed' = failed /\ stopped' = stopped
      /\ fresh /\ failed' => repeated # {}
      /\ migrated' => Complete
  BY <1>1, <1>4, <1>6 DEF SchemaOK, SchemaFacts
<1> QED
  BY <1>1, <1>6, <1>7, ScriptEnds

\* A script that is broken off leaves what it has made.
LEMMA BreakOffKeeps ==
    ASSUME CallsOK, SchemaOK, NEW h \in Handlers, BreakOff(h)
    PROVE  SchemaKept
<1>1. /\ handler[h].op \in ScriptOps /\ Return(h) /\ stopped' = TRUE
      /\ UNCHANGED <<columns, indexes, up, repeated, fresh, migrated, failed>>
  BY DEF BreakOff, Running, ScriptOps
<1>2. /\ {failed', migrated', stopped'} \subseteq BOOLEAN
      /\ fresh /\ failed' => repeated # {}
      /\ migrated' => Complete
  BY <1>1 DEF SchemaOK, SchemaFacts
<1> QED
  BY <1>1, <1>2, ScriptEnds

\* Whatever the scripts do keeps their part.
LEMMA SchemaStepKeeps ==
    ASSUME CallsOK, SchemaOK, NEW h \in Handlers, MigrationCalls(h) \/ MigrationSteps(h)
    PROVE  SchemaKept
BY InitDbKeeps, MigrateKeeps, ReadColumnsKeeps, ReadIndexesKeeps, ApplyKeeps, EndScriptKeeps,
   BreakOffKeeps DEF MigrationCalls, MigrationSteps

\* The scripts are left alone.
LEMMA ScriptsStill ==
    ASSUME SchemaOK, NEW O, Within(O), O \cap ScriptOps = {}, UNCHANGED <<columns, indexes, fresh>>
    PROVE  Applying \subseteq Applying' /\ \A g \in Handlers : ScriptKnows(handler[g])'
<1>1. \A g \in Handlers : handler'[g] = handler[g] \/ {handler[g].op, handler'[g].op} \cap ScriptOps = {}
  BY DEF Within, ScriptOps
<1>2. Applying \subseteq Applying'
  BY <1>1 DEF Applying
<1>3. Grown
  BY DEF Grown
<1>4. ASSUME NEW g \in Handlers PROVE ScriptKnows(handler[g])'
  <2>1. CASE handler'[g] = handler[g]
    BY <1>3, <2>1, ScriptKnowsStill DEF SchemaOK
  <2>2. CASE handler'[g].op \notin ScriptOps
    BY <2>2 DEF ScriptKnows
  <2> QED BY <1>1, <2>1, <2>2
<1> QED
  BY <1>2, <1>4

\* The backend starts where its table is.
LEMMA StartBackendKeeps ==
    ASSUME CallsOK, SchemaOK, StartBackend
    PROVE  SchemaKept
<1>1. CallsOK' /\ Within({}) /\ Within(ScriptOps)
  BY AtOnceMoves DEF StartBackend
<1>2. RoomsTable \in DOMAIN columns /\ up' = TRUE
      /\ UNCHANGED <<columns, indexes, repeated, fresh, migrated, failed, stopped>>
  BY DEF StartBackend
<1>3. Applying \subseteq Applying' /\ \A g \in Handlers : ScriptKnows(handler[g])'
  BY <1>1, <1>2, ScriptsStill
<1>4. (Complete' <=> Complete) /\ \A s : Made(s)' <=> Made(s)
  BY <1>2 DEF Complete, Made
<1> QED
  BY <1>1, <1>2, <1>3, <1>4 DEF SchemaKept, SchemaOK, SchemaFacts

\* Rows come to repeat a value that a missing index would have kept unique.
LEMMA RepeatRowsKeeps ==
    ASSUME CallsOK, SchemaOK, NEW s, RepeatRows(s)
    PROVE  SchemaKept
<1>1. /\ UNCHANGED <<requests, columns, indexes, up, fresh, migrated, failed, stopped>>
      /\ repeated' = repeated \cup {s.name}
  BY DEF RepeatRows
<1>2. CallsOK' /\ Within({}) /\ Within(ScriptOps)
  BY <1>1 DEF CallsOK, Within, requests, Placed, Reading, Plain, Taxing, Dropper, ServiceDrop, Elsewhere
<1>3. Applying \subseteq Applying' /\ \A g \in Handlers : ScriptKnows(handler[g])'
  BY <1>1, <1>2, ScriptsStill
<1>4. (Complete' <=> Complete) /\ \A t : Made(t)' <=> Made(t)
  BY <1>1 DEF Complete, Made
<1> QED
  BY <1>1, <1>2, <1>3, <1>4 DEF SchemaKept, SchemaOK, SchemaFacts

\* The backend starts, or somebody writes rows.
LEMMA SchemaEditsKeep ==
    ASSUME CallsOK, SchemaOK, SchemaEdits
    PROVE  SchemaKept
BY StartBackendKeeps, RepeatRowsKeeps DEF SchemaEdits

\* Steps of the other parts, and the end of everything that runs.
LEMMA SchemaAside ==
    ASSUME SchemaOK, NEW O, Within(O), O \cap ScriptOps = {}, UNCHANGED schemaVars
    PROVE  SchemaOK'
<1>1. Applying \subseteq Applying' /\ \A g \in Handlers : ScriptKnows(handler[g])'
  BY ScriptsStill DEF schemaVars
<1>2. SchemaFacts'
  BY <1>1, FactsStay DEF SchemaOK
<1> QED
  BY <1>1, <1>2 DEF SchemaOK

\* A script that applies is running.
LEMMA RunningApplies == Applying \subseteq Running
BY IdleNone DEF Applying, Running, Busy, ScriptOps

\* A restart stops the scripts, and what they have made stays.
LEMMA SchemaRestart ==
    ASSUME SchemaOK, handler' = [g \in Handlers |-> Idle], StopAll
    PROVE  SchemaOK'
<1>1. /\ up' = FALSE /\ stopped' = (stopped \/ Running # {})
      /\ UNCHANGED <<columns, indexes, repeated, fresh, migrated, failed>>
  BY DEF StopAll
<1>2. ASSUME NEW g \in Handlers PROVE ScriptKnows(handler[g])'
  BY IdleNone DEF ScriptKnows, ScriptOps
<1>3. (Complete' <=> Complete) /\ \A s : Made(s)' <=> Made(s)
  BY <1>1 DEF Complete, Made
<1>4. SchemaFacts'
  BY <1>1, <1>3, RunningApplies DEF SchemaOK, SchemaFacts
<1> QED
  BY <1>2, <1>4 DEF SchemaOK

\* What the runs check of the migrations.
LEMMA SchemaShows ==
    ASSUME SchemaOK
    PROVE  MigratedIsComplete
<1>1. up => DOMAIN columns # {}
  BY DEF SchemaOK, SchemaFacts
<1> QED
  BY <1>1, RunningApplies DEF SchemaOK, SchemaFacts, MigratedIsComplete

-----------------------------------------------------------------------------
(***************************************************************************)
(* Lists                                                                   *)
(***************************************************************************)
Walk ==
    [q : ListQueries, page : Nat \ {0}, got : {Null} \cup SUBSET RowIds, total : {Null} \cup Nat,
     ended : BOOLEAN, seen : SUBSET RowIds, stayed : SUBSET RowIds, left : BOOLEAN, came : BOOLEAN,
     shifted : BOOLEAN, cut : BOOLEAN, twice : BOOLEAN]

Rank(q, list, n) == Cardinality(Ahead(q, list, n))

\* The rows before the next one to be read.
Turned(w) == IF w.got = Null THEN Skip(w.page) ELSE Skip(w.page) + PageSize

Listing(list) ==
    /\ list \in Seq(Row)
    /\ \A m, n \in DOMAIN list : list[m].id = list[n].id => m = n

\* No row that stays is behind the client w unread; a count that it has before the
\* page is that of the list, and one that it has after it tells of the rows behind.
StillToCome(w, list) ==
    /\ w.stayed \subseteq Displayed(w.q, list)
    /\ ~w.left => \A n \in DOMAIN list :
          list[n].id \in w.stayed \ w.seen => Turned(w) <= Rank(w.q, list, n)
    /\ w.total # Null /\ w.got = Null /\ ~w.left /\ ~w.shifted =>
          w.total = Cardinality(Selected(w.q, list))
    /\ w.total # Null /\ w.got # Null /\ ~w.left /\ ~w.shifted =>
          w.stayed \subseteq w.seen \/ Skip(w.page) + PageSize < w.total

\* No row that was read is ahead, unless one came.
NotAhead(w, list) ==
    ~w.came => \A n \in DOMAIN list :
        Selects(w.q, list[n]) /\ list[n].id \in w.seen => Rank(w.q, list, n) < Turned(w)

WalkOK(w, list) ==
    /\ w \in Walk
    /\ w.page <= Cardinality(RowIds) + 1
    /\ w.total # Null => w.total <= Cardinality(RowIds)
    /\ ~w.ended => StillToCome(w, list) /\ NotAhead(w, list)
    /\ w.ended /\ ~w.left /\ ~w.shifted /\ ~w.cut => w.stayed \subseteq w.seen
    /\ w.twice => w.came

ListsOK == Listing(rows) /\ (walk # Null => WalkOK(walk, rows))

\* Rows that are in both lists are in one order.
SameOrder(L, M) ==
    \A m, n \in DOMAIN L, k, l \in DOMAIN M :
        L[m].id = M[k].id /\ L[n].id = M[l].id => (m < n <=> k < l)

\* The rows before a page, by the size of one.
LEMMA SkipIs ==
    ASSUME NEW p \in Nat \ {0}
    PROVE  Skip(p) \in Nat /\ Skip(p + 1) = Skip(p) + PageSize /\ Skip(1) = 0
<1>1. PageSize \in Nat
  BY ListsAssumption
<1>2. Skip(p) = (p - 1) * PageSize /\ Skip(p + 1) = p * PageSize /\ Skip(1) = 0
  BY <1>1 DEF Skip
<1>3. p - 1 \in Nat /\ p = (p - 1) + 1
  OBVIOUS
<1>4. PICK k \in Nat : k = p - 1 /\ p = k + 1
  BY <1>3
<1>5. k * PageSize \in Nat /\ (k + 1) * PageSize = k * PageSize + PageSize
  BY <1>1
<1> QED
  BY <1>2, <1>4, <1>5

\* There is a next page just when there are rows behind this one.
LEMMA NextPage ==
    ASSUME NEW p \in Nat \ {0}, NEW total \in Nat
    PROVE  /\ HasNextPage(p, total) <=> Skip(p) + PageSize < total
           /\ HasNextPage(p, total) => p + 1 <= total
<1> DEFINE t == (total + PageSize - 1) \div PageSize
<1>1. PageSize \in Nat \ {0}
  BY ListsAssumption
<1>2. PICK q \in Int : q = t /\ PageSize * q <= total + PageSize - 1 /\ total + PageSize - 1 < PageSize * q + PageSize
  <2>1. total + PageSize - 1 \in Nat
    BY <1>1
  <2>2. \A a \in Nat, b \in Nat \ {0} : a \div b \in Int /\ b * (a \div b) <= a /\ a < b * (a \div b) + b
    OBVIOUS
  <2> QED BY <1>1, <2>1, <2>2
<1>3. HasNextPage(p, total) <=> p < q
  BY <1>2 DEF HasNextPage, TotalPages
<1>4. Skip(p) + PageSize = p * PageSize
  BY <1>1, SkipIs DEF Skip
<1>5. ASSUME p < q PROVE p * PageSize < total /\ p + 1 <= total
  <2>1. PageSize * q = PageSize * (q - p - 1) + PageSize * p + PageSize
    BY <1>1
  <2>2. PageSize * (q - p - 1) \in Nat
    <3>1. q - p - 1 \in Nat
      BY <1>5
    <3> QED BY <1>1, <3>1
  <2>3. PageSize * p = p * PageSize /\ p * PageSize \in Nat /\ PageSize * p >= p
    BY <1>1
  <2> QED BY <1>1, <1>2, <2>1, <2>2, <2>3
<1>6. ASSUME ~(p < q) PROVE ~(p * PageSize < total)
  <2>1. PageSize * p = PageSize * (p - q) + PageSize * q
    BY <1>1
  <2>2. PageSize * (p - q) \in Nat
    <3>1. p - q \in Nat
      BY <1>6
    <3> QED BY <1>1, <3>1
  <2>3. PageSize * p = p * PageSize /\ p * PageSize \in Nat
    BY <1>1
  <2> QED BY <1>1, <1>2, <2>1, <2>2, <2>3
<1> QED
  BY <1>3, <1>4, <1>5, <1>6

\* The rows ahead of a row are some of the list, and it is none of them.
LEMMA Ranked ==
    ASSUME NEW q, NEW list, Listing(list)
    PROVE  /\ Selected(q, list) \subseteq RowIds /\ IsFiniteSet(Selected(q, list))
           /\ Cardinality(Selected(q, list)) \in Nat /\ Cardinality(RowIds) \in Nat
           /\ Cardinality(Selected(q, list)) <= Cardinality(RowIds)
           /\ \A n \in DOMAIN list :
                 /\ IsFiniteSet(Ahead(q, list, n)) /\ Rank(q, list, n) \in Nat
                 /\ Selects(q, list[n]) => Rank(q, list, n) < Cardinality(Selected(q, list))
<1>1. IsFiniteSet(RowIds) /\ Cardinality(RowIds) \in Nat
  BY ListsAssumption, FS_CardinalityType
<1>2. \A n \in DOMAIN list : list[n].id \in RowIds
  <2>1. \A x \in Row : x.id \in RowIds
    BY DEF Row
  <2>2. list \in Seq(Row)
    BY DEF Listing
  <2>3. \A n \in DOMAIN list : list[n] \in Row
    BY <2>2
  <2> QED BY <2>1, <2>3
<1>3. Selected(q, list) \subseteq RowIds
  BY <1>2 DEF Selected
<1>4. /\ IsFiniteSet(Selected(q, list)) /\ Cardinality(Selected(q, list)) \in Nat
      /\ Cardinality(Selected(q, list)) <= Cardinality(RowIds)
  BY <1>1, <1>3, FS_Subset, FS_CardinalityType
<1>5. ASSUME NEW n \in DOMAIN list
      PROVE  /\ IsFiniteSet(Ahead(q, list, n)) /\ Rank(q, list, n) \in Nat
             /\ Selects(q, list[n]) => Rank(q, list, n) < Cardinality(Selected(q, list))
  <2> DEFINE S == Selected(q, list)
             i == list[n].id
  <2>1. DOMAIN list = 1 .. Len(list) /\ Len(list) \in Nat
    BY DEF Listing
  <2>2. Ahead(q, list, n) \subseteq S \ {i}
    <3>1. ASSUME NEW k \in 1 .. n - 1, Selects(q, list[k]) PROVE list[k].id \in S \ {i}
      <4>1. k \in DOMAIN list /\ k # n
        BY <2>1
      <4> QED BY <3>1, <4>1 DEF Listing, Selected
    <3> QED BY <3>1 DEF Ahead
  <2>3. /\ IsFiniteSet(S \ {i})
        /\ Cardinality(S \ {i}) = IF i \in S THEN Cardinality(S) - 1 ELSE Cardinality(S)
    BY <1>4, FS_RemoveElement
  <2>4. /\ IsFiniteSet(Ahead(q, list, n)) /\ Rank(q, list, n) <= Cardinality(S \ {i})
    BY <2>2, <2>3, FS_Subset DEF Rank
  <2>5. Rank(q, list, n) \in Nat
    BY <2>4, FS_CardinalityType DEF Rank
  <2>6. Selects(q, list[n]) => i \in S
    BY DEF Selected
  <2> QED BY <1>4, <2>3, <2>4, <2>5, <2>6
<1> QED
  BY <1>1, <1>3, <1>4, <1>5

\* When no row leaves the list, none comes nearer to its top.
LEMMA RanksGrow ==
    ASSUME NEW q, NEW L, NEW M, Listing(L), Listing(M), SameOrder(L, M),
           Selected(q, L) \subseteq Selected(q, M),
           NEW n \in DOMAIN L, NEW k \in DOMAIN M, L[n].id = M[k].id
    PROVE  Rank(q, L, n) <= Rank(q, M, k)
<1>1. DOMAIN L = 1 .. Len(L) /\ DOMAIN M = 1 .. Len(M) /\ Len(L) \in Nat /\ Len(M) \in Nat
  BY DEF Listing
<1>2. Ahead(q, L, n) \subseteq Ahead(q, M, k)
  <2>1. ASSUME NEW m \in 1 .. n - 1, Selects(q, L[m]) PROVE L[m].id \in Ahead(q, M, k)
    <3>1. m \in DOMAIN L /\ m < n
      BY <1>1
    <3>2. L[m].id \in Selected(q, M)
      BY <2>1, <3>1 DEF Selected
    <3>3. PICK j \in DOMAIN M : Selects(q, M[j]) /\ M[j].id = L[m].id
      BY <3>2 DEF Selected
    <3>4. j < k
      BY <3>1, <3>3 DEF SameOrder
    <3>5. j \in 1 .. k - 1
      BY <1>1, <3>4
    <3> QED BY <3>3, <3>5 DEF Ahead
  <2> QED BY <2>1 DEF Ahead
<1>3. IsFiniteSet(Ahead(q, M, k))
  BY Ranked
<1> QED
  BY <1>2, <1>3, FS_Subset DEF Rank

\* Order is mutual.
LEMMA OrderBack == ASSUME NEW L, NEW M, SameOrder(L, M) PROVE SameOrder(M, L)
BY DEF SameOrder

\* The table changes under a client.
LEMMA BecomesKeeps ==
    ASSUME NEW w, NEW L, NEW M, Listing(L), Listing(M), SameOrder(L, M), WalkOK(w, L), ~w.ended,
           NEW v, v = [w EXCEPT
                         !.stayed = @ \cap Displayed(w.q, M),
                         !.left = @ \/ ~(Selected(w.q, L) \subseteq Selected(w.q, M)),
                         !.came = @ \/ ~(Selected(w.q, M) \subseteq Selected(w.q, L)),
                         !.shifted = @ \/ (~(Selected(w.q, M) \subseteq Selected(w.q, L)) /\
                                           w.total # Null /\ w.got = Null)]
    PROVE  WalkOK(v, M)
<1> DEFINE before == Selected(w.q, L)
           after == Selected(w.q, M)
<1>1. PICK st : st = w.stayed \cap Displayed(w.q, M)
  OBVIOUS
<1>2. w \in Walk
  BY DEF WalkOK
<1>3. PICK lf \in BOOLEAN : lf = (w.left \/ ~(before \subseteq after))
  OBVIOUS
<1>4. PICK cm \in BOOLEAN : cm = (w.came \/ ~(after \subseteq before))
  OBVIOUS
<1>5. PICK sh \in BOOLEAN : sh = (w.shifted \/ (~(after \subseteq before) /\ w.total # Null /\ w.got = Null))
  OBVIOUS
<1>6. v = [w EXCEPT !.stayed = st, !.left = lf, !.came = cm, !.shifted = sh]
  BY <1>1, <1>3, <1>4, <1>5
<1>7. st \subseteq RowIds
  BY <1>1, <1>2 DEF Walk
<1>8. /\ v \in Walk /\ v.q = w.q /\ v.page = w.page /\ v.got = w.got /\ v.total = w.total
      /\ v.ended = w.ended /\ v.seen = w.seen /\ v.cut = w.cut /\ v.twice = w.twice
      /\ v.stayed = st /\ v.left = lf /\ v.came = cm /\ v.shifted = sh
  BY <1>2, <1>6, <1>7 DEF Walk
<1>9. StillToCome(w, L) /\ NotAhead(w, L) /\ Turned(v) = Turned(w)
  BY <1>8 DEF WalkOK, Turned
<1>10. ASSUME ~v.left, NEW n \in DOMAIN M, M[n].id \in v.stayed \ v.seen
       PROVE  Turned(v) <= Rank(v.q, M, n)
  <2>1. before \subseteq after /\ ~w.left /\ M[n].id \in w.stayed \ w.seen
    BY <1>1, <1>3, <1>8, <1>10
  <2>2. PICK m \in DOMAIN L : L[m].id = M[n].id
    BY <1>9, <2>1 DEF StillToCome, Displayed
  <2>3. Turned(w) <= Rank(w.q, L, m) /\ Rank(w.q, L, m) <= Rank(w.q, M, n)
    BY <1>9, <2>1, <2>2, RanksGrow DEF StillToCome
  <2>4. Turned(w) \in Nat
    BY <1>2, SkipIs, ListsAssumption DEF Turned, Walk
  <2>5. Rank(w.q, L, m) \in Nat /\ Rank(w.q, M, n) \in Nat
    BY Ranked
  <2> QED BY <1>8, <1>9, <2>3, <2>4, <2>5
<1>11. StillToCome(v, M)
  <2>1. v.stayed \subseteq Displayed(v.q, M)
    BY <1>1, <1>8
  <2>2. ASSUME v.total # Null, v.got = Null, ~v.left, ~v.shifted
        PROVE  v.total = Cardinality(Selected(v.q, M))
    <3>1. before = after /\ ~w.left /\ ~w.shifted
      BY <1>3, <1>5, <1>8, <2>2
    <3> QED BY <1>8, <1>9, <2>2, <3>1 DEF StillToCome
  <2>3. ASSUME v.total # Null, v.got # Null, ~v.left, ~v.shifted
        PROVE  v.stayed \subseteq v.seen \/ Skip(v.page) + PageSize < v.total
    BY <1>1, <1>3, <1>5, <1>8, <1>9, <2>3 DEF StillToCome
  <2> QED BY <1>10, <2>1, <2>2, <2>3 DEF StillToCome
<1>12. NotAhead(v, M)
  <2>1. SUFFICES ASSUME ~v.came, NEW n \in DOMAIN M, Selects(v.q, M[n]), M[n].id \in v.seen
                 PROVE  Rank(v.q, M, n) < Turned(v)
    BY DEF NotAhead
  <2>2. after \subseteq before /\ ~w.came /\ M[n].id \in after
    BY <1>4, <1>8, <2>1 DEF Selected
  <2>3. PICK m \in DOMAIN L : Selects(w.q, L[m]) /\ L[m].id = M[n].id
    BY <2>2 DEF Selected
  <2>4. Rank(w.q, L, m) < Turned(w)
    BY <1>8, <1>9, <2>1, <2>2, <2>3 DEF NotAhead
  <2>5. Rank(w.q, M, n) <= Rank(w.q, L, m)
    BY <2>2, <2>3, OrderBack, RanksGrow
  <2>6. Turned(w) \in Nat
    BY <1>2, SkipIs, ListsAssumption DEF Turned, Walk
  <2>7. Rank(w.q, L, m) \in Nat /\ Rank(w.q, M, n) \in Nat
    BY Ranked
  <2> QED BY <1>8, <1>9, <2>4, <2>5, <2>6, <2>7
<1>13. v.twice => v.came
  BY <1>4, <1>8 DEF WalkOK
<1> QED
  BY <1>8, <1>11, <1>12, <1>13 DEF WalkOK

\* What a client is after it has read a page.
AfterRead(w, sh) == [w EXCEPT !.got = sh, !.seen = @ \cup sh, !.twice = @ \/ sh \cap w.seen # {}]

\* What a walk is after a page has been read.
LEMMA PageRead ==
    ASSUME NEW w \in Walk, NEW sh \in SUBSET RowIds
    PROVE  LET v == AfterRead(w, sh) IN
           /\ v \in Walk /\ v.q = w.q /\ v.page = w.page /\ v.total = w.total /\ v.ended = w.ended
           /\ v.cut = w.cut /\ v.stayed = w.stayed /\ v.left = w.left /\ v.came = w.came
           /\ v.shifted = w.shifted /\ v.got = sh /\ v.seen = w.seen \cup sh
           /\ v.twice <=> w.twice \/ sh \cap w.seen # {}
<1> PICK sn : sn = w.seen \cup sh
  OBVIOUS
<1> PICK tw \in BOOLEAN : tw = (w.twice \/ sh \cap w.seen # {})
  OBVIOUS
<1> PICK v : v = AfterRead(w, sh)
  OBVIOUS
<1>1. v = [w EXCEPT !.got = sh, !.seen = sn, !.twice = tw] /\ sn \subseteq RowIds
  BY DEF AfterRead, Walk
<1>2. /\ v \in Walk /\ v.q = w.q /\ v.page = w.page /\ v.total = w.total /\ v.ended = w.ended
      /\ v.cut = w.cut /\ v.stayed = w.stayed /\ v.left = w.left /\ v.came = w.came
      /\ v.shifted = w.shifted /\ v.got = sh /\ v.seen = sn /\ v.twice = tw
  BY <1>1 DEF Walk
<1> QED
  BY <1>2

\* A page is read.
LEMMA ReadPageKeeps ==
    ASSUME NEW w, NEW L, Listing(L), WalkOK(w, L), ~w.ended, w.got = Null,
           NEW sh, sh = {L[n].id : n \in {m \in PageOf(w.q, L, w.page) : Keeps(w.q, L[m])}},
           NEW v, v = AfterRead(w, sh)
    PROVE  WalkOK(v, L)
<1>1. w \in Walk /\ StillToCome(w, L) /\ NotAhead(w, L) /\ Turned(w) = Skip(w.page)
  BY DEF WalkOK, Turned
<1>2. Skip(w.page) \in Nat /\ PageSize \in Nat \ {0} /\ w.page \in Nat
  BY <1>1, SkipIs, ListsAssumption DEF Walk
<1>3. \A n \in DOMAIN L : Rank(w.q, L, n) \in Nat /\ L[n].id \in RowIds
  <2>1. L \in Seq(Row) /\ \A x \in Row : x.id \in RowIds
    BY DEF Listing, Row
  <2>2. \A n \in DOMAIN L : L[n] \in Row
    BY <2>1
  <2> QED BY <2>1, <2>2, Ranked
<1>4. \A n \in DOMAIN L : n \in PageOf(w.q, L, w.page) <=>
         /\ Selects(w.q, L[n])
         /\ Skip(w.page) <= Rank(w.q, L, n) /\ Rank(w.q, L, n) < Skip(w.page) + PageSize
  BY <1>2, <1>3 DEF PageOf, Rank
<1>5. \A n \in DOMAIN L : L[n].id \in sh <=> n \in PageOf(w.q, L, w.page) /\ Keeps(w.q, L[n])
  BY DEF PageOf, Listing
<1>6. sh \subseteq RowIds /\ \A i \in sh : \E n \in DOMAIN L : L[n].id = i /\ n \in PageOf(w.q, L, w.page)
  BY <1>3 DEF PageOf
<1>7. PICK sn : sn = w.seen \cup sh
  OBVIOUS
<1>8. sh \in SUBSET RowIds
  BY <1>6
<1>9. /\ v \in Walk /\ v.q = w.q /\ v.page = w.page /\ v.total = w.total /\ v.ended = w.ended
       /\ v.cut = w.cut /\ v.stayed = w.stayed /\ v.left = w.left /\ v.came = w.came /\ v.shifted = w.shifted
       /\ v.got = sh /\ v.seen = sn /\ (v.twice <=> w.twice \/ sh \cap w.seen # {})
  BY <1>1, <1>7, <1>8, PageRead
<1>10. v.got # Null /\ Turned(v) = Skip(w.page) + PageSize
  BY <1>6, <1>9, ListsAssumption DEF Turned
<1>11. ASSUME ~w.left, NEW i \in w.stayed \ sn
       PROVE  \E n \in DOMAIN L : /\ L[n].id = i /\ Selects(w.q, L[n])
                                  /\ Skip(w.page) + PageSize <= Rank(w.q, L, n)
  <2>1. PICK n \in DOMAIN L : L[n].id = i /\ Displays(w.q, L[n])
    BY <1>1, <1>11 DEF StillToCome, Displayed
  <2>2. Skip(w.page) <= Rank(w.q, L, n)
    BY <1>1, <1>7, <1>11, <2>1 DEF StillToCome
  <2>3. n \notin PageOf(w.q, L, w.page)
    BY <1>5, <1>7, <1>11, <2>1 DEF Displays
  <2> QED BY <1>2, <1>3, <1>4, <2>1, <2>2, <2>3 DEF Displays
<1>12. StillToCome(v, L)
  <2>1. ASSUME ~v.left, NEW n \in DOMAIN L, L[n].id \in v.stayed \ v.seen
        PROVE  Turned(v) <= Rank(v.q, L, n)
    BY <1>9, <1>10, <1>11, <2>1 DEF Listing
  <2>2. ASSUME v.total # Null, ~v.left, ~v.shifted
        PROVE  v.stayed \subseteq v.seen \/ Skip(v.page) + PageSize < v.total
    <3>1. v.total = Cardinality(Selected(w.q, L)) /\ v.total \in Nat
      BY <1>1, <1>9, <2>2, Ranked DEF StillToCome
    <3>2. ASSUME NEW i \in v.stayed \ v.seen PROVE Skip(v.page) + PageSize < v.total
      BY <1>2, <1>3, <1>9, <1>11, <2>2, <3>1, Ranked
    <3> QED BY <3>2
  <2> QED BY <1>1, <1>9, <1>10, <2>1, <2>2 DEF StillToCome
<1>13. NotAhead(v, L)
  <2>1. SUFFICES ASSUME ~v.came, NEW n \in DOMAIN L, Selects(v.q, L[n]), L[n].id \in v.seen
                 PROVE  Rank(v.q, L, n) < Turned(v)
    BY DEF NotAhead
  <2>2. CASE L[n].id \in w.seen
    BY <1>1, <1>2, <1>3, <1>9, <1>10, <2>1, <2>2 DEF NotAhead
  <2>3. CASE L[n].id \in sh
    BY <1>4, <1>5, <1>9, <1>10, <2>3
  <2> QED BY <1>7, <1>9, <2>1, <2>2, <2>3
<1>14. v.twice => v.came
  <2>1. SUFFICES ASSUME v.twice, ~w.came PROVE FALSE
    BY <1>9
  <2>2. PICK i : i \in sh \cap w.seen
    BY <1>9, <2>1 DEF WalkOK
  <2>3. PICK n \in DOMAIN L : L[n].id = i /\ n \in PageOf(w.q, L, w.page)
    BY <1>6, <2>2
  <2>4. Rank(w.q, L, n) < Skip(w.page)
    BY <1>1, <1>4, <2>1, <2>2, <2>3 DEF NotAhead
  <2> QED BY <1>2, <1>3, <1>4, <2>3, <2>4
<1> QED
  BY <1>9, <1>12, <1>13, <1>14 DEF WalkOK

\* The rows are counted.
LEMMA CountKeeps ==
    ASSUME NEW w, NEW L, Listing(L), WalkOK(w, L), ~w.ended, w.total = Null,
           NEW v, v = [w EXCEPT !.total = Cardinality(Selected(w.q, L))]
    PROVE  WalkOK(v, L)
<1> PICK t : t = Cardinality(Selected(w.q, L))
  OBVIOUS
<1>1. w \in Walk /\ StillToCome(w, L) /\ NotAhead(w, L)
  BY DEF WalkOK
<1>2. t \in Nat /\ t # Null /\ t <= Cardinality(RowIds)
  BY Ranked, ListsAssumption
<1>3. v = [w EXCEPT !.total = t]
  OBVIOUS
<1>4. /\ v \in Walk /\ v.q = w.q /\ v.page = w.page /\ v.got = w.got /\ v.ended = w.ended /\ v.seen = w.seen
      /\ v.cut = w.cut /\ v.stayed = w.stayed /\ v.left = w.left /\ v.came = w.came /\ v.shifted = w.shifted
      /\ v.twice = w.twice /\ v.total = t
  BY <1>1, <1>2, <1>3 DEF Walk
<1>5. Turned(v) = Turned(w)
  BY <1>4 DEF Turned
<1>6. ASSUME v.got # Null, ~v.left PROVE v.stayed \subseteq v.seen \/ Skip(v.page) + PageSize < v.total
  <2>1. ASSUME NEW i \in v.stayed \ v.seen PROVE Skip(v.page) + PageSize < v.total
    <3>1. PICK n \in DOMAIN L : L[n].id = i /\ Displays(w.q, L[n])
      BY <1>1, <1>4, <2>1 DEF StillToCome, Displayed
    <3>2. Skip(w.page) + PageSize <= Rank(w.q, L, n)
      BY <1>1, <1>4, <1>6, <2>1, <3>1 DEF StillToCome, Turned
    <3>3. Rank(w.q, L, n) < t /\ Rank(w.q, L, n) \in Nat
      BY <3>1, Ranked DEF Displays
    <3>4. Skip(w.page) + PageSize \in Nat
      BY <1>1, SkipIs, ListsAssumption DEF Walk
    <3> QED BY <1>2, <1>4, <3>2, <3>3, <3>4
  <2> QED BY <2>1
<1>7. StillToCome(v, L) /\ NotAhead(v, L)
  BY <1>1, <1>4, <1>5, <1>6 DEF StillToCome, NotAhead
<1> QED
  BY <1>2, <1>4, <1>7 DEF WalkOK

\* The client goes on to the next page, which there is.
LEMMA TurnKeeps ==
    ASSUME NEW w, NEW L, WalkOK(w, L), ~w.ended, w.got # Null, w.total # Null, HasNextPage(w.page, w.total),
           NEW v, v = [w EXCEPT !.page = @ + 1, !.got = Null, !.total = Null, !.shifted = FALSE]
    PROVE  WalkOK(v, L)
<1>1. w \in Walk /\ StillToCome(w, L) /\ NotAhead(w, L)
  BY DEF WalkOK
<1>2. w.page \in Nat \ {0} /\ w.total \in Nat /\ w.total <= Cardinality(RowIds) /\ Cardinality(RowIds) \in Nat
  BY <1>1, ListsAssumption, FS_CardinalityType DEF WalkOK, Walk
<1>3. w.page + 1 <= Cardinality(RowIds) + 1
  BY <1>2, NextPage
<1>4. /\ v \in Walk /\ v.q = w.q /\ v.page = w.page + 1 /\ v.got = Null /\ v.ended = w.ended /\ v.seen = w.seen
      /\ v.cut = w.cut /\ v.stayed = w.stayed /\ v.left = w.left /\ v.came = w.came /\ v.shifted = FALSE
      /\ v.twice = w.twice /\ v.total = Null
  <2>1. w.page + 1 \in Nat \ {0}
    BY <1>2
  <2> QED BY <1>1, <2>1 DEF Walk
<1>5. Turned(v) = Turned(w)
  BY <1>2, <1>4, SkipIs DEF Turned
<1>6. StillToCome(v, L) /\ NotAhead(v, L)
  BY <1>1, <1>4, <1>5 DEF StillToCome, NotAhead
<1> QED
  BY <1>3, <1>4, <1>6 DEF WalkOK

\* The client is done, or gives up.
LEMMA EndKeeps ==
    ASSUME NEW w, NEW L, WalkOK(w, L), ~w.ended,
           NEW v, \/ v = [w EXCEPT !.ended = TRUE, !.cut = TRUE]
                  \/ /\ v = [w EXCEPT !.ended = TRUE]
                     /\ w.got # Null /\ w.total # Null /\ ~HasNextPage(w.page, w.total)
    PROVE  WalkOK(v, L)
<1>1. w \in Walk /\ StillToCome(w, L)
  BY DEF WalkOK
<1>2. /\ v \in Walk /\ v.page = w.page /\ v.ended = TRUE /\ v.seen = w.seen /\ v.stayed = w.stayed
      /\ v.left = w.left /\ v.came = w.came /\ v.shifted = w.shifted /\ v.twice = w.twice /\ v.total = w.total
      /\ v.cut \/ (w.got # Null /\ w.total # Null /\ ~HasNextPage(w.page, w.total))
  BY <1>1 DEF Walk
<1>3. ASSUME ~v.left, ~v.shifted, ~v.cut PROVE v.stayed \subseteq v.seen
  <2>1. w.page \in Nat \ {0} /\ w.total \in Nat /\ ~(Skip(w.page) + PageSize < w.total)
    <3>1. w.page \in Nat \ {0} /\ w.total \in Nat
      BY <1>1, <1>2, <1>3 DEF Walk
    <3> QED BY <1>2, <1>3, <3>1, NextPage
  <2> QED BY <1>1, <1>2, <1>3, <2>1 DEF StillToCome
<1> QED
  BY <1>2, <1>3 DEF WalkOK

\* A client opens a list.
LEMMA OpenKeeps ==
    ASSUME NEW L, Listing(L), NEW q \in ListQueries,
           NEW v, v = [q |-> q, page |-> 1, got |-> Null, total |-> Null, ended |-> FALSE, seen |-> {},
                       stayed |-> Displayed(q, L),
                       left |-> FALSE, came |-> FALSE, shifted |-> FALSE, cut |-> FALSE, twice |-> FALSE]
    PROVE  WalkOK(v, L)
<1>1. Displayed(q, L) \subseteq RowIds
  <2>1. L \in Seq(Row) /\ \A x \in Row : x.id \in RowIds
    BY DEF Listing, Row
  <2>2. \A n \in DOMAIN L : L[n] \in Row
    BY <2>1
  <2> QED BY <2>1, <2>2 DEF Displayed
<1>2. /\ v \in Walk /\ v.q = q /\ v.page = 1 /\ v.got = Null /\ v.total = Null /\ v.ended = FALSE
      /\ v.seen = {} /\ v.stayed = Displayed(q, L) /\ v.twice = FALSE
  BY <1>1 DEF Walk
<1>3. Turned(v) = 0
  BY <1>2, SkipIs DEF Turned
<1>4. \A n \in DOMAIN L : 0 <= Rank(q, L, n)
  BY Ranked
<1>5. StillToCome(v, L) /\ NotAhead(v, L)
  BY <1>2, <1>3, <1>4 DEF StillToCome, NotAhead
<1>6. Cardinality(RowIds) \in Nat
  BY Ranked
<1> QED
  BY <1>2, <1>5, <1>6 DEF WalkOK

\* A row comes at a place, goes, or changes; the others keep their order.
LEMMA Inserted ==
    ASSUME NEW L, Listing(L), NEW at \in 1 .. Len(L) + 1, NEW x \in Row, x.id \notin Ids(L)
    PROVE  Listing(InsertAt(L, at, x)) /\ SameOrder(L, InsertAt(L, at, x))
<1> DEFINE M == InsertAt(L, at, x)
           back(n) == IF n < at THEN n ELSE n - 1
<1>1. L \in Seq(Row) /\ Len(L) \in Nat /\ DOMAIN L = 1 .. Len(L)
  BY DEF Listing
<1>2. /\ M \in Seq(Row) /\ Len(M) = Len(L) + 1 /\ M[at] = x
      /\ \A n \in 1 .. at - 1 : M[n] = L[n]
      /\ \A n \in at + 1 .. Len(L) + 1 : M[n] = L[n - 1]
  <2> DEFINE A == SubSeq(L, 1, at - 1)
             B == SubSeq(L, at, Len(L))
  <2>1. /\ A \in Seq(Row) /\ Len(A) = at - 1 /\ \A n \in 1 .. at - 1 : A[n] = L[n]
    BY <1>1
  <2>2. /\ B \in Seq(Row) /\ Len(B) = Len(L) - at + 1
        /\ \A n \in 1 .. Len(L) - at + 1 : B[n] = L[at + n - 1]
    BY <1>1
  <2>3. M = A \o <<x>> \o B
    BY DEF InsertAt
  <2> HIDE DEF M, A, B
  <2> DEFINE C == A \o <<x>>
  <2>4. /\ C \in Seq(Row) /\ Len(C) = at /\ C[at] = x /\ \A n \in 1 .. at - 1 : C[n] = L[n]
    BY <2>1
  <2>5. M = C \o B
    BY <2>3
  <2> HIDE DEF C
  <2>6. M \in Seq(Row) /\ Len(M) = Len(L) + 1 /\ M[at] = x /\ \A n \in 1 .. at - 1 : M[n] = L[n]
    <3>1. M \in Seq(Row)
      BY <2>2, <2>4, <2>5
    <3>2. Len(M) = Len(C) + Len(B)
      BY <2>2, <2>4, <2>5
    <3>3. \A n \in 1 .. Len(C) : M[n] = C[n]
      BY <2>2, <2>4, <2>5
    <3>4. Len(M) = Len(L) + 1
      BY <1>1, <2>2, <2>4, <3>2
    <3>5. at \in 1 .. Len(C) /\ \A n \in 1 .. at - 1 : n \in 1 .. Len(C)
      BY <2>4
    <3> QED BY <2>4, <3>1, <3>3, <3>4, <3>5
  <2>7. ASSUME NEW n \in at + 1 .. Len(L) + 1 PROVE M[n] = L[n - 1]
    <3>1. M[n] = B[n - at]
      BY <1>1, <2>2, <2>4, <2>5
    <3>2. n - at \in 1 .. Len(L) - at + 1 /\ at + (n - at) - 1 = n - 1
      BY <1>1
    <3> QED BY <2>2, <3>1, <3>2
  <2> QED BY <2>6, <2>7
<1> HIDE DEF M
<1>3. \A n \in DOMAIN M : n \in Int /\ (n = at \/ (n # at /\ back(n) \in DOMAIN L /\ M[n] = L[back(n)]))
  BY <1>1, <1>2
<1>4. \A n \in DOMAIN L : L[n].id # x.id
  BY DEF Ids
<1>5. Listing(M)
  <2>1. ASSUME NEW m \in DOMAIN M, NEW n \in DOMAIN M, M[m].id = M[n].id PROVE m = n
    <3>1. CASE m = at \/ n = at
      BY <1>2, <1>3, <1>4, <2>1, <3>1
    <3>2. CASE m # at /\ n # at
      <4>1. back(m) = back(n)
        BY <1>3, <2>1, <3>2 DEF Listing
      <4> QED BY <1>3, <3>2, <4>1
    <3> QED BY <3>1, <3>2
  <2> QED BY <1>2, <2>1 DEF Listing
<1>6. SameOrder(L, M)
  <2>1. ASSUME NEW m \in DOMAIN L, NEW k \in DOMAIN M, L[m].id = M[k].id PROVE k # at /\ m = back(k)
    BY <1>2, <1>3, <1>4, <2>1 DEF Listing
  <2> QED BY <1>1, <1>3, <2>1 DEF SameOrder
<1> QED
  BY <1>5, <1>6 DEF M

\* A row is taken out of the list.
LEMMA Removed ==
    ASSUME NEW L, Listing(L), NEW at \in DOMAIN L
    PROVE  Listing(RemoveAt(L, at)) /\ SameOrder(L, RemoveAt(L, at))
<1> DEFINE M == RemoveAt(L, at)
           on(n) == IF n < at THEN n ELSE n + 1
<1>1. L \in Seq(Row) /\ Len(L) \in Nat /\ DOMAIN L = 1 .. Len(L)
  BY DEF Listing
<1>2. /\ M \in Seq(Row) /\ Len(M) = Len(L) - 1
      /\ \A n \in 1 .. at - 1 : M[n] = L[n]
      /\ \A n \in at .. Len(L) - 1 : M[n] = L[n + 1]
  <2> DEFINE A == SubSeq(L, 1, at - 1)
             B == SubSeq(L, at + 1, Len(L))
  <2>1. /\ A \in Seq(Row) /\ Len(A) = at - 1 /\ \A n \in 1 .. at - 1 : A[n] = L[n]
    BY <1>1
  <2>2. /\ B \in Seq(Row) /\ Len(B) = Len(L) - at
        /\ \A n \in 1 .. Len(L) - at : B[n] = L[at + n]
    BY <1>1
  <2>3. M = A \o B
    BY DEF RemoveAt
  <2> HIDE DEF M, A, B
  <2>4. M \in Seq(Row) /\ Len(M) = Len(L) - 1 /\ \A n \in 1 .. at - 1 : M[n] = L[n]
    <3>1. M \in Seq(Row)
      BY <2>1, <2>2, <2>3
    <3>2. Len(M) = Len(A) + Len(B)
      BY <2>1, <2>2, <2>3, ConcatProperties
    <3>3. \A n \in 1 .. Len(A) : M[n] = A[n]
      BY <2>1, <2>2, <2>3
    <3>4. Len(M) = Len(L) - 1
      BY <1>1, <2>1, <2>2, <3>2
    <3> QED BY <2>1, <3>1, <3>3, <3>4
  <2>5. ASSUME NEW n \in at .. Len(L) - 1 PROVE M[n] = L[n + 1]
    <3>1. M[n] = B[n - at + 1]
      BY <1>1, <2>1, <2>2, <2>3
    <3>2. n - at + 1 \in 1 .. Len(L) - at /\ at + (n - at + 1) = n + 1
      BY <1>1
    <3> QED BY <2>2, <3>1, <3>2
  <2> QED BY <2>4, <2>5
<1> HIDE DEF M
<1>3. \A n \in DOMAIN M : n \in Int /\ on(n) \in DOMAIN L /\ M[n] = L[on(n)]
  BY <1>1, <1>2
<1>4. Listing(M)
  <2>1. ASSUME NEW m \in DOMAIN M, NEW n \in DOMAIN M, M[m].id = M[n].id PROVE m = n
    <3>1. on(m) = on(n)
      BY <1>3, <2>1 DEF Listing
    <3> QED BY <1>1, <1>3, <3>1
  <2> QED BY <1>2, <2>1 DEF Listing
<1>5. SameOrder(L, M)
  <2>1. ASSUME NEW m \in DOMAIN L, NEW k \in DOMAIN M, L[m].id = M[k].id PROVE m = on(k)
    BY <1>3, <2>1 DEF Listing
  <2> QED BY <1>1, <1>3, <2>1 DEF SameOrder
<1> QED
  BY <1>4, <1>5 DEF M

\* A row is changed in its place.
LEMMA Edited ==
    ASSUME NEW L, Listing(L), NEW at \in DOMAIN L, NEW f \in Fits, NEW M, M = [L EXCEPT ![at].fit = f]
    PROVE  Listing(M) /\ SameOrder(L, M)
<1>1. L \in Seq(Row) /\ L[at] \in Row /\ DOMAIN L = 1 .. Len(L)
  BY DEF Listing
<1> PICK x : x = [L[at] EXCEPT !.fit = f]
  OBVIOUS
<1>2. x \in Row /\ x.id = L[at].id
  BY <1>1 DEF Row
<1>3. M = [L EXCEPT ![at] = x]
  OBVIOUS
<1>4. M \in Seq(Row) /\ DOMAIN M = DOMAIN L /\ \A n \in DOMAIN L : M[n].id = L[n].id
  BY <1>1, <1>2, <1>3
<1> QED
  BY <1>1, <1>4 DEF Listing, SameOrder

\* The table becomes another, in the same order.
LEMMA TableBecomes ==
    ASSUME ListsOK, NEW M, Listing(M), SameOrder(rows, M), Becomes(M)
    PROVE  ListsOK'
<1>1. rows' = M /\ Listing(rows')
  BY DEF Becomes
<1>2. CASE ~Walking
  <2>1. walk' = walk
    BY <1>2 DEF Becomes
  <2>2. CASE walk # Null
    <3>1. WalkOK(walk, rows) /\ walk.ended
      BY <1>2, <2>2 DEF ListsOK, Walking
    <3>2. WalkOK(walk, rows')
      BY <3>1 DEF WalkOK
    <3> QED BY <1>1, <2>1, <3>2 DEF ListsOK
  <2> QED BY <1>1, <2>1, <2>2 DEF ListsOK
<1>3. CASE Walking
  <2> PICK w : w = walk
    OBVIOUS
  <2>1. WalkOK(w, rows) /\ ~w.ended /\ Listing(rows)
    BY <1>3 DEF ListsOK, Walking
  <2>2. walk' = [w EXCEPT
                    !.stayed = @ \cap Displayed(w.q, M),
                    !.left = @ \/ ~(Selected(w.q, rows) \subseteq Selected(w.q, M)),
                    !.came = @ \/ ~(Selected(w.q, M) \subseteq Selected(w.q, rows)),
                    !.shifted = @ \/ (~(Selected(w.q, M) \subseteq Selected(w.q, rows)) /\
                                      w.total # Null /\ w.got = Null)]
    BY <1>3 DEF Becomes
  <2>3. WalkOK(walk', M)
    BY <2>1, <2>2, BecomesKeeps
  <2> QED BY <1>1, <2>3 DEF ListsOK
<1> QED
  BY <1>2, <1>3

\* Whatever becomes of the table, the walk is told.
LEMMA TableKeeps ==
    ASSUME ListsOK, InsertRow \/ DropRow \/ EditRow
    PROVE  ListsOK'
<1>1. Listing(rows) /\ rows \in Seq(Row) /\ DOMAIN rows = 1 .. Len(rows)
  BY DEF ListsOK, Listing
<1>2. CASE InsertRow
  <2> PICK i \in RowIds \ Ids(rows), mine \in BOOLEAN, fit \in Fits, at \in 1 .. Len(rows) + 1 :
        Becomes(InsertAt(rows, at, [id |-> i, mine |-> mine, fit |-> fit]))
    BY <1>2 DEF InsertRow
  <2> PICK x : x = [id |-> i, mine |-> mine, fit |-> fit]
    OBVIOUS
  <2>1. x \in Row /\ x.id \notin Ids(rows)
    BY DEF Row
  <2>2. Listing(InsertAt(rows, at, x)) /\ SameOrder(rows, InsertAt(rows, at, x))
    BY <1>1, <2>1, Inserted
  <2> QED BY <2>2, TableBecomes
<1>3. CASE DropRow
  <2> PICK n \in DOMAIN rows : Becomes(RemoveAt(rows, n))
    BY <1>3 DEF DropRow
  <2> QED BY <1>1, Removed, TableBecomes
<1>4. CASE EditRow
  <2> PICK n \in DOMAIN rows, fit \in Fits : Becomes([rows EXCEPT ![n].fit = fit])
    BY <1>4 DEF EditRow
  <2> PICK M : M = [rows EXCEPT ![n].fit = fit]
    OBVIOUS
  <2>1. Listing(M) /\ SameOrder(rows, M) /\ Becomes(M)
    BY <1>1, Edited
  <2> QED BY <2>1, TableBecomes
<1> QED
  BY <1>2, <1>3, <1>4

\* Whatever the lists do keeps their part.
LEMMA ListStepKeeps ==
    ASSUME ListsOK, ListSteps
    PROVE  ListsOK'
<1> PICK w : w = walk
  OBVIOUS
<1>1. Listing(rows) /\ (w # Null => WalkOK(w, rows))
  BY DEF ListsOK
<1>2. ASSUME UNCHANGED rows, walk' = Null \/ WalkOK(walk', rows) PROVE ListsOK'
  BY <1>1, <1>2 DEF ListsOK
<1>3. CASE OpenList
  <2> PICK q \in ListQueries :
        walk' = [q |-> q, page |-> 1, got |-> Null, total |-> Null, ended |-> FALSE, seen |-> {},
                 stayed |-> Displayed(q, rows),
                 left |-> FALSE, came |-> FALSE, shifted |-> FALSE, cut |-> FALSE, twice |-> FALSE]
    BY <1>3 DEF OpenList
  <2>1. WalkOK(walk', rows)
    BY <1>1, OpenKeeps
  <2> QED BY <1>2, <1>3, <2>1 DEF OpenList
<1>4. CASE ReadPage
  <2> PICK sh : sh = {rows[n].id : n \in {m \in PageOf(w.q, rows, w.page) : Keeps(w.q, rows[m])}}
    OBVIOUS
  <2>1. walk' = AfterRead(w, sh) /\ w # Null /\ ~w.ended /\ w.got = Null /\ UNCHANGED rows
    BY <1>4 DEF ReadPage, AfterRead, Walking
  <2>2. WalkOK(walk', rows)
    BY <1>1, <2>1, ReadPageKeeps
  <2> QED BY <1>2, <2>1, <2>2
<1>5. CASE CountRows
  <2>1. /\ walk' = [w EXCEPT !.total = Cardinality(Selected(w.q, rows))]
        /\ w # Null /\ ~w.ended /\ w.total = Null /\ UNCHANGED rows
    BY <1>5 DEF CountRows, Walking
  <2>2. WalkOK(walk', rows)
    BY <1>1, <2>1, CountKeeps
  <2> QED BY <1>2, <2>1, <2>2
<1>6. CASE TurnPage
  <2>1. w # Null /\ ~w.ended /\ w.got # Null /\ w.total # Null /\ UNCHANGED rows
    BY <1>6 DEF TurnPage, Walking
  <2>2. CASE HasNextPage(w.page, w.total)
    <3>1. walk' = [w EXCEPT !.page = @ + 1, !.got = Null, !.total = Null, !.shifted = FALSE]
      BY <1>6, <2>2 DEF TurnPage
    <3>2. WalkOK(walk', rows)
      BY <1>1, <2>1, <2>2, <3>1, TurnKeeps
    <3> QED BY <1>2, <2>1, <3>2
  <2>3. CASE ~HasNextPage(w.page, w.total)
    <3>1. walk' = [w EXCEPT !.ended = TRUE]
      BY <1>6, <2>3 DEF TurnPage
    <3>2. WalkOK(walk', rows)
      BY <1>1, <2>1, <2>3, <3>1, EndKeeps
    <3> QED BY <1>2, <2>1, <3>2
  <2> QED BY <2>2, <2>3
<1>7. CASE GiveUp
  <2>1. walk' = [w EXCEPT !.ended = TRUE, !.cut = TRUE] /\ w # Null /\ ~w.ended /\ UNCHANGED rows
    BY <1>7 DEF GiveUp, Walking
  <2>2. WalkOK(walk', rows)
    BY <1>1, <2>1, EndKeeps
  <2> QED BY <1>2, <2>1, <2>2
<1>8. CASE CloseList
  BY <1>2, <1>8 DEF CloseList
<1> QED
  BY <1>3, <1>4, <1>5, <1>6, <1>7, <1>8, TableKeeps DEF ListSteps

\* Steps of the other parts.
LEMMA ListsAside == ASSUME ListsOK, UNCHANGED listVars PROVE ListsOK'
BY DEF ListsOK, listVars

\* The seeded list, and nobody looks.
LEMMA ListsBegin == ASSUME ListsInit PROVE ListsOK
BY ListsAssumption DEF ListsInit, ListsOK, Listing

\* What the runs check of a walk.
LEMMA ListsShow == ASSUME ListsOK PROVE WalksMissNothing
BY DEF ListsOK, WalkOK, WalksMissNothing

-----------------------------------------------------------------------------
(***************************************************************************)
(* All of them together                                                    *)
(***************************************************************************)
OInv ==
    /\ CallsOK
    /\ SettingsOK /\ ServicesOK /\ AccountsOK
    /\ DeskOK /\ PublishingOK /\ SchemaOK

\* What no step does, whatever part it is of.
OStep == DoorsKept /\ PublishedStep /\ SameBut(Entries)

\* A step that keeps to its part's entries keeps to those of all.
LEMMA Wider ==
    /\ SameBut(Views) \/ SameBut(Lists0 \cup Ones \cup {Bust}) \/ SameBut(Doors) \/ SameBut({})
          => SameBut(Entries)
BY DEF SameBut, Entries

\* What a restart leaves behind are entries that a change was about to drop.
LEMMA LeftBehind ==
    ASSUME CallsOK, CacheRestart
    PROVE  SameBut(Entries)
<1>1. ASSUME NEW h \in Handlers, handler[h].pc = "drop" PROVE handler[h].entries \subseteq Entries
  BY <1>1, PlacedAt DEF CallsOK, Dropper, ServiceDrop, Ones, Entries
<1>2. CutShort \subseteq Entries
  BY <1>1 DEF CutShort, Busy
<1> QED
  BY <1>2 DEF CacheRestart, SameBut

\* No operation is of two parts.
LEMMA OpsApart ==
    /\ SettingOps \cap ServiceOps = {} /\ SettingOps \cap AccountOps = {} /\ SettingOps \cap DeskOps = {}
    /\ SettingOps \cap PublishingOps = {} /\ SettingOps \cap ScriptOps = {}
    /\ ServiceOps \cap AccountOps = {} /\ ServiceOps \cap DeskOps = {}
    /\ ServiceOps \cap PublishingOps = {} /\ ServiceOps \cap ScriptOps = {}
    /\ AccountOps \cap DeskOps = {} /\ AccountOps \cap PublishingOps = {} /\ AccountOps \cap ScriptOps = {}
    /\ DeskOps \cap PublishingOps = {} /\ DeskOps \cap ScriptOps = {}
    /\ PublishingOps \cap ScriptOps = {}
BY DEF SettingOps, SettingWrites, ServiceOps, ServiceWrites, AccountOps, UserWrites, DeskOps,
       PublishingOps, ScriptOps

\* No part has an entry of another.
LEMMA CachesApart ==
    /\ Views \cap Ones = {} /\ Views \cap Doors = {} /\ Ones \cap Doors = {}
    /\ (Lists0 \cup Ones \cup {Bust}) \cap Views = {} /\ (Lists0 \cup Ones \cup {Bust}) \cap Doors = {}
BY EntriesApart

\* The invariant holds at the start.
LEMMA OfficeInit ==
    ASSUME Init
    PROVE  OInv
<1>1. /\ handler = [h \in Handlers |-> Idle] /\ calls = 0 /\ workload \in Workloads
      /\ \A h \in Handlers : handler[h] = Idle
      /\ DOMAIN cache = {} /\ overtaken = {}
  BY DEF Init, RequestsInit, CacheInit
<1>2. CallsOK
  BY <1>1, CallsAssumption DEF CallsOK, Placed
<1>3. SettingsOK
  <2>1. SettingRows
    BY SettingsAssumption DEF Init, SettingsInit, SettingRows
  <2>2. \A h \in Handlers : SettingKnows(handler[h])
    BY <1>1, IdleNone DEF SettingKnows, SettingWrites
  <2> QED BY <1>1, <2>1, <2>2 DEF SettingsOK, SettingsAreCurrent, Current, Cached
<1>4. ServicesOK
  <2>1. ServiceRows
    BY ServicesAssumption DEF Init, ServicesInit, ServiceRows, Range
  <2>2. \A h \in Handlers : ServiceKnows(handler[h])
    BY <1>1, IdleNone DEF ServiceKnows, ServiceWrites
  <2> QED BY <1>1, <2>1, <2>2 DEF ServicesOK, ServicesAreCurrent, Current, Cached
<1>5. AccountsOK
  <2>1. UserRows /\ OneUserPerEmail
    BY AccountsAssumption DEF Init, AccountsInit, UserRows, OneUserPerEmail, Holding, Range
  <2>2. \A h \in Handlers : AccountKnows(handler[h])
    BY <1>1, IdleNone DEF AccountKnows, UserWrites
  <2> QED BY <2>1, <2>2 DEF AccountsOK
<1>6. DeskOK
  <2>1. DeskRows /\ RespondedHasTime
    BY DEF Init, DeskInit, DeskRows, RespondedHasTime, Inquiries
  <2>2. \A h \in Handlers : DeskKnows(handler[h]) /\ handler[h].op \notin DeskOps
    BY <1>1, IdleNone DEF DeskKnows, DeskOps
  <2> QED BY <2>1, <2>2 DEF DeskOK
<1>7. PublishingOK
  <2>1. PublishingRows /\ MediaRowsHaveFiles
    BY DEF Init, PublishingInit, PublishingRows, MediaRowsHaveFiles, Contents
  <2>2. \A h \in Handlers : PublishingKnows(handler[h])
    BY <1>1, IdleNone DEF PublishingKnows
  <2> QED BY <2>1, <2>2 DEF PublishingOK
<1>8. SchemaOK
  <2>1. SchemaFacts
    BY DEF Init, MigrationsInit, SchemaFacts, Made
  <2>2. \A h \in Handlers : ScriptKnows(handler[h])
    BY <1>1, IdleNone DEF ScriptKnows, ScriptOps
  <2> QED BY <2>1, <2>2 DEF SchemaOK
<1> QED
  BY <1>2, <1>3, <1>4, <1>5, <1>6, <1>7, <1>8 DEF OInv

\* A step of nobody's calls, rows and entries.
LEMMA NobodysStep ==
    ASSUME OInv, CallsOK', Within({}), UNCHANGED partVars
    PROVE  /\ SettingsOK' /\ ServicesOK' /\ AccountsOK' /\ DeskOK' /\ PublishingOK' /\ OStep
           /\ UNCHANGED schemaVars => SchemaOK'
<1>1. SameBut({}) /\ UNCHANGED <<setting, service, user, deskVars, publishingVars>>
  BY NoEntry DEF partVars, rowVars
<1>2. \A S : {} \cap S = {}
  OBVIOUS
<1>3. SettingsOK' /\ ServicesOK' /\ AccountsOK' /\ DoorsKept
  BY <1>1, <1>2, SettingsAside, ServicesAside, AccountsAside DEF OInv
<1>4. DeskOK' /\ PublishingOK' /\ PublishedStep
  BY <1>1, <1>2, DeskAside, PublishingAside DEF OInv
<1>5. UNCHANGED schemaVars => SchemaOK'
  BY <1>2, SchemaAside DEF OInv
<1> QED
  BY <1>1, <1>3, <1>4, <1>5, Wider DEF OStep

\* A step of the settings leaves the other parts alone.
LEMMA SettingPart ==
    ASSUME OInv, SettingKept, UNCHANGED <<service, user, deskVars, publishingVars, schemaVars>>
    PROVE  OInv' /\ OStep
<1>1. CallsOK' /\ Within(SettingOps) /\ SameBut(Views) /\ SettingsOK'
  BY DEF SettingKept
<1>2. ServicesOK' /\ AccountsOK' /\ DoorsKept
  BY <1>1, OpsApart, CachesApart, ServicesAside, AccountsAside DEF OInv
<1>3. DeskOK' /\ PublishingOK' /\ PublishedStep /\ SchemaOK'
  BY <1>1, OpsApart, DeskAside, PublishingAside, SchemaAside DEF OInv
<1> QED
  BY <1>1, <1>2, <1>3, Wider DEF OInv, OStep

\* So does a step of the services.
LEMMA ServicePart ==
    ASSUME OInv, ServiceKept, UNCHANGED <<setting, user, deskVars, publishingVars, schemaVars>>
    PROVE  OInv' /\ OStep
<1>1. CallsOK' /\ Within(ServiceOps) /\ SameBut(Lists0 \cup Ones \cup {Bust}) /\ ServicesOK'
  BY DEF ServiceKept
<1>2. SettingsOK' /\ AccountsOK' /\ DoorsKept
  BY <1>1, OpsApart, CachesApart, SettingsAside, AccountsAside DEF OInv
<1>3. DeskOK' /\ PublishingOK' /\ PublishedStep /\ SchemaOK'
  BY <1>1, OpsApart, DeskAside, PublishingAside, SchemaAside DEF OInv
<1> QED
  BY <1>1, <1>2, <1>3, Wider DEF OInv, OStep

\* So does a step of the users.
LEMMA AccountPart ==
    ASSUME OInv, AccountKept, UNCHANGED <<setting, service, deskVars, publishingVars, schemaVars>>
    PROVE  OInv' /\ OStep
<1>1. CallsOK' /\ Within(AccountOps) /\ SameBut(Doors) /\ AccountsOK' /\ DoorsKept
  BY DEF AccountKept
<1>2. SettingsOK' /\ ServicesOK'
  BY <1>1, OpsApart, CachesApart, SettingsAside, ServicesAside DEF OInv
<1>3. DeskOK' /\ PublishingOK' /\ PublishedStep /\ SchemaOK'
  BY <1>1, OpsApart, DeskAside, PublishingAside, SchemaAside DEF OInv
<1> QED
  BY <1>1, <1>2, <1>3, Wider DEF OInv, OStep

\* So does a step of the desk.
LEMMA DeskPart ==
    ASSUME OInv, DeskKept, UNCHANGED <<cacheVars, rowVars, publishingVars, schemaVars>>
    PROVE  OInv' /\ OStep
<1>1. CallsOK' /\ Within(DeskOps) /\ DeskOK'
  BY DEF DeskKept
<1>2. SameBut({}) /\ UNCHANGED <<setting, service, user>> /\ \A S : {} \cap S = {}
  BY NoEntry DEF rowVars
<1>3. SettingsOK' /\ ServicesOK' /\ AccountsOK' /\ DoorsKept
  BY <1>1, <1>2, OpsApart, SettingsAside, ServicesAside, AccountsAside DEF OInv
<1>4. PublishingOK' /\ PublishedStep /\ SchemaOK'
  BY <1>1, OpsApart, PublishingAside, SchemaAside DEF OInv
<1> QED
  BY <1>1, <1>2, <1>3, <1>4, Wider DEF OInv, OStep

\* So does a step of what is published.
LEMMA PublishingPart ==
    ASSUME OInv, PublishingKept, UNCHANGED <<cacheVars, rowVars, deskVars, schemaVars>>
    PROVE  OInv' /\ OStep
<1>1. CallsOK' /\ Within(PublishingOps) /\ PublishingOK' /\ PublishedStep
  BY DEF PublishingKept
<1>2. SameBut({}) /\ UNCHANGED <<setting, service, user>> /\ \A S : {} \cap S = {}
  BY NoEntry DEF rowVars
<1>3. SettingsOK' /\ ServicesOK' /\ AccountsOK' /\ DoorsKept
  BY <1>1, <1>2, OpsApart, SettingsAside, ServicesAside, AccountsAside DEF OInv
<1>4. DeskOK' /\ SchemaOK'
  BY <1>1, OpsApart, DeskAside, SchemaAside DEF OInv
<1> QED
  BY <1>1, <1>2, <1>3, <1>4, Wider DEF OInv, OStep

\* So does a step of the scripts.
LEMMA SchemaPart ==
    ASSUME OInv, SchemaKept, UNCHANGED partVars
    PROVE  OInv' /\ OStep
<1>1. CallsOK' /\ Within(ScriptOps) /\ SchemaOK'
  BY DEF SchemaKept
<1>2. /\ SameBut({}) /\ UNCHANGED <<setting, service, user, deskVars, publishingVars>>
      /\ \A S : {} \cap S = {}
  BY NoEntry DEF partVars, rowVars
<1>3. SettingsOK' /\ ServicesOK' /\ AccountsOK' /\ DoorsKept
  BY <1>1, <1>2, OpsApart, SettingsAside, ServicesAside, AccountsAside DEF OInv
<1>4. DeskOK' /\ PublishingOK' /\ PublishedStep
  BY <1>1, <1>2, OpsApart, DeskAside, PublishingAside DEF OInv
<1> QED
  BY <1>1, <1>2, <1>3, <1>4, Wider DEF OInv, OStep

\* Every step of the backend keeps the invariant.
LEMMA OfficeStep ==
    ASSUME OInv, [Next]_officeVars
    PROVE  OInv' /\ OStep
<1>1. CASE UNCHANGED officeVars
  <2>1. UNCHANGED <<requests, partVars, listVars, schemaVars>>
    BY <1>1 DEF officeVars, partVars
  <2>2. CallsOK' /\ Within({})
    BY <2>1 DEF OInv, CallsOK, Within, requests, Placed, Reading, Plain, Taxing, Dropper, ServiceDrop, Elsewhere
  <2> QED BY <2>1, <2>2, NobodysStep DEF OInv
<1>2. CASE \E e \in Shown \cup {Bust} : Ends(e)
  <2> PICK e \in Shown \cup {Bust} : Ends(e)
    BY <1>2
  <2>1. Expire(e) /\ UNCHANGED <<requests, setting, service, user, deskVars, publishingVars, schemaVars>>
    BY DEF Ends, Expire, rowVars
  <2>2. CallsOK' /\ Within({}) /\ \A S : {} \cap S = {}
    BY <2>1 DEF OInv, CallsOK, Within, requests, Placed, Reading, Plain, Taxing, Dropper, ServiceDrop, Elsewhere
  <2>3. SettingsOK' /\ ServicesOK' /\ AccountsOK' /\ DoorsKept
    BY <2>1, SettingsExpire, ServicesExpire, AccountsExpire DEF OInv
  <2>4. DeskOK' /\ PublishingOK' /\ PublishedStep /\ SchemaOK'
    BY <2>1, <2>2, DeskAside, PublishingAside, SchemaAside DEF OInv
  <2>5. SameBut(Entries)
    <3>1. e \in Entries
      BY DEF Shown, ShowingServices, Entries, Lists0, Ones, Doors
    <3>2. /\ DOMAIN cache' = DOMAIN cache \ {e} /\ \A x \in DOMAIN cache \ {e} : cache'[x] = cache[x]
          /\ overtaken' = overtaken \ {e}
      BY <2>1 DEF Expire, Drop, Without, Restrict
    <3> QED BY <3>1, <3>2 DEF SameBut
  <2> QED BY <2>2, <2>3, <2>4, <2>5 DEF OInv, OStep
<1>3. CASE /\ \E h \in Handlers : Steps(h) \/ Calls(h)
           /\ UNCHANGED schemaVars
  <2> PICK h \in Handlers : Steps(h) \/ Calls(h)
    BY <1>3
  <2>1. CASE (SettingSteps(h) \/ SettingCalls(h)) /\ UNCHANGED <<service, user, deskVars, publishingVars>>
    BY <1>3, <2>1, SettingStepKeeps, SettingPart DEF OInv
  <2>2. CASE (ServiceSteps(h) \/ ServiceCalls(h)) /\ UNCHANGED <<setting, user, deskVars, publishingVars>>
    BY <1>3, <2>2, ServiceStepKeeps, ServicePart DEF OInv
  <2>3. CASE (AccountSteps(h) \/ AccountCalls(h)) /\ UNCHANGED <<setting, service, deskVars, publishingVars>>
    BY <1>3, <2>3, AccountStepKeeps, AccountPart DEF OInv
  <2>4. CASE (DeskSteps(h) \/ DeskCalls(h)) /\ UNCHANGED <<cacheVars, rowVars, publishingVars>>
    BY <1>3, <2>4, DeskStepKeeps, DeskPart DEF OInv
  <2>5. CASE (PublishingSteps(h) \/ PublishingCalls(h)) /\ UNCHANGED <<cacheVars, rowVars, deskVars>>
    BY <1>3, <2>5, PublishingStepKeeps, PublishingPart DEF OInv
  <2> QED BY <2>1, <2>2, <2>3, <2>4, <2>5 DEF Steps, Calls
<1>4. CASE DeskEdits /\ UNCHANGED <<cacheVars, rowVars, publishingVars, schemaVars>>
  BY <1>4, DeskStepKeeps, DeskPart DEF OInv
<1>5. CASE PublishingEdits /\ UNCHANGED <<cacheVars, rowVars, deskVars, schemaVars>>
  BY <1>5, PublishingStepKeeps, PublishingPart DEF OInv
<1>6. CASE ListSteps /\ UNCHANGED <<partVars, schemaVars>>
  <2>1. (\E op : AtOnce(op)) \/ UNCHANGED requests
    BY <1>6 DEF ListSteps, OpenList, ReadPage, CountRows, TurnPage, GiveUp, CloseList, InsertRow, DropRow, EditRow
  <2>2. CallsOK' /\ Within({})
    <3>1. CASE \E op : AtOnce(op)
      BY <3>1, AtOnceMoves DEF OInv
    <3>2. CASE UNCHANGED requests
      BY <3>2 DEF OInv, CallsOK, Within, requests, Placed, Reading, Plain, Taxing, Dropper, ServiceDrop, Elsewhere
    <3> QED BY <2>1, <3>1, <3>2
  <2> QED BY <1>6, <2>2, NobodysStep DEF OInv
<1>7. CASE (SchemaEdits \/ \E h \in Handlers : MigrationCalls(h) \/ MigrationSteps(h)) /\ UNCHANGED partVars
  BY <1>7, SchemaEditsKeep, SchemaStepKeeps, SchemaPart DEF OInv
<1>8. CASE Restart
  <2>1. /\ handler' = [h \in Handlers |-> Idle] /\ CacheRestart /\ StopAll
        /\ UNCHANGED <<setting, service, user, deskVars, publishingVars>> /\ Asked("restart")
    BY <1>8 DEF Restart, rowVars
  <2>2. CallsOK'
    <3>1. calls' \in 0 .. MaxCalls /\ workload' \in Workloads
      BY <2>1, Counted DEF OInv
    <3> QED BY <2>1, <3>1 DEF CallsOK, Placed
  <2>3. SettingsOK' /\ ServicesOK' /\ AccountsOK' /\ DoorsKept
    BY <2>1, SettingsRestart, ServicesRestart, AccountsRestart DEF OInv
  <2>4. DeskOK' /\ PublishingOK' /\ PublishedStep /\ SchemaOK'
    BY <2>1, DeskRestart, PublishingRestart, SchemaRestart DEF OInv
  <2>5. SameBut(Entries)
    BY <2>1, LeftBehind DEF OInv
  <2> QED BY <2>2, <2>3, <2>4, <2>5 DEF OInv, OStep
<1>9. CASE Next
  BY <1>2, <1>3, <1>4, <1>5, <1>6, <1>7, <1>8, <1>9 DEF Next
<1> QED
  BY <1>1, <1>9

-----------------------------------------------------------------------------
(***************************************************************************)
(* Types: the entries of the cache, the counter of the lists of services,  *)
(* which adds no more than there were calls, and the names of the schema   *)
(***************************************************************************)

\* A change of a service that has still to add to the counter.
Counting(c) == c.op \in ServiceWrites \/ (c.op = "writeService" /\ c.bust # "done")
Pending == {h \in Handlers : Counting(handler[h])}

\* The counter, and what a change is about to write into it, leave room for every
\* change that is still to come.
TallyOK ==
    /\ IsFiniteSet(Pending) /\ Cardinality(Pending) <= calls
    /\ Cached(Bust) => cache[Bust] \in Nat \ {0} /\ cache[Bust] + Cardinality(Pending) <= calls
    /\ \A h \in Handlers :
          handler[h].op = "writeService" /\ handler[h].bust = "write" =>
              handler[h].busted \in Nat /\ handler[h].busted + Cardinality(Pending) <= calls

\* Call d is as far with the counter as call c.
AsFar(d, c) ==
    /\ Counting(c)
    /\ d.op = "writeService" /\ d.bust = "write" =>
          c.op = "writeService" /\ c.bust = "write" /\ d.busted = c.busted

CounterStays == Cached(Bust)' => Cached(Bust) /\ cache'[Bust] = cache[Bust]

\* Steps that begin no change, and neither read the counter nor write it.
LEMMA TallyAside ==
    ASSUME TallyOK, CallsOK, CallsOK', calls' >= calls, CounterStays,
           \A g \in Handlers : Counting(handler'[g]) => AsFar(handler'[g], handler[g])
    PROVE  TallyOK'
<1> PICK P, Q : P = Pending /\ Q = Pending'
  OBVIOUS
<1>1. IsFiniteSet(P) /\ Q \subseteq P
  BY DEF TallyOK, Pending, AsFar, Counting
<1>2. IsFiniteSet(Q) /\ Cardinality(Q) <= Cardinality(P) /\ Cardinality(P) \in Nat /\ Cardinality(Q) \in Nat
  BY <1>1, FS_Subset, FS_CardinalityType
<1>3. calls \in Nat /\ calls' \in Nat
  BY CallsAssumption DEF CallsOK
<1>4. Cardinality(P) <= calls /\ (Cached(Bust) => cache[Bust] \in Nat \ {0} /\ cache[Bust] + Cardinality(P) <= calls)
  BY DEF TallyOK
<1>5. Cardinality(Q) <= calls'
  BY <1>2, <1>3, <1>4
<1>6. Cached(Bust)' => cache'[Bust] \in Nat \ {0} /\ cache'[Bust] + Cardinality(Q) <= calls'
  BY <1>2, <1>3, <1>4 DEF CounterStays
<1>7. ASSUME NEW g \in Handlers, handler'[g].op = "writeService", handler'[g].bust = "write"
      PROVE  handler'[g].busted \in Nat /\ handler'[g].busted + Cardinality(Q) <= calls'
  <2>1. handler[g].op = "writeService" /\ handler[g].bust = "write" /\ handler'[g].busted = handler[g].busted
    BY <1>7 DEF Counting, AsFar
  <2>2. handler[g].busted \in Nat /\ handler[g].busted + Cardinality(P) <= calls
    BY <2>1 DEF TallyOK
  <2> QED BY <1>2, <1>3, <2>1, <2>2
<1> QED
  BY <1>2, <1>5, <1>6, <1>7 DEF TallyOK

\* A change begins, as a call more.
LEMMA TallyBegins ==
    ASSUME TallyOK, CallsOK, CallsOK', calls' = calls + 1, CounterStays, NEW h \in Handlers,
           ~Counting(handler[h]), ~(handler'[h].op = "writeService" /\ handler'[h].bust = "write"),
           \A g \in Handlers \ {h} : Counting(handler'[g]) => AsFar(handler'[g], handler[g])
    PROVE  TallyOK'
<1> PICK P, Q : P = Pending /\ Q = Pending'
  OBVIOUS
<1>1. IsFiniteSet(P) /\ Q \subseteq P \cup {h}
  <2>1. Q = {g \in Handlers : Counting(handler'[g])}
    BY DEF Pending, Counting
  <2>2. \A g \in Handlers \ {h} : Counting(handler'[g]) => Counting(handler[g])
    BY DEF AsFar
  <2> QED BY <2>1, <2>2 DEF TallyOK, Pending
<1>2. IsFiniteSet(P \cup {h}) /\ Cardinality(P \cup {h}) <= Cardinality(P) + 1 /\ Cardinality(P) \in Nat
  <2>1. Cardinality(P) \in Nat
    BY <1>1, FS_CardinalityType
  <2>2. IsFiniteSet(P \cup {h}) /\ Cardinality(P \cup {h}) \in {Cardinality(P), Cardinality(P) + 1}
    BY <1>1, FS_AddElement
  <2> QED BY <2>1, <2>2
<1>3. IsFiniteSet(Q) /\ Cardinality(Q) <= Cardinality(P) + 1 /\ Cardinality(Q) \in Nat
  <2>1. IsFiniteSet(Q) /\ Cardinality(Q) <= Cardinality(P \cup {h})
    BY <1>1, <1>2, FS_Subset
  <2>2. Cardinality(Q) \in Nat /\ Cardinality(P \cup {h}) \in Nat
    BY <1>2, <2>1, FS_CardinalityType
  <2> QED BY <1>2, <2>1, <2>2
<1>4. calls \in Nat /\ calls' \in Nat
  BY CallsAssumption DEF CallsOK
<1>5. Cardinality(P) <= calls /\ (Cached(Bust) => cache[Bust] \in Nat \ {0} /\ cache[Bust] + Cardinality(P) <= calls)
  BY DEF TallyOK
<1>6. Cardinality(Q) <= calls'
  BY <1>2, <1>3, <1>4, <1>5
<1>7. Cached(Bust)' => cache'[Bust] \in Nat \ {0} /\ cache'[Bust] + Cardinality(Q) <= calls'
  BY <1>2, <1>3, <1>4, <1>5 DEF CounterStays
<1>8. ASSUME NEW g \in Handlers, handler'[g].op = "writeService", handler'[g].bust = "write"
      PROVE  handler'[g].busted \in Nat /\ handler'[g].busted + Cardinality(Q) <= calls'
  <2>1. handler[g].op = "writeService" /\ handler[g].bust = "write" /\ handler'[g].busted = handler[g].busted
    BY <1>8 DEF Counting, AsFar
  <2>2. handler[g].busted \in Nat /\ handler[g].busted + Cardinality(P) <= calls
    BY <2>1 DEF TallyOK
  <2> QED BY <1>2, <1>3, <1>4, <2>1, <2>2
<1> QED
  BY <1>3, <1>6, <1>7, <1>8 DEF TallyOK

\* A change reads the counter, which leaves room for it.
LEMMA TallyReads ==
    ASSUME TallyOK, CallsOK, NEW h \in Handlers, ReadBust(h)
    PROVE  TallyOK'
<1> DEFINE c == handler[h]
           n == IF Cached(Bust) THEN cache[Bust] ELSE 0
           d == [c EXCEPT !.bust = "write", !.busted = n]
<1>1. /\ At(h, "writeService", "drop") /\ c.op = "writeService" /\ c.bust = "read"
      /\ Goto(h, d) /\ UNCHANGED <<cacheVars, calls>>
  BY DEF ReadBust, At, Goto
<1>2. d.op = "writeService" /\ d.bust = "write" /\ d.busted = n
  <2>1. ServiceDrop(c)
    BY <1>1, BothFrom
  <2> HIDE DEF c, n
  <2> QED BY <2>1 DEF ServiceDrop
<1>3. n = (IF Cached(Bust) THEN cache[Bust] ELSE 0)
  OBVIOUS
<1> HIDE DEF d, n
<1>4. handler'[h] = d /\ \A g \in Handlers \ {h} : handler'[g] = handler[g]
  BY <1>1 DEF Goto, CallsOK
<1> PICK P : P = Pending
  OBVIOUS
<1>5. Pending' = P
  BY <1>1, <1>2, <1>4 DEF Pending, Counting
<1>6. IsFiniteSet(P) /\ Cardinality(P) \in Nat /\ Cardinality(P) <= calls /\ calls \in Nat
  BY FS_CardinalityType, CallsAssumption DEF TallyOK, CallsOK
<1>7. n \in Nat /\ n + Cardinality(P) <= calls
  <2>1. CASE Cached(Bust)
    BY <1>3, <2>1 DEF TallyOK
  <2>2. CASE ~Cached(Bust)
    BY <1>3, <1>6, <2>2
  <2> QED BY <2>1, <2>2
<1>8. ASSUME NEW g \in Handlers, handler'[g].op = "writeService", handler'[g].bust = "write"
      PROVE  handler'[g].busted \in Nat /\ handler'[g].busted + Cardinality(P) <= calls
  <2>1. CASE g = h
    BY <1>2, <1>4, <1>7, <2>1
  <2>2. CASE g # h
    BY <1>4, <1>8, <2>2 DEF TallyOK
  <2> QED BY <2>1, <2>2
<1>9. Cached(Bust)' => cache'[Bust] \in Nat \ {0} /\ cache'[Bust] + Cardinality(P) <= calls
  BY <1>1 DEF TallyOK, Cached, cacheVars
<1> QED
  BY <1>1, <1>5, <1>6, <1>8, <1>9 DEF TallyOK

\* A change adds one to what it has read, and is done counting.
LEMMA TallyWrites ==
    ASSUME TallyOK, CallsOK, NEW h \in Handlers, WriteBust(h)
    PROVE  TallyOK'
<1> DEFINE c == handler[h]
           v == c.busted + 1
           d == [c EXCEPT !.bust = "done"]
           next == IF d.entries = {} /\ d.bust = "done" THEN Idle ELSE d
<1>1. /\ At(h, "writeService", "drop") /\ c.op = "writeService" /\ c.bust = "write"
      /\ Goto(h, next) /\ cache' = With(cache, Bust, v) /\ UNCHANGED calls
  BY DEF WriteBust, OnceBoth, At, Goto
<1>2. ~Counting(next) /\ ~(next.op = "writeService" /\ next.bust = "write")
  <2>1. ServiceDrop(c)
    BY <1>1, BothFrom
  <2> HIDE DEF c
  <2>2. d.op = "writeService" /\ d.bust = "done"
    BY <2>1 DEF ServiceDrop
  <2> QED BY <2>2, IdleNone DEF Counting, ServiceWrites
<1> HIDE DEF next
<1>3. handler'[h] = next /\ \A g \in Handlers \ {h} : handler'[g] = handler[g]
  BY <1>1 DEF Goto, CallsOK
<1> PICK P : P = Pending
  OBVIOUS
<1>4. Pending' = P \ {h} /\ h \in P
  BY <1>1, <1>2, <1>3 DEF Pending, Counting
<1>5. /\ IsFiniteSet(P) /\ Cardinality(P) \in Nat /\ Cardinality(P) <= calls /\ calls \in Nat
      /\ c.busted \in Nat /\ c.busted + Cardinality(P) <= calls
  BY <1>1, FS_CardinalityType, CallsAssumption DEF TallyOK, CallsOK
<1>6. IsFiniteSet(P \ {h}) /\ Cardinality(P \ {h}) = Cardinality(P) - 1
  BY <1>4, <1>5, FS_RemoveElement
<1> HIDE DEF v
<1>7. cache'[Bust] = v /\ Cached(Bust)'
  BY <1>1 DEF With, Cached
<1>8. v \in Nat \ {0} /\ v + Cardinality(P \ {h}) <= calls
  BY <1>5, <1>6 DEF v
<1>9. ASSUME NEW g \in Handlers, handler'[g].op = "writeService", handler'[g].bust = "write"
      PROVE  handler'[g].busted \in Nat /\ handler'[g].busted + Cardinality(P \ {h}) <= calls
  <2>1. g # h /\ handler'[g] = handler[g]
    BY <1>2, <1>3, <1>9
  <2>2. handler[g].busted \in Nat /\ handler[g].busted + Cardinality(P) <= calls
    BY <1>9, <2>1 DEF TallyOK
  <2> QED BY <1>5, <1>6, <2>1, <2>2
<1>10. Cardinality(P \ {h}) <= calls
  BY <1>5, <1>6
<1> QED
  BY <1>1, <1>4, <1>6, <1>7, <1>8, <1>9, <1>10 DEF TallyOK

\* Calls of the other parts.
LEMMA TallyElsewhere ==
    ASSUME TallyOK, CallsOK, CallsOK', NEW O, Within(O), O \cap ServiceOps = {},
           NEW E, SameBut(E), Bust \notin E
    PROVE  TallyOK'
<1>1. ASSUME NEW g \in Handlers, Counting(handler'[g]) PROVE AsFar(handler'[g], handler[g])
  <2>1. handler'[g].op \in ServiceOps
    BY <1>1 DEF Counting, ServiceOps
  <2>2. handler'[g].op # "none"
    BY <2>1 DEF ServiceOps, ServiceWrites
  <2>3. handler'[g] = handler[g]
    BY <2>1, <2>2 DEF Within
  <2> QED BY <1>1, <2>3 DEF AsFar
<1>2. CounterStays /\ calls' >= calls
  BY DEF CounterStays, SameBut, Cached, Within
<1> QED
  BY <1>1, <1>2, TallyAside

\* A call that is not counting writes rows or an entry, looks for one or ends.
LEMMA TallyReaders ==
    ASSUME TallyOK, CallsOK, CallsOK', calls' >= calls, ServicesOK, NEW h \in Handlers,
           ReadServices(h) \/ LoadList(h) \/ LoadService(h) \/ FillServices(h)
    PROVE  TallyOK'
<1>1. ASSUME NEW op, NEW e, op \in {"readList", "readService"}, Hit(op, e) \/ Miss(h, op, e)
      PROVE  TallyOK'
  <2>1. CounterStays
    BY <1>1 DEF Hit, Miss, CounterStays, Cached, cacheVars
  <2>2. CASE Hit(op, e)
    BY <2>1, <2>2, TallyAside DEF Hit, AtOnce, AsFar
  <2>3. CASE Miss(h, op, e)
    <3> DEFINE c == [op |-> op, pc |-> "load", entry |-> e, value |-> Null, late |-> FALSE]
    <3>1. c.op = op /\ handler' = [handler EXCEPT ![h] = c]
      BY <2>3 DEF Miss, Begin
    <3> HIDE DEF c
    <3>2. handler'[h] = c /\ \A g \in Handlers \ {h} : handler'[g] = handler[g]
      BY <3>1 DEF CallsOK
    <3>3. ~Counting(c)
      BY <1>1, <3>1 DEF Counting, ServiceWrites
    <3>4. \A g \in Handlers : Counting(handler'[g]) => AsFar(handler'[g], handler[g])
      BY <3>2, <3>3 DEF AsFar
    <3> QED BY <2>1, <3>4, TallyAside
  <2> QED BY <1>1, <2>2, <2>3
<1>2. ASSUME NEW d, Goto(h, d), ~Counting(d), CounterStays PROVE TallyOK'
  <2>1. handler'[h] = d /\ \A g \in Handlers \ {h} : handler'[g] = handler[g]
    BY <1>2 DEF Goto, CallsOK
  <2>2. \A g \in Handlers : Counting(handler'[g]) => AsFar(handler'[g], handler[g])
    BY <1>2, <2>1 DEF AsFar
  <2> QED BY <1>2, <2>2, TallyAside
<1>3. ~Counting(Idle)
  BY IdleNone DEF Counting, ServiceWrites
<1>4. CASE ReadServices(h)
  BY <1>1, <1>4 DEF ReadServices
<1>5. ASSUME NEW v, AtAny(h, {"readList", "readService"}, "load"), Load(h, v) PROVE TallyOK'
  <2> PICK c : c = handler[h]
    OBVIOUS
  <2> DEFINE d == [c EXCEPT !.pc = "fill", !.value = v]
  <2>1. c.op \in {"readList", "readService"} /\ c.pc = "load" /\ Goto(h, d) /\ CounterStays
    BY <1>5 DEF Load, AtAny, CounterStays, Cached, cacheVars
  <2>2. Reading(c)
    BY <2>1, PlacedAt DEF CallsOK
  <2>3. d.op = c.op
    BY <2>2 DEF Reading, Plain, Taxing
  <2> HIDE DEF d
  <2>4. ~Counting(d)
    BY <2>1, <2>3 DEF Counting, ServiceWrites
  <2> QED BY <1>2, <2>1, <2>4
<1>6. CASE LoadList(h)
  BY <1>5, <1>6 DEF LoadList, At, AtAny
<1>7. CASE LoadService(h)
  <2>1. CASE Return(h) /\ UNCHANGED cacheVars
    BY <1>2, <1>3, <2>1 DEF Return, CounterStays, Cached, cacheVars
  <2>2. CASE \E v : Load(h, v)
    BY <1>5, <1>7, <2>2 DEF LoadService, At, AtAny
  <2> QED BY <1>7, <2>1, <2>2 DEF LoadService
<1>8. CASE FillServices(h)
  <2> DEFINE c == handler[h]
  <2>1. c.op \in {"readList", "readService"} /\ c.pc = "fill" /\ Goto(h, Idle) /\ cache' = With(cache, c.entry, c.value)
    BY <1>8 DEF FillServices, Fill, FillThen, AtAny
  <2>2. Reading(c) /\ c.entry # Bust
    <3>1. Reading(c)
      BY <2>1, PlacedAt DEF CallsOK
    <3>2. c.entry \in Lists0 \cup Ones
      BY <2>1, <3>1, EntryOps
    <3> QED BY <3>1, <3>2, EntriesApart
  <2>3. CounterStays
    BY <2>1, <2>2 DEF CounterStays, Cached, With
  <2> QED BY <1>2, <1>3, <2>1, <2>3
<1> QED
  BY <1>4, <1>6, <1>7, <1>8

\* Rows are written: the change goes on, or begins.
LEMMA TallyChanges ==
    ASSUME TallyOK, CallsOK, CallsOK', ServicesOK, NEW h \in Handlers,
           CreateService(h) \/ ServiceCall(h) \/ WriteService(h)
    PROVE  TallyOK'
<1>1. CounterStays /\ calls \in Nat
  BY CallsAssumption DEF CreateService, ServiceCall, WriteService, WriteThen, CounterStays, Cached, cacheVars, CallsOK
<1>2. ASSUME NEW s, NEW E PROVE ~(Busting(s, E).op = "writeService" /\ Busting(s, E).bust = "write")
  BY DEF Busting
<1>3. ASSUME NEW c, Reading(c) PROVE ~Counting([c EXCEPT !.late = TRUE])
  <2>1. [c EXCEPT !.late = TRUE].op = c.op /\ c.op \in Readers
    BY <1>3, Marked, EntryOps
  <2> QED BY <2>1 DEF Counting, Readers, ServiceWrites
<1>4. ASSUME NEW F, NEW next, Writes(h, next, F)
      PROVE  \A g \in Handlers \ {h} : Counting(handler'[g]) => AsFar(handler'[g], handler[g])
  <2>1. \A g \in Passing(F) : Reading(handler[g])
    BY PlacedAt DEF Passing, CallsOK
  <2>2. ASSUME NEW g \in Passing(F) \ {h} PROVE ~Counting(handler'[g])
    <3>1. handler'[g] = [handler[g] EXCEPT !.late = TRUE]
      BY <1>4 DEF Writes
    <3> QED BY <1>3, <2>1, <3>1
  <2>3. \A g \in Handlers \ {h} : g \notin Passing(F) => handler'[g] = handler[g]
    BY <1>4 DEF Writes
  <2> QED BY <2>2, <2>3 DEF AsFar
<1>5. CASE CreateService(h)
  <2>1. PICK s \in ServiceIds :
          handler' = [g \in Handlers |->
              CASE g = h -> Busting(s, {})
                [] g # h /\ g \in Passing({List(q) : q \in Queries}) -> [handler[g] EXCEPT !.late = TRUE]
                [] OTHER -> handler[g]]
    BY <1>5 DEF CreateService
  <2>2. handler[h] = Idle /\ Asked("createService") /\ calls' = calls + 1
    BY <1>5, IdleNone DEF CreateService, Asked
  <2>3. Writes(h, Busting(s, {}), Lists0)
    BY <2>1, <2>2 DEF Writes, Passing, Lists0
  <2>4. ~Counting(handler[h]) /\ handler'[h] = Busting(s, {})
    BY <2>2, <2>3, IdleNone DEF Counting, ServiceWrites, Writes
  <2> QED BY <1>1, <1>2, <1>4, <2>2, <2>3, <2>4, TallyBegins
<1>6. CASE ServiceCall(h)
  <2>1. PICK c : Begin(h, c) /\ c.op \in ServiceWrites
    <3>1. PICK s \in Offering :
        \/ Begin(h, [op |-> "toggleService", pc |-> "write", id |-> s, to |-> ~service[s].active])
        \/ \E op \in {"updateService", "removeService"} : Begin(h, [op |-> op, pc |-> "write", id |-> s])
      BY <1>6 DEF ServiceCall
    <3> DEFINE tog(to) == [op |-> "toggleService", pc |-> "write", id |-> s, to |-> to]
               other(op) == [op |-> op, pc |-> "write", id |-> s]
    <3>2. \A to, op : tog(to).op = "toggleService" /\ other(op).op = op
      OBVIOUS
    <3>3. (\E to : Begin(h, tog(to))) \/ \E op \in {"updateService", "removeService"} : Begin(h, other(op))
      BY <3>1, Zenon
    <3> HIDE DEF tog, other
    <3> QED BY <3>2, <3>3 DEF ServiceWrites
  <2>2. /\ handler[h] = Idle /\ calls' = calls + 1
        /\ handler'[h] = c /\ \A g \in Handlers \ {h} : handler'[g] = handler[g]
    BY <2>1, IdleNone DEF Begin, Asked, CallsOK
  <2>3. ~Counting(handler[h]) /\ c.op # "writeService"
    BY <2>1, <2>2, IdleNone DEF Counting, ServiceWrites
  <2>4. \A g \in Handlers \ {h} : Counting(handler'[g]) => AsFar(handler'[g], handler[g])
    BY <2>2 DEF AsFar
  <2> QED BY <1>1, <2>2, <2>3, <2>4, TallyBegins
<1>7. CASE WriteService(h)
  <2> DEFINE c == handler[h]
  <2>1. c.op \in ServiceWrites
    BY <1>7 DEF WriteService, AtAny, ServiceWrites
  <2>2. CASE Return(h)
    <3>1. handler'[h] = Idle /\ calls' = calls /\ \A g \in Handlers \ {h} : handler'[g] = handler[g]
      BY <2>2 DEF Return, Goto, CallsOK
    <3>2. \A g \in Handlers : Counting(handler'[g]) => AsFar(handler'[g], handler[g])
      BY <3>1, IdleNone DEF AsFar, Counting, ServiceWrites
    <3> QED BY <1>1, <3>1, <3>2, TallyAside
  <2>3. CASE WriteThen(h, Busting(c.id, Dropped(c)), {List(q) : q \in Queries} \cup {One(c.id)})
    <3> PICK next, F : next = Busting(c.id, Dropped(c)) /\ F = {List(q) : q \in Queries} \cup {One(c.id)}
      OBVIOUS
    <3>1. Writes(h, next, F)
      BY <2>3, WriteThenWrites
    <3>2. handler'[h] = next /\ calls' = calls
      BY <2>3, <3>1 DEF WriteThen, Writes
    <3>3. AsFar(next, handler[h])
      BY <1>2, <2>1 DEF AsFar, Counting
    <3>4. \A g \in Handlers : Counting(handler'[g]) => AsFar(handler'[g], handler[g])
      BY <1>4, <3>1, <3>2, <3>3
    <3> QED BY <1>1, <3>2, <3>4, TallyAside
  <2> QED BY <1>7, <2>2, <2>3 DEF WriteService
<1> QED
  BY <1>5, <1>6, <1>7

\* A change drops the entry of its service.
LEMMA TallyDrops ==
    ASSUME TallyOK, CallsOK, CallsOK', NEW h \in Handlers, DropService(h)
    PROVE  TallyOK'
<1> DEFINE c == handler[h]
           d == [c EXCEPT !.entries = {}]
           next == IF d.entries = {} /\ d.bust = "done" THEN Idle ELSE d
<1>1. /\ At(h, "writeService", "drop") /\ Goto(h, next) /\ calls' = calls
      /\ cache' = Without(c.entries)
  BY DEF DropService, OnceBoth, Drop, Goto
<1>2. ServiceDrop(c)
  BY <1>1, BothFrom
<1>3. d.op = "writeService" /\ d.bust = c.bust /\ d.busted = c.busted /\ c.op = "writeService"
  <2> HIDE DEF c
  <2> QED BY <1>2 DEF ServiceDrop
<1> HIDE DEF d
<1>4. Counting(next) => AsFar(next, c)
  BY <1>3, IdleNone DEF Counting, AsFar, ServiceWrites
<1> HIDE DEF next
<1>5. handler'[h] = next /\ \A g \in Handlers \ {h} : handler'[g] = handler[g]
  BY <1>1 DEF Goto, CallsOK
<1>6. \A g \in Handlers : Counting(handler'[g]) => AsFar(handler'[g], handler[g])
  BY <1>4, <1>5 DEF AsFar
<1>7. CounterStays
  <2>1. DOMAIN cache' = DOMAIN cache \ c.entries /\ \A e \in DOMAIN cache \ c.entries : cache'[e] = cache[e]
    BY <1>1 DEF Without, Restrict
  <2> QED BY <2>1 DEF CounterStays, Cached
<1>8. calls' >= calls
  BY <1>1, CallsAssumption DEF CallsOK
<1> QED
  BY <1>6, <1>7, <1>8, TallyAside

\* Whatever the services do is tallied.
LEMMA TallyServices ==
    ASSUME TallyOK, CallsOK, ServicesOK, NEW h \in Handlers, ServiceSteps(h) \/ ServiceCalls(h)
    PROVE  TallyOK'
<1>1. CallsOK' /\ calls' >= calls
  BY ServiceStepKeeps DEF ServiceKept, Within
<1> QED
  BY <1>1, TallyReaders, TallyChanges, TallyDrops, TallyReads, TallyWrites DEF ServiceSteps, ServiceCalls

\* Every entry of the cache is one of the parts'.
EntriesOK == DOMAIN cache \cup overtaken \subseteq Entries

\* Every table is of the schema or was there before, every index is of the schema, and
\* so is every index whose values rows have come to repeat.
NamesOK ==
    /\ DOMAIN columns \subseteq {s.name : s \in Tables} \cup UNION {DOMAIN old : old \in OldSchemas}
    /\ indexes \cup repeated \subseteq {s.name : s \in IndexesOf(Schema)}

TypesOK == EntriesOK /\ TallyOK /\ NamesOK

\* Only the scripts make tables and indexes, and those of the schema.
LEMMA NamesKept ==
    ASSUME OInv, NamesOK, [Next]_officeVars
    PROVE  NamesOK'
<1>1. ASSUME NEW h \in Handlers, Apply(h) PROVE NamesOK'
  <2> PICK n \in DOMAIN Schema : \E s \in handler[h].plan[n] : UNCHANGED <<columns, indexes>> \/ Execute(s)
    BY <1>1 DEF Apply
  <2>0. UNCHANGED repeated
    BY <1>1 DEF Apply
  <2>1. PICK s \in handler[h].plan[n] : UNCHANGED <<columns, indexes>> \/ Execute(s)
    OBVIOUS
  <2>2. CASE UNCHANGED <<columns, indexes>>
    BY <2>0, <2>2 DEF NamesOK
  <2>3. CASE Execute(s)
    <3>1. Planned(handler[h], n, s)
      <4>1. handler[h].op \in ScriptOps /\ handler[h].pc = "apply" /\ ScriptKnows(handler[h])
        BY <1>1 DEF Apply, AtAny, ScriptOps, OInv, SchemaOK
      <4> QED BY <4>1 DEF ScriptKnows
    <3>2. CASE s = Schema[n]
      <4>1. s.do \in {"table", "index"} /\ s \in ToSet(Schema)
        BY <3>2, SchemaIs DEF ToSet
      <4>2. /\ s.do = "table" => s \in Tables /\ DOMAIN columns' = DOMAIN columns \cup {s.name}
                                 /\ indexes' = indexes
            /\ s.do = "index" => s \in IndexesOf(Schema) /\ columns' = columns
                                 /\ indexes' = indexes \cup {s.name}
        BY <2>3, <4>1 DEF Execute, Tables, TablesOf, IndexesOf
      <4> QED BY <2>0, <4>1, <4>2 DEF NamesOK
    <3>3. CASE \E t, x : s = AddColumn(t, x)
      <4>1. s.do = "column"
        BY <3>3 DEF AddColumn
      <4>2. DOMAIN columns' = DOMAIN columns /\ indexes' = indexes
        BY <2>3, <4>1 DEF Execute
      <4> QED BY <2>0, <4>2 DEF NamesOK
    <3> QED BY <3>1, <3>2, <3>3 DEF Planned
  <2> QED BY <2>1, <2>2, <2>3
<1>2. CASE UNCHANGED <<columns, indexes, repeated>>
  BY <1>2 DEF NamesOK
<1>3. ASSUME NEW s \in IndexesOf(Schema), RepeatRows(s) PROVE NamesOK'
  BY <1>3 DEF RepeatRows, NamesOK
<1>4. \/ \E h \in Handlers : Apply(h)
      \/ \E s \in IndexesOf(Schema) : RepeatRows(s)
      \/ UNCHANGED <<columns, indexes, repeated>>
  <2>1. ASSUME NEW h \in Handlers, MigrationCalls(h) \/ MigrationSteps(h)
        PROVE  Apply(h) \/ UNCHANGED <<columns, indexes, repeated>>
    <3>1. InitDb(h) \/ Migrate(h) \/ ReadColumns(h) \/ ReadIndexes(h) => UNCHANGED schemaVars
      BY DEF InitDb, Migrate, ReadColumns, ReadIndexes
    <3>2. EndScript(h) \/ BreakOff(h) => UNCHANGED <<columns, indexes, repeated>>
      BY DEF EndScript, BreakOff
    <3> QED BY <2>1, <3>1, <3>2 DEF MigrationCalls, MigrationSteps, schemaVars
  <2>2. StartBackend => UNCHANGED <<columns, indexes, repeated>>
    BY DEF StartBackend
  <2> QED BY <2>1, <2>2 DEF Next, Ends, Restart, StopAll, SchemaEdits, officeVars, schemaVars
<1> QED
  BY <1>1, <1>2, <1>3, <1>4

\* A step of the services tallies, and one of anything else leaves the tally alone.
LEMMA TallyKept ==
    ASSUME OInv, TallyOK, [Next]_officeVars
    PROVE  TallyOK'
<1>1. CallsOK /\ CallsOK' /\ ServicesOK
  BY OfficeStep DEF OInv
<1>2. ASSUME UNCHANGED handler, calls' >= calls, CounterStays PROVE TallyOK'
  BY <1>1, <1>2, TallyAside DEF AsFar
<1>3. calls \in Nat
  BY <1>1, CallsAssumption DEF CallsOK
<1>4. CASE UNCHANGED officeVars
  BY <1>2, <1>3, <1>4 DEF officeVars, requests, cacheVars, CounterStays, Cached
<1>5. CASE \E e \in Shown \cup {Bust} : Ends(e)
  <2> PICK e \in Shown \cup {Bust} : Ends(e)
    BY <1>5
  <2>1. DOMAIN cache' = DOMAIN cache \ {e} /\ \A x \in DOMAIN cache \ {e} : cache'[x] = cache[x]
    BY DEF Ends, Expire, Drop, Without, Restrict
  <2> QED BY <1>2, <1>3, <2>1 DEF Ends, Expire, requests, CounterStays, Cached
<1>6. ASSUME NEW h \in Handlers, Steps(h) \/ Calls(h) PROVE TallyOK'
  <2>1. CASE SettingSteps(h) \/ SettingCalls(h)
    <3>1. Within(SettingOps) /\ SameBut(Views)
      BY <2>1, SettingStepKeeps DEF OInv, SettingKept
    <3> QED BY <1>1, <3>1, OpsApart, EntriesApart, TallyElsewhere
  <2>2. CASE ServiceSteps(h) \/ ServiceCalls(h)
    BY <1>1, <2>2, TallyServices
  <2>3. CASE AccountSteps(h) \/ AccountCalls(h)
    <3>1. Within(AccountOps) /\ SameBut(Doors)
      BY <2>3, AccountStepKeeps DEF OInv, AccountKept
    <3> QED BY <1>1, <3>1, OpsApart, EntriesApart, TallyElsewhere
  <2>4. CASE (DeskSteps(h) \/ DeskCalls(h)) /\ UNCHANGED <<cacheVars, rowVars, publishingVars>>
    <3>1. Within(DeskOps) /\ SameBut({})
      BY <2>4, DeskStepKeeps, NoEntry DEF OInv, DeskKept
    <3> QED BY <1>1, <3>1, OpsApart, TallyElsewhere
  <2>5. CASE (PublishingSteps(h) \/ PublishingCalls(h)) /\ UNCHANGED <<cacheVars, rowVars, deskVars>>
    <3>1. Within(PublishingOps) /\ SameBut({})
      BY <2>5, PublishingStepKeeps, NoEntry DEF OInv, PublishingKept
    <3> QED BY <1>1, <3>1, OpsApart, TallyElsewhere
  <2> QED BY <1>6, <2>1, <2>2, <2>3, <2>4, <2>5 DEF Steps, Calls
<1>7. CASE DeskEdits /\ UNCHANGED <<cacheVars, rowVars, publishingVars>>
  <2>1. Within(DeskOps) /\ SameBut({})
    BY <1>7, DeskStepKeeps, NoEntry DEF OInv, DeskKept
  <2> QED BY <1>1, <2>1, OpsApart, TallyElsewhere
<1>8. CASE PublishingEdits /\ UNCHANGED <<cacheVars, rowVars, deskVars>>
  <2>1. Within(PublishingOps) /\ SameBut({})
    BY <1>8, PublishingStepKeeps, NoEntry DEF OInv, PublishingKept
  <2> QED BY <1>1, <2>1, OpsApart, TallyElsewhere
<1>9. CASE ListSteps /\ UNCHANGED <<partVars, schemaVars>>
  <2>1. (\E op : AtOnce(op)) \/ UNCHANGED requests
    BY <1>9 DEF ListSteps, OpenList, ReadPage, CountRows, TurnPage, GiveUp, CloseList, InsertRow, DropRow, EditRow
  <2>2. UNCHANGED handler /\ calls' >= calls
    BY <1>3, <2>1 DEF AtOnce, Asked, requests
  <2> QED BY <1>2, <1>9, <2>2 DEF partVars, cacheVars, CounterStays, Cached
<1>10. CASE (SchemaEdits \/ \E h \in Handlers : MigrationCalls(h) \/ MigrationSteps(h)) /\ UNCHANGED partVars
  <2>1. Within(ScriptOps) /\ SameBut({})
    BY <1>10, SchemaEditsKeep, SchemaStepKeeps, NoEntry DEF OInv, SchemaKept, partVars
  <2> QED BY <1>1, <2>1, OpsApart, TallyElsewhere
<1>11. CASE Restart
  <2>1. handler' = [h \in Handlers |-> Idle] /\ CacheRestart /\ calls' >= calls
    BY <1>3, <1>11 DEF Restart, Asked
  <2>2. \A g \in Handlers : ~Counting(handler'[g])
    BY <2>1, IdleNone DEF Counting, ServiceWrites
  <2> QED BY <1>1, <2>1, <2>2, TallyAside DEF CacheRestart, CounterStays, Cached
<1>12. CASE Next
  BY <1>5, <1>6, <1>7, <1>8, <1>9, <1>10, <1>11, <1>12 DEF Next
<1> QED
  BY <1>4, <1>12

\* Nothing is cached and nobody counts at the start.
LEMMA TypesBegin ==
    ASSUME Init
    PROVE  TypesOK
<1>1. /\ \A h \in Handlers : handler[h] = Idle
      /\ calls = 0 /\ DOMAIN cache = {} /\ overtaken = {}
  BY DEF Init, RequestsInit, CacheInit
<1>2. Pending = {}
  BY <1>1, IdleNone DEF Pending, Counting, ServiceWrites
<1>3. TallyOK
  BY <1>1, <1>2, FS_EmptySet, IdleNone DEF TallyOK, Cached
<1>4. NamesOK
  BY DEF Init, MigrationsInit, NamesOK
<1> QED
  BY <1>1, <1>3, <1>4 DEF TypesOK, EntriesOK

\* Every step keeps the types.
LEMMA TypesStep ==
    ASSUME OInv, TypesOK, [Next]_officeVars
    PROVE  TypesOK'
<1>1. SameBut(Entries)
  BY OfficeStep DEF OStep
<1>2. EntriesOK'
  BY <1>1 DEF SameBut, TypesOK, EntriesOK
<1> QED
  BY <1>2, NamesKept, TallyKept DEF TypesOK

\* What the invariants of the parts say of the types of everything.
LEMMA TypesShow ==
    ASSUME OInv, ListsOK, TypesOK
    PROVE  TypeOK
<1>1. calls \in 0 .. MaxCalls /\ workload \in Workloads
  BY DEF OInv, CallsOK
<1>2. DOMAIN cache \subseteq Shown \cup {Bust} /\ overtaken \in SUBSET (Shown \cup {Bust})
  <2>1. Entries = Shown \cup {Bust}
    BY DEF Entries, Shown, ShowingServices, Lists0, Ones, Doors
  <2> QED BY <2>1 DEF TypesOK, EntriesOK
<1>3. Cached(Bust) => cache[Bust] \in 1 .. MaxCalls
  <2> PICK n : n = Cardinality(Pending)
    OBVIOUS
  <2>1. n \in Nat /\ calls <= MaxCalls /\ calls \in Nat /\ MaxCalls \in Nat
    BY <1>1, FS_CardinalityType, CallsAssumption DEF TypesOK, TallyOK
  <2>2. Cached(Bust) => cache[Bust] \in Nat \ {0} /\ cache[Bust] + n <= calls
    BY DEF TypesOK, TallyOK
  <2> QED BY <2>1, <2>2
<1>4. /\ Cached(TaxView) => cache[TaxView] \in Taxes
      /\ DOMAIN setting \subseteq SettingKeys /\ \A k \in DOMAIN setting : setting[k] \in ValuesOf(k)
  BY DEF OInv, SettingsOK, SettingRows
<1>5. /\ DOMAIN service \subseteq ServiceIds /\ \A s \in Offering : service[s] \in ServiceRow
      /\ DOMAIN user \subseteq UserIds /\ \A u \in DOMAIN user : user[u] \in User
  BY DEF OInv, ServicesOK, ServiceRows, Offering, AccountsOK, UserRows
<1>6. /\ owner \in SUBSET Owners
      /\ \A i \in Inquiries : inquiry[i] \in Inquiry /\ inquiry[i].owner \in owner
      /\ \A m \in Messages : message[m] \in Message /\ message[m].owner \in owner
  BY DEF OInv, DeskOK, DeskRows, Inquiries, Messages
<1>7. /\ \A c \in Contents : content[c] \in Places /\ Taken(content[c]) = {c}
      /\ media \in SUBSET MediaIds /\ file \in SUBSET MediaIds /\ halfRemoved \in SUBSET MediaIds
      /\ DOMAIN article \subseteq ArticleIds /\ \A a \in Articles : article[a] \in BOOLEAN
  BY DEF OInv, PublishingOK, PublishingRows, Contents, Articles, Taken
<1>8. /\ \A n \in DOMAIN rows : rows[n] \in Row
      /\ walk # Null => walk.q \in ListQueries /\ walk.page \in 1 .. Cardinality(RowIds) + 1
  <2>1. rows \in Seq(Row) /\ (walk # Null => WalkOK(walk, rows))
    BY DEF ListsOK, Listing
  <2>2. Cardinality(RowIds) \in Nat
    BY ListsAssumption, FS_CardinalityType
  <2>3. walk # Null => walk.q \in ListQueries /\ walk.page \in Nat \ {0} /\ walk.page <= Cardinality(RowIds) + 1
    BY <2>1 DEF WalkOK, Walk
  <2> QED BY <2>1, <2>2, <2>3
<1>9. /\ DOMAIN columns \subseteq {s.name : s \in TablesOf(Schema)} \cup UNION {DOMAIN old : old \in OldSchemas}
      /\ indexes \cup repeated \subseteq {s.name : s \in IndexesOf(Schema)}
  BY DEF TypesOK, NamesOK, Tables
<1> QED
  BY <1>1, <1>2, <1>3, <1>4, <1>5, <1>6, <1>7, <1>8, <1>9 DEF TypeOK

-----------------------------------------------------------------------------
(***************************************************************************)
(* Theorems                                                                *)
(***************************************************************************)

\* In every state that can be reached, every part is as its invariant says.
THEOREM OfficeInductive == Spec => []OInv
<1>1. Init => OInv
  BY OfficeInit
<1>2. OInv /\ [Next]_officeVars => OInv'
  BY OfficeStep
<1> QED
  BY <1>1, <1>2, PTL DEF Spec

\* A cached view of the settings differs from the rows only while a change is about to
\* drop it, or when a reader was passed by a change (settings.service.ts), for any
\* number of calls and whatever restarts come between.
THEOREM SettingsStayCurrent == Spec => []SettingsAreCurrent
<1>1. OInv => SettingsAreCurrent
  BY DEF OInv, SettingsOK
<1> QED
  BY <1>1, OfficeInductive, PTL

\* The same of the entry of one service (services.service.ts).
THEOREM ServicesStayCurrent == Spec => []ServicesAreCurrent
<1>1. OInv => ServicesAreCurrent
  BY DEF OInv, ServicesOK
<1> QED
  BY <1>1, OfficeInductive, PTL

\* Registrations, bookings of unknown guests and the seed leave one user for each e-mail
\* (auth.service.ts, bookings.service.ts), however they overlap.
THEOREM OneUserEach == Spec => []OneUserPerEmail
<1>1. OInv => OneUserPerEmail
  BY DEF OInv, AccountsOK
<1> QED
  BY <1>1, OfficeInductive, PTL

\* An inquiry that says RESPONDED has the time of it (inquiries.service.ts).
THEOREM RespondedTimed == Spec => []RespondedHasTime
<1>1. OInv => RespondedHasTime
  BY DEF OInv, DeskOK
<1> QED
  BY <1>1, OfficeInductive, PTL

\* A row of the media library has its file at the host, unless a removal has begun, and
\* a link has both its ends (content.service.ts), also when the backend stops between.
THEOREM MediaFiled == Spec => []MediaRowsHaveFiles
<1>1. OInv => MediaRowsHaveFiles
  BY DEF OInv, PublishingOK
<1> QED
  BY <1>1, OfficeInductive, PTL

\* A migration that has ended well leaves the whole schema, whatever was there before;
\* on a database that began empty a statement of a script fails over nothing but rows
\* that repeated a value while a unique index was missing, and without that and without
\* a script broken off the backend finds the whole schema (migrate-db.js, init-db.js,
\* prisma.service.ts), for any schema whose indexes come behind their tables.
THEOREM MigrationsComplete == Spec => []MigratedIsComplete
<1>1. OInv => MigratedIsComplete
  BY SchemaShows DEF OInv
<1> QED
  BY <1>1, OfficeInductive, PTL

\* A change of one tax field that no other change has passed keeps the other fields
\* (updateTaxSettings, settings.service.ts).
THEOREM TaxFieldsKept == Spec => TaxFieldsAreKept
<1> DEFINE kept == \A h \in Handlers :
                     UpsertTaxes(h) /\ ~handler[h].late =>
                         \A f \in TaxFields \ {handler[h].patch.field} :
                             ViewOf(TaxView)'[f] = ViewOf(TaxView)[f]
<1>1. OInv => kept
  BY UpsertTaxesKeeps DEF OInv
<1>2. OInv => [kept]_<<setting, requests>>
  BY <1>1
<1> QED
  BY <1>2, OfficeInductive, PTL DEF TaxFieldsAreKept

\* Nobody inactive is put into the cache, unless the deactivation falls between the look
\* at the user and the fill (jwt.strategy.ts).
THEOREM InactiveUncached == Spec => InactiveAreNotCached
<1> DEFINE kept == \A u \in DOMAIN user :
                     Cached(SignedIn(u))' /\ ~Cached(SignedIn(u)) /\ ~user[u].active
                         => SignedIn(u) \in overtaken'
<1>1. OInv /\ [Next]_officeVars => [kept]_<<user, cacheVars, requests>>
  BY OfficeStep DEF OStep, DoorsKept
<1> QED
  BY <1>1, OfficeInductive, PTL DEF InactiveAreNotCached, Spec

\* What is published stays published: only an update that had read the article before,
\* and was passed by its publication, takes it off (knowledge.service.ts).
THEOREM PublishedStay == Spec => PublishedStays
<1> DEFINE kept == \A a \in Articles :
                     Published(a) /\ a \in Articles' /\ ~Published(a)' =>
                         \E h \in Handlers : At(h, "updateArticle", "write") /\ handler[h].id = a
                                             /\ handler[h].late
<1>1. OInv /\ [Next]_officeVars => [kept]_<<article, requests>>
  BY OfficeStep DEF OStep, PublishedStep
<1> QED
  BY <1>1, OfficeInductive, PTL DEF PublishedStays, Spec

\* The walk of every client and the table below it stay as ListsOK says: no call of the
\* other parts touches either, and every step of the lists keeps them.
THEOREM ListsInductive == Spec => []ListsOK
<1>1. Init => ListsOK
  BY ListsBegin DEF Init
<1>2. ASSUME ListsOK, [Next]_officeVars PROVE ListsOK'
  <2>1. CASE ListSteps
    BY <1>2, <2>1, ListStepKeeps
  <2>2. CASE UNCHANGED listVars
    BY <1>2, <2>2, ListsAside
  <2> QED
    BY <1>2, <2>1, <2>2 DEF Next, Ends, Restart, officeVars
<1> QED
  BY <1>1, <1>2, PTL DEF Spec

\* A client that has turned every page of a list has been shown each row that was there
\* all the time (pagination.util.ts and the findAll of every service), for every page
\* size, whatever rows come and change meanwhile: unless a row left the list, one came
\* between the count and the reading of the last page, or the queries were given up.
THEOREM WalksComplete == Spec => []WalksMissNothing
<1>1. ListsOK => WalksMissNothing
  BY ListsShow
<1> QED
  BY <1>1, ListsInductive, PTL

\* The cache holds entries of the three parts only, the counter no more than there were
\* calls, the database tables and indexes of its schemas only.
THEOREM TypesInductive == Spec => []TypesOK
<1>1. Init => TypesOK
  BY TypesBegin
<1>2. OInv /\ TypesOK /\ [Next]_officeVars => TypesOK'
  BY TypesStep
<1> QED
  BY <1>1, <1>2, OfficeInductive, PTL DEF Spec

\* Every variable keeps its type.
THEOREM OfficeTyped == Spec => []TypeOK
<1>1. OInv /\ ListsOK /\ TypesOK => TypeOK
  BY TypesShow
<1> QED
  BY <1>1, OfficeInductive, ListsInductive, TypesInductive, PTL

=============================================================================
