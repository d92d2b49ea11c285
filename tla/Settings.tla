------------------------------ MODULE Settings ------------------------------
(***************************************************************************)
(* settings.service.ts: settings by key, three cached views of some of     *)
(* them, and the tax settings, which are merged into what the cached view  *)
(* says.                                                                   *)
(***************************************************************************)
EXTENDS ReadThrough

CONSTANTS
    SettingKeys,        \* keys in use
    Texts,              \* values of a plain setting
    Rates,              \* values of a tax field
    FirstSettings       \* key -> value, the rows there at the start

VARIABLE
    setting             \* key -> value, for the rows that are there

-----------------------------------------------------------------------------
TaxKey == "tax_settings"
TaxFields == {"vatRate", "municipalFee"}
Taxes == [TaxFields -> Rates]

ValuesOf(k) == IF k = TaxKey THEN Taxes ELSE Texts

HotelInfo == <<"settings", "hotel-info">>
SocialLinks == <<"settings", "social-links">>
TaxView == <<"settings", "taxes">>

Views == {HotelInfo, SocialLinks, TaxView}

\* The keys a view is loaded from, and the keys whose change drops it: the code
\* lists them twice.  Two of the six hotel keys and one of the four links stand for
\* all, as two of the four tax fields do.
ShownBy(view) ==
    CASE view = HotelInfo -> {"hotel_name", "check_in_time"}
      [] view = SocialLinks -> {"facebook_url"}
      [] view = TaxView -> {TaxKey}

\* Variant: one of the keys is missing in the second list.
Forgetting(k) ==
    CASE k \in {"hotel_name"} -> {HotelInfo}
      [] k \in {"facebook_url"} -> {SocialLinks}
      [] k = TaxKey -> {TaxView}
      [] OTHER -> {}

Invalidated(k) ==
    CASE k \in {"hotel_name", "check_in_time"} -> {HotelInfo}
      [] k \in {"facebook_url"} -> {SocialLinks}
      [] k = TaxKey -> {TaxView}
      [] OTHER -> {}

NoTaxes == [f \in TaxFields |-> 0]

\* What loading the view gives: the taxes have defaults, the others are as they are.
ViewOf(view) ==
    IF view = TaxView
    THEN IF TaxKey \in DOMAIN setting THEN setting[TaxKey] ELSE NoTaxes
    ELSE Restrict(setting, DOMAIN setting \cap ShownBy(view))

ASSUME SettingsAssumption ==
    /\ 0 \in Rates /\ Rates \subseteq Nat /\ TaxKey \in SettingKeys
    /\ DOMAIN FirstSettings \subseteq SettingKeys
    /\ \A k \in DOMAIN FirstSettings : FirstSettings[k] \in ValuesOf(k)

SettingsInit == setting = FirstSettings

-----------------------------------------------------------------------------
(***************************************************************************)
(* Reads: getHotelInfo, getSocialLinks, getTaxSettings                     *)
(***************************************************************************)
ReadView(h) ==
    /\ \E view \in Views : Hit("readSettings", view) \/ Miss(h, "readSettings", view)
    /\ UNCHANGED setting

LoadView(h) ==
    /\ AtAny(h, {"readSettings", "updateTaxes"}, "load")
    /\ Load(h, ViewOf(handler[h].entry))
    /\ UNCHANGED setting

FillView(h) ==
    /\ At(h, "readSettings", "fill")
    /\ Fill(h)
    /\ UNCHANGED setting

(***************************************************************************)
(* Writes: setValue, update and remove have looked the key up              *)
(***************************************************************************)
SettingCall(h) ==
    /\ \E k \in SettingKeys :
        \/ \E v \in ValuesOf(k) :
            \/ Begin(h, [op |-> "setValue", pc |-> "write", key |-> k, to |-> v,
                         found |-> k \in DOMAIN setting])
            \/ /\ k \in DOMAIN setting
               /\ Begin(h, [op |-> "updateSetting", pc |-> "write", key |-> k, to |-> v,
                            found |-> TRUE])
        \/ /\ k \in DOMAIN setting
           /\ Begin(h, [op |-> "removeSetting", pc |-> "write", key |-> k, found |-> TRUE])
    /\ UNCHANGED <<setting, cacheVars>>

\* Updating or deleting what is gone throws, and so does creating what is there.
WriteSetting(h) ==
    LET c == handler[h]
        drops == Invalidated(c.key)
    IN
    /\ AtAny(h, {"setValue", "updateSetting", "removeSetting"}, "write")
    /\ IF c.found # (c.key \in DOMAIN setting)
       THEN Return(h) /\ UNCHANGED <<setting, cacheVars>>
       ELSE /\ setting' = IF c.op = "removeSetting"
                          THEN Restrict(setting, DOMAIN setting \ {c.key})
                          ELSE With(setting, c.key, c.to)
            /\ WriteThen(h, IF drops = {} THEN Idle ELSE [op |-> c.op, pc |-> "drop", entries |-> drops],
                         {view \in Views : c.key \in ShownBy(view)})

DropViews(h) ==
    /\ AtAny(h, {"setValue", "updateSetting", "removeSetting", "updateTaxes"}, "drop")
    /\ Drop(handler[h].entries)
    /\ Return(h)
    /\ UNCHANGED setting

(***************************************************************************)
(* updateTaxSettings: getTaxSettings, merge, upsert, drop.  late records   *)
(* that what it merges into is known to be old.                            *)
(***************************************************************************)
Patches == [field : TaxFields, rate : Rates]

UpdateTaxes(h) ==
    /\ \E patch \in Patches :
        Begin(h, IF Cached(TaxView)
                 THEN [op |-> "updateTaxes", pc |-> "upsert", entry |-> TaxView, patch |-> patch,
                       value |-> cache[TaxView],
                       late |-> TaxView \in overtaken \/ Dropping(TaxView) # {}]
                 ELSE [op |-> "updateTaxes", pc |-> "load", entry |-> TaxView, patch |-> patch,
                       value |-> Null, late |-> FALSE])
    /\ UNCHANGED <<setting, cacheVars>>

FillTaxes(h) ==
    /\ At(h, "updateTaxes", "fill")
    /\ FillThen(h, [handler[h] EXCEPT !.pc = "upsert"])
    /\ UNCHANGED setting

\* Variant: the fields that were not sent go back to their defaults.
OverDefaults(patch, current) == [NoTaxes EXCEPT ![patch.field] = patch.rate]

Merged(patch, current) == [current EXCEPT ![patch.field] = patch.rate]

UpsertTaxes(h) ==
    LET c == handler[h] IN
    /\ At(h, "updateTaxes", "upsert")
    /\ setting' = With(setting, TaxKey, Merged(c.patch, c.value))
    /\ WriteThen(h, [op |-> "updateTaxes", pc |-> "drop", entries |-> {TaxView}], {TaxView})

-----------------------------------------------------------------------------
SettingCalls(h) == ReadView(h) \/ SettingCall(h) \/ UpdateTaxes(h)

SettingSteps(h) ==
    \/ LoadView(h) \/ FillView(h) \/ FillTaxes(h)
    \/ WriteSetting(h) \/ UpsertTaxes(h) \/ DropViews(h)

-----------------------------------------------------------------------------
\* Every way of changing a setting reaches the views that show it: a cached view
\* differs from the rows only while the change is on its way to drop it, or when a
\* reader had loaded the rows before the change and filled the view after it.
SettingsAreCurrent == \A view \in Views : Current(view, ViewOf(view))

\* Changing one tax field keeps the other, also when it was changed a moment ago
\* and the view is cached: only a call that overlaps another change, or that meets
\* a view which a reader has filled too late, brings an old value back.
TaxFieldsAreKept ==
    [][\A h \in Handlers :
        UpsertTaxes(h) /\ ~handler[h].late =>
            \A f \in TaxFields \ {handler[h].patch.field} :
                ViewOf(TaxView)'[f] = ViewOf(TaxView)[f]]_<<setting, requests>>
=============================================================================
