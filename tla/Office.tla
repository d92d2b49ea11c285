------------------------------- MODULE Office -------------------------------
(***************************************************************************)
(* The parts of the backend that hang together only by running beside each *)
(* other: settings, services and users, which share the cache, the desk,   *)
(* what the site publishes, the lists of all of them and the schema below. *)
(***************************************************************************)
EXTENDS Settings, Services, Accounts, Desk, Publishing, Lists, Migrations

rowVars == <<setting, service, user>>
officeVars == <<requests, cacheVars, rowVars, deskVars, publishingVars, listVars, schemaVars>>

\* A restart of the backend; Redis keeps the cache.
Restart ==
    /\ Busy # {}
    /\ Asked("restart")
    /\ handler' = [h \in Handlers |-> Idle]
    /\ CacheRestart
    /\ StopAll
    /\ UNCHANGED <<rowVars, deskVars, publishingVars, listVars>>

Init ==
    /\ RequestsInit /\ CacheInit
    /\ SettingsInit /\ ServicesInit /\ AccountsInit
    /\ DeskInit /\ PublishingInit
    /\ ListsInit /\ MigrationsInit

Steps(h) ==
    \/ SettingSteps(h) /\ UNCHANGED <<service, user, deskVars, publishingVars>>
    \/ ServiceSteps(h) /\ UNCHANGED <<setting, user, deskVars, publishingVars>>
    \/ AccountSteps(h) /\ UNCHANGED <<setting, service, deskVars, publishingVars>>
    \/ DeskSteps(h) /\ UNCHANGED <<cacheVars, rowVars, publishingVars>>
    \/ PublishingSteps(h) /\ UNCHANGED <<cacheVars, rowVars, deskVars>>

Calls(h) ==
    \/ SettingCalls(h) /\ UNCHANGED <<service, user, deskVars, publishingVars>>
    \/ ServiceCalls(h) /\ UNCHANGED <<setting, user, deskVars, publishingVars>>
    \/ AccountCalls(h) /\ UNCHANGED <<setting, service, deskVars, publishingVars>>
    \/ DeskCalls(h) /\ UNCHANGED <<cacheVars, rowVars, publishingVars>>
    \/ PublishingCalls(h) /\ UNCHANGED <<cacheVars, rowVars, deskVars>>

Shown == Views \cup ShowingServices \cup {SignedIn(u) : u \in UserIds}

Ends(e) == Expire(e) /\ UNCHANGED <<rowVars, deskVars, publishingVars, listVars, schemaVars>>

partVars == <<cacheVars, rowVars, deskVars, publishingVars>>

Next ==
    \/ \E e \in Shown \cup {Bust} : Ends(e)
    \/ /\ \/ \E h \in Handlers : Steps(h) \/ Calls(h)
          \/ DeskEdits /\ UNCHANGED <<cacheVars, rowVars, publishingVars>>
          \/ PublishingEdits /\ UNCHANGED <<cacheVars, rowVars, deskVars>>
       /\ UNCHANGED <<listVars, schemaVars>>
    \/ ListSteps /\ UNCHANGED <<partVars, schemaVars>>
    \/ /\ SchemaEdits \/ \E h \in Handlers : MigrationCalls(h) \/ MigrationSteps(h)
       /\ UNCHANGED <<partVars, listVars>>
    \/ Restart

\* Redis ends an entry when its time is over.  Nothing is asked of the handlers.
Fairness == \A e \in Shown : WF_officeVars(Ends(e))

Spec == Init /\ [][Next]_officeVars /\ Fairness

-----------------------------------------------------------------------------
TypeOK ==
    /\ calls \in 0 .. MaxCalls /\ workload \in Workloads
    /\ DOMAIN cache \subseteq Shown \cup {Bust} /\ overtaken \in SUBSET (Shown \cup {Bust})
    /\ Cached(TaxView) => cache[TaxView] \in Taxes
    /\ Cached(Bust) => cache[Bust] \in 1 .. MaxCalls
    /\ DOMAIN setting \subseteq SettingKeys
    /\ \A k \in DOMAIN setting : setting[k] \in ValuesOf(k)
    /\ DOMAIN service \subseteq ServiceIds /\ \A s \in Offering : service[s] \in ServiceRow
    /\ DOMAIN user \subseteq UserIds /\ \A u \in DOMAIN user : user[u] \in User
    /\ owner \in SUBSET Owners
    /\ \A i \in Inquiries : inquiry[i] \in Inquiry /\ inquiry[i].owner \in owner
    /\ \A m \in Messages : message[m] \in Message /\ message[m].owner \in owner
    /\ \A c \in Contents : content[c] \in Places /\ Taken(content[c]) = {c}
    /\ media \in SUBSET MediaIds /\ file \in SUBSET MediaIds /\ halfRemoved \in SUBSET MediaIds
    /\ DOMAIN article \subseteq ArticleIds /\ \A a \in Articles : article[a] \in BOOLEAN
    /\ \A n \in DOMAIN rows : rows[n] \in Row
    /\ walk # Null => walk.q \in ListQueries /\ walk.page \in 1 .. Cardinality(RowIds) + 1
    /\ DOMAIN columns \subseteq {s.name : s \in TablesOf(Schema)} \cup UNION {DOMAIN old : old \in OldSchemas}
    /\ indexes \cup repeated \subseteq {s.name : s \in IndexesOf(Schema)}

\* What an entry should hold now; nothing for a service that is gone and for a user
\* who may not come in.
RowsOf(e) ==
    CASE e \in Views -> ViewOf(e)
      [] e[1] = "services:list" -> ListOf(e[2])
      [] e[1] = "services:one" -> IF e[2] \in Offering THEN service[e[2]] ELSE Null
      [] e[1] = "jwt_user" -> IF LetsIn(e[2]) THEN Profile(e[2]) ELSE Null

Stale(e) == Cached(e) /\ cache[e] # RowsOf(e)

\* No answer stays old: lists, which no change reaches, users, whose entry no
\* change drops, and entries that a late reader or a restart has left behind all
\* come right by themselves, because every fill names a time to live.
StaleEntriesExpire == \A e \in Shown : Stale(e) ~> ~Stale(e)
=============================================================================
