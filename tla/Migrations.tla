----------------------------- MODULE Migrations -----------------------------
(***************************************************************************)
(* The schema of the database and who brings it about: init-db.js, which   *)
(* runs every CREATE of schema.prisma, migrate-db.js, which compares and   *)
(* adds what is missing, and the start of the backend (prisma.service.ts), *)
(* which looks for one table.  The scripts are processes of their own,     *)
(* write statement by statement without a transaction, and may be stopped  *)
(* and run again, or beside each other.  Rows are there as far as a unique *)
(* index asks: whether they have come to repeat a value it keeps unique.   *)
(***************************************************************************)
EXTENDS Requests, SequencesExt

CONSTANTS
    Schema,             \* the statements generated from schema.prisma, in order
    OldSchemas,         \* what may be there at the start: table -> columns
    Unaddable           \* <<table, column>> SQLite adds to no table that is there

VARIABLES
    columns,            \* table -> its columns, for the tables that are there
    indexes,            \* indexes that are there
    up,                 \* whether the backend has started
    repeated,           \* history: unique indexes whose values rows have come to repeat
    fresh,              \* history: the database began empty
    migrated,           \* history: a migration has ended well
    failed,             \* history: a script has ended with an error
    stopped             \* history: a script has been stopped

schemaVars == <<columns, indexes, up, repeated, fresh, migrated, failed, stopped>>

\* A statement is [do, name, on, columns], and an index may be unique: CREATE TABLE
\* with its columns, CREATE [UNIQUE] INDEX on columns of a table.
TablesOf(schema) == {s \in ToSet(schema) : s.do = "table"}
IndexesOf(schema) == {s \in ToSet(schema) : s.do = "index"}

\* The table the backend cannot do without.
RoomsTable == "rooms"

\* No two tables have one name, and an index comes behind its table.
ASSUME MigrationsAssumption ==
    /\ DOMAIN Schema \subseteq Nat
    /\ \A s \in ToSet(Schema) : s.do \in {"table", "index"}
    /\ \E s \in TablesOf(Schema) : s.name = RoomsTable
    /\ \A s, t \in TablesOf(Schema) : s.name = t.name => s = t
    /\ \A n \in DOMAIN Schema : Schema[n].do = "index" =>
          \E m \in DOMAIN Schema : /\ m < n /\ Schema[m] \in TablesOf(Schema)
                                   /\ Schema[m].name = Schema[n].on
                                   /\ Schema[n].columns \subseteq Schema[m].columns
    /\ \A old \in OldSchemas, t \in TablesOf(Schema) :
          t.name \in DOMAIN old => old[t.name] \subseteq t.columns

MigrationsInit ==
    /\ columns \in OldSchemas
    /\ fresh = (DOMAIN columns = {})
    /\ indexes = {} /\ repeated = {} /\ up = FALSE /\ migrated = FALSE /\ failed = FALSE /\ stopped = FALSE

-----------------------------------------------------------------------------
(***************************************************************************)
(* What SQLite says of a statement                                         *)
(***************************************************************************)
AddColumn(t, c) == [do |-> "column", name |-> c, on |-> t, columns |-> {c}]

Exists(s) ==
    CASE s.do = "table" -> s.name \in DOMAIN columns
      [] s.do = "index" -> s.name \in indexes
      [] s.do = "column" -> s.on \in DOMAIN columns /\ s.name \in columns[s.on]

\* Its table and columns are there.
Indexable(s) == s.on \in DOMAIN columns /\ s.columns \subseteq columns[s.on]

\* Whether SQLite refuses a statement: an index without its columns, a column it does
\* not add, and maybe a unique index over rows that have repeated a value, unless
\* they have been put right since.
Refusals(s) ==
    CASE s.do = "table" -> {FALSE}
      [] s.do = "index" -> IF Indexable(s) THEN {FALSE, s.name \in repeated} ELSE {TRUE}
      [] s.do = "column" -> {s.on \notin DOMAIN columns \/ <<s.on, s.name>> \in Unaddable}

Execute(s) ==
    /\ columns' = CASE s.do = "table" -> [t \in DOMAIN columns \cup {s.name} |->
                                            IF t = s.name THEN s.columns ELSE columns[t]]
                    [] s.do = "column" -> [columns EXCEPT ![s.on] = @ \cup {s.name}]
                    [] s.do = "index" -> columns
    /\ indexes' = IF s.do = "index" THEN indexes \cup {s.name} ELSE indexes

-----------------------------------------------------------------------------
(***************************************************************************)
(* The scripts                                                             *)
(***************************************************************************)
Running == {h \in Busy : handler[h].op \in {"init", "migrate"}}

\* init-db.js has every statement to apply.
InitDb(h) ==
    /\ Begin(h, [op |-> "init", pc |-> "apply", plan |-> [n \in DOMAIN Schema |-> {Schema[n]}]])
    /\ UNCHANGED schemaVars

\* migrate-db.js: the names of the tables.
Migrate(h) ==
    /\ Begin(h, [op |-> "migrate", pc |-> "columns", found |-> << >>, left |-> DOMAIN columns])
    /\ UNCHANGED schemaVars

\* The columns of one table after another.
ReadColumns(h) ==
    LET m == handler[h] IN
    /\ At(h, "migrate", "columns")
    /\ \E t \in m.left :
        Goto(h, [m EXCEPT !.found = [u \in DOMAIN m.found \cup {t} |->
                                        IF u = t THEN columns[t] ELSE m.found[u]],
                          !.left = @ \ {t}])
    /\ UNCHANGED schemaVars

\* Variant: the columns of a table that is there are not compared.
TablesOnly(s, found) == IF s.name \in DOMAIN found THEN {} ELSE {s}

\* What is missing of a table: the table, or columns, in whatever order.
MissingOfTable(s, found) ==
    IF s.name \in DOMAIN found
    THEN {AddColumn(s.name, c) : c \in s.columns \ found[s.name]}
    ELSE {s}

MissingOf(s, found, there) ==
    CASE s.do = "table" -> MissingOfTable(s, found)
      [] s.do = "index" -> IF s.name \in there THEN {} ELSE {s}

\* Step 3 of the script: what to apply for each statement of the schema.
Missing(found, there) == [n \in DOMAIN Schema |-> MissingOf(Schema[n], found, there)]

\* The indexes are read last, and the statements follow from what has been read.
ReadIndexes(h) ==
    LET m == handler[h] IN
    /\ At(h, "migrate", "columns") /\ m.left = {}
    /\ Goto(h, [op |-> "migrate", pc |-> "apply", plan |-> Missing(m.found, indexes)])
    /\ UNCHANGED schemaVars

\* What a script skips: "already exists", and migrate-db.js "duplicate column" too.
Skips(op, s) == Exists(s) /\ (s.do = "column" => op = "migrate")

\* One statement; an error that is not skipped ends the script.
Apply(h) ==
    LET c == handler[h] IN
    /\ AtAny(h, {"init", "migrate"}, "apply")
    /\ \E n \in DOMAIN Schema : \E s \in c.plan[n] : \E refused \in Refusals(s) :
        /\ \A m \in DOMAIN Schema : m < n => c.plan[m] = {}
        /\ IF Skips(c.op, s) \/ ~(Exists(s) \/ refused)
           THEN /\ IF Exists(s) THEN UNCHANGED <<columns, indexes>> ELSE Execute(s)
                /\ Goto(h, [c EXCEPT !.plan[n] = @ \ {s}])
                /\ UNCHANGED failed
           ELSE Return(h) /\ failed' = TRUE /\ UNCHANGED <<columns, indexes>>
    /\ UNCHANGED <<up, repeated, fresh, migrated, stopped>>

\* Every statement is through; init-db.js looks for the rooms.
EndScript(h) ==
    LET s == handler[h] IN
    /\ AtAny(h, {"init", "migrate"}, "apply") /\ \A n \in DOMAIN Schema : s.plan[n] = {}
    /\ migrated' = (migrated \/ s.op = "migrate")
    /\ failed' = (failed \/ (s.op = "init" /\ RoomsTable \notin DOMAIN columns))
    /\ Return(h)
    /\ UNCHANGED <<columns, indexes, up, repeated, fresh, stopped>>

\* A script is stopped, or loses the database, where it is.
BreakOff(h) ==
    /\ h \in Running
    /\ stopped' = TRUE
    /\ Return(h)
    /\ UNCHANGED <<columns, indexes, up, repeated, fresh, migrated, failed>>

\* onModuleInit: without the table the backend does not start.
StartBackend ==
    /\ AtOnce("start")
    /\ RoomsTable \in DOMAIN columns
    /\ up' = TRUE
    /\ UNCHANGED <<columns, indexes, repeated, fresh, migrated, failed, stopped>>

\* The backend, which looks for no index, or a seed writes rows that a unique index
\* of the schema would have kept out.
RepeatRows(s) ==
    /\ "repeat" \in workload
    /\ s.unique /\ Indexable(s) /\ s.name \notin indexes \cup repeated
    /\ repeated' = repeated \cup {s.name}
    /\ UNCHANGED <<requests, columns, indexes, up, fresh, migrated, failed, stopped>>

\* Everything stops where it is.
StopAll ==
    /\ up' = FALSE
    /\ stopped' = (stopped \/ Running # {})
    /\ UNCHANGED <<columns, indexes, repeated, fresh, migrated, failed>>

MigrationCalls(h) == InitDb(h) \/ Migrate(h)
MigrationSteps(h) == ReadColumns(h) \/ ReadIndexes(h) \/ Apply(h) \/ EndScript(h) \/ BreakOff(h)
SchemaEdits == StartBackend \/ \E s \in IndexesOf(Schema) : RepeatRows(s)

-----------------------------------------------------------------------------
Complete ==
    /\ \A s \in TablesOf(Schema) : s.name \in DOMAIN columns /\ s.columns \subseteq columns[s.name]
    /\ \A s \in IndexesOf(Schema) : s.name \in indexes

\* Once a migration has said it is done, every table, column and index of the schema
\* is there ("Migrate the remote Turso database to match the Prisma schema",
\* migrate-db.js:4), although the scripts read the database bit by bit, run beside
\* each other and are stopped half way, and whatever was there before.  On a database
\* that began empty a statement of a script fails over nothing but rows that have
\* repeated a value before its unique index was there; and a backend that starts on
\* one serves the whole schema as soon as no script runs, unless one was stopped or
\* failed so: the check at the start looks for one table only.
MigratedIsComplete ==
    /\ migrated => Complete
    /\ fresh /\ failed => repeated # {}
    /\ fresh /\ up /\ Running = {} /\ ~stopped /\ ~failed => Complete
=============================================================================
