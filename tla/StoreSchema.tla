---------------------------- MODULE StoreSchema ----------------------------
(***************************************************************************)
(* The SQLite schema of the store and the migrations that bring it to the  *)
(* version the program needs (store/store.go, store/schema.go,             *)
(* store/schema_validate.go).                                              *)
(*                                                                         *)
(* A schema is abstracted to the versions whose DDL it contains, the       *)
(* migration history to the set of versions recorded in schema_migrations. *)
(* Version 6 changes data only.  Every statement outside a transaction is  *)
(* a step of its own: the process may die between two of them.             *)
(***************************************************************************)
EXTENDS Integers, FiniteSets

VARIABLES objects,   \* versions whose DDL sqlite_master shows
          history,   \* versions recorded in schema_migrations
          legacy     \* agents or runs of the retired provider are stored

schemaVars == <<objects, history, legacy>>

SchemaVersion == 7

\* Versions that change the schema objects, the way canonicalSchemaObjects
\* replays them into an empty database.
DDLVersions == {1, 2, 3, 4, 5, 7}

CanonicalObjects(v) == {n \in DDLVersions : n <= v}

\* The names and versions validateMigrationHistory wants to find, in order.
CanonicalHistory(v) == 1..v

\* MAX(version) of schema_migrations, 0 for an empty table.
MigrationVersion ==
    IF history = {} THEN 0 ELSE CHOOSE v \in history : \A w \in history : w <= v

\* validateCanonicalDatabase: exactly the objects and the history of version
\* v.  SQLite's own integrity and foreign key checks are taken to pass.
CanonicalDatabase(v) ==
    /\ objects = CanonicalObjects(v)
    /\ history = CanonicalHistory(v)

\* preflightLegacyAdapterState looks only at the agents and runs tables of a
\* database older than version 7.
LegacyRefused == 1 \in objects /\ MigrationVersion < SchemaVersion /\ legacy

----------------------------------------------------------------------------
\* Mutant: the statements of a migration commit before its record.
DDLFirst(v) ==
    /\ objects' = objects \cup ({v} \cap DDLVersions)
    /\ UNCHANGED <<history, legacy>>

\* One migration in one transaction: DDL, derived rows and the record.
InTransaction(v) ==
    /\ objects' = objects \cup ({v} \cap DDLVersions)
    /\ history' = history \cup {v}
    /\ UNCHANGED legacy

\* An empty database gets the first schema and its record together.
CreateSchema ==
    /\ objects = {}
    /\ InTransaction(1)

\* Migrate validates the version it finds before it goes one further.
ReadyFor(v) ==
    /\ MigrationVersion = v - 1
    /\ CanonicalDatabase(v - 1)

applyIsolationSpecMigration == ReadyFor(2) /\ InTransaction(2)

applyParticipantRolesMigration == ReadyFor(3) /\ InTransaction(3)

applyHumanTaskLifecycleMigration == ReadyFor(4) /\ InTransaction(4)

applyAgentRuntimeConfigMigration == ReadyFor(7) /\ InTransaction(7)

\* applyTaskBudgetMigration: the ALTER TABLE commits by itself ...
alterTaskBudget ==
    /\ ReadyFor(5)
    /\ objects' = objects \cup {5}
    /\ UNCHANGED <<history, legacy>>

\* ... and so does the record that follows it, here and in version 6.
RecordMigration(v) ==
    /\ history' = history \cup {v}
    /\ UNCHANGED <<objects, legacy>>

\* Mutant: the schema is compared with the current one before it is migrated.
OlderRefused == objects # {} /\ objects # CanonicalObjects(SchemaVersion)

\* The table list, the recorded version or the validation turns the database
\* away; every later start will do the same.
SchemaRefused == objects # {} /\ ~CanonicalDatabase(MigrationVersion)

\* What a start can bring to the current version by itself.
Upgradable == ~LegacyRefused /\ (objects = {} \/ CanonicalDatabase(MigrationVersion))
=============================================================================
