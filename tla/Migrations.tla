----------------------------- MODULE Migrations -----------------------------
(***************************************************************************)
(* Opening mperf's database: run_migrations of crates/storage, executed by *)
(* builds of the program that know different numbers of migrations, with   *)
(* the process ending at any point.                                        *)
(*                                                                         *)
(* A SQLite transaction works on a copy that COMMIT puts on the disk; a    *)
(* process that ends before that leaves the disk as it was.                *)
(***************************************************************************)
EXTENDS Naturals

CONSTANT Builds   \* bound: the HEADs of the builds that get launched

ASSUME BuildsAssumption == Builds \subseteq Nat \ {0}

VARIABLES
    ddl,        \* migrations whose statements are in the schema on disk
    versions,   \* rows of schema_version on disk
    tx,         \* the open transaction's [ddl, versions]
    proc,       \* where the process is
    build,      \* its HEAD
    cur,        \* the version it read
    at          \* the migration its loop is at

migVars == <<ddl, versions, tx, proc, build, cur, at>>

Migrating == {"looping", "applied", "recorded"}
NoTx == [ddl |-> {}, versions |-> {}]

(* SELECT COALESCE(MAX(version), 0). *)
Newest == IF versions = {} THEN 0
          ELSE CHOOSE v \in versions : \A w \in versions : w <= v

MigInit ==
    /\ ddl = {} /\ versions = {} /\ tx = NoTx
    /\ proc = "down" /\ build = 0 /\ cur = 0 /\ at = 0

Launch ==
    /\ proc = "down"
    /\ build' \in Builds
    /\ proc' = "launched"
    /\ UNCHANGED <<ddl, versions, tx, cur, at>>

(* The version query and the downgrade guard. *)
ReadVersion ==
    /\ proc = "launched"
    /\ cur' = Newest /\ at' = 1
    /\ proc' = IF cur' > build THEN "refused" ELSE "looping"
    /\ UNCHANGED <<ddl, versions, tx, build>>

SkipApplied ==
    /\ proc = "looping" /\ at <= build /\ at <= cur
    /\ at' = at + 1
    /\ UNCHANGED <<ddl, versions, tx, proc, build, cur>>

(* Mistake: the statements run outside the transaction. *)
ApplyStatementsAtOnce ==
    /\ proc = "looping" /\ at <= build /\ at > cur
    /\ IF at \in ddl
       THEN proc' = "failed" /\ UNCHANGED <<ddl, tx>>
       ELSE /\ proc' = "applied"
            /\ ddl' = ddl \union {at}
            /\ tx' = [ddl |-> ddl', versions |-> versions]
    /\ UNCHANGED <<versions, build, cur, at>>

(* BEGIN and the migration's statements, none of which is IF NOT EXISTS:   *)
(* they fail on a schema that has them.                                    *)
ApplyStatements ==
    /\ proc = "looping" /\ at <= build /\ at > cur
    /\ IF at \in ddl
       THEN proc' = "failed" /\ UNCHANGED tx
       ELSE /\ proc' = "applied"
            /\ tx' = [ddl |-> ddl \union {at}, versions |-> versions]
    /\ UNCHANGED <<ddl, versions, build, cur, at>>

(* INSERT INTO schema_version, whose version is the primary key. *)
RecordVersion ==
    /\ proc = "applied"
    /\ IF at \in tx.versions
       THEN proc' = "failed" /\ tx' = NoTx
       ELSE /\ proc' = "recorded"
            /\ tx' = [tx EXCEPT !.versions = @ \union {at}]
    /\ UNCHANGED <<ddl, versions, build, cur, at>>

Commit ==
    /\ proc = "recorded"
    /\ ddl' = tx.ddl /\ versions' = tx.versions /\ tx' = NoTx
    /\ proc' = "looping"
    /\ at' = at + 1
    /\ UNCHANGED <<build, cur>>

(* The loop ends; the clean-up of orphan sessions follows (Tables). *)
Opened ==
    /\ proc = "looping" /\ at > build
    /\ proc' = "open"
    /\ UNCHANGED <<ddl, versions, tx, build, cur, at>>

(* The process ends: it is closed, or it crashes anywhere on the way. *)
ProcessEnds ==
    /\ proc # "down"
    /\ proc' = "down" /\ tx' = NoTx
    /\ UNCHANGED <<ddl, versions, build, cur, at>>

MigNext ==
    \/ Launch \/ ReadVersion \/ SkipApplied \/ ApplyStatements
    \/ RecordVersion \/ Commit \/ Opened \/ ProcessEnds

MigSpec == MigInit /\ [][MigNext]_migVars

(* A process that is not ended gets on. *)
Opening == ReadVersion \/ SkipApplied \/ ApplyStatements \/ RecordVersion
           \/ Commit \/ Opened
MigFairness == WF_migVars(Opening)

-----------------------------------------------------------------------------
MigTypeOK ==
    /\ ddl \subseteq Nat /\ versions \subseteq Nat
    /\ tx \in [ddl : SUBSET Nat, versions : SUBSET Nat]
    /\ proc \in Migrating \union {"down", "launched", "refused", "failed", "open"}
    /\ build \in Builds \union {0} /\ cur \in Nat /\ at \in Nat

(* Whenever the process ends, the schema on disk is the one schema_version *)
(* claims, and the versions have no gap: the next launch, of whatever      *)
(* build, starts from a database it can read.  (schema.rs:4-11, 47-55.)    *)
SchemaMatchesVersions ==
    ddl = versions /\ \A v \in versions : \A w \in 1..v : w \in versions

(* No re-run of a migration meets its own tables: after any number of      *)
(* crashes no launch fails in the middle.  (schema.rs:6-8.)                *)
NoMigrationFails == proc # "failed"

(* A build that runs has exactly its own schema under it, not a newer one. *)
(* (schema.rs:29-45.)                                                      *)
OpenAtHead == proc = "open" => versions = 1..build

\* Over launches of builds of any age, ended at any point, the schema is what
\* its version table says, no migration fails, and an open database is the
\* one its build expects (storage/src/schema.rs:20-60).
MigrationsSound == SchemaMatchesVersions /\ NoMigrationFails /\ OpenAtHead
=============================================================================
