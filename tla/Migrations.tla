----------------------------- MODULE Migrations -----------------------------
(***************************************************************************)
(* The PostgreSQL schema migrations (internal/storage/store.go): operators *)
(* run `jobcron-user migrate` of different builds, perhaps at once, and a  *)
(* process may die anywhere; every transaction takes one advisory lock and *)
(* looks at the ledger under it.  A server only opens a database whose     *)
(* ledger is exactly its manifest.  A ledger of an older release has       *)
(* versions without digests until an audited backfill.                     *)
(***************************************************************************)
EXTENDS Integers, Sequences, FiniteSets, Functions

CONSTANTS
  Migrators,     \* migrating processes
  Builds,        \* builds of the program
  Manifest,      \* Manifest[b]: the migrations of build b, by version
  OldLedgers,    \* lengths of the version-only ledgers to start from
  NoDigest,      \* a NULL digest
  MaxMigrations  \* bound: migrate commands

ASSUME MigrationsAssumption ==
  /\ MaxMigrations \in Nat /\ OldLedgers \subseteq Nat
  /\ \A b \in Builds :
       /\ Manifest[b] \in Seq(Range(Manifest[b]))
       /\ \A k \in DOMAIN Manifest[b] :
            /\ Manifest[b][k] = [version |-> Manifest[b][k].version, digest |-> Manifest[b][k].digest]
            /\ Manifest[b][k].version \in Nat /\ Manifest[b][k].digest # NoDigest
       /\ \A j, k \in DOMAIN Manifest[b] : j < k => Manifest[b][j].version < Manifest[b][k].version

VARIABLES
  ledger,    \* rows [version, digest] of schema_migrations
  schema,    \* the migrations whose statements were committed, in order
  mlock,     \* the holders of the migration lock: none or one
  mpc,       \* what each migrator does next
  build,     \* its build
  allow,     \* it may backfill: --backfill-legacy-migration-tree
  step,      \* the migration it is at
  report,    \* how its last command ended
  serving,   \* the builds whose server has the database open
  commands   \* migrate commands so far

migrationVars == <<ledger, schema, mlock, mpc, build, allow, step, report, serving, commands>>

MigrationsOf(b)     == Range(Manifest[b])
Versions(b) == {r.version : r \in MigrationsOf(b)}
Digest(b, v) == (CHOOSE r \in MigrationsOf(b) : r.version = v).digest

\* The database of the previous release ran the first k migrations of a build.
MigrationsInit ==
  /\ \E b \in Builds, k \in OldLedgers :
       /\ k <= Len(Manifest[b]) /\ schema = SubSeq(Manifest[b], 1, k)
       /\ ledger = {[version |-> Manifest[b][j].version, digest |-> NoDigest] : j \in 1 .. k}
  /\ mlock = {} /\ mpc = [m \in Migrators |-> "idle"] /\ build \in [Migrators -> Builds]
  /\ allow = [m \in Migrators |-> FALSE] /\ step = [m \in Migrators |-> 0]
  /\ report = [m \in Migrators |-> "none"] /\ serving = {} /\ commands = 0

\* A command ends; an open transaction rolls back and its lock is released.
Finish(m, r) ==
  /\ mpc' = [mpc EXCEPT ![m] = "idle"] /\ report' = [report EXCEPT ![m] = r]
  /\ step' = [step EXCEPT ![m] = 0] /\ mlock' = mlock \ {m}

Turn(m, l) == mpc' = [mpc EXCEPT ![m] = l] /\ UNCHANGED <<step, report>>

\* runMigrateCommand.  A backfill is asked for by an operator who has audited
\* that the database was migrated from the build's own tree.
MigrateCommand(m, a) ==
  /\ mpc[m] = "idle" /\ commands < MaxMigrations /\ commands' = commands + 1
  /\ a => Range(schema) \subseteq MigrationsOf(build[m])
  /\ allow' = [allow EXCEPT ![m] = a]
  /\ mpc' = [mpc EXCEPT ![m] = "open"] /\ report' = [report EXCEPT ![m] = "none"]
  /\ UNCHANGED <<ledger, schema, mlock, build, step, serving>>

\* A bug for comparison with BeginMigration: a transaction without the lock.
BeginMigration_Unlocked(m) ==
  /\ mpc[m] \in {"open", "next"} /\ mlock' = mlock \cup {m}
  /\ Turn(m, IF mpc[m] = "open" THEN "prepare" ELSE "check")
  /\ UNCHANGED <<ledger, schema, build, allow, serving, commands>>
\* beginPostgresMigration: a transaction that first takes the advisory lock.
BeginMigration(m) ==
  /\ mpc[m] \in {"open", "next"} /\ mlock = {} /\ mlock' = {m}
  /\ Turn(m, IF mpc[m] = "open" THEN "prepare" ELSE "check")
  /\ UNCHANGED <<ledger, schema, build, allow, serving, commands>>

Unknown(m)    == \E r \in ledger : r.version \notin Versions(build[m])
Mismatched(m) == \E r \in ledger : /\ r.version \in Versions(build[m]) /\ r.digest # NoDigest
                                   /\ r.digest # Digest(build[m], r.version)
\* backfillPostgresMigrationLedger: rows without a digest get the build's.
Backfilled(m) ==
  {IF r.digest = NoDigest THEN [r EXCEPT !.digest = Digest(build[m], r.version)] ELSE r
     : r \in ledger}

\* The first transaction: the table, the backfill, the constraints.
PrepareLedger(m) ==
  /\ mpc[m] = "prepare"
  /\ IF Unknown(m) \/ Mismatched(m) \/ (~allow[m] /\ \E r \in ledger : r.digest = NoDigest)
       THEN Finish(m, "refused") /\ UNCHANGED ledger
       ELSE /\ ledger' = Backfilled(m) /\ mlock' = {} /\ Turn(m, "known")
  /\ UNCHANGED <<schema, build, allow, serving, commands>>

\* appliedPostgresMigrationVersions, outside a transaction.
CheckKnown(m) ==
  /\ mpc[m] = "known"
  /\ IF Unknown(m) \/ Mismatched(m) THEN Finish(m, "refused")
     ELSE /\ mpc' = [mpc EXCEPT ![m] = IF Manifest[build[m]] = <<>> THEN "verify" ELSE "next"]
          /\ step' = [step EXCEPT ![m] = 1] /\ UNCHANGED <<report, mlock>>
  /\ UNCHANGED <<ledger, schema, build, allow, serving, commands>>

CurrentMigration(m) == Manifest[build[m]][step[m]]
AfterStep(m) ==
  /\ mpc' = [mpc EXCEPT ![m] = IF step[m] = Len(Manifest[build[m]]) THEN "verify" ELSE "next"]
  /\ step' = [step EXCEPT ![m] = @ + 1] /\ mlock' = mlock \ {m} /\ UNCHANGED report

\* Under the lock: a recorded version is skipped, or refused if it differs.
CheckApplied(m) ==
  /\ mpc[m] = "check"
  /\ CASE CurrentMigration(m) \in ledger -> AfterStep(m)
       [] CurrentMigration(m).version \in {r.version : r \in ledger \ {CurrentMigration(m)}} -> Finish(m, "refused")
       [] OTHER -> Turn(m, "apply") /\ UNCHANGED mlock
  /\ UNCHANGED <<ledger, schema, build, allow, serving, commands>>

\* The statements and the ledger row commit together; the answer may be lost.
ApplyMigration(m) ==
  /\ mpc[m] = "apply"
  /\ schema' = Append(schema, CurrentMigration(m)) /\ ledger' = ledger \cup {CurrentMigration(m)}
  /\ AfterStep(m) \/ Finish(m, "failed")
  /\ UNCHANGED <<build, allow, serving, commands>>

\* verifyPostgresMigrationSet: nothing unknown, nothing different, nothing pending.
Exact(b) == ledger = MigrationsOf(b)

VerifyMigrations(m) ==
  /\ mpc[m] = "verify"
  /\ Finish(m, IF Exact(build[m]) THEN "ready" ELSE "refused")
  /\ UNCHANGED <<ledger, schema, build, allow, serving, commands>>

\* A statement fails, the two minutes are over, or the process is killed.
AbortMigration(m) ==
  /\ mpc[m] # "idle" /\ Finish(m, "failed")
  /\ UNCHANGED <<ledger, schema, build, allow, serving, commands>>

\* OpenPostgres verifies and changes nothing; it takes no lock.
OpenServer(b) ==
  /\ b \notin serving /\ Exact(b) /\ serving' = serving \cup {b}
  /\ UNCHANGED <<ledger, schema, mlock, mpc, build, allow, step, report, commands>>

StopServer(b) ==
  /\ b \in serving /\ serving' = serving \ {b}
  /\ UNCHANGED <<ledger, schema, mlock, mpc, build, allow, step, report, commands>>

MigrationsNext ==
  \/ \E m \in Migrators :
       \/ \E a \in BOOLEAN : MigrateCommand(m, a)
       \/ BeginMigration(m) \/ PrepareLedger(m) \/ CheckKnown(m) \/ CheckApplied(m) \/ ApplyMigration(m)
       \/ VerifyMigrations(m) \/ AbortMigration(m)
  \/ \E b \in Builds : OpenServer(b) \/ StopServer(b)

MigrationsSpec == MigrationsInit /\ [][MigrationsNext]_migrationVars

-----------------------------------------------------------------------------
(* Properties.                                                             *)

MigrationsTypeOK ==
  /\ mlock \subseteq Migrators /\ report \in [Migrators -> {"none", "refused", "failed", "ready"}]
  /\ build \in [Migrators -> Builds] /\ allow \in [Migrators -> BOOLEAN]
  /\ \A m \in Migrators : step[m] \in 0 .. Len(Manifest[build[m]]) + 1
  /\ serving \subseteq Builds

\* The ledger tells what was done to the database, and each migration was done
\* once and after those before it, whichever builds migrate it together and
\* wherever they die (store.go "already applied" check under the lock).
SchemaRecorded ==
  /\ \A r \in ledger : \E k \in DOMAIN schema :
       schema[k].version = r.version /\ r.digest \in {NoDigest, schema[k].digest}
  /\ \A j, k \in DOMAIN schema : j < k => schema[j].version < schema[k].version
  /\ Cardinality(ledger) = Len(schema)

\* A server that opens the database finds exactly the schema it was built for.
ServesItsSchema == \A b \in serving' \ serving : schema = Manifest[b]

\* Whichever builds migrate a database together and wherever they die, its
\* ledger is right about it, and a server starts only on its own schema.
MigrationsExact ==
  [][(MigrationsTypeOK /\ SchemaRecorded)' /\ ServesItsSchema]_migrationVars
=============================================================================
