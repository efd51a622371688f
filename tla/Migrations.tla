----------------------------- MODULE Migrations -----------------------------
(***************************************************************************)
(* The two schemas' versions, the job that migrates them (meshbug migrate, *)
(* around golang-migrate's Up) and the check every service makes before it *)
(* starts.  A release embeds the migrations 1 .. Latest of each schema.    *)
(***************************************************************************)
EXTENDS Integers, Sequences, FiniteSets

CONSTANTS
    Release,  \* the builds of meshbug that may run
    Latest    \* [Release -> [Schema -> Nat]]: latestEmbeddedVersion

(* In the order in which both RunMigrations and CheckMigrations take them. *)
SchemaOrder == <<"ingest", "project">>
Schema == {"ingest", "project"}

ASSUME MigrationsAssumption == Latest \in [Release -> [Schema -> Nat \ {0}]]

VARIABLES
    version,  \* [Schema -> Nat]: _schema_migrations.version, 0 for no row
    dirty,    \* [Schema -> BOOLEAN]: _schema_migrations.dirty
    applied,  \* [Schema -> SUBSET Nat]: the migrations whose SQL has run
    job       \* the migration job: [release, at, step], or NoJob

migrationVars == <<version, dirty, applied, job>>

NoJob == [release |-> "none", at |-> 0, step |-> "idle"]

MigrationsTypeOK ==
    /\ version \in [Schema -> Nat]
    /\ dirty \in [Schema -> BOOLEAN]
    /\ \A s \in Schema : applied[s] \subseteq 1..version[s]
    /\ \/ job = NoJob
       \/ /\ job.release \in Release /\ job.at \in 1..2
          /\ job.step \in {"open", "next", "run", "clean"}

MigrationsInit ==
    /\ version = [s \in Schema |-> 0]
    /\ dirty = [s \in Schema |-> FALSE]
    /\ applied = [s \in Schema |-> {}]
    /\ job = NoJob

Migrating(s) == job # NoJob /\ SchemaOrder[job.at] = s
Target(s) == Latest[job.release][s]

-----------------------------------------------------------------------------
(* One job runs at a time: it is one pod, and Up holds an advisory lock. *)
StartJob(r) ==
    /\ job = NoJob
    /\ job' = [release |-> r, at |-> 1, step |-> "open"]
    /\ UNCHANGED <<version, dirty, applied>>

(* Up refuses a dirty schema, and a version that the build does not embed; *)
(* the job exits with the error.                                           *)
Refuse(s) ==
    /\ Migrating(s) /\ job.step = "open"
    /\ dirty[s] \/ version[s] > Target(s)
    /\ job' = NoJob
    /\ UNCHANGED <<version, dirty, applied>>

Open(s) ==
    /\ Migrating(s) /\ job.step = "open"
    /\ ~dirty[s] /\ version[s] <= Target(s)
    /\ job' = [job EXCEPT !.step = "next"]
    /\ UNCHANGED <<version, dirty, applied>>

(* The next version is recorded as dirty before its SQL runs. *)
Mark(s) ==
    /\ Migrating(s) /\ job.step = "next"
    /\ version[s] < Target(s)
    /\ version' = [version EXCEPT ![s] = @ + 1]
    /\ dirty' = [dirty EXCEPT ![s] = TRUE]
    /\ job' = [job EXCEPT !.step = "run"]
    /\ UNCHANGED applied

RunSQL(s) ==
    /\ Migrating(s) /\ job.step = "run"
    /\ applied' = [applied EXCEPT ![s] = @ \cup {version[s]}]
    /\ job' = [job EXCEPT !.step = "clean"]
    /\ UNCHANGED <<version, dirty>>

Clean(s) ==
    /\ Migrating(s) /\ job.step = "clean"
    /\ dirty' = [dirty EXCEPT ![s] = FALSE]
    /\ job' = [job EXCEPT !.step = "next"]
    /\ UNCHANGED <<version, applied>>

(* Nothing (more) to do for this schema: the next one, or the end. *)
SchemaDone(s) ==
    /\ Migrating(s) /\ job.step = "next"
    /\ version[s] = Target(s)
    /\ job' = IF job.at < Len(SchemaOrder)
              THEN [job EXCEPT !.at = @ + 1, !.step = "open"] ELSE NoJob
    /\ UNCHANGED <<version, dirty, applied>>

(* A statement fails, the connection breaks or the pod dies, at any point. *)
JobDies ==
    /\ job # NoJob
    /\ job' = NoJob
    /\ UNCHANGED <<version, dirty, applied>>

JobStep ==
    \E s \in Schema :
        Refuse(s) \/ Open(s) \/ Mark(s) \/ RunSQL(s) \/ Clean(s) \/ SchemaDone(s)

-----------------------------------------------------------------------------
(* Mutant of CheckOne: only the version is compared. *)
CheckOneVersion(s, r) == version[s] = Latest[r][s]

(* checkOne returns no error. *)
CheckOne(s, r) == ~dirty[s] /\ version[s] = Latest[r][s]
=============================================================================
