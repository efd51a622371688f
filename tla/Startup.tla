------------------------------ MODULE Startup -------------------------------
(***************************************************************************)
(* The life of the service processes: each checks the schemas, then (ingest *)
(* and project) ensures its partitions, and exits on the first error; a     *)
(* project process goes on ensuring its partitions every six hours, an      *)
(* ingest process never does again.  Migration jobs of any release run      *)
(* before, between and under them.                                          *)
(***************************************************************************)
EXTENDS Migrations, Partitions

CONSTANTS
    MaxStarts,  \* bound: how often a process is started
    MaxFaults   \* bound: deaths of jobs, processes and calls

ASSUME StartupAssumption ==
    /\ Table = {"ingest", "project"}
    /\ MaxStarts \in Nat /\ MaxFaults \in Nat

VARIABLES
    place,    \* [Proc -> where the process is in its main function]
    build,    \* [Proc -> Release]: the release it runs
    starts,   \* starts so far
    faults    \* faults so far

vars == <<migrationVars, partitionVars, place, build, starts, faults>>

Places == {"down", "checkIngest", "checkProject", "ensure", "up"}

TypeOK ==
    /\ MigrationsTypeOK
    /\ PartitionsTypeOK
    /\ place \in [Proc -> Places]
    /\ build \in [Proc -> Release]

Init ==
    /\ MigrationsInit
    /\ PartitionsInit
    /\ place = [p \in Proc |-> "down"]
    /\ build \in [Proc -> Release]
    /\ starts = 0
    /\ faults = 0

Fault == faults < MaxFaults /\ faults' = faults + 1

Move(p, to) == place' = [place EXCEPT ![p] = to]

-----------------------------------------------------------------------------
StartProcess(p, r) ==
    /\ place[p] = "down"
    /\ starts < MaxStarts
    /\ starts' = starts + 1
    /\ build' = [build EXCEPT ![p] = r]
    /\ Move(p, "checkIngest")
    /\ UNCHANGED <<migrationVars, partitionVars, faults>>

(* CheckMigrations looks at one schema after the other. *)
CheckIngest(p) ==
    /\ place[p] = "checkIngest"
    /\ Move(p, IF CheckOne("ingest", build[p]) THEN "checkProject" ELSE "down")
    /\ UNCHANGED <<migrationVars, partitionVars, build, starts, faults>>

CheckProject(p) ==
    /\ place[p] = "checkProject"
    /\ IF CheckOne("project", build[p])
       THEN Move(p, "ensure") /\ BeginCall(p)
       ELSE Move(p, "down") /\ UNCHANGED partitionVars
    /\ UNCHANGED <<migrationVars, build, starts, faults>>

(* The maintainer of a running project process. *)
Tick(p) ==
    /\ place[p] = "up" /\ TableOf[p] = "project" /\ ~Calling(p)
    /\ BeginCall(p)
    /\ UNCHANGED <<migrationVars, place, build, starts, faults>>

Ensure(p) ==
    /\ CallStep(p)
    /\ UNCHANGED <<migrationVars, place, build, starts, faults>>

(* The process runs, or the maintainer waits for its next tick. *)
Ensured(p) ==
    /\ ReturnCall(p)
    /\ Move(p, "up")
    /\ UNCHANGED <<migrationVars, build, starts, faults>>

(* An error ends a start, and is a warning to the maintainer. *)
AfterError(p) == Move(p, IF place[p] = "ensure" THEN "down" ELSE place[p])

EnsureRefused(p) ==
    /\ RefuseCall(p)
    /\ AfterError(p)
    /\ UNCHANGED <<migrationVars, build, starts, faults>>

EnsureBreaks(p) ==
    /\ Calling(p)
    /\ Fault
    /\ BreakCall(p)
    /\ AfterError(p)
    /\ UNCHANGED <<migrationVars, build, starts>>

Die(p) ==
    /\ place[p] # "down"
    /\ Fault
    /\ BreakCall(p)
    /\ Move(p, "down")
    /\ UNCHANGED <<migrationVars, build, starts>>

(* A running ingest process stores what it receives now, a project process  *)
(* derives rows of any time from a log that it may be behind of.            *)
Store(p) ==
    /\ place[p] = "up"
    /\ \E m \in 1..now.month :
          /\ TableOf[p] = "ingest" => m = now.month
          /\ Insert(TableOf[p], m)
    /\ UNCHANGED <<migrationVars, place, build, starts, faults>>

(* Stopped by the deployment, or for an upgrade. *)
Stop(p) ==
    /\ place[p] = "up"
    /\ BreakCall(p)
    /\ Move(p, "down")
    /\ UNCHANGED <<migrationVars, build, starts, faults>>

Job ==
    /\ \/ /\ JobStep \/ \E r \in Release : StartJob(r)
          /\ UNCHANGED faults
       \/ JobDies /\ Fault
    /\ UNCHANGED <<partitionVars, place, build, starts>>

Next ==
    \/ Job
    \/ Tomorrow /\ UNCHANGED <<migrationVars, place, build, starts, faults>>
    \/ \E p \in Proc :
          \/ \E r \in Release : StartProcess(p, r)
          \/ CheckIngest(p) \/ CheckProject(p)
          \/ Tick(p) \/ Ensure(p) \/ Ensured(p) \/ EnsureRefused(p) \/ EnsureBreaks(p)
          \/ Die(p) \/ Store(p) \/ Stop(p)

Spec == Init /\ [][Next]_vars

-----------------------------------------------------------------------------
(* A running service has every migration it was built with, completely, in  *)
(* both schemas: the two checks at its start are not one step, and a job    *)
(* may run, die half-way and be retried in between and ever after.          *)
RunsOnFullSchema ==
    \A p \in Proc : place[p] \in {"ensure", "up"} =>
        \A s \in Schema : 1..Latest[build[p]][s] \subseteq applied[s]

(* A month that is recorded has its partition, so skipping it is right: also *)
(* when a call breaks off between its steps or two calls overlap.            *)
RecordedExists == \A t \in Table : recorded[t] \subseteq parts[t]

(* Early in its month: the next month has that day too. *)
EarlyCall(d) == d.day <= MonthLength[d.month + 1]

(* Postgres refuses a month's partition (and with it the start of a service) *)
(* only if no call returned nil, in the month before, on a day that the      *)
(* month has as well.                                                        *)
RefusedOnlyAfterGap ==
    \A t \in Table : \A m \in refused[t] :
        ~\E d \in completed[t] : d.month = m - 1 /\ EarlyCall(d)

(* "EnsurePartitions makes sure monthly partitions for now and the next     *)
(* month exist": after every call that returned nil.                        *)
EnsuresNextMonth ==
    \A t \in Table : \A d \in completed[t] : {d.month, d.month + 1} \subseteq parts[t]
=============================================================================
