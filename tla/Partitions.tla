----------------------------- MODULE Partitions -----------------------------
(***************************************************************************)
(* The monthly partitions of one table per service (raw_events of ingest,  *)
(* packet_observations of project), the DEFAULT partition that takes the   *)
(* rows of the months that have none, and EnsurePartitions.  Months are    *)
(* numbered; a call in progress belongs to a process.                      *)
(***************************************************************************)
EXTENDS Integers, Sequences, FiniteSets

CONSTANTS
    Proc,         \* the processes that call EnsurePartitions
    Table,        \* the partitioned tables, each named after its service
    TableOf,      \* [Proc -> Table]
    MonthLength,  \* the days of the months, from month 1 on
    Moments,      \* the dates at which something happens: [month, day]
    Start         \* the first of them

LastMonth == Len(MonthLength)

ASSUME PartitionsAssumption ==
    /\ TableOf \in [Proc -> Table]
    /\ MonthLength \in Seq(28..31)
    /\ Start \in Moments
    /\ \A d \in Moments : d.month \in 1..(LastMonth - 2)
                          /\ d.day \in 1..MonthLength[d.month]

VARIABLES
    now,        \* today
    parts,      \* [Table -> SUBSET Nat]: months that have a partition
    recorded,   \* [Table -> SUBSET Nat]: months in _partition_state
    inDefault,  \* [Table -> SUBSET Nat]: months with rows in the DEFAULT partition
    call,       \* [Proc -> the call in progress: date, months to do, step]
    completed,  \* [Table -> SUBSET Moments]: dates of calls that returned nil
    refused     \* [Table -> SUBSET Nat]: months whose partition Postgres refused

partitionVars == <<now, parts, recorded, inDefault, call, completed, refused>>

NoCall == [on |-> Start, todo |-> <<>>, step |-> "none"]

PartitionsTypeOK ==
    /\ now \in Moments
    /\ \A t \in Table :
          /\ parts[t] \subseteq 1..LastMonth /\ recorded[t] \subseteq 1..LastMonth
          /\ inDefault[t] \subseteq 1..LastMonth \ parts[t]
          /\ completed[t] \subseteq Moments /\ refused[t] \subseteq 1..LastMonth
    /\ \A p \in Proc :
          /\ call[p].on \in Moments /\ call[p].todo \in Seq(1..LastMonth)
          /\ call[p].step \in {"none", "check", "create", "record"}

PartitionsInit ==
    /\ now = Start
    /\ parts = [t \in Table |-> {}]
    /\ recorded = [t \in Table |-> {}]
    /\ inDefault = [t \in Table |-> {}]
    /\ call = [p \in Proc |-> NoCall]
    /\ completed = [t \in Table |-> {}]
    /\ refused = [t \in Table |-> {}]

-----------------------------------------------------------------------------
Earlier(d, e) == d.month < e.month \/ (d.month = e.month /\ d.day < e.day)

Tomorrow ==
    /\ \E d \in Moments : /\ Earlier(now, d)
                          /\ \A e \in Moments : Earlier(now, e) => ~Earlier(e, d)
                          /\ now' = d
    /\ UNCHANGED <<parts, recorded, inDefault, call, completed, refused>>

(* AddDate(0, 1, 0): a day that the next month does not have is counted on  *)
(* into the month after.                                                    *)
MonthLater(d) == IF d.day <= MonthLength[d.month + 1] THEN d.month + 1 ELSE d.month + 2

(* Mutant of MonthsOf: only the current month. *)
MonthsOfNow(d) == <<d.month>>

MonthsOf(d) == <<d.month, MonthLater(d)>>

Calling(p) == call[p].step # "none"

BeginCall(p) ==
    /\ call' = [call EXCEPT ![p] = [on |-> now, todo |-> MonthsOf(now), step |-> "check"]]
    /\ UNCHANGED <<now, parts, recorded, inDefault, completed, refused>>

NextMonth(p) == [call[p] EXCEPT !.todo = Tail(@), !.step = "check"]

(* Mutant of CheckState: what has to be created is recorded at once. *)
CheckStateRecords(p) ==
    /\ call[p].step = "check" /\ call[p].todo # <<>>
    /\ recorded' = [recorded EXCEPT ![TableOf[p]] = @ \cup {Head(call[p].todo)}]
    /\ call' = [call EXCEPT ![p] =
                   IF Head(@.todo) \in recorded[TableOf[p]] THEN NextMonth(p)
                   ELSE [@ EXCEPT !.step = "create"]]
    /\ UNCHANGED <<now, parts, inDefault, completed, refused>>

(* A month that is recorded is skipped. *)
CheckState(p) ==
    /\ call[p].step = "check" /\ call[p].todo # <<>>
    /\ call' = [call EXCEPT ![p] =
                   IF Head(@.todo) \in recorded[TableOf[p]] THEN NextMonth(p)
                   ELSE [@ EXCEPT !.step = "create"]]
    /\ UNCHANGED <<now, parts, recorded, inDefault, completed, refused>>

(* CREATE TABLE IF NOT EXISTS: the partition may be there already, or       *)
(* appear in the meantime, which is no failure either.                      *)
Create(p) ==
    LET t == TableOf[p]  m == Head(call[p].todo)
    IN  /\ call[p].step = "create"
        /\ m \in parts[t] \/ m \notin inDefault[t]
        /\ parts' = [parts EXCEPT ![t] = @ \cup {m}]
        /\ call' = [call EXCEPT ![p].step = "record"]
        /\ UNCHANGED <<now, recorded, inDefault, completed, refused>>

Record(p) ==
    /\ call[p].step = "record"
    /\ recorded' = [recorded EXCEPT ![TableOf[p]] = @ \cup {Head(call[p].todo)}]
    /\ call' = [call EXCEPT ![p] = NextMonth(p)]
    /\ UNCHANGED <<now, parts, inDefault, completed, refused>>

(* EnsurePartitions returns nil. *)
ReturnCall(p) ==
    /\ call[p].step = "check" /\ call[p].todo = <<>>
    /\ completed' = [completed EXCEPT ![TableOf[p]] = @ \cup {call[p].on}]
    /\ call' = [call EXCEPT ![p] = NoCall]
    /\ UNCHANGED <<now, parts, recorded, inDefault, refused>>

(* Postgres refuses a partition whose rows sit in the DEFAULT partition, and *)
(* EnsurePartitions returns the error.                                       *)
RefuseCall(p) ==
    LET t == TableOf[p]  m == Head(call[p].todo)
    IN  /\ call[p].step = "create"
        /\ m \notin parts[t] /\ m \in inDefault[t]
        /\ refused' = [refused EXCEPT ![t] = @ \cup {m}]
        /\ call' = [call EXCEPT ![p] = NoCall]
        /\ UNCHANGED <<now, parts, recorded, inDefault, completed>>

(* The database does not answer, or the process dies during the call. *)
BreakCall(p) ==
    /\ call' = [call EXCEPT ![p] = NoCall]
    /\ UNCHANGED <<now, parts, recorded, inDefault, completed, refused>>

CallStep(p) == CheckState(p) \/ Create(p) \/ Record(p)

(* A row of month m is stored in DEFAULT: the month has no partition. *)
Insert(t, m) ==
    /\ m \notin parts[t]
    /\ inDefault' = [inDefault EXCEPT ![t] = @ \cup {m}]
    /\ UNCHANGED <<now, parts, recorded, call, completed, refused>>
=============================================================================
