---------------------------- MODULE Migrations -----------------------------
(***************************************************************************)
(* migrate.py: processes that apply and roll back migration files and keep *)
(* their record in schema_migrations.  A file is named by its place in the *)
(* sorted list (get_sorted_migration_files), so that a list of files is a  *)
(* set and the direction it is worked through in; the text of a file is    *)
(* abstracted to how often it was edited.                                  *)
(***************************************************************************)
EXTENDS Naturals, FiniteSets, Sequences

CONSTANTS
    Number,     \* the sequence number of every file, a sequence by place
    FirstFiles, \* the files on disk at first
    Processes,  \* runs of migrate.py
    Orders,     \* the command lines: direction, target (0: none), steps (MaxSteps: none)
    MaxEdits,   \* bound on the edits of a file
    MaxRuns     \* bound on the number of runs

ASSUME MigrationsConstants ==
    /\ Number \in Seq(Nat)
    /\ \A f, g \in DOMAIN Number : f < g => Number[f] <= Number[g]
    /\ FirstFiles \subseteq DOMAIN Number
    /\ \A order \in Orders : order.direction \in {"up", "down"} /\ order.steps \in Nat
    /\ MaxEdits \in Nat /\ MaxRuns \in Nat

Files == DOMAIN Number

VARIABLES
    disk,      \* the files in api/migrations
    text,      \* how often a file was edited
    schema,    \* the files whose tables exist
    records,   \* schema_migrations: file -> checksum or None
    process,   \* the state of every process
    runs,      \* how many runs were started
    crossed,   \* history: the files an up and a down process worked on at once
    mixed,     \* history: an up and a down process ran at once
    specific,  \* history: run_specific_migration changed something
    late       \* history: files that came to the disk after the start

migrationVars == <<disk, text, schema, records, process, runs, crossed, mixed, specific, late>>

None == 0
Applied == {f \in Files : records[f] # None}

\* compute_checksum: equal texts, equal sums.
ComputeChecksum(f) == text[f] + 1

\* The order of get_sorted_migration_files, reversed for a rollback.
Before(direction, f, g) == IF direction = "up" THEN f < g ELSE g < f

-----------------------------------------------------------------------------
(***************************************************************************)
(* validate_migration_sequence.                                            *)
(***************************************************************************)
\* _check_duplicate_sequence_numbers.
NoDuplicates(files) == \A f, g \in files : Number[f] = Number[g] => f = g

\* _check_sequence_gaps.
NoGaps(files) ==
    LET seqs == {Number[f] : f \in files} IN
    \A low, high \in seqs : \A n \in low..high : n \in seqs

\* _check_out_of_order_execution.
NotOutOfOrder(files, applied) ==
    \A f \in files \ applied : \A g \in applied : Number[f] >= Number[g]

\* _check_checksum_integrity.
ChecksumsMatch(files, recs) ==
    \A f \in files : recs[f] # None => recs[f] = ComputeChecksum(f)

Valid(files, applied, recs) ==
    NoDuplicates(files) /\ NoGaps(files) /\ NotOutOfOrder(files, applied) /\ ChecksumsMatch(files, recs)

-----------------------------------------------------------------------------
(***************************************************************************)
(* What a command line selects: nothing also where the code raises.        *)
(***************************************************************************)
MaxSteps == Len(Number)

Take(S, direction, n) == {f \in S : Cardinality({g \in S : Before(direction, g, f)}) < n}

UpTo(S, direction, target) == {f \in S : ~Before(direction, target, f)}

Selection(S, direction, target, steps) ==
    IF target = 0 THEN Take(S, direction, steps)
    ELSE IF target \in S THEN Take(UpTo(S, direction, target), direction, steps)
    ELSE {}

\* _select_up_migrations.
SelectUp(files, applied, target, steps) == Selection(files \ applied, "up", target, steps)

\* _select_down_migrations: one step when nothing else is said.
SelectDown(files, applied, target, steps) ==
    Selection(files \intersect applied, "down", target,
              IF target = 0 /\ steps = MaxSteps THEN 1 ELSE steps)

-----------------------------------------------------------------------------
MigrationsInit ==
    /\ disk = FirstFiles
    /\ text = [f \in Files |-> 0]
    /\ schema = {}
    /\ records = [f \in Files |-> None]
    /\ process = [p \in Processes |-> [at |-> "new"]]
    /\ runs = 0
    /\ crossed = {} /\ mixed = FALSE /\ specific = FALSE /\ late = {}

Set(p, state) == process' = [process EXCEPT ![p] = state]

\* apply_migrations lists the files and reads the applied versions,
ReadApplied(p, order) ==
    /\ process[p].at = "new"
    /\ runs < MaxRuns /\ runs' = runs + 1
    /\ Set(p, [at |-> "validate", direction |-> order.direction, order |-> order,
               files |-> disk, applied |-> Applied])
    /\ UNCHANGED <<disk, text, schema, records, crossed, mixed, specific, late>>

\* then the records; it validates and selects.
ValidateAndSelect(p) ==
    LET o == process[p].order
        files == process[p].files
        applied == process[p].applied
        todo == IF o.direction = "up" THEN SelectUp(files, applied, o.target, o.steps)
                                      ELSE SelectDown(files, applied, o.target, o.steps)
    IN /\ process[p].at = "validate"
       /\ IF Valid(files, applied, records) /\ todo # {}
          THEN Set(p, [at |-> "run", direction |-> o.direction, todo |-> todo])
          ELSE Set(p, [at |-> "new"])
       /\ UNCHANGED <<disk, text, schema, records, crossed, mixed, specific, late, runs>>

\* run_specific_migration: no validation.
ReadSpecific(p, direction, f) ==
    /\ process[p].at = "new" /\ f \in disk
    /\ runs < MaxRuns /\ runs' = runs + 1
    /\ (f \in Applied) = (direction = "down")
    /\ Set(p, [at |-> "run", direction |-> direction, todo |-> {f}])
    /\ specific' = TRUE
    /\ UNCHANGED <<disk, text, schema, records, crossed, mixed, late>>

\* Processes that go the other way and may still touch f.
Opposed(p, f) ==
    \E q \in Processes \ {p} : /\ process[q].at \in {"run", "again"}
                               /\ process[q].direction # process[p].direction
                               /\ f \in process[q].todo

Opposing(p) ==
    \E q \in Processes \ {p} : /\ process[q].at # "new"
                               /\ process[q].direction # process[p].direction

\* The file that is next.
Current(p, f) ==
    /\ f \in process[p].todo
    /\ \A g \in process[p].todo : ~Before(process[p].direction, g, f)

\* Mutant: the record is left to the second statement.
RunUnrecorded(p, f) ==
    LET up == process[p].direction = "up" IN
    /\ process[p].at = "run" /\ Current(p, f)
    /\ schema' = IF up THEN schema \union {f} ELSE schema \ {f}
    /\ crossed' = IF Opposed(p, f) THEN crossed \union {f} ELSE crossed
    /\ mixed' = (mixed \/ Opposing(p))
    /\ Set(p, [process[p] EXCEPT !.at = "again"])
    /\ UNCHANGED <<disk, text, records, specific, late, runs>>

\* run_migration: the statements and the record in one transaction.
RunMigration(p, f) ==
    LET up == process[p].direction = "up" IN
    /\ process[p].at = "run" /\ Current(p, f)
    /\ schema' = IF up THEN schema \union {f} ELSE schema \ {f}
    /\ records' = [records EXCEPT ![f] = IF up THEN ComputeChecksum(f) ELSE None]
    /\ crossed' = IF Opposed(p, f) THEN crossed \union {f} ELSE crossed
    /\ mixed' = (mixed \/ Opposing(p))
    /\ Set(p, [process[p] EXCEPT !.at = "again"])
    /\ UNCHANGED <<disk, text, specific, late, runs>>

\* record_migration or remove_migration_record: the record once more, in a
\* transaction of its own.
RecordAgain(p, f) ==
    LET rest == process[p].todo \ {f} IN
    /\ process[p].at = "again" /\ Current(p, f)
    /\ records' = [records EXCEPT ![f] =
                      IF process[p].direction = "up" THEN ComputeChecksum(f) ELSE None]
    /\ crossed' = IF Opposed(p, f) THEN crossed \union {f} ELSE crossed
    /\ Set(p, IF rest = {} THEN [at |-> "new"] ELSE [process[p] EXCEPT !.at = "run", !.todo = rest])
    /\ UNCHANGED <<disk, text, schema, mixed, specific, late, runs>>

\* A statement fails (its transaction is rolled back) or the process ends.
Stops(p) ==
    /\ process[p].at \in {"validate", "run", "again"}
    /\ Set(p, [at |-> "new"])
    /\ UNCHANGED <<disk, text, schema, records, crossed, mixed, specific, late, runs>>

\* The developers.
AddFile(f) ==
    /\ f \in Files \ disk
    /\ disk' = disk \union {f} /\ late' = late \union {f}
    /\ UNCHANGED <<text, schema, records, process, runs, crossed, mixed, specific>>

EditFile(f) ==
    /\ f \in disk /\ text[f] < MaxEdits
    /\ text' = [text EXCEPT ![f] = @ + 1]
    /\ UNCHANGED <<disk, schema, records, process, runs, crossed, mixed, specific, late>>

MigrationsNext ==
    \/ \E p \in Processes :
          \/ \E o \in Orders : ReadApplied(p, o)
          \/ \E f \in Files, d \in {"up", "down"} : ReadSpecific(p, d, f)
          \/ \E f \in Files : RunMigration(p, f) \/ RecordAgain(p, f)
          \/ ValidateAndSelect(p) \/ Stops(p)
    \/ \E f \in Files : AddFile(f) \/ EditFile(f)

\* check_all_migrations_applied, as the application asks at its start.
AllApplied == Valid(disk, Applied, records) /\ Applied = disk

-----------------------------------------------------------------------------
(***************************************************************************)
(* Properties.                                                             *)
(***************************************************************************)
MigrationsTypeOK ==
    /\ disk \subseteq Files /\ schema \subseteq disk /\ late \subseteq disk
    /\ text \in [Files -> 0..MaxEdits]
    /\ \A f \in Files : records[f] \in 0..(text[f] + 1)
    /\ \A p \in Processes : process[p].at \in {"new", "validate", "run", "again"}

(***************************************************************************)
(* After every crash and every overlap of processes, schema_migrations     *)
(* tells the truth: a file is recorded exactly when its tables exist, and  *)
(* an application that finds all migrations applied has its tables.  The   *)
(* exception is a file that an up and a down process have worked on at     *)
(* once: the second statement of the one undoes the record of the other.   *)
(* Files are applied in their order, but for files that came later, and    *)
(* after run_specific_migration or an overlap of an up and a down process. *)
(***************************************************************************)
SchemaAsRecorded ==
    /\ \A f \in Files \ crossed : (f \in Applied) = (f \in schema)
    /\ AllApplied => disk \ crossed \subseteq schema
    /\ ~specific /\ ~mixed =>
          \A f \in Applied, g \in disk \ late : Number[g] < Number[f] => g \in Applied

=============================================================================
