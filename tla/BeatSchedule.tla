---------------------------- MODULE BeatSchedule ----------------------------
(***************************************************************************)
(* The periodic-task schedule: rows of periodic_tasks in PostgreSQL,       *)
(* written by PeriodicTaskService (which then deletes the cached schedule  *)
(* and increments a version in Redis) and by the admin view (which does    *)
(* not), and the DatabaseBeatScheduler process that reloads its schedule   *)
(* when the version differs from the one it remembers.                     *)
(*                                                                         *)
(* The cached schedule is never there: reload_schedule writes it with      *)
(* json.dumps of rows that hold UUID and timestamp columns, which raises   *)
(* TypeError.  The exception takes the "Redis read error" path: the rows   *)
(* are fetched again and the version is not remembered.  So a reload gets  *)
(* to the read of the version only when the first fetch brought no rows.   *)
(***************************************************************************)
EXTENDS Naturals

CONSTANTS
    Tasks,         \* names of schedule entries
    Settings,      \* what an enabled row says: task, arguments, schedule
    Unparsable,    \* settings whose schedule parse_schedule refuses
    MaxWrites      \* bound on the writes to the table

ASSUME BeatConstants ==
    /\ MaxWrites \in Nat
    /\ Unparsable \subseteq Settings
    /\ {"absent", "disabled"} \intersect Settings = {}

VARIABLES
    rows,      \* periodic_tasks: the row of each name
    version,   \* SCHEDULE_VERSION in Redis, 0 while the key does not exist
    notifies,  \* service calls that have committed and not yet notified
    writes,    \* number of writes so far
    beat,      \* where the beat process is in tick and reload_schedule
    last,      \* its _last_version, 0 for None
    fetched,   \* tasks_data of its reload_schedule
    schedule,  \* its schedule
    mishaps    \* history: what went wrong so far

vars == <<rows, version, notifies, writes, beat, last, fetched, schedule, mishaps>>
tableVars == <<rows, notifies, writes>>
beatVars == <<beat, last, fetched, schedule>>

\* A write of the admin view; a notification lost after its commit; a failed
\* SELECT; a restart of the beat process.
Mishaps == {"unnotified", "lost", "database", "restart"}

Row == Settings \union {"absent", "disabled"}

\* Mutant: the query has no WHERE enabled.
AllRows(table) == [t \in Tasks |-> table[t]]

\* SELECT ... WHERE enabled.
Enabled(table) == [t \in Tasks |-> IF table[t] \in Settings THEN table[t] ELSE "absent"]

\* The entries that the rows lead to: a row that cannot be parsed is skipped.
Entries(list) == [t \in Tasks |-> IF list[t] \in Unparsable THEN "absent" ELSE list[t]]

NoEntries == [t \in Tasks |-> "absent"]

-----------------------------------------------------------------------------
\* The table holds what earlier writers left, or the seed of its migration.
Init ==
    /\ rows \in [Tasks -> Row]
    /\ version = 0
    /\ notifies = 0
    /\ writes = 0
    /\ beat = "fetch"
    /\ last = 0
    /\ fetched = NoEntries
    /\ schedule = NoEntries
    /\ mishaps = {}

\* One row: t is its name before the write, name the one after it.  A name
\* that is taken is refused (UNIQUE).
Write(t, name, row) ==
    /\ writes < MaxWrites
    /\ name # t => rows[name] = "absent"
    /\ rows' = [n \in Tasks |-> IF n = name THEN row
                               ELSE IF n = t THEN "absent" ELSE rows[n]]
    /\ writes' = writes + 1
    /\ UNCHANGED <<version, beatVars>>

\* create_task: refused when the name exists.
CreateTask(t, row) ==
    /\ rows[t] = "absent"
    /\ row # "absent"
    /\ Write(t, t, row)
    /\ notifies' = notifies + 1
    /\ UNCHANGED mishaps

\* update_task, which may rename the task: refused when there is no such row.
UpdateTask(t, name, row) ==
    /\ rows[t] # "absent"
    /\ row # "absent"
    /\ Write(t, name, row)
    /\ notifies' = notifies + 1
    /\ UNCHANGED mishaps

\* delete_task: refused when there is no such row.
DeleteTask(t) ==
    /\ rows[t] # "absent"
    /\ Write(t, t, "absent")
    /\ notifies' = notifies + 1
    /\ UNCHANGED mishaps

\* The admin view's create, edit (a rename too), delete, toggle and batch
\* actions call the DAO and nothing else.
AdminWrite(t, name, row) ==
    /\ name # t => "absent" \notin {rows[t], row}
    /\ name = t => rows[t] # row
    /\ Write(t, name, row)
    /\ mishaps' = mishaps \union {"unnotified"}
    /\ UNCHANGED notifies

\* Mutant: the notification deletes the cache and forgets the version.
NotifyWithoutVersion ==
    /\ notifies > 0
    /\ notifies' = notifies - 1
    /\ UNCHANGED <<rows, version, writes, beatVars, mishaps>>

\* _notify_schedule_changed: DEL and INCR in one MULTI.
Notify ==
    /\ notifies > 0
    /\ notifies' = notifies - 1
    /\ version' = version + 1
    /\ UNCHANGED <<rows, writes, beatVars, mishaps>>

\* The request fails after its commit: a Redis error, or the worker dies.
LoseNotify ==
    /\ notifies > 0
    /\ notifies' = notifies - 1
    /\ mishaps' = mishaps \union {"lost"}
    /\ UNCHANGED <<rows, version, writes, beatVars>>

-----------------------------------------------------------------------------
\* tick: the version in Redis is not the remembered one.
Tick ==
    /\ beat = "idle"
    /\ version # last
    /\ beat' = "fetch"
    /\ UNCHANGED <<tableVars, version, last, fetched, schedule, mishaps>>

\* Mutant: the rows can be serialized, so the version is read after them.
FetchSerializable ==
    /\ beat = "fetch"
    /\ fetched' = Enabled(rows)
    /\ beat' = "version"
    /\ UNCHANGED <<tableVars, version, last, schedule, mishaps>>

\* reload_schedule: the cache misses; caching the rows raises if there are any.
Fetch ==
    /\ beat = "fetch"
    /\ fetched' = Enabled(rows)
    /\ beat' = IF fetched' = NoEntries THEN "version" ELSE "refetch"
    /\ UNCHANGED <<tableVars, version, last, schedule, mishaps>>

\* fetch_tasks_from_db turns every error into an empty list.
FetchFails ==
    /\ beat = "fetch"
    /\ fetched' = NoEntries
    /\ beat' = "version"
    /\ mishaps' = mishaps \union {"database"}
    /\ UNCHANGED <<tableVars, version, last, schedule>>

\* A read from Redis raises inside reload_schedule.
RedisReadFails ==
    /\ beat \in {"fetch", "version"}
    /\ beat' = "refetch"
    /\ UNCHANGED <<tableVars, version, last, fetched, schedule, mishaps>>

\* The version is read and remembered, then the entries of the fetched rows
\* are installed.
ReadVersion ==
    /\ beat = "version"
    /\ last' = version
    /\ schedule' = Entries(fetched)
    /\ beat' = "idle"
    /\ UNCHANGED <<tableVars, version, fetched, mishaps>>

\* The fallback fetch, installed as the schedule.
Refetch ==
    /\ beat = "refetch"
    /\ schedule' = Entries(Enabled(rows))
    /\ beat' = "idle"
    /\ UNCHANGED <<tableVars, version, last, fetched, mishaps>>

RefetchFails ==
    /\ beat = "refetch"
    /\ schedule' = NoEntries
    /\ beat' = "idle"
    /\ mishaps' = mishaps \union {"database"}
    /\ UNCHANGED <<tableVars, version, last, fetched>>

\* The beat process starts anew: setup_schedule.
Restart ==
    /\ last' = 0
    /\ fetched' = NoEntries
    /\ schedule' = NoEntries
    /\ beat' = "fetch"
    /\ mishaps' = mishaps \union {"restart"}
    /\ UNCHANGED <<tableVars, version>>

-----------------------------------------------------------------------------
BeatStep ==
    \/ Tick
    \/ Fetch
    \/ FetchFails
    \/ RedisReadFails
    \/ ReadVersion
    \/ Refetch
    \/ RefetchFails

Next ==
    \/ \E t, name \in Tasks, row \in Row : UpdateTask(t, name, row) \/ AdminWrite(t, name, row)
    \/ \E t \in Tasks, row \in Row : CreateTask(t, row)
    \/ \E t \in Tasks : DeleteTask(t)
    \/ Notify
    \/ LoseNotify
    \/ BeatStep
    \/ Restart

Spec == Init /\ [][Next]_vars

\* Celery Beat calls tick again and again, and a request runs to its end.
FairSpec == Spec /\ WF_vars(BeatStep) /\ WF_vars(Notify)

-----------------------------------------------------------------------------
\* Every variable keeps its shape.
TypeOK ==
    /\ rows \in [Tasks -> Row]
    /\ version \in Nat
    /\ notifies \in Nat
    /\ writes \in 0..MaxWrites
    /\ beat \in {"idle", "fetch", "version", "refetch"}
    /\ last \in Nat
    /\ fetched \in [Tasks -> Settings \union {"absent"}]
    /\ schedule \in [Tasks -> (Settings \ Unparsable) \union {"absent"}]
    /\ mishaps \subseteq Mishaps

(***************************************************************************)
(* When every change goes through PeriodicTaskService and is notified, a   *)
(* beat process at rest that sees no newer version either runs exactly the *)
(* enabled rows that it can parse, under their present names, or runs      *)
(* nothing at all: the only way to miss an update for good is to have      *)
(* remembered the version together with an empty list.                     *)
(***************************************************************************)
StaleOnlyWhenEmpty ==
    (/\ {"unnotified", "lost"} \intersect mishaps = {}
     /\ beat = "idle" /\ notifies = 0 /\ last = version)
        => schedule \in {Entries(Enabled(rows)), NoEntries}

InSync == schedule = Entries(Enabled(rows))

(***************************************************************************)
(* While some task is enabled at all times and nothing goes wrong but      *)
(* reads of the beat process from Redis, the schedule becomes and stays    *)
(* the enabled rows (those that parse) once the writes end, however        *)
(* writes, renames, notifications, ticks and reloads interleave.           *)
(***************************************************************************)
SyncedWhileEnabled ==
    [](Enabled(rows) # NoEntries /\ mishaps = {}) => <>[]InSync

(***************************************************************************)
(* DatabaseBeatScheduler "loads periodic schedules dynamically from        *)
(* PostgreSQL [...] and uses Redis for caching and instant sync updates":  *)
(* once the writes end, the schedule becomes and stays the enabled rows.   *)
(***************************************************************************)
SyncedEventually == [](mishaps = {}) => <>[]InSync

=============================================================================
