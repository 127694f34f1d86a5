----------------------------- MODULE DeadLetter -----------------------------
(***************************************************************************)
(* The dead letter queue: Celery jobs that fail after their last retry are *)
(* recorded as rows of dead_letter_tasks by the task_failure handler of    *)
(* api/core/celery_app.py, and administrators edit, retrigger and delete   *)
(* the rows through DeadLetterTaskService while a periodic task purges the *)
(* old ones.  A retrigger deletes the rows in one statement and then sends *)
(* them to the broker one by one.                                          *)
(*                                                                         *)
(* A job is a unit of work.  Its keyword arguments stand for all that an   *)
(* edit can change; a row has them as a jsonb column (JsonColumns).  Every *)
(* message and every row has an id of its own, so that two copies of a job *)
(* can be told apart.                                                      *)
(***************************************************************************)
EXTENDS Naturals, FiniteSets, JsonColumns

CONSTANTS
    Jobs,          \* units of work handed to Celery
    Names,         \* Celery task names
    Namings,       \* the task names the jobs may have
    Excluded,      \* DLQConstants.EXCLUDED_TASKS
    Fields,        \* names of keyword arguments
    Values,        \* and what they can be
    NoName,        \* a request without a task_name
    MaxRetries,    \* AsyncBaseTask.max_retries
    DbAttempts,    \* stop_after_attempt of _db_retry
    MaxItems,      \* bound on the length of an array in a column
    Budget         \* bound on retrigger requests and mishaps together

ASSUME DeadLetterConstants ==
    /\ IsFiniteSet(Jobs)
    /\ Namings \subseteq [Jobs -> Names]
    /\ Excluded \subseteq Names
    /\ NoName \notin Names
    /\ MaxRetries \in Nat
    /\ DbAttempts \in Nat \ {0}
    /\ MaxItems \in Nat
    /\ Budget \in Nat

VARIABLES
    name,       \* the task name of each job, chosen at the start
    queue,      \* messages at the broker or in the hands of a worker
    rows,       \* dead_letter_tasks
    sending,    \* the rows each retrigger request has deleted and not yet sent
    used,       \* number of requests that have run their DELETE
    nextId,     \* source of fresh ids
    intended,   \* history: the keyword arguments of each job after the last
                \* edit that reported it as updated
    finished,   \* history: jobs that ran to a good end
    discarded,  \* history: jobs deleted, purged or excluded from the queue
    mishaps     \* history: what went wrong so far

vars == <<name, queue, rows, sending, used, nextId, intended,
          finished, discarded, mishaps>>

\* A statement's reply was lost or the statement failed; the same for a message
\* to the broker; a process died; send_task refused its arguments.
Mishaps == {"database", "broker", "crash", "refused"}

\* Something goes wrong, for the first time in this way.
Mishap(kind) ==
    /\ kind \notin mishaps
    /\ used + Cardinality(mishaps) < Budget
    /\ mishaps' = mishaps \union {kind}

\* Keyword arguments: JSON objects.
Docs == UNION {[f -> Values] : f \in SUBSET Fields}

-----------------------------------------------------------------------------
Message(id, j, kw, retries) == [id |-> id, job |-> j, kwargs |-> kw, retries |-> retries]

\* A new row of dead_letter_tasks.  Ids grow, and so does failed_at.
Row(id, j, kw) == [id |-> id, job |-> j, kwargs |-> Written(Object(kw))]

\* Retrigger requests that find a row, in the order of their DELETE.
Requests == 1..Budget

\* The ids and the task_name of a DLQTargetBase.  A name beside ids is never
\* looked at, and an id of no row changes nothing.
Targets == [ids : (SUBSET {x.id : x \in rows}) \ {{}}, name : {NoName}]
           \union [ids : {{}}, name : Names \union {NoName}]

NoTarget == [ids |-> {}, name |-> NoName]

\* The WHERE clause: the ids if there are any, else the name, else every row.
Selected(target) ==
    {x \in rows : IF target.ids # {} THEN x.id \in target.ids
                  ELSE target.name \in {NoName, name[x.job]}}

JobsOf(copies) == {x.job : x \in copies}

\* Everything that may still run job j.
Copies(j) == {x \in queue \union rows \union UNION {sending[r] : r \in Requests} :
                 x.job = j}

-----------------------------------------------------------------------------
\* The ids of the first messages.
FirstId == CHOOSE id \in [Jobs -> 0..(Cardinality(Jobs) - 1)] :
               \A i, j \in Jobs : id[i] = id[j] => i = j

\* Every job waits at the broker; the arguments of a job start out empty.
Init ==
    /\ name \in Namings
    /\ intended = [j \in Jobs |-> [f \in {} |-> f]]
    /\ queue = {Message(FirstId[j], j, intended[j], 0) : j \in Jobs}
    /\ rows = {}
    /\ sending = [r \in Requests |-> {}]
    /\ used = 0
    /\ nextId = Cardinality(Jobs)
    /\ finished = {}
    /\ discarded = {}
    /\ mishaps = {}

\* A worker takes a message, which acknowledges it, and runs it to a good end.
Succeed(m) ==
    /\ m \in queue
    /\ queue' = queue \ {m}
    /\ finished' = finished \union {m.job}
    /\ UNCHANGED <<name, rows, sending, used, nextId, intended, discarded, mishaps>>

\* Mutant: the retry count starts anew when it has reached the limit.
RetryForever(m) ==
    /\ m \in queue
    /\ queue' = (queue \ {m})
                   \union {[m EXCEPT !.retries = IF @ = MaxRetries THEN 0 ELSE @ + 1]}
    /\ UNCHANGED <<name, rows, sending, used, nextId, intended, finished, discarded, mishaps>>

\* Mutant: the retry count may pass the limit.
RetryOnceMore(m) ==
    /\ m \in queue
    /\ m.retries <= MaxRetries
    /\ queue' = (queue \ {m}) \union {[m EXCEPT !.retries = @ + 1]}
    /\ UNCHANGED <<name, rows, sending, used, nextId, intended, finished, discarded, mishaps>>

\* autoretry_for: the job failed and has retries left.
Retry(m) ==
    /\ m \in queue
    /\ m.retries < MaxRetries
    /\ queue' = (queue \ {m}) \union {[m EXCEPT !.retries = @ + 1]}
    /\ UNCHANGED <<name, rows, sending, used, nextId, intended, finished, discarded, mishaps>>

\* handle_task_failure for a task that is excluded from the queue.
FailExcluded(m) ==
    /\ m \in queue
    /\ m.retries = MaxRetries
    /\ name[m.job] \in Excluded
    /\ queue' = queue \ {m}
    /\ discarded' = discarded \union {m.job}
    /\ UNCHANGED <<name, rows, sending, used, nextId, intended, finished, mishaps>>

(***************************************************************************)
(* handle_task_failure and _save_dead_letter_task.  The INSERT runs again  *)
(* when its connection breaks, whether or not it was applied, and a final  *)
(* error is only logged.                                                   *)
(***************************************************************************)
Fail(m) ==
    /\ m \in queue
    /\ m.retries = MaxRetries
    /\ name[m.job] \notin Excluded
    /\ queue' = queue \ {m}
    /\ \E n \in 0..DbAttempts :
          /\ rows' = rows \union {Row(nextId + i, m.job, m.kwargs) : i \in 0..(n - 1)}
          /\ nextId' = nextId + n
          /\ IF n = 1 THEN UNCHANGED mishaps ELSE Mishap("database")
    /\ UNCHANGED <<name, sending, used, intended, finished, discarded>>

\* The process that runs the job dies.  The pool's parent has no db_instance,
\* so a failure it reports is not recorded.
WorkerLost(m) ==
    /\ m \in queue
    /\ queue' = queue \ {m}
    /\ Mishap("crash")
    /\ UNCHANGED <<name, rows, sending, used, nextId, intended, finished, discarded>>

-----------------------------------------------------------------------------
\* Mutant: the rows are read, and left in the table.
RetriggerWithoutDelete(r, target) ==
    /\ r = used + 1
    /\ used + Cardinality(mishaps) < Budget
    /\ Selected(target) # {}
    /\ used' = r
    /\ sending' = [sending EXCEPT ![r] = Selected(target)]
    /\ UNCHANGED <<name, queue, rows, nextId, intended, finished, discarded, mishaps>>

\* retrigger_tasks up to its loop: DELETE ... RETURNING, which finds some row.
Retrigger(r, target) ==
    /\ r = used + 1
    /\ used + Cardinality(mishaps) < Budget
    /\ Selected(target) # {}
    /\ used' = r
    /\ rows' = rows \ Selected(target)
    /\ sending' = [sending EXCEPT ![r] = Selected(target)]
    /\ UNCHANGED <<name, queue, nextId, intended, finished, discarded, mishaps>>

\* The reply to the DELETE is lost: it runs again and returns no row.
RetriggerReplyLost(r, target) ==
    /\ r = used + 1
    /\ used + Cardinality(mishaps) < Budget
    /\ Selected(target) # {}
    /\ used' = r
    /\ rows' = rows \ Selected(target)
    /\ Mishap("database")
    /\ UNCHANGED <<name, queue, sending, nextId, intended, finished, discarded>>

\* The keyword arguments of a row as retrigger_tasks sees them.
KwargsOf(x) == DeadLetterRead(x.kwargs)

\* n messages with the arguments of row x are at the broker.
Enqueue(x, n) ==
    /\ queue' = queue \union {Message(nextId + i, x.job, Doc(KwargsOf(x)), 0) : i \in 0..(n - 1)}
    /\ nextId' = nextId + n

\* Mutant: the loop returns after its first message.
SendFirstOnly(r, x) ==
    /\ x \in sending[r]
    /\ KwargsOf(x).kind = "object"
    /\ Enqueue(x, 1)
    /\ sending' = [sending EXCEPT ![r] = {}]
    /\ UNCHANGED <<name, rows, used, intended, finished, discarded, mishaps>>

\* The loop of retrigger_tasks: send_task for one of the rows.  Celery sends a
\* message again when the broker's answer to it is lost.
Send(r, x) ==
    /\ x \in sending[r]
    /\ KwargsOf(x).kind = "object"
    /\ \E n \in {1, 2} :
          /\ Enqueue(x, n)
          /\ IF n = 1 THEN UNCHANGED mishaps ELSE Mishap("broker")
    /\ sending' = [sending EXCEPT ![r] = @ \ {x}]
    /\ UNCHANGED <<name, rows, used, intended, finished, discarded>>

\* send_task refuses keyword arguments that are no mapping with a TypeError:
\* the request ends, and with it the rows it has not sent.
SendRefused(r, x) ==
    /\ x \in sending[r]
    /\ KwargsOf(x).kind # "object"
    /\ sending' = [sending EXCEPT ![r] = {}]
    /\ mishaps' = mishaps \union {"refused"}
    /\ UNCHANGED <<name, queue, rows, used, nextId, intended, finished, discarded>>

\* The broker fails, before or after it has taken the message: the request
\* ends in the same way.
SendFails(r, x) ==
    /\ x \in sending[r]
    /\ KwargsOf(x).kind = "object"
    /\ \E n \in {0, 1} : Enqueue(x, n)
    /\ sending' = [sending EXCEPT ![r] = {}]
    /\ Mishap("broker")
    /\ UNCHANGED <<name, rows, used, intended, finished, discarded>>

\* The API worker dies inside the loop.
ApiCrash(r) ==
    /\ sending[r] # {}
    /\ sending' = [sending EXCEPT ![r] = {}]
    /\ Mishap("crash")
    /\ UNCHANGED <<name, queue, rows, used, nextId, intended, finished, discarded>>

-----------------------------------------------------------------------------
\* update_task_payload without merge_kwargs, or with a task_id (admin view).
Overwrite(target, kw) ==
    /\ rows' = (rows \ Selected(target))
                  \union {[x EXCEPT !.kwargs = Written(Object(kw))] : x \in Selected(target)}
    /\ intended' = [j \in Jobs |-> IF j \in JobsOf(Selected(target)) THEN kw ELSE intended[j]]
    /\ UNCHANGED <<name, queue, sending, used, nextId, finished, discarded, mishaps>>

\* update_task_payload with merge_kwargs: kwargs = kwargs || $n::jsonb.
Merge(target, kw) ==
    /\ \A x \in Selected(target) : Len(ItemsOf(x.kwargs)) < MaxItems
    /\ rows' = (rows \ Selected(target))
                  \union {[x EXCEPT !.kwargs = Concat(@, Written(Object(kw)))] : x \in Selected(target)}
    /\ intended' = [j \in Jobs |-> IF j \in JobsOf(Selected(target))
                                   THEN Override(intended[j], kw) ELSE intended[j]]
    /\ UNCHANGED <<name, queue, sending, used, nextId, finished, discarded, mishaps>>

\* delete_tasks: without ids and without a name nothing is deleted.
DeleteTasks(target) ==
    /\ LET deleted == IF target = NoTarget THEN {} ELSE Selected(target)
       IN  /\ rows' = rows \ deleted
           /\ discarded' = discarded \union JobsOf(deleted)
    /\ UNCHANGED <<name, queue, sending, used, nextId, intended, finished, mishaps>>

\* clean_old_dlq_tasks: the rows that failed before the retention period.
Purge(cutoff) ==
    /\ \E x \in rows : x.id < cutoff
    /\ rows' = {x \in rows : x.id >= cutoff}
    /\ discarded' = discarded \union JobsOf({x \in rows : x.id < cutoff})
    /\ UNCHANGED <<name, queue, sending, used, nextId, intended, finished, mishaps>>

-----------------------------------------------------------------------------
WorkerStep ==
    \E m \in queue :
        Succeed(m) \/ Retry(m) \/ FailExcluded(m) \/ Fail(m) \/ WorkerLost(m)

RequestStep(r) ==
    \/ \E x \in sending[r] : Send(r, x) \/ SendRefused(r, x) \/ SendFails(r, x)
    \/ ApiCrash(r)

Next ==
    \/ WorkerStep
    \/ \E r \in Requests :
          \/ \E target \in Targets : Retrigger(r, target) \/ RetriggerReplyLost(r, target)
          \/ RequestStep(r)
    \/ \E target \in Targets :
          \/ \E kw \in Docs : Overwrite(target, kw) \/ Merge(target, kw)
          \/ DeleteTasks(target)
    \/ \E x \in rows : Purge(x.id + 1)

Spec == Init /\ [][Next]_vars

\* Workers take and run messages, and a request runs its loop to the end.
FairSpec == Spec /\ WF_vars(WorkerStep) /\ \A r \in Requests : WF_vars(RequestStep(r))

-----------------------------------------------------------------------------
Ids == 0..(nextId - 1)

Messages == [id : Ids, job : Jobs, kwargs : Docs, retries : 0..MaxRetries]

\* Rows whose column is a document serialized once more or, after a merge, an
\* array of such strings.
IsRow(x) ==
    /\ x.id \in Ids
    /\ x.job \in Jobs
    /\ ItemsOf(x.kwargs) \in Seq({Written(Object(doc)) : doc \in Docs})

Held == rows \union UNION {sending[r] : r \in Requests}

\* Every variable keeps its shape, and no job is retried too often.
TypeOK ==
    /\ name \in Namings
    /\ nextId \in Nat
    /\ queue \subseteq Messages
    /\ \A x \in Held : IsRow(x)
    /\ DOMAIN sending = Requests
    /\ used \in 0..Budget
    /\ intended \in [Jobs -> Docs]
    /\ finished \subseteq Jobs
    /\ discarded \subseteq Jobs
    /\ mishaps \subseteq Mishaps

(***************************************************************************)
(* fetch_and_delete_tasks works "in a single atomic RETURNING step": when  *)
(* requests with overlapping targets, deletes and the purge run at once,   *)
(* no job gets a second copy, and none that was finished or given up has   *)
(* one, even if processes die, until an INSERT or a message is repeated.   *)
(***************************************************************************)
AtMostOneCopy ==
    {"database", "broker"} \intersect mishaps = {} =>
        \A j \in Jobs : /\ Cardinality(Copies(j)) <= 1
                        /\ j \in finished \union discarded => Copies(j) = {}

(***************************************************************************)
(* As long as nothing breaks, a job is never lost between the worker, the  *)
(* table, the request that retriggers it and the broker: it runs to a good *)
(* end, is discarded on purpose, or still has a copy somewhere.            *)
(***************************************************************************)
NothingLost ==
    mishaps = {} => \A j \in Jobs : j \in finished \union discarded \/ Copies(j) # {}

(***************************************************************************)
(* An edit that update_task_payload counted is in force wherever the job   *)
(* is from then on: a retrigger at the same time either sends the edited   *)
(* arguments or has taken the row before the edit could count it.  What    *)
(* merges left behind is never sent.                                       *)
(***************************************************************************)
EditsReachTheJob ==
    {"database", "broker"} \intersect mishaps = {} =>
        /\ \A m \in queue : m.kwargs = intended[m.job]
        /\ \A x \in Held : KwargsOf(x).kind = "object" => Doc(KwargsOf(x)) = intended[x.job]

(***************************************************************************)
(* A retriggered job runs again to its end: it finishes, is recorded as a  *)
(* failure once more, or is discarded, unless something breaks.            *)
(***************************************************************************)
RetriggeredSettles ==
    \A j \in Jobs :
        (\E r \in Requests : j \in JobsOf(sending[r])) ~>
            j \in finished \union discarded \union JobsOf(rows) \/ mishaps # {}

(***************************************************************************)
(* DLQUpdatePayload.merge_kwargs: "If True, merge kwargs into existing     *)
(* kwargs."  What a retrigger reads after merges has the fields of all.    *)
(***************************************************************************)
MergesReachTheJob ==
    mishaps = {} => \A x \in Held : KwargsOf(x) = Object(intended[x.job])

=============================================================================
