----------------------------- MODULE Idempotency -----------------------------
(***************************************************************************)
(* The IdempotentRoute of api/core/idempotency.py: every request of a      *)
(* router built with this route class runs custom_route_handler, which     *)
(* looks for a stored response, takes an in-progress lock, runs the real   *)
(* handler, stores its response and drops the lock.  Each await on Redis   *)
(* is an action of its own: requests of different workers interleave there.*)
(*                                                                         *)
(* Redis is shared by all workers.  The lock's value in the code is the    *)
(* constant "in-progress"; the model stores the request that set it, which *)
(* no guard of an action reads, so that properties can name the holder.    *)
(* A stored response is named by the request whose handler produced it.    *)
(***************************************************************************)
CONSTANTS
    Requests,         \* the HTTP requests of a behaviour
    Keys,             \* "<method>:<path>:<Idempotency-Key header>"
    NoKey,            \* the header is absent or empty
    None,             \* an absent Redis key
    RedisFaults,      \* a Redis call may raise, applied or not
    Crashes           \* a worker may die at any point of a request

ASSUME IdempotencyConstants ==
    /\ None \notin Requests
    /\ NoKey \notin Keys
    /\ {RedisFaults, Crashes} \subseteq BOOLEAN

VARIABLES
    pc,        \* where each request is in custom_route_handler
    key,       \* the idempotency key each request carries
    lock,      \* idempotency:lock:<key> in Redis
    response,  \* idempotency:response:<key> in Redis
    ran,       \* how the real handler of each request went
    answer,    \* what the client of each request got
    retry,     \* history: a response for this key was already delivered when
               \* the request arrived
    overtaken, \* history: keys whose lock ran out under its request
    forgotten  \* history: keys whose stored response ran out

vars == <<pc, key, lock, response, ran, answer, retry, overtaken, forgotten>>
expiries == <<overtaken, forgotten>>

-----------------------------------------------------------------------------
(***************************************************************************)
(* How the wrapped handler can end: a response below 500 with a readable   *)
(* body, a StreamingResponse (no body attribute), a returned 5xx response, *)
(* or an exception (an HTTPException of the handler included).             *)
(***************************************************************************)
Outcomes == {"body", "stream", "server_error", "raised"}

\* 200 <= response.status_code < 500
Cacheable == {"body", "stream"}

Stages == {"new", "plain", "check", "acquire", "handler", "cache", "release",
           "raise", "done", "crashed"}

\* The stages between a successful acquire_lock and release_lock.
Critical == {"handler", "cache", "release", "raise"}

Answers == [status : {"pending", "conflict", "exception"}, by : {None}]
           \union [status : {"response", "replay"}, by : Requests]

Pending   == [status |-> "pending", by |-> None]
Conflict  == [status |-> "conflict", by |-> None]
Exception == [status |-> "exception", by |-> None]

\* Some client already holds a storable response for key k.
Delivered(k) ==
    \E q \in Requests : /\ key[q] = k
                        /\ answer[q].status \in {"response", "replay"}
                        /\ ran[answer[q].by] \in Cacheable

Finish(r, a) ==
    /\ pc' = [pc EXCEPT ![r] = "done"]
    /\ answer' = [answer EXCEPT ![r] = a]

Goto(r, stage) ==
    /\ pc' = [pc EXCEPT ![r] = stage]
    /\ UNCHANGED answer

-----------------------------------------------------------------------------
Init ==
    /\ pc = [r \in Requests |-> "new"]
    /\ key = [r \in Requests |-> NoKey]
    /\ lock = [k \in Keys |-> None]
    /\ response = [k \in Keys |-> None]
    /\ ran = [r \in Requests |-> "no"]
    /\ answer = [r \in Requests |-> Pending]
    /\ retry = [r \in Requests |-> FALSE]
    /\ overtaken = {}
    /\ forgotten = {}

\* custom_route_handler starts: get_key, and the branch on a missing key.
Arrive(r, k) ==
    /\ pc[r] = "new"
    /\ key' = [key EXCEPT ![r] = k]
    /\ retry' = [retry EXCEPT ![r] = k # NoKey /\ Delivered(k)]
    /\ Goto(r, IF k = NoKey THEN "plain" ELSE "check")
    /\ UNCHANGED <<lock, response, ran, expiries>>

\* No key: the handler runs as on any other route.
PlainHandler(r, outcome) ==
    /\ pc[r] = "plain"
    /\ ran' = [ran EXCEPT ![r] = outcome]
    /\ Finish(r, IF outcome = "raised" THEN Exception
                 ELSE [status |-> "response", by |-> r])
    /\ UNCHANGED <<key, lock, response, retry, expiries>>

\* Mutant: the emptiness test on the cached value is missing.
ReplayUnchecked(r) ==
    /\ pc[r] = "check"
    /\ Finish(r, [status |-> "replay", by |-> response[key[r]]])
    /\ UNCHANGED <<key, lock, response, ran, retry, expiries>>

\* get_cached_response finds a stored response and returns it.
ReplayResponse(r) ==
    /\ pc[r] = "check"
    /\ response[key[r]] # None
    /\ Finish(r, [status |-> "replay", by |-> response[key[r]]])
    /\ UNCHANGED <<key, lock, response, ran, retry, expiries>>

\* get_cached_response finds nothing.
MissResponse(r) ==
    /\ pc[r] = "check"
    /\ response[key[r]] = None
    /\ Goto(r, "acquire")
    /\ UNCHANGED <<key, lock, response, ran, retry, expiries>>

\* Mutant: the SET has no NX.
AcquireWithoutNX(r) ==
    /\ pc[r] = "acquire"
    /\ lock' = [lock EXCEPT ![key[r]] = r]
    /\ ran' = [ran EXCEPT ![r] = "started"]
    /\ Goto(r, "handler")
    /\ UNCHANGED <<key, response, retry, expiries>>

\* acquire_lock: SET NX EX succeeds, the real handler is called.
AcquireLock(r) ==
    /\ pc[r] = "acquire"
    /\ lock[key[r]] = None
    /\ lock' = [lock EXCEPT ![key[r]] = r]
    /\ ran' = [ran EXCEPT ![r] = "started"]
    /\ Goto(r, "handler")
    /\ UNCHANGED <<key, response, retry, expiries>>

\* acquire_lock: the lock exists, the request is refused with 409.
RefuseLock(r) ==
    /\ pc[r] = "acquire"
    /\ lock[key[r]] # None
    /\ Finish(r, Conflict)
    /\ UNCHANGED <<key, lock, response, ran, retry, expiries>>

\* Mutant: only responses with a body are stored.
StoreBodiesOnly(r, outcome) ==
    /\ pc[r] = "handler"
    /\ ran' = [ran EXCEPT ![r] = outcome]
    /\ Goto(r, CASE outcome = "body"   -> "cache"
                 [] outcome = "raised" -> "raise"
                 [] OTHER              -> "release")
    /\ UNCHANGED <<key, lock, response, retry, expiries>>

\* Mutant: the test on the status code lacks its upper bound.
StoreEveryResponse(r, outcome) ==
    /\ pc[r] = "handler"
    /\ ran' = [ran EXCEPT ![r] = outcome]
    /\ Goto(r, IF outcome = "raised" THEN "raise" ELSE "cache")
    /\ UNCHANGED <<key, lock, response, retry, expiries>>

\* The real handler returns or raises; a response below 500 is stored next.
HandlerEnds(r, outcome) ==
    /\ pc[r] = "handler"
    /\ ran' = [ran EXCEPT ![r] = outcome]
    /\ Goto(r, CASE outcome \in Cacheable      -> "cache"
                 [] outcome = "server_error"   -> "release"
                 [] outcome = "raised"         -> "raise")
    /\ UNCHANGED <<key, lock, response, retry, expiries>>

\* cache_response: SET EX, whatever was stored before.
CacheResponse(r) ==
    /\ pc[r] = "cache"
    /\ response' = [response EXCEPT ![key[r]] = r]
    /\ Goto(r, "release")
    /\ UNCHANGED <<key, lock, ran, retry, expiries>>

\* release_lock in the finally block: DELETE, whoever set the lock.
ReleaseLock(r) ==
    /\ pc[r] \in {"release", "raise"}
    /\ lock' = [lock EXCEPT ![key[r]] = None]
    /\ Finish(r, IF pc[r] = "raise" THEN Exception
                 ELSE [status |-> "response", by |-> r])
    /\ UNCHANGED <<key, response, ran, retry, expiries>>

-----------------------------------------------------------------------------
(***************************************************************************)
(* A Redis call fails: the connection can break before the server gets the *)
(* command or between the command and its reply.  The client library sends *)
(* the command again and raises when that fails too.                       *)
(***************************************************************************)
CheckFails(r) ==
    /\ RedisFaults
    /\ pc[r] = "check"
    /\ Finish(r, Exception)
    /\ UNCHANGED <<key, lock, response, ran, retry, expiries>>

\* The exception leaves before the try block, so nothing will release a lock
\* that was set; a SET NX sent again finds the request's own lock.
AcquireFails(r) ==
    /\ RedisFaults
    /\ pc[r] = "acquire"
    /\ \/ /\ lock' = lock
          /\ Finish(r, Exception)
       \/ /\ lock[key[r]] = None
          /\ lock' = [lock EXCEPT ![key[r]] = r]
          /\ \E a \in {Exception, Conflict} : Finish(r, a)
    /\ UNCHANGED <<key, response, ran, retry, expiries>>

CacheFails(r) ==
    /\ RedisFaults
    /\ pc[r] = "cache"
    /\ response' \in {response, [response EXCEPT ![key[r]] = r]}
    /\ Goto(r, "raise")
    /\ UNCHANGED <<key, lock, ran, retry, expiries>>

\* An exception of the finally block replaces the response.
ReleaseFails(r) ==
    /\ RedisFaults
    /\ pc[r] \in {"release", "raise"}
    /\ lock' \in {lock, [lock EXCEPT ![key[r]] = None]}
    /\ Finish(r, Exception)
    /\ UNCHANGED <<key, response, ran, retry, expiries>>

\* The worker dies: neither except nor finally runs.
Crash(r) ==
    /\ Crashes
    /\ pc[r] \notin {"new", "done", "crashed"}
    /\ Goto(r, "crashed")
    /\ UNCHANGED <<key, lock, response, ran, retry, expiries>>

(***************************************************************************)
(* Redis expires keys: a response after IDEMPOTENCY_TTL (24 h), a lock     *)
(* after IDEMPOTENCY_LOCK_TTL (60 s), which a slow handler outlives.       *)
(***************************************************************************)
ResponseExpires(k) ==
    /\ response[k] # None
    /\ response' = [response EXCEPT ![k] = None]
    /\ forgotten' = forgotten \union {k}
    /\ UNCHANGED <<pc, key, lock, ran, answer, retry, overtaken>>

\* Mutant: the lock is set without EX.
LockNeverExpires(k) == FALSE /\ UNCHANGED vars

LockExpires(k) ==
    /\ lock[k] # None
    /\ lock' = [lock EXCEPT ![k] = None]
    /\ overtaken' = IF pc[lock[k]] \in Critical THEN overtaken \union {k} ELSE overtaken
    /\ UNCHANGED <<pc, key, response, ran, answer, retry, forgotten>>

-----------------------------------------------------------------------------
RequestStep(r) ==
    \/ ReplayResponse(r)
    \/ MissResponse(r)
    \/ AcquireLock(r)
    \/ RefuseLock(r)
    \/ CacheResponse(r)
    \/ ReleaseLock(r)
    \/ CheckFails(r)
    \/ AcquireFails(r)
    \/ CacheFails(r)
    \/ ReleaseFails(r)

Next ==
    \/ \E r \in Requests :
          \/ \E k \in Keys \union {NoKey} : Arrive(r, k)
          \/ \E o \in Outcomes : PlainHandler(r, o) \/ HandlerEnds(r, o)
          \/ RequestStep(r)
          \/ Crash(r)
    \/ \E k \in Keys : LockExpires(k) \/ ResponseExpires(k)

Spec == Init /\ [][Next]_vars

(***************************************************************************)
(* The event loop runs every request on, and Redis expires every lock.     *)
(* Nothing makes the real handler return: no step of it is fair.           *)
(***************************************************************************)
Fairness ==
    /\ \A r \in Requests : WF_vars(RequestStep(r))
    /\ \A k \in Keys : WF_vars(LockExpires(k))

FairSpec == Spec /\ Fairness

-----------------------------------------------------------------------------
\* Every variable keeps the shape the code gives it.
TypeOK ==
    /\ pc \in [Requests -> Stages]
    /\ key \in [Requests -> Keys \union {NoKey}]
    /\ lock \in [Keys -> Requests \union {None}]
    /\ response \in [Keys -> Requests \union {None}]
    /\ ran \in [Requests -> Outcomes \union {"no", "started"}]
    /\ answer \in [Requests -> Answers]
    /\ retry \in [Requests -> BOOLEAN]
    /\ overtaken \subseteq Keys
    /\ forgotten \subseteq Keys

(***************************************************************************)
(* acquire_lock gives "an exclusive lock for the given key": until a       *)
(* handler outlives the lock of its key, two requests with one key are     *)
(* never between acquire_lock and release_lock together, although          *)
(* release_lock deletes the lock without checking who set it.              *)
(***************************************************************************)
MutualExclusion ==
    \A r, q \in Requests :
        (/\ pc[r] \in Critical /\ pc[q] \in Critical
         /\ key[r] = key[q] /\ key[r] \notin overtaken) => r = q

(***************************************************************************)
(* A client that retries with the same key after somebody has received a   *)
(* storable response never runs the handler a second time, whatever        *)
(* crashes, faults and lock expiries happened before (get_cached_response  *)
(* comes first, and the response is stored before it is delivered), until  *)
(* a response of that key has run out.                                     *)
(***************************************************************************)
RetryNotReexecuted ==
    \A r \in Requests : retry[r] => ran[r] = "no" \/ key[r] \in forgotten

(***************************************************************************)
(* A replayed response was produced by a handler run of the same key, by   *)
(* another request, that ended below 500; a request answered with a replay *)
(* ran nothing itself.                                                     *)
(***************************************************************************)
ReplayIsGenuine ==
    \A r \in Requests : answer[r].status = "replay" =>
        /\ ran[r] = "no"
        /\ answer[r].by \in Requests \ {r}
        /\ key[answer[r].by] = key[r]
        /\ ran[answer[r].by] \in Cacheable

(***************************************************************************)
(* constants.py: the lock's expiration is there "to prevent permanent      *)
(* deadlocks".  A lock never stays for good, even when its request crashed *)
(* or its handler hangs.                                                   *)
(***************************************************************************)
LockIsFreed == \A k \in Keys : (lock[k] # None) ~> (lock[k] = None)

(***************************************************************************)
(* IdempotentRoute: "it ensures the request is processed exactly once".    *)
(* Unless a Redis key ran out, no two requests with one key both run the   *)
(* handler to a good end.                                                  *)
(***************************************************************************)
ProcessedExactlyOnce ==
    \A r, q \in Requests :
        (/\ key[r] = key[q] /\ key[r] \in Keys \ (overtaken \union forgotten)
         /\ ran[r] \in Cacheable /\ ran[q] \in Cacheable) => r = q

=============================================================================
