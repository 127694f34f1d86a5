------------------------- MODULE IdempotencyProofs -------------------------
(***************************************************************************)
(* Proofs about Idempotency for any sets of requests and keys, with or     *)
(* without Redis faults and crashes.                                       *)
(***************************************************************************)
EXTENDS Idempotency, TLAPS

\* A request past the branch on the header carries a key.
KeyedInv ==
    \A r \in Requests :
        /\ pc[r] \in {"check", "acquire"} \union Critical => key[r] \in Keys
        /\ pc[r] = "plain" => key[r] = NoKey

\* Before its handler a request has run nothing; while it stores or returns
\* a response, the handler has ended.
RanInv ==
    \A r \in Requests :
        /\ pc[r] \in {"new", "check", "acquire"} => ran[r] = "no"
        /\ pc[r] = "cache" => ran[r] \in Cacheable
        /\ pc[r] \notin {"done"} => answer[r] = Pending
        /\ pc[r] \in {"new", "plain", "acquire"} \union Critical => ~retry[r] \/ key[r] \in forgotten

\* The lock of a request between acquire_lock and release_lock is its own,
\* until it runs out.
LockInv ==
    \A r \in Requests :
        (pc[r] \in Critical /\ key[r] \notin overtaken) => lock[key[r]] = r

\* The request that r names will neither change its key nor run again.
Settled(r) == pc[r] \in {"cache", "release", "raise", "done", "crashed"}

\* A stored response is a finished run of the same key, and so is a replay.
GenuineInv ==
    /\ \A k \in Keys : response[k] # None =>
          /\ key[response[k]] = k
          /\ ran[response[k]] \in Cacheable
          /\ Settled(response[k])
    /\ \A r \in Requests :
          /\ answer[r].status = "response" => answer[r].by = r
          /\ answer[r].status = "replay" =>
                /\ ran[r] = "no"
                /\ key[r] \in Keys
                /\ key[answer[r].by] = key[r]
                /\ ran[answer[r].by] \in Cacheable
                /\ Settled(answer[r].by)

\* Unless it ran out, what is about to be delivered or was delivered is still
\* stored, and a retry has nowhere to go but the replay.
StoredInv ==
    \A r \in Requests : key[r] \notin forgotten =>
        /\ (pc[r] = "release" /\ ran[r] \in Cacheable) => response[key[r]] # None
        /\ (/\ answer[r].status \in {"response", "replay"}
            /\ ran[answer[r].by] \in Cacheable
            /\ key[r] \in Keys) => response[key[r]] # None
        /\ retry[r] => /\ ran[r] = "no"
                       /\ key[r] \in Keys
                       /\ response[key[r]] # None

IInv == TypeOK /\ KeyedInv /\ RanInv /\ LockInv /\ GenuineInv /\ StoredInv

(***************************************************************************)
(* Each conjunct of the inductive invariant is kept by each action; the    *)
(* hypotheses of a lemma are the conjuncts its argument needs.             *)
(***************************************************************************)

\* Types: a request only uses Redis keys of its own key, and a replay answers
\* with a stored response.
LEMMA TypeStep ==
    ASSUME TypeOK, KeyedInv, [Next]_vars
    PROVE  TypeOK'
<1> USE IdempotencyConstants
    DEF expiries, TypeOK, KeyedInv, Stages, Outcomes, Cacheable, Critical, Answers, Pending
<1>1. ASSUME NEW r \in Requests, NEW k \in Keys \union {NoKey}, Arrive(r, k)
      PROVE  TypeOK'
  BY <1>1 DEF Arrive, Goto
<1>2. ASSUME NEW r \in Requests, NEW o \in Outcomes, PlainHandler(r, o)
      PROVE  TypeOK'
  BY <1>2 DEF PlainHandler, Finish, Exception
<1>3. ASSUME NEW r \in Requests, NEW o \in Outcomes, HandlerEnds(r, o)
      PROVE  TypeOK'
  BY <1>3 DEF HandlerEnds, Goto
<1>4. ASSUME NEW r \in Requests, ReplayResponse(r)
      PROVE  TypeOK'
  BY <1>4 DEF ReplayResponse, Finish
<1>5. ASSUME NEW r \in Requests, MissResponse(r)
      PROVE  TypeOK'
  BY <1>5 DEF MissResponse, Goto
<1>6. ASSUME NEW r \in Requests, AcquireLock(r)
      PROVE  TypeOK'
  BY <1>6 DEF AcquireLock, Goto
<1>7. ASSUME NEW r \in Requests, RefuseLock(r)
      PROVE  TypeOK'
  BY <1>7 DEF RefuseLock, Finish, Conflict
<1>8. ASSUME NEW r \in Requests, CacheResponse(r)
      PROVE  TypeOK'
  BY <1>8 DEF CacheResponse, Goto
<1>9. ASSUME NEW r \in Requests, ReleaseLock(r)
      PROVE  TypeOK'
  BY <1>9 DEF ReleaseLock, Finish, Exception
<1>10. ASSUME NEW r \in Requests, CheckFails(r)
      PROVE  TypeOK'
  BY <1>10 DEF CheckFails, Finish, Exception
<1>11. ASSUME NEW r \in Requests, AcquireFails(r)
      PROVE  TypeOK'
  BY <1>11 DEF AcquireFails, Finish, Exception, Conflict
<1>12. ASSUME NEW r \in Requests, CacheFails(r)
      PROVE  TypeOK'
  BY <1>12 DEF CacheFails, Goto
<1>13. ASSUME NEW r \in Requests, ReleaseFails(r)
      PROVE  TypeOK'
  BY <1>13 DEF ReleaseFails, Finish, Exception
<1>14. ASSUME NEW r \in Requests, Crash(r)
      PROVE  TypeOK'
  BY <1>14 DEF Crash, Goto
<1>15. ASSUME NEW k \in Keys, LockExpires(k)
      PROVE  TypeOK'
  BY <1>15 DEF LockExpires
<1>16. ASSUME NEW k \in Keys, ResponseExpires(k)
      PROVE  TypeOK'
  BY <1>16 DEF ResponseExpires
<1>17. CASE UNCHANGED vars
  BY <1>17 DEF vars
<1>18. QED
  BY <1>1, <1>2, <1>3, <1>4, <1>5, <1>6, <1>7, <1>8, <1>9, <1>10, <1>11, <1>12, <1>13, <1>14, <1>15, <1>16, <1>17 DEF Next, RequestStep

\* A key is chosen once, when the request arrives.
LEMMA KeyedStep ==
    ASSUME TypeOK, KeyedInv, [Next]_vars
    PROVE  KeyedInv'
<1> USE IdempotencyConstants
    DEF expiries, TypeOK, KeyedInv, Stages, Outcomes, Cacheable, Critical, Answers, Pending
<1>1. ASSUME NEW r \in Requests, NEW k \in Keys \union {NoKey}, Arrive(r, k)
      PROVE  KeyedInv'
  BY <1>1 DEF Arrive, Goto
<1>2. ASSUME NEW r \in Requests, NEW o \in Outcomes, PlainHandler(r, o)
      PROVE  KeyedInv'
  BY <1>2 DEF PlainHandler, Finish, Exception
<1>3. ASSUME NEW r \in Requests, NEW o \in Outcomes, HandlerEnds(r, o)
      PROVE  KeyedInv'
  BY <1>3 DEF HandlerEnds, Goto
<1>4. ASSUME NEW r \in Requests, ReplayResponse(r)
      PROVE  KeyedInv'
  BY <1>4 DEF ReplayResponse, Finish
<1>5. ASSUME NEW r \in Requests, MissResponse(r)
      PROVE  KeyedInv'
  BY <1>5 DEF MissResponse, Goto
<1>6. ASSUME NEW r \in Requests, AcquireLock(r)
      PROVE  KeyedInv'
  BY <1>6 DEF AcquireLock, Goto
<1>7. ASSUME NEW r \in Requests, RefuseLock(r)
      PROVE  KeyedInv'
  BY <1>7 DEF RefuseLock, Finish, Conflict
<1>8. ASSUME NEW r \in Requests, CacheResponse(r)
      PROVE  KeyedInv'
  BY <1>8 DEF CacheResponse, Goto
<1>9. ASSUME NEW r \in Requests, ReleaseLock(r)
      PROVE  KeyedInv'
  BY <1>9 DEF ReleaseLock, Finish, Exception
<1>10. ASSUME NEW r \in Requests, CheckFails(r)
      PROVE  KeyedInv'
  BY <1>10 DEF CheckFails, Finish, Exception
<1>11. ASSUME NEW r \in Requests, AcquireFails(r)
      PROVE  KeyedInv'
  BY <1>11 DEF AcquireFails, Finish, Exception, Conflict
<1>12. ASSUME NEW r \in Requests, CacheFails(r)
      PROVE  KeyedInv'
  BY <1>12 DEF CacheFails, Goto
<1>13. ASSUME NEW r \in Requests, ReleaseFails(r)
      PROVE  KeyedInv'
  BY <1>13 DEF ReleaseFails, Finish, Exception
<1>14. ASSUME NEW r \in Requests, Crash(r)
      PROVE  KeyedInv'
  BY <1>14 DEF Crash, Goto
<1>15. ASSUME NEW k \in Keys, LockExpires(k)
      PROVE  KeyedInv'
  BY <1>15 DEF LockExpires
<1>16. ASSUME NEW k \in Keys, ResponseExpires(k)
      PROVE  KeyedInv'
  BY <1>16 DEF ResponseExpires
<1>17. CASE UNCHANGED vars
  BY <1>17 DEF vars
<1>18. QED
  BY <1>1, <1>2, <1>3, <1>4, <1>5, <1>6, <1>7, <1>8, <1>9, <1>10, <1>11, <1>12, <1>13, <1>14, <1>15, <1>16, <1>17 DEF Next, RequestStep

\* SET NX keeps the locks of others, DELETE only meets the own lock, and a lock
\* that runs out under its request is recorded.
LEMMA LockStep ==
    ASSUME TypeOK, KeyedInv, LockInv, [Next]_vars
    PROVE  LockInv'
<1> USE IdempotencyConstants
    DEF expiries, TypeOK, KeyedInv, LockInv, Stages, Outcomes, Cacheable, Critical, Answers, Pending
<1>1. ASSUME NEW r \in Requests, NEW k \in Keys \union {NoKey}, Arrive(r, k)
      PROVE  LockInv'
  BY <1>1 DEF Arrive, Goto
<1>2. ASSUME NEW r \in Requests, NEW o \in Outcomes, PlainHandler(r, o)
      PROVE  LockInv'
  BY <1>2 DEF PlainHandler, Finish, Exception
<1>3. ASSUME NEW r \in Requests, NEW o \in Outcomes, HandlerEnds(r, o)
      PROVE  LockInv'
  BY <1>3 DEF HandlerEnds, Goto
<1>4. ASSUME NEW r \in Requests, ReplayResponse(r)
      PROVE  LockInv'
  BY <1>4 DEF ReplayResponse, Finish
<1>5. ASSUME NEW r \in Requests, MissResponse(r)
      PROVE  LockInv'
  BY <1>5 DEF MissResponse, Goto
<1>6. ASSUME NEW r \in Requests, AcquireLock(r)
      PROVE  LockInv'
  BY <1>6 DEF AcquireLock, Goto
<1>7. ASSUME NEW r \in Requests, RefuseLock(r)
      PROVE  LockInv'
  BY <1>7 DEF RefuseLock, Finish, Conflict
<1>8. ASSUME NEW r \in Requests, CacheResponse(r)
      PROVE  LockInv'
  BY <1>8 DEF CacheResponse, Goto
<1>9. ASSUME NEW r \in Requests, ReleaseLock(r)
      PROVE  LockInv'
  BY <1>9 DEF ReleaseLock, Finish, Exception
<1>10. ASSUME NEW r \in Requests, CheckFails(r)
      PROVE  LockInv'
  BY <1>10 DEF CheckFails, Finish, Exception
<1>11. ASSUME NEW r \in Requests, AcquireFails(r)
      PROVE  LockInv'
  BY <1>11 DEF AcquireFails, Finish, Exception, Conflict
<1>12. ASSUME NEW r \in Requests, CacheFails(r)
      PROVE  LockInv'
  BY <1>12 DEF CacheFails, Goto
<1>13. ASSUME NEW r \in Requests, ReleaseFails(r)
      PROVE  LockInv'
  BY <1>13 DEF ReleaseFails, Finish, Exception
<1>14. ASSUME NEW r \in Requests, Crash(r)
      PROVE  LockInv'
  BY <1>14 DEF Crash, Goto
<1>15. ASSUME NEW k \in Keys, LockExpires(k)
      PROVE  LockInv'
  BY <1>15 DEF LockExpires
<1>16. ASSUME NEW k \in Keys, ResponseExpires(k)
      PROVE  LockInv'
  BY <1>16 DEF ResponseExpires
<1>17. CASE UNCHANGED vars
  BY <1>17 DEF vars
<1>18. QED
  BY <1>1, <1>2, <1>3, <1>4, <1>5, <1>6, <1>7, <1>8, <1>9, <1>10, <1>11, <1>12, <1>13, <1>14, <1>15, <1>16, <1>17 DEF Next, RequestStep

\* A response enters the cache from the run that produced it, and a settled run
\* does not change any more.
LEMMA GenuineStep ==
    ASSUME TypeOK, KeyedInv, RanInv, GenuineInv, [Next]_vars
    PROVE  GenuineInv'
<1> USE IdempotencyConstants
    DEF expiries, TypeOK, KeyedInv, RanInv, GenuineInv, Settled, Stages, Outcomes, Cacheable, Critical, Answers, Pending
<1>1. ASSUME NEW r \in Requests, NEW k \in Keys \union {NoKey}, Arrive(r, k)
      PROVE  GenuineInv'
  BY <1>1 DEF Arrive, Goto
<1>2. ASSUME NEW r \in Requests, NEW o \in Outcomes, PlainHandler(r, o)
      PROVE  GenuineInv'
  BY <1>2 DEF PlainHandler, Finish, Exception
<1>3. ASSUME NEW r \in Requests, NEW o \in Outcomes, HandlerEnds(r, o)
      PROVE  GenuineInv'
  BY <1>3 DEF HandlerEnds, Goto
<1>4. ASSUME NEW r \in Requests, ReplayResponse(r)
      PROVE  GenuineInv'
  BY <1>4 DEF ReplayResponse, Finish
<1>5. ASSUME NEW r \in Requests, MissResponse(r)
      PROVE  GenuineInv'
  BY <1>5 DEF MissResponse, Goto
<1>6. ASSUME NEW r \in Requests, AcquireLock(r)
      PROVE  GenuineInv'
  BY <1>6 DEF AcquireLock, Goto
<1>7. ASSUME NEW r \in Requests, RefuseLock(r)
      PROVE  GenuineInv'
  BY <1>7 DEF RefuseLock, Finish, Conflict
<1>8. ASSUME NEW r \in Requests, CacheResponse(r)
      PROVE  GenuineInv'
  BY <1>8 DEF CacheResponse, Goto
<1>9. ASSUME NEW r \in Requests, ReleaseLock(r)
      PROVE  GenuineInv'
  BY <1>9 DEF ReleaseLock, Finish, Exception
<1>10. ASSUME NEW r \in Requests, CheckFails(r)
      PROVE  GenuineInv'
  BY <1>10 DEF CheckFails, Finish, Exception
<1>11. ASSUME NEW r \in Requests, AcquireFails(r)
      PROVE  GenuineInv'
  BY <1>11 DEF AcquireFails, Finish, Exception, Conflict
<1>12. ASSUME NEW r \in Requests, CacheFails(r)
      PROVE  GenuineInv'
  BY <1>12 DEF CacheFails, Goto
<1>13. ASSUME NEW r \in Requests, ReleaseFails(r)
      PROVE  GenuineInv'
  BY <1>13 DEF ReleaseFails, Finish, Exception
<1>14. ASSUME NEW r \in Requests, Crash(r)
      PROVE  GenuineInv'
  BY <1>14 DEF Crash, Goto
<1>15. ASSUME NEW k \in Keys, LockExpires(k)
      PROVE  GenuineInv'
  BY <1>15 DEF LockExpires
<1>16. ASSUME NEW k \in Keys, ResponseExpires(k)
      PROVE  GenuineInv'
  BY <1>16 DEF ResponseExpires
<1>17. CASE UNCHANGED vars
  BY <1>17 DEF vars
<1> HIDE DEF TypeOK, KeyedInv, RanInv, GenuineInv, Outcomes
<1>18. QED
  BY <1>1, <1>2, <1>3, <1>4, <1>5, <1>6, <1>7, <1>8, <1>9, <1>10, <1>11, <1>12, <1>13, <1>14, <1>15, <1>16, <1>17 DEF Next, RequestStep

\* cache_response comes before the delivery, and only expiry empties the cache.
LEMMA StoredStep ==
    ASSUME TypeOK, KeyedInv, RanInv, GenuineInv, StoredInv, [Next]_vars
    PROVE  StoredInv'
<1> USE IdempotencyConstants
    DEF expiries, TypeOK, KeyedInv, RanInv, GenuineInv, StoredInv, Settled, Stages, Outcomes, Cacheable, Critical, Answers, Pending
<1>1. ASSUME NEW r \in Requests, NEW k \in Keys \union {NoKey}, Arrive(r, k)
      PROVE  StoredInv'
  <2>1. (k \in Keys \ forgotten /\ Delivered(k)) => response[k] # None
    BY DEF Delivered
  <2>2. answer[r] = Pending /\ ran[r] = "no" /\ pc[r] = "new"
    BY <1>1 DEF Arrive
  <2>3. SUFFICES ASSUME NEW q \in Requests, (key[q] \notin forgotten)'
                 PROVE  /\ ((pc[q] = "release" /\ ran[q] \in Cacheable)
                               => response[key[q]] # None)'
                        /\ ((/\ answer[q].status \in {"response", "replay"}
                             /\ ran[answer[q].by] \in Cacheable
                             /\ key[q] \in Keys) => response[key[q]] # None)'
                        /\ (retry[q] => /\ ran[q] = "no"
                                        /\ key[q] \in Keys
                                        /\ response[key[q]] # None)'
    OBVIOUS
  <2>4. CASE q = r
    <3>1. /\ key'[r] = k /\ pc'[r] # "release" /\ answer'[r] = Pending /\ ran'[r] = "no"
          /\ response' = response /\ forgotten' = forgotten
      BY <1>1, <2>2 DEF Arrive, Goto
    <3>2. retry'[r] => k # NoKey /\ Delivered(k)
      <4> HIDE DEF TypeOK, KeyedInv, RanInv, GenuineInv, StoredInv, Cacheable, Critical
      <4>1. retry' = [retry EXCEPT ![r] = k # NoKey /\ Delivered(k)]
        BY <1>1, Zenon DEF Arrive
      <4>2. retry \in [Requests -> BOOLEAN]
        BY DEF TypeOK
      <4>3. QED
        BY <4>1, <4>2, Zenon
    <3>3. QED
      BY <2>1, <2>3, <2>4, <3>1, <3>2
  <2>5. CASE q # r
    BY <1>1, <2>3, <2>5 DEF Arrive, Goto
  <2>6. QED
    BY <2>4, <2>5
<1>2. ASSUME NEW r \in Requests, NEW o \in Outcomes, PlainHandler(r, o)
      PROVE  StoredInv'
  BY <1>2 DEF PlainHandler, Finish, Exception
<1>3. ASSUME NEW r \in Requests, NEW o \in Outcomes, HandlerEnds(r, o)
      PROVE  StoredInv'
  BY <1>3 DEF HandlerEnds, Goto
<1>4. ASSUME NEW r \in Requests, ReplayResponse(r)
      PROVE  StoredInv'
  BY <1>4 DEF ReplayResponse, Finish
<1>5. ASSUME NEW r \in Requests, MissResponse(r)
      PROVE  StoredInv'
  BY <1>5 DEF MissResponse, Goto
<1>6. ASSUME NEW r \in Requests, AcquireLock(r)
      PROVE  StoredInv'
  BY <1>6 DEF AcquireLock, Goto
<1>7. ASSUME NEW r \in Requests, RefuseLock(r)
      PROVE  StoredInv'
  BY <1>7 DEF RefuseLock, Finish, Conflict
<1>8. ASSUME NEW r \in Requests, CacheResponse(r)
      PROVE  StoredInv'
  BY <1>8 DEF CacheResponse, Goto
<1>9. ASSUME NEW r \in Requests, ReleaseLock(r)
      PROVE  StoredInv'
  BY <1>9 DEF ReleaseLock, Finish, Exception
<1>10. ASSUME NEW r \in Requests, CheckFails(r)
      PROVE  StoredInv'
  BY <1>10 DEF CheckFails, Finish, Exception
<1>11. ASSUME NEW r \in Requests, AcquireFails(r)
      PROVE  StoredInv'
  BY <1>11 DEF AcquireFails, Finish, Exception, Conflict
<1>12. ASSUME NEW r \in Requests, CacheFails(r)
      PROVE  StoredInv'
  BY <1>12 DEF CacheFails, Goto
<1>13. ASSUME NEW r \in Requests, ReleaseFails(r)
      PROVE  StoredInv'
  BY <1>13 DEF ReleaseFails, Finish, Exception
<1>14. ASSUME NEW r \in Requests, Crash(r)
      PROVE  StoredInv'
  BY <1>14 DEF Crash, Goto
<1>15. ASSUME NEW k \in Keys, LockExpires(k)
      PROVE  StoredInv'
  BY <1>15 DEF LockExpires
<1>16. ASSUME NEW k \in Keys, ResponseExpires(k)
      PROVE  StoredInv'
  BY <1>16 DEF ResponseExpires
<1>17. CASE UNCHANGED vars
  BY <1>17 DEF vars
<1>18. QED
  BY <1>1, <1>2, <1>3, <1>4, <1>5, <1>6, <1>7, <1>8, <1>9, <1>10, <1>11, <1>12, <1>13, <1>14, <1>15, <1>16, <1>17 DEF Next, RequestStep

\* The handler runs after the lock; a retry finds its response and never gets
\* there.
LEMMA RanStep ==
    ASSUME TypeOK, KeyedInv, RanInv, StoredInv, [Next]_vars
    PROVE  RanInv'
<1> USE IdempotencyConstants
    DEF expiries, TypeOK, KeyedInv, RanInv, StoredInv, Stages, Outcomes, Cacheable, Critical, Answers, Pending
<1>1. ASSUME NEW r \in Requests, NEW k \in Keys \union {NoKey}, Arrive(r, k)
      PROVE  RanInv'
  BY <1>1 DEF Arrive, Goto
<1>2. ASSUME NEW r \in Requests, NEW o \in Outcomes, PlainHandler(r, o)
      PROVE  RanInv'
  BY <1>2 DEF PlainHandler, Finish, Exception
<1>3. ASSUME NEW r \in Requests, NEW o \in Outcomes, HandlerEnds(r, o)
      PROVE  RanInv'
  BY <1>3 DEF HandlerEnds, Goto
<1>4. ASSUME NEW r \in Requests, ReplayResponse(r)
      PROVE  RanInv'
  BY <1>4 DEF ReplayResponse, Finish
<1>5. ASSUME NEW r \in Requests, MissResponse(r)
      PROVE  RanInv'
  BY <1>5 DEF MissResponse, Goto
<1>6. ASSUME NEW r \in Requests, AcquireLock(r)
      PROVE  RanInv'
  BY <1>6 DEF AcquireLock, Goto
<1>7. ASSUME NEW r \in Requests, RefuseLock(r)
      PROVE  RanInv'
  BY <1>7 DEF RefuseLock, Finish, Conflict
<1>8. ASSUME NEW r \in Requests, CacheResponse(r)
      PROVE  RanInv'
  BY <1>8 DEF CacheResponse, Goto
<1>9. ASSUME NEW r \in Requests, ReleaseLock(r)
      PROVE  RanInv'
  BY <1>9 DEF ReleaseLock, Finish, Exception
<1>10. ASSUME NEW r \in Requests, CheckFails(r)
      PROVE  RanInv'
  BY <1>10 DEF CheckFails, Finish, Exception
<1>11. ASSUME NEW r \in Requests, AcquireFails(r)
      PROVE  RanInv'
  BY <1>11 DEF AcquireFails, Finish, Exception, Conflict
<1>12. ASSUME NEW r \in Requests, CacheFails(r)
      PROVE  RanInv'
  BY <1>12 DEF CacheFails, Goto
<1>13. ASSUME NEW r \in Requests, ReleaseFails(r)
      PROVE  RanInv'
  BY <1>13 DEF ReleaseFails, Finish, Exception
<1>14. ASSUME NEW r \in Requests, Crash(r)
      PROVE  RanInv'
  BY <1>14 DEF Crash, Goto
<1>15. ASSUME NEW k \in Keys, LockExpires(k)
      PROVE  RanInv'
  BY <1>15 DEF LockExpires
<1>16. ASSUME NEW k \in Keys, ResponseExpires(k)
      PROVE  RanInv'
  BY <1>16 DEF ResponseExpires
<1>17. CASE UNCHANGED vars
  BY <1>17 DEF vars
<1>18. QED
  BY <1>1, <1>2, <1>3, <1>4, <1>5, <1>6, <1>7, <1>8, <1>9, <1>10, <1>11, <1>12, <1>13, <1>14, <1>15, <1>16, <1>17 DEF Next, RequestStep

\* The inductive invariant holds in every reachable state.
THEOREM Invariance == Spec => []IInv
<1>1. Init => IInv
  BY IdempotencyConstants
  DEF Init, IInv, TypeOK, KeyedInv, RanInv, LockInv, GenuineInv, StoredInv,
      Stages, Outcomes, Cacheable, Critical, Answers, Pending
<1>2. IInv /\ [Next]_vars => IInv'
  BY TypeStep, KeyedStep, RanStep, LockStep, GenuineStep, StoredStep DEF IInv
<1>3. QED
  BY <1>1, <1>2, PTL DEF Spec

(***************************************************************************)
(* The variables of the route and of Redis keep their types.               *)
(***************************************************************************)
THEOREM TypeCorrect == Spec => []TypeOK
<1>1. IInv => TypeOK
  BY DEF IInv
<1>2. QED
  BY <1>1, Invariance, PTL

(***************************************************************************)
(* Until a handler outlives its lock, the requests of one key are between  *)
(* acquire_lock and release_lock one at a time.                            *)
(***************************************************************************)
THEOREM Exclusion == Spec => []MutualExclusion
<1>1. IInv => MutualExclusion
  BY DEF IInv, LockInv, MutualExclusion
<1>2. QED
  BY <1>1, Invariance, PTL

(***************************************************************************)
(* Until a response of its key expires, a retry after a delivered response *)
(* does not run the handler again, whatever else goes wrong.               *)
(***************************************************************************)
THEOREM RetrySafe == Spec => []RetryNotReexecuted
<1>1. IInv => RetryNotReexecuted
  BY DEF IInv, StoredInv, RetryNotReexecuted
<1>2. QED
  BY <1>1, Invariance, PTL

(***************************************************************************)
(* Every replay is the response of a good run of the same key by another   *)
(* request.                                                                *)
(***************************************************************************)
THEOREM ReplaySound == Spec => []ReplayIsGenuine
<1>1. IInv => ReplayIsGenuine
  BY IdempotencyConstants
  DEF IInv, TypeOK, Answers, GenuineInv, Cacheable, ReplayIsGenuine
<1>2. QED
  BY <1>1, Invariance, PTL

=============================================================================
