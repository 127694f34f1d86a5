-------------------------------- MODULE Cache --------------------------------
(***************************************************************************)
(* The decorators of api/core/cache.py over one Redis store: cache reads   *)
(* through, cache_invalidate deletes after the decorated function has run. *)
(* A cached value is what the decorated function returned; None (NoValue)  *)
(* is never stored.  Errors of Redis are logged and swallowed: a failed    *)
(* read is a miss, a failed write or delete leaves the caller unaware.     *)
(***************************************************************************)
CONSTANTS
    CacheKeys,    \* the Redis keys, or fields of Redis hashes, in use
    NoValue,      \* no entry; also None as the result of a function
    RedisFaults   \* a Redis command may fail, applied or not

VARIABLE store    \* the value under every key

\* _get_from_cache: the answers a look-up of k can give.
GetFromCache(k) == {store[k]} \union (IF RedisFaults THEN {NoValue} ELSE {})

\* _save_to_cache: the stores that saving v under k can leave.
SaveToCache(k, v) ==
    {IF v = NoValue THEN store ELSE [store EXCEPT ![k] = v]}
    \union (IF RedisFaults THEN {store} ELSE {})

\* DEL or HDEL of a set of keys.
Without(K) == [k \in CacheKeys |-> IF k \in K THEN NoValue ELSE store[k]]

\* The invalidation step of cache_invalidate, when Redis answers.
Invalidate(K) == store' = Without(K)

\* cache_invalidate logs an error of the deletion and goes on.
InvalidateFails(K) == RedisFaults /\ store' \in {store, Without(K)}

\* A key that was set with an expiry runs out.
Expire(k) == store[k] # NoValue /\ store' = Without({k})

=============================================================================
