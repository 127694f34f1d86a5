------------------------------- MODULE ApiKeys -------------------------------
(***************************************************************************)
(* API keys: rows of api_keys, read by the hash of the secret through the  *)
(* cache, and changed by the service (routes) and by the admin view.       *)
(* A client's request is one call of get_api_key; an operator's request is *)
(* one change.  Every await on PostgreSQL or Redis is an action.  The read *)
(* and the write pool reach one database, as in the shipped configuration. *)
(*                                                                         *)
(* A secret is named by its hash.  Of a row the model keeps what decides   *)
(* a verification: hash, is_active and whether expires_at is a time that   *)
(* passes within the run (due).                                            *)
(***************************************************************************)
EXTENDS Cache, FiniteSets

CONSTANTS
    KeyIds,       \* ids of API keys
    Hashes,       \* hashed secrets; generate_api_key never returns one twice
    Clients,      \* requests that present a secret
    Operators     \* requests that change a key

ASSUME ApiKeysConstants == Hashes \subseteq CacheKeys

VARIABLES
    keys,      \* api_keys: id -> row or NoValue
    issued,    \* the hashes generate_api_key has returned
    due,       \* the time in expires_at has passed
    recent,    \* api_key:last_used_lock:<id>, the throttle of last_used_at
    client,    \* the state of each client's request
    operator,  \* the state of each operator's request
    missed     \* history: hashes whose entry no change will evict any more

keyVars == <<keys, issued, due, recent, client, operator, missed>>

KeyRows == [id : KeyIds, hash : Hashes, active : BOOLEAN, expires : BOOLEAN]
Services == {"update", "rotate", "delete"}
Views == {"edit", "rotate_action", "deactivate", "activate", "delete_keys"}

IdleClient == [at |-> "new", hash |-> NoValue, row |-> NoValue]
IdleOperator == [at |-> "new", op |-> NoValue, id |-> NoValue, existing |-> NoValue]

KeysTypeOK ==
    /\ keys \in [KeyIds -> KeyRows \union {NoValue}]
    /\ issued \subseteq Hashes /\ due \in BOOLEAN /\ recent \subseteq KeyIds
    /\ \A c \in Clients : /\ client[c].at \in {"new", "fetch", "save", "check", "accepted", "refused"}
                          /\ client[c].row \in KeyRows \union {NoValue}
    /\ \A o \in Operators : /\ operator[o].at \in {"new", "write", "evict", "done"}
                            /\ operator[o].existing \in Hashes \union {NoValue}
    /\ \A h \in Hashes : store[h] \in KeyRows \union {NoValue}
    /\ missed \subseteq Hashes

-----------------------------------------------------------------------------
(***************************************************************************)
(* The statements of ApiKeyDAO.                                            *)
(***************************************************************************)
\* create_api_key.
InsertKey(i, h, active, expires) ==
    keys' = [keys EXCEPT ![i] = [id |-> i, hash |-> h, active |-> active, expires |-> expires]]

\* get_api_key_by_hash, below its cache decorator.
RowByHash(h) ==
    LET found == {i \in KeyIds : keys[i] # NoValue /\ keys[i].hash = h}
    IN IF found = {} THEN NoValue ELSE keys[CHOOSE i \in found : TRUE]

\* Mutant: the row itself is taken for the key of the cache.
RowById(i) == keys[i]

\* get_api_key_by_id: the hash is what the callers use of the row.
HashById(i) == IF keys[i] = NoValue THEN NoValue ELSE keys[i].hash

\* update_api_key: COALESCE keeps what is not given.
UpdateRow(i, actives, expiries) ==
    IF keys[i] = NoValue THEN keys' = keys
    ELSE \E active \in actives, expires \in expiries :
            keys' = [keys EXCEPT ![i].active = active, ![i].expires = expires]

\* rotate_api_key.
RotateRow(i, h) == keys' = IF keys[i] = NoValue THEN keys ELSE [keys EXCEPT ![i].hash = h]

\* update_last_used: the throttle's key is all that the model keeps of it.
UpdateLastUsed(i) == recent' = recent \union {i}

\* delete_api_key.
DeleteRow(i) == keys' = [keys EXCEPT ![i] = NoValue]

-----------------------------------------------------------------------------
KeysInit ==
    /\ keys = [i \in KeyIds |-> NoValue]
    /\ issued = {}
    /\ due = FALSE
    /\ recent = {}
    /\ client = [c \in Clients |-> IdleClient]
    /\ operator = [o \in Operators |-> IdleOperator]
    /\ missed = {}

\* generate_api_key.
NewSecret(h) == h \notin issued /\ issued' = issued \union {h}

\* create_api_key of the service.
CreateKey(i, h, expires) ==
    /\ keys[i] = NoValue
    /\ NewSecret(h)
    /\ InsertKey(i, h, TRUE, expires)
    /\ UNCHANGED <<due, recent, client, operator, missed, store>>

\* create of the admin view: the form may say inactive.
ViewCreateKey(i, h, active, expires) ==
    /\ keys[i] = NoValue
    /\ NewSecret(h)
    /\ InsertKey(i, h, active, expires)
    /\ UNCHANGED <<due, recent, client, operator, missed, store>>

-----------------------------------------------------------------------------
(***************************************************************************)
(* verify_api_key, called by the dependency get_api_key.                   *)
(***************************************************************************)
Move(c, stage, row) == client' = [client EXCEPT ![c].at = stage, ![c].row = row]

\* The look-up of the cache decorator.
LookUp(c, h) ==
    /\ client[c].at = "new"
    /\ \E v \in GetFromCache(h) :
          client' = [client EXCEPT ![c] = [at |-> IF v = NoValue THEN "fetch" ELSE "check",
                                           hash |-> h, row |-> v]]
    /\ UNCHANGED <<keys, issued, due, recent, operator, missed, store>>

\* The SELECT after a miss.
FetchRow(c) ==
    /\ client[c].at = "fetch"
    /\ Move(c, "save", RowByHash(client[c].hash))
    /\ UNCHANGED <<keys, issued, due, recent, operator, missed, store>>

\* The SET EX of what was read.  What changed since is never evicted.
SaveRow(c) ==
    LET h == client[c].hash IN
    /\ client[c].at = "save"
    /\ store' \in SaveToCache(h, client[c].row)
    /\ Move(c, "check", client[c].row)
    /\ missed' = IF client[c].row \in {NoValue, RowByHash(h)} THEN missed ELSE missed \union {h}
    /\ UNCHANGED <<keys, issued, due, recent, operator>>

\* A row that is active and not past its expires_at.
Usable(row) == row # NoValue /\ row.active /\ ~(row.expires /\ due)

\* The dependency answers 401 for an unusable key, and 403 for one that
\* lacks a scope, after verify_api_key has set the throttle.
Refuse(c) ==
    /\ client[c].at = "check"
    /\ ~Usable(client[c].row)
    /\ Move(c, "refused", NoValue)
    /\ UNCHANGED <<keys, issued, due, recent, operator, missed, store>>

\* SET NX of the throttle, and update_last_used when it was free.
Accept(c) ==
    /\ client[c].at = "check"
    /\ Usable(client[c].row)
    /\ UpdateLastUsed(client[c].row.id)
    /\ Move(c, "accepted", NoValue)
    /\ UNCHANGED <<keys, issued, due, operator, missed, store>>

\* The throttle cannot be set: the exception ends the request.
ThrottleFails(c) ==
    /\ RedisFaults
    /\ client[c].at = "check"
    /\ Usable(client[c].row)
    /\ Move(c, "refused", NoValue)
    /\ UNCHANGED <<keys, issued, due, recent, operator, missed, store>>

\* The throttle runs out after API_KEY_LAST_USED_THROTTLE_SECONDS.
ThrottleExpires(i) ==
    /\ i \in recent
    /\ recent' = recent \ {i}
    /\ UNCHANGED <<keys, issued, due, client, operator, missed, store>>

-----------------------------------------------------------------------------
(***************************************************************************)
(* Changes: the row is read, written, and its hash as read is evicted.     *)
(***************************************************************************)
ReadExisting(o, op, i, goesOn) ==
    /\ operator[o].at = "new"
    /\ operator' = [operator EXCEPT ![o] =
          IF goesOn THEN [at |-> "write", op |-> op, id |-> i, existing |-> HashById(i)]
          ELSE [IdleOperator EXCEPT !.at = "done"]]
    /\ UNCHANGED <<keys, issued, due, recent, client, missed, store>>

\* get_api_key of the service: 404 without a row.
GetKey(o, op, i) == op \in Services /\ ReadExisting(o, op, i, keys[i] # NoValue)

\* The view's actions read the row too; only rotate_action ends without one.
ViewGetKey(o, op, i) ==
    op \in Views /\ ReadExisting(o, op, i, keys[i] # NoValue \/ op # "rotate_action")

Writing(o, op) == operator[o].at = "write" /\ operator[o].op = op

FinishOperator(o) == operator' = [operator EXCEPT ![o] = [IdleOperator EXCEPT !.at = "done"]]

\* The statement is done; the eviction follows when there is a hash to evict.
\* A change of a row under another hash than the one read is not evicted.
RowWritten(o, evicts) ==
    LET i == operator[o].id  h == operator[o].existing IN
    /\ IF evicts /\ h # NoValue THEN operator' = [operator EXCEPT ![o].at = "evict"] ELSE FinishOperator(o)
    /\ missed' = IF keys[i] # NoValue /\ keys[i].hash # h THEN missed \union {keys[i].hash} ELSE missed
    /\ UNCHANGED <<due, recent, client, store>>

\* update_api_key of the service.
UpdateKey(o) ==
    /\ Writing(o, "update")
    /\ UpdateRow(operator[o].id, BOOLEAN, BOOLEAN)
    /\ RowWritten(o, keys[operator[o].id] # NoValue)
    /\ UNCHANGED issued

\* edit of the view.
EditKey(o) ==
    /\ Writing(o, "edit")
    /\ UpdateRow(operator[o].id, BOOLEAN, BOOLEAN)
    /\ RowWritten(o, TRUE)
    /\ UNCHANGED issued

SameExpiry(i) == {keys[i] # NoValue /\ keys[i].expires}

\* deactivate_action of the view.
DeactivateKey(o) ==
    /\ Writing(o, "deactivate")
    /\ UpdateRow(operator[o].id, {FALSE}, SameExpiry(operator[o].id))
    /\ RowWritten(o, TRUE)
    /\ UNCHANGED issued

\* activate_action of the view.
ActivateKey(o) ==
    /\ Writing(o, "activate")
    /\ UpdateRow(operator[o].id, {TRUE}, SameExpiry(operator[o].id))
    /\ RowWritten(o, TRUE)
    /\ UNCHANGED issued

\* rotate_api_key of the service.
RotateKey(o, h) ==
    /\ Writing(o, "rotate")
    /\ NewSecret(h)
    /\ RotateRow(operator[o].id, h)
    /\ RowWritten(o, keys[operator[o].id] # NoValue)

\* rotate_action of the view.
ViewRotateKey(o, h) ==
    /\ Writing(o, "rotate_action")
    /\ NewSecret(h)
    /\ RotateRow(operator[o].id, h)
    /\ RowWritten(o, TRUE)

\* delete_api_key of the service.
DeleteKey(o) ==
    /\ Writing(o, "delete")
    /\ DeleteRow(operator[o].id)
    /\ RowWritten(o, keys[operator[o].id] # NoValue)
    /\ UNCHANGED issued

\* delete_api_keys of the DAO, for the view: hashes, then DELETE RETURNING.
DeleteKeys(o) ==
    /\ Writing(o, "delete_keys")
    /\ DeleteRow(operator[o].id)
    /\ RowWritten(o, keys[operator[o].id] # NoValue)
    /\ UNCHANGED issued

\* Mutant: the hash the row has by now is evicted.
EvictCurrent(o) ==
    /\ operator[o].at = "evict"
    /\ Invalidate({HashById(operator[o].id)})
    /\ FinishOperator(o)
    /\ UNCHANGED <<keys, issued, due, recent, client, missed>>

\* _evict_cache, or the view's own DELETE, of the hash read at the start.
Evict(o) ==
    /\ operator[o].at = "evict"
    /\ Invalidate({operator[o].existing})
    /\ FinishOperator(o)
    /\ UNCHANGED <<keys, issued, due, recent, client, missed>>

\* The DELETE fails (suppressed by delete_api_keys, an error 500 elsewhere),
\* or the process dies before it.
EvictFails(o) ==
    /\ operator[o].at = "evict"
    /\ InvalidateFails({operator[o].existing})
    /\ missed' = missed \union {operator[o].existing}
    /\ FinishOperator(o)
    /\ UNCHANGED <<keys, issued, due, recent, client>>

-----------------------------------------------------------------------------
\* Mutant: the decorator is used with expire=None.
EntryNeverExpires(h) == FALSE /\ UNCHANGED <<keyVars, store>>

\* A cached row runs out after API_KEY_CACHE_TTL_SECONDS.
EntryExpires(h) ==
    /\ Expire(h)
    /\ UNCHANGED keyVars

ExpiryPasses ==
    /\ ~due
    /\ due' = TRUE
    /\ UNCHANGED <<keys, issued, recent, client, operator, missed, store>>

OperatorStep(o) ==
    \/ UpdateKey(o) \/ EditKey(o) \/ DeactivateKey(o) \/ ActivateKey(o)
    \/ \E h \in Hashes : RotateKey(o, h) \/ ViewRotateKey(o, h)
    \/ DeleteKey(o) \/ DeleteKeys(o) \/ Evict(o) \/ EvictFails(o)

KeysNext ==
    \/ \E i \in KeyIds, h \in Hashes, active, expires \in BOOLEAN :
          CreateKey(i, h, expires) \/ ViewCreateKey(i, h, active, expires)
    \/ \E i \in KeyIds : ThrottleExpires(i)
    \/ \E c \in Clients : \/ \E h \in issued : LookUp(c, h)
                          \/ FetchRow(c) \/ SaveRow(c)
                          \/ Refuse(c) \/ Accept(c) \/ ThrottleFails(c)
    \/ \E o \in Operators :
          \/ \E i \in KeyIds : \/ \E op \in Services : GetKey(o, op, i)
                               \/ \E op \in Views : ViewGetKey(o, op, i)
          \/ OperatorStep(o)
    \/ \E h \in Hashes : EntryExpires(h)
    \/ ExpiryPasses

\* Redis lets a key with an expiry run out: the only fairness assumed.
KeysFairness == \A h \in Hashes : WF_<<keyVars, store>>(EntryExpires(h))

-----------------------------------------------------------------------------
(***************************************************************************)
(* Properties.                                                             *)
(***************************************************************************)
Stale(h) == store[h] \notin {NoValue, RowByHash(h)}

\* A verification that hits the cache sees the row as it is, deleted,
\* rotated and deactivated keys included, unless a change is on its way to
\* _evict_cache with that hash, or nothing will evict it any more: a client
\* saved what it had read before the change, the change was of a row whose
\* hash another request had rotated since it was read, or the DELETE failed.
CachedKeysFresh ==
    \A h \in Hashes :
        Stale(h) => \/ h \in missed
                    \/ \E o \in Operators : operator[o].at = "evict" /\ operator[o].existing = h

\* When changes stop, a revoked key is out for good, whatever evictions were
\* missed: API_KEY_CACHE_TTL_SECONDS bounds what they cost.
StaleKeysRunOut == <>[](\A h \in Hashes : ~Stale(h))

=============================================================================
