-------------------------- MODULE CachedDataProofs --------------------------
(***************************************************************************)
(* Proofs about CachedData: API keys, roles and settings over one Redis    *)
(* store, for any sets of rows, requests and values, in any interleaving,  *)
(* and with or without failing Redis commands and cut-off requests.        *)
(***************************************************************************)
EXTENDS CachedData, RolesProofs

-----------------------------------------------------------------------------
(***************************************************************************)
(* API keys.                                                               *)
(***************************************************************************)
\* A client's request.
ClientStates == [at : {"new", "fetch", "save", "check", "accepted", "refused"},
                 hash : Hashes \union {NoValue},
                 row : KeyRows \union {NoValue}]

\* Every variable of ApiKeys has its type, every field included.
KeysShape ==
    /\ keys \in [KeyIds -> KeyRows \union {NoValue}]
    /\ issued \subseteq Hashes /\ missed \subseteq Hashes
    /\ due \in BOOLEAN /\ recent \subseteq KeyIds
    /\ client \in [Clients -> ClientStates]
    /\ operator \in [Operators -> [at : {"new", "write", "evict", "done"},
                                   op : Services \union Views \union {NoValue},
                                   id : KeyIds \union {NoValue},
                                   existing : Hashes \union {NoValue}]]
    /\ \A h \in Hashes : store[h] \in KeyRows \union {NoValue}

\* A request that reads, writes or evicts knows what.
RequestInv ==
    /\ \A c \in Clients : client[c].at \in {"fetch", "save"} => client[c].hash \in issued
    /\ \A o \in Operators : operator[o].at = "write" => operator[o].id \in KeyIds
    /\ \A o \in Operators : operator[o].at = "evict" => operator[o].existing \in Hashes

\* Rows and entries are under hashes that generate_api_key has returned, so
\* that a new secret has neither.
SecretsInv ==
    /\ \A i \in KeyIds : keys[i] # NoValue => keys[i].hash \in issued
    /\ \A h \in Hashes : store[h] # NoValue => h \in issued

KeysInv == KeysShape /\ RequestInv /\ SecretsInv /\ CachedKeysFresh

\* What the changing requests of the service and of the view do to the table:
\* one row changes, under its hash or under a new one.
WriteStep(o) ==
    LET i == operator[o].id IN
    /\ operator[o].at = "write"
    /\ keys' \in [KeyIds -> KeyRows \union {NoValue}]
    /\ \A j \in KeyIds \ {i} : keys'[j] = keys[j]
    /\ keys[i] = NoValue => keys'[i] = NoValue
    /\ keys'[i] # NoValue => keys'[i].hash \in {keys[i].hash} \union (issued' \ issued)
    /\ issued \subseteq issued' /\ issued' \subseteq Hashes
    /\ \E evicts \in BOOLEAN : (keys[i] # NoValue => evicts) /\ RowWritten(o, evicts)

\* What the entry of a hash should hold is a row or nothing.
LEMMA RowTyped ==
    ASSUME KeysShape, NEW h
    PROVE  RowByHash(h) \in KeyRows \union {NoValue}
<1> DEFINE found == {i \in KeyIds : keys[i] # NoValue /\ keys[i].hash = h}
<1>1. CASE found = {}
  BY <1>1 DEF RowByHash
<1>2. CASE found # {}
  <2>1. (CHOOSE i \in found : TRUE) \in KeyIds
    BY <1>2
  <2>2. QED
    BY <1>2, <2>1 DEF RowByHash, KeysShape
<1>3. QED
  BY <1>1, <1>2

\* A change of a row under other hashes leaves the row of h alone.
LEMMA RowKept ==
    ASSUME NEW i \in KeyIds, NEW h,
           \A j \in KeyIds \ {i} : keys'[j] = keys[j],
           keys[i] # NoValue => keys[i].hash # h,
           keys'[i] # NoValue => keys'[i].hash # h
    PROVE  RowByHash(h)' = RowByHash(h)
<1> DEFINE found == {j \in KeyIds : keys[j] # NoValue /\ keys[j].hash = h}
           found2 == {j \in KeyIds : keys'[j] # NoValue /\ keys'[j].hash = h}
<1>1. ASSUME NEW j \in KeyIds
      PROVE  /\ j \in found <=> j \in found2
             /\ j \in found => keys'[j] = keys[j]
  <2>1. CASE j = i
    BY <2>1
  <2>2. CASE j # i
    BY <2>2
  <2>3. QED
    BY <2>1, <2>2
<1>2. found = found2
  BY <1>1
<1>3. CASE found = {}
  BY <1>2, <1>3 DEF RowByHash
<1>4. CASE found # {}
  <2> DEFINE c == CHOOSE j \in found : TRUE
  <2>1. c \in found
    BY <1>4
  <2>2. keys'[c] = keys[c]
    BY <1>1, <2>1
  <2>3. RowByHash(h) = keys[c]
    BY <1>4 DEF RowByHash
  <2>4. RowByHash(h)' = keys'[CHOOSE j \in found2 : TRUE]
    BY <1>2, <1>4 DEF RowByHash
  <2>5. QED
    BY <1>2, <2>2, <2>3, <2>4
<1>5. QED
  BY <1>3, <1>4

\* Updates keep the id and the hash of a row.
LEMMA Updated ==
    ASSUME KeysShape, NEW i \in KeyIds, NEW A \in SUBSET BOOLEAN, NEW E \in SUBSET BOOLEAN,
           UpdateRow(i, A, E)
    PROVE  /\ keys' \in [KeyIds -> KeyRows \union {NoValue}]
           /\ \A j \in KeyIds \ {i} : keys'[j] = keys[j]
           /\ keys[i] = NoValue => keys'[i] = NoValue
           /\ keys'[i] # NoValue => keys'[i].hash = keys[i].hash
<1>1. CASE keys[i] = NoValue
  BY <1>1 DEF UpdateRow, KeysShape
<1>2. CASE keys[i] # NoValue
  <2>1. PICK active \in A, expires \in E :
            keys' = [keys EXCEPT ![i].active = active, ![i].expires = expires]
    BY <1>2 DEF UpdateRow
  <2>2. keys[i] \in KeyRows
    BY <1>2 DEF KeysShape
  <2>3. /\ DOMAIN keys' = KeyIds /\ keys' = [j \in KeyIds |-> keys'[j]]
        /\ \A j \in KeyIds \ {i} : keys'[j] = keys[j]
        /\ keys'[i] = [[keys[i] EXCEPT !.active = active] EXCEPT !.expires = expires]
    BY <2>1 DEF KeysShape
  <2>4. keys'[i] \in KeyRows /\ keys'[i].hash = keys[i].hash
    BY <2>2, <2>3 DEF KeyRows
  <2>5. keys' \in [KeyIds -> KeyRows \union {NoValue}]
    <3>1. ASSUME NEW j \in KeyIds
          PROVE  keys'[j] \in KeyRows \union {NoValue}
      BY <2>3, <2>4 DEF KeysShape
    <3>2. QED
      BY <2>3, <3>1
  <2>6. QED
    BY <1>2, <2>3, <2>4, <2>5
<1>3. QED
  BY <1>1, <1>2

\* Every change of the service and of the view is such a step.
LEMMA Writes ==
    ASSUME KeysShape, RequestInv, NEW o \in Operators,
           \/ UpdateKey(o) \/ EditKey(o) \/ DeactivateKey(o) \/ ActivateKey(o)
           \/ \E h \in Hashes : RotateKey(o, h) \/ ViewRotateKey(o, h)
           \/ DeleteKey(o) \/ DeleteKeys(o)
    PROVE  WriteStep(o)
<1>1. ASSUME UpdateKey(o)
      PROVE  WriteStep(o)
  <2>1. operator[o].at = "write" /\ operator[o].id \in KeyIds
    BY <1>1 DEF UpdateKey, Writing, RequestInv
  <2>2. UpdateRow(operator[o].id, BOOLEAN, BOOLEAN)
    BY <1>1 DEF UpdateKey
  <2>3. /\ issued' = issued
        /\ RowWritten(o, keys[operator[o].id] # NoValue)
    BY <1>1 DEF UpdateKey
  <2>4. SameExpiry(operator[o].id) \in SUBSET BOOLEAN
    BY DEF SameExpiry
  <2>5. QED
    BY <2>1, <2>2, <2>3, <2>4, Updated DEF WriteStep, KeysShape
<1>2. ASSUME EditKey(o)
      PROVE  WriteStep(o)
  <2>1. operator[o].at = "write" /\ operator[o].id \in KeyIds
    BY <1>2 DEF EditKey, Writing, RequestInv
  <2>2. UpdateRow(operator[o].id, BOOLEAN, BOOLEAN)
    BY <1>2 DEF EditKey
  <2>3. /\ issued' = issued
        /\ RowWritten(o, TRUE)
    BY <1>2 DEF EditKey
  <2>4. SameExpiry(operator[o].id) \in SUBSET BOOLEAN
    BY DEF SameExpiry
  <2>5. QED
    BY <2>1, <2>2, <2>3, <2>4, Updated DEF WriteStep, KeysShape
<1>3. ASSUME DeactivateKey(o)
      PROVE  WriteStep(o)
  <2>1. operator[o].at = "write" /\ operator[o].id \in KeyIds
    BY <1>3 DEF DeactivateKey, Writing, RequestInv
  <2>2. UpdateRow(operator[o].id, {FALSE}, SameExpiry(operator[o].id))
    BY <1>3 DEF DeactivateKey
  <2>3. /\ issued' = issued
        /\ RowWritten(o, TRUE)
    BY <1>3 DEF DeactivateKey
  <2>4. SameExpiry(operator[o].id) \in SUBSET BOOLEAN
    BY DEF SameExpiry
  <2>5. QED
    BY <2>1, <2>2, <2>3, <2>4, Updated DEF WriteStep, KeysShape
<1>4. ASSUME ActivateKey(o)
      PROVE  WriteStep(o)
  <2>1. operator[o].at = "write" /\ operator[o].id \in KeyIds
    BY <1>4 DEF ActivateKey, Writing, RequestInv
  <2>2. UpdateRow(operator[o].id, {TRUE}, SameExpiry(operator[o].id))
    BY <1>4 DEF ActivateKey
  <2>3. /\ issued' = issued
        /\ RowWritten(o, TRUE)
    BY <1>4 DEF ActivateKey
  <2>4. SameExpiry(operator[o].id) \in SUBSET BOOLEAN
    BY DEF SameExpiry
  <2>5. QED
    BY <2>1, <2>2, <2>3, <2>4, Updated DEF WriteStep, KeysShape
<1>5. ASSUME NEW h \in Hashes, RotateKey(o, h)
      PROVE  WriteStep(o)
  <2>1. operator[o].at = "write" /\ operator[o].id \in KeyIds
    BY <1>5 DEF RotateKey, Writing, RequestInv
  <2>2. /\ h \notin issued /\ issued' = issued \union {h}
        /\ keys' = IF keys[operator[o].id] = NoValue THEN keys
                   ELSE [keys EXCEPT ![operator[o].id].hash = h]
        /\ RowWritten(o, keys[operator[o].id] # NoValue)
    BY <1>5 DEF RotateKey, NewSecret, RotateRow
  <2>3. CASE keys[operator[o].id] = NoValue
    BY <2>1, <2>2, <2>3 DEF WriteStep, KeysShape
  <2>4. CASE keys[operator[o].id] # NoValue
    <3>1. keys[operator[o].id] \in KeyRows
      BY <2>1, <2>4 DEF KeysShape
    <3>2. /\ [keys[operator[o].id] EXCEPT !.hash = h] \in KeyRows
          /\ [keys[operator[o].id] EXCEPT !.hash = h].hash = h
      BY <3>1 DEF KeyRows
    <3>3. /\ keys' \in [KeyIds -> KeyRows \union {NoValue}]
          /\ \A j \in KeyIds \ {operator[o].id} : keys'[j] = keys[j]
          /\ keys'[operator[o].id].hash = h
      BY <2>1, <2>2, <2>4, <3>2 DEF KeysShape
    <3>4. keys'[operator[o].id].hash \in {keys[operator[o].id].hash} \union (issued' \ issued)
      BY <2>2, <3>3
    <3>5. \E evicts \in BOOLEAN : (keys[operator[o].id] # NoValue => evicts) /\ RowWritten(o, evicts)
      BY <2>2, <2>4
    <3>6. issued \subseteq issued' /\ issued' \subseteq Hashes
      BY <2>2 DEF KeysShape
    <3>7. QED
      BY <2>1, <2>4, <3>3, <3>4, <3>5, <3>6 DEF WriteStep
  <2>5. QED
    BY <2>3, <2>4
<1>6. ASSUME NEW h \in Hashes, ViewRotateKey(o, h)
      PROVE  WriteStep(o)
  <2>1. operator[o].at = "write" /\ operator[o].id \in KeyIds
    BY <1>6 DEF ViewRotateKey, Writing, RequestInv
  <2>2. /\ h \notin issued /\ issued' = issued \union {h}
        /\ keys' = IF keys[operator[o].id] = NoValue THEN keys
                   ELSE [keys EXCEPT ![operator[o].id].hash = h]
        /\ RowWritten(o, TRUE)
    BY <1>6 DEF ViewRotateKey, NewSecret, RotateRow
  <2>3. CASE keys[operator[o].id] = NoValue
    BY <2>1, <2>2, <2>3 DEF WriteStep, KeysShape
  <2>4. CASE keys[operator[o].id] # NoValue
    <3>1. keys[operator[o].id] \in KeyRows
      BY <2>1, <2>4 DEF KeysShape
    <3>2. /\ [keys[operator[o].id] EXCEPT !.hash = h] \in KeyRows
          /\ [keys[operator[o].id] EXCEPT !.hash = h].hash = h
      BY <3>1 DEF KeyRows
    <3>3. /\ keys' \in [KeyIds -> KeyRows \union {NoValue}]
          /\ \A j \in KeyIds \ {operator[o].id} : keys'[j] = keys[j]
          /\ keys'[operator[o].id].hash = h
      BY <2>1, <2>2, <2>4, <3>2 DEF KeysShape
    <3>4. keys'[operator[o].id].hash \in {keys[operator[o].id].hash} \union (issued' \ issued)
      BY <2>2, <3>3
    <3>5. \E evicts \in BOOLEAN : (keys[operator[o].id] # NoValue => evicts) /\ RowWritten(o, evicts)
      BY <2>2, <2>4
    <3>6. issued \subseteq issued' /\ issued' \subseteq Hashes
      BY <2>2 DEF KeysShape
    <3>7. QED
      BY <2>1, <2>4, <3>3, <3>4, <3>5, <3>6 DEF WriteStep
  <2>5. QED
    BY <2>3, <2>4
<1>7. ASSUME DeleteKey(o)
      PROVE  WriteStep(o)
  <2>1. operator[o].at = "write" /\ operator[o].id \in KeyIds
    BY <1>7 DEF DeleteKey, Writing, RequestInv
  <2>2. /\ issued' = issued /\ keys' = [keys EXCEPT ![operator[o].id] = NoValue]
        /\ RowWritten(o, keys[operator[o].id] # NoValue)
    BY <1>7 DEF DeleteKey, DeleteRow
  <2>3. QED
    BY <2>1, <2>2 DEF WriteStep, KeysShape
<1>8. ASSUME DeleteKeys(o)
      PROVE  WriteStep(o)
  <2>1. operator[o].at = "write" /\ operator[o].id \in KeyIds
    BY <1>8 DEF DeleteKeys, Writing, RequestInv
  <2>2. /\ issued' = issued /\ keys' = [keys EXCEPT ![operator[o].id] = NoValue]
        /\ RowWritten(o, keys[operator[o].id] # NoValue)
    BY <1>8 DEF DeleteKeys, DeleteRow
  <2>3. QED
    BY <2>1, <2>2 DEF WriteStep, KeysShape
<1>9. QED
  BY <1>1, <1>2, <1>3, <1>4, <1>5, <1>6, <1>7, <1>8

\* A client's request moves on.
LEMMA Moved ==
    ASSUME KeysShape, NEW c \in Clients, NEW row \in KeyRows \union {NoValue},
           NEW stage \in {"save", "check", "accepted", "refused"}, Move(c, stage, row)
    PROVE  client' \in [Clients -> ClientStates]
<1>1. /\ client'[c] = [[client[c] EXCEPT !.at = stage] EXCEPT !.row = row]
      /\ \A d \in Clients \ {c} : client'[d] = client[d]
      /\ client' = [d \in Clients |-> client'[d]]
  BY DEF Move, KeysShape
<1>2. client'[c] \in ClientStates
  BY <1>1 DEF KeysShape, ClientStates
<1>3. QED
  BY <1>1, <1>2 DEF KeysShape

\* Verifications and changes of API keys touch no entry but those of hashes.
LEMMA KeysStoreStep ==
    ASSUME StoreInv, KeysShape, RequestInv, KeysNext
    PROVE  StoreInv' /\ \A k \in CacheKeys \ Hashes : store'[k] = store[k]
<1> USE ApiKeysConstants, CachedDataConstants
<1>1. ASSUME NEW i \in KeyIds, NEW h \in Hashes, NEW expires \in BOOLEAN, CreateKey(i, h, expires)
      PROVE  StoreInv' /\ \A k \in CacheKeys \ Hashes : store'[k] = store[k]
  BY <1>1 DEF CreateKey, StoreInv
<1>2. ASSUME NEW i \in KeyIds, NEW h \in Hashes, NEW active \in BOOLEAN,
       NEW expires \in BOOLEAN, ViewCreateKey(i, h, active, expires)
      PROVE  StoreInv' /\ \A k \in CacheKeys \ Hashes : store'[k] = store[k]
  BY <1>2 DEF ViewCreateKey, StoreInv
<1>3. ASSUME NEW i \in KeyIds, ThrottleExpires(i)
      PROVE  StoreInv' /\ \A k \in CacheKeys \ Hashes : store'[k] = store[k]
  BY <1>3 DEF ThrottleExpires, StoreInv
<1>4. ASSUME NEW c \in Clients, NEW h \in issued, LookUp(c, h)
      PROVE  StoreInv' /\ \A k \in CacheKeys \ Hashes : store'[k] = store[k]
  BY <1>4 DEF LookUp, StoreInv
<1>5. ASSUME NEW c \in Clients, FetchRow(c)
      PROVE  StoreInv' /\ \A k \in CacheKeys \ Hashes : store'[k] = store[k]
  BY <1>5 DEF FetchRow, StoreInv
<1>6. ASSUME NEW c \in Clients, SaveRow(c)
      PROVE  StoreInv' /\ \A k \in CacheKeys \ Hashes : store'[k] = store[k]
  <2>1. client[c].hash \in Hashes /\ client[c].hash \in CacheKeys
    BY <1>6 DEF SaveRow, RequestInv, KeysShape
  <2>2. /\ StoreInv'
        /\ \A j \in CacheKeys : \/ store'[j] = store[j]
                                \/ /\ j = client[c].hash /\ client[c].row # NoValue
                                   /\ store'[j] = client[c].row
    BY <1>6, <2>1, Saved DEF SaveRow
  <2>3. QED
    BY <2>1, <2>2
<1>7. ASSUME NEW c \in Clients, Refuse(c)
      PROVE  StoreInv' /\ \A k \in CacheKeys \ Hashes : store'[k] = store[k]
  BY <1>7 DEF Refuse, StoreInv
<1>8. ASSUME NEW c \in Clients, Accept(c)
      PROVE  StoreInv' /\ \A k \in CacheKeys \ Hashes : store'[k] = store[k]
  BY <1>8 DEF Accept, StoreInv
<1>9. ASSUME NEW c \in Clients, ThrottleFails(c)
      PROVE  StoreInv' /\ \A k \in CacheKeys \ Hashes : store'[k] = store[k]
  BY <1>9 DEF ThrottleFails, StoreInv
<1>10. ASSUME NEW o \in Operators, NEW op \in Services, NEW i \in KeyIds, GetKey(o, op, i)
      PROVE  StoreInv' /\ \A k \in CacheKeys \ Hashes : store'[k] = store[k]
  BY <1>10 DEF GetKey, ReadExisting, StoreInv
<1>11. ASSUME NEW o \in Operators, NEW op \in Views, NEW i \in KeyIds, ViewGetKey(o, op, i)
      PROVE  StoreInv' /\ \A k \in CacheKeys \ Hashes : store'[k] = store[k]
  BY <1>11 DEF ViewGetKey, ReadExisting, StoreInv
<1>12. ASSUME NEW o \in Operators, WriteStep(o)
      PROVE  StoreInv' /\ \A k \in CacheKeys \ Hashes : store'[k] = store[k]
  BY <1>12 DEF WriteStep, RowWritten, StoreInv
<1>13. ASSUME NEW o \in Operators, Evict(o)
      PROVE  StoreInv' /\ \A k \in CacheKeys \ Hashes : store'[k] = store[k]
  <2>1. operator[o].existing \in Hashes /\ operator[o].existing \in CacheKeys
    BY <1>13 DEF Evict, RequestInv
  <2>2. /\ StoreInv'
        /\ \A j \in CacheKeys : store'[j] = IF j = operator[o].existing THEN NoValue ELSE store[j]
    <3>1. Invalidate({operator[o].existing})
      BY <1>13 DEF Evict
    <3>2. QED
      BY <3>1, Removed
  <2>3. QED
    BY <2>1, <2>2
<1>14. ASSUME NEW o \in Operators, EvictFails(o)
      PROVE  StoreInv' /\ \A k \in CacheKeys \ Hashes : store'[k] = store[k]
  <2>1. operator[o].existing \in Hashes /\ operator[o].existing \in CacheKeys
    BY <1>14 DEF EvictFails, RequestInv
  <2>2. /\ StoreInv'
        /\ \A j \in CacheKeys : \/ store'[j] = store[j]
                                \/ j = operator[o].existing /\ store'[j] = NoValue
    <3>1. InvalidateFails({operator[o].existing})
      BY <1>14 DEF EvictFails
    <3>2. /\ StoreInv'
          /\ \A j \in CacheKeys :
                 store'[j] = store[j] \/ (j \in {operator[o].existing} /\ store'[j] = NoValue)
      BY <3>1, RemovalFailed
    <3>3. QED
      BY <3>2
  <2>3. QED
    BY <2>1, <2>2
<1>15. ASSUME NEW h \in Hashes, EntryExpires(h)
      PROVE  StoreInv' /\ \A k \in CacheKeys \ Hashes : store'[k] = store[k]
  <2>1. h \in CacheKeys
    OBVIOUS
  <2>2. /\ StoreInv'
        /\ \A j \in CacheKeys : store'[j] = IF j = h THEN NoValue ELSE store[j]
    BY <1>15, <2>1, RanOut DEF EntryExpires
  <2>3. QED
    BY <2>1, <2>2
<1>16. ASSUME ExpiryPasses
      PROVE  StoreInv' /\ \A k \in CacheKeys \ Hashes : store'[k] = store[k]
  BY <1>16 DEF ExpiryPasses, StoreInv
<1>17. QED
  BY Writes, <1>1, <1>2, <1>3, <1>4, <1>5, <1>6, <1>7, <1>8, <1>9, <1>10, <1>11,
     <1>12, <1>13, <1>14, <1>15, <1>16 DEF KeysNext, OperatorStep

\* Every variable of ApiKeys keeps its type.
LEMMA KeysShapeStep ==
    ASSUME StoreInv, KeysShape, RequestInv, KeysNext
    PROVE  KeysShape'
<1> USE ApiKeysConstants, CachedDataConstants
<1>1. ASSUME NEW i \in KeyIds, NEW h \in Hashes, NEW expires \in BOOLEAN, CreateKey(i, h, expires)
      PROVE  KeysShape'
  BY <1>1 DEF CreateKey, NewSecret, InsertKey, KeysShape, KeyRows
<1>2. ASSUME NEW i \in KeyIds, NEW h \in Hashes, NEW active \in BOOLEAN,
       NEW expires \in BOOLEAN, ViewCreateKey(i, h, active, expires)
      PROVE  KeysShape'
  BY <1>2 DEF ViewCreateKey, NewSecret, InsertKey, KeysShape, KeyRows
<1>3. ASSUME NEW i \in KeyIds, ThrottleExpires(i)
      PROVE  KeysShape'
  BY <1>3 DEF ThrottleExpires, KeysShape
<1>4. ASSUME NEW c \in Clients, NEW h \in issued, LookUp(c, h)
      PROVE  KeysShape'
  <2>1. PICK v \in GetFromCache(h) :
            client' = [client EXCEPT ![c] = [at |-> IF v = NoValue THEN "fetch" ELSE "check",
                                             hash |-> h, row |-> v]]
    BY <1>4 DEF LookUp
  <2>2. h \in Hashes /\ v \in KeyRows \union {NoValue}
    BY DEF GetFromCache, KeysShape
  <2>3. QED
    BY <1>4, <2>1, <2>2 DEF LookUp, KeysShape, ClientStates
<1>5. ASSUME NEW c \in Clients, FetchRow(c)
      PROVE  KeysShape'
  <2>1. RowByHash(client[c].hash) \in KeyRows \union {NoValue}
    BY RowTyped
  <2>2. client' \in [Clients -> ClientStates]
    BY <1>5, <2>1, Moved DEF FetchRow
  <2>3. QED
    BY <1>5, <2>2 DEF FetchRow, KeysShape
<1>6. ASSUME NEW c \in Clients, SaveRow(c)
      PROVE  KeysShape'
  <2>1. client[c].hash \in Hashes /\ client[c].hash \in CacheKeys
    BY <1>6 DEF SaveRow, RequestInv, KeysShape
  <2>2. /\ StoreInv'
        /\ \A j \in CacheKeys : \/ store'[j] = store[j]
                                \/ /\ j = client[c].hash /\ client[c].row # NoValue
                                   /\ store'[j] = client[c].row
    BY <1>6, <2>1, Saved DEF SaveRow
  <2>3. client[c].row \in KeyRows \union {NoValue}
    BY DEF KeysShape, ClientStates
  <2>4. client' \in [Clients -> ClientStates]
    BY <1>6, <2>3, Moved DEF SaveRow
  <2>5. \A h \in Hashes : store'[h] \in KeyRows \union {NoValue}
    BY <2>2, <2>3 DEF KeysShape
  <2>6. QED
    BY <1>6, <2>1, <2>4, <2>5 DEF SaveRow, KeysShape
<1>7. ASSUME NEW c \in Clients, Refuse(c)
      PROVE  KeysShape'
  <2>1. client' \in [Clients -> ClientStates]
    BY <1>7, Moved DEF Refuse
  <2>2. QED
    BY <1>7, <2>1 DEF Refuse, KeysShape
<1>8. ASSUME NEW c \in Clients, Accept(c)
      PROVE  KeysShape'
  <2>1. client[c].row \in KeyRows
    BY <1>8 DEF Accept, Usable, KeysShape, ClientStates
  <2>2. client[c].row.id \in KeyIds
    BY <2>1 DEF KeyRows
  <2>3. client' \in [Clients -> ClientStates]
    BY <1>8, Moved DEF Accept
  <2>4. QED
    BY <1>8, <2>2, <2>3 DEF Accept, UpdateLastUsed, KeysShape
<1>9. ASSUME NEW c \in Clients, ThrottleFails(c)
      PROVE  KeysShape'
  <2>1. client' \in [Clients -> ClientStates]
    BY <1>9, Moved DEF ThrottleFails
  <2>2. QED
    BY <1>9, <2>1 DEF ThrottleFails, KeysShape
<1>10. ASSUME NEW o \in Operators, NEW op \in Services, NEW i \in KeyIds, GetKey(o, op, i)
      PROVE  KeysShape'
  <2>1. HashById(i) \in Hashes \union {NoValue}
    BY DEF HashById, KeysShape, KeyRows
  <2>2. QED
    BY <1>10, <2>1 DEF GetKey, ReadExisting, IdleOperator, KeysShape
<1>11. ASSUME NEW o \in Operators, NEW op \in Views, NEW i \in KeyIds, ViewGetKey(o, op, i)
      PROVE  KeysShape'
  <2>1. HashById(i) \in Hashes \union {NoValue}
    BY DEF HashById, KeysShape, KeyRows
  <2>2. QED
    BY <1>11, <2>1 DEF ViewGetKey, ReadExisting, IdleOperator, KeysShape
<1>12. ASSUME NEW o \in Operators, WriteStep(o)
      PROVE  KeysShape'
  <2>1. operator[o].id \in KeyIds
    BY <1>12 DEF WriteStep, RequestInv
  <2>2. keys[operator[o].id] # NoValue => keys[operator[o].id].hash \in Hashes
    BY <2>1 DEF KeysShape, KeyRows
  <2>3. operator' \in [Operators -> [at : {"new", "write", "evict", "done"},
                                    op : Services \union Views \union {NoValue},
                                    id : KeyIds \union {NoValue},
                                    existing : Hashes \union {NoValue}]]
    BY <1>12 DEF WriteStep, RowWritten, FinishOperator, IdleOperator, KeysShape
  <2>4. QED
    BY <1>12, <2>2, <2>3 DEF WriteStep, RowWritten, KeysShape
<1>13. ASSUME NEW o \in Operators, Evict(o)
      PROVE  KeysShape'
  <2>1. operator[o].existing \in Hashes /\ operator[o].existing \in CacheKeys
    BY <1>13 DEF Evict, RequestInv
  <2>2. /\ StoreInv'
        /\ \A j \in CacheKeys : store'[j] = IF j = operator[o].existing THEN NoValue ELSE store[j]
    <3>1. Invalidate({operator[o].existing})
      BY <1>13 DEF Evict
    <3>2. QED
      BY <3>1, Removed
  <2>3. QED
    BY <1>13, <2>1, <2>2 DEF Evict, KeysShape, FinishOperator, IdleOperator
<1>14. ASSUME NEW o \in Operators, EvictFails(o)
      PROVE  KeysShape'
  <2>1. operator[o].existing \in Hashes /\ operator[o].existing \in CacheKeys
    BY <1>14 DEF EvictFails, RequestInv
  <2>2. /\ StoreInv'
        /\ \A j \in CacheKeys : \/ store'[j] = store[j]
                                \/ j = operator[o].existing /\ store'[j] = NoValue
    <3>1. InvalidateFails({operator[o].existing})
      BY <1>14 DEF EvictFails
    <3>2. /\ StoreInv'
          /\ \A j \in CacheKeys :
                 store'[j] = store[j] \/ (j \in {operator[o].existing} /\ store'[j] = NoValue)
      BY <3>1, RemovalFailed
    <3>3. QED
      BY <3>2
  <2>3. QED
    BY <1>14, <2>1, <2>2 DEF EvictFails, KeysShape, FinishOperator, IdleOperator
<1>15. ASSUME NEW h \in Hashes, EntryExpires(h)
      PROVE  KeysShape'
  <2>1. h \in CacheKeys
    OBVIOUS
  <2>2. /\ StoreInv'
        /\ \A j \in CacheKeys : store'[j] = IF j = h THEN NoValue ELSE store[j]
    BY <1>15, <2>1, RanOut DEF EntryExpires
  <2>3. QED
    BY <1>15, <2>1, <2>2 DEF EntryExpires, KeysShape, keyVars
<1>16. ASSUME ExpiryPasses
      PROVE  KeysShape'
  BY <1>16 DEF ExpiryPasses, KeysShape
<1>17. QED
  BY Writes, <1>1, <1>2, <1>3, <1>4, <1>5, <1>6, <1>7, <1>8, <1>9, <1>10, <1>11,
     <1>12, <1>13, <1>14, <1>15, <1>16 DEF KeysNext, OperatorStep

\* A request goes on with what it has read.
LEMMA KeysRequestStep ==
    ASSUME StoreInv, KeysShape, RequestInv, KeysNext
    PROVE  RequestInv'
<1> USE ApiKeysConstants, CachedDataConstants
<1>1. ASSUME NEW i \in KeyIds, NEW h \in Hashes, NEW expires \in BOOLEAN, CreateKey(i, h, expires)
      PROVE  RequestInv'
  BY <1>1 DEF CreateKey, KeysShape, ClientStates, RequestInv, NewSecret
<1>2. ASSUME NEW i \in KeyIds, NEW h \in Hashes, NEW active \in BOOLEAN,
       NEW expires \in BOOLEAN, ViewCreateKey(i, h, active, expires)
      PROVE  RequestInv'
  BY <1>2 DEF ViewCreateKey, KeysShape, ClientStates, RequestInv, NewSecret
<1>3. ASSUME NEW i \in KeyIds, ThrottleExpires(i)
      PROVE  RequestInv'
  BY <1>3 DEF ThrottleExpires, KeysShape, ClientStates, RequestInv
<1>4. ASSUME NEW c \in Clients, NEW h \in issued, LookUp(c, h)
      PROVE  RequestInv'
  BY <1>4 DEF LookUp, KeysShape, ClientStates, RequestInv
<1>5. ASSUME NEW c \in Clients, FetchRow(c)
      PROVE  RequestInv'
  BY <1>5 DEF FetchRow, KeysShape, ClientStates, RequestInv, Move
<1>6. ASSUME NEW c \in Clients, SaveRow(c)
      PROVE  RequestInv'
  BY <1>6 DEF SaveRow, KeysShape, ClientStates, RequestInv, Move
<1>7. ASSUME NEW c \in Clients, Refuse(c)
      PROVE  RequestInv'
  BY <1>7 DEF Refuse, KeysShape, ClientStates, RequestInv, Move
<1>8. ASSUME NEW c \in Clients, Accept(c)
      PROVE  RequestInv'
  BY <1>8 DEF Accept, KeysShape, ClientStates, RequestInv, Move
<1>9. ASSUME NEW c \in Clients, ThrottleFails(c)
      PROVE  RequestInv'
  BY <1>9 DEF ThrottleFails, KeysShape, ClientStates, RequestInv, Move
<1>10. ASSUME NEW o \in Operators, NEW op \in Services, NEW i \in KeyIds, GetKey(o, op, i)
      PROVE  RequestInv'
  BY <1>10 DEF GetKey, KeysShape, ClientStates, RequestInv, ReadExisting, IdleOperator
<1>11. ASSUME NEW o \in Operators, NEW op \in Views, NEW i \in KeyIds, ViewGetKey(o, op, i)
      PROVE  RequestInv'
  BY <1>11 DEF ViewGetKey, KeysShape, ClientStates, RequestInv, ReadExisting, IdleOperator
<1>12. ASSUME NEW o \in Operators, WriteStep(o)
      PROVE  RequestInv'
  <2>1. /\ \A p \in Operators \ {o} : operator'[p] = operator[p]
        /\ operator'[o].at = "evict" => operator'[o].existing \in Hashes
        /\ operator'[o].at # "write"
    BY <1>12 DEF WriteStep, RowWritten, FinishOperator, IdleOperator, KeysShape
  <2>2. client' = client /\ issued \subseteq issued'
    BY <1>12 DEF WriteStep, RowWritten
  <2>3. QED
    BY <2>1, <2>2 DEF RequestInv
<1>13. ASSUME NEW o \in Operators, Evict(o)
      PROVE  RequestInv'
  BY <1>13 DEF Evict, KeysShape, ClientStates, RequestInv, FinishOperator, IdleOperator
<1>14. ASSUME NEW o \in Operators, EvictFails(o)
      PROVE  RequestInv'
  BY <1>14 DEF EvictFails, KeysShape, ClientStates, RequestInv, FinishOperator, IdleOperator
<1>15. ASSUME NEW h \in Hashes, EntryExpires(h)
      PROVE  RequestInv'
  BY <1>15 DEF EntryExpires, KeysShape, ClientStates, RequestInv, keyVars
<1>16. ASSUME ExpiryPasses
      PROVE  RequestInv'
  BY <1>16 DEF ExpiryPasses, KeysShape, ClientStates, RequestInv
<1>17. QED
  BY Writes, <1>1, <1>2, <1>3, <1>4, <1>5, <1>6, <1>7, <1>8, <1>9, <1>10, <1>11,
     <1>12, <1>13, <1>14, <1>15, <1>16 DEF KeysNext, OperatorStep

\* A hash is in the table or in the cache only after it was issued.
LEMMA KeysSecretsStep ==
    ASSUME StoreInv, KeysShape, RequestInv, SecretsInv, KeysNext
    PROVE  SecretsInv'
<1> USE ApiKeysConstants, CachedDataConstants
<1>1. ASSUME NEW i \in KeyIds, NEW h \in Hashes, NEW expires \in BOOLEAN, CreateKey(i, h, expires)
      PROVE  SecretsInv'
  BY <1>1 DEF CreateKey, KeysShape, SecretsInv, NewSecret, InsertKey
<1>2. ASSUME NEW i \in KeyIds, NEW h \in Hashes, NEW active \in BOOLEAN,
       NEW expires \in BOOLEAN, ViewCreateKey(i, h, active, expires)
      PROVE  SecretsInv'
  BY <1>2 DEF ViewCreateKey, KeysShape, SecretsInv, NewSecret, InsertKey
<1>3. ASSUME NEW i \in KeyIds, ThrottleExpires(i)
      PROVE  SecretsInv'
  BY <1>3 DEF ThrottleExpires, KeysShape, SecretsInv
<1>4. ASSUME NEW c \in Clients, NEW h \in issued, LookUp(c, h)
      PROVE  SecretsInv'
  BY <1>4 DEF LookUp, KeysShape, SecretsInv
<1>5. ASSUME NEW c \in Clients, FetchRow(c)
      PROVE  SecretsInv'
  BY <1>5 DEF FetchRow, KeysShape, SecretsInv
<1>6. ASSUME NEW c \in Clients, SaveRow(c)
      PROVE  SecretsInv'
  <2>1. client[c].hash \in Hashes /\ client[c].hash \in CacheKeys
    BY <1>6 DEF SaveRow, RequestInv, KeysShape
  <2>2. /\ StoreInv'
        /\ \A j \in CacheKeys : \/ store'[j] = store[j]
                                \/ /\ j = client[c].hash /\ client[c].row # NoValue
                                   /\ store'[j] = client[c].row
    BY <1>6, <2>1, Saved DEF SaveRow
  <2>3. QED
    BY <1>6, <2>1, <2>2 DEF SaveRow, RequestInv, KeysShape, SecretsInv
<1>7. ASSUME NEW c \in Clients, Refuse(c)
      PROVE  SecretsInv'
  BY <1>7 DEF Refuse, KeysShape, SecretsInv
<1>8. ASSUME NEW c \in Clients, Accept(c)
      PROVE  SecretsInv'
  BY <1>8 DEF Accept, KeysShape, SecretsInv
<1>9. ASSUME NEW c \in Clients, ThrottleFails(c)
      PROVE  SecretsInv'
  BY <1>9 DEF ThrottleFails, KeysShape, SecretsInv
<1>10. ASSUME NEW o \in Operators, NEW op \in Services, NEW i \in KeyIds, GetKey(o, op, i)
      PROVE  SecretsInv'
  BY <1>10 DEF GetKey, KeysShape, SecretsInv, ReadExisting
<1>11. ASSUME NEW o \in Operators, NEW op \in Views, NEW i \in KeyIds, ViewGetKey(o, op, i)
      PROVE  SecretsInv'
  BY <1>11 DEF ViewGetKey, KeysShape, SecretsInv, ReadExisting
<1>12. ASSUME NEW o \in Operators, WriteStep(o)
      PROVE  SecretsInv'
  <2>1. operator[o].id \in KeyIds /\ store' = store
    BY <1>12 DEF WriteStep, RequestInv, RowWritten
  <2>2. \A i \in KeyIds : keys'[i] # NoValue => keys'[i].hash \in issued'
    BY <1>12, <2>1 DEF WriteStep, SecretsInv
  <2>3. \A h \in Hashes : store'[h] # NoValue => h \in issued'
    BY <1>12, <2>1 DEF WriteStep, SecretsInv
  <2>4. QED
    BY <2>2, <2>3 DEF SecretsInv
<1>13. ASSUME NEW o \in Operators, Evict(o)
      PROVE  SecretsInv'
  <2>1. operator[o].existing \in Hashes /\ operator[o].existing \in CacheKeys
    BY <1>13 DEF Evict, RequestInv
  <2>2. /\ StoreInv'
        /\ \A j \in CacheKeys : store'[j] = IF j = operator[o].existing THEN NoValue ELSE store[j]
    <3>1. Invalidate({operator[o].existing})
      BY <1>13 DEF Evict
    <3>2. QED
      BY <3>1, Removed
  <2>3. QED
    BY <1>13, <2>1, <2>2 DEF Evict, KeysShape, SecretsInv
<1>14. ASSUME NEW o \in Operators, EvictFails(o)
      PROVE  SecretsInv'
  <2>1. operator[o].existing \in Hashes /\ operator[o].existing \in CacheKeys
    BY <1>14 DEF EvictFails, RequestInv
  <2>2. /\ StoreInv'
        /\ \A j \in CacheKeys : \/ store'[j] = store[j]
                                \/ j = operator[o].existing /\ store'[j] = NoValue
    <3>1. InvalidateFails({operator[o].existing})
      BY <1>14 DEF EvictFails
    <3>2. /\ StoreInv'
          /\ \A j \in CacheKeys :
                 store'[j] = store[j] \/ (j \in {operator[o].existing} /\ store'[j] = NoValue)
      BY <3>1, RemovalFailed
    <3>3. QED
      BY <3>2
  <2>3. QED
    BY <1>14, <2>1, <2>2 DEF EvictFails, KeysShape, SecretsInv
<1>15. ASSUME NEW h \in Hashes, EntryExpires(h)
      PROVE  SecretsInv'
  <2>1. h \in CacheKeys
    OBVIOUS
  <2>2. /\ StoreInv'
        /\ \A j \in CacheKeys : store'[j] = IF j = h THEN NoValue ELSE store[j]
    BY <1>15, <2>1, RanOut DEF EntryExpires
  <2>3. QED
    BY <1>15, <2>1, <2>2 DEF EntryExpires, keyVars, KeysShape, SecretsInv
<1>16. ASSUME ExpiryPasses
      PROVE  SecretsInv'
  BY <1>16 DEF ExpiryPasses, KeysShape, SecretsInv
<1>17. QED
  BY Writes, <1>1, <1>2, <1>3, <1>4, <1>5, <1>6, <1>7, <1>8, <1>9, <1>10, <1>11,
     <1>12, <1>13, <1>14, <1>15, <1>16 DEF KeysNext, OperatorStep

(* A change of a row is followed by the eviction of the hash that was read,
   or recorded as missed when the row had another hash by then. *)
LEMMA KeysFreshStep ==
    ASSUME StoreInv, KeysShape, RequestInv, SecretsInv, CachedKeysFresh, KeysNext
    PROVE  CachedKeysFresh'
<1> USE ApiKeysConstants, CachedDataConstants
<1>1. ASSUME NEW i \in KeyIds, NEW h \in Hashes, NEW expires \in BOOLEAN, CreateKey(i, h, expires)
      PROVE  CachedKeysFresh'
  <2>1. /\ h \notin issued /\ keys[i] = NoValue /\ UNCHANGED <<operator, missed, store>>
        /\ \A j \in KeyIds \ {i} : keys'[j] = keys[j]
        /\ keys'[i].hash = h
    BY <1>1 DEF CreateKey, NewSecret, InsertKey, KeysShape
  <2>2. ASSUME NEW g \in Hashes, Stale(g)'
        PROVE  Stale(g)
    <3>1. CASE g = h
      BY <2>1, <2>2, <3>1 DEF Stale, SecretsInv
    <3>2. CASE g # h
      <4>1. RowByHash(g)' = RowByHash(g)
        BY <2>1, <3>2, RowKept
      <4>2. QED
        BY <2>1, <2>2, <4>1 DEF Stale
    <3>3. QED
      BY <3>1, <3>2
  <2>3. QED
    BY <2>1, <2>2 DEF CachedKeysFresh
<1>2. ASSUME NEW i \in KeyIds, NEW h \in Hashes, NEW active \in BOOLEAN,
       NEW expires \in BOOLEAN, ViewCreateKey(i, h, active, expires)
      PROVE  CachedKeysFresh'
  <2>1. /\ h \notin issued /\ keys[i] = NoValue /\ UNCHANGED <<operator, missed, store>>
        /\ \A j \in KeyIds \ {i} : keys'[j] = keys[j]
        /\ keys'[i].hash = h
    BY <1>2 DEF ViewCreateKey, NewSecret, InsertKey, KeysShape
  <2>2. ASSUME NEW g \in Hashes, Stale(g)'
        PROVE  Stale(g)
    <3>1. CASE g = h
      BY <2>1, <2>2, <3>1 DEF Stale, SecretsInv
    <3>2. CASE g # h
      <4>1. RowByHash(g)' = RowByHash(g)
        BY <2>1, <3>2, RowKept
      <4>2. QED
        BY <2>1, <2>2, <4>1 DEF Stale
    <3>3. QED
      BY <3>1, <3>2
  <2>3. QED
    BY <2>1, <2>2 DEF CachedKeysFresh
<1>3. ASSUME NEW i \in KeyIds, ThrottleExpires(i)
      PROVE  CachedKeysFresh'
  BY <1>3 DEF ThrottleExpires, CachedKeysFresh, Stale, RowByHash
<1>4. ASSUME NEW c \in Clients, NEW h \in issued, LookUp(c, h)
      PROVE  CachedKeysFresh'
  BY <1>4 DEF LookUp, CachedKeysFresh, Stale, RowByHash
<1>5. ASSUME NEW c \in Clients, FetchRow(c)
      PROVE  CachedKeysFresh'
  BY <1>5 DEF FetchRow, CachedKeysFresh, Stale, RowByHash
<1>6. ASSUME NEW c \in Clients, SaveRow(c)
      PROVE  CachedKeysFresh'
  <2>1. client[c].hash \in Hashes /\ client[c].hash \in CacheKeys
    BY <1>6 DEF SaveRow, RequestInv, KeysShape
  <2>2. /\ StoreInv'
        /\ \A j \in CacheKeys : \/ store'[j] = store[j]
                                \/ /\ j = client[c].hash /\ client[c].row # NoValue
                                   /\ store'[j] = client[c].row
    BY <1>6, <2>1, Saved DEF SaveRow
  <2>3. /\ UNCHANGED <<keys, operator>> /\ missed \subseteq missed'
        /\ client[c].row \notin {NoValue, RowByHash(client[c].hash)} => client[c].hash \in missed'
    BY <1>6 DEF SaveRow
  <2>4. \A h \in Hashes : RowByHash(h)' = RowByHash(h) /\ h \in CacheKeys
    BY <2>3 DEF RowByHash
  <2>5. ASSUME NEW h \in Hashes, Stale(h)', h \notin missed'
        PROVE  Stale(h)
    BY <2>1, <2>2, <2>3, <2>4, <2>5 DEF Stale
  <2>6. QED
    BY <2>3, <2>5 DEF CachedKeysFresh
<1>7. ASSUME NEW c \in Clients, Refuse(c)
      PROVE  CachedKeysFresh'
  BY <1>7 DEF Refuse, CachedKeysFresh, Stale, RowByHash
<1>8. ASSUME NEW c \in Clients, Accept(c)
      PROVE  CachedKeysFresh'
  BY <1>8 DEF Accept, CachedKeysFresh, Stale, RowByHash
<1>9. ASSUME NEW c \in Clients, ThrottleFails(c)
      PROVE  CachedKeysFresh'
  BY <1>9 DEF ThrottleFails, CachedKeysFresh, Stale, RowByHash
<1>10. ASSUME NEW o \in Operators, NEW op \in Services, NEW i \in KeyIds, GetKey(o, op, i)
      PROVE  CachedKeysFresh'
  <2>1. /\ UNCHANGED <<keys, missed, store>> /\ operator[o].at = "new"
        /\ \A p \in Operators \ {o} : operator'[p] = operator[p]
    BY <1>10 DEF GetKey, ReadExisting, KeysShape
  <2>2. QED
    BY <2>1 DEF CachedKeysFresh, Stale, RowByHash
<1>11. ASSUME NEW o \in Operators, NEW op \in Views, NEW i \in KeyIds, ViewGetKey(o, op, i)
      PROVE  CachedKeysFresh'
  <2>1. /\ UNCHANGED <<keys, missed, store>> /\ operator[o].at = "new"
        /\ \A p \in Operators \ {o} : operator'[p] = operator[p]
    BY <1>11 DEF ViewGetKey, ReadExisting, KeysShape
  <2>2. QED
    BY <2>1 DEF CachedKeysFresh, Stale, RowByHash
<1>12. ASSUME NEW o \in Operators, WriteStep(o)
      PROVE  CachedKeysFresh'
  <2> DEFINE i == operator[o].id
             h == operator[o].existing
  <2>1. /\ i \in KeyIds /\ store' = store /\ operator[o].at = "write"
        /\ \A p \in Operators \ {o} : operator'[p] = operator[p]
        /\ missed' = IF keys[i] # NoValue /\ keys[i].hash # h
                     THEN missed \union {keys[i].hash} ELSE missed
    BY <1>12 DEF WriteStep, RequestInv, RowWritten, FinishOperator, KeysShape
  <2>2. keys[i] # NoValue => keys[i].hash \in Hashes
    BY <2>1 DEF KeysShape, KeyRows
  <2>3. keys[i] # NoValue /\ keys[i].hash = h => operator'[o].at = "evict" /\ operator'[o].existing = h
    BY <1>12, <2>2 DEF WriteStep, RowWritten, KeysShape
  <2>4. /\ \A j \in KeyIds \ {i} : keys'[j] = keys[j]
        /\ keys[i] = NoValue => keys'[i] = NoValue
        /\ keys'[i] # NoValue => keys'[i].hash \in {keys[i].hash} \union (issued' \ issued)
    BY <1>12 DEF WriteStep
  <2>5. ASSUME NEW g \in Hashes, Stale(g)', ~(keys[i] # NoValue /\ keys[i].hash = g)
        PROVE  Stale(g)
    <3>1. CASE g \in issued
      <4>1. RowByHash(g)' = RowByHash(g)
        <5>1. keys[i] # NoValue => keys[i].hash # g
          BY <2>5
        <5>2. keys'[i] # NoValue => keys'[i].hash # g
          BY <2>4, <3>1, <5>1
        <5>3. QED
          BY <2>1, <2>4, <5>1, <5>2, RowKept
      <4>2. QED
        BY <2>1, <2>5, <4>1 DEF Stale
    <3>2. CASE g \notin issued
      BY <2>1, <2>5, <3>2 DEF Stale, SecretsInv
    <3>3. QED
      BY <3>1, <3>2
  <2>6. ASSUME NEW g \in Hashes, Stale(g)'
        PROVE  \/ g \in missed'
               \/ \E p \in Operators : operator'[p].at = "evict" /\ operator'[p].existing = g
    <3>1. CASE keys[i] # NoValue /\ keys[i].hash = g
      BY <2>1, <2>3, <3>1
    <3>2. CASE ~(keys[i] # NoValue /\ keys[i].hash = g)
      <4>1. Stale(g)
        BY <2>5, <2>6, <3>2
      <4>2. \/ g \in missed
            \/ \E p \in Operators \ {o} : operator[p].at = "evict" /\ operator[p].existing = g
        BY <2>1, <4>1 DEF CachedKeysFresh
      <4>3. QED
        BY <2>1, <4>2
    <3>3. QED
      BY <3>1, <3>2
  <2>7. QED
    BY <2>6 DEF CachedKeysFresh
<1>13. ASSUME NEW o \in Operators, Evict(o)
      PROVE  CachedKeysFresh'
  <2>1. operator[o].existing \in Hashes /\ operator[o].existing \in CacheKeys
    BY <1>13 DEF Evict, RequestInv
  <2>2. /\ StoreInv'
        /\ \A j \in CacheKeys : store'[j] = IF j = operator[o].existing THEN NoValue ELSE store[j]
    <3>1. Invalidate({operator[o].existing})
      BY <1>13 DEF Evict
    <3>2. QED
      BY <3>1, Removed
  <2>3. /\ UNCHANGED <<keys, missed>>
        /\ \A p \in Operators \ {o} : operator'[p] = operator[p]
    BY <1>13 DEF Evict, FinishOperator, KeysShape
  <2>4. \A h \in Hashes : RowByHash(h)' = RowByHash(h) /\ h \in CacheKeys
    BY <2>3 DEF RowByHash
  <2>5. ASSUME NEW h \in Hashes, Stale(h)'
        PROVE  Stale(h) /\ h # operator[o].existing
    BY <2>1, <2>2, <2>4, <2>5 DEF Stale
  <2>6. QED
    BY <2>3, <2>5 DEF CachedKeysFresh
<1>14. ASSUME NEW o \in Operators, EvictFails(o)
      PROVE  CachedKeysFresh'
  <2>1. operator[o].existing \in Hashes /\ operator[o].existing \in CacheKeys
    BY <1>14 DEF EvictFails, RequestInv
  <2>2. /\ StoreInv'
        /\ \A j \in CacheKeys : \/ store'[j] = store[j]
                                \/ j = operator[o].existing /\ store'[j] = NoValue
    <3>1. InvalidateFails({operator[o].existing})
      BY <1>14 DEF EvictFails
    <3>2. /\ StoreInv'
          /\ \A j \in CacheKeys :
                 store'[j] = store[j] \/ (j \in {operator[o].existing} /\ store'[j] = NoValue)
      BY <3>1, RemovalFailed
    <3>3. QED
      BY <3>2
  <2>3. /\ UNCHANGED keys /\ missed' = missed \union {operator[o].existing}
        /\ \A p \in Operators \ {o} : operator'[p] = operator[p]
    BY <1>14 DEF EvictFails, FinishOperator, KeysShape
  <2>4. \A h \in Hashes : RowByHash(h)' = RowByHash(h) /\ h \in CacheKeys
    BY <2>3 DEF RowByHash
  <2>5. ASSUME NEW h \in Hashes, Stale(h)', h \notin missed'
        PROVE  Stale(h) /\ h # operator[o].existing
    BY <2>1, <2>2, <2>3, <2>4, <2>5 DEF Stale
  <2>6. QED
    BY <2>3, <2>5 DEF CachedKeysFresh
<1>15. ASSUME NEW h \in Hashes, EntryExpires(h)
      PROVE  CachedKeysFresh'
  <2>1. h \in CacheKeys
    OBVIOUS
  <2>2. /\ StoreInv'
        /\ \A j \in CacheKeys : store'[j] = IF j = h THEN NoValue ELSE store[j]
    BY <1>15, <2>1, RanOut DEF EntryExpires
  <2>3. UNCHANGED <<keys, missed, operator>>
    BY <1>15 DEF EntryExpires, keyVars
  <2>4. ASSUME NEW g \in Hashes, Stale(g)'
        PROVE  Stale(g)
    BY <2>2, <2>3, <2>4 DEF Stale, RowByHash
  <2>5. QED
    BY <2>3, <2>4 DEF CachedKeysFresh
<1>16. ASSUME ExpiryPasses
      PROVE  CachedKeysFresh'
  BY <1>16 DEF ExpiryPasses, CachedKeysFresh, Stale, RowByHash
<1>17. QED
  BY Writes, <1>1, <1>2, <1>3, <1>4, <1>5, <1>6, <1>7, <1>8, <1>9, <1>10, <1>11,
     <1>12, <1>13, <1>14, <1>15, <1>16 DEF KeysNext, OperatorStep

\* What the other users of the store do is nothing to the API keys.
LEMMA KeysLeftAlone ==
    ASSUME KeysInv, UNCHANGED keyVars, \A h \in Hashes : store'[h] = store[h]
    PROVE  KeysInv'
<1>1. KeysShape' /\ RequestInv' /\ SecretsInv'
  BY DEF KeysInv, KeysShape, RequestInv, SecretsInv, keyVars
<1>2. CachedKeysFresh'
  BY DEF KeysInv, CachedKeysFresh, Stale, RowByHash, keyVars
<1>3. QED
  BY <1>1, <1>2 DEF KeysInv

-----------------------------------------------------------------------------
(***************************************************************************)
(* Settings.                                                               *)
(***************************************************************************)
SettingRows == Values \union {NoValue}
VersionOps == {"update_version", "create_version", "delete_versions"}
CheckerStates == [at : {"new", "fetch", "seed", "save", "done"},
                  entry : SettingEntries \union {NoValue},
                  val : SettingRows \union [Platforms -> SettingRows]]
AdminStates == [at : {"new", "write", "delete", "invalidate", "done"},
                op : VersionOps \union {"update_config", NoValue},
                spelling : Spellings \union {NoValue}]

\* Every variable of Settings has its type, every field included.
SettingsShape ==
    /\ apps \in [Platforms -> SettingRows]
    /\ config \in SettingRows
    /\ checker \in [Checkers -> CheckerStates]
    /\ admin \in [Administrators -> AdminStates]
    /\ outdated \subseteq SettingEntries

\* A request that is under way knows what it reads or changes.
AdminInv ==
    /\ \A q \in Checkers :
          /\ checker[q].at \in {"fetch", "seed", "save"} => checker[q].entry \in SettingEntries
          /\ checker[q].at = "seed" => checker[q].entry = ConfigEntry
    /\ \A a \in Administrators :
          /\ admin[a].at \in {"write", "delete", "invalidate"} =>
                \/ admin[a].op \in VersionOps /\ admin[a].spelling \in Spellings
                \/ admin[a].op = "update_config"
          /\ admin[a].at = "delete" => admin[a].op \in {"create_version", "delete_versions"}

\* Nothing was cached, or is about to be, before there is a configuration.
SeedInv ==
    config = NoValue => /\ store[ConfigEntry] = NoValue
                        /\ \A q \in Checkers : checker[q].at = "save" => checker[q].entry # ConfigEntry

SettingsInv == SettingsShape /\ AdminInv /\ SeedInv /\ SettingsFresh

\* What a changing request begins with, through a route or a view.
AskStep(a) ==
    \E op \in VersionOps \union {"update_config"}, s \in Spellings \union {NoValue} :
        Ask(a, op, s) /\ (op \in VersionOps => s \in Spellings)

\* Every route and view begins in such a way.
LEMMA Asks ==
    ASSUME NEW a \in Administrators,
           \/ \E s \in Spellings : \/ UpdateVersionRoute(a, s) \/ ViewEditVersion(a, s)
                                   \/ ViewCreateVersion(a, s) \/ ViewDeleteVersions(a, s)
           \/ UpdateConfigRoute(a) \/ ViewEditConfig(a)
    PROVE  AskStep(a)
<1>1. \A s \in Spellings : Lower(s) \in Spellings
  BY SettingsConstants
<1>2. ASSUME NEW s \in Spellings, \/ UpdateVersionRoute(a, s) \/ ViewEditVersion(a, s)
                                  \/ ViewCreateVersion(a, s) \/ ViewDeleteVersions(a, s)
      PROVE  AskStep(a)
  <2>1. \E op \in VersionOps, t \in Spellings : Ask(a, op, t)
    BY <1>1, <1>2 DEF UpdateVersionRoute, ViewEditVersion, ViewCreateVersion, ViewDeleteVersions, VersionOps
  <2>2. QED
    BY <2>1 DEF AskStep
<1>3. CASE UpdateConfigRoute(a) \/ ViewEditConfig(a)
  BY <1>3 DEF UpdateConfigRoute, ViewEditConfig, AskStep, VersionOps
<1>4. QED
  BY <1>2, <1>3

\* A changing request goes on, or ends.
LEMMA Proceeded ==
    ASSUME SettingsShape, NEW a \in Administrators, NEW stage \in {"delete", "invalidate", "done"},
           Proceed(a, stage)
    PROVE  /\ admin' \in [Administrators -> AdminStates]
           /\ \A b \in Administrators \ {a} : admin'[b] = admin[b]
           /\ admin'[a].at = stage
           /\ stage # "done" => admin'[a].op = admin[a].op /\ admin'[a].spelling = admin[a].spelling
<1>1. admin[a] \in AdminStates
  BY DEF SettingsShape
<1>2. CASE stage = "done"
  BY <1>2 DEF Proceed, SettingsShape, AdminStates, IdleAdmin
<1>3. CASE stage # "done"
  <2>1. admin' = [admin EXCEPT ![a] = [admin[a] EXCEPT !.at = stage]]
    BY <1>3 DEF Proceed, SettingsShape
  <2>2. /\ [admin[a] EXCEPT !.at = stage] \in AdminStates
        /\ [admin[a] EXCEPT !.at = stage].at = stage
        /\ [admin[a] EXCEPT !.at = stage].op = admin[a].op
        /\ [admin[a] EXCEPT !.at = stage].spelling = admin[a].spelling
    BY <1>1 DEF AdminStates
  <2>3. QED
    BY <2>1, <2>2 DEF SettingsShape
<1>4. QED
  BY <1>2, <1>3

\* The entries are apart.
LEMMA EntriesApart ==
    /\ ConfigEntry # AllVersions
    /\ \A s \in Spellings : VersionEntry(s) \notin {ConfigEntry, AllVersions}
    /\ \A s, t \in Spellings : VersionEntry(s) = VersionEntry(t) => s = t
    /\ ConfigEntry \in SettingEntries /\ AllVersions \in SettingEntries
    /\ \A s \in Spellings : VersionEntry(s) \in SettingEntries
  BY DEF ConfigEntry, AllVersions, VersionEntry, SettingEntries

\* What the entry of a spelling should hold.
LEMMA VersionValue ==
    ASSUME NEW s \in Spellings
    PROVE  SettingValue(VersionEntry(s)) = apps[Lower(s)]
<1>1. (CHOOSE t \in Spellings : VersionEntry(t) = VersionEntry(s)) = s
  BY EntriesApart
<1>2. QED
  BY <1>1, EntriesApart DEF SettingValue, VersionInfo

\* The values of the entries.
LEMMA SettingValues ==
    ASSUME SettingsShape, NEW e \in SettingEntries
    PROVE  /\ SettingValue(e) \in SettingRows \union [Platforms -> SettingRows]
           /\ SettingValue(ConfigEntry) = config
<1>1. SettingValue(ConfigEntry) = config
  BY EntriesApart DEF SettingValue
<1>2. SettingValue(AllVersions) = apps
  BY EntriesApart DEF SettingValue, VersionList
<1>3. ASSUME NEW s \in Spellings
      PROVE  SettingValue(VersionEntry(s)) \in SettingRows
  BY VersionValue DEF SettingsShape, Platforms
<1>4. QED
  BY <1>1, <1>2, <1>3 DEF SettingsShape, SettingEntries

\* Without a change of the tables the values stay.
LEMMA SettingsKept ==
    ASSUME UNCHANGED <<apps, config>>, NEW e
    PROVE  SettingValue(e)' = SettingValue(e)
  BY DEF SettingValue, VersionList, VersionInfo

\* A change of one platform is seen in the entries of its spellings and in
\* the list only.
LEMMA VersionsKept ==
    ASSUME UNCHANGED config, NEW s \in Spellings,
           \A p \in Platforms \ {Lower(s)} : apps'[p] = apps[p],
           NEW e \in SettingEntries, e \notin OtherSpellings(s) \union {VersionEntry(s), AllVersions}
    PROVE  SettingValue(e)' = SettingValue(e)
<1>1. CASE e = ConfigEntry
  BY <1>1 DEF SettingValue
<1>2. ASSUME NEW t \in Spellings, e = VersionEntry(t)
      PROVE  SettingValue(e)' = SettingValue(e)
  <2>1. t # s /\ Lower(t) # Lower(s)
    BY <1>2 DEF OtherSpellings
  <2>2. apps'[Lower(t)] = apps[Lower(t)]
    BY <2>1 DEF Platforms
  <2>3. SettingValue(VersionEntry(t)) = apps[Lower(t)]
    BY VersionValue
  <2>4. SettingValue(VersionEntry(t))' = apps'[Lower(t)]
    <3>1. (CHOOSE u \in Spellings : VersionEntry(u) = VersionEntry(t)) = t
      BY EntriesApart
    <3>2. QED
      BY <3>1, EntriesApart DEF SettingValue, VersionInfo
  <2>5. QED
    BY <1>2, <2>2, <2>3, <2>4
<1>3. QED
  BY <1>1, <1>2 DEF SettingEntries

\* A step of one request leaves the entries right, or to be deleted.
LEMMA SettingsCovered ==
    ASSUME SettingsFresh, NEW a \in Administrators,
           \A b \in Administrators \ {a} : admin'[b] = admin[b],
           \A e \in SettingEntries :
               store'[e] # NoValue /\ e \notin outdated' /\ e \notin Pending(a)' =>
                   /\ store'[e] = store[e] /\ SettingValue(e)' = SettingValue(e)
                   /\ e \notin outdated /\ e \notin Pending(a)
    PROVE  SettingsFresh'
<1>1. \A b \in Administrators \ {a} : Pending(b)' = Pending(b)
  BY DEF Pending, Patterns
<1>2. SUFFICES ASSUME NEW e \in SettingEntries, store'[e] \notin {NoValue, SettingValue(e)'},
                      e \notin outdated', e \notin Pending(a)'
               PROVE  \E b \in Administrators : e \in Pending(b)'
  BY DEF SettingsFresh
<1>3. /\ store[e] \notin {NoValue, SettingValue(e)}
      /\ e \notin outdated /\ e \notin Pending(a)
  BY <1>2
<1>4. PICK b \in Administrators : e \in Pending(b)
  BY <1>3 DEF SettingsFresh
<1>5. b # a
  BY <1>3, <1>4
<1>6. e \in Pending(b)'
  BY <1>1, <1>4, <1>5
<1>7. QED
  BY <1>6

\* A step of a reader leaves them right, or outdated.
LEMMA SettingsReadSafely ==
    ASSUME SettingsFresh, UNCHANGED admin,
           \A e \in SettingEntries :
               store'[e] # NoValue /\ e \notin outdated' =>
                   \/ store'[e] = SettingValue(e)'
                   \/ /\ store'[e] = store[e] /\ SettingValue(e)' = SettingValue(e)
                      /\ e \notin outdated
    PROVE  SettingsFresh'
<1>1. \A b \in Administrators : Pending(b)' = Pending(b)
  BY DEF Pending, Patterns
<1>2. SUFFICES ASSUME NEW e \in SettingEntries, store'[e] \notin {NoValue, SettingValue(e)'},
                      e \notin outdated'
               PROVE  \E b \in Administrators : e \in Pending(b)'
  BY DEF SettingsFresh
<1>3. PICK b \in Administrators : e \in Pending(b)
  BY <1>2 DEF SettingsFresh
<1>4. QED
  BY <1>1, <1>3

\* Reads and changes of settings touch no entry but their own.
LEMMA SettingsStoreStep ==
    ASSUME StoreInv, SettingsShape, AdminInv, SettingsNext
    PROVE  StoreInv' /\ \A k \in CacheKeys \ SettingEntries : store'[k] = store[k]
<1> USE SettingsConstants, CachedDataConstants
<1>1. ASSUME NEW q \in Checkers, NEW e \in SettingEntries, LookUpSetting(q, e)
      PROVE  StoreInv' /\ \A k \in CacheKeys \ SettingEntries : store'[k] = store[k]
  BY <1>1 DEF LookUpSetting, StoreInv
<1>2. ASSUME NEW q \in Checkers, FetchSetting(q)
      PROVE  StoreInv' /\ \A k \in CacheKeys \ SettingEntries : store'[k] = store[k]
  BY <1>2 DEF FetchSetting, StoreInv
<1>3. ASSUME NEW q \in Checkers, SeedConfig(q)
      PROVE  StoreInv' /\ \A k \in CacheKeys \ SettingEntries : store'[k] = store[k]
  BY <1>3 DEF SeedConfig, StoreInv
<1>4. ASSUME NEW q \in Checkers, SaveSetting(q)
      PROVE  StoreInv' /\ \A k \in CacheKeys \ SettingEntries : store'[k] = store[k]
  <2>1. checker[q].entry \in SettingEntries /\ checker[q].entry \in CacheKeys
    BY <1>4 DEF SaveSetting, AdminInv
  <2>2. /\ StoreInv'
        /\ \A j \in CacheKeys :
               \/ store'[j] = store[j]
               \/ j = checker[q].entry /\ checker[q].val # NoValue /\ store'[j] = checker[q].val
    BY <1>4, <2>1, Saved DEF SaveSetting
  <2>3. QED
    BY <2>1, <2>2
<1>5. ASSUME ConfigExpires
      PROVE  StoreInv' /\ \A k \in CacheKeys \ SettingEntries : store'[k] = store[k]
  <2>1. ConfigEntry \in CacheKeys /\ ConfigEntry \in SettingEntries
    BY EntriesApart
  <2>2. /\ StoreInv'
        /\ \A j \in CacheKeys : store'[j] = IF j = ConfigEntry THEN NoValue ELSE store[j]
    BY <1>5, <2>1, RanOut DEF ConfigExpires
  <2>3. QED
    BY <2>1, <2>2
<1>6. ASSUME NEW a \in Administrators, AskStep(a)
      PROVE  StoreInv' /\ \A k \in CacheKeys \ SettingEntries : store'[k] = store[k]
  BY <1>6 DEF AskStep, Ask, StoreInv
<1>7. ASSUME NEW a \in Administrators, UpdateVersion(a)
      PROVE  StoreInv' /\ \A k \in CacheKeys \ SettingEntries : store'[k] = store[k]
  BY <1>7 DEF UpdateVersion, StoreInv
<1>8. ASSUME NEW a \in Administrators, CreateVersion(a)
      PROVE  StoreInv' /\ \A k \in CacheKeys \ SettingEntries : store'[k] = store[k]
  BY <1>8 DEF CreateVersion, StoreInv
<1>9. ASSUME NEW a \in Administrators, DeleteVersions(a)
      PROVE  StoreInv' /\ \A k \in CacheKeys \ SettingEntries : store'[k] = store[k]
  BY <1>9 DEF DeleteVersions, StoreInv
<1>10. ASSUME NEW a \in Administrators, UpdateConfig(a)
      PROVE  StoreInv' /\ \A k \in CacheKeys \ SettingEntries : store'[k] = store[k]
  BY <1>10 DEF UpdateConfig, StoreInv
<1>11. ASSUME NEW a \in Administrators, DeleteEntry(a)
      PROVE  StoreInv' /\ \A k \in CacheKeys \ SettingEntries : store'[k] = store[k]
  <2>1. {VersionEntry(admin[a].spelling)} \subseteq SettingEntries
    BY <1>11, EntriesApart DEF DeleteEntry, AdminInv, VersionOps
  <2>2. /\ StoreInv'
        /\ \A j \in CacheKeys : store'[j] = IF j \in {VersionEntry(admin[a].spelling)} THEN NoValue ELSE store[j]
    <3>1. Invalidate({VersionEntry(admin[a].spelling)})
      BY <1>11 DEF DeleteEntry
    <3>2. QED
      BY <3>1, Removed
  <2>3. QED
    BY <2>1, <2>2
<1>12. ASSUME NEW a \in Administrators, DeleteEntryFails(a)
      PROVE  StoreInv' /\ \A k \in CacheKeys \ SettingEntries : store'[k] = store[k]
  <2>1. {VersionEntry(admin[a].spelling)} \subseteq SettingEntries
    BY <1>12, EntriesApart DEF DeleteEntryFails, AdminInv, VersionOps
  <2>2. /\ StoreInv'
        /\ \A j \in CacheKeys : store'[j] = store[j] \/ (j \in {VersionEntry(admin[a].spelling)} /\ store'[j] = NoValue)
    <3>1. InvalidateFails({VersionEntry(admin[a].spelling)})
      BY <1>12 DEF DeleteEntryFails
    <3>2. QED
      BY <3>1, RemovalFailed
  <2>3. QED
    BY <2>1, <2>2
<1>13. ASSUME NEW a \in Administrators, InvalidateSetting(a)
      PROVE  StoreInv' /\ \A k \in CacheKeys \ SettingEntries : store'[k] = store[k]
  <2>1. Patterns(a) \subseteq SettingEntries
    BY <1>13, EntriesApart DEF InvalidateSetting, AdminInv, VersionOps, Patterns
  <2>2. /\ StoreInv'
        /\ \A j \in CacheKeys : store'[j] = IF j \in Patterns(a) THEN NoValue ELSE store[j]
    <3>1. Invalidate(Patterns(a))
      BY <1>13 DEF InvalidateSetting
    <3>2. QED
      BY <3>1, Removed
  <2>3. QED
    BY <2>1, <2>2
<1>14. ASSUME NEW a \in Administrators, InvalidateSettingFails(a)
      PROVE  StoreInv' /\ \A k \in CacheKeys \ SettingEntries : store'[k] = store[k]
  <2>1. Patterns(a) \subseteq SettingEntries
    BY <1>14, EntriesApart DEF InvalidateSettingFails, AdminInv, VersionOps, Patterns
  <2>2. /\ StoreInv'
        /\ \A j \in CacheKeys : store'[j] = store[j] \/ (j \in Patterns(a) /\ store'[j] = NoValue)
    <3>1. InvalidateFails(Patterns(a))
      BY <1>14 DEF InvalidateSettingFails
    <3>2. QED
      BY <3>1, RemovalFailed
  <2>3. QED
    BY <2>1, <2>2
<1>15. QED
  BY Asks, <1>1, <1>2, <1>3, <1>4, <1>5, <1>6, <1>7, <1>8, <1>9, <1>10, <1>11,
     <1>12, <1>13, <1>14 DEF SettingsNext

\* Every variable of Settings keeps its type.
LEMMA SettingsShapeStep ==
    ASSUME StoreInv, SettingsShape, AdminInv, SettingsNext
    PROVE  SettingsShape'
<1> USE SettingsConstants, CachedDataConstants
<1>1. ASSUME NEW q \in Checkers, NEW e \in SettingEntries, LookUpSetting(q, e)
      PROVE  SettingsShape'
  BY <1>1 DEF LookUpSetting, SettingsShape, CheckerStates, IdleChecker, SettingRows
<1>2. ASSUME NEW q \in Checkers, FetchSetting(q)
      PROVE  SettingsShape'
  <2>1. SettingValue(checker[q].entry) \in SettingRows \union [Platforms -> SettingRows]
    BY <1>2, SettingValues DEF FetchSetting, AdminInv
  <2>2. checker[q] \in CheckerStates
    BY DEF SettingsShape
  <2>3. ASSUME NEW stage \in {"seed", "save"}
        PROVE  [[checker[q] EXCEPT !.at = stage] EXCEPT !.val = SettingValue(checker[q].entry)]
                   \in CheckerStates
    BY <2>1, <2>2 DEF CheckerStates
  <2>4. PICK stage \in {"seed", "save"} :
            checker' = [checker EXCEPT ![q] = [[checker[q] EXCEPT !.at = stage]
                                                  EXCEPT !.val = SettingValue(checker[q].entry)]]
    BY <1>2 DEF FetchSetting, SettingsShape
  <2>5. checker' \in [Checkers -> CheckerStates]
    BY <2>3, <2>4 DEF SettingsShape
  <2>6. QED
    BY <1>2, <2>5 DEF FetchSetting, SettingsShape
<1>3. ASSUME NEW q \in Checkers, SeedConfig(q)
      PROVE  SettingsShape'
  <2>1. config' \in SettingRows
    BY <1>3 DEF SeedConfig, SettingsShape, SettingRows
  <2>2. checker[q] \in CheckerStates
    BY DEF SettingsShape
  <2>3. [[checker[q] EXCEPT !.at = "save"] EXCEPT !.val = config'] \in CheckerStates
    BY <2>1, <2>2 DEF CheckerStates
  <2>4. checker' = [checker EXCEPT ![q] = [[checker[q] EXCEPT !.at = "save"] EXCEPT !.val = config']]
    BY <1>3 DEF SeedConfig, SettingsShape
  <2>5. checker' \in [Checkers -> CheckerStates]
    BY <2>3, <2>4 DEF SettingsShape
  <2>6. QED
    BY <1>3, <2>1, <2>5 DEF SeedConfig, SettingsShape
<1>4. ASSUME NEW q \in Checkers, SaveSetting(q)
      PROVE  SettingsShape'
  <2>1. checker[q].entry \in SettingEntries
    BY <1>4 DEF SaveSetting, AdminInv
  <2>2. checker' \in [Checkers -> CheckerStates]
    BY <1>4 DEF SaveSetting, SettingsShape, CheckerStates, IdleChecker, SettingRows
  <2>3. outdated' \subseteq SettingEntries
    BY <1>4, <2>1 DEF SaveSetting, SettingsShape
  <2>4. QED
    BY <1>4, <2>2, <2>3 DEF SaveSetting, SettingsShape
<1>5. ASSUME ConfigExpires
      PROVE  SettingsShape'
  BY <1>5 DEF ConfigExpires, SettingsShape
<1>6. ASSUME NEW a \in Administrators, AskStep(a)
      PROVE  SettingsShape'
  <2>1. admin' \in [Administrators -> AdminStates]
    BY <1>6 DEF AskStep, Ask, SettingsShape, AdminStates, VersionOps
  <2>2. QED
    BY <1>6, <2>1 DEF AskStep, Ask, SettingsShape
<1>7. ASSUME NEW a \in Administrators, UpdateVersion(a)
      PROVE  SettingsShape'
  <2>1. admin[a].spelling \in Spellings /\ Lower(admin[a].spelling) \in Platforms
    BY <1>7 DEF UpdateVersion, Asked, AdminInv, Platforms
  <2>2. OtherSpellings(admin[a].spelling) \subseteq SettingEntries
    BY EntriesApart DEF OtherSpellings
  <2>3. admin' \in [Administrators -> AdminStates]
    BY <1>7, Proceeded DEF UpdateVersion
  <2>4. apps' \in [Platforms -> SettingRows]
    BY <1>7, <2>1 DEF UpdateVersion, SettingsShape, SettingRows
  <2>5. outdated' \subseteq SettingEntries
    BY <1>7, <2>2 DEF UpdateVersion, SettingsShape
  <2>6. QED
    BY <1>7, <2>3, <2>4, <2>5 DEF UpdateVersion, SettingsShape
<1>8. ASSUME NEW a \in Administrators, CreateVersion(a)
      PROVE  SettingsShape'
  <2>1. admin[a].spelling \in Spellings /\ Lower(admin[a].spelling) \in Platforms
    BY <1>8 DEF CreateVersion, Asked, AdminInv, Platforms
  <2>2. OtherSpellings(admin[a].spelling) \subseteq SettingEntries
    BY EntriesApart DEF OtherSpellings
  <2>3. admin' \in [Administrators -> AdminStates]
    BY <1>8, Proceeded DEF CreateVersion
  <2>4. apps' \in [Platforms -> SettingRows]
    BY <1>8, <2>1 DEF CreateVersion, SettingsShape, SettingRows
  <2>5. outdated' \subseteq SettingEntries
    BY <1>8, <2>2 DEF CreateVersion, SettingsShape
  <2>6. QED
    BY <1>8, <2>3, <2>4, <2>5 DEF CreateVersion, SettingsShape
<1>9. ASSUME NEW a \in Administrators, DeleteVersions(a)
      PROVE  SettingsShape'
  <2>1. admin[a].spelling \in Spellings /\ Lower(admin[a].spelling) \in Platforms
    BY <1>9 DEF DeleteVersions, Asked, AdminInv, Platforms
  <2>2. OtherSpellings(admin[a].spelling) \subseteq SettingEntries
    BY EntriesApart DEF OtherSpellings
  <2>3. admin' \in [Administrators -> AdminStates]
    BY <1>9, Proceeded DEF DeleteVersions
  <2>4. apps' \in [Platforms -> SettingRows]
    BY <1>9, <2>1 DEF DeleteVersions, SettingsShape, SettingRows
  <2>5. outdated' \subseteq SettingEntries
    BY <1>9, <2>2 DEF DeleteVersions, SettingsShape
  <2>6. QED
    BY <1>9, <2>3, <2>4, <2>5 DEF DeleteVersions, SettingsShape
<1>10. ASSUME NEW a \in Administrators, UpdateConfig(a)
      PROVE  SettingsShape'
  <2>1. admin' \in [Administrators -> AdminStates]
    BY <1>10, Proceeded DEF UpdateConfig
  <2>2. QED
    BY <1>10, <2>1 DEF UpdateConfig, SettingsShape, SettingRows
<1>11. ASSUME NEW a \in Administrators, DeleteEntry(a)
      PROVE  SettingsShape'
  <2>1. admin' \in [Administrators -> AdminStates]
    BY <1>11, Proceeded DEF DeleteEntry
  <2>2. outdated' \subseteq SettingEntries
    BY <1>11, EntriesApart DEF DeleteEntry, SettingsShape, AdminInv, VersionOps
  <2>3. QED
    BY <1>11, <2>1, <2>2 DEF DeleteEntry, SettingsShape
<1>12. ASSUME NEW a \in Administrators, DeleteEntryFails(a)
      PROVE  SettingsShape'
  <2>1. admin' \in [Administrators -> AdminStates]
    BY <1>12, Proceeded DEF DeleteEntryFails
  <2>2. outdated' \subseteq SettingEntries
    BY <1>12, EntriesApart DEF DeleteEntryFails, SettingsShape, AdminInv, VersionOps
  <2>3. QED
    BY <1>12, <2>1, <2>2 DEF DeleteEntryFails, SettingsShape
<1>13. ASSUME NEW a \in Administrators, InvalidateSetting(a)
      PROVE  SettingsShape'
  <2>1. admin' \in [Administrators -> AdminStates]
    BY <1>13, Proceeded DEF InvalidateSetting
  <2>2. outdated' \subseteq SettingEntries
    BY <1>13, EntriesApart DEF InvalidateSetting, SettingsShape, AdminInv, VersionOps, Patterns
  <2>3. QED
    BY <1>13, <2>1, <2>2 DEF InvalidateSetting, SettingsShape
<1>14. ASSUME NEW a \in Administrators, InvalidateSettingFails(a)
      PROVE  SettingsShape'
  <2>1. admin' \in [Administrators -> AdminStates]
    BY <1>14, Proceeded DEF InvalidateSettingFails
  <2>2. outdated' \subseteq SettingEntries
    BY <1>14, EntriesApart DEF InvalidateSettingFails, SettingsShape, AdminInv, VersionOps, Patterns
  <2>3. QED
    BY <1>14, <2>1, <2>2 DEF InvalidateSettingFails, SettingsShape
<1>15. QED
  BY Asks, <1>1, <1>2, <1>3, <1>4, <1>5, <1>6, <1>7, <1>8, <1>9, <1>10, <1>11,
     <1>12, <1>13, <1>14 DEF SettingsNext

\* Requests keep what they began with; the seed comes before the first entry.
LEMMA SettingsAdminStep ==
    ASSUME StoreInv, SettingsShape, AdminInv, SeedInv, SettingsNext
    PROVE  AdminInv' /\ SeedInv'
<1> USE SettingsConstants, CachedDataConstants
<1>1. ASSUME NEW q \in Checkers, NEW e \in SettingEntries, LookUpSetting(q, e)
      PROVE  AdminInv' /\ SeedInv'
  <2>1. /\ UNCHANGED <<admin, config, store>> /\ \A p \in Checkers \ {q} : checker'[p] = checker[p]
        /\ checker'[q].at \in {"done", "fetch"}
        /\ checker'[q].at = "fetch" => checker'[q].entry = e
    BY <1>1 DEF LookUpSetting, SettingsShape, CheckerStates, IdleChecker
  <2>2. QED
    BY <2>1 DEF AdminInv, SeedInv
<1>2. ASSUME NEW q \in Checkers, FetchSetting(q)
      PROVE  AdminInv' /\ SeedInv'
  <2>1. /\ UNCHANGED <<admin, config, store>> /\ \A p \in Checkers \ {q} : checker'[p] = checker[p]
        /\ checker[q].at = "fetch" /\ checker'[q].entry = checker[q].entry
        /\ checker'[q].at = IF checker[q].entry = ConfigEntry /\ config = NoValue THEN "seed" ELSE "save"
    BY <1>2 DEF FetchSetting, SettingsShape, CheckerStates
  <2>2. QED
    BY <2>1 DEF AdminInv, SeedInv
<1>3. ASSUME NEW q \in Checkers, SeedConfig(q)
      PROVE  AdminInv' /\ SeedInv'
  <2>1. /\ UNCHANGED <<admin, store>> /\ \A p \in Checkers \ {q} : checker'[p] = checker[p]
        /\ checker[q].at = "seed" /\ checker'[q].entry = checker[q].entry
        /\ checker'[q].at = "save" /\ config' # NoValue
    BY <1>3 DEF SeedConfig, SettingsShape, CheckerStates
  <2>2. QED
    BY <2>1 DEF AdminInv, SeedInv
<1>4. ASSUME NEW q \in Checkers, SaveSetting(q)
      PROVE  AdminInv' /\ SeedInv'
  <2>1. checker[q].entry \in SettingEntries /\ checker[q].entry \in CacheKeys
    BY <1>4 DEF SaveSetting, AdminInv
  <2>2. /\ StoreInv'
        /\ \A j \in CacheKeys :
               \/ store'[j] = store[j]
               \/ j = checker[q].entry /\ checker[q].val # NoValue /\ store'[j] = checker[q].val
    BY <1>4, <2>1, Saved DEF SaveSetting
  <2>3. /\ UNCHANGED <<admin, config>> /\ \A p \in Checkers \ {q} : checker'[p] = checker[p]
        /\ checker'[q].at = "done" /\ checker[q].at = "save"
    BY <1>4 DEF SaveSetting, SettingsShape, IdleChecker
  <2>4. AdminInv'
    BY <2>3 DEF AdminInv
  <2>5. SeedInv'
    <3>1. ConfigEntry \in CacheKeys
      BY EntriesApart
    <3>2. QED
      BY <2>2, <2>3, <3>1 DEF SeedInv
  <2>6. QED
    BY <2>4, <2>5
<1>5. ASSUME ConfigExpires
      PROVE  AdminInv' /\ SeedInv'
  <2>1. ConfigEntry \in CacheKeys /\ ConfigEntry \in SettingEntries
    BY EntriesApart
  <2>2. /\ StoreInv'
        /\ \A j \in CacheKeys : store'[j] = IF j = ConfigEntry THEN NoValue ELSE store[j]
    BY <1>5, <2>1, RanOut DEF ConfigExpires
  <2>3. QED
    BY <1>5, <2>1, <2>2 DEF ConfigExpires, AdminInv, SeedInv
<1>6. ASSUME NEW a \in Administrators, AskStep(a)
      PROVE  AdminInv' /\ SeedInv'
  <2>1. PICK op \in VersionOps \union {"update_config"}, s \in Spellings \union {NoValue} :
            Ask(a, op, s) /\ (op \in VersionOps => s \in Spellings)
    BY <1>6 DEF AskStep
  <2>2. /\ UNCHANGED <<checker, config, store>> /\ \A b \in Administrators \ {a} : admin'[b] = admin[b]
        /\ admin'[a] = [at |-> "write", op |-> op, spelling |-> s]
    BY <2>1 DEF Ask, SettingsShape
  <2>3. QED
    BY <2>1, <2>2 DEF AdminInv, SeedInv
<1>7. ASSUME NEW a \in Administrators, UpdateVersion(a)
      PROVE  AdminInv' /\ SeedInv'
  <2>1. /\ UNCHANGED <<checker, store>> /\ (config = NoValue <=> config' = NoValue)
        /\ \A b \in Administrators \ {a} : admin'[b] = admin[b]
        /\ admin'[a].at \in {"delete", "invalidate", "done"}
        /\ admin'[a].at # "done" => admin'[a].op = admin[a].op /\ admin'[a].spelling = admin[a].spelling
        /\ admin[a].at = "write"
        /\ admin'[a].at = "delete" => admin[a].op \in {"create_version", "delete_versions"}
    BY <1>7, Proceeded DEF UpdateVersion, Asked
  <2>2. QED
    BY <2>1 DEF AdminInv, SeedInv
<1>8. ASSUME NEW a \in Administrators, CreateVersion(a)
      PROVE  AdminInv' /\ SeedInv'
  <2>1. /\ UNCHANGED <<checker, store>> /\ (config = NoValue <=> config' = NoValue)
        /\ \A b \in Administrators \ {a} : admin'[b] = admin[b]
        /\ admin'[a].at \in {"delete", "invalidate", "done"}
        /\ admin'[a].at # "done" => admin'[a].op = admin[a].op /\ admin'[a].spelling = admin[a].spelling
        /\ admin[a].at = "write"
        /\ admin'[a].at = "delete" => admin[a].op \in {"create_version", "delete_versions"}
    BY <1>8, Proceeded DEF CreateVersion, Asked
  <2>2. QED
    BY <2>1 DEF AdminInv, SeedInv
<1>9. ASSUME NEW a \in Administrators, DeleteVersions(a)
      PROVE  AdminInv' /\ SeedInv'
  <2>1. /\ UNCHANGED <<checker, store>> /\ (config = NoValue <=> config' = NoValue)
        /\ \A b \in Administrators \ {a} : admin'[b] = admin[b]
        /\ admin'[a].at \in {"delete", "invalidate", "done"}
        /\ admin'[a].at # "done" => admin'[a].op = admin[a].op /\ admin'[a].spelling = admin[a].spelling
        /\ admin[a].at = "write"
        /\ admin'[a].at = "delete" => admin[a].op \in {"create_version", "delete_versions"}
    BY <1>9, Proceeded DEF DeleteVersions, Asked
  <2>2. QED
    BY <2>1 DEF AdminInv, SeedInv
<1>10. ASSUME NEW a \in Administrators, UpdateConfig(a)
      PROVE  AdminInv' /\ SeedInv'
  <2>1. /\ UNCHANGED <<checker, store>> /\ (config = NoValue <=> config' = NoValue)
        /\ \A b \in Administrators \ {a} : admin'[b] = admin[b]
        /\ admin'[a].at \in {"delete", "invalidate", "done"}
        /\ admin'[a].at # "done" => admin'[a].op = admin[a].op /\ admin'[a].spelling = admin[a].spelling
        /\ admin[a].at = "write"
        /\ admin'[a].at = "delete" => admin[a].op \in {"create_version", "delete_versions"}
    BY <1>10, Proceeded DEF UpdateConfig, Asked
  <2>2. QED
    BY <2>1 DEF AdminInv, SeedInv
<1>11. ASSUME NEW a \in Administrators, DeleteEntry(a)
      PROVE  AdminInv' /\ SeedInv'
  <2>1. {VersionEntry(admin[a].spelling)} \subseteq SettingEntries
    BY <1>11, EntriesApart DEF DeleteEntry, AdminInv, VersionOps
  <2>2. /\ StoreInv'
        /\ \A j \in CacheKeys : store'[j] = IF j \in {VersionEntry(admin[a].spelling)} THEN NoValue ELSE store[j]
    <3>1. Invalidate({VersionEntry(admin[a].spelling)})
      BY <1>11 DEF DeleteEntry
    <3>2. QED
      BY <3>1, Removed
  <2>3. /\ UNCHANGED <<checker, config>> /\ \A b \in Administrators \ {a} : admin'[b] = admin[b]
        /\ admin'[a].at \in {"invalidate", "done"} /\ admin[a].at \in {"delete", "invalidate"}
        /\ admin'[a].at # "done" => admin'[a].op = admin[a].op /\ admin'[a].spelling = admin[a].spelling
    BY <1>11, Proceeded DEF DeleteEntry
  <2>4. AdminInv'
    BY <2>3 DEF AdminInv
  <2>5. SeedInv'
    <3>1. ConfigEntry \in CacheKeys
      BY EntriesApart
    <3>2. QED
      BY <2>2, <2>3, <3>1 DEF SeedInv
  <2>6. QED
    BY <2>4, <2>5
<1>12. ASSUME NEW a \in Administrators, DeleteEntryFails(a)
      PROVE  AdminInv' /\ SeedInv'
  <2>1. {VersionEntry(admin[a].spelling)} \subseteq SettingEntries
    BY <1>12, EntriesApart DEF DeleteEntryFails, AdminInv, VersionOps
  <2>2. /\ StoreInv'
        /\ \A j \in CacheKeys : store'[j] = store[j] \/ (j \in {VersionEntry(admin[a].spelling)} /\ store'[j] = NoValue)
    <3>1. InvalidateFails({VersionEntry(admin[a].spelling)})
      BY <1>12 DEF DeleteEntryFails
    <3>2. QED
      BY <3>1, RemovalFailed
  <2>3. /\ UNCHANGED <<checker, config>> /\ \A b \in Administrators \ {a} : admin'[b] = admin[b]
        /\ admin'[a].at \in {"invalidate", "done"} /\ admin[a].at \in {"delete", "invalidate"}
        /\ admin'[a].at # "done" => admin'[a].op = admin[a].op /\ admin'[a].spelling = admin[a].spelling
    BY <1>12, Proceeded DEF DeleteEntryFails
  <2>4. AdminInv'
    BY <2>3 DEF AdminInv
  <2>5. SeedInv'
    <3>1. ConfigEntry \in CacheKeys
      BY EntriesApart
    <3>2. QED
      BY <2>2, <2>3, <3>1 DEF SeedInv
  <2>6. QED
    BY <2>4, <2>5
<1>13. ASSUME NEW a \in Administrators, InvalidateSetting(a)
      PROVE  AdminInv' /\ SeedInv'
  <2>1. Patterns(a) \subseteq SettingEntries
    BY <1>13, EntriesApart DEF InvalidateSetting, AdminInv, VersionOps, Patterns
  <2>2. /\ StoreInv'
        /\ \A j \in CacheKeys : store'[j] = IF j \in Patterns(a) THEN NoValue ELSE store[j]
    <3>1. Invalidate(Patterns(a))
      BY <1>13 DEF InvalidateSetting
    <3>2. QED
      BY <3>1, Removed
  <2>3. /\ UNCHANGED <<checker, config>> /\ \A b \in Administrators \ {a} : admin'[b] = admin[b]
        /\ admin'[a].at \in {"invalidate", "done"} /\ admin[a].at \in {"delete", "invalidate"}
        /\ admin'[a].at # "done" => admin'[a].op = admin[a].op /\ admin'[a].spelling = admin[a].spelling
    BY <1>13, Proceeded DEF InvalidateSetting
  <2>4. AdminInv'
    BY <2>3 DEF AdminInv
  <2>5. SeedInv'
    <3>1. ConfigEntry \in CacheKeys
      BY EntriesApart
    <3>2. QED
      BY <2>2, <2>3, <3>1 DEF SeedInv
  <2>6. QED
    BY <2>4, <2>5
<1>14. ASSUME NEW a \in Administrators, InvalidateSettingFails(a)
      PROVE  AdminInv' /\ SeedInv'
  <2>1. Patterns(a) \subseteq SettingEntries
    BY <1>14, EntriesApart DEF InvalidateSettingFails, AdminInv, VersionOps, Patterns
  <2>2. /\ StoreInv'
        /\ \A j \in CacheKeys : store'[j] = store[j] \/ (j \in Patterns(a) /\ store'[j] = NoValue)
    <3>1. InvalidateFails(Patterns(a))
      BY <1>14 DEF InvalidateSettingFails
    <3>2. QED
      BY <3>1, RemovalFailed
  <2>3. /\ UNCHANGED <<checker, config>> /\ \A b \in Administrators \ {a} : admin'[b] = admin[b]
        /\ admin'[a].at \in {"invalidate", "done"} /\ admin[a].at \in {"delete", "invalidate"}
        /\ admin'[a].at # "done" => admin'[a].op = admin[a].op /\ admin'[a].spelling = admin[a].spelling
    BY <1>14, Proceeded DEF InvalidateSettingFails
  <2>4. AdminInv'
    BY <2>3 DEF AdminInv
  <2>5. SeedInv'
    <3>1. ConfigEntry \in CacheKeys
      BY EntriesApart
    <3>2. QED
      BY <2>2, <2>3, <3>1 DEF SeedInv
  <2>6. QED
    BY <2>4, <2>5
<1>15. QED
  BY Asks, <1>1, <1>2, <1>3, <1>4, <1>5, <1>6, <1>7, <1>8, <1>9, <1>10, <1>11,
     <1>12, <1>13, <1>14 DEF SettingsNext

(* A change is followed by the deletion of the entries of the spelling it
   used; those of the other spellings are outdated. *)
LEMMA SettingsFreshStep ==
    ASSUME StoreInv, SettingsShape, AdminInv, SeedInv, SettingsFresh, SettingsNext
    PROVE  SettingsFresh'
<1> USE SettingsConstants, CachedDataConstants
<1>1. ASSUME NEW q \in Checkers, NEW e \in SettingEntries, LookUpSetting(q, e)
      PROVE  SettingsFresh'
  <2>1. UNCHANGED <<admin, apps, config, outdated, store>>
    BY <1>1 DEF LookUpSetting
  <2>2. QED
    BY <2>1, SettingsKept, SettingsReadSafely
<1>2. ASSUME NEW q \in Checkers, FetchSetting(q)
      PROVE  SettingsFresh'
  <2>1. UNCHANGED <<admin, apps, config, outdated, store>>
    BY <1>2 DEF FetchSetting
  <2>2. QED
    BY <2>1, SettingsKept, SettingsReadSafely
<1>3. ASSUME NEW q \in Checkers, SeedConfig(q)
      PROVE  SettingsFresh'
  <2>1. UNCHANGED <<admin, apps, outdated, store>> /\ (config # NoValue => config' = config)
    BY <1>3 DEF SeedConfig
  <2>2. CASE config # NoValue
    BY <2>1, <2>2, SettingsKept, SettingsReadSafely
  <2>3. CASE config = NoValue
    <3>1. store[ConfigEntry] = NoValue
      BY <2>3 DEF SeedInv
    <3>2. ASSUME NEW e \in SettingEntries, e # ConfigEntry
          PROVE  SettingValue(e)' = SettingValue(e)
      BY <2>1, <3>2 DEF SettingValue, VersionList, VersionInfo
    <3>3. QED
      BY <2>1, <3>1, <3>2, SettingsReadSafely
  <2>4. QED
    BY <2>2, <2>3
<1>4. ASSUME NEW q \in Checkers, SaveSetting(q)
      PROVE  SettingsFresh'
  <2>1. checker[q].entry \in SettingEntries /\ checker[q].entry \in CacheKeys
    BY <1>4 DEF SaveSetting, AdminInv
  <2>2. /\ StoreInv'
        /\ \A j \in CacheKeys :
               \/ store'[j] = store[j]
               \/ j = checker[q].entry /\ checker[q].val # NoValue /\ store'[j] = checker[q].val
    BY <1>4, <2>1, Saved DEF SaveSetting
  <2>3. /\ UNCHANGED <<admin, apps, config>> /\ outdated \subseteq outdated'
        /\ checker[q].val \notin {NoValue, SettingValue(checker[q].entry)} => checker[q].entry \in outdated'
    BY <1>4 DEF SaveSetting
  <2>4. ASSUME NEW e \in SettingEntries, store'[e] # NoValue, e \notin outdated'
        PROVE  \/ store'[e] = SettingValue(e)'
               \/ /\ store'[e] = store[e] /\ SettingValue(e)' = SettingValue(e)
                  /\ e \notin outdated
    <3>1. SettingValue(e)' = SettingValue(e) /\ e \in CacheKeys
      BY <2>3, SettingsKept
    <3>2. QED
      BY <2>2, <2>3, <2>4, <3>1
  <2>5. QED
    BY <2>3, <2>4, SettingsReadSafely
<1>5. ASSUME ConfigExpires
      PROVE  SettingsFresh'
  <2>1. ConfigEntry \in CacheKeys /\ ConfigEntry \in SettingEntries
    BY EntriesApart
  <2>2. /\ StoreInv'
        /\ \A j \in CacheKeys : store'[j] = IF j = ConfigEntry THEN NoValue ELSE store[j]
    BY <1>5, <2>1, RanOut DEF ConfigExpires
  <2>3. UNCHANGED <<admin, apps, config>> /\ outdated' = outdated \ {ConfigEntry}
    BY <1>5 DEF ConfigExpires
  <2>4. ASSUME NEW e \in SettingEntries, store'[e] # NoValue, e \notin outdated'
        PROVE  /\ store'[e] = store[e] /\ SettingValue(e)' = SettingValue(e)
               /\ e \notin outdated
    <3>1. SettingValue(e)' = SettingValue(e) /\ e \in CacheKeys
      BY <2>3, SettingsKept
    <3>2. QED
      BY <2>2, <2>3, <2>4, <3>1
  <2>5. QED
    BY <2>3, <2>4, SettingsReadSafely
<1>6. ASSUME NEW a \in Administrators, AskStep(a)
      PROVE  SettingsFresh'
  <2>1. /\ UNCHANGED <<apps, config, outdated, store>> /\ admin[a].at = "new"
        /\ \A b \in Administrators \ {a} : admin'[b] = admin[b]
    BY <1>6 DEF AskStep, Ask, SettingsShape
  <2>2. Pending(a) = {}
    BY <2>1 DEF Pending
  <2>3. QED
    BY <2>1, <2>2, SettingsKept, SettingsCovered
<1>7. ASSUME NEW a \in Administrators, UpdateVersion(a)
      PROVE  SettingsFresh'
  <2> DEFINE s == admin[a].spelling
  <2>1. s \in Spellings /\ admin[a].at = "write" /\ admin[a].op = "update_version"
    BY <1>7 DEF UpdateVersion, Asked, AdminInv
  <2>2. Pending(a) = {}
    BY <2>1 DEF Pending
  <2>3. UNCHANGED <<config, store>> /\ \A b \in Administrators \ {a} : admin'[b] = admin[b]
    BY <1>7, Proceeded DEF UpdateVersion
  <2>4. CASE VersionInfo(s) = NoValue
    <3>1. UNCHANGED <<apps, outdated>>
      BY <1>7, <2>4 DEF UpdateVersion, SettingsShape, VersionInfo
    <3>2. QED
      BY <2>2, <2>3, <3>1, SettingsKept, SettingsCovered
  <2>5. CASE ~(VersionInfo(s) = NoValue)
    <3>1. /\ \A p \in Platforms \ {Lower(s)} : apps'[p] = apps[p]
          /\ outdated' = outdated \union OtherSpellings(s)
      BY <1>7, <2>5 DEF UpdateVersion, SettingsShape
    <3>2. /\ admin'[a].at = "invalidate" /\ admin'[a].op = "update_version" /\ admin'[a].spelling = s
      BY <1>7, <2>1, <2>5, Proceeded DEF UpdateVersion
    <3>3. Pending(a)' = {VersionEntry(s), AllVersions}
      BY <3>2 DEF Pending, Patterns
    <3>4. ASSUME NEW e \in SettingEntries, e \notin outdated', e \notin Pending(a)'
          PROVE  SettingValue(e)' = SettingValue(e)
      BY <2>1, <2>3, <3>1, <3>3, <3>4, VersionsKept
    <3>5. QED
      BY <2>2, <2>3, <3>1, <3>4, SettingsCovered
  <2>6. QED
    BY <2>4, <2>5
<1>8. ASSUME NEW a \in Administrators, CreateVersion(a)
      PROVE  SettingsFresh'
  <2> DEFINE s == admin[a].spelling
  <2>1. s \in Spellings /\ admin[a].at = "write" /\ admin[a].op = "create_version"
    BY <1>8 DEF CreateVersion, Asked, AdminInv
  <2>2. Pending(a) = {}
    BY <2>1 DEF Pending
  <2>3. UNCHANGED <<config, store>> /\ \A b \in Administrators \ {a} : admin'[b] = admin[b]
    BY <1>8, Proceeded DEF CreateVersion
  <2>4. CASE VersionInfo(s) # NoValue
    <3>1. UNCHANGED <<apps, outdated>>
      BY <1>8, <2>4 DEF CreateVersion, SettingsShape, VersionInfo
    <3>2. QED
      BY <2>2, <2>3, <3>1, SettingsKept, SettingsCovered
  <2>5. CASE ~(VersionInfo(s) # NoValue)
    <3>1. /\ \A p \in Platforms \ {Lower(s)} : apps'[p] = apps[p]
          /\ outdated' = outdated \union OtherSpellings(s)
      BY <1>8, <2>5 DEF CreateVersion, SettingsShape
    <3>2. /\ admin'[a].at = "delete" /\ admin'[a].op = "create_version" /\ admin'[a].spelling = s
      BY <1>8, <2>1, <2>5, Proceeded DEF CreateVersion
    <3>3. Pending(a)' = {VersionEntry(s), AllVersions}
      BY <3>2 DEF Pending, Patterns
    <3>4. ASSUME NEW e \in SettingEntries, e \notin outdated', e \notin Pending(a)'
          PROVE  SettingValue(e)' = SettingValue(e)
      BY <2>1, <2>3, <3>1, <3>3, <3>4, VersionsKept
    <3>5. QED
      BY <2>2, <2>3, <3>1, <3>4, SettingsCovered
  <2>6. QED
    BY <2>4, <2>5
<1>9. ASSUME NEW a \in Administrators, DeleteVersions(a)
      PROVE  SettingsFresh'
  <2> DEFINE s == admin[a].spelling
  <2>1. s \in Spellings /\ admin[a].at = "write" /\ admin[a].op = "delete_versions"
    BY <1>9 DEF DeleteVersions, Asked, AdminInv
  <2>2. Pending(a) = {}
    BY <2>1 DEF Pending
  <2>3. UNCHANGED <<config, store>> /\ \A b \in Administrators \ {a} : admin'[b] = admin[b]
    BY <1>9, Proceeded DEF DeleteVersions
  <2>4. CASE VersionInfo(s) = NoValue
    <3>1. UNCHANGED <<apps, outdated>>
      <4>1. apps[Lower(s)] = NoValue /\ Lower(s) \in Platforms
        BY <2>1, <2>4 DEF VersionInfo, Platforms
      <4>2. QED
        BY <1>9, <2>4, <4>1 DEF DeleteVersions, SettingsShape
    <3>2. QED
      BY <2>2, <2>3, <3>1, SettingsKept, SettingsCovered
  <2>5. CASE ~(VersionInfo(s) = NoValue)
    <3>1. /\ \A p \in Platforms \ {Lower(s)} : apps'[p] = apps[p]
          /\ outdated' = outdated \union OtherSpellings(s)
      BY <1>9, <2>5 DEF DeleteVersions, SettingsShape
    <3>2. /\ admin'[a].at = "delete" /\ admin'[a].op = "delete_versions" /\ admin'[a].spelling = s
      BY <1>9, <2>1, <2>5, Proceeded DEF DeleteVersions
    <3>3. Pending(a)' = {VersionEntry(s), AllVersions}
      BY <3>2 DEF Pending, Patterns
    <3>4. ASSUME NEW e \in SettingEntries, e \notin outdated', e \notin Pending(a)'
          PROVE  SettingValue(e)' = SettingValue(e)
      BY <2>1, <2>3, <3>1, <3>3, <3>4, VersionsKept
    <3>5. QED
      BY <2>2, <2>3, <3>1, <3>4, SettingsCovered
  <2>6. QED
    BY <2>4, <2>5
<1>10. ASSUME NEW a \in Administrators, UpdateConfig(a)
      PROVE  SettingsFresh'
  <2>1. admin[a].at = "write" /\ admin[a].op = "update_config"
    BY <1>10 DEF UpdateConfig, Asked
  <2>2. Pending(a) = {}
    BY <2>1 DEF Pending
  <2>3. /\ UNCHANGED <<apps, store, outdated>> /\ \A b \in Administrators \ {a} : admin'[b] = admin[b]
        /\ admin'[a].at = "invalidate" /\ admin'[a].op = "update_config"
    BY <1>10, <2>1, Proceeded DEF UpdateConfig
  <2>4. Pending(a)' = {ConfigEntry}
    BY <2>3 DEF Pending, Patterns
  <2>5. ASSUME NEW e \in SettingEntries, e # ConfigEntry
        PROVE  SettingValue(e)' = SettingValue(e)
    BY <2>3, <2>5 DEF SettingValue, VersionList, VersionInfo
  <2>6. QED
    BY <2>2, <2>3, <2>4, <2>5, SettingsCovered
<1>11. ASSUME NEW a \in Administrators, DeleteEntry(a)
      PROVE  SettingsFresh'
  <2>1. {VersionEntry(admin[a].spelling)} \subseteq SettingEntries
    BY <1>11, EntriesApart DEF DeleteEntry, AdminInv, VersionOps
  <2>2. /\ StoreInv'
        /\ \A j \in CacheKeys : store'[j] = IF j \in {VersionEntry(admin[a].spelling)} THEN NoValue ELSE store[j]
    <3>1. Invalidate({VersionEntry(admin[a].spelling)})
      BY <1>11 DEF DeleteEntry
    <3>2. QED
      BY <3>1, Removed
  <2>3. /\ UNCHANGED <<apps, config>> /\ outdated' = outdated
        /\ \A b \in Administrators \ {a} : admin'[b] = admin[b]
        /\ admin[a].at = "delete"
        /\ admin'[a].at = "invalidate" /\ admin'[a].op = admin[a].op
    BY <1>11, Proceeded DEF DeleteEntry
  <2>4. Pending(a) = {VersionEntry(admin[a].spelling), AllVersions}
    BY <2>3 DEF Pending
  <2>5. Pending(a)' = {AllVersions}
    BY <2>3 DEF Pending, Patterns, AdminInv
  <2>6. ASSUME NEW e \in SettingEntries, store'[e] # NoValue, e \notin outdated', e \notin Pending(a)'
        PROVE  /\ store'[e] = store[e] /\ SettingValue(e)' = SettingValue(e)
               /\ e \notin outdated /\ e \notin Pending(a)
    <3>1. SettingValue(e)' = SettingValue(e) /\ e \in CacheKeys
      BY <2>3, SettingsKept
    <3>2. QED
      BY <2>2, <2>3, <2>4, <2>5, <2>6, <3>1
  <2>7. QED
    BY <2>3, <2>6, SettingsCovered
<1>12. ASSUME NEW a \in Administrators, DeleteEntryFails(a)
      PROVE  SettingsFresh'
  <2>1. {VersionEntry(admin[a].spelling)} \subseteq SettingEntries
    BY <1>12, EntriesApart DEF DeleteEntryFails, AdminInv, VersionOps
  <2>2. /\ StoreInv'
        /\ \A j \in CacheKeys : store'[j] = store[j] \/ (j \in {VersionEntry(admin[a].spelling)} /\ store'[j] = NoValue)
    <3>1. InvalidateFails({VersionEntry(admin[a].spelling)})
      BY <1>12 DEF DeleteEntryFails
    <3>2. QED
      BY <3>1, RemovalFailed
  <2>3. /\ UNCHANGED <<apps, config>> /\ outdated' = outdated \union {VersionEntry(admin[a].spelling), AllVersions}
        /\ \A b \in Administrators \ {a} : admin'[b] = admin[b]
        /\ admin[a].at = "delete"
    BY <1>12, Proceeded DEF DeleteEntryFails
  <2>4. Pending(a) = {VersionEntry(admin[a].spelling), AllVersions}
    BY <2>3 DEF Pending
  <2>5. outdated \subseteq outdated'
    BY <2>3
  <2>6. ASSUME NEW e \in SettingEntries, store'[e] # NoValue, e \notin outdated', e \notin Pending(a)'
        PROVE  /\ store'[e] = store[e] /\ SettingValue(e)' = SettingValue(e)
               /\ e \notin outdated /\ e \notin Pending(a)
    <3>1. SettingValue(e)' = SettingValue(e) /\ e \in CacheKeys
      BY <2>3, SettingsKept
    <3>2. QED
      BY <2>2, <2>3, <2>4, <2>5, <2>6, <3>1
  <2>7. QED
    BY <2>3, <2>6, SettingsCovered
<1>13. ASSUME NEW a \in Administrators, InvalidateSetting(a)
      PROVE  SettingsFresh'
  <2>1. Patterns(a) \subseteq SettingEntries
    BY <1>13, EntriesApart DEF InvalidateSetting, AdminInv, VersionOps, Patterns
  <2>2. /\ StoreInv'
        /\ \A j \in CacheKeys : store'[j] = IF j \in Patterns(a) THEN NoValue ELSE store[j]
    <3>1. Invalidate(Patterns(a))
      BY <1>13 DEF InvalidateSetting
    <3>2. QED
      BY <3>1, Removed
  <2>3. /\ UNCHANGED <<apps, config>> /\ outdated' = outdated \ Patterns(a)
        /\ \A b \in Administrators \ {a} : admin'[b] = admin[b]
        /\ admin[a].at = "invalidate"
    BY <1>13, Proceeded DEF InvalidateSetting
  <2>4. Pending(a) = Patterns(a)
    BY <2>3 DEF Pending
  <2>5. \A e \in SettingEntries : e \in CacheKeys
    OBVIOUS
  <2>6. ASSUME NEW e \in SettingEntries, store'[e] # NoValue, e \notin outdated', e \notin Pending(a)'
        PROVE  /\ store'[e] = store[e] /\ SettingValue(e)' = SettingValue(e)
               /\ e \notin outdated /\ e \notin Pending(a)
    <3>1. SettingValue(e)' = SettingValue(e) /\ e \in CacheKeys
      BY <2>3, SettingsKept
    <3>2. QED
      BY <2>2, <2>3, <2>4, <2>5, <2>6, <3>1
  <2>7. QED
    BY <2>3, <2>6, SettingsCovered
<1>14. ASSUME NEW a \in Administrators, InvalidateSettingFails(a)
      PROVE  SettingsFresh'
  <2>1. Patterns(a) \subseteq SettingEntries
    BY <1>14, EntriesApart DEF InvalidateSettingFails, AdminInv, VersionOps, Patterns
  <2>2. /\ StoreInv'
        /\ \A j \in CacheKeys : store'[j] = store[j] \/ (j \in Patterns(a) /\ store'[j] = NoValue)
    <3>1. InvalidateFails(Patterns(a))
      BY <1>14 DEF InvalidateSettingFails
    <3>2. QED
      BY <3>1, RemovalFailed
  <2>3. /\ UNCHANGED <<apps, config>> /\ outdated' = outdated \union Patterns(a)
        /\ \A b \in Administrators \ {a} : admin'[b] = admin[b]
        /\ admin[a].at = "invalidate"
    BY <1>14, Proceeded DEF InvalidateSettingFails
  <2>4. Pending(a) = Patterns(a)
    BY <2>3 DEF Pending
  <2>5. outdated \subseteq outdated'
    BY <2>3
  <2>6. ASSUME NEW e \in SettingEntries, store'[e] # NoValue, e \notin outdated', e \notin Pending(a)'
        PROVE  /\ store'[e] = store[e] /\ SettingValue(e)' = SettingValue(e)
               /\ e \notin outdated /\ e \notin Pending(a)
    <3>1. SettingValue(e)' = SettingValue(e) /\ e \in CacheKeys
      BY <2>3, SettingsKept
    <3>2. QED
      BY <2>2, <2>3, <2>4, <2>5, <2>6, <3>1
  <2>7. QED
    BY <2>3, <2>6, SettingsCovered
<1>15. QED
  BY Asks, <1>1, <1>2, <1>3, <1>4, <1>5, <1>6, <1>7, <1>8, <1>9, <1>10, <1>11,
     <1>12, <1>13, <1>14 DEF SettingsNext

\* What the other users of the store do is nothing to the settings.
LEMMA SettingsLeftAlone ==
    ASSUME SettingsInv, UNCHANGED settingVars, \A e \in SettingEntries : store'[e] = store[e]
    PROVE  SettingsInv'
<1> USE DEF settingVars
<1>1. SettingsShape' /\ AdminInv'
  BY DEF SettingsInv, SettingsShape, AdminInv
<1>2. SeedInv'
  BY EntriesApart DEF SettingsInv, SeedInv
<1>3. SettingsFresh'
  BY SettingsKept, SettingsReadSafely DEF SettingsInv
<1>4. QED
  BY <1>1, <1>2, <1>3 DEF SettingsInv

-----------------------------------------------------------------------------
(***************************************************************************)
(* The three together.                                                     *)
(***************************************************************************)
CachedInv == StoreInv /\ KeysInv /\ RolesInv /\ SettingsInv

\* Initially nothing is cached and no request is under way.
LEMMA CachedStart == CachedInit => CachedInv
<1> SUFFICES ASSUME CachedInit PROVE CachedInv
  OBVIOUS
<1> USE ApiKeysConstants, RolesConstants, SettingsConstants, CachedDataConstants DEF CachedInit
<1>1. StoreInv /\ \A k \in CacheKeys : store[k] = NoValue
  BY DEF StoreInv
<1>2. KeysInv
  <2> USE DEF KeysInit
  <2>1. KeysShape
    BY <1>1 DEF KeysShape, ClientStates, IdleClient, IdleOperator
  <2>2. RequestInv /\ SecretsInv
    BY <1>1 DEF RequestInv, SecretsInv, IdleClient, IdleOperator
  <2>3. CachedKeysFresh
    BY <1>1 DEF CachedKeysFresh, Stale
  <2>4. QED
    BY <2>1, <2>2, <2>3 DEF KeysInv
<1>3. RolesInv
  BY <1>1, RolesStart
<1>4. SettingsInv
  <2> USE DEF SettingsInit
  <2>1. SettingsShape
    BY DEF SettingsShape, SettingRows, CheckerStates, IdleChecker, AdminStates, IdleAdmin
  <2>2. AdminInv
    BY DEF AdminInv, IdleChecker, IdleAdmin
  <2>3. SeedInv
    BY <1>1, EntriesApart DEF SeedInv, IdleChecker
  <2>4. SettingsFresh
    BY <1>1 DEF SettingsFresh
  <2>5. QED
    BY <2>1, <2>2, <2>3, <2>4 DEF SettingsInv
<1>5. QED
  BY <1>1, <1>2, <1>3, <1>4 DEF CachedInv

\* Every step of a user of the store keeps its own invariant, and touches
\* nothing of the others'.
LEMMA CachedStep ==
    ASSUME CachedInv, [CachedNext]_cachedVars
    PROVE  CachedInv'
<1>1. /\ Hashes \subseteq CacheKeys /\ RoleEntries \subseteq CacheKeys /\ SettingEntries \subseteq CacheKeys
      /\ Hashes \intersect RoleEntries = {} /\ Hashes \intersect SettingEntries = {}
  BY ApiKeysConstants, RolesConstants, SettingsConstants, CachedDataConstants
<1>2. RoleEntries \intersect SettingEntries = {}
  BY DEF RoleEntries, SettingEntries, RoleEntry, AllRoles, VersionEntry, AllVersions, ConfigEntry
<1>3. CASE KeysStep
  <2>1. StoreInv' /\ \A k \in CacheKeys \ Hashes : store'[k] = store[k]
    BY <1>3, KeysStoreStep DEF KeysStep, CachedInv, KeysInv
  <2>2. KeysInv'
    BY <1>3, KeysShapeStep, KeysRequestStep, KeysSecretsStep, KeysFreshStep DEF KeysStep, CachedInv, KeysInv
  <2>3. RolesInv' /\ SettingsInv'
    BY <1>1, <1>3, <2>1, RolesLeftAlone, SettingsLeftAlone DEF KeysStep, CachedInv
  <2>4. QED
    BY <2>1, <2>2, <2>3 DEF CachedInv
<1>4. CASE RolesStep
  <2>1. StoreInv' /\ \A k \in CacheKeys \ RoleEntries : store'[k] = store[k]
    BY <1>4, RolesStoreStep DEF RolesStep, CachedInv, RolesInv
  <2>2. RolesInv'
    BY <1>4, RolesShapeStep, RolesEditorStep, RolesPermsStep, RolesFreshStep DEF RolesStep, CachedInv, RolesInv
  <2>3. KeysInv' /\ SettingsInv'
    BY <1>1, <1>2, <1>4, <2>1, KeysLeftAlone, SettingsLeftAlone DEF RolesStep, CachedInv
  <2>4. QED
    BY <2>1, <2>2, <2>3 DEF CachedInv
<1>5. CASE SettingsStep
  <2>1. StoreInv' /\ \A k \in CacheKeys \ SettingEntries : store'[k] = store[k]
    BY <1>5, SettingsStoreStep DEF SettingsStep, CachedInv, SettingsInv
  <2>2. SettingsInv'
    BY <1>5, SettingsShapeStep, SettingsAdminStep, SettingsFreshStep DEF SettingsStep, CachedInv, SettingsInv
  <2>3. KeysInv' /\ RolesInv'
    BY <1>1, <1>2, <1>5, <2>1, KeysLeftAlone, RolesLeftAlone DEF SettingsStep, CachedInv
  <2>4. QED
    BY <2>1, <2>2, <2>3 DEF CachedInv
<1>6. CASE UNCHANGED cachedVars
  <2>1. StoreInv'
    BY <1>6 DEF cachedVars, CachedInv, StoreInv
  <2>2. UNCHANGED <<store, keyVars, roleVars, settingVars>>
    BY <1>6 DEF cachedVars
  <2>3. QED
    BY <2>1, <2>2, KeysLeftAlone, RolesLeftAlone, SettingsLeftAlone DEF CachedInv
<1>7. QED
  BY <1>3, <1>4, <1>5, <1>6 DEF CachedNext

(***************************************************************************)
(* The inductive invariant of the three users of the store.                *)
(***************************************************************************)
THEOREM Invariance == CachedSpec => []CachedInv
  BY CachedStart, CachedStep, PTL DEF CachedSpec

\* Rows, entries and requests keep their shape, every field included.
THEOREM TypeCorrect == CachedSpec => []CachedDataTypeOK
<1>1. CachedInv => CachedDataTypeOK
  <2> SUFFICES ASSUME CachedInv PROVE CachedDataTypeOK
    OBVIOUS
  <2>1. KeysTypeOK
    BY DEF CachedInv, KeysInv, KeysShape, ClientStates, KeysTypeOK
  <2>2. RolesTypeOK
    BY DEF CachedInv, RolesInv, RolesShape, ReadStates, EditorStates, RoleRows, RoleTexts, Stages, RolesTypeOK
  <2>3. SettingsTypeOK
    BY DEF CachedInv, SettingsInv, SettingsShape, SettingRows, CheckerStates, AdminStates, SettingsTypeOK
  <2>4. QED
    BY <2>1, <2>2, <2>3 DEF CachedDataTypeOK
<1>2. QED
  BY <1>1, Invariance, PTL

(***************************************************************************)
(* verify_api_key and _evict_cache: whatever keys are created, rotated,    *)
(* edited and deleted while clients present them, a cached row is the row  *)
(* of the table unless its eviction is under way or was missed in one of   *)
(* the three ways that the property names.                                 *)
(***************************************************************************)
THEOREM KeysFresh == CachedSpec => []CachedKeysFresh
<1>1. CachedInv => CachedKeysFresh
  BY DEF CachedInv, KeysInv
<1>2. QED
  BY <1>1, Invariance, PTL

(***************************************************************************)
(* RoleDAO under its decorators: a cached role or list of roles is what    *)
(* the tables say unless an edit is on its way to delete the hash, a       *)
(* reader stored what it had read before an edit, or the deletion was      *)
(* skipped.                                                                *)
(***************************************************************************)
THEOREM RolesFresh == CachedSpec => []RolesCacheFresh
<1>1. CachedInv => RolesCacheFresh
  BY DEF CachedInv, RolesInv
<1>2. QED
  BY <1>1, Invariance, PTL

(***************************************************************************)
(* create_role and update_role, several statements without a transaction:  *)
(* a role has the permissions of one request, unless two edits of it       *)
(* overlapped or one was cut short.                                        *)
(***************************************************************************)
THEOREM RolesWhole == CachedSpec => []PermsOfOneEdit
<1>1. CachedInv => PermsOfOneEdit
  BY DEF CachedInv, RolesInv
<1>2. QED
  BY <1>1, Invariance, PTL

(***************************************************************************)
(* VersionDAO and SystemConfigDAO under their decorators: a cached setting *)
(* is the row of the table, with the exceptions that the property names.   *)
(***************************************************************************)
THEOREM SettingsStayFresh == CachedSpec => []SettingsFresh
<1>1. CachedInv => SettingsFresh
  BY DEF CachedInv, SettingsInv
<1>2. QED
  BY <1>1, Invariance, PTL

(***************************************************************************)
(* get_config seeds the configuration without ever changing it: a change   *)
(* of the row is one of update_config, on its way to the invalidation.     *)
(***************************************************************************)
THEOREM ReadingKeepsConfig == CachedSpec => SeedKeepsConfig
<1> DEFINE Kept == config \notin {NoValue, config'} =>
               \E a \in Administrators : Asked(a, "update_config") /\ admin'[a].at = "invalidate"
<1>1. ASSUME CachedInv, [CachedNext]_cachedVars
      PROVE  [Kept]_settingVars
  <2>1. CASE SettingsNext
    <3>1. CASE config' = config
      BY <3>1
    <3>2. ASSUME NEW q \in Checkers, SeedConfig(q)
          PROVE  Kept
      BY <3>2 DEF SeedConfig
    <3>3. ASSUME NEW a \in Administrators, UpdateConfig(a)
          PROVE  Kept
      <4>1. SettingsShape
        BY <1>1 DEF CachedInv, SettingsInv
      <4>2. admin'[a].at = "invalidate"
        BY <3>3, <4>1, Proceeded DEF UpdateConfig
      <4>3. QED
        BY <3>3, <4>2 DEF UpdateConfig
    <3>4. CASE ~(\/ \E q \in Checkers : SeedConfig(q)
                 \/ \E a \in Administrators : UpdateConfig(a))
      <4>1. config' = config
        BY <2>1, <3>4 DEF SettingsNext, LookUpSetting, FetchSetting, SaveSetting, ConfigExpires,
           UpdateVersionRoute, ViewEditVersion, ViewCreateVersion, ViewDeleteVersions,
           UpdateConfigRoute, ViewEditConfig, Ask, UpdateVersion, CreateVersion, DeleteVersions,
           DeleteEntry, DeleteEntryFails, InvalidateSetting, InvalidateSettingFails
      <4>2. QED
        BY <4>1
    <3>5. QED
      BY <3>2, <3>3, <3>4
  <2>2. CASE UNCHANGED settingVars
    BY <2>2
  <2>3. QED
    BY <1>1, <2>1, <2>2 DEF CachedNext, KeysStep, RolesStep, SettingsStep, cachedVars
<1>2. QED
  BY <1>1, Invariance, PTL DEF CachedSpec, SeedKeepsConfig

=============================================================================
