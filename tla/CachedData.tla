------------------------------ MODULE CachedData ------------------------------
(***************************************************************************)
(* The users of the cache decorators of api/core/cache.py together: API    *)
(* keys, roles and settings over one Redis store, in any interleaving.     *)
(* They share no table, and the patterns of api/shared/redis_keys.py keep  *)
(* their keys apart.                                                       *)
(***************************************************************************)
EXTENDS ApiKeys, Roles, Settings

\* The keys of the users differ in their prefixes, and None is not a value.
ASSUME CachedDataConstants ==
    /\ Hashes \intersect (RoleEntries \union SettingEntries) = {}
    /\ NoValue \notin Hashes
    /\ NoValue \notin KeyRows
    /\ NoValue \notin Values

cachedVars == <<store, keyVars, roleVars, settingVars>>

CachedInit ==
    /\ store = [k \in CacheKeys |-> NoValue]
    /\ KeysInit
    /\ RolesInit
    /\ SettingsInit

KeysStep == KeysNext /\ UNCHANGED <<roleVars, settingVars>>
RolesStep == RolesNext /\ UNCHANGED <<keyVars, settingVars>>
SettingsStep == SettingsNext /\ UNCHANGED <<keyVars, roleVars>>

CachedNext == KeysStep \/ RolesStep \/ SettingsStep

CachedSpec == CachedInit /\ [][CachedNext]_cachedVars

\* The rows, the entries and the requests of every user of the cache have
\* their shape.
CachedDataTypeOK == KeysTypeOK /\ RolesTypeOK /\ SettingsTypeOK

=============================================================================
