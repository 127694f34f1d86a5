---------------------------- MODULE MCCachedData ----------------------------
(***************************************************************************)
(* Instances for TLC of the three users of the cache decorators over one   *)
(* Redis store.  They share no key and no table, so that what one of them  *)
(* does is independent of the others: a behaviour is one of a single user, *)
(* chosen at the start (part), instead of an interleaving of all three.    *)
(* One of the requests that change a role may give texts, the Describer.   *)
(***************************************************************************)
EXTENDS CachedData

VARIABLE part

vars == <<cachedVars, part>>

MCCacheKeys == Hashes \union RoleEntries \union SettingEntries
MCLower(s) == IF s = "IOS" THEN "ios" ELSE s

Describer == CHOOSE w \in Editors : TRUE

Init ==
    /\ CachedInit
    /\ part \in {"keys", "roles", "settings"}
    /\ part # "roles" => \A r \in RoleIds : perms[r] = {1}
    /\ part # "settings" => config = NoValue /\ \A p \in Platforms : apps[p] = NoValue

Next ==
    \/ part = "keys" /\ KeysStep /\ UNCHANGED part
    \/ part = "roles" /\ RolesStep /\ UNCHANGED part
       /\ \A w \in Editors : editor'[w].text # NoValue => w = Describer
    \/ part = "settings" /\ SettingsStep /\ UNCHANGED part

Spec == Init /\ [][Next]_vars /\ KeysFairness

=============================================================================
