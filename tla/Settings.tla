------------------------------ MODULE Settings ------------------------------
(***************************************************************************)
(* The cached settings: app_versions (VersionDAO) and the singleton row of *)
(* system_configurations (SystemConfigDAO), with their services, routes    *)
(* and admin views.  A row's value is abstract; a platform is read and     *)
(* changed under any spelling, of which the lower-case one is in the       *)
(* table, while the key of the entry keeps the caller's.                   *)
(***************************************************************************)
EXTENDS Cache, FiniteSets

CONSTANTS
    Spellings,       \* spellings of platform names
    Lower(_),        \* str.lower on them
    Values,          \* contents of a row
    Default,         \* the row that get_config seeds
    Checkers,        \* requests that read a setting
    Administrators   \* requests that change a setting

Platforms == {Lower(s) : s \in Spellings}
VersionEntry(s) == <<"version", s>>
AllVersions == <<"versions", "all">>
ConfigEntry == <<"config", "singleton">>
SettingEntries == {VersionEntry(s) : s \in Spellings} \union {AllVersions, ConfigEntry}

ASSUME SettingsConstants ==
    /\ SettingEntries \subseteq CacheKeys
    /\ \A s \in Spellings : Lower(s) \in Spellings /\ Lower(Lower(s)) = Lower(s)
    /\ Default \in Values

VARIABLES
    apps,      \* app_versions: platform -> value or NoValue
    config,    \* system_configurations: the row, NoValue before it is seeded
    checker,   \* the state of each reading request
    admin,     \* the state of each changing request
    outdated   \* history: entries that no change will delete any more

settingVars == <<apps, config, checker, admin, outdated>>

IdleChecker == [at |-> "new", entry |-> NoValue, val |-> NoValue]
IdleAdmin == [at |-> "new", op |-> NoValue, spelling |-> NoValue]

SettingsTypeOK ==
    /\ apps \in [Platforms -> Values \union {NoValue}]
    /\ config \in Values \union {NoValue}
    /\ \A q \in Checkers : checker[q].at \in {"new", "fetch", "seed", "save", "done"}
    /\ \A a \in Administrators : admin[a].at \in {"new", "write", "delete", "invalidate", "done"}
    /\ outdated \subseteq SettingEntries

-----------------------------------------------------------------------------
\* get_version_info, below its cache decorator.
VersionInfo(s) == apps[Lower(s)]

\* get_all_versions, below its cache decorator.
VersionList == apps

\* What an entry should hold.
SettingValue(e) ==
    CASE e = ConfigEntry -> config
      [] e = AllVersions -> VersionList
      [] OTHER -> VersionInfo(CHOOSE s \in Spellings : VersionEntry(s) = e)

SettingsInit ==
    /\ apps \in [Platforms -> {NoValue, Default}]
    /\ config \in {NoValue, Default}
    /\ checker = [q \in Checkers |-> IdleChecker]
    /\ admin = [a \in Administrators |-> IdleAdmin]
    /\ outdated = {}

-----------------------------------------------------------------------------
(***************************************************************************)
(* Reads: check_force_update and the routes' list for versions, get_config *)
(* for the configuration.                                                  *)
(***************************************************************************)
LookUpSetting(q, e) ==
    /\ checker[q].at = "new"
    /\ \E v \in GetFromCache(e) :
          checker' = [checker EXCEPT ![q] =
             IF v # NoValue THEN [IdleChecker EXCEPT !.at = "done"]
             ELSE [at |-> "fetch", entry |-> e, val |-> NoValue]]
    /\ UNCHANGED <<apps, config, admin, outdated, store>>

\* The SELECT; get_config goes on to seed a missing row.
FetchSetting(q) ==
    LET e == checker[q].entry IN
    /\ checker[q].at = "fetch"
    /\ checker' = [checker EXCEPT
          ![q].at = IF e = ConfigEntry /\ config = NoValue THEN "seed" ELSE "save",
          ![q].val = SettingValue(e)]
    /\ UNCHANGED <<apps, config, admin, outdated, store>>

\* Mutant: the seed overwrites a row that has appeared meanwhile.
SeedOver(q) ==
    /\ checker[q].at = "seed"
    /\ config' = Default
    /\ checker' = [checker EXCEPT ![q].at = "save", ![q].val = config']
    /\ UNCHANGED <<apps, admin, outdated, store>>

\* get_config: INSERT ON CONFLICT DO UPDATE SET id = 1 RETURNING the row.
SeedConfig(q) ==
    /\ checker[q].at = "seed"
    /\ config' = IF config = NoValue THEN Default ELSE config
    /\ checker' = [checker EXCEPT ![q].at = "save", ![q].val = config']
    /\ UNCHANGED <<apps, admin, outdated, store>>

SaveSetting(q) ==
    LET e == checker[q].entry  v == checker[q].val IN
    /\ checker[q].at = "save"
    /\ store' \in SaveToCache(e, v)
    /\ checker' = [checker EXCEPT ![q] = [IdleChecker EXCEPT !.at = "done"]]
    /\ outdated' = IF v \in {NoValue, SettingValue(e)} THEN outdated ELSE outdated \union {e}
    /\ UNCHANGED <<apps, config, admin>>

\* The configuration's entry runs out after a day; versions never do.
ConfigExpires ==
    /\ Expire(ConfigEntry)
    /\ outdated' = outdated \ {ConfigEntry}
    /\ UNCHANGED <<apps, config, checker, admin>>

-----------------------------------------------------------------------------
(***************************************************************************)
(* Changes.                                                                *)
(***************************************************************************)
Ask(a, op, s) ==
    /\ admin[a].at = "new"
    /\ admin' = [admin EXCEPT ![a] = [at |-> "write", op |-> op, spelling |-> s]]
    /\ UNCHANGED <<apps, config, checker, outdated, store>>

\* The route's update_version_config: any spelling.
UpdateVersionRoute(a, s) == Ask(a, "update_version", s)

\* edit of the versions' view lower-cases first.
ViewEditVersion(a, s) == Ask(a, "update_version", Lower(s))

\* create of the versions' view; create_version lower-cases.
ViewCreateVersion(a, s) == Ask(a, "create_version", Lower(s))

\* delete of the versions' view.
ViewDeleteVersions(a, s) == Ask(a, "delete_versions", Lower(s))

\* The route's update_system_config.  SystemConfigService publishes an event
\* at the end, on the bus of EventBus.
UpdateConfigRoute(a) == Ask(a, "update_config", NoValue)

\* edit of the configuration's view calls the DAO.
ViewEditConfig(a) == Ask(a, "update_config", NoValue)

Asked(a, op) == admin[a].at = "write" /\ admin[a].op = op
Proceed(a, stage) ==
    admin' = [admin EXCEPT ![a] = IF stage = "done" THEN [IdleAdmin EXCEPT !.at = "done"]
                                  ELSE [@ EXCEPT !.at = stage]]

\* The entries of the platform under the spellings the caller did not use.
OtherSpellings(s) == {VersionEntry(t) : t \in {t \in Spellings : Lower(t) = Lower(s) /\ t # s}}

\* update_version_info: the row in lower case; the entry in the caller's case.
UpdateVersion(a) ==
    LET s == admin[a].spelling IN
    /\ Asked(a, "update_version")
    /\ IF VersionInfo(s) = NoValue THEN UNCHANGED <<apps, outdated>>
       ELSE /\ \E v \in Values : apps' = [apps EXCEPT ![Lower(s)] = v]
            /\ outdated' = outdated \union OtherSpellings(s)
    /\ Proceed(a, "invalidate")
    /\ UNCHANGED <<config, checker, store>>

\* create_version: an existing platform is an error, which skips the rest.
CreateVersion(a) ==
    LET s == admin[a].spelling IN
    /\ Asked(a, "create_version")
    /\ IF VersionInfo(s) # NoValue THEN Proceed(a, "done") /\ UNCHANGED <<apps, outdated>>
       ELSE /\ \E v \in Values : apps' = [apps EXCEPT ![Lower(s)] = v]
            /\ outdated' = outdated \union OtherSpellings(s)
            /\ Proceed(a, "delete")
    /\ UNCHANGED <<config, checker, store>>

\* delete_versions.
DeleteVersions(a) ==
    LET s == admin[a].spelling IN
    /\ Asked(a, "delete_versions")
    /\ apps' = [apps EXCEPT ![Lower(s)] = NoValue]
    /\ outdated' = IF VersionInfo(s) = NoValue THEN outdated ELSE outdated \union OtherSpellings(s)
    /\ Proceed(a, IF VersionInfo(s) = NoValue THEN "invalidate" ELSE "delete")
    /\ UNCHANGED <<config, checker, store>>

\* The DELETE that create_version and delete_versions make themselves.
DeleteEntry(a) ==
    /\ admin[a].at = "delete"
    /\ Invalidate({VersionEntry(admin[a].spelling)})
    /\ Proceed(a, "invalidate")
    /\ UNCHANGED <<apps, config, checker, outdated>>

\* It is not guarded: the exception skips cache_invalidate too.
DeleteEntryFails(a) ==
    /\ admin[a].at = "delete"
    /\ InvalidateFails({VersionEntry(admin[a].spelling)})
    /\ outdated' = outdated \union {VersionEntry(admin[a].spelling), AllVersions}
    /\ Proceed(a, "done")
    /\ UNCHANGED <<apps, config, checker>>

\* update_config: no row, no change.
UpdateConfig(a) ==
    /\ Asked(a, "update_config")
    /\ IF config = NoValue THEN config' = config ELSE config' \in Values
    /\ Proceed(a, "invalidate")
    /\ UNCHANGED <<apps, checker, outdated, store>>

\* The keys of cache_invalidate on the four DAO methods.
Patterns(a) ==
    CASE admin[a].op = "update_config" -> {ConfigEntry}
      [] admin[a].op = "update_version" -> {VersionEntry(admin[a].spelling), AllVersions}
      [] OTHER -> {AllVersions}

\* Mutant: the list of all versions is forgotten.
PatternsOfOne(a) ==
    CASE admin[a].op = "update_config" -> {ConfigEntry}
      [] admin[a].op = "update_version" -> {VersionEntry(admin[a].spelling)}
      [] OTHER -> {AllVersions}

InvalidateOne(a) ==
    /\ admin[a].at = "invalidate"
    /\ Invalidate(PatternsOfOne(a))
    /\ outdated' = outdated \ PatternsOfOne(a)
    /\ Proceed(a, "done")
    /\ UNCHANGED <<apps, config, checker>>

InvalidateSetting(a) ==
    /\ admin[a].at = "invalidate"
    /\ Invalidate(Patterns(a))
    /\ outdated' = outdated \ Patterns(a)
    /\ Proceed(a, "done")
    /\ UNCHANGED <<apps, config, checker>>

\* The error is logged and the request succeeds; or the process dies.
InvalidateSettingFails(a) ==
    /\ admin[a].at = "invalidate"
    /\ InvalidateFails(Patterns(a))
    /\ outdated' = outdated \union Patterns(a)
    /\ Proceed(a, "done")
    /\ UNCHANGED <<apps, config, checker>>

SettingsNext ==
    \/ \E q \in Checkers : \/ \E e \in SettingEntries : LookUpSetting(q, e)
                           \/ FetchSetting(q) \/ SeedConfig(q) \/ SaveSetting(q)
    \/ ConfigExpires
    \/ \E a \in Administrators :
          \/ \E s \in Spellings : \/ UpdateVersionRoute(a, s) \/ ViewEditVersion(a, s)
                                  \/ ViewCreateVersion(a, s) \/ ViewDeleteVersions(a, s)
          \/ UpdateConfigRoute(a) \/ ViewEditConfig(a)
          \/ UpdateVersion(a) \/ CreateVersion(a) \/ DeleteVersions(a) \/ UpdateConfig(a)
          \/ DeleteEntry(a) \/ DeleteEntryFails(a)
          \/ InvalidateSetting(a) \/ InvalidateSettingFails(a)

-----------------------------------------------------------------------------
(***************************************************************************)
(* Properties.                                                             *)
(***************************************************************************)
\* The entries a change under way is still going to delete.
Pending(a) ==
    CASE admin[a].at = "delete" -> {VersionEntry(admin[a].spelling), AllVersions}
      [] admin[a].at = "invalidate" -> Patterns(a)
      [] OTHER -> {}

\* A cached version, list of versions or configuration is the row in the
\* table, unless a change is still going to delete the entry, a reader
\* stored an old row after the deletion, the deletion failed, or the
\* platform was changed under another spelling than the entry's: update,
\* create and delete each delete one spelling's entry only.
SettingsFresh ==
    \A e \in SettingEntries :
        store[e] \notin {NoValue, SettingValue(e)} =>
            e \in outdated \union UNION {Pending(a) : a \in Administrators}

\* Reading the configuration never changes it: get_config's seed yields to
\* a row that another request seeded and an administrator changed meanwhile.
SeedKeepsConfig ==
    [][config \notin {NoValue, config'} =>
          \E a \in Administrators : Asked(a, "update_config") /\ admin'[a].at = "invalidate"
      ]_settingVars

=============================================================================
