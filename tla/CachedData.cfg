SPECIFICATION Spec
CONSTANTS
    NoValue = NoValue
    RedisFaults = TRUE
    CacheKeys <- MCCacheKeys
    KeyIds = {i1}
    Hashes = {h1, h2}
    Clients = {c1}
    Operators = {o1, o2}
    RoleIds = {role1}
    Perms = {1, 2}
    Wishes = {{1}, {2}}
    Texts = {t1}
    FormPage = {1}
    Users = {}
    Editors = {e1, e2}
    RoleReaders = {q1}
    EditsFail = TRUE
    MaxVersion = 1
    Spellings = {"ios", "IOS"}
    Lower <- MCLower
    Values = {1, 2}
    Default = 1
    Checkers = {k1, k2}
    Administrators = {a1}
CHECK_DEADLOCK FALSE
INVARIANT CachedDataTypeOK
INVARIANT CachedKeysFresh
INVARIANT RolesCacheFresh
INVARIANT PermsOfOneEdit
INVARIANT SettingsFresh
PROPERTY StaleKeysRunOut
PROPERTY SeedKeepsConfig
