SPECIFICATION Spec
CONSTANTS
    NoValue = NoValue
    RedisFaults = FALSE
    CacheKeys <- MCCacheKeys
    RoleIds = {role1}
    Perms = {1, 2}
    Wishes = {{1}, {2}}
    Texts = {}
    FormPage = {1, 2}
    Users = {u1}
    Editors = {e1}
    RoleReaders = {}
    EditsFail = TRUE
    MaxVersion = 3
    MaxTokens = 3
    Agents = {ag1}
    Callers = {1, 2, 3}
    MaxSecrets = 1
    MaxBatches = 2
    BackupCodes = {b1, b2}
    MaxChallenges = 2
    MaxSlice = 3
    FactorRequests = {1, 2, 3}
    MaxUsers = 3
    MaxStates = 2
    Callbacks = {k1, k2}
CHECK_DEADLOCK FALSE
INVARIANT AccountsTypeOK
INVARIANT NoLostScopes
INVARIANT PasswordEndsTokens
INVARIANT LiveTokensListed
INVARIANT BackupCodesUsedOnce
INVARIANT OneLoginPerSlice
INVARIANT ShownCodesInForce
INVARIANT LinkedWithTheRightUser
