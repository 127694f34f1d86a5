------------------------------ MODULE Sessions ------------------------------
(***************************************************************************)
(* Tokens and sessions: AuthService, UserService, the dependencies that    *)
(* check a token, UserDAO, and the roles whose permissions become a        *)
(* token's scopes (Roles).  A token is named by its jti.  Requests suspend *)
(* where the code awaits; a request that is refused changes nothing and is *)
(* left out, but for the ones that fail after their first write.           *)
(*                                                                         *)
(* A login with a second factor is two requests and one caller here: it    *)
(* waits between them with a challenge.  What the second request checks is *)
(* the subject of TwoFactor.  Users are among the ones an administrator    *)
(* may impersonate; administrators are not.                                *)
(***************************************************************************)
EXTENDS Roles, Sequences

CONSTANTS
    MaxTokens,   \* bound on the number of tokens issued
    Agents,      \* user agents
    Callers      \* requests

Jtis == 1..MaxTokens

\* None is not a jti.
ASSUME SessionsConstants == MaxTokens \in Nat /\ NoValue \notin Jtis

VARIABLES
    users,       \* the users with a row
    password,    \* how often the user's password was changed
    token,       \* the payload of every token issued, a sequence by jti
    life,        \* what is left of it: long, last (half a second), over
    blacklist,   \* blacklist:access:<jti>
    sessions,    \* user_sessions: (user, agent) -> jti or NoValue
    caller,      \* the state of every request
    revoked,     \* history: jtis whose revocation was confirmed
    unlisted     \* history: jtis replaced in or lost from user_sessions

authVars == <<users, password, token, life, blacklist, sessions, caller, revoked, unlisted>>
sessionVars == <<authVars, roleVars, store>>

Idle == [at |-> "new"]
Issued == DOMAIN token

\* A payload without token_version.
DefaultVersion == 1

\* _get_user_scopes.
ScopesOf(u) == UNION {perms[r] : r \in {r \in RoleIds : <<u, r>> \in holders}}

\* History of the tokens: the login they stem from, through any refreshes.
\* epoch is the password of the row it read, typed the one its user gave
\* (another one is possible with a second factor).
FreshLogin(u) == [epoch |-> password[u], typed |-> password[u], second |-> FALSE]

\* _get_user_with_roles: one SELECT reads the row and the permissions.
UserWithRoles(u) ==
    [user |-> u, scopes |-> ScopesOf(u), version |-> version[u], login |-> FreshLogin(u)]

-----------------------------------------------------------------------------
(***************************************************************************)
(* Tokens.                                                                 *)
(***************************************************************************)
\* _create_token: the payload of a user as read.  An access token of a login
\* or refresh stands for the refresh token issued with it too: the same
\* payload under a jti of its own, with an exp beyond the run.  A sudo token
\* carries no token_version.
CreateToken(row, type, imp) ==
    [user |-> row.user, type |-> type, imp |-> imp,
     scopes |-> IF type = "access" THEN row.scopes ELSE {},
     version |-> IF type = "sudo" THEN DefaultVersion ELSE row.version,
     login |-> row.login]

Issue(new) == /\ Len(token) < MaxTokens
              /\ token' = Append(token, new)
              /\ life' = Append(life, "long")

\* verify_token: a token of the type, not past its exp, not blacklisted.  No
\* refresh or sudo token is: the revocations set blacklist:refresh:<jti> with
\* the jti of the access token.
VerifyToken(j, type) ==
    CASE type = "refresh" -> token[j].type = "access" /\ ~token[j].imp
      [] type = "sudo" -> token[j].type = "sudo" /\ life[j] # "over"
      [] type = "access" -> token[j].type = "access" /\ life[j] # "over" /\ j \notin blacklist

\* get_current_user: the token_version of the row is that of the token.
GetCurrentUser(j) ==
    /\ VerifyToken(j, "access")
    /\ token[j].user \in users
    /\ version[token[j].user] = token[j].version

\* get_sudo_user.
GetSudoUser(j) ==
    /\ VerifyToken(j, "sudo")
    /\ token[j].user \in users
    /\ version[token[j].user] = token[j].version
    /\ ~token[j].imp

\* disallow_impersonation.
NotImpersonated(j) == VerifyToken(j, "access") /\ ~token[j].imp

-----------------------------------------------------------------------------
AuthInit ==
    /\ users = Users
    /\ password = [u \in Users |-> 0]
    /\ token = <<>>
    /\ life = <<>>
    /\ blacklist = {}
    /\ sessions = [ua \in Users \X Agents |-> NoValue]
    /\ caller = [c \in Callers |-> Idle]
    /\ revoked = {}
    /\ unlisted = {}

Then(c, state) == caller' = [caller EXCEPT ![c] = state]
Over(c) == Then(c, [at |-> "done"])

\* authenticate_user, and authenticate_oauth_user: the user is read and the
\* password compared; with a second factor the answer is a challenge.
Login(c, u) ==
    /\ caller[c].at = "new" /\ u \in users
    /\ \/ Then(c, [at |-> "issue", row |-> UserWithRoles(u)])
       \/ Then(c, [at |-> "challenge", user |-> u, typed |-> password[u]])
    /\ UNCHANGED <<users, password, token, life, blacklist, sessions, revoked, unlisted, roleVars, store>>

\* verify_two_factor_challenge, with the right code: the user is read again.
ChallengeAnswered(c) ==
    LET u == caller[c].user IN
    /\ caller[c].at = "challenge"
    /\ IF u \in users
       THEN Then(c, [at |-> "issue",
                     row |-> [UserWithRoles(u) EXCEPT !.login =
                                 [FreshLogin(u) EXCEPT !.typed = caller[c].typed, !.second = TRUE]]])
       ELSE Over(c)
    /\ UNCHANGED <<users, password, token, life, blacklist, sessions, revoked, unlisted, roleVars, store>>

\* Or the challenge runs out.
ChallengeEnds(c) ==
    /\ caller[c].at = "challenge"
    /\ Over(c)
    /\ UNCHANGED <<users, password, token, life, blacklist, sessions, revoked, unlisted, roleVars, store>>

\* upsert_user_session: the row of the same user and agent is overwritten.
UpsertSession(u, a, j) ==
    /\ sessions' = [sessions EXCEPT ![<<u, a>>] = j]
    /\ unlisted' = unlisted \union ({sessions[<<u, a>>]} \ {NoValue})

\* issue_tokens_and_session, and the end of refresh_token: an access and a
\* refresh token.  The INSERT fails when the user is gone.
IssueTokens(c, a) ==
    LET row == caller[c].row IN
    /\ caller[c].at = "issue"
    /\ IF row.user \in users
       THEN /\ Issue(CreateToken(row, "access", FALSE))
            /\ UpsertSession(row.user, a, Len(token) + 1)
       ELSE UNCHANGED <<token, life, sessions, unlisted>>
    /\ Over(c)
    /\ UNCHANGED <<users, password, blacklist, revoked, roleVars, store>>

\* refresh_token: the token is verified,
RefreshVerify(c, j) ==
    /\ caller[c].at = "new"
    /\ VerifyToken(j, "refresh")
    /\ Then(c, [at |-> "refresh", jti |-> j])
    /\ UNCHANGED <<users, password, token, life, blacklist, sessions, revoked, unlisted, roleVars, store>>

\* The tokens of a refresh stem from the login of the refresh token.
RefreshedRow(c) ==
    LET t == token[caller[c].jti] IN
    [UserWithRoles(t.user) EXCEPT !.login = t.login]

\* Mutant: the version of the refresh token is not compared.
RefreshReadAny(c) ==
    LET t == token[caller[c].jti] IN
    /\ caller[c].at = "refresh"
    /\ IF t.user \in users
       THEN Then(c, [at |-> "issue", row |-> RefreshedRow(c)])
       ELSE Over(c)
    /\ UNCHANGED <<users, password, token, life, blacklist, sessions, revoked, unlisted, roleVars, store>>

\* then the user is read and the versions are compared.
RefreshRead(c) ==
    LET t == token[caller[c].jti] IN
    /\ caller[c].at = "refresh"
    /\ IF t.user \in users /\ version[t.user] = t.version
       THEN Then(c, [at |-> "issue", row |-> RefreshedRow(c)])
       ELSE Over(c)
    /\ UNCHANGED <<users, password, token, life, blacklist, sessions, revoked, unlisted, roleVars, store>>

\* check_mfa_enforcement ends the refresh (428).
MfaEnforced(c) ==
    /\ caller[c].at = "refresh"
    /\ Over(c)
    /\ UNCHANGED <<users, password, token, life, blacklist, sessions, revoked, unlisted, roleVars, store>>

\* create_sudo_token_user: name and password are compared.
CreateSudoToken(u) ==
    /\ u \in users
    /\ Issue(CreateToken(UserWithRoles(u), "sudo", FALSE))
    /\ UNCHANGED <<users, password, blacklist, sessions, caller, revoked, unlisted, roleVars, store>>

\* google_sudo_token and create_sudo_token_oauth: any access token in the
\* body, unless verify_token refuses it, is turned into a sudo token; the
\* one in the header is of no impersonation.
CreateSudoTokenOauth(j, k) ==
    /\ NotImpersonated(k)
    /\ VerifyToken(j, "access")
    /\ Issue(CreateToken(token[j], "sudo", FALSE))
    /\ UNCHANGED <<users, password, blacklist, sessions, caller, revoked, unlisted, roleVars, store>>

\* impersonate_user: the target is read,
Impersonate(c, u) ==
    /\ caller[c].at = "new" /\ u \in users
    /\ Then(c, [at |-> "impersonate", row |-> UserWithRoles(u)])
    /\ UNCHANGED <<users, password, token, life, blacklist, sessions, revoked, unlisted, roleVars, store>>

\* then the token is made and the session's key set; no refresh token.
IssueImpersonation(c) ==
    /\ caller[c].at = "impersonate"
    /\ Issue(CreateToken(caller[c].row, "access", TRUE))
    /\ Over(c)
    /\ UNCHANGED <<users, password, blacklist, sessions, revoked, unlisted, roleVars, store>>

\* stop_impersonation of the routes: the token is verified,
StopCheck(c, j) ==
    /\ caller[c].at = "new"
    /\ VerifyToken(j, "access") /\ token[j].imp
    /\ Then(c, [at |-> "stop", jti |-> j])
    /\ UNCHANGED <<users, password, token, life, blacklist, sessions, revoked, unlisted, roleVars, store>>

\* and of the service: its entry is set, for longer than it lives.
StopImpersonation(c) ==
    /\ caller[c].at = "stop"
    /\ blacklist' = blacklist \union {caller[c].jti}
    /\ revoked' = revoked \union {caller[c].jti}
    /\ Over(c)
    /\ UNCHANGED <<users, password, token, life, sessions, unlisted, roleVars, store>>

-----------------------------------------------------------------------------
(***************************************************************************)
(* Revocation.                                                             *)
(***************************************************************************)
RowsOf(J) == {ua \in DOMAIN sessions : sessions[ua] \in J}
WithoutRows(J) == [ua \in DOMAIN sessions |-> IF ua \in RowsOf(J) THEN NoValue ELSE sessions[ua]]

\* The dependencies of the two routes: a token of the user's own.
RevokeCheck(c, k) ==
    /\ caller[c].at = "new"
    /\ GetCurrentUser(k) /\ NotImpersonated(k)
    /\ Then(c, [at |-> "revoke", user |-> token[k].user])
    /\ UNCHANGED <<users, password, token, life, blacklist, sessions, revoked, unlisted, roleVars, store>>

\* revoke_user_session of the DAO: DELETE RETURNING the seconds left, rounded.
\* Zero is taken for "not found" (404); less than zero is refused by Redis.
RevokeSession(c, j) ==
    /\ caller[c].at = "revoke"
    /\ token[j].user = caller[c].user /\ RowsOf({j}) # {}
    /\ sessions' = WithoutRows({j})
    /\ \/ life[j] # "over" /\ Then(c, [at |-> "blacklist", jtis |-> {j}]) /\ UNCHANGED unlisted
       \/ life[j] # "long" /\ Over(c) /\ unlisted' = unlisted \union {j}
    /\ UNCHANGED <<users, password, token, life, blacklist, revoked, roleVars, store>>

\* The session is not, or no longer, one of the user's (404).
NotFound(c) ==
    /\ caller[c].at = "revoke"
    /\ Over(c)
    /\ UNCHANGED <<users, password, token, life, blacklist, sessions, revoked, unlisted, roleVars, store>>

JtisOf(u) == {sessions[ua] : ua \in {ua \in DOMAIN sessions : ua[1] = u}} \ {NoValue}

\* revoke_all_user_sessions: those with no whole second left are skipped.
RevokeAllSessions(c) ==
    LET J == JtisOf(caller[c].user)
        live == {j \in J : life[j] # "over"}
    IN /\ caller[c].at = "revoke"
       /\ sessions' = WithoutRows(J)
       /\ \E late \in SUBSET {j \in live : life[j] = "last"} :
             /\ Then(c, [at |-> "blacklist", jtis |-> live \ late])
             /\ unlisted' = unlisted \union late
       /\ UNCHANGED <<users, password, token, life, blacklist, revoked, roleVars, store>>

\* Mutant: the two SETs name the refresh token's key only.
BlacklistRefresh(c) ==
    /\ caller[c].at = "blacklist"
    /\ revoked' = revoked \union caller[c].jtis
    /\ Over(c)
    /\ UNCHANGED <<users, password, token, life, blacklist, sessions, unlisted, roleVars, store>>

\* The SETs with the seconds left as expiry.
Blacklist(c) ==
    /\ caller[c].at = "blacklist"
    /\ blacklist' = blacklist \union caller[c].jtis
    /\ revoked' = revoked \union caller[c].jtis
    /\ Over(c)
    /\ UNCHANGED <<users, password, token, life, sessions, unlisted, roleVars, store>>

\* Redis fails or the process dies: the rows are gone, the tokens live.
BlacklistFails(c) ==
    /\ caller[c].at = "blacklist"
    /\ unlisted' = unlisted \union caller[c].jtis
    /\ Over(c)
    /\ UNCHANGED <<users, password, token, life, blacklist, sessions, revoked, roleVars, store>>

\* Time: a token ages; the entry of a revoked one runs out with it, up to
\* half a second early for the rounded ones.
Ages(j) ==
    /\ life[j] # "over"
    /\ life' = [life EXCEPT ![j] = IF @ = "long" THEN "last" ELSE "over"]
    /\ UNCHANGED <<users, password, token, blacklist, sessions, caller, revoked, unlisted, roleVars, store>>

BlacklistLapses(j) ==
    /\ j \in blacklist
    /\ life[j] = "over" \/ (life[j] = "last" /\ ~token[j].imp)
    /\ blacklist' = blacklist \ {j}
    /\ UNCHANGED <<users, password, token, life, sessions, caller, revoked, unlisted, roleVars, store>>

-----------------------------------------------------------------------------
(***************************************************************************)
(* Changes of users.                                                       *)
(***************************************************************************)
\* update_password of the routes: the sudo token is verified,
PasswordCheck(c, k) ==
    /\ caller[c].at = "new"
    /\ GetSudoUser(k)
    /\ Then(c, [at |-> "password", user |-> token[k].user])
    /\ UNCHANGED <<users, password, token, life, blacklist, sessions, revoked, unlisted, roleVars, store>>

\* and of service and DAO: hash and version in one UPDATE of the row, if any.
UpdatePassword(c) ==
    LET u == caller[c].user IN
    /\ caller[c].at = "password"
    /\ version[u] < MaxVersion
    /\ IF u \in users
       THEN /\ password' = [password EXCEPT ![u] = @ + 1]
            /\ version' = Bumped({u})
            /\ unbumped' = unbumped \ {u}
       ELSE UNCHANGED <<password, version, unbumped>>
    /\ Over(c)
    /\ UNCHANGED <<users, token, life, blacklist, sessions, revoked, unlisted,
                   perms, about, holders, rread, editor, wanted, torn, unsure, store>>

\* assign_roles of route, service and DAO: two statements at once.
AssignRoles(c, u, r) ==
    /\ caller[c].at = "new" /\ u \in users
    /\ Then(c, [at |-> "assign", user |-> u, role |-> r, todo |-> {"insert", "bump"}])
    /\ UNCHANGED <<users, password, token, life, blacklist, sessions, revoked, unlisted, roleVars, store>>

Did(c, what) ==
    Then(c, IF caller[c].todo = {what} THEN [at |-> "done"] ELSE [caller[c] EXCEPT !.todo = @ \ {what}])

\* INSERT ON CONFLICT DO NOTHING; it fails without the user or the role.
InsertUserRole(c) ==
    LET u == caller[c].user  r == caller[c].role IN
    /\ caller[c].at = "assign" /\ "insert" \in caller[c].todo
    /\ holders' = IF u \in users /\ perms[r] # NoValue THEN holders \union {<<u, r>>} ELSE holders
    /\ Did(c, "insert")
    /\ UNCHANGED <<users, password, token, life, blacklist, sessions, revoked, unlisted,
                   perms, about, version, rread, editor, wanted, torn, unsure, unbumped, store>>

BumpUser(c) ==
    LET u == caller[c].user IN
    /\ caller[c].at = "assign" /\ "bump" \in caller[c].todo
    /\ version[u] < MaxVersion
    /\ version' = Bumped({u})
    /\ unbumped' = unbumped \ {u}
    /\ Did(c, "bump")
    /\ UNCHANGED <<users, password, token, life, blacklist, sessions, revoked, unlisted,
                   perms, about, holders, rread, editor, wanted, torn, unsure, store>>

\* delete_users, for the admin view: sessions and roles cascade.
DeleteUser(u) ==
    /\ u \in users
    /\ users' = users \ {u}
    /\ sessions' = [ua \in DOMAIN sessions |-> IF ua[1] = u THEN NoValue ELSE sessions[ua]]
    /\ holders' = {ur \in holders : ur[1] # u}
    /\ UNCHANGED <<password, token, life, blacklist, caller, revoked, unlisted,
                   perms, about, version, rread, editor, wanted, torn, unsure, unbumped, store>>

AuthNext ==
    \/ \E c \in Callers :
          \/ \E u \in Users : \/ Login(c, u) \/ Impersonate(c, u)
                              \/ \E r \in RoleIds : AssignRoles(c, u, r)
          \/ ChallengeAnswered(c) \/ ChallengeEnds(c) \/ \E a \in Agents : IssueTokens(c, a)
          \/ \E j \in Issued : \/ RefreshVerify(c, j) \/ StopCheck(c, j) \/ PasswordCheck(c, j)
                               \/ RevokeCheck(c, j) \/ RevokeSession(c, j)
          \/ RefreshRead(c) \/ MfaEnforced(c) \/ IssueImpersonation(c) \/ StopImpersonation(c)
          \/ RevokeAllSessions(c) \/ NotFound(c) \/ Blacklist(c) \/ BlacklistFails(c)
          \/ UpdatePassword(c) \/ InsertUserRole(c) \/ BumpUser(c)
    \/ \E u \in Users : CreateSudoToken(u) \/ DeleteUser(u)
    \/ \E j, k \in Issued : CreateSudoTokenOauth(j, k)
    \/ \E j \in Issued : Ages(j) \/ BlacklistLapses(j)
    \/ RolesNext /\ UNCHANGED authVars

-----------------------------------------------------------------------------
(***************************************************************************)
(* Properties.                                                             *)
(***************************************************************************)
AuthTypeOK ==
    /\ users \subseteq Users /\ password \in [Users -> Nat]
    /\ Len(token) \in 0..MaxTokens /\ Len(life) = Len(token)
    /\ \A j \in Issued : /\ token[j].user \in Users
                         /\ token[j].type \in {"access", "sudo"}
                         /\ token[j].scopes \subseteq Perms
                         /\ token[j].imp => token[j].type = "access"
                         /\ life[j] \in {"long", "last", "over"}
    /\ blacklist \subseteq Issued /\ revoked \subseteq Issued /\ unlisted \subseteq Issued
    /\ \A ua \in Users \X Agents :
          sessions[ua] # NoValue => /\ ua[1] \in users
                                    /\ token[sessions[ua]].user = ua[1]
                                    /\ token[sessions[ua]].type = "access"
                                    /\ ~token[sessions[ua]].imp

\* A token that get_current_user accepts never carries a scope its user has
\* lost by a finished update_role or delete_role, however the edit was
\* interleaved with logins, refreshes and assignments: update_role raises
\* token_version after it has changed the permissions, and a token has scopes
\* and version from one SELECT.  Not covered: delete_roles, and edits that
\* ended before their UPDATE of users (unbumped).
NoLostScopes ==
    \A j \in Issued :
        GetCurrentUser(j) /\ ~(token[j].scopes \subseteq ScopesOf(token[j].user)) =>
            LET u == token[j].user IN
            \/ u \in unbumped
            \/ \E w \in Editors : /\ <<u, editor[w].role>> \in holders
                                  /\ editor[w].at \in {"fill", "bump"}

\* A password change ends every access, refresh and sudo token of a login
\* that had read the user before the change, those a refresh makes of it
\* later included.  So no token obtained with an earlier password is accepted,
\* with one exception: a login that was waiting for its second factor when
\* the password changed.  verify_two_factor_challenge reads the user again,
\* with the new token_version, and no change voids the challenge.
PasswordEndsTokens ==
    \A j \in Issued :
        LET t == token[j] IN
        t.user \in users /\ version[t.user] = t.version =>
            /\ t.login.epoch = password[t.user]
            /\ t.login.typed = password[t.user] \/ t.login.second

\* Every access token that is accepted can be found in user_sessions, and so
\* revoked, unless a later login or refresh of the same agent took its row
\* over, its revocation is under way or ended between the DELETE and the
\* SETs, or it was revoked and is in its last half second.
LiveTokensListed ==
    \A j \in Issued :
        GetCurrentUser(j) /\ ~token[j].imp =>
            \/ RowsOf({j}) # {}
            \/ j \in unlisted
            \/ j \in revoked /\ life[j] # "long"
            \/ \E c \in Callers : caller[c].at = "blacklist" /\ j \in caller[c].jtis

=============================================================================
