---------------------------- MODULE GoogleLogin ----------------------------
(***************************************************************************)
(* The Google login of one Google account: the state parameter in Redis,   *)
(* and handle_google_oauth, which finds, links or creates the user.  Users *)
(* are named by numbers in the order of their creation; the account's      *)
(* address may be that of a user who registered with a password.           *)
(***************************************************************************)
EXTENDS Naturals

CONSTANTS
    MaxUsers,   \* bound on the rows created
    MaxStates,  \* bound on the logins begun
    Callbacks   \* callbacks in flight

ASSUME GoogleConstants == {MaxUsers, MaxStates} \subseteq Nat

VARIABLES
    verified,   \* email_verified, as Google says
    states,     \* the live oauth_state:google:<state>
    begun,      \* how many logins were begun
    created,    \* how many rows were created
    rows,       \* users: the rows that exist
    owner,      \* users: the row with the account's email, or 0
    named,      \* users: the row with the account's username, or 0
    identity,   \* user_identities: the row linked with the account, or 0
    callback,   \* the state of every callback
    registered  \* history: the rows of users who registered with a password

googleVars == <<verified, states, begun, created, rows, owner, named, identity, callback, registered>>

GoogleInit ==
    /\ verified \in BOOLEAN
    /\ states = {} /\ begun = 0
    /\ created = 0 /\ rows = {} /\ owner = 0 /\ named = 0 /\ identity = 0
    /\ callback = [k \in Callbacks |-> [at |-> "new"]]
    /\ registered = {}

To(k, state) == callback' = [callback EXCEPT ![k] = state]
LoggedIn(k, u) == To(k, [at |-> "in", user |-> u])
Refuse(k) == To(k, [at |-> "refused"])

\* google_login.
GoogleLogin ==
    /\ begun < MaxStates
    /\ begun' = begun + 1
    /\ states' = states \union {begun + 1}
    /\ UNCHANGED <<verified, created, rows, owner, named, identity, callback, registered>>

StateLapses(s) ==
    /\ s \in states
    /\ states' = states \ {s}
    /\ UNCHANGED <<verified, begun, created, rows, owner, named, identity, callback, registered>>

\* google_callback: the state is read,
GoogleCallback(k, s) ==
    /\ callback[k].at = "new" /\ s \in states
    /\ To(k, [at |-> "delete", state |-> s])
    /\ UNCHANGED <<verified, states, begun, created, rows, owner, named, identity, registered>>

\* deleted, and the code exchanged with Google, which may fail.
ExchangeCode(k) ==
    /\ callback[k].at = "delete"
    /\ states' = states \ {callback[k].state}
    /\ To(k, [at |-> "sub"]) \/ Refuse(k)
    /\ UNCHANGED <<verified, begun, created, rows, owner, named, identity, registered>>

-----------------------------------------------------------------------------
\* handle_google_oauth: get_by_google_sub,
BySub(k) ==
    /\ callback[k].at = "sub"
    /\ IF identity # 0 THEN LoggedIn(k, identity) ELSE To(k, [at |-> "email"])
    /\ UNCHANGED <<verified, states, begun, created, rows, owner, named, identity, registered>>

\* Mutant: the address need not be verified.
ByEmailOnly(k) ==
    /\ callback[k].at = "email"
    /\ To(k, IF owner # 0 THEN [at |-> "link", user |-> owner] ELSE [at |-> "name"])
    /\ UNCHANGED <<verified, states, begun, created, rows, owner, named, identity, registered>>

\* get_by_email: an existing user is linked if the address is verified,
ByEmail(k) ==
    /\ callback[k].at = "email"
    /\ To(k, IF owner # 0 /\ verified THEN [at |-> "link", user |-> owner] ELSE [at |-> "name"])
    /\ UNCHANGED <<verified, states, begun, created, rows, owner, named, identity, registered>>

\* by add_identity; the table has one row for the account and one for the
\* user, whose row must exist: else the INSERT fails.
AddIdentity(k) ==
    /\ callback[k].at = "link"
    /\ IF identity = 0 /\ callback[k].user \in rows
       THEN identity' = callback[k].user /\ LoggedIn(k, callback[k].user)
       ELSE UNCHANGED identity /\ Refuse(k)
    /\ UNCHANGED <<verified, states, begun, created, rows, owner, named, registered>>

\* _generate_unique_username: the account's name, or one with a random
\* suffix when it is taken.
UniqueUsername(k) ==
    /\ callback[k].at = "name"
    /\ To(k, [at |-> "create", plain |-> named = 0])
    /\ UNCHANGED <<verified, states, begun, created, rows, owner, named, identity, registered>>

\* create_user_oauth: the first INSERT, refused for a username or an email
\* that is taken;
CreateUserOAuth(k) ==
    /\ callback[k].at = "create"
    /\ IF owner # 0 \/ (callback[k].plain /\ named # 0)
       THEN Refuse(k) /\ UNCHANGED <<created, rows, owner, named>>
       ELSE /\ created < MaxUsers
            /\ created' = created + 1 /\ owner' = created + 1
            /\ rows' = rows \union {created + 1}
            /\ named' = IF callback[k].plain THEN created + 1 ELSE named
            /\ To(k, [at |-> "identity", user |-> created + 1])
    /\ UNCHANGED <<verified, states, begun, identity, registered>>

\* the second one, of the identity.
InsertIdentity(k) ==
    /\ callback[k].at = "identity"
    /\ IF identity = 0 /\ callback[k].user \in rows
       THEN identity' = callback[k].user /\ LoggedIn(k, callback[k].user)
       ELSE UNCHANGED identity /\ Refuse(k)
    /\ UNCHANGED <<verified, states, begun, created, rows, owner, named, registered>>

\* The second one fails or the process ends before it: the user stays, and an
\* account whose address is not verified is refused from now on.
IdentityFails(k) ==
    /\ callback[k].at = "identity"
    /\ Refuse(k)
    /\ UNCHANGED <<verified, states, begun, created, rows, owner, named, identity, registered>>

-----------------------------------------------------------------------------
\* create_user: somebody registers with a password, the address or the name.
Register(sameEmail, sameName) ==
    /\ created < MaxUsers
    /\ sameEmail \/ sameName
    /\ sameEmail => owner = 0
    /\ sameName => named = 0
    /\ created' = created + 1
    /\ rows' = rows \union {created + 1}
    /\ owner' = IF sameEmail THEN created + 1 ELSE owner
    /\ named' = IF sameName THEN created + 1 ELSE named
    /\ registered' = registered \union {created + 1}
    /\ UNCHANGED <<verified, states, begun, identity, callback>>

\* update_user: a user changes to the address, or to another one.
ChangeEmail(u, e) ==
    /\ u \in rows
    /\ IF e THEN owner = 0 /\ owner' = u ELSE owner = u /\ owner' = 0
    /\ UNCHANGED <<verified, states, begun, created, rows, named, identity, callback, registered>>

\* delete_users: the identity goes with the row.
DeleteRow(u) ==
    /\ u \in rows
    /\ rows' = rows \ {u}
    /\ owner' = IF owner = u THEN 0 ELSE owner
    /\ named' = IF named = u THEN 0 ELSE named
    /\ identity' = IF identity = u THEN 0 ELSE identity
    /\ UNCHANGED <<verified, states, begun, created, callback, registered>>

GoogleNext ==
    \/ GoogleLogin
    \/ \E u \in 1..MaxUsers : DeleteRow(u) \/ \E e \in BOOLEAN : ChangeEmail(u, e)
    \/ \E email, name \in BOOLEAN : Register(email, name)
    \/ \E s \in 1..MaxStates : StateLapses(s)
    \/ \E k \in Callbacks :
          \/ \E s \in 1..MaxStates : GoogleCallback(k, s)
          \/ ExchangeCode(k) \/ BySub(k) \/ ByEmail(k) \/ AddIdentity(k)
          \/ UniqueUsername(k) \/ CreateUserOAuth(k) \/ InsertIdentity(k) \/ IdentityFails(k)

-----------------------------------------------------------------------------
(***************************************************************************)
(* Properties.                                                             *)
(***************************************************************************)
GoogleTypeOK ==
    /\ verified \in BOOLEAN /\ states \subseteq 1..begun
    /\ rows \subseteq 1..created /\ registered \subseteq 1..created
    /\ {owner, named, identity} \subseteq rows \union {0}

\* However many callbacks of an account overlap, they log in as one user: the
\* one the account is linked with, unless that user was deleted meanwhile; and
\* an account with an unverified address is never linked with the row of
\* somebody who registered with that address.
LinkedWithTheRightUser ==
    /\ \A k \in Callbacks : callback[k].at = "in" /\ callback[k].user \in rows => identity = callback[k].user
    /\ ~verified => identity \notin registered

=============================================================================
