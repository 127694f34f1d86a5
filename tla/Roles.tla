-------------------------------- MODULE Roles --------------------------------
(***************************************************************************)
(* Roles: the tables roles, role_permissions and user_roles, the           *)
(* token_version of the users, and the Redis hash roles_cache.  Requests   *)
(* come through the routes (RoleService) and through the admin view.       *)
(* Every await on PostgreSQL or Redis is an action: update_role and        *)
(* create_role are several statements without a transaction.               *)
(*                                                                         *)
(* A role's id stands for the name it was created with: that name is       *)
(* looked up, found taken and unique in the table.  The texts an edit can  *)
(* give (name and description) are one value, about.  The cached value of  *)
(* a role is its texts and its set of permissions.                         *)
(***************************************************************************)
EXTENDS Cache, FiniteSets, Naturals

CONSTANTS
    RoleIds,      \* roles, by name
    Perms,        \* permissions
    Wishes,       \* the sets of permissions that requests ask for
    Texts,        \* the names and descriptions that requests give
    FormPage,     \* what get_all_permissions returns by default: the last 20
    Users,        \* users, for token_version
    Editors,      \* requests that change a role
    RoleReaders,  \* requests that read roles
    EditsFail,    \* a request may end between two statements
    MaxVersion    \* bound on token_version

\* The field of a role in the hash, and that of the list of all roles.
RoleEntry(r) == <<"role", r>>
AllRoles == <<"roles", "all">>
RoleEntries == {RoleEntry(r) : r \in RoleIds} \union {AllRoles}

\* None is not a set of permissions, nor a row.
ASSUME RolesConstants ==
    /\ RoleEntries \subseteq CacheKeys
    /\ \A P \in SUBSET Perms : P # NoValue
    /\ NoValue \notin [about : Texts \union {NoValue}, perms : SUBSET Perms]
    /\ FormPage \subseteq Perms /\ Wishes \subseteq SUBSET Perms
    /\ MaxVersion \in Nat \ {0}

VARIABLES
    perms,    \* role -> its permissions, NoValue when there is no such role
    about,    \* role -> its texts, NoValue for none
    holders,  \* user_roles: pairs of a user and a role
    version,  \* token_version of every user
    rread,    \* the cached read of every request
    editor,   \* the state of every request that changes a role
    wanted,   \* history: role -> the permissions that its last edit asked for
    torn,     \* history: roles an edit of which was cut short, overlapped or
              \* came from a form that dropped permissions
    unsure,   \* history: entries saved late, or all after a skipped deletion
    unbumped  \* history: users who lost permissions, token_version unchanged

roleVars == <<perms, about, holders, version, rread, editor, wanted, torn, unsure, unbumped>>

Actors == RoleReaders \union Editors
NotRead == [at |-> "idle", entry |-> NoValue, val |-> NoValue]
Unused == [at |-> "new", op |-> NoValue, role |-> NoValue, asked |-> NoValue, text |-> NoValue]

RolesTypeOK ==
    /\ perms \in [RoleIds -> (SUBSET Perms) \union {NoValue}]
    /\ about \in [RoleIds -> Texts \union {NoValue}]
    /\ holders \subseteq Users \X {r \in RoleIds : perms[r] # NoValue}
    /\ version \in [Users -> 1..MaxVersion]
    /\ \A a \in Actors : rread[a].at \in {"idle", "fetch", "save", "answer"}
    /\ \A w \in Editors :
          editor[w].at \in {"new", "check", "insert", "describe", "clear", "fill", "bump",
                            "drop", "reread", "invalidate", "done", "failed"}
    /\ wanted \in [RoleIds -> (SUBSET Perms) \union {NoValue}]
    /\ torn \subseteq RoleIds
    /\ unsure \subseteq RoleEntries
    /\ unbumped \subseteq Users

-----------------------------------------------------------------------------
(***************************************************************************)
(* Reads.                                                                  *)
(***************************************************************************)
\* _get_role_by_id, below the cache decorator.
RowOfRole(r) == IF perms[r] = NoValue THEN NoValue ELSE [about |-> about[r], perms |-> perms[r]]

\* get_all_roles, below the cache decorator.
RowsOfRoles == [r \in RoleIds |-> RowOfRole(r)]

\* What an entry should hold.
RoleValue(e) == IF e = AllRoles THEN RowsOfRoles
                ELSE RowOfRole(CHOOSE r \in RoleIds : RoleEntry(r) = e)

RolesInit ==
    /\ perms \in [RoleIds -> {P \in Wishes : Cardinality(P) = 1} \union {NoValue}]
    /\ about = [r \in RoleIds |-> NoValue]
    /\ holders \in SUBSET {ur \in Users \X RoleIds : perms[ur[2]] # NoValue}
    /\ version = [u \in Users |-> 1]
    /\ rread = [a \in Actors |-> NotRead]
    /\ editor = [w \in Editors |-> Unused]
    /\ wanted = perms
    /\ torn = {}
    /\ unsure = {}
    /\ unbumped = {}

\* The answer is kept for the check of a request that changes the role.
Answered(a, e, v) ==
    IF a \in Editors THEN [at |-> "answer", entry |-> e, val |-> v]
    ELSE [NotRead EXCEPT !.at = "answer"]

\* A cached read begins: get_role_by_id or get_all_roles.
LookUpRole(a, e) ==
    /\ rread[a].at = "idle"
    /\ \E v \in GetFromCache(e) :
          rread' = [rread EXCEPT ![a] = IF v # NoValue THEN Answered(a, e, v)
                                        ELSE [at |-> "fetch", entry |-> e, val |-> NoValue]]
    /\ UNCHANGED <<perms, about, holders, version, editor, wanted, torn, unsure, store, unbumped>>

FetchRole(a) ==
    /\ rread[a].at = "fetch"
    /\ rread' = [rread EXCEPT ![a].at = "save", ![a].val = RoleValue(rread[a].entry)]
    /\ UNCHANGED <<perms, about, holders, version, editor, wanted, torn, unsure, store, unbumped>>

SaveRole(a) ==
    LET e == rread[a].entry IN
    /\ rread[a].at = "save"
    /\ store' \in SaveToCache(e, rread[a].val)
    /\ rread' = [rread EXCEPT ![a] = Answered(a, e, rread[a].val)]
    /\ unsure' = IF rread[a].val = RoleValue(e) THEN unsure ELSE unsure \union {e}
    /\ UNCHANGED <<perms, about, holders, version, editor, wanted, torn, unbumped>>

\* The hash runs out as a whole, an hour after the last save.
RolesExpire ==
    /\ \E e \in RoleEntries : store[e] # NoValue
    /\ store' = Without(RoleEntries)
    /\ unsure' = {}
    /\ UNCHANGED <<perms, about, holders, version, rread, editor, wanted, torn, unbumped>>

-----------------------------------------------------------------------------
(***************************************************************************)
(* Requests.                                                               *)
(***************************************************************************)
At(w, stage) == editor[w].at = stage
GoTo(w, stage) == editor' = [editor EXCEPT ![w].at = stage]
Ends(w, outcome) == editor' = [editor EXCEPT ![w] = [Unused EXCEPT !.at = outcome]]
Creates(w) == editor[w].op \in {"create", "view_create"}

\* The names of the form are turned into ids with the first page of the
\* permissions only; a name that is not on it is dropped.
FormIds(asked) == asked \intersect FormPage

\* The permission_ids of RoleCreate and RoleUpdate; NoValue when not given.
Want(w) == IF editor[w].asked # NoValue /\ editor[w].op \in {"view_create", "view_edit"}
           THEN FormIds(editor[w].asked) ELSE editor[w].asked

\* The form has dropped permissions it was asked for.
Cut(w) == Want(w) # editor[w].asked

\* The next statement of update_role after the texts.
AfterTexts(asked) == IF asked = NoValue THEN "bump" ELSE "clear"

\* The first statement on the tables.
FirstStage(op, asked, text) ==
    CASE op \in {"create", "view_create"} -> "insert"
      [] op \in {"update", "view_edit"} -> IF text = NoValue THEN AfterTexts(asked) ELSE "describe"
      [] op \in {"delete", "view_delete"} -> "drop"

Begin(w, op, r, asked, text, stage) ==
    /\ At(w, "new")
    /\ editor' = [editor EXCEPT ![w] = [at |-> stage, op |-> op, role |-> r, asked |-> asked, text |-> text]]
    /\ UNCHANGED <<perms, about, holders, version, rread, wanted, torn, unsure, store, unbumped>>

\* The routes' create_role, and RoleService.create_role: the name is free.
CreateRoute(w, r, asked, text) ==
    RowOfRole(r) = NoValue /\ Begin(w, "create", r, asked, text, "insert")

\* The routes' update_role; RoleService.update_role first reads the role.
UpdateRoute(w, r, asked, text) == Begin(w, "update", r, asked, text, "check")

\* The routes' delete_role; RoleService.delete_role first reads the role.
DeleteRoute(w, r) == Begin(w, "delete", r, NoValue, NoValue, "check")

\* create of the admin view.
ViewCreate(w, r, asked, text) == Begin(w, "view_create", r, asked, text, "insert")

\* edit of the admin view.
ViewEdit(w, r, asked, text) ==
    Begin(w, "view_edit", r, asked, text, FirstStage("view_edit", asked, text))

\* delete of the admin view.
ViewDelete(w, r) == Begin(w, "view_delete", r, NoValue, NoValue, "drop")

\* RoleService.get_role_by_id: the request goes on, or ends with 404.
RoleFound(w) ==
    /\ At(w, "check") /\ rread[w].at = "answer"
    /\ rread' = [rread EXCEPT ![w] = NotRead]
    /\ IF rread[w].val # NoValue THEN GoTo(w, FirstStage(editor[w].op, editor[w].asked, editor[w].text))
       ELSE Ends(w, "failed")
    /\ UNCHANGED <<perms, about, holders, version, wanted, torn, unsure, store, unbumped>>

\* RoleService.update_role: the new name is that of another role, of which
\* the migrations insert some.
NameTaken(w) ==
    /\ At(w, "check") /\ rread[w].at = "answer" /\ rread[w].val # NoValue
    /\ editor[w].op = "update"
    /\ rread' = [rread EXCEPT ![w] = NotRead]
    /\ Ends(w, "failed")
    /\ UNCHANGED <<perms, about, holders, version, wanted, torn, unsure, store, unbumped>>

-----------------------------------------------------------------------------
(***************************************************************************)
(* The statements of RoleDAO.                                              *)
(***************************************************************************)
\* The edit has written to a table, and not deleted the hash yet.
Written(w) == \/ editor[w].at \in {"fill", "bump", "reread", "invalidate"}
              \/ editor[w].at = "clear" /\ editor[w].text # NoValue

\* Another edit of the same role is between its statements.
Overlap(w) ==
    \E v \in Editors \ {w} : editor[v].role = editor[w].role /\ editor[v].at \in {"clear", "fill"}

HoldersOf(r) == {u \in Users : <<u, r>> \in holders}

\* token_version + 1 for a set of users.
Bumped(U) == [u \in Users |-> IF u \in U THEN version[u] + 1 ELSE version[u]]

\* The first statement of create_role: the name is unique in the table.
InsertRole(w) ==
    LET r == editor[w].role IN
    /\ At(w, "insert")
    /\ IF perms[r] = NoValue
       THEN /\ perms' = [perms EXCEPT ![r] = {}]
            /\ about' = [about EXCEPT ![r] = editor[w].text]
            /\ wanted' = [wanted EXCEPT ![r] = editor[w].asked]
            /\ GoTo(w, IF Want(w) = {} THEN "reread" ELSE "fill")
            /\ torn' = IF Overlap(w) \/ Cut(w) THEN torn \union {r} ELSE torn \ {r}
       ELSE Ends(w, "failed") /\ UNCHANGED <<perms, about, wanted, torn>>
    /\ UNCHANGED <<holders, version, rread, unsure, store, unbumped>>

\* The first statement of update_role: UPDATE roles.
Describe(w) ==
    LET r == editor[w].role IN
    /\ At(w, "describe")
    /\ about' = IF perms[r] = NoValue THEN about ELSE [about EXCEPT ![r] = editor[w].text]
    /\ GoTo(w, AfterTexts(editor[w].asked))
    /\ UNCHANGED <<perms, holders, version, rread, wanted, torn, unsure, store, unbumped>>

\* Mutant: the old permissions are left in place.
ClearNothing(w) ==
    LET r == editor[w].role IN
    /\ At(w, "clear")
    /\ wanted' = IF perms[r] = NoValue THEN wanted ELSE [wanted EXCEPT ![r] = editor[w].asked]
    /\ torn' = IF Overlap(w) \/ Cut(w) THEN torn \union {r} ELSE torn
    /\ GoTo(w, IF Want(w) = {} THEN "bump" ELSE "fill")
    /\ UNCHANGED <<perms, about, holders, version, rread, unsure, store, unbumped>>

\* update_role: the old permissions go.
ClearPerms(w) ==
    LET r == editor[w].role IN
    /\ At(w, "clear")
    /\ perms' = IF perms[r] = NoValue THEN perms ELSE [perms EXCEPT ![r] = {}]
    /\ wanted' = IF perms[r] = NoValue THEN wanted ELSE [wanted EXCEPT ![r] = editor[w].asked]
    /\ torn' = IF Overlap(w) \/ Cut(w) THEN torn \union {r} ELSE torn
    /\ GoTo(w, IF Want(w) = {} THEN "bump" ELSE "fill")
    /\ UNCHANGED <<about, holders, version, rread, unsure, store, unbumped>>

\* The INSERT of the new permissions, of update_role and create_role: it
\* fails for a role that is gone and a pair that is there (an unknown
\* permission is one of EditFails).
FillPerms(w) ==
    LET r == editor[w].role
        fits == perms[r] # NoValue /\ perms[r] \intersect Want(w) = {}
    IN /\ At(w, "fill")
       /\ IF fits
          THEN /\ perms' = [perms EXCEPT ![r] = @ \union Want(w)]
               /\ wanted' = [wanted EXCEPT ![r] = editor[w].asked]
               /\ torn' = IF Overlap(w) \/ Cut(w) THEN torn \union {r} ELSE torn
               /\ GoTo(w, IF Creates(w) THEN "reread" ELSE "bump")
               /\ UNCHANGED <<unsure, unbumped>>
          ELSE /\ Ends(w, "failed")
               /\ torn' = torn \union {r}
               /\ unsure' = RoleEntries
               /\ unbumped' = unbumped \union HoldersOf(r)
               /\ UNCHANGED <<perms, wanted>>
       /\ UNCHANGED <<about, holders, version, rread, store>>

\* Mutant: the tokens of the role's users are left alone.
BumpNobody(w) ==
    /\ At(w, "bump")
    /\ GoTo(w, "reread")
    /\ UNCHANGED <<perms, about, holders, version, rread, wanted, torn, unsure, store, unbumped>>

\* update_role: token_version of the users who have the role.
BumpHolders(w) ==
    LET U == HoldersOf(editor[w].role) IN
    /\ At(w, "bump")
    /\ \A u \in U : version[u] < MaxVersion
    /\ version' = Bumped(U)
    /\ unbumped' = unbumped \ U
    /\ GoTo(w, "reread")
    /\ UNCHANGED <<perms, about, holders, rread, wanted, torn, unsure, store>>

\* The SELECT at the end: create_role raises when it finds nothing.
RereadRole(w) ==
    /\ At(w, "reread")
    /\ IF Creates(w) /\ perms[editor[w].role] = NoValue
       THEN Ends(w, "failed") /\ unsure' = RoleEntries
       ELSE GoTo(w, "invalidate") /\ UNCHANGED unsure
    /\ UNCHANGED <<perms, about, holders, version, rread, wanted, torn, store, unbumped>>

\* Mutant: user_roles refers to roles without ON DELETE CASCADE.
DropRoleOnly(r) ==
    /\ perms' = [perms EXCEPT ![r] = NoValue]
    /\ about' = [about EXCEPT ![r] = NoValue]
    /\ wanted' = [wanted EXCEPT ![r] = NoValue]
    /\ holders' = holders

\* The DELETE; user_roles and role_permissions cascade.
DropRow(r) ==
    /\ perms' = [perms EXCEPT ![r] = NoValue]
    /\ about' = [about EXCEPT ![r] = NoValue]
    /\ wanted' = [wanted EXCEPT ![r] = NoValue]
    /\ holders' = {ur \in holders : ur[2] # r}

\* delete_role: one transaction.
DeleteRole(w) ==
    LET U == HoldersOf(editor[w].role) IN
    /\ At(w, "drop") /\ editor[w].op = "delete"
    /\ \A u \in U : version[u] < MaxVersion
    /\ version' = Bumped(U)
    /\ unbumped' = unbumped \ U
    /\ DropRow(editor[w].role)
    /\ GoTo(w, "invalidate")
    /\ UNCHANGED <<rread, torn, unsure, store>>

\* delete_roles: token_version stays.
DeleteRoles(w) ==
    /\ At(w, "drop") /\ editor[w].op = "view_delete"
    /\ unbumped' = unbumped \union HoldersOf(editor[w].role)
    /\ DropRow(editor[w].role)
    /\ GoTo(w, "invalidate")
    /\ UNCHANGED <<version, rread, torn, unsure, store>>

\* Mutant: the field of the role is deleted, not the hash.
InvalidateField(w) ==
    /\ At(w, "invalidate")
    /\ Invalidate({RoleEntry(editor[w].role)})
    /\ unsure' = unsure \ {RoleEntry(editor[w].role)}
    /\ Ends(w, "done")
    /\ UNCHANGED <<perms, about, holders, version, rread, wanted, torn, unbumped>>

\* cache_invalidate(hash_key=ROLES_CACHE, invalidate_hash=True).
InvalidateRoles(w) ==
    /\ At(w, "invalidate")
    /\ Invalidate(RoleEntries)
    /\ unsure' = {}
    /\ Ends(w, "done")
    /\ UNCHANGED <<perms, about, holders, version, rread, wanted, torn, unbumped>>

\* The error of the deletion is logged; or the process dies before it.
InvalidateRolesFails(w) ==
    /\ At(w, "invalidate")
    /\ InvalidateFails(RoleEntries)
    /\ unsure' = RoleEntries
    /\ Ends(w, "done")
    /\ UNCHANGED <<perms, about, holders, version, rread, wanted, torn, unbumped>>

\* A statement fails or the process dies: what was committed stays.
EditFails(w) ==
    /\ EditsFail
    /\ editor[w].at \in {"insert", "describe", "clear", "fill", "bump", "reread", "drop"}
    /\ Ends(w, "failed")
    /\ torn' = IF At(w, "fill") THEN torn \union {editor[w].role} ELSE torn
    /\ unsure' = IF Written(w) THEN RoleEntries ELSE unsure
    /\ unbumped' = IF editor[w].at \in {"fill", "bump"} THEN unbumped \union HoldersOf(editor[w].role)
                   ELSE unbumped
    /\ UNCHANGED <<perms, about, holders, version, rread, wanted, store>>

Requests(w) ==
    \E r \in RoleIds :
        \/ DeleteRoute(w, r) \/ ViewDelete(w, r)
        \/ \E text \in Texts \union {NoValue} :
              \/ \E asked \in Wishes : CreateRoute(w, r, asked, text) \/ ViewCreate(w, r, asked, text)
              \/ \E asked \in Wishes \union {NoValue} :
                    UpdateRoute(w, r, asked, text) \/ ViewEdit(w, r, asked, text)

EditorStep(w) ==
    \/ RoleFound(w) \/ NameTaken(w) \/ InsertRole(w) \/ Describe(w) \/ ClearPerms(w) \/ FillPerms(w)
    \/ BumpHolders(w) \/ RereadRole(w) \/ DeleteRole(w) \/ DeleteRoles(w)
    \/ InvalidateRoles(w) \/ InvalidateRolesFails(w) \/ EditFails(w)

RolesNext ==
    \/ \E a \in RoleReaders, e \in RoleEntries : LookUpRole(a, e)
    \/ \E w \in Editors : At(w, "check") /\ rread[w].at = "idle"
                          /\ LookUpRole(w, RoleEntry(editor[w].role))
    \/ \E a \in Actors : FetchRole(a) \/ SaveRole(a)
    \/ RolesExpire
    \/ \E w \in Editors : Requests(w) \/ EditorStep(w)

-----------------------------------------------------------------------------
(***************************************************************************)
(* Properties.                                                             *)
(***************************************************************************)
\* A cached role or list of roles is what the tables say, unless an edit is
\* still on its way to the deletion of the hash, or history tells why it is
\* not: a reader stored what it had read before an edit (cache, step 4), or
\* an edit ended before or failed in the deletion (cache_invalidate).
RolesCacheFresh ==
    \A e \in RoleEntries :
        store[e] \notin {NoValue, RoleValue(e)} =>
            \/ e \in unsure
            \/ \E w \in Editors : e \in {AllRoles, RoleEntry(editor[w].role)} /\ Written(w)

\* The permissions of a role are all those its last edit was asked for, once
\* no edit of it is between its DELETE and its INSERT: unless an edit was cut
\* short there, two overlapped, or the form of the admin view had dropped
\* some of the names before update_role or create_role saw them (torn).
PermsOfOneEdit ==
    \A r \in RoleIds :
        perms[r] # wanted[r] =>
            \/ r \in torn
            \/ \E w \in Editors : editor[w].role = r /\ editor[w].at = "fill"

=============================================================================
