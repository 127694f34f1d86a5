----------------------------- MODULE RolesProofs -----------------------------
(***************************************************************************)
(* Lemmas about the store of Cache and about Roles: the inductive          *)
(* invariant of the roles and its steps, for any sets of roles,            *)
(* permissions, users and requests.  CachedDataProofs and AccountsProofs   *)
(* use them in the systems that the roles are part of.                     *)
(***************************************************************************)
EXTENDS Roles, TLAPS

\* The store has an entry, or none, under every key.
StoreInv == store = [k \in CacheKeys |-> store[k]]

\* Saving v under k changes this entry only, to v, or fails.
LEMMA Saved ==
    ASSUME StoreInv, NEW k \in CacheKeys, NEW v, store' \in SaveToCache(k, v)
    PROVE  /\ StoreInv'
           /\ \A j \in CacheKeys : store'[j] = store[j] \/ (j = k /\ v # NoValue /\ store'[j] = v)
  BY DEF StoreInv, SaveToCache

\* A deletion empties its keys and leaves the others alone.
LEMMA Removed ==
    ASSUME StoreInv, NEW K, Invalidate(K)
    PROVE  /\ StoreInv'
           /\ \A j \in CacheKeys : store'[j] = IF j \in K THEN NoValue ELSE store[j]
  BY DEF StoreInv, Invalidate, Without

\* So does a deletion that fails, if it was applied.
LEMMA RemovalFailed ==
    ASSUME StoreInv, NEW K, InvalidateFails(K)
    PROVE  /\ StoreInv'
           /\ \A j \in CacheKeys : store'[j] = store[j] \/ (j \in K /\ store'[j] = NoValue)
  BY DEF StoreInv, InvalidateFails, Without

\* An entry runs out.
LEMMA RanOut ==
    ASSUME StoreInv, NEW k \in CacheKeys, Expire(k)
    PROVE  /\ StoreInv'
           /\ \A j \in CacheKeys : store'[j] = IF j = k THEN NoValue ELSE store[j]
  BY DEF StoreInv, Expire, Without

-----------------------------------------------------------------------------
(***************************************************************************)
(* Roles.                                                                  *)
(***************************************************************************)
\* What a role is, or None; and what an entry can hold.
RoleRows == (SUBSET Perms) \union {NoValue}
RoleTexts == Texts \union {NoValue}
RoleRecs == [about : RoleTexts, perms : SUBSET Perms] \union {NoValue}
RoleVals == RoleRecs \union [RoleIds -> RoleRecs]

Ops == {"create", "view_create", "update", "view_edit", "delete", "view_delete"}
Stages == {"new", "check", "insert", "describe", "clear", "fill", "bump", "drop", "reread",
           "invalidate", "done", "failed"}
ReadStates == [at : {"idle", "fetch", "save", "answer"},
               entry : RoleEntries \union {NoValue}, val : RoleVals]
EditorStates == [at : Stages, op : Ops \union {NoValue}, role : RoleIds \union {NoValue},
                 asked : Wishes \union {NoValue}, text : RoleTexts]

\* Every variable of Roles has its type, every field included.
RolesShape ==
    /\ perms \in [RoleIds -> RoleRows]
    /\ about \in [RoleIds -> RoleTexts]
    /\ holders \subseteq Users \X {r \in RoleIds : perms[r] # NoValue}
    /\ version \in [Users -> 1..MaxVersion]
    /\ rread \in [Actors -> ReadStates]
    /\ editor \in [Editors -> EditorStates]
    /\ wanted \in [RoleIds -> RoleRows]
    /\ torn \subseteq RoleIds
    /\ unsure \subseteq RoleEntries
    /\ unbumped \subseteq Users
    /\ \A e \in RoleEntries : store[e] \in RoleVals

\* A request that is under way knows its role, and the permissions it was
\* asked for when it is going to write some.
EditorInv ==
    /\ \A a \in Actors : rread[a].at \in {"fetch", "save"} => rread[a].entry \in RoleEntries
    /\ \A w \in Editors :
          /\ editor[w].at \notin {"new", "done", "failed"} => editor[w].role \in RoleIds
          /\ editor[w].at = "check" => editor[w].op \in {"update", "delete"}
          /\ editor[w].at \in {"describe", "clear"} => editor[w].op \in {"update", "view_edit"}
          /\ editor[w].at \in {"insert", "clear", "fill"} => editor[w].asked \in Wishes
          /\ editor[w].at = "describe" => editor[w].text # NoValue

\* The INSERT of an edit's permissions finds none, unless edits overlapped.
FillInv ==
    \A w \in Editors :
        editor[w].at = "fill" => \/ perms[editor[w].role] \in {{}, NoValue}
                                 \/ editor[w].role \in torn

RolesInv == RolesShape /\ EditorInv /\ FillInv /\ RolesCacheFresh /\ PermsOfOneEdit

\* The first statement of an edit, for the two kinds of it that read nothing
\* before.
LEMMA FirstStages ==
    ASSUME NEW op \in {"update", "view_edit"}, NEW asked \in Wishes \union {NoValue}, NEW text
    PROVE  /\ FirstStage(op, asked, text) \in {"describe", "clear", "bump"}
           /\ FirstStage(op, asked, text) = "clear" => asked \in Wishes
           /\ FirstStage(op, asked, text) = "describe" => text # NoValue
  BY DEF FirstStage, AfterTexts

\* What a request begins with, through a route or the view.
BeginStep(w) ==
    \E op \in Ops, r \in RoleIds, asked \in Wishes \union {NoValue}, text \in RoleTexts,
       stage \in {"check", "insert", "describe", "clear", "bump", "drop"} :
        /\ Begin(w, op, r, asked, text, stage)
        /\ stage = "check" => op \in {"update", "delete"}
        /\ stage \in {"describe", "clear"} => op \in {"update", "view_edit"}
        /\ stage \in {"insert", "clear"} => asked \in Wishes
        /\ stage = "describe" => text # NoValue

\* Every route and view begins in such a way.
LEMMA Begins ==
    ASSUME NEW w \in Editors, Requests(w)
    PROVE  BeginStep(w)
<1> USE DEF RoleTexts
<1>1. PICK r \in RoleIds :
          \/ DeleteRoute(w, r) \/ ViewDelete(w, r)
          \/ \E text \in RoleTexts :
                \/ \E asked \in Wishes : CreateRoute(w, r, asked, text) \/ ViewCreate(w, r, asked, text)
                \/ \E asked \in Wishes \union {NoValue} :
                      UpdateRoute(w, r, asked, text) \/ ViewEdit(w, r, asked, text)
  BY DEF Requests
<1>2. CASE DeleteRoute(w, r)
  BY <1>2 DEF DeleteRoute, BeginStep, Ops
<1>3. CASE ViewDelete(w, r)
  BY <1>3 DEF ViewDelete, BeginStep, Ops
<1>4. ASSUME NEW text \in RoleTexts, NEW asked \in Wishes,
             CreateRoute(w, r, asked, text) \/ ViewCreate(w, r, asked, text)
      PROVE  BeginStep(w)
  BY <1>4 DEF CreateRoute, ViewCreate, BeginStep, Ops
<1>5. ASSUME NEW text \in RoleTexts, NEW asked \in Wishes \union {NoValue},
             UpdateRoute(w, r, asked, text)
      PROVE  BeginStep(w)
  BY <1>5 DEF UpdateRoute, BeginStep, Ops
<1>6. ASSUME NEW text \in RoleTexts, NEW asked \in Wishes \union {NoValue},
             ViewEdit(w, r, asked, text)
      PROVE  BeginStep(w)
  <2>1. PICK stage \in {"describe", "clear", "bump"} :
            /\ Begin(w, "view_edit", r, asked, text, stage)
            /\ stage = "clear" => asked \in Wishes
            /\ stage = "describe" => text # NoValue
    BY <1>6, FirstStages DEF ViewEdit
  <2>2. QED
    BY <2>1 DEF BeginStep, Ops
<1>7. QED
  BY <1>1, <1>2, <1>3, <1>4, <1>5, <1>6

\* A request goes on to its next statement.
LEMMA Gone ==
    ASSUME RolesShape, NEW w \in Editors, NEW stage \in Stages, GoTo(w, stage)
    PROVE  /\ editor' \in [Editors -> EditorStates]
           /\ \A v \in Editors \ {w} : editor'[v] = editor[v]
           /\ editor'[w].at = stage /\ editor'[w].role = editor[w].role
           /\ editor'[w].op = editor[w].op /\ editor'[w].asked = editor[w].asked
           /\ editor'[w].text = editor[w].text
<1>1. editor' = [editor EXCEPT ![w] = [editor[w] EXCEPT !.at = stage]]
  BY DEF GoTo, RolesShape
<1>2. editor[w] \in EditorStates
  BY DEF RolesShape
<1>3. /\ [editor[w] EXCEPT !.at = stage] \in EditorStates
      /\ [editor[w] EXCEPT !.at = stage].at = stage
      /\ [editor[w] EXCEPT !.at = stage].role = editor[w].role
      /\ [editor[w] EXCEPT !.at = stage].op = editor[w].op
      /\ [editor[w] EXCEPT !.at = stage].asked = editor[w].asked
      /\ [editor[w] EXCEPT !.at = stage].text = editor[w].text
  BY <1>2 DEF EditorStates
<1>4. QED
  BY <1>1, <1>3 DEF RolesShape

\* A request ends.
LEMMA Ended ==
    ASSUME RolesShape, NEW w \in Editors, NEW outcome \in {"done", "failed"}, Ends(w, outcome)
    PROVE  /\ editor' \in [Editors -> EditorStates]
           /\ \A v \in Editors \ {w} : editor'[v] = editor[v]
           /\ editor'[w].at = outcome
  BY DEF Ends, Unused, RolesShape, EditorStates, Stages, RoleTexts

\* What a request asks for are permissions.
LEMMA Wanted ==
    ASSUME NEW w \in Editors, editor[w].asked \in Wishes
    PROVE  Want(w) \in SUBSET Perms /\ editor[w].asked \in SUBSET Perms
<1>1. editor[w].asked \in SUBSET Perms /\ FormPage \subseteq Perms
  BY RolesConstants
<1>2. QED
  BY <1>1 DEF Want, FormIds

\* The row of a role.
LEMMA RoleRow ==
    ASSUME RolesShape, NEW r \in RoleIds
    PROVE  RowOfRole(r) \in RoleRecs
  BY DEF RowOfRole, RoleRecs, RoleRows, RolesShape

\* The values of the entries.
LEMMA RoleValues ==
    ASSUME RolesShape, NEW e \in RoleEntries
    PROVE  RoleValue(e) \in RoleVals
<1>1. CASE e = AllRoles
  BY <1>1, RoleRow DEF RoleValue, RowsOfRoles, RoleVals
<1>2. CASE e # AllRoles
  <2>1. \E r \in RoleIds : RoleEntry(r) = e
    BY <1>2 DEF RoleEntries
  <2>2. (CHOOSE r \in RoleIds : RoleEntry(r) = e) \in RoleIds
    BY <2>1
  <2>3. QED
    BY <1>2, <2>2, RoleRow DEF RoleValue, RoleVals
<1>3. QED
  BY <1>1, <1>2

\* A change of one role is seen in its entry and in the list only.
LEMMA RoleKept ==
    ASSUME NEW r, NEW e \in RoleEntries, e \notin {AllRoles, RoleEntry(r)},
           \A q \in RoleIds \ {r} : perms'[q] = perms[q] /\ about'[q] = about[q]
    PROVE  RoleValue(e)' = RoleValue(e)
<1> DEFINE c == CHOOSE q \in RoleIds : RoleEntry(q) = e
<1>1. \E q \in RoleIds : RoleEntry(q) = e
  BY DEF RoleEntries
<1>2. c \in RoleIds /\ RoleEntry(c) = e
  BY <1>1
<1>3. perms'[c] = perms[c] /\ about'[c] = about[c]
  BY <1>2
<1>4. QED
  BY <1>3 DEF RoleValue, RowOfRole

\* Without a change of the tables the values stay.
LEMMA RolesKept ==
    ASSUME UNCHANGED <<perms, about>>, NEW e
    PROVE  RoleValue(e)' = RoleValue(e)
  BY DEF RoleValue, RowOfRole, RowsOfRoles


\* Reads and edits of roles touch no entry outside the hash roles_cache.
LEMMA RolesStoreStep ==
    ASSUME StoreInv, RolesShape, EditorInv, RolesNext
    PROVE  StoreInv' /\ \A k \in CacheKeys \ RoleEntries : store'[k] = store[k]
<1> USE RolesConstants
<1>1. ASSUME NEW a \in Actors, NEW e \in RoleEntries, LookUpRole(a, e)
      PROVE  StoreInv' /\ \A k \in CacheKeys \ RoleEntries : store'[k] = store[k]
  BY <1>1 DEF LookUpRole, StoreInv
<1>2. ASSUME NEW a \in Actors, FetchRole(a)
      PROVE  StoreInv' /\ \A k \in CacheKeys \ RoleEntries : store'[k] = store[k]
  BY <1>2 DEF FetchRole, StoreInv
<1>3. ASSUME NEW a \in Actors, SaveRole(a)
      PROVE  StoreInv' /\ \A k \in CacheKeys \ RoleEntries : store'[k] = store[k]
  <2>1. rread[a].entry \in RoleEntries /\ rread[a].entry \in CacheKeys
    BY <1>3 DEF SaveRole, EditorInv
  <2>2. /\ StoreInv'
        /\ \A j \in CacheKeys :
               \/ store'[j] = store[j]
               \/ j = rread[a].entry /\ rread[a].val # NoValue /\ store'[j] = rread[a].val
    BY <1>3, <2>1, Saved DEF SaveRole
  <2>3. QED
    BY <2>1, <2>2
<1>4. ASSUME RolesExpire
      PROVE  StoreInv' /\ \A k \in CacheKeys \ RoleEntries : store'[k] = store[k]
  <2>1. /\ StoreInv'
        /\ \A j \in CacheKeys : store'[j] = IF j \in RoleEntries THEN NoValue ELSE store[j]
    BY <1>4 DEF RolesExpire, StoreInv, Without
  <2>2. QED
    BY <2>1
<1>5. ASSUME NEW w \in Editors, BeginStep(w)
      PROVE  StoreInv' /\ \A k \in CacheKeys \ RoleEntries : store'[k] = store[k]
  BY <1>5 DEF BeginStep, Begin, StoreInv
<1>6. ASSUME NEW w \in Editors, RoleFound(w)
      PROVE  StoreInv' /\ \A k \in CacheKeys \ RoleEntries : store'[k] = store[k]
  BY <1>6 DEF RoleFound, StoreInv
<1>7. ASSUME NEW w \in Editors, NameTaken(w)
      PROVE  StoreInv' /\ \A k \in CacheKeys \ RoleEntries : store'[k] = store[k]
  BY <1>7 DEF NameTaken, StoreInv
<1>8. ASSUME NEW w \in Editors, InsertRole(w)
      PROVE  StoreInv' /\ \A k \in CacheKeys \ RoleEntries : store'[k] = store[k]
  BY <1>8 DEF InsertRole, StoreInv
<1>9. ASSUME NEW w \in Editors, ClearPerms(w)
      PROVE  StoreInv' /\ \A k \in CacheKeys \ RoleEntries : store'[k] = store[k]
  BY <1>9 DEF ClearPerms, StoreInv
<1>10. ASSUME NEW w \in Editors, FillPerms(w)
      PROVE  StoreInv' /\ \A k \in CacheKeys \ RoleEntries : store'[k] = store[k]
  BY <1>10 DEF FillPerms, StoreInv
<1>11. ASSUME NEW w \in Editors, BumpHolders(w)
      PROVE  StoreInv' /\ \A k \in CacheKeys \ RoleEntries : store'[k] = store[k]
  BY <1>11 DEF BumpHolders, StoreInv
<1>12. ASSUME NEW w \in Editors, RereadRole(w)
      PROVE  StoreInv' /\ \A k \in CacheKeys \ RoleEntries : store'[k] = store[k]
  BY <1>12 DEF RereadRole, StoreInv
<1>13. ASSUME NEW w \in Editors, DeleteRole(w)
      PROVE  StoreInv' /\ \A k \in CacheKeys \ RoleEntries : store'[k] = store[k]
  BY <1>13 DEF DeleteRole, StoreInv
<1>14. ASSUME NEW w \in Editors, DeleteRoles(w)
      PROVE  StoreInv' /\ \A k \in CacheKeys \ RoleEntries : store'[k] = store[k]
  BY <1>14 DEF DeleteRoles, StoreInv
<1>15. ASSUME NEW w \in Editors, InvalidateRoles(w)
      PROVE  StoreInv' /\ \A k \in CacheKeys \ RoleEntries : store'[k] = store[k]
  <2>1. /\ StoreInv'
        /\ \A j \in CacheKeys : store'[j] = IF j \in RoleEntries THEN NoValue ELSE store[j]
    <3>1. Invalidate(RoleEntries)
      BY <1>15 DEF InvalidateRoles
    <3>2. QED
      BY <3>1, Removed
  <2>2. QED
    BY <2>1
<1>16. ASSUME NEW w \in Editors, InvalidateRolesFails(w)
      PROVE  StoreInv' /\ \A k \in CacheKeys \ RoleEntries : store'[k] = store[k]
  <2>1. /\ StoreInv'
        /\ \A j \in CacheKeys : store'[j] = store[j] \/ (j \in RoleEntries /\ store'[j] = NoValue)
    <3>1. InvalidateFails(RoleEntries)
      BY <1>16 DEF InvalidateRolesFails
    <3>2. QED
      BY <3>1, RemovalFailed
  <2>2. QED
    BY <2>1
<1>17. ASSUME NEW w \in Editors, EditFails(w)
      PROVE  StoreInv' /\ \A k \in CacheKeys \ RoleEntries : store'[k] = store[k]
  BY <1>17 DEF EditFails, StoreInv
<1>18. ASSUME NEW w \in Editors, At(w, "check"), LookUpRole(w, RoleEntry(editor[w].role))
      PROVE  StoreInv' /\ \A k \in CacheKeys \ RoleEntries : store'[k] = store[k]
  <2>1. w \in Actors /\ RoleEntry(editor[w].role) \in RoleEntries
    BY <1>18 DEF Actors, At, EditorInv, RoleEntries
  <2>2. QED
    BY <1>1, <1>18, <2>1
<1>19. \A a \in RoleReaders : a \in Actors
  BY DEF Actors
<1>20. ASSUME NEW w \in Editors, Describe(w)
      PROVE  StoreInv' /\ \A k \in CacheKeys \ RoleEntries : store'[k] = store[k]
  BY <1>20 DEF Describe, StoreInv
<1>21. QED
  BY <1>1, <1>2, <1>3, <1>4, <1>5, <1>6, <1>7, <1>8,
     <1>9, <1>10, <1>11, <1>12, <1>13, <1>14, <1>15, <1>16, <1>17,
     <1>18, <1>19, <1>20, Begins DEF RolesNext, EditorStep

\* Every variable of Roles keeps its type.
LEMMA RolesShapeStep ==
    ASSUME StoreInv, RolesShape, EditorInv, RolesNext
    PROVE  RolesShape'
<1> USE RolesConstants
<1>1. ASSUME NEW a \in Actors, NEW e \in RoleEntries, LookUpRole(a, e)
      PROVE  RolesShape'
  <2>1. PICK v \in GetFromCache(e) :
            rread' = [rread EXCEPT ![a] = IF v # NoValue THEN Answered(a, e, v)
                                          ELSE [at |-> "fetch", entry |-> e, val |-> NoValue]]
    BY <1>1 DEF LookUpRole
  <2>2. v \in RoleVals /\ NoValue \in RoleVals
    BY DEF GetFromCache, RolesShape, RoleVals, RoleRecs
  <2>3. rread' \in [Actors -> ReadStates]
    BY <2>1, <2>2 DEF RolesShape, ReadStates, Answered, NotRead
  <2>4. QED
    BY <1>1, <2>3 DEF LookUpRole, RolesShape
<1>2. ASSUME NEW a \in Actors, FetchRole(a)
      PROVE  RolesShape'
  <2>1. RoleValue(rread[a].entry) \in RoleVals
    BY <1>2, RoleValues DEF FetchRole, EditorInv
  <2>2. rread[a] \in ReadStates
    BY DEF RolesShape
  <2>3. [[rread[a] EXCEPT !.at = "save"] EXCEPT !.val = RoleValue(rread[a].entry)] \in ReadStates
    BY <2>1, <2>2 DEF ReadStates
  <2>4. rread' = [rread EXCEPT ![a] = [[rread[a] EXCEPT !.at = "save"]
                                          EXCEPT !.val = RoleValue(rread[a].entry)]]
    BY <1>2 DEF FetchRole, RolesShape
  <2>5. rread' \in [Actors -> ReadStates]
    BY <2>3, <2>4 DEF RolesShape
  <2>6. QED
    BY <1>2, <2>5 DEF FetchRole, RolesShape
<1>3. ASSUME NEW a \in Actors, SaveRole(a)
      PROVE  RolesShape'
  <2>1. rread[a].entry \in RoleEntries /\ rread[a].entry \in CacheKeys
    BY <1>3 DEF SaveRole, EditorInv
  <2>2. /\ StoreInv'
        /\ \A j \in CacheKeys :
               \/ store'[j] = store[j]
               \/ j = rread[a].entry /\ rread[a].val # NoValue /\ store'[j] = rread[a].val
    BY <1>3, <2>1, Saved DEF SaveRole
  <2>3. rread[a].val \in RoleVals /\ NoValue \in RoleVals
    BY DEF RolesShape, ReadStates, RoleVals, RoleRecs
  <2>4. rread' \in [Actors -> ReadStates]
    BY <1>3, <2>1, <2>3 DEF SaveRole, RolesShape, ReadStates, Answered, NotRead
  <2>5. \A e \in RoleEntries : store'[e] \in RoleVals
    BY <2>2, <2>3 DEF RolesShape
  <2>6. unsure' \subseteq RoleEntries
    BY <1>3, <2>1 DEF SaveRole, RolesShape
  <2>7. QED
    BY <1>3, <2>4, <2>5, <2>6 DEF SaveRole, RolesShape
<1>4. ASSUME RolesExpire
      PROVE  RolesShape'
  <2>1. /\ StoreInv'
        /\ \A j \in CacheKeys : store'[j] = IF j \in RoleEntries THEN NoValue ELSE store[j]
    BY <1>4 DEF RolesExpire, StoreInv, Without
  <2>2. \A e \in RoleEntries : store'[e] \in RoleVals
    BY <2>1 DEF RoleVals, RoleRecs
  <2>3. QED
    BY <1>4, <2>2 DEF RolesExpire, RolesShape
<1>5. ASSUME NEW w \in Editors, BeginStep(w)
      PROVE  RolesShape'
  <2>1. editor' \in [Editors -> EditorStates]
    BY <1>5 DEF BeginStep, Begin, RolesShape, EditorStates, Stages
  <2>2. QED
    BY <1>5, <2>1 DEF BeginStep, Begin, RolesShape
<1>6. ASSUME NEW w \in Editors, RoleFound(w)
      PROVE  RolesShape'
  <2>1. rread' \in [Actors -> ReadStates]
    BY <1>6 DEF RoleFound, RolesShape, ReadStates, NotRead, Actors, RoleVals, RoleRecs
  <2>2. FirstStage(editor[w].op, editor[w].asked, editor[w].text) \in Stages
    BY <1>6 DEF RoleFound, At, EditorInv, FirstStage, AfterTexts, Stages
  <2>3. editor' \in [Editors -> EditorStates]
    BY <1>6, <2>2, Gone, Ended DEF RoleFound
  <2>4. QED
    BY <1>6, <2>1, <2>3 DEF RoleFound, RolesShape
<1>7. ASSUME NEW w \in Editors, NameTaken(w)
      PROVE  RolesShape'
  <2>1. rread' \in [Actors -> ReadStates]
    BY <1>7 DEF NameTaken, RolesShape, ReadStates, NotRead, Actors, RoleVals, RoleRecs
  <2>2. editor' \in [Editors -> EditorStates]
    BY <1>7, Ended DEF NameTaken
  <2>3. QED
    BY <1>7, <2>1, <2>2 DEF NameTaken, RolesShape
<1>8. ASSUME NEW w \in Editors, InsertRole(w)
      PROVE  RolesShape'
  <2>1. editor[w].role \in RoleIds /\ (editor[w].asked \in Wishes)
    BY <1>8 DEF InsertRole, At, EditorInv
  <2>2. editor' \in [Editors -> EditorStates]
    BY <1>8, Gone, Ended DEF InsertRole, Stages
  <2>3. /\ perms' \in [RoleIds -> RoleRows] /\ wanted' \in [RoleIds -> RoleRows]
        /\ torn' \subseteq RoleIds /\ \A r \in RoleIds : perms[r] # NoValue => perms'[r] # NoValue
    BY <1>8, <2>1, Wanted DEF InsertRole, RolesShape, RoleRows
  <2>6. about' \in [RoleIds -> RoleTexts]
    BY <1>8, <2>1 DEF InsertRole, RolesShape, EditorStates
  <2>4. holders \subseteq Users \X {r \in RoleIds : perms'[r] # NoValue}
    BY <2>3 DEF RolesShape
  <2>5. QED
    BY <1>8, <2>2, <2>3, <2>4, <2>6 DEF InsertRole, RolesShape
<1>9. ASSUME NEW w \in Editors, ClearPerms(w)
      PROVE  RolesShape'
  <2>1. editor[w].role \in RoleIds /\ (editor[w].asked \in Wishes)
    BY <1>9 DEF ClearPerms, At, EditorInv
  <2>2. editor' \in [Editors -> EditorStates]
    BY <1>9, Gone, Ended DEF ClearPerms, Stages
  <2>3. Want(w) \in SUBSET Perms /\ editor[w].asked \in SUBSET Perms
    BY <2>1, Wanted
  <2>4. /\ perms' \in [RoleIds -> RoleRows] /\ wanted' \in [RoleIds -> RoleRows]
        /\ torn' \subseteq RoleIds /\ \A r \in RoleIds : perms[r] # NoValue => perms'[r] # NoValue
    BY <1>9, <2>1, <2>3 DEF ClearPerms, RolesShape, RoleRows
  <2>5. holders \subseteq Users \X {r \in RoleIds : perms'[r] # NoValue}
    BY <2>4 DEF RolesShape
  <2>6. QED
    BY <1>9, <2>2, <2>4, <2>5 DEF ClearPerms, RolesShape
<1>10. ASSUME NEW w \in Editors, FillPerms(w)
      PROVE  RolesShape'
  <2>1. editor[w].role \in RoleIds /\ (editor[w].asked \in Wishes)
    BY <1>10 DEF FillPerms, At, EditorInv
  <2>2. editor' \in [Editors -> EditorStates]
    BY <1>10, Gone, Ended DEF FillPerms, Stages
  <2>3. Want(w) \in SUBSET Perms /\ editor[w].asked \in SUBSET Perms
    BY <2>1, Wanted
  <2>4. perms[editor[w].role] # NoValue => perms[editor[w].role] \in SUBSET Perms
    BY <2>1 DEF RolesShape, RoleRows
  <2>5. /\ perms' \in [RoleIds -> RoleRows] /\ wanted' \in [RoleIds -> RoleRows]
        /\ torn' \subseteq RoleIds /\ \A r \in RoleIds : perms[r] # NoValue => perms'[r] # NoValue
    BY <1>10, <2>1, <2>3, <2>4 DEF FillPerms, RolesShape, RoleRows
  <2>6. holders \subseteq Users \X {r \in RoleIds : perms'[r] # NoValue}
    BY <2>5 DEF RolesShape
  <2>7. unsure' \subseteq RoleEntries /\ unbumped' \subseteq Users
    BY <1>10 DEF FillPerms, RolesShape, HoldersOf
  <2>8. QED
    BY <1>10, <2>2, <2>5, <2>6, <2>7 DEF FillPerms, RolesShape
<1>11. ASSUME NEW w \in Editors, BumpHolders(w)
      PROVE  RolesShape'
  <2>1. editor' \in [Editors -> EditorStates]
    BY <1>11, Gone, Ended DEF BumpHolders, Stages
  <2>2. version' \in [Users -> 1..MaxVersion]
    BY <1>11 DEF BumpHolders, Bumped, HoldersOf, RolesShape
  <2>3. QED
    BY <1>11, <2>1, <2>2 DEF BumpHolders, RolesShape
<1>12. ASSUME NEW w \in Editors, RereadRole(w)
      PROVE  RolesShape'
  <2>1. editor' \in [Editors -> EditorStates]
    BY <1>12, Gone, Ended DEF RereadRole, Stages
  <2>2. QED
    BY <1>12, <2>1 DEF RereadRole, RolesShape
<1>13. ASSUME NEW w \in Editors, DeleteRole(w)
      PROVE  RolesShape'
  <2>1. editor[w].role \in RoleIds /\ (TRUE)
    BY <1>13 DEF DeleteRole, At, EditorInv
  <2>2. editor' \in [Editors -> EditorStates]
    BY <1>13, Gone, Ended DEF DeleteRole, Stages
  <2>3. /\ perms' \in [RoleIds -> RoleRows] /\ wanted' \in [RoleIds -> RoleRows]
        /\ \A r \in RoleIds : r # editor[w].role => perms'[r] = perms[r]
    BY <1>13, <2>1 DEF DeleteRole, DropRow, RolesShape, RoleRows
  <2>7. about' \in [RoleIds -> RoleTexts]
    BY <1>13 DEF DeleteRole, DropRow, RolesShape, RoleTexts
  <2>4. holders' \subseteq Users \X {r \in RoleIds : perms'[r] # NoValue}
    BY <1>13, <2>3 DEF DeleteRole, DropRow, RolesShape
  <2>5. version' \in [Users -> 1..MaxVersion]
    BY <1>13 DEF DeleteRole, Bumped, HoldersOf, RolesShape
  <2>6. QED
    BY <1>13, <2>2, <2>3, <2>4, <2>5, <2>7 DEF DeleteRole, RolesShape
<1>14. ASSUME NEW w \in Editors, DeleteRoles(w)
      PROVE  RolesShape'
  <2>1. editor[w].role \in RoleIds /\ (TRUE)
    BY <1>14 DEF DeleteRoles, At, EditorInv
  <2>2. editor' \in [Editors -> EditorStates]
    BY <1>14, Gone, Ended DEF DeleteRoles, Stages
  <2>3. /\ perms' \in [RoleIds -> RoleRows] /\ wanted' \in [RoleIds -> RoleRows]
        /\ \A r \in RoleIds : r # editor[w].role => perms'[r] = perms[r]
    BY <1>14, <2>1 DEF DeleteRoles, DropRow, RolesShape, RoleRows
  <2>7. about' \in [RoleIds -> RoleTexts]
    BY <1>14 DEF DeleteRoles, DropRow, RolesShape, RoleTexts
  <2>4. holders' \subseteq Users \X {r \in RoleIds : perms'[r] # NoValue}
    BY <1>14, <2>3 DEF DeleteRoles, DropRow, RolesShape
  <2>5. unbumped' \subseteq Users
    BY <1>14 DEF DeleteRoles, RolesShape, HoldersOf
  <2>6. QED
    BY <1>14, <2>2, <2>3, <2>4, <2>5, <2>7 DEF DeleteRoles, RolesShape
<1>15. ASSUME NEW w \in Editors, InvalidateRoles(w)
      PROVE  RolesShape'
  <2>1. /\ StoreInv'
        /\ \A j \in CacheKeys : store'[j] = IF j \in RoleEntries THEN NoValue ELSE store[j]
    <3>1. Invalidate(RoleEntries)
      BY <1>15 DEF InvalidateRoles
    <3>2. QED
      BY <3>1, Removed
  <2>2. editor' \in [Editors -> EditorStates]
    BY <1>15, Gone, Ended DEF InvalidateRoles
  <2>3. \A e \in RoleEntries : store'[e] \in RoleVals
    BY <2>1 DEF RoleVals, RoleRecs, RolesShape
  <2>4. QED
    BY <1>15, <2>2, <2>3 DEF InvalidateRoles, RolesShape
<1>16. ASSUME NEW w \in Editors, InvalidateRolesFails(w)
      PROVE  RolesShape'
  <2>1. /\ StoreInv'
        /\ \A j \in CacheKeys : store'[j] = store[j] \/ (j \in RoleEntries /\ store'[j] = NoValue)
    <3>1. InvalidateFails(RoleEntries)
      BY <1>16 DEF InvalidateRolesFails
    <3>2. QED
      BY <3>1, RemovalFailed
  <2>2. editor' \in [Editors -> EditorStates]
    BY <1>16, Gone, Ended DEF InvalidateRolesFails
  <2>3. \A e \in RoleEntries : store'[e] \in RoleVals
    BY <2>1 DEF RoleVals, RoleRecs, RolesShape
  <2>4. QED
    BY <1>16, <2>2, <2>3 DEF InvalidateRolesFails, RolesShape
<1>17. ASSUME NEW w \in Editors, EditFails(w)
      PROVE  RolesShape'
  <2>1. editor' \in [Editors -> EditorStates]
    BY <1>17, Gone, Ended DEF EditFails
  <2>2. torn' \subseteq RoleIds
    BY <1>17 DEF EditFails, At, RolesShape, EditorInv
  <2>3. unsure' \subseteq RoleEntries /\ unbumped' \subseteq Users
    BY <1>17 DEF EditFails, RolesShape, HoldersOf
  <2>4. QED
    BY <1>17, <2>1, <2>2, <2>3 DEF EditFails, RolesShape
<1>18. ASSUME NEW w \in Editors, At(w, "check"), LookUpRole(w, RoleEntry(editor[w].role))
      PROVE  RolesShape'
  <2>1. w \in Actors /\ RoleEntry(editor[w].role) \in RoleEntries
    BY <1>18 DEF Actors, At, EditorInv, RoleEntries
  <2>2. QED
    BY <1>1, <1>18, <2>1
<1>19. \A a \in RoleReaders : a \in Actors
  BY DEF Actors
<1>20. ASSUME NEW w \in Editors, Describe(w)
      PROVE  RolesShape'
  <2>1. editor[w].role \in RoleIds /\ AfterTexts(editor[w].asked) \in Stages
    BY <1>20 DEF Describe, At, EditorInv, AfterTexts, Stages
  <2>2. editor' \in [Editors -> EditorStates]
    BY <1>20, <2>1, Gone DEF Describe
  <2>3. about' \in [RoleIds -> RoleTexts]
    BY <1>20, <2>1 DEF Describe, RolesShape, EditorStates
  <2>4. QED
    BY <1>20, <2>2, <2>3 DEF Describe, RolesShape
<1>21. QED
  BY <1>1, <1>2, <1>3, <1>4, <1>5, <1>6, <1>7, <1>8,
     <1>9, <1>10, <1>11, <1>12, <1>13, <1>14, <1>15, <1>16, <1>17,
     <1>18, <1>19, <1>20, Begins DEF RolesNext, EditorStep

\* Requests keep the role and the permissions they began with.
LEMMA RolesEditorStep ==
    ASSUME StoreInv, RolesShape, EditorInv, RolesNext
    PROVE  EditorInv'
<1> USE RolesConstants
<1>1. ASSUME NEW a \in Actors, NEW e \in RoleEntries, LookUpRole(a, e)
      PROVE  EditorInv'
  <2>1. /\ editor' = editor
        /\ \A b \in Actors \ {a} : rread'[b] = rread[b]
        /\ rread'[a].at \in {"fetch", "save"} => rread'[a].entry = e
    BY <1>1 DEF LookUpRole, Answered, NotRead, RolesShape
  <2>2. QED
    BY <2>1 DEF EditorInv
<1>2. ASSUME NEW a \in Actors, FetchRole(a)
      PROVE  EditorInv'
  <2>1. /\ editor' = editor
        /\ \A b \in Actors \ {a} : rread'[b] = rread[b]
        /\ rread'[a].entry = rread[a].entry /\ rread[a].at = "fetch"
    BY <1>2 DEF FetchRole, RolesShape, ReadStates
  <2>2. QED
    BY <2>1 DEF EditorInv
<1>3. ASSUME NEW a \in Actors, SaveRole(a)
      PROVE  EditorInv'
  <2>1. /\ editor' = editor
        /\ \A b \in Actors \ {a} : rread'[b] = rread[b]
        /\ rread'[a].at = "answer"
    BY <1>3 DEF SaveRole, Answered, NotRead, RolesShape
  <2>2. QED
    BY <2>1 DEF EditorInv
<1>4. ASSUME RolesExpire
      PROVE  EditorInv'
  BY <1>4 DEF RolesExpire, EditorInv
<1>5. ASSUME NEW w \in Editors, BeginStep(w)
      PROVE  EditorInv'
  <2>1. PICK op \in Ops, r \in RoleIds, asked \in Wishes \union {NoValue}, text \in RoleTexts,
             stage \in {"check", "insert", "describe", "clear", "bump", "drop"} :
            /\ Begin(w, op, r, asked, text, stage)
            /\ stage = "check" => op \in {"update", "delete"}
            /\ stage \in {"describe", "clear"} => op \in {"update", "view_edit"}
            /\ stage \in {"insert", "clear"} => asked \in Wishes
            /\ stage = "describe" => text # NoValue
    BY <1>5 DEF BeginStep
  <2>2. /\ rread' = rread /\ \A v \in Editors \ {w} : editor'[v] = editor[v]
        /\ editor'[w] = [at |-> stage, op |-> op, role |-> r, asked |-> asked, text |-> text]
    BY <2>1 DEF Begin, RolesShape
  <2>3. QED
    BY <2>1, <2>2 DEF EditorInv
<1>6. ASSUME NEW w \in Editors, RoleFound(w)
      PROVE  EditorInv'
  <2>1. /\ w \in Actors /\ \A b \in Actors \ {w} : rread'[b] = rread[b]
        /\ rread'[w].at = "idle"
    BY <1>6 DEF RoleFound, RolesShape, NotRead, Actors
  <2>2. /\ editor[w].role \in RoleIds /\ editor[w].asked \in Wishes \union {NoValue}
        /\ editor[w].op \in {"update", "delete"}
    BY <1>6 DEF RoleFound, At, EditorInv, RolesShape, EditorStates
  <2>3. /\ FirstStage(editor[w].op, editor[w].asked, editor[w].text) \in {"describe", "bump", "clear", "drop"}
        /\ FirstStage(editor[w].op, editor[w].asked, editor[w].text) = "describe" =>
              editor[w].op = "update" /\ editor[w].text # NoValue
        /\ FirstStage(editor[w].op, editor[w].asked, editor[w].text) = "clear" =>
              editor[w].asked \in Wishes /\ editor[w].op = "update"
    BY <2>2 DEF FirstStage, AfterTexts
  <2>4. CASE rread[w].val # NoValue
    <3>1. GoTo(w, FirstStage(editor[w].op, editor[w].asked, editor[w].text))
      BY <1>6, <2>4 DEF RoleFound
    <3>2. QED
      BY <2>1, <2>2, <2>3, <3>1, Gone DEF EditorInv, Stages
  <2>5. CASE rread[w].val = NoValue
    <3>1. Ends(w, "failed")
      BY <1>6, <2>5 DEF RoleFound
    <3>2. QED
      BY <2>1, <3>1, Ended DEF EditorInv
  <2>6. QED
    BY <2>4, <2>5
<1>7. ASSUME NEW w \in Editors, NameTaken(w)
      PROVE  EditorInv'
  <2>1. /\ w \in Actors /\ \A b \in Actors \ {w} : rread'[b] = rread[b]
        /\ rread'[w].at = "idle"
    BY <1>7 DEF NameTaken, RolesShape, NotRead, Actors
  <2>2. QED
    BY <1>7, <2>1, Ended DEF NameTaken, EditorInv
<1>8. ASSUME NEW w \in Editors, InsertRole(w)
      PROVE  EditorInv'
  BY <1>8, Gone, Ended DEF InsertRole, At, EditorInv, Stages
<1>9. ASSUME NEW w \in Editors, ClearPerms(w)
      PROVE  EditorInv'
  BY <1>9, Gone, Ended DEF ClearPerms, At, EditorInv, Stages
<1>10. ASSUME NEW w \in Editors, FillPerms(w)
      PROVE  EditorInv'
  BY <1>10, Gone, Ended DEF FillPerms, At, EditorInv, Stages
<1>11. ASSUME NEW w \in Editors, BumpHolders(w)
      PROVE  EditorInv'
  BY <1>11, Gone, Ended DEF BumpHolders, At, EditorInv, Stages
<1>12. ASSUME NEW w \in Editors, RereadRole(w)
      PROVE  EditorInv'
  BY <1>12, Gone, Ended DEF RereadRole, At, EditorInv, Stages
<1>13. ASSUME NEW w \in Editors, DeleteRole(w)
      PROVE  EditorInv'
  BY <1>13, Gone, Ended DEF DeleteRole, At, EditorInv, Stages
<1>14. ASSUME NEW w \in Editors, DeleteRoles(w)
      PROVE  EditorInv'
  BY <1>14, Gone, Ended DEF DeleteRoles, At, EditorInv, Stages
<1>15. ASSUME NEW w \in Editors, InvalidateRoles(w)
      PROVE  EditorInv'
  BY <1>15, Ended DEF InvalidateRoles, EditorInv
<1>16. ASSUME NEW w \in Editors, InvalidateRolesFails(w)
      PROVE  EditorInv'
  BY <1>16, Ended DEF InvalidateRolesFails, EditorInv
<1>17. ASSUME NEW w \in Editors, EditFails(w)
      PROVE  EditorInv'
  BY <1>17, Ended DEF EditFails, EditorInv
<1>18. ASSUME NEW w \in Editors, At(w, "check"), LookUpRole(w, RoleEntry(editor[w].role))
      PROVE  EditorInv'
  <2>1. w \in Actors /\ RoleEntry(editor[w].role) \in RoleEntries
    BY <1>18 DEF Actors, At, EditorInv, RoleEntries
  <2>2. QED
    BY <1>1, <1>18, <2>1
<1>19. \A a \in RoleReaders : a \in Actors
  BY DEF Actors
<1>20. ASSUME NEW w \in Editors, Describe(w)
      PROVE  EditorInv'
  <2>1. /\ editor[w].role \in RoleIds /\ editor[w].op \in {"update", "view_edit"}
        /\ editor[w].asked \in Wishes \union {NoValue}
    BY <1>20 DEF Describe, At, EditorInv, RolesShape, EditorStates
  <2>2. /\ AfterTexts(editor[w].asked) \in {"bump", "clear"}
        /\ AfterTexts(editor[w].asked) = "clear" => editor[w].asked \in Wishes
    BY <2>1 DEF AfterTexts
  <2>3. QED
    BY <1>20, <2>1, <2>2, Gone DEF Describe, EditorInv, Stages
<1>21. QED
  BY <1>1, <1>2, <1>3, <1>4, <1>5, <1>6, <1>7, <1>8,
     <1>9, <1>10, <1>11, <1>12, <1>13, <1>14, <1>15, <1>16, <1>17,
     <1>18, <1>19, <1>20, Begins DEF RolesNext, EditorStep

(* The INSERT of an edit meets an empty set of permissions, one that another
   edit is responsible for, or a role whose edits have overlapped. *)
LEMMA RolesPermsStep ==
    ASSUME StoreInv, RolesShape, EditorInv, FillInv, PermsOfOneEdit, RolesNext
    PROVE  FillInv' /\ PermsOfOneEdit'
<1> USE RolesConstants
<1>1. ASSUME NEW a \in Actors, NEW e \in RoleEntries, LookUpRole(a, e)
      PROVE  FillInv' /\ PermsOfOneEdit'
  BY <1>1 DEF LookUpRole, FillInv, PermsOfOneEdit
<1>2. ASSUME NEW a \in Actors, FetchRole(a)
      PROVE  FillInv' /\ PermsOfOneEdit'
  BY <1>2 DEF FetchRole, FillInv, PermsOfOneEdit
<1>3. ASSUME NEW a \in Actors, SaveRole(a)
      PROVE  FillInv' /\ PermsOfOneEdit'
  BY <1>3 DEF SaveRole, FillInv, PermsOfOneEdit
<1>4. ASSUME RolesExpire
      PROVE  FillInv' /\ PermsOfOneEdit'
  BY <1>4 DEF RolesExpire, FillInv, PermsOfOneEdit
<1>5. ASSUME NEW w \in Editors, BeginStep(w)
      PROVE  FillInv' /\ PermsOfOneEdit'
  <2>1. /\ UNCHANGED <<perms, wanted, torn>> /\ editor[w].at = "new" /\ editor'[w].at # "fill"
        /\ \A v \in Editors \ {w} : editor'[v] = editor[v]
    BY <1>5 DEF BeginStep, Begin, At, RolesShape
  <2>2. QED
    BY <2>1 DEF FillInv, PermsOfOneEdit
<1>6. ASSUME NEW w \in Editors, RoleFound(w)
      PROVE  FillInv' /\ PermsOfOneEdit'
  <2>1. /\ FirstStage(editor[w].op, editor[w].asked, editor[w].text) \in Stages
        /\ FirstStage(editor[w].op, editor[w].asked, editor[w].text) # "fill"
    BY <1>6 DEF RoleFound, At, EditorInv, FirstStage, AfterTexts, Stages
  <2>2. /\ UNCHANGED <<perms, wanted, torn>> /\ editor[w].at # "fill" /\ editor'[w].at # "fill"
        /\ \A v \in Editors \ {w} : editor'[v] = editor[v]
    BY <1>6, <2>1, Gone, Ended DEF RoleFound, At
  <2>3. QED
    BY <2>2 DEF FillInv, PermsOfOneEdit
<1>7. ASSUME NEW w \in Editors, NameTaken(w)
      PROVE  FillInv' /\ PermsOfOneEdit'
  <2>1. /\ UNCHANGED <<perms, wanted, torn>> /\ editor[w].at # "fill" /\ editor'[w].at # "fill"
        /\ \A v \in Editors \ {w} : editor'[v] = editor[v]
    BY <1>7, Gone, Ended DEF NameTaken, At, Stages
  <2>2. QED
    BY <2>1 DEF FillInv, PermsOfOneEdit
<1>8. ASSUME NEW w \in Editors, InsertRole(w)
      PROVE  FillInv' /\ PermsOfOneEdit'
  <2> DEFINE r == editor[w].role
  <2>1. r \in RoleIds /\ editor[w].at = "insert"
    BY <1>8 DEF InsertRole, At, EditorInv
  <2>2. CASE perms[r] = NoValue
    <3>1. /\ perms' = [perms EXCEPT ![r] = {}] /\ wanted' = [wanted EXCEPT ![r] = editor[w].asked]
          /\ editor[w].asked = {} \/ r \in torn' \/ editor'[w].at = "fill"
          /\ \A q \in RoleIds \ {r} : q \in torn => q \in torn'
          /\ \A v \in Editors \ {w} : editor'[v] = editor[v]
          /\ editor'[w].role = r
      BY <1>8, <2>2, Gone DEF InsertRole, Stages, Cut
    <3>2. /\ perms'[r] = {} /\ wanted'[r] = editor[w].asked
          /\ \A q \in RoleIds \ {r} : perms'[q] = perms[q] /\ wanted'[q] = wanted[q]
      BY <2>1, <3>1 DEF RolesShape
    <3>3. FillInv'
      BY <2>1, <3>1, <3>2 DEF FillInv, EditorInv
    <3>4. PermsOfOneEdit'
      <4>1. ASSUME NEW q \in RoleIds, perms'[q] # wanted'[q]
            PROVE  \/ q \in torn'
                   \/ \E v \in Editors : editor'[v].role = q /\ editor'[v].at = "fill"
        <5>1. CASE q = editor[w].role
          BY <3>1, <3>2, <4>1, <5>1
        <5>2. CASE q # editor[w].role
          <6>1. \/ q \in torn
                \/ \E v \in Editors \ {w} : editor[v].role = q /\ editor[v].at = "fill"
            BY <2>1, <3>1, <3>2, <4>1, <5>2 DEF PermsOfOneEdit
          <6>2. QED
            BY <2>1, <3>1, <3>2, <5>2, <6>1
        <5>3. QED
          BY <5>1, <5>2
      <4>2. QED
        BY <4>1 DEF PermsOfOneEdit
    <3>5. QED
      BY <3>3, <3>4
  <2>3. CASE perms[r] # NoValue
    <3>1. /\ UNCHANGED <<perms, wanted, torn>> /\ editor'[w].at # "fill"
          /\ \A v \in Editors \ {w} : editor'[v] = editor[v]
      BY <1>8, <2>3, Ended DEF InsertRole
    <3>2. QED
      BY <2>1, <3>1 DEF FillInv, PermsOfOneEdit
  <2>4. QED
    BY <2>2, <2>3
<1>9. ASSUME NEW w \in Editors, ClearPerms(w)
      PROVE  FillInv' /\ PermsOfOneEdit'
  <2> DEFINE r == editor[w].role
  <2>1. r \in RoleIds /\ editor[w].at = "clear"
    BY <1>9 DEF ClearPerms, At, EditorInv
  <2>2. /\ \A v \in Editors \ {w} : editor'[v] = editor[v]
        /\ editor'[w].role = r /\ editor'[w].at = (IF Want(w) = {} THEN "bump" ELSE "fill")
        /\ torn \subseteq torn' /\ (Want(w) = editor[w].asked \/ r \in torn')
    BY <1>9, Gone DEF ClearPerms, Stages, Cut
  <2>3. CASE perms[r] = NoValue
    <3>1. UNCHANGED <<perms, wanted>>
      BY <1>9, <2>3 DEF ClearPerms
    <3>2. FillInv'
      BY <2>1, <2>2, <2>3, <3>1 DEF FillInv, EditorInv
    <3>3. PermsOfOneEdit'
      BY <2>1, <2>2, <3>1 DEF PermsOfOneEdit
    <3>4. QED
      BY <3>2, <3>3
  <2>4. CASE perms[r] # NoValue
    <3>1. /\ perms'[r] = {} /\ wanted'[r] = editor[w].asked
          /\ \A q \in RoleIds \ {r} : perms'[q] = perms[q] /\ wanted'[q] = wanted[q]
      BY <1>9, <2>1, <2>4 DEF ClearPerms, RolesShape
    <3>2. FillInv'
      BY <2>1, <2>2, <3>1 DEF FillInv, EditorInv
    <3>3. PermsOfOneEdit'
      <4>1. ASSUME NEW q \in RoleIds, perms'[q] # wanted'[q]
            PROVE  \/ q \in torn'
                   \/ \E v \in Editors : editor'[v].role = q /\ editor'[v].at = "fill"
        <5>1. CASE q = editor[w].role
          BY <2>2, <3>1, <4>1, <5>1
        <5>2. CASE q # editor[w].role
          <6>1. \/ q \in torn
                \/ \E v \in Editors \ {w} : editor[v].role = q /\ editor[v].at = "fill"
            BY <2>1, <2>2, <3>1, <4>1, <5>2 DEF PermsOfOneEdit
          <6>2. QED
            BY <2>1, <2>2, <3>1, <5>2, <6>1
        <5>3. QED
          BY <5>1, <5>2
      <4>2. QED
        BY <4>1 DEF PermsOfOneEdit
    <3>4. QED
      BY <3>2, <3>3
  <2>5. QED
    BY <2>3, <2>4
<1>10. ASSUME NEW w \in Editors, FillPerms(w)
      PROVE  FillInv' /\ PermsOfOneEdit'
  <2> DEFINE r == editor[w].role
             fits == perms[r] # NoValue /\ perms[r] \intersect Want(w) = {}
  <2>1. r \in RoleIds /\ editor[w].at = "fill"
    BY <1>10 DEF FillPerms, At, EditorInv
  <2>2. CASE fits
    <3>1. /\ perms' = [perms EXCEPT ![r] = @ \union Want(w)]
          /\ wanted' = [wanted EXCEPT ![r] = editor[w].asked]
          /\ torn \subseteq torn' /\ (Overlap(w) => r \in torn')
          /\ Want(w) = editor[w].asked \/ r \in torn'
          /\ editor'[w].at # "fill" /\ \A v \in Editors \ {w} : editor'[v] = editor[v]
      BY <1>10, <2>2, Gone DEF FillPerms, Stages, Cut
    <3>2. /\ perms'[r] = perms[r] \union Want(w) /\ wanted'[r] = editor[w].asked
          /\ \A q \in RoleIds \ {r} : perms'[q] = perms[q] /\ wanted'[q] = wanted[q]
      BY <2>1, <3>1 DEF RolesShape
    <3>3. perms[r] = {} \/ r \in torn
      BY <2>1, <2>2 DEF FillInv
    <3>4. FillInv'
      <4>1. ASSUME NEW v \in Editors, editor'[v].at = "fill"
            PROVE  perms'[editor'[v].role] \in {{}, NoValue} \/ editor'[v].role \in torn'
        <5>1. v # w /\ editor'[v] = editor[v] /\ editor[v].role \in RoleIds
          BY <3>1, <4>1 DEF EditorInv
        <5>2. CASE editor[v].role = r
          BY <3>1, <4>1, <5>1, <5>2 DEF Overlap
        <5>3. CASE editor[v].role # r
          BY <3>1, <3>2, <4>1, <5>1, <5>3 DEF FillInv
        <5>4. QED
          BY <5>2, <5>3
      <4>2. QED
        BY <4>1 DEF FillInv
    <3>5. PermsOfOneEdit'
      <4>1. ASSUME NEW q \in RoleIds, perms'[q] # wanted'[q]
            PROVE  \/ q \in torn'
                   \/ \E v \in Editors : editor'[v].role = q /\ editor'[v].at = "fill"
        <5>1. CASE q = editor[w].role
          <6>1. perms[r] = {} => perms'[r] = Want(w)
            BY <3>2
          <6>2. QED
            BY <3>1, <3>2, <3>3, <4>1, <5>1, <6>1
        <5>2. CASE q # editor[w].role
          <6>1. \/ q \in torn
                \/ \E v \in Editors \ {w} : editor[v].role = q /\ editor[v].at = "fill"
            BY <2>1, <3>1, <3>2, <4>1, <5>2 DEF PermsOfOneEdit
          <6>2. QED
            BY <2>1, <3>1, <3>2, <5>2, <6>1
        <5>3. QED
          BY <5>1, <5>2
      <4>2. QED
        BY <4>1 DEF PermsOfOneEdit
    <3>6. QED
      BY <3>4, <3>5
  <2>3. CASE ~fits
    <3>1. /\ UNCHANGED <<perms, wanted>> /\ torn' = torn \union {r}
          /\ editor'[w].at # "fill" /\ \A v \in Editors \ {w} : editor'[v] = editor[v]
      BY <1>10, <2>3, Ended DEF FillPerms
    <3>2. FillInv'
      BY <3>1 DEF FillInv
    <3>3. PermsOfOneEdit'
      BY <2>1, <3>1 DEF PermsOfOneEdit
    <3>4. QED
      BY <3>2, <3>3
  <2>4. QED
    BY <2>2, <2>3
<1>11. ASSUME NEW w \in Editors, BumpHolders(w)
      PROVE  FillInv' /\ PermsOfOneEdit'
  <2>1. /\ UNCHANGED <<perms, wanted, torn>> /\ editor[w].at # "fill" /\ editor'[w].at # "fill"
        /\ \A v \in Editors \ {w} : editor'[v] = editor[v]
    BY <1>11, Gone, Ended DEF BumpHolders, At, Stages
  <2>2. QED
    BY <2>1 DEF FillInv, PermsOfOneEdit
<1>12. ASSUME NEW w \in Editors, RereadRole(w)
      PROVE  FillInv' /\ PermsOfOneEdit'
  <2>1. /\ UNCHANGED <<perms, wanted, torn>> /\ editor[w].at # "fill" /\ editor'[w].at # "fill"
        /\ \A v \in Editors \ {w} : editor'[v] = editor[v]
    BY <1>12, Gone, Ended DEF RereadRole, At, Stages
  <2>2. QED
    BY <2>1 DEF FillInv, PermsOfOneEdit
<1>13. ASSUME NEW w \in Editors, DeleteRole(w)
      PROVE  FillInv' /\ PermsOfOneEdit'
  <2> DEFINE r == editor[w].role
  <2>1. /\ r \in RoleIds /\ editor[w].at = "drop" /\ editor'[w].at # "fill" /\ torn' = torn
        /\ \A v \in Editors \ {w} : editor'[v] = editor[v]
    BY <1>13, Gone DEF DeleteRole, At, EditorInv, Stages
  <2>2. /\ perms'[r] = NoValue /\ wanted'[r] = NoValue
        /\ \A q \in RoleIds \ {r} : perms'[q] = perms[q] /\ wanted'[q] = wanted[q]
    BY <1>13, <2>1 DEF DeleteRole, DropRow, RolesShape
  <2>3. FillInv'
    BY <2>1, <2>2 DEF FillInv, EditorInv
  <2>4. PermsOfOneEdit'
    BY <2>1, <2>2 DEF PermsOfOneEdit
  <2>5. QED
    BY <2>3, <2>4
<1>14. ASSUME NEW w \in Editors, DeleteRoles(w)
      PROVE  FillInv' /\ PermsOfOneEdit'
  <2> DEFINE r == editor[w].role
  <2>1. /\ r \in RoleIds /\ editor[w].at = "drop" /\ editor'[w].at # "fill" /\ torn' = torn
        /\ \A v \in Editors \ {w} : editor'[v] = editor[v]
    BY <1>14, Gone DEF DeleteRoles, At, EditorInv, Stages
  <2>2. /\ perms'[r] = NoValue /\ wanted'[r] = NoValue
        /\ \A q \in RoleIds \ {r} : perms'[q] = perms[q] /\ wanted'[q] = wanted[q]
    BY <1>14, <2>1 DEF DeleteRoles, DropRow, RolesShape
  <2>3. FillInv'
    BY <2>1, <2>2 DEF FillInv, EditorInv
  <2>4. PermsOfOneEdit'
    BY <2>1, <2>2 DEF PermsOfOneEdit
  <2>5. QED
    BY <2>3, <2>4
<1>15. ASSUME NEW w \in Editors, InvalidateRoles(w)
      PROVE  FillInv' /\ PermsOfOneEdit'
  <2>1. /\ UNCHANGED <<perms, wanted, torn>> /\ editor[w].at # "fill" /\ editor'[w].at # "fill"
        /\ \A v \in Editors \ {w} : editor'[v] = editor[v]
    BY <1>15, Gone, Ended DEF InvalidateRoles, At, Stages
  <2>2. QED
    BY <2>1 DEF FillInv, PermsOfOneEdit
<1>16. ASSUME NEW w \in Editors, InvalidateRolesFails(w)
      PROVE  FillInv' /\ PermsOfOneEdit'
  <2>1. /\ UNCHANGED <<perms, wanted, torn>> /\ editor[w].at # "fill" /\ editor'[w].at # "fill"
        /\ \A v \in Editors \ {w} : editor'[v] = editor[v]
    BY <1>16, Gone, Ended DEF InvalidateRolesFails, At, Stages
  <2>2. QED
    BY <2>1 DEF FillInv, PermsOfOneEdit
<1>17. ASSUME NEW w \in Editors, EditFails(w)
      PROVE  FillInv' /\ PermsOfOneEdit'
  <2>1. /\ UNCHANGED <<perms, wanted>> /\ editor'[w].at # "fill" /\ torn \subseteq torn'
        /\ editor[w].at = "fill" => editor[w].role \in torn'
        /\ \A v \in Editors \ {w} : editor'[v] = editor[v]
    BY <1>17, Ended DEF EditFails, At
  <2>2. FillInv'
    BY <2>1 DEF FillInv
  <2>3. PermsOfOneEdit'
    BY <2>1 DEF PermsOfOneEdit
  <2>4. QED
    BY <2>2, <2>3
<1>18. ASSUME NEW w \in Editors, At(w, "check"), LookUpRole(w, RoleEntry(editor[w].role))
      PROVE  FillInv' /\ PermsOfOneEdit'
  <2>1. w \in Actors /\ RoleEntry(editor[w].role) \in RoleEntries
    BY <1>18 DEF Actors, At, EditorInv, RoleEntries
  <2>2. QED
    BY <1>1, <1>18, <2>1
<1>19. \A a \in RoleReaders : a \in Actors
  BY DEF Actors
<1>20. ASSUME NEW w \in Editors, Describe(w)
      PROVE  FillInv' /\ PermsOfOneEdit'
  <2>1. AfterTexts(editor[w].asked) \in {"bump", "clear"}
    BY DEF AfterTexts
  <2>2. /\ UNCHANGED <<perms, wanted, torn>> /\ editor[w].at # "fill" /\ editor'[w].at # "fill"
        /\ \A v \in Editors \ {w} : editor'[v] = editor[v]
    BY <1>20, <2>1, Gone DEF Describe, At, Stages
  <2>3. QED
    BY <2>2 DEF FillInv, PermsOfOneEdit
<1>21. QED
  BY <1>1, <1>2, <1>3, <1>4, <1>5, <1>6, <1>7, <1>8,
     <1>9, <1>10, <1>11, <1>12, <1>13, <1>14, <1>15, <1>16, <1>17,
     <1>18, <1>19, <1>20, Begins DEF RolesNext, EditorStep

\* The statements of an edit leave the cached roles right, or to be deleted.
LEMMA RolesCovered ==
    ASSUME RolesCacheFresh, UNCHANGED store, unsure \subseteq unsure', NEW w \in Editors,
           \A v \in Editors \ {w} : editor'[v] = editor[v],
           \A q \in RoleIds \ {editor[w].role} : perms'[q] = perms[q] /\ about'[q] = about[q],
           \/ UNCHANGED <<perms, about>> /\ ~Written(w)
           \/ Written(w)' /\ editor'[w].role = editor[w].role
           \/ unsure' = RoleEntries
    PROVE  RolesCacheFresh'
<1>1. SUFFICES ASSUME NEW e \in RoleEntries, store'[e] \notin {NoValue, RoleValue(e)'},
                      e \notin unsure'
               PROVE  \E v \in Editors : /\ e \in {AllRoles, RoleEntry(editor'[v].role)}
                                         /\ Written(v)'
  BY DEF RolesCacheFresh
<1>2. CASE e \in {AllRoles, RoleEntry(editor[w].role)} /\ Written(w)'
           /\ editor'[w].role = editor[w].role
  BY <1>2
<1>3. CASE ~(/\ e \in {AllRoles, RoleEntry(editor[w].role)}
             /\ Written(w)' /\ editor'[w].role = editor[w].role)
  <2>1. \/ UNCHANGED <<perms, about>> /\ ~Written(w)
        \/ e \notin {AllRoles, RoleEntry(editor[w].role)}
    BY <1>1, <1>3
  <2>2. RoleValue(e)' = RoleValue(e)
    BY <2>1, RoleKept, RolesKept
  <2>3. PICK v \in Editors : e \in {AllRoles, RoleEntry(editor[v].role)} /\ Written(v)
    BY <1>1, <2>2 DEF RolesCacheFresh
  <2>4. v # w
    BY <2>1, <2>3
  <2>5. Written(v)' /\ editor'[v].role = editor[v].role
    BY <2>3, <2>4 DEF Written
  <2>6. QED
    BY <2>3, <2>5
<1>4. QED
  BY <1>2, <1>3

(* An edit that has changed a table is on its way to delete the hash, or
   ends with every entry unsure. *)
LEMMA RolesFreshStep ==
    ASSUME StoreInv, RolesShape, EditorInv, RolesCacheFresh, RolesNext
    PROVE  RolesCacheFresh'
<1> USE RolesConstants
<1>1. ASSUME NEW a \in Actors, NEW e \in RoleEntries, LookUpRole(a, e)
      PROVE  RolesCacheFresh'
  BY <1>1, RolesKept DEF LookUpRole, RolesCacheFresh, Written
<1>2. ASSUME NEW a \in Actors, FetchRole(a)
      PROVE  RolesCacheFresh'
  BY <1>2, RolesKept DEF FetchRole, RolesCacheFresh, Written
<1>3. ASSUME NEW a \in Actors, SaveRole(a)
      PROVE  RolesCacheFresh'
  <2>1. rread[a].entry \in RoleEntries /\ rread[a].entry \in CacheKeys
    BY <1>3 DEF SaveRole, EditorInv
  <2>2. /\ StoreInv'
        /\ \A j \in CacheKeys :
               \/ store'[j] = store[j]
               \/ j = rread[a].entry /\ rread[a].val # NoValue /\ store'[j] = rread[a].val
    BY <1>3, <2>1, Saved DEF SaveRole
  <2>3. /\ UNCHANGED <<perms, about, editor>> /\ unsure \subseteq unsure'
        /\ rread[a].val # RoleValue(rread[a].entry) => rread[a].entry \in unsure'
    BY <1>3 DEF SaveRole
  <2>4. ASSUME NEW e \in RoleEntries, store'[e] \notin {NoValue, RoleValue(e)'}, e \notin unsure'
        PROVE  store[e] \notin {NoValue, RoleValue(e)}
    <3>1. RoleValue(e)' = RoleValue(e) /\ e \in CacheKeys
      BY <2>3, RolesKept
    <3>2. QED
      BY <2>2, <2>3, <2>4, <3>1
  <2>5. QED
    BY <2>3, <2>4 DEF RolesCacheFresh, Written
<1>4. ASSUME RolesExpire
      PROVE  RolesCacheFresh'
  <2>1. /\ StoreInv'
        /\ \A j \in CacheKeys : store'[j] = IF j \in RoleEntries THEN NoValue ELSE store[j]
    BY <1>4 DEF RolesExpire, StoreInv, Without
  <2>2. QED
    BY <2>1 DEF RolesCacheFresh
<1>5. ASSUME NEW w \in Editors, BeginStep(w)
      PROVE  RolesCacheFresh'
  <2>1. /\ UNCHANGED store /\ unsure \subseteq unsure'
        /\ \A v \in Editors \ {w} : editor'[v] = editor[v]
    BY <1>5 DEF BeginStep, At, Stages, RolesShape, Begin
  <2>2. \A q \in RoleIds \ {editor[w].role} : perms'[q] = perms[q] /\ about'[q] = about[q]
    BY <1>5 DEF BeginStep, RolesShape, Begin
  <2>3. UNCHANGED <<perms, about>> /\ ~Written(w)
    BY <1>5 DEF BeginStep, At, Stages, Written, Begin
  <2>4. QED
    BY <2>1, <2>2, <2>3, RolesCovered
<1>6. ASSUME NEW w \in Editors, RoleFound(w)
      PROVE  RolesCacheFresh'
  <2>0. FirstStage(editor[w].op, editor[w].asked, editor[w].text) \in Stages
    BY <1>6 DEF RoleFound, At, EditorInv, FirstStage, AfterTexts, Stages
  <2>1. /\ UNCHANGED store /\ unsure \subseteq unsure'
        /\ \A v \in Editors \ {w} : editor'[v] = editor[v]
    BY <1>6, <2>0, Gone, Ended DEF RoleFound, At, Stages, RolesShape
  <2>2. \A q \in RoleIds \ {editor[w].role} : perms'[q] = perms[q] /\ about'[q] = about[q]
    BY <1>6 DEF RoleFound, RolesShape
  <2>3. UNCHANGED <<perms, about>> /\ ~Written(w)
    BY <1>6, <2>0, Gone, Ended DEF RoleFound, At, Stages, Written
  <2>4. QED
    BY <2>1, <2>2, <2>3, RolesCovered
<1>7. ASSUME NEW w \in Editors, NameTaken(w)
      PROVE  RolesCacheFresh'
  <2>1. /\ UNCHANGED store /\ unsure \subseteq unsure'
        /\ \A v \in Editors \ {w} : editor'[v] = editor[v]
    BY <1>7, Ended DEF NameTaken, At, Stages, RolesShape
  <2>2. \A q \in RoleIds \ {editor[w].role} : perms'[q] = perms[q] /\ about'[q] = about[q]
    BY <1>7 DEF NameTaken, RolesShape
  <2>3. UNCHANGED <<perms, about>> /\ ~Written(w)
    BY <1>7, Ended DEF NameTaken, At, Stages, Written
  <2>4. QED
    BY <2>1, <2>2, <2>3, RolesCovered
<1>8. ASSUME NEW w \in Editors, InsertRole(w)
      PROVE  RolesCacheFresh'
  <2>1. /\ UNCHANGED store /\ unsure \subseteq unsure'
        /\ \A v \in Editors \ {w} : editor'[v] = editor[v]
    BY <1>8, Gone, Ended DEF InsertRole, At, Stages, RolesShape
  <2>2. \A q \in RoleIds \ {editor[w].role} : perms'[q] = perms[q] /\ about'[q] = about[q]
    BY <1>8 DEF InsertRole, RolesShape
  <2>3. \/ UNCHANGED <<perms, about>> /\ ~Written(w)
        \/ Written(w)' /\ editor'[w].role = editor[w].role
    BY <1>8, Gone, Ended DEF InsertRole, At, Stages, Written
  <2>4. QED
    BY <2>1, <2>2, <2>3, RolesCovered
<1>9. ASSUME NEW w \in Editors, ClearPerms(w)
      PROVE  RolesCacheFresh'
  <2>1. /\ UNCHANGED store /\ unsure \subseteq unsure'
        /\ \A v \in Editors \ {w} : editor'[v] = editor[v]
    BY <1>9, Gone DEF ClearPerms, At, Stages, RolesShape
  <2>2. \A q \in RoleIds \ {editor[w].role} : perms'[q] = perms[q] /\ about'[q] = about[q]
    BY <1>9 DEF ClearPerms, RolesShape
  <2>3. Written(w)' /\ editor'[w].role = editor[w].role
    BY <1>9, Gone DEF ClearPerms, At, Stages, Written
  <2>4. QED
    BY <2>1, <2>2, <2>3, RolesCovered
<1>10. ASSUME NEW w \in Editors, FillPerms(w)
      PROVE  RolesCacheFresh'
  <2>1. /\ UNCHANGED store /\ unsure \subseteq unsure'
        /\ \A v \in Editors \ {w} : editor'[v] = editor[v]
    BY <1>10, Gone, Ended DEF FillPerms, At, Stages, RolesShape
  <2>2. \A q \in RoleIds \ {editor[w].role} : perms'[q] = perms[q] /\ about'[q] = about[q]
    BY <1>10 DEF FillPerms, RolesShape
  <2>3. \/ Written(w)' /\ editor'[w].role = editor[w].role
        \/ unsure' = RoleEntries
    BY <1>10, Gone, Ended DEF FillPerms, At, Stages, Written
  <2>4. QED
    BY <2>1, <2>2, <2>3, RolesCovered
<1>11. ASSUME NEW w \in Editors, BumpHolders(w)
      PROVE  RolesCacheFresh'
  <2>1. /\ UNCHANGED store /\ unsure \subseteq unsure'
        /\ \A v \in Editors \ {w} : editor'[v] = editor[v]
    BY <1>11, Gone DEF BumpHolders, At, Stages, RolesShape
  <2>2. \A q \in RoleIds \ {editor[w].role} : perms'[q] = perms[q] /\ about'[q] = about[q]
    BY <1>11 DEF BumpHolders, RolesShape
  <2>3. Written(w)' /\ editor'[w].role = editor[w].role
    BY <1>11, Gone DEF BumpHolders, At, Stages, Written
  <2>4. QED
    BY <2>1, <2>2, <2>3, RolesCovered
<1>12. ASSUME NEW w \in Editors, RereadRole(w)
      PROVE  RolesCacheFresh'
  <2>1. /\ UNCHANGED store /\ unsure \subseteq unsure'
        /\ \A v \in Editors \ {w} : editor'[v] = editor[v]
    BY <1>12, Gone, Ended DEF RereadRole, At, Stages, RolesShape
  <2>2. \A q \in RoleIds \ {editor[w].role} : perms'[q] = perms[q] /\ about'[q] = about[q]
    BY <1>12 DEF RereadRole, RolesShape
  <2>3. \/ Written(w)' /\ editor'[w].role = editor[w].role
        \/ unsure' = RoleEntries
    BY <1>12, Gone, Ended DEF RereadRole, At, Stages, Written
  <2>4. QED
    BY <2>1, <2>2, <2>3, RolesCovered
<1>13. ASSUME NEW w \in Editors, DeleteRole(w)
      PROVE  RolesCacheFresh'
  <2>1. /\ UNCHANGED store /\ unsure \subseteq unsure'
        /\ \A v \in Editors \ {w} : editor'[v] = editor[v]
    BY <1>13, Gone DEF DeleteRole, At, Stages, RolesShape
  <2>2. \A q \in RoleIds \ {editor[w].role} : perms'[q] = perms[q] /\ about'[q] = about[q]
    BY <1>13 DEF DeleteRole, RolesShape, DropRow
  <2>3. Written(w)' /\ editor'[w].role = editor[w].role
    BY <1>13, Gone DEF DeleteRole, At, Stages, Written
  <2>4. QED
    BY <2>1, <2>2, <2>3, RolesCovered
<1>14. ASSUME NEW w \in Editors, DeleteRoles(w)
      PROVE  RolesCacheFresh'
  <2>1. /\ UNCHANGED store /\ unsure \subseteq unsure'
        /\ \A v \in Editors \ {w} : editor'[v] = editor[v]
    BY <1>14, Gone DEF DeleteRoles, At, Stages, RolesShape
  <2>2. \A q \in RoleIds \ {editor[w].role} : perms'[q] = perms[q] /\ about'[q] = about[q]
    BY <1>14 DEF DeleteRoles, RolesShape, DropRow
  <2>3. Written(w)' /\ editor'[w].role = editor[w].role
    BY <1>14, Gone DEF DeleteRoles, At, Stages, Written
  <2>4. QED
    BY <2>1, <2>2, <2>3, RolesCovered
<1>15. ASSUME NEW w \in Editors, InvalidateRoles(w)
      PROVE  RolesCacheFresh'
  <2>1. /\ StoreInv'
        /\ \A j \in CacheKeys : store'[j] = IF j \in RoleEntries THEN NoValue ELSE store[j]
    <3>1. Invalidate(RoleEntries)
      BY <1>15 DEF InvalidateRoles
    <3>2. QED
      BY <3>1, Removed
  <2>2. QED
    BY <2>1 DEF RolesCacheFresh
<1>16. ASSUME NEW w \in Editors, InvalidateRolesFails(w)
      PROVE  RolesCacheFresh'
  BY <1>16 DEF InvalidateRolesFails, RolesCacheFresh
<1>17. ASSUME NEW w \in Editors, EditFails(w)
      PROVE  RolesCacheFresh'
  <2>1. /\ UNCHANGED store /\ unsure \subseteq unsure'
        /\ \A v \in Editors \ {w} : editor'[v] = editor[v]
    BY <1>17, Ended DEF EditFails, At, Stages, RolesShape
  <2>2. \A q \in RoleIds \ {editor[w].role} : perms'[q] = perms[q] /\ about'[q] = about[q]
    BY <1>17 DEF EditFails, RolesShape
  <2>3. \/ UNCHANGED <<perms, about>> /\ ~Written(w)
        \/ unsure' = RoleEntries
    BY <1>17, Ended DEF EditFails, At, Stages, Written
  <2>4. QED
    BY <2>1, <2>2, <2>3, RolesCovered
<1>18. ASSUME NEW w \in Editors, At(w, "check"), LookUpRole(w, RoleEntry(editor[w].role))
      PROVE  RolesCacheFresh'
  <2>1. w \in Actors /\ RoleEntry(editor[w].role) \in RoleEntries
    BY <1>18 DEF Actors, At, EditorInv, RoleEntries
  <2>2. QED
    BY <1>1, <1>18, <2>1
<1>19. \A a \in RoleReaders : a \in Actors
  BY DEF Actors
<1>20. ASSUME NEW w \in Editors, Describe(w)
      PROVE  RolesCacheFresh'
  <2>1. AfterTexts(editor[w].asked) \in {"bump", "clear"}
    BY DEF AfterTexts
  <2>2. /\ UNCHANGED store /\ unsure \subseteq unsure'
        /\ \A v \in Editors \ {w} : editor'[v] = editor[v]
    BY <1>20, <2>1, Gone DEF Describe, Stages
  <2>3. \A q \in RoleIds \ {editor[w].role} : perms'[q] = perms[q] /\ about'[q] = about[q]
    BY <1>20 DEF Describe, RolesShape
  <2>4. editor[w].text # NoValue
    BY <1>20 DEF Describe, At, EditorInv
  <2>5. Written(w)' /\ editor'[w].role = editor[w].role
    BY <1>20, <2>1, <2>4, Gone DEF Describe, Stages, Written
  <2>6. QED
    BY <2>2, <2>3, <2>5, RolesCovered
<1>21. QED
  BY <1>1, <1>2, <1>3, <1>4, <1>5, <1>6, <1>7, <1>8,
     <1>9, <1>10, <1>11, <1>12, <1>13, <1>14, <1>15, <1>16, <1>17,
     <1>18, <1>19, <1>20, Begins DEF RolesNext, EditorStep

\* Initially no request is under way.
LEMMA RolesStart ==
    ASSUME RolesInit, \A e \in RoleEntries : store[e] = NoValue
    PROVE  RolesInv
<1> USE RolesConstants DEF RolesInit
<1>1. perms \in [RoleIds -> RoleRows]
  BY DEF RoleRows
<1>2. holders \subseteq Users \X {r \in RoleIds : perms[r] # NoValue}
  <2>1. ASSUME NEW ur \in holders
        PROVE  ur \in Users \X {r \in RoleIds : perms[r] # NoValue}
    <3>1. ur \in Users \X RoleIds /\ perms[ur[2]] # NoValue
      OBVIOUS
    <3>2. QED
      BY <3>1
  <2>2. QED
    BY <2>1
<1>3. RolesShape
  BY <1>1, <1>2 DEF RolesShape, ReadStates, NotRead, EditorStates, Unused, RoleVals, RoleRecs, RoleRows, RoleTexts, Stages
<1>4. EditorInv /\ FillInv /\ PermsOfOneEdit
  BY DEF EditorInv, FillInv, PermsOfOneEdit, NotRead, Unused
<1>5. RolesCacheFresh
  BY DEF RolesCacheFresh
<1>6. QED
  BY <1>3, <1>4, <1>5 DEF RolesInv

\* What the other users of the store do is nothing to the roles.
LEMMA RolesLeftAlone ==
    ASSUME RolesInv, UNCHANGED roleVars, \A e \in RoleEntries : store'[e] = store[e]
    PROVE  RolesInv'
<1> USE DEF roleVars
<1>1. RolesShape' /\ EditorInv' /\ FillInv'
  BY DEF RolesInv, RolesShape, EditorInv, FillInv
<1>2. RolesCacheFresh'
  BY RolesKept DEF RolesInv, RolesCacheFresh, Written
<1>3. PermsOfOneEdit'
  BY DEF RolesInv, PermsOfOneEdit
<1>4. QED
  BY <1>1, <1>2, <1>3 DEF RolesInv

=============================================================================
