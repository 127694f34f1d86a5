--------------------------- MODULE AccountsProofs ---------------------------
(***************************************************************************)
(* Proofs about Accounts: tokens, sessions and roles, the second factor,   *)
(* and the login with Google, for any number of users, requests, tokens,   *)
(* codes and callbacks, in any interleaving.                               *)
(***************************************************************************)
EXTENDS Accounts, RolesProofs

-----------------------------------------------------------------------------
(***************************************************************************)
(* The login with Google.                                                  *)
(***************************************************************************)
\* The counters and the columns of the tables; rows are numbered from 1.
GoogleShape ==
    /\ begun \in Nat /\ created \in Nat
    /\ callback = [k \in Callbacks |-> callback[k]]
    /\ GoogleTypeOK

\* A callback that knows a user knows the number of a row that was created.
\* One that is about to add an identity has the row of a verified address,
\* or one it created itself.
CallbackInv ==
    \A k \in Callbacks :
        /\ callback[k].at \in {"link", "identity", "in"} => callback[k].user \in 1..created
        /\ callback[k].at = "link" => verified
        /\ callback[k].at = "identity" => callback[k].user \notin registered

GoogleInv == GoogleShape /\ CallbackInv /\ LinkedWithTheRightUser

\* A callback moves on, and no other does.
LEMMA CallbackMoved ==
    ASSUME GoogleShape, NEW k \in Callbacks, NEW state, To(k, state)
    PROVE  /\ callback' = [j \in Callbacks |-> callback'[j]]
           /\ callback'[k] = state
           /\ \A j \in Callbacks \ {k} : callback'[j] = callback[j]
  BY DEF GoogleShape, To

\* A step of a callback that changes no table.
LEMMA CallbackOnly ==
    ASSUME GoogleInv, NEW k \in Callbacks, NEW state, To(k, state),
           UNCHANGED <<verified, created, rows, identity, registered>>,
           /\ state.at \in {"link", "identity", "in"} => state.user \in 1..created
           /\ state.at = "link" => verified
           /\ state.at = "identity" => state.user \notin registered
           /\ state.at = "in" => state.user = identity
    PROVE  CallbackInv' /\ LinkedWithTheRightUser'
<1>1. /\ callback'[k] = state
      /\ \A j \in Callbacks \ {k} : callback'[j] = callback[j]
  BY CallbackMoved DEF GoogleInv
<1>2. CallbackInv'
  BY <1>1 DEF GoogleInv, CallbackInv
<1>3. LinkedWithTheRightUser'
  BY <1>1 DEF GoogleInv, LinkedWithTheRightUser
<1>4. QED
  BY <1>2, <1>3

\* An identity is added for the user of a callback, or the INSERT fails.
LEMMA IdentityAdded ==
    ASSUME GoogleInv, NEW k \in Callbacks, callback[k].at \in {"link", "identity"},
           IF identity = 0 /\ callback[k].user \in rows
           THEN identity' = callback[k].user /\ LoggedIn(k, callback[k].user)
           ELSE UNCHANGED identity /\ Refuse(k),
           UNCHANGED <<verified, created, rows, registered>>
    PROVE  CallbackInv' /\ LinkedWithTheRightUser' /\ identity' \in rows' \union {0}
<1>1. CASE identity = 0 /\ callback[k].user \in rows
  <2> DEFINE u == callback[k].user
  <2>1. /\ callback'[k] = [at |-> "in", user |-> u]
        /\ \A j \in Callbacks \ {k} : callback'[j] = callback[j]
    BY <1>1, CallbackMoved DEF GoogleInv, LoggedIn
  <2>2. u \in 1..created /\ identity' = u
    BY <1>1 DEF GoogleInv, CallbackInv
  <2>3. CallbackInv'
    BY <2>1, <2>2 DEF GoogleInv, CallbackInv
  <2>4. ASSUME NEW j \in Callbacks, callback'[j].at = "in", callback'[j].user \in rows'
        PROVE  identity' = callback'[j].user
    <3>1. CASE j = k
      BY <2>1, <2>2, <3>1
    <3>2. CASE j # k
      <4>1. identity = callback[j].user /\ callback[j].user \in 1..created
        BY <2>1, <2>4, <3>2 DEF GoogleInv, CallbackInv, LinkedWithTheRightUser
      <4>2. QED
        BY <1>1, <4>1 DEF GoogleInv, GoogleShape
    <3>3. QED
      BY <3>1, <3>2
  <2>5. ~verified' => identity' \notin registered'
    BY <2>2 DEF GoogleInv, CallbackInv
  <2>6. QED
    BY <1>1, <2>2, <2>3, <2>4, <2>5 DEF LinkedWithTheRightUser
<1>2. CASE ~(identity = 0 /\ callback[k].user \in rows)
  <2>1. To(k, [at |-> "refused"]) /\ UNCHANGED identity
    BY <1>2 DEF Refuse
  <2>2. CallbackInv' /\ LinkedWithTheRightUser'
    BY <2>1, CallbackOnly
  <2>3. QED
    BY <2>1, <2>2 DEF GoogleInv, GoogleShape, GoogleTypeOK
<1>3. QED
  BY <1>1, <1>2

\* Rows, states and callbacks keep their shape.
LEMMA GoogleShapeStep ==
    ASSUME GoogleInv, GoogleNext
    PROVE  GoogleShape'
<1> USE GoogleConstants
<1>1. ASSUME GoogleLogin
      PROVE  GoogleShape'
  BY <1>1 DEF GoogleLogin, GoogleInv, GoogleShape, GoogleTypeOK
<1>2. ASSUME NEW u \in 1..MaxUsers, DeleteRow(u)
      PROVE  GoogleShape'
  BY <1>2 DEF DeleteRow, GoogleInv, GoogleShape, GoogleTypeOK
<1>3. ASSUME NEW u \in 1..MaxUsers, NEW e \in BOOLEAN, ChangeEmail(u, e)
      PROVE  GoogleShape'
  BY <1>3 DEF ChangeEmail, GoogleInv, GoogleShape, GoogleTypeOK
<1>4. ASSUME NEW email \in BOOLEAN, NEW name \in BOOLEAN, Register(email, name)
      PROVE  GoogleShape'
  BY <1>4 DEF Register, GoogleInv, GoogleShape, GoogleTypeOK
<1>5. ASSUME NEW s \in 1..MaxStates, StateLapses(s)
      PROVE  GoogleShape'
  BY <1>5 DEF StateLapses, GoogleInv, GoogleShape, GoogleTypeOK
<1>6. ASSUME NEW k \in Callbacks, NEW s \in 1..MaxStates, GoogleCallback(k, s)
      PROVE  GoogleShape'
  <2>1. callback' = [j \in Callbacks |-> callback'[j]]
    BY <1>6, CallbackMoved DEF GoogleCallback, GoogleInv
  <2>2. QED
    BY <1>6, <2>1 DEF GoogleCallback, GoogleInv, GoogleShape, GoogleTypeOK
<1>7. ASSUME NEW k \in Callbacks, ExchangeCode(k)
      PROVE  GoogleShape'
  <2>1. callback' = [j \in Callbacks |-> callback'[j]]
    BY <1>7, CallbackMoved DEF ExchangeCode, GoogleInv, Refuse
  <2>2. QED
    BY <1>7, <2>1 DEF ExchangeCode, GoogleInv, GoogleShape, GoogleTypeOK
<1>8. ASSUME NEW k \in Callbacks, BySub(k)
      PROVE  GoogleShape'
  <2>1. callback' = [j \in Callbacks |-> callback'[j]]
    BY <1>8, CallbackMoved DEF BySub, GoogleInv, LoggedIn
  <2>2. QED
    BY <1>8, <2>1 DEF BySub, GoogleInv, GoogleShape, GoogleTypeOK
<1>9. ASSUME NEW k \in Callbacks, ByEmail(k)
      PROVE  GoogleShape'
  <2>1. callback' = [j \in Callbacks |-> callback'[j]]
    BY <1>9, CallbackMoved DEF ByEmail, GoogleInv
  <2>2. QED
    BY <1>9, <2>1 DEF ByEmail, GoogleInv, GoogleShape, GoogleTypeOK
<1>10. ASSUME NEW k \in Callbacks, AddIdentity(k)
      PROVE  GoogleShape'
  <2>1. callback' = [j \in Callbacks |-> callback'[j]]
    BY <1>10, CallbackMoved DEF AddIdentity, GoogleInv, LoggedIn, Refuse
  <2>2. identity' \in rows' \union {0}
    BY <1>10, IdentityAdded DEF AddIdentity
  <2>3. QED
    BY <1>10, <2>1, <2>2 DEF AddIdentity, GoogleInv, GoogleShape, GoogleTypeOK
<1>11. ASSUME NEW k \in Callbacks, UniqueUsername(k)
      PROVE  GoogleShape'
  <2>1. callback' = [j \in Callbacks |-> callback'[j]]
    BY <1>11, CallbackMoved DEF UniqueUsername, GoogleInv
  <2>2. QED
    BY <1>11, <2>1 DEF UniqueUsername, GoogleInv, GoogleShape, GoogleTypeOK
<1>12. ASSUME NEW k \in Callbacks, CreateUserOAuth(k)
      PROVE  GoogleShape'
  <2>1. callback' = [j \in Callbacks |-> callback'[j]]
    BY <1>12, CallbackMoved DEF CreateUserOAuth, GoogleInv, Refuse
  <2>2. QED
    BY <1>12, <2>1 DEF CreateUserOAuth, GoogleInv, GoogleShape, GoogleTypeOK
<1>13. ASSUME NEW k \in Callbacks, InsertIdentity(k)
      PROVE  GoogleShape'
  <2>1. callback' = [j \in Callbacks |-> callback'[j]]
    BY <1>13, CallbackMoved DEF InsertIdentity, GoogleInv, LoggedIn, Refuse
  <2>2. identity' \in rows' \union {0}
    BY <1>13, IdentityAdded DEF InsertIdentity
  <2>3. QED
    BY <1>13, <2>1, <2>2 DEF InsertIdentity, GoogleInv, GoogleShape, GoogleTypeOK
<1>14. ASSUME NEW k \in Callbacks, IdentityFails(k)
      PROVE  GoogleShape'
  <2>1. callback' = [j \in Callbacks |-> callback'[j]]
    BY <1>14, CallbackMoved DEF IdentityFails, GoogleInv, Refuse
  <2>2. QED
    BY <1>14, <2>1 DEF IdentityFails, GoogleInv, GoogleShape, GoogleTypeOK
<1>15. QED
  BY <1>1, <1>2, <1>3, <1>4, <1>5, <1>6, <1>7, <1>8, <1>9, <1>10, <1>11,
     <1>12, <1>13, <1>14 DEF GoogleNext

\* However callbacks overlap, the account stays linked with one user.
LEMMA GoogleLinkStep ==
    ASSUME GoogleInv, GoogleNext
    PROVE  CallbackInv' /\ LinkedWithTheRightUser'
<1> USE GoogleConstants
<1>1. ASSUME GoogleLogin
      PROVE  CallbackInv' /\ LinkedWithTheRightUser'
  BY <1>1 DEF GoogleLogin, GoogleInv, GoogleShape, GoogleTypeOK, CallbackInv, LinkedWithTheRightUser
<1>2. ASSUME NEW u \in 1..MaxUsers, DeleteRow(u)
      PROVE  CallbackInv' /\ LinkedWithTheRightUser'
  BY <1>2 DEF DeleteRow, GoogleInv, GoogleShape, GoogleTypeOK, CallbackInv, LinkedWithTheRightUser
<1>3. ASSUME NEW u \in 1..MaxUsers, NEW e \in BOOLEAN, ChangeEmail(u, e)
      PROVE  CallbackInv' /\ LinkedWithTheRightUser'
  BY <1>3 DEF ChangeEmail, GoogleInv, GoogleShape, GoogleTypeOK, CallbackInv, LinkedWithTheRightUser
<1>4. ASSUME NEW email \in BOOLEAN, NEW name \in BOOLEAN, Register(email, name)
      PROVE  CallbackInv' /\ LinkedWithTheRightUser'
  BY <1>4 DEF Register, GoogleInv, GoogleShape, GoogleTypeOK, CallbackInv, LinkedWithTheRightUser
<1>5. ASSUME NEW s \in 1..MaxStates, StateLapses(s)
      PROVE  CallbackInv' /\ LinkedWithTheRightUser'
  BY <1>5 DEF StateLapses, GoogleInv, GoogleShape, GoogleTypeOK, CallbackInv, LinkedWithTheRightUser
<1>6. ASSUME NEW k \in Callbacks, NEW s \in 1..MaxStates, GoogleCallback(k, s)
      PROVE  CallbackInv' /\ LinkedWithTheRightUser'
  BY <1>6, CallbackOnly DEF GoogleCallback
<1>7. ASSUME NEW k \in Callbacks, ExchangeCode(k)
      PROVE  CallbackInv' /\ LinkedWithTheRightUser'
  <2>1. To(k, [at |-> "sub"]) \/ To(k, [at |-> "refused"])
    BY <1>7 DEF ExchangeCode, Refuse
  <2>2. QED
    BY <1>7, <2>1, CallbackOnly DEF ExchangeCode
<1>8. ASSUME NEW k \in Callbacks, BySub(k)
      PROVE  CallbackInv' /\ LinkedWithTheRightUser'
  <2>1. CASE identity # 0
    <3>1. To(k, [at |-> "in", user |-> identity])
      BY <1>8, <2>1 DEF BySub, LoggedIn
    <3>2. identity \in 1..created
      BY <2>1 DEF GoogleInv, GoogleShape, GoogleTypeOK
    <3>3. QED
      BY <1>8, <3>1, <3>2, CallbackOnly DEF BySub
  <2>2. CASE identity = 0
    <3>1. To(k, [at |-> "email"])
      BY <1>8, <2>2 DEF BySub
    <3>2. QED
      BY <1>8, <3>1, CallbackOnly DEF BySub
  <2>3. QED
    BY <2>1, <2>2
<1>9. ASSUME NEW k \in Callbacks, ByEmail(k)
      PROVE  CallbackInv' /\ LinkedWithTheRightUser'
  <2>1. CASE owner # 0 /\ verified
    <3>1. To(k, [at |-> "link", user |-> owner])
      BY <1>9, <2>1 DEF ByEmail
    <3>2. owner \in 1..created
      BY <2>1 DEF GoogleInv, GoogleShape, GoogleTypeOK
    <3>3. QED
      BY <1>9, <2>1, <3>1, <3>2, CallbackOnly DEF ByEmail
  <2>2. CASE ~(owner # 0 /\ verified)
    <3>1. To(k, [at |-> "name"])
      BY <1>9, <2>2 DEF ByEmail
    <3>2. QED
      BY <1>9, <3>1, CallbackOnly DEF ByEmail
  <2>3. QED
    BY <2>1, <2>2
<1>10. ASSUME NEW k \in Callbacks, AddIdentity(k)
      PROVE  CallbackInv' /\ LinkedWithTheRightUser'
  BY <1>10, IdentityAdded DEF AddIdentity
<1>11. ASSUME NEW k \in Callbacks, UniqueUsername(k)
      PROVE  CallbackInv' /\ LinkedWithTheRightUser'
  BY <1>11, CallbackOnly DEF UniqueUsername
<1>12. ASSUME NEW k \in Callbacks, CreateUserOAuth(k)
      PROVE  CallbackInv' /\ LinkedWithTheRightUser'
  <2>1. CASE owner # 0 \/ (callback[k].plain /\ named # 0)
    <3>1. To(k, [at |-> "refused"]) /\ UNCHANGED <<created, rows>>
      BY <1>12, <2>1 DEF CreateUserOAuth, Refuse
    <3>2. QED
      BY <1>12, <3>1, CallbackOnly DEF CreateUserOAuth
  <2>2. CASE ~(owner # 0 \/ (callback[k].plain /\ named # 0))
    <3>1. /\ created' = created + 1 /\ rows' = rows \union {created + 1}
          /\ To(k, [at |-> "identity", user |-> created + 1])
          /\ UNCHANGED <<verified, identity, registered>>
      BY <1>12, <2>2 DEF CreateUserOAuth
    <3>2. /\ callback'[k] = [at |-> "identity", user |-> created + 1]
          /\ \A j \in Callbacks \ {k} : callback'[j] = callback[j]
      BY <3>1, CallbackMoved DEF GoogleInv
    <3>3. created + 1 \notin registered
      BY DEF GoogleInv, GoogleShape, GoogleTypeOK
    <3>4. QED
      BY <3>1, <3>2, <3>3 DEF GoogleInv, GoogleShape, GoogleTypeOK, CallbackInv, LinkedWithTheRightUser
  <2>3. QED
    BY <2>1, <2>2
<1>13. ASSUME NEW k \in Callbacks, InsertIdentity(k)
      PROVE  CallbackInv' /\ LinkedWithTheRightUser'
  BY <1>13, IdentityAdded DEF InsertIdentity
<1>14. ASSUME NEW k \in Callbacks, IdentityFails(k)
      PROVE  CallbackInv' /\ LinkedWithTheRightUser'
  BY <1>14, CallbackOnly DEF IdentityFails, Refuse
<1>15. QED
  BY <1>1, <1>2, <1>3, <1>4, <1>5, <1>6, <1>7, <1>8, <1>9, <1>10, <1>11,
     <1>12, <1>13, <1>14 DEF GoogleNext

\* What the other parts do is nothing to the callbacks.
LEMMA GoogleLeftAlone ==
    ASSUME GoogleInv, UNCHANGED googleVars
    PROVE  GoogleInv'
  BY DEF GoogleInv, GoogleShape, GoogleTypeOK, CallbackInv, LinkedWithTheRightUser, googleVars

\* No login was begun.
LEMMA GoogleStart == GoogleInit => GoogleInv
  BY DEF GoogleInit, GoogleInv, GoogleShape, GoogleTypeOK, CallbackInv, LinkedWithTheRightUser

-----------------------------------------------------------------------------
(***************************************************************************)
(* The second factor.                                                      *)
(***************************************************************************)
\* Lists of codes: of no batch (0) or of one that was generated.
CodeLists == [batch : 0..batches, used : SUBSET BackupCodes]

FactorShape ==
    /\ {secrets, batches, issued} \subseteq Nat /\ slice \in Nat \ {0}
    /\ record \in [on : BOOLEAN, secret : 0..secrets, codes : CodeLists]
    /\ record.on => record.secret # 0
    /\ setup \in 0..secrets
    /\ challenges \subseteq 1..issued
    /\ replay \subseteq 1..slice
    /\ request = [q \in FactorRequests |-> request[q]]

\* What a request has read before an await.  The list to store is the one
\* read with the code marked.  A slice that was read is the present one or
\* the one before it.
Reading(req) ==
    /\ req.at \in {"new", "enable", "forget", "failed", "disable", "regenerate", "record", "replay",
                   "mark", "store", "take", "over"}
    /\ req.at = "enable" => req.secret \in 1..secrets
    /\ req.at \in {"replay", "mark"} =>
          /\ req = [at |-> req.at, challenge |-> req.challenge, slice |-> req.slice, code |-> req.code]
          /\ req.slice \in 1..slice
          /\ slice <= req.slice + 1
    /\ req.at = "store" => /\ req.read \in CodeLists /\ req.read.batch = req.batch /\ req.batch # 0
                           /\ req.code \in BackupCodes \ req.read.used
                           /\ req.codes = [batch |-> req.batch, used |-> req.read.used \union {req.code}]

ReadingInv == \A q \in FactorRequests : Reading(request[q])

\* A backup code that let a request through is marked, if its batch is the
\* one in force.
BackupInv ==
    \A x \in accepted : x.kind = "backup" =>
        /\ x.what[1] \in 1..batches
        /\ ~overtaken /\ record.codes.batch = x.what[1] => x.what[2] \in record.codes.used

\* A slice that let a request through is marked, until no code of it is
\* read any more; a request that is about to mark a slice is the first.
TotpInv ==
    \A x \in accepted : x.kind = "totp" =>
        /\ x.slice \in replay \/ (x.slice \in Nat /\ slice >= x.slice + 2)
        /\ ~crossed => \A q \in FactorRequests : request[q].at = "mark" => request[q].slice # x.slice

\* A request moves on, and no other does.
LEMMA RequestMoved ==
    ASSUME FactorShape, NEW q \in FactorRequests, NEW state, Goes(q, state)
    PROVE  /\ request' = [p \in FactorRequests |-> request'[p]]
           /\ request'[q] = state
           /\ \A p \in FactorRequests \ {q} : request'[p] = request[p]
  BY DEF FactorShape, Goes

\* A list of codes stays one when another batch is generated.
LEMMA ListsKept ==
    ASSUME batches \in Nat, batches' \in {batches, batches + 1}
    PROVE  CodeLists \subseteq CodeLists'
  BY DEF CodeLists

\* What a request has read stays read while the counters grow.
LEMMA ReadingKept ==
    ASSUME FactorShape, NEW req, Reading(req), secrets' \in {secrets, secrets + 1},
           batches' \in {batches, batches + 1}, UNCHANGED slice
    PROVE  Reading(req)'
<1>1. {secrets, batches, slice} \subseteq Nat
  BY DEF FactorShape
<1>2. CodeLists \subseteq CodeLists'
  BY <1>1, ListsKept
<1>3. QED
  BY <1>1, <1>2 DEF Reading

\* A step of a request keeps what the others have read.
LEMMA ReadingMoved ==
    ASSUME FactorShape, ReadingInv, NEW q \in FactorRequests, NEW state, Goes(q, state),
           secrets' \in {secrets, secrets + 1}, batches' \in {batches, batches + 1}, UNCHANGED slice,
           Reading(state)'
    PROVE  ReadingInv'
<1>1. /\ request'[q] = state
      /\ \A p \in FactorRequests \ {q} : request'[p] = request[p]
  BY RequestMoved
<1>2. \A p \in FactorRequests : Reading(request[p])'
  BY <1>1, ReadingKept DEF ReadingInv
<1>3. QED
  BY <1>2 DEF ReadingInv

\* The row and the keys keep their shape.
LEMMA FactorShapeStep ==
    ASSUME FactorShape, ReadingInv, FactorNext
    PROVE  FactorShape'
<1> USE TwoFactorConstants
<1>1. ASSUME InitiateSetup
      PROVE  FactorShape'
  BY <1>1 DEF InitiateSetup, FactorShape, CodeLists
<1>2. ASSUME SetupLapses
      PROVE  FactorShape'
  BY <1>2 DEF SetupLapses, FactorShape, CodeLists
<1>3. ASSUME IssueChallenge
      PROVE  FactorShape'
  BY <1>3 DEF IssueChallenge, FactorShape, CodeLists
<1>4. ASSUME Tick
      PROVE  FactorShape'
  BY <1>4 DEF Tick, FactorShape, CodeLists
<1>5. ASSUME NEW t \in 1..MaxChallenges, ChallengeLapses(t)
      PROVE  FactorShape'
  BY <1>5 DEF ChallengeLapses, FactorShape, CodeLists
<1>6. ASSUME NEW s \in 1..MaxSlice, MarkLapses(s)
      PROVE  FactorShape'
  BY <1>6 DEF MarkLapses, FactorShape, CodeLists
<1>7. ASSUME NEW q \in FactorRequests, ConfirmRead(q)
      PROVE  FactorShape'
  <2>1. request' = [p \in FactorRequests |-> request'[p]]
    BY <1>7, RequestMoved DEF ConfirmRead
  <2>2. QED
    BY <1>7, <2>1 DEF ConfirmRead, FactorShape, CodeLists
<1>8. ASSUME NEW q \in FactorRequests, UpsertTwoFactor(q)
      PROVE  FactorShape'
  <2>1. request' = [p \in FactorRequests |-> request'[p]]
    BY <1>8, RequestMoved DEF UpsertTwoFactor
  <2>2. request[q].secret \in 1..secrets
    BY <1>8 DEF UpsertTwoFactor, ReadingInv, Reading
  <2>3. QED
    BY <1>8, <2>1, <2>2 DEF UpsertTwoFactor, NewBatch, Codes, FactorShape, CodeLists
<1>9. ASSUME NEW q \in FactorRequests, ForgetSetup(q)
      PROVE  FactorShape'
  <2>1. request' = [p \in FactorRequests |-> request'[p]]
    BY <1>9, RequestMoved DEF ForgetSetup, FactorEnds
  <2>2. QED
    BY <1>9, <2>1 DEF ForgetSetup, FactorShape, CodeLists, FactorEnds
<1>10. ASSUME NEW q \in FactorRequests, DisableRead(q)
      PROVE  FactorShape'
  <2>1. request' = [p \in FactorRequests |-> request'[p]]
    BY <1>10, RequestMoved DEF DisableRead, ReadEnabled
  <2>2. QED
    BY <1>10, <2>1 DEF DisableRead, FactorShape, CodeLists, ReadEnabled
<1>11. ASSUME NEW q \in FactorRequests, RegenerateRead(q)
      PROVE  FactorShape'
  <2>1. request' = [p \in FactorRequests |-> request'[p]]
    BY <1>11, RequestMoved DEF RegenerateRead, ReadEnabled
  <2>2. QED
    BY <1>11, <2>1 DEF RegenerateRead, FactorShape, CodeLists, ReadEnabled
<1>12. ASSUME NEW q \in FactorRequests, DisableTwoFactor(q)
      PROVE  FactorShape'
  <2>1. request' = [p \in FactorRequests |-> request'[p]]
    BY <1>12, RequestMoved DEF DisableTwoFactor, FactorEnds
  <2>2. QED
    BY <1>12, <2>1 DEF DisableTwoFactor, FactorShape, CodeLists, Codes, FactorEnds
<1>13. ASSUME NEW q \in FactorRequests, Regenerate(q)
      PROVE  FactorShape'
  <2>1. request' = [p \in FactorRequests |-> request'[p]]
    BY <1>13, RequestMoved DEF Regenerate, FactorEnds
  <2>2. record' = [on |-> record.on, secret |-> record.secret, codes |-> [batch |-> batches + 1, used |-> {}]]
    BY <1>13 DEF Regenerate, Codes, FactorShape
  <2>3. QED
    BY <1>13, <2>1, <2>2 DEF Regenerate, NewBatch, FactorShape, CodeLists
<1>14. ASSUME NEW q \in FactorRequests, NEW t \in 1..MaxChallenges, ChallengeRead(q, t)
      PROVE  FactorShape'
  <2>1. request' = [p \in FactorRequests |-> request'[p]]
    BY <1>14, RequestMoved DEF ChallengeRead
  <2>2. QED
    BY <1>14, <2>1 DEF ChallengeRead, FactorShape, CodeLists
<1>15. ASSUME NEW q \in FactorRequests, NEW code \in TotpCodes, AnswerTotp(q, code)
      PROVE  FactorShape'
  <2>1. request' = [p \in FactorRequests |-> request'[p]]
    BY <1>15, RequestMoved DEF AnswerTotp
  <2>2. QED
    BY <1>15, <2>1 DEF AnswerTotp, FactorShape, CodeLists
<1>16. ASSUME NEW q \in FactorRequests, NEW b \in 1..MaxBatches, NEW i \in BackupCodes, AnswerBackup(q, b, i)
      PROVE  FactorShape'
  <2>1. request' = [p \in FactorRequests |-> request'[p]]
    BY <1>16, RequestMoved DEF AnswerBackup
  <2>2. QED
    BY <1>16, <2>1 DEF AnswerBackup, FactorShape, CodeLists
<1>17. ASSUME NEW q \in FactorRequests, AnswerRefused(q)
      PROVE  FactorShape'
  <2>1. request' = [p \in FactorRequests |-> request'[p]]
    BY <1>17, RequestMoved DEF AnswerRefused, FactorEnds
  <2>2. QED
    BY <1>17, <2>1 DEF AnswerRefused, FactorShape, CodeLists, FactorEnds
<1>18. ASSUME NEW q \in FactorRequests, ReplayRead(q)
      PROVE  FactorShape'
  <2>1. request' = [p \in FactorRequests |-> request'[p]]
    BY <1>18, RequestMoved DEF ReplayRead, FactorEnds
  <2>2. QED
    BY <1>18, <2>1 DEF ReplayRead, FactorShape, CodeLists, FactorEnds
<1>19. ASSUME NEW q \in FactorRequests, ReplaySet(q)
      PROVE  FactorShape'
  <2>1. request' = [p \in FactorRequests |-> request'[p]]
    BY <1>19, RequestMoved DEF ReplaySet
  <2>2. request[q].slice \in 1..slice
    BY <1>19 DEF ReplaySet, ReadingInv, Reading
  <2>3. QED
    BY <1>19, <2>1, <2>2 DEF ReplaySet, FactorShape, CodeLists
<1>20. ASSUME NEW q \in FactorRequests, StoreCodes(q)
      PROVE  FactorShape'
  <2>1. request' = [p \in FactorRequests |-> request'[p]]
    BY <1>20, RequestMoved DEF StoreCodes
  <2>2. request[q].codes \in CodeLists
    <3> DEFINE req == request[q]
    <3>1. /\ req.read \in CodeLists /\ req.read.batch = req.batch /\ req.code \in BackupCodes
          /\ req.codes = [batch |-> req.batch, used |-> req.read.used \union {req.code}]
      BY <1>20 DEF StoreCodes, ReadingInv, Reading
    <3>2. req.read.batch \in 0..batches /\ req.read.used \in SUBSET BackupCodes
      BY <3>1 DEF CodeLists
    <3>3. req.batch \in 0..batches /\ req.read.used \union {req.code} \in SUBSET BackupCodes
      BY <3>1, <3>2
    <3>4. QED
      BY <3>1, <3>3 DEF CodeLists
  <2>3. record' = [on |-> record.on, secret |-> record.secret, codes |-> request[q].codes]
    BY <1>20 DEF StoreCodes, FactorShape
  <2>4. QED
    BY <1>20, <2>1, <2>2, <2>3 DEF StoreCodes, FactorShape, CodeLists
<1>21. ASSUME NEW q \in FactorRequests, TakeChallenge(q)
      PROVE  FactorShape'
  <2>1. request' = [p \in FactorRequests |-> request'[p]]
    BY <1>21, RequestMoved DEF TakeChallenge, FactorEnds
  <2>2. QED
    BY <1>21, <2>1 DEF TakeChallenge, FactorShape, CodeLists, FactorEnds
<1>22. ASSUME NEW q \in FactorRequests, ForgetFails(q)
      PROVE  FactorShape'
  <2>1. request' = [p \in FactorRequests |-> request'[p]]
    BY <1>22, RequestMoved DEF ForgetFails
  <2>2. QED
    BY <1>22, <2>1 DEF ForgetFails, FactorShape, CodeLists
<1>23. QED
  BY <1>1, <1>2, <1>3, <1>4, <1>5, <1>6, <1>7, <1>8, <1>9, <1>10, <1>11, <1>12,
     <1>13, <1>14, <1>15, <1>16, <1>17, <1>18, <1>19, <1>20, <1>21, <1>22 DEF FactorNext

\* What requests have read keeps its meaning.
LEMMA FactorReadingStep ==
    ASSUME FactorShape, ReadingInv, FactorNext
    PROVE  ReadingInv'
<1> USE TwoFactorConstants
<1>1. ASSUME InitiateSetup
      PROVE  ReadingInv'
  <2>1. /\ secrets' \in {secrets, secrets + 1} /\ UNCHANGED <<batches, slice, request>>
        /\ FactorShape /\ ReadingInv
    BY <1>1 DEF InitiateSetup
  <2>2. \A p \in FactorRequests : Reading(request[p])'
    BY <2>1, ReadingKept DEF ReadingInv
  <2>3. QED
    BY <2>2 DEF ReadingInv
<1>2. ASSUME SetupLapses
      PROVE  ReadingInv'
  <2>1. /\ secrets' \in {secrets, secrets + 1} /\ UNCHANGED <<batches, slice, request>>
        /\ FactorShape /\ ReadingInv
    BY <1>2 DEF SetupLapses
  <2>2. \A p \in FactorRequests : Reading(request[p])'
    BY <2>1, ReadingKept DEF ReadingInv
  <2>3. QED
    BY <2>2 DEF ReadingInv
<1>3. ASSUME IssueChallenge
      PROVE  ReadingInv'
  <2>1. /\ secrets' \in {secrets, secrets + 1} /\ UNCHANGED <<batches, slice, request>>
        /\ FactorShape /\ ReadingInv
    BY <1>3 DEF IssueChallenge
  <2>2. \A p \in FactorRequests : Reading(request[p])'
    BY <2>1, ReadingKept DEF ReadingInv
  <2>3. QED
    BY <2>2 DEF ReadingInv
<1>4. ASSUME Tick
      PROVE  ReadingInv'
  <2>1. /\ slice' = slice + 1 /\ slice \in Nat /\ UNCHANGED <<secrets, batches, request>>
        /\ \A p \in FactorRequests : request[p].at \in {"replay", "mark"} => request[p].slice = slice
    BY <1>4 DEF Tick, FactorShape
  <2>2. CodeLists' = CodeLists
    BY <2>1 DEF CodeLists
  <2>3. ASSUME NEW p \in FactorRequests
        PROVE  Reading(request[p])'
    BY <2>1, <2>2 DEF ReadingInv, Reading
  <2>4. QED
    BY <2>3 DEF ReadingInv
<1>5. ASSUME NEW t \in 1..MaxChallenges, ChallengeLapses(t)
      PROVE  ReadingInv'
  <2>1. /\ secrets' \in {secrets, secrets + 1} /\ UNCHANGED <<batches, slice, request>>
        /\ FactorShape /\ ReadingInv
    BY <1>5 DEF ChallengeLapses
  <2>2. \A p \in FactorRequests : Reading(request[p])'
    BY <2>1, ReadingKept DEF ReadingInv
  <2>3. QED
    BY <2>2 DEF ReadingInv
<1>6. ASSUME NEW s \in 1..MaxSlice, MarkLapses(s)
      PROVE  ReadingInv'
  <2>1. /\ secrets' \in {secrets, secrets + 1} /\ UNCHANGED <<batches, slice, request>>
        /\ FactorShape /\ ReadingInv
    BY <1>6 DEF MarkLapses
  <2>2. \A p \in FactorRequests : Reading(request[p])'
    BY <2>1, ReadingKept DEF ReadingInv
  <2>3. QED
    BY <2>2 DEF ReadingInv
<1>7. ASSUME NEW q \in FactorRequests, ConfirmRead(q)
      PROVE  ReadingInv'
  <2>1. PICK state : state = [at |-> "enable", secret |-> setup] /\ Goes(q, state)
    BY <1>7 DEF ConfirmRead
  <2>2. /\ FactorShape /\ ReadingInv
        /\ secrets' = secrets /\ batches' = batches /\ slice' = slice
    BY <1>7 DEF ConfirmRead
  <2>3. Reading(state)'
    BY <1>7, <2>1, <2>2 DEF ConfirmRead, Reading, FactorShape
  <2>4. QED
    BY <2>1, <2>2, <2>3, ReadingMoved
<1>8. ASSUME NEW q \in FactorRequests, UpsertTwoFactor(q)
      PROVE  ReadingInv'
  <2>1. PICK state : state = [at |-> "forget", batch |-> batches + 1] /\ Goes(q, state)
    BY <1>8 DEF UpsertTwoFactor
  <2>2. /\ FactorShape /\ ReadingInv
        /\ secrets' = secrets /\ batches' = batches + 1 /\ slice' = slice
    BY <1>8 DEF UpsertTwoFactor, NewBatch
  <2>3. Reading(state)'
    BY <2>1, <2>2 DEF Reading
  <2>4. QED
    BY <2>1, <2>2, <2>3, ReadingMoved
<1>9. ASSUME NEW q \in FactorRequests, ForgetSetup(q)
      PROVE  ReadingInv'
  <2>1. /\ FactorShape /\ ReadingInv
        /\ Goes(q, [at |-> "over"])
        /\ secrets' = secrets /\ batches' \in {batches, batches + 1} /\ slice' = slice
    BY <1>9 DEF ForgetSetup, NewBatch, FactorEnds
  <2>2. Reading([at |-> "over"])'
    BY <1>9, <2>1 DEF ForgetSetup, Reading, FactorShape
  <2>3. QED
    BY <2>1, <2>2, ReadingMoved
<1>10. ASSUME NEW q \in FactorRequests, DisableRead(q)
      PROVE  ReadingInv'
  <2>1. /\ FactorShape /\ ReadingInv
        /\ Goes(q, [at |-> "disable"])
        /\ secrets' = secrets /\ batches' \in {batches, batches + 1} /\ slice' = slice
    BY <1>10 DEF DisableRead, NewBatch, ReadEnabled
  <2>2. Reading([at |-> "disable"])'
    BY <1>10, <2>1 DEF DisableRead, Reading, FactorShape
  <2>3. QED
    BY <2>1, <2>2, ReadingMoved
<1>11. ASSUME NEW q \in FactorRequests, RegenerateRead(q)
      PROVE  ReadingInv'
  <2>1. /\ FactorShape /\ ReadingInv
        /\ Goes(q, [at |-> "regenerate"])
        /\ secrets' = secrets /\ batches' \in {batches, batches + 1} /\ slice' = slice
    BY <1>11 DEF RegenerateRead, NewBatch, ReadEnabled
  <2>2. Reading([at |-> "regenerate"])'
    BY <1>11, <2>1 DEF RegenerateRead, Reading, FactorShape
  <2>3. QED
    BY <2>1, <2>2, ReadingMoved
<1>12. ASSUME NEW q \in FactorRequests, DisableTwoFactor(q)
      PROVE  ReadingInv'
  <2>1. /\ FactorShape /\ ReadingInv
        /\ Goes(q, [at |-> "over"])
        /\ secrets' = secrets /\ batches' \in {batches, batches + 1} /\ slice' = slice
    BY <1>12 DEF DisableTwoFactor, NewBatch, FactorEnds
  <2>2. Reading([at |-> "over"])'
    BY <1>12, <2>1 DEF DisableTwoFactor, Reading, FactorShape
  <2>3. QED
    BY <2>1, <2>2, ReadingMoved
<1>13. ASSUME NEW q \in FactorRequests, Regenerate(q)
      PROVE  ReadingInv'
  <2>1. /\ FactorShape /\ ReadingInv
        /\ Goes(q, [at |-> "over"])
        /\ secrets' = secrets /\ batches' \in {batches, batches + 1} /\ slice' = slice
    BY <1>13 DEF Regenerate, NewBatch, FactorEnds
  <2>2. Reading([at |-> "over"])'
    BY <1>13, <2>1 DEF Regenerate, Reading, FactorShape
  <2>3. QED
    BY <2>1, <2>2, ReadingMoved
<1>14. ASSUME NEW q \in FactorRequests, NEW t \in 1..MaxChallenges, ChallengeRead(q, t)
      PROVE  ReadingInv'
  <2>1. /\ FactorShape /\ ReadingInv
        /\ Goes(q, [at |-> "record", challenge |-> t])
        /\ secrets' = secrets /\ batches' \in {batches, batches + 1} /\ slice' = slice
    BY <1>14 DEF ChallengeRead, NewBatch
  <2>2. Reading([at |-> "record", challenge |-> t])'
    BY <1>14, <2>1 DEF ChallengeRead, Reading, FactorShape
  <2>3. QED
    BY <2>1, <2>2, ReadingMoved
<1>15. ASSUME NEW q \in FactorRequests, NEW code \in TotpCodes, AnswerTotp(q, code)
      PROVE  ReadingInv'
  <2>1. PICK state :
            /\ state = [at |-> "replay", challenge |-> request[q].challenge, slice |-> slice, code |-> code]
            /\ Goes(q, state)
    BY <1>15 DEF AnswerTotp
  <2>2. /\ FactorShape /\ ReadingInv
        /\ secrets' = secrets /\ batches' = batches /\ slice' = slice
    BY <1>15 DEF AnswerTotp
  <2>3. Reading(state)'
    BY <1>15, <2>1, <2>2 DEF AnswerTotp, Reading, FactorShape
  <2>4. QED
    BY <2>1, <2>2, <2>3, ReadingMoved
<1>16. ASSUME NEW q \in FactorRequests, NEW b \in 1..MaxBatches, NEW i \in BackupCodes, AnswerBackup(q, b, i)
      PROVE  ReadingInv'
  <2> DEFINE list == [batch |-> b, used |-> record.codes.used \union {i}]
  <2>1. record.codes \in CodeLists
    BY DEF FactorShape
  <2>2. record.codes.batch = b /\ i \notin record.codes.used
    BY <1>16 DEF AnswerBackup, ConsumeBackupCode
  <2>3. [record.codes EXCEPT !.used = @ \union {i}] = list
    BY <2>1, <2>2 DEF CodeLists
  <2>4. PICK state :
            /\ state = [at |-> "store", challenge |-> request[q].challenge, batch |-> b, code |-> i,
                         read |-> record.codes, codes |-> list]
            /\ Goes(q, state) /\ UNCHANGED <<secrets, batches, slice>>
    BY <1>16, <2>3 DEF AnswerBackup, ConsumeBackupCode
  <2>5. CodeLists' = CodeLists
    BY <2>4 DEF CodeLists
  <2>6. Reading(state)'
    BY <2>1, <2>2, <2>4, <2>5 DEF Reading
  <2>7. QED
    BY <2>4, <2>6, ReadingMoved
<1>17. ASSUME NEW q \in FactorRequests, AnswerRefused(q)
      PROVE  ReadingInv'
  <2>1. /\ FactorShape /\ ReadingInv
        /\ Goes(q, [at |-> "over"])
        /\ secrets' = secrets /\ batches' \in {batches, batches + 1} /\ slice' = slice
    BY <1>17 DEF AnswerRefused, NewBatch, FactorEnds
  <2>2. Reading([at |-> "over"])'
    BY <1>17, <2>1 DEF AnswerRefused, Reading, FactorShape
  <2>3. QED
    BY <2>1, <2>2, ReadingMoved
<1>18. ASSUME NEW q \in FactorRequests, ReplayRead(q)
      PROVE  ReadingInv'
  <2>1. FactorShape /\ ReadingInv /\ UNCHANGED <<secrets, batches, slice>>
    BY <1>18 DEF ReplayRead
  <2>2. CASE request[q].slice \in replay
    <3>1. Goes(q, [at |-> "over"]) /\ Reading([at |-> "over"])'
      BY <1>18, <2>2 DEF ReplayRead, FactorEnds, Reading
    <3>2. QED
      BY <2>1, <3>1, ReadingMoved
  <2>3. CASE request[q].slice \notin replay
    <3>1. /\ request[q] = [at |-> "replay", challenge |-> request[q].challenge, slice |-> request[q].slice,
                        code |-> request[q].code]
          /\ request[q].slice \in 1..slice /\ slice <= request[q].slice + 1
      BY <1>18 DEF ReplayRead, ReadingInv, Reading
    <3>2. Goes(q, [request[q] EXCEPT !.at = "mark"])
      BY <1>18, <2>3 DEF ReplayRead
    <3>3. PICK state :
              /\ state = [at |-> "mark", challenge |-> request[q].challenge, slice |-> request[q].slice,
                           code |-> request[q].code]
              /\ Goes(q, state)
      BY <3>1, <3>2
    <3>4. Reading(state)'
      BY <2>1, <3>1, <3>3 DEF Reading
    <3>5. QED
      BY <2>1, <3>3, <3>4, ReadingMoved
  <2>4. QED
    BY <2>2, <2>3
<1>19. ASSUME NEW q \in FactorRequests, ReplaySet(q)
      PROVE  ReadingInv'
  <2>1. PICK state : state = [at |-> "take", challenge |-> request[q].challenge] /\ Goes(q, state)
    BY <1>19 DEF ReplaySet
  <2>2. /\ FactorShape /\ ReadingInv
        /\ secrets' = secrets /\ batches' = batches /\ slice' = slice
    BY <1>19 DEF ReplaySet
  <2>3. Reading(state)'
    BY <1>19, <2>1, <2>2 DEF ReplaySet, Reading, FactorShape
  <2>4. QED
    BY <2>1, <2>2, <2>3, ReadingMoved
<1>20. ASSUME NEW q \in FactorRequests, StoreCodes(q)
      PROVE  ReadingInv'
  <2>1. PICK state : state = [at |-> "take", challenge |-> request[q].challenge] /\ Goes(q, state)
    BY <1>20 DEF StoreCodes
  <2>2. /\ FactorShape /\ ReadingInv
        /\ secrets' = secrets /\ batches' = batches /\ slice' = slice
    BY <1>20 DEF StoreCodes
  <2>3. Reading(state)'
    BY <1>20, <2>1, <2>2 DEF StoreCodes, Reading, FactorShape
  <2>4. QED
    BY <2>1, <2>2, <2>3, ReadingMoved
<1>21. ASSUME NEW q \in FactorRequests, TakeChallenge(q)
      PROVE  ReadingInv'
  <2>1. /\ FactorShape /\ ReadingInv
        /\ Goes(q, [at |-> "over"])
        /\ secrets' = secrets /\ batches' \in {batches, batches + 1} /\ slice' = slice
    BY <1>21 DEF TakeChallenge, NewBatch, FactorEnds
  <2>2. Reading([at |-> "over"])'
    BY <1>21, <2>1 DEF TakeChallenge, Reading, FactorShape
  <2>3. QED
    BY <2>1, <2>2, ReadingMoved
<1>22. ASSUME NEW q \in FactorRequests, ForgetFails(q)
      PROVE  ReadingInv'
  <2>1. PICK state : state = [at |-> "failed", batch |-> request[q].batch] /\ Goes(q, state)
    BY <1>22 DEF ForgetFails
  <2>2. /\ FactorShape /\ ReadingInv
        /\ secrets' = secrets /\ batches' = batches /\ slice' = slice
    BY <1>22 DEF ForgetFails
  <2>3. Reading(state)'
    BY <2>1, <2>2 DEF Reading
  <2>4. QED
    BY <2>1, <2>2, <2>3, ReadingMoved
<1>23. QED
  BY <1>1, <1>2, <1>3, <1>4, <1>5, <1>6, <1>7, <1>8, <1>9, <1>10, <1>11, <1>12,
     <1>13, <1>14, <1>15, <1>16, <1>17, <1>18, <1>19, <1>20, <1>21, <1>22 DEF FactorNext

\* A response showed the batch, or one still may, or failed to.
Presented(b) ==
    \/ b \in shown
    \/ \E q \in FactorRequests : request[q].at \in {"forget", "failed"} /\ request[q].batch = b

BackupSafe == BackupInv /\ BackupCodesUsedOnce /\ ShownCodesInForce
TotpSafe == TotpInv /\ OneLoginPerSlice

\* A row with a new batch, or with none, is safe whatever was accepted.
LEMMA BatchReplaced ==
    ASSUME FactorShape, BackupSafe, UNCHANGED <<accepted, overtaken>>,
           \/ batches' = batches + 1 /\ record'.codes.batch = batches + 1 /\ Presented(batches)'
           \/ batches' = batches /\ record'.codes.batch = 0 /\ ~record'.on
    PROVE  BackupSafe'
<1>1. batches \in Nat
  BY DEF FactorShape
<1>2. BackupInv'
  BY <1>1 DEF BackupSafe, BackupInv
<1>3. BackupCodesUsedOnce'
  BY DEF BackupSafe, BackupCodesUsedOnce
<1>4. ShownCodesInForce'
  BY DEF ShownCodesInForce, Presented
<1>5. QED
  BY <1>2, <1>3, <1>4 DEF BackupSafe

\* A step that neither accepts a backup code nor writes the row.
LEMMA BackupKept ==
    ASSUME BackupSafe, UNCHANGED <<record, batches, overtaken>>,
           \A x \in accepted' : x.kind = "backup" => x \in accepted,
           Presented(batches) => Presented(batches)'
    PROVE  BackupSafe'
<1>1. BackupInv'
  BY DEF BackupSafe, BackupInv
<1>2. BackupCodesUsedOnce'
  BY DEF BackupSafe, BackupCodesUsedOnce
<1>3. ShownCodesInForce'
  BY DEF BackupSafe, ShownCodesInForce, Presented
<1>4. QED
  BY <1>1, <1>2, <1>3 DEF BackupSafe

\* A request that holds no batch moves on.
LEMMA StillPresented ==
    ASSUME FactorShape, NEW q \in FactorRequests, NEW state, Goes(q, state),
           request[q].at \notin {"forget", "failed"}, UNCHANGED <<batches, shown>>
    PROVE  Presented(batches) => Presented(batches)'
<1>1. \A p \in FactorRequests \ {q} : request'[p] = request[p]
  BY RequestMoved
<1>2. QED
  BY <1>1 DEF Presented

\* A step that neither marks a slice nor comes to the marking.
LEMMA TotpKept ==
    ASSUME TotpSafe, UNCHANGED <<replay, slice, accepted, crossed>>,
           \A q \in FactorRequests : request'[q].at = "mark" => request'[q] = request[q]
    PROVE  TotpSafe'
<1>1. TotpInv'
  BY DEF TotpSafe, TotpInv
<1>2. OneLoginPerSlice'
  BY DEF TotpSafe, OneLoginPerSlice
<1>3. QED
  BY <1>1, <1>2 DEF TotpSafe

\* Backup codes are used once, and the ones generated last are in force.
LEMMA FactorBackupStep ==
    ASSUME FactorShape, ReadingInv, BackupSafe, FactorNext
    PROVE  BackupSafe'
<1> USE TwoFactorConstants
<1>1. ASSUME InitiateSetup
      PROVE  BackupSafe'
  BY <1>1, BackupKept DEF InitiateSetup, Presented
<1>2. ASSUME SetupLapses
      PROVE  BackupSafe'
  BY <1>2, BackupKept DEF SetupLapses, Presented
<1>3. ASSUME IssueChallenge
      PROVE  BackupSafe'
  BY <1>3, BackupKept DEF IssueChallenge, Presented
<1>4. ASSUME Tick
      PROVE  BackupSafe'
  BY <1>4, BackupKept DEF Tick, Presented
<1>5. ASSUME NEW t \in 1..MaxChallenges, ChallengeLapses(t)
      PROVE  BackupSafe'
  BY <1>5, BackupKept DEF ChallengeLapses, Presented
<1>6. ASSUME NEW s \in 1..MaxSlice, MarkLapses(s)
      PROVE  BackupSafe'
  BY <1>6, BackupKept DEF MarkLapses, Presented
<1>7. ASSUME NEW q \in FactorRequests, ConfirmRead(q)
      PROVE  BackupSafe'
  <2>1. Presented(batches) => Presented(batches)'
    BY <1>7, StillPresented DEF ConfirmRead
  <2>2. QED
    BY <1>7, <2>1, BackupKept DEF ConfirmRead
<1>8. ASSUME NEW q \in FactorRequests, UpsertTwoFactor(q)
      PROVE  BackupSafe'
  <2>1. Goes(q, [at |-> "forget", batch |-> batches + 1]) /\ batches' = batches + 1
    BY <1>8 DEF UpsertTwoFactor, NewBatch
  <2>2. request'[q] = [at |-> "forget", batch |-> batches + 1]
    BY <2>1, RequestMoved
  <2>3. Presented(batches)'
    BY <2>1, <2>2 DEF Presented
  <2>4. QED
    BY <1>8, <2>3, BatchReplaced DEF UpsertTwoFactor, NewBatch, Codes
<1>9. ASSUME NEW q \in FactorRequests, ForgetSetup(q)
      PROVE  BackupSafe'
  <2>1. \A p \in FactorRequests \ {q} : request'[p] = request[p]
    BY <1>9, RequestMoved DEF ForgetSetup, FactorEnds
  <2>2. Presented(batches) => Presented(batches)'
    BY <1>9, <2>1 DEF ForgetSetup, Presented
  <2>3. QED
    BY <1>9, <2>2, BackupKept DEF ForgetSetup
<1>10. ASSUME NEW q \in FactorRequests, DisableRead(q)
      PROVE  BackupSafe'
  <2>1. Presented(batches) => Presented(batches)'
    BY <1>10, StillPresented DEF DisableRead, ReadEnabled
  <2>2. QED
    BY <1>10, <2>1, BackupKept DEF DisableRead, ReadEnabled
<1>11. ASSUME NEW q \in FactorRequests, RegenerateRead(q)
      PROVE  BackupSafe'
  <2>1. Presented(batches) => Presented(batches)'
    BY <1>11, StillPresented DEF RegenerateRead, ReadEnabled
  <2>2. QED
    BY <1>11, <2>1, BackupKept DEF RegenerateRead, ReadEnabled
<1>12. ASSUME NEW q \in FactorRequests, DisableTwoFactor(q)
      PROVE  BackupSafe'
  BY <1>12, BatchReplaced DEF DisableTwoFactor, Codes
<1>13. ASSUME NEW q \in FactorRequests, Regenerate(q)
      PROVE  BackupSafe'
  <2>1. record'.codes.batch = batches + 1
    BY <1>13 DEF Regenerate, Codes, FactorShape
  <2>2. Presented(batches)'
    BY <1>13 DEF Regenerate, NewBatch, Presented
  <2>3. QED
    BY <1>13, <2>1, <2>2, BatchReplaced DEF Regenerate, NewBatch
<1>14. ASSUME NEW q \in FactorRequests, NEW t \in 1..MaxChallenges, ChallengeRead(q, t)
      PROVE  BackupSafe'
  <2>1. Presented(batches) => Presented(batches)'
    BY <1>14, StillPresented DEF ChallengeRead
  <2>2. QED
    BY <1>14, <2>1, BackupKept DEF ChallengeRead
<1>15. ASSUME NEW q \in FactorRequests, NEW code \in TotpCodes, AnswerTotp(q, code)
      PROVE  BackupSafe'
  <2>1. Presented(batches) => Presented(batches)'
    BY <1>15, StillPresented DEF AnswerTotp
  <2>2. QED
    BY <1>15, <2>1, BackupKept DEF AnswerTotp
<1>16. ASSUME NEW q \in FactorRequests, NEW b \in 1..MaxBatches, NEW i \in BackupCodes, AnswerBackup(q, b, i)
      PROVE  BackupSafe'
  <2>1. Presented(batches) => Presented(batches)'
    BY <1>16, StillPresented DEF AnswerBackup
  <2>2. QED
    BY <1>16, <2>1, BackupKept DEF AnswerBackup
<1>17. ASSUME NEW q \in FactorRequests, AnswerRefused(q)
      PROVE  BackupSafe'
  <2>1. Presented(batches) => Presented(batches)'
    BY <1>17, StillPresented DEF AnswerRefused, FactorEnds
  <2>2. QED
    BY <1>17, <2>1, BackupKept DEF AnswerRefused
<1>18. ASSUME NEW q \in FactorRequests, ReplayRead(q)
      PROVE  BackupSafe'
  <2>1. Presented(batches) => Presented(batches)'
    BY <1>18, StillPresented DEF ReplayRead, FactorEnds
  <2>2. QED
    BY <1>18, <2>1, BackupKept DEF ReplayRead
<1>19. ASSUME NEW q \in FactorRequests, ReplaySet(q)
      PROVE  BackupSafe'
  <2>1. Presented(batches) => Presented(batches)'
    BY <1>19, StillPresented DEF ReplaySet
  <2>2. QED
    BY <1>19, <2>1, BackupKept DEF ReplaySet
<1>20. ASSUME NEW q \in FactorRequests, StoreCodes(q)
      PROVE  BackupSafe'
  <2> DEFINE req == request[q]
             new == [by |-> q, kind |-> "backup", slice |-> slice, what |-> <<req.batch, req.code>>]
  <2>1. /\ req.read \in CodeLists /\ req.read.batch = req.batch /\ req.batch # 0
        /\ req.code \notin req.read.used
        /\ req.codes = [batch |-> req.batch, used |-> req.read.used \union {req.code}]
    BY <1>20 DEF StoreCodes, ReadingInv, Reading
  <2>2. /\ record'.codes = req.codes /\ record'.on = record.on
        /\ accepted' = accepted \union {new}
        /\ ~overtaken' => ~overtaken /\ record.codes = req.read
        /\ UNCHANGED batches
    BY <1>20 DEF StoreCodes, FactorShape
  <2>3. req.batch \in 1..batches
    BY <2>1 DEF CodeLists, FactorShape
  <2>4. new.kind = "backup" /\ new.what[1] = req.batch /\ new.what[2] = req.code
    OBVIOUS
  <2>5. BackupInv'
    <3>1. ASSUME NEW x \in accepted', x.kind = "backup"
          PROVE  /\ x.what[1] \in 1..batches'
                 /\ ~overtaken' /\ record'.codes.batch = x.what[1] => x.what[2] \in record'.codes.used
      <4>1. CASE x = new
        BY <2>1, <2>2, <2>3, <2>4, <4>1
      <4>2. CASE x \in accepted
        BY <2>1, <2>2, <3>1, <4>2 DEF BackupSafe, BackupInv
      <4>3. QED
        BY <2>2, <4>1, <4>2
    <3>2. QED
      BY <3>1 DEF BackupInv
  <2>6. BackupCodesUsedOnce'
    <3>1. SUFFICES ASSUME ~overtaken', NEW x \in accepted', NEW y \in accepted', x # y,
                          x.kind = "backup", y.kind = "backup", x.what = y.what
                   PROVE  FALSE
      BY DEF BackupCodesUsedOnce
    <3>2. ASSUME NEW z \in accepted, z.kind = "backup"
          PROVE  z.what # new.what
      BY <2>1, <2>2, <2>4, <3>1, <3>2 DEF BackupSafe, BackupInv
    <3>3. x \in accepted /\ y \in accepted
      BY <2>2, <3>1, <3>2
    <3>4. QED
      BY <2>2, <3>1, <3>3 DEF BackupSafe, BackupCodesUsedOnce
  <2>7. ShownCodesInForce'
    <3>1. Presented(batches) => Presented(batches)'
      BY <1>20, StillPresented DEF StoreCodes
    <3>2. QED
      BY <2>1, <2>2, <3>1 DEF BackupSafe, ShownCodesInForce, Presented
  <2>8. QED
    BY <2>5, <2>6, <2>7 DEF BackupSafe
<1>21. ASSUME NEW q \in FactorRequests, TakeChallenge(q)
      PROVE  BackupSafe'
  <2>1. Presented(batches) => Presented(batches)'
    BY <1>21, StillPresented DEF TakeChallenge, FactorEnds
  <2>2. QED
    BY <1>21, <2>1, BackupKept DEF TakeChallenge
<1>22. ASSUME NEW q \in FactorRequests, ForgetFails(q)
      PROVE  BackupSafe'
  <2>1. /\ request'[q].at = "failed" /\ request'[q].batch = request[q].batch
        /\ \A p \in FactorRequests \ {q} : request'[p] = request[p]
    BY <1>22, RequestMoved DEF ForgetFails
  <2>2. UNCHANGED <<record, batches, overtaken, accepted, shown>>
    BY <1>22 DEF ForgetFails
  <2>3. Presented(batches) => Presented(batches)'
    BY <2>1, <2>2 DEF Presented
  <2>4. QED
    BY <2>2, <2>3, BackupKept
<1>23. QED
  BY <1>1, <1>2, <1>3, <1>4, <1>5, <1>6, <1>7, <1>8, <1>9, <1>10, <1>11, <1>12,
     <1>13, <1>14, <1>15, <1>16, <1>17, <1>18, <1>19, <1>20, <1>21, <1>22 DEF FactorNext

\* A slice lets one request through.
LEMMA FactorTotpStep ==
    ASSUME FactorShape, ReadingInv, TotpSafe, FactorNext
    PROVE  TotpSafe'
<1> USE TwoFactorConstants
<1>1. ASSUME InitiateSetup
      PROVE  TotpSafe'
  BY <1>1, TotpKept DEF InitiateSetup
<1>2. ASSUME SetupLapses
      PROVE  TotpSafe'
  BY <1>2, TotpKept DEF SetupLapses
<1>3. ASSUME IssueChallenge
      PROVE  TotpSafe'
  BY <1>3, TotpKept DEF IssueChallenge
<1>4. ASSUME Tick
      PROVE  TotpSafe'
  <2>1. slice' = slice + 1 /\ UNCHANGED <<replay, accepted, crossed, request>>
    BY <1>4 DEF Tick
  <2>2. slice \in Nat
    BY DEF FactorShape
  <2>3. TotpInv'
    BY <2>1, <2>2 DEF TotpSafe, TotpInv
  <2>4. OneLoginPerSlice'
    BY <2>1 DEF TotpSafe, OneLoginPerSlice
  <2>5. QED
    BY <2>3, <2>4 DEF TotpSafe
<1>5. ASSUME NEW t \in 1..MaxChallenges, ChallengeLapses(t)
      PROVE  TotpSafe'
  BY <1>5, TotpKept DEF ChallengeLapses
<1>6. ASSUME NEW s \in 1..MaxSlice, MarkLapses(s)
      PROVE  TotpSafe'
  <2>1. slice >= s + 2 /\ replay' = replay \ {s} /\ UNCHANGED <<slice, accepted, crossed, request>>
    BY <1>6 DEF MarkLapses
  <2>2. TotpInv'
    BY <2>1 DEF TotpSafe, TotpInv
  <2>3. OneLoginPerSlice'
    BY <2>1 DEF TotpSafe, OneLoginPerSlice
  <2>4. QED
    BY <2>2, <2>3 DEF TotpSafe
<1>7. ASSUME NEW q \in FactorRequests, ConfirmRead(q)
      PROVE  TotpSafe'
  <2>1. \A p \in FactorRequests : request'[p].at = "mark" => request'[p] = request[p]
    BY <1>7, RequestMoved DEF ConfirmRead
  <2>2. QED
    BY <1>7, <2>1, TotpKept DEF ConfirmRead
<1>8. ASSUME NEW q \in FactorRequests, UpsertTwoFactor(q)
      PROVE  TotpSafe'
  <2>1. \A p \in FactorRequests : request'[p].at = "mark" => request'[p] = request[p]
    BY <1>8, RequestMoved DEF UpsertTwoFactor
  <2>2. QED
    BY <1>8, <2>1, TotpKept DEF UpsertTwoFactor
<1>9. ASSUME NEW q \in FactorRequests, ForgetSetup(q)
      PROVE  TotpSafe'
  <2>1. \A p \in FactorRequests : request'[p].at = "mark" => request'[p] = request[p]
    BY <1>9, RequestMoved DEF ForgetSetup, FactorEnds
  <2>2. QED
    BY <1>9, <2>1, TotpKept DEF ForgetSetup
<1>10. ASSUME NEW q \in FactorRequests, DisableRead(q)
      PROVE  TotpSafe'
  <2>1. \A p \in FactorRequests : request'[p].at = "mark" => request'[p] = request[p]
    BY <1>10, RequestMoved DEF DisableRead, ReadEnabled
  <2>2. QED
    BY <1>10, <2>1, TotpKept DEF DisableRead, ReadEnabled
<1>11. ASSUME NEW q \in FactorRequests, RegenerateRead(q)
      PROVE  TotpSafe'
  <2>1. \A p \in FactorRequests : request'[p].at = "mark" => request'[p] = request[p]
    BY <1>11, RequestMoved DEF RegenerateRead, ReadEnabled
  <2>2. QED
    BY <1>11, <2>1, TotpKept DEF RegenerateRead, ReadEnabled
<1>12. ASSUME NEW q \in FactorRequests, DisableTwoFactor(q)
      PROVE  TotpSafe'
  <2>1. \A p \in FactorRequests : request'[p].at = "mark" => request'[p] = request[p]
    BY <1>12, RequestMoved DEF DisableTwoFactor, FactorEnds
  <2>2. QED
    BY <1>12, <2>1, TotpKept DEF DisableTwoFactor
<1>13. ASSUME NEW q \in FactorRequests, Regenerate(q)
      PROVE  TotpSafe'
  <2>1. \A p \in FactorRequests : request'[p].at = "mark" => request'[p] = request[p]
    BY <1>13, RequestMoved DEF Regenerate, FactorEnds
  <2>2. QED
    BY <1>13, <2>1, TotpKept DEF Regenerate
<1>14. ASSUME NEW q \in FactorRequests, NEW t \in 1..MaxChallenges, ChallengeRead(q, t)
      PROVE  TotpSafe'
  <2>1. \A p \in FactorRequests : request'[p].at = "mark" => request'[p] = request[p]
    BY <1>14, RequestMoved DEF ChallengeRead
  <2>2. QED
    BY <1>14, <2>1, TotpKept DEF ChallengeRead
<1>15. ASSUME NEW q \in FactorRequests, NEW code \in TotpCodes, AnswerTotp(q, code)
      PROVE  TotpSafe'
  <2>1. \A p \in FactorRequests : request'[p].at = "mark" => request'[p] = request[p]
    BY <1>15, RequestMoved DEF AnswerTotp
  <2>2. QED
    BY <1>15, <2>1, TotpKept DEF AnswerTotp
<1>16. ASSUME NEW q \in FactorRequests, NEW b \in 1..MaxBatches, NEW i \in BackupCodes, AnswerBackup(q, b, i)
      PROVE  TotpSafe'
  <2>1. \A p \in FactorRequests : request'[p].at = "mark" => request'[p] = request[p]
    BY <1>16, RequestMoved DEF AnswerBackup
  <2>2. QED
    BY <1>16, <2>1, TotpKept DEF AnswerBackup
<1>17. ASSUME NEW q \in FactorRequests, AnswerRefused(q)
      PROVE  TotpSafe'
  <2>1. \A p \in FactorRequests : request'[p].at = "mark" => request'[p] = request[p]
    BY <1>17, RequestMoved DEF AnswerRefused, FactorEnds
  <2>2. QED
    BY <1>17, <2>1, TotpKept DEF AnswerRefused
<1>18. ASSUME NEW q \in FactorRequests, ReplayRead(q)
      PROVE  TotpSafe'
  <2>1. UNCHANGED <<replay, slice, accepted, crossed>>
    BY <1>18 DEF ReplayRead
  <2>2. CASE request[q].slice \in replay
    <3>1. \A p \in FactorRequests : request'[p].at = "mark" => request'[p] = request[p]
      BY <1>18, <2>2, RequestMoved DEF ReplayRead, FactorEnds
    <3>2. QED
      BY <2>1, <3>1, TotpKept
  <2>3. CASE request[q].slice \notin replay
    <3>1. /\ request[q] = [at |-> "replay", challenge |-> request[q].challenge, slice |-> request[q].slice,
                        code |-> request[q].code]
          /\ request[q].slice \in 1..slice /\ slice <= request[q].slice + 1
      BY <1>18 DEF ReplayRead, ReadingInv, Reading
    <3>2. /\ request'[q] = [request[q] EXCEPT !.at = "mark"]
          /\ \A p \in FactorRequests \ {q} : request'[p] = request[p]
      BY <1>18, <2>3, RequestMoved DEF ReplayRead
    <3>3. request'[q].slice = request[q].slice
      BY <3>1, <3>2
    <3>4. slice \in Nat
      BY DEF FactorShape
    <3>5. ASSUME NEW x \in accepted, x.kind = "totp"
          PROVE  request[q].slice # x.slice
      BY <2>3, <3>1, <3>4, <3>5 DEF TotpSafe, TotpInv
    <3>6. TotpInv'
      <4>1. ASSUME NEW x \in accepted', x.kind = "totp"
            PROVE  /\ x.slice \in replay' \/ (x.slice \in Nat /\ slice' >= x.slice + 2)
                   /\ ~crossed' => \A p \in FactorRequests : request'[p].at = "mark" =>
                                       request'[p].slice # x.slice
        <5>1. x \in accepted /\ request[q].slice # x.slice
          BY <2>1, <3>5, <4>1
        <5>2. /\ x.slice \in replay \/ (x.slice \in Nat /\ slice >= x.slice + 2)
              /\ ~crossed => \A p \in FactorRequests : request[p].at = "mark" => request[p].slice # x.slice
          BY <4>1, <5>1 DEF TotpSafe, TotpInv
        <5>3. ASSUME ~crossed', NEW p \in FactorRequests, request'[p].at = "mark"
              PROVE  request'[p].slice # x.slice
          BY <2>1, <3>2, <3>3, <5>1, <5>2, <5>3
        <5>4. QED
          BY <2>1, <5>2, <5>3
      <4>2. QED
        BY <4>1 DEF TotpInv
    <3>7. OneLoginPerSlice'
      BY <2>1 DEF TotpSafe, OneLoginPerSlice
    <3>8. QED
      BY <3>6, <3>7 DEF TotpSafe
  <2>4. QED
    BY <2>2, <2>3
<1>19. ASSUME NEW q \in FactorRequests, ReplaySet(q)
      PROVE  TotpSafe'
  <2> DEFINE s == request[q].slice
             new == [by |-> q, kind |-> "totp", slice |-> s,
                     what |-> <<request[q].code.secret, request[q].code.slice>>]
  <2>1. /\ replay' = replay \union {s} /\ accepted' = accepted \union {new} /\ slice' = slice
        /\ request[q].at = "mark"
        /\ ~crossed' => /\ ~crossed
                        /\ \A p \in FactorRequests \ {q} : request[p].at = "mark" => request[p].slice # s
    BY <1>19 DEF ReplaySet
  <2>2. /\ request'[q].at = "take"
        /\ \A p \in FactorRequests \ {q} : request'[p] = request[p]
    BY <1>19, RequestMoved DEF ReplaySet
  <2>3. new.kind = "totp" /\ new.slice = s
    OBVIOUS
  <2>4. TotpInv'
    <3>1. ASSUME NEW x \in accepted', x.kind = "totp"
          PROVE  /\ x.slice \in replay' \/ (x.slice \in Nat /\ slice' >= x.slice + 2)
                 /\ ~crossed' => \A p \in FactorRequests : request'[p].at = "mark" =>
                                     request'[p].slice # x.slice
      <4>1. CASE x = new
        BY <2>1, <2>2, <2>3, <4>1
      <4>2. CASE x \in accepted
        BY <2>1, <2>2, <3>1, <4>2 DEF TotpSafe, TotpInv
      <4>3. QED
        BY <2>1, <4>1, <4>2
    <3>2. QED
      BY <3>1 DEF TotpInv
  <2>5. OneLoginPerSlice'
    <3>1. SUFFICES ASSUME ~crossed', NEW x \in accepted', NEW y \in accepted',
                          x.kind = "totp", y.kind = "totp", x.slice = y.slice
                   PROVE  x = y
      BY DEF OneLoginPerSlice
    <3>2. ASSUME NEW z \in accepted, z.kind = "totp"
          PROVE  z.slice # s
      BY <2>1, <3>1, <3>2 DEF TotpSafe, TotpInv
    <3>3. CASE x \in accepted /\ y \in accepted
      BY <2>1, <3>1, <3>3 DEF TotpSafe, OneLoginPerSlice
    <3>4. CASE x = new \/ y = new
      BY <2>1, <2>3, <3>1, <3>2, <3>4
    <3>5. QED
      BY <2>1, <3>3, <3>4
  <2>6. QED
    BY <2>4, <2>5 DEF TotpSafe
<1>20. ASSUME NEW q \in FactorRequests, StoreCodes(q)
      PROVE  TotpSafe'
  <2>1. \A p \in FactorRequests : request'[p].at = "mark" => request'[p] = request[p]
    BY <1>20, RequestMoved DEF StoreCodes
  <2>2. \A x \in accepted' : x.kind = "totp" => x \in accepted
    BY <1>20 DEF StoreCodes
  <2>3. UNCHANGED <<replay, slice, crossed>>
    BY <1>20 DEF StoreCodes
  <2>4. TotpInv'
    BY <2>1, <2>2, <2>3 DEF TotpSafe, TotpInv
  <2>5. OneLoginPerSlice'
    BY <2>2, <2>3 DEF TotpSafe, OneLoginPerSlice
  <2>6. QED
    BY <2>4, <2>5 DEF TotpSafe
<1>21. ASSUME NEW q \in FactorRequests, TakeChallenge(q)
      PROVE  TotpSafe'
  <2>1. \A p \in FactorRequests : request'[p].at = "mark" => request'[p] = request[p]
    BY <1>21, RequestMoved DEF TakeChallenge, FactorEnds
  <2>2. QED
    BY <1>21, <2>1, TotpKept DEF TakeChallenge
<1>22. ASSUME NEW q \in FactorRequests, ForgetFails(q)
      PROVE  TotpSafe'
  <2>1. \A p \in FactorRequests : request'[p].at = "mark" => request'[p] = request[p]
    BY <1>22, RequestMoved DEF ForgetFails
  <2>2. QED
    BY <1>22, <2>1, TotpKept DEF ForgetFails
<1>23. QED
  BY <1>1, <1>2, <1>3, <1>4, <1>5, <1>6, <1>7, <1>8, <1>9, <1>10, <1>11, <1>12,
     <1>13, <1>14, <1>15, <1>16, <1>17, <1>18, <1>19, <1>20, <1>21, <1>22 DEF FactorNext

FactorInv == FactorShape /\ ReadingInv /\ BackupSafe /\ TotpSafe

\* What the other parts do is nothing to the second factor.
LEMMA FactorLeftAlone ==
    ASSUME FactorInv, UNCHANGED factorVars
    PROVE  FactorInv'
<1>1. FactorShape' /\ ReadingInv'
  BY DEF FactorInv, FactorShape, CodeLists, ReadingInv, Reading, factorVars
<1>2. BackupSafe' /\ TotpSafe'
  BY BackupKept, TotpKept DEF FactorInv, factorVars, Presented
<1>3. QED
  BY <1>1, <1>2 DEF FactorInv

\* The factor is off and nothing was accepted.
LEMMA FactorStart == FactorInit => FactorInv
<1> SUFFICES ASSUME FactorInit PROVE FactorInv
  OBVIOUS
<1>1. FactorShape
  BY DEF FactorInit, FactorShape, CodeLists, Codes
<1>2. ReadingInv
  BY DEF FactorInit, ReadingInv, Reading
<1>3. BackupSafe /\ TotpSafe
  BY DEF FactorInit, BackupSafe, BackupInv, BackupCodesUsedOnce, ShownCodesInForce,
         TotpSafe, TotpInv, OneLoginPerSlice
<1>4. QED
  BY <1>1, <1>2, <1>3 DEF FactorInv

-----------------------------------------------------------------------------
(***************************************************************************)
(* Tokens and sessions.                                                    *)
(***************************************************************************)
\* A token's payload, and a user as read, each with the login it stems from.
LoginRecs == [epoch : Nat, typed : Nat, second : BOOLEAN]
TokenRecs == [user : Users, type : {"access", "sudo"}, imp : BOOLEAN, scopes : SUBSET Perms,
              version : 1..MaxVersion, login : LoginRecs]
RowRecs == [user : Users, scopes : SUBSET Perms, version : 1..MaxVersion, login : LoginRecs]
Lives == {"long", "last", "over"}

AuthShape ==
    /\ users \subseteq Users /\ password \in [Users -> Nat]
    /\ token \in Seq(TokenRecs) /\ life \in Seq(Lives)
    /\ Len(life) = Len(token) /\ Len(token) <= MaxTokens
    /\ blacklist \subseteq Issued /\ revoked \subseteq Issued /\ unlisted \subseteq Issued
    /\ sessions \in [Users \X Agents -> Issued \union {NoValue}]
    /\ caller = [c \in Callers |-> caller[c]]

\* What a request has read before an await.
Held(s) ==
    /\ s.at \in {"issue", "impersonate"} => s.row \in RowRecs
    /\ s.at = "challenge" => s.user \in Users /\ s.typed \in Nat
    /\ s.at \in {"refresh", "stop"} => s.jti \in Issued
    /\ s.at \in {"revoke", "password"} => s.user \in Users
    /\ s.at = "blacklist" => s.jtis \subseteq Issued
    /\ s.at = "assign" => /\ s = [at |-> "assign", user |-> s.user, role |-> s.role, todo |-> s.todo]
                          /\ s.user \in Users /\ s.role \in RoleIds

HeldInv == \A c \in Callers : Held(caller[c])

\* Only access tokens impersonate; a session is that of a user's own token.
OwnInv ==
    /\ \A j \in Issued : token[j].imp => token[j].type = "access"
    /\ \A ua \in Users \X Agents :
          sessions[ua] # NoValue => /\ ua[1] \in users
                                    /\ token[sessions[ua]].user = ua[1]
                                    /\ token[sessions[ua]].type = "access"
                                    /\ ~token[sessions[ua]].imp

\* A confirmed revocation is in the blacklist while the token is not about
\* to run out.
RevokedInv == \A j \in revoked : life[j] = "long" => j \in blacklist

\* j can be found, was lost, or is about to be blacklisted.
Tracked(j) ==
    \/ \E ua \in Users \X Agents : sessions[ua] = j
    \/ j \in unlisted \union revoked
    \/ \E c \in Callers : caller[c].at = "blacklist" /\ j \in caller[c].jtis

ListedInv ==
    \A j \in Issued :
        token[j].type = "access" /\ ~token[j].imp /\ token[j].user \in users /\ life[j] # "over" => Tracked(j)

-----------------------------------------------------------------------------
\* A request moves on, and no other does.
LEMMA CallerMoved ==
    ASSUME AuthShape, NEW c \in Callers, NEW state, Then(c, state)
    PROVE  /\ caller' = [d \in Callers |-> caller'[d]]
           /\ caller'[c] = state
           /\ \A d \in Callers \ {c} : caller'[d] = caller[d]
  BY DEF AuthShape, Then

\* The jtis issued.
LEMMA IssuedJtis ==
    ASSUME AuthShape
    PROVE  /\ Len(token) \in Nat /\ Issued = 1..Len(token) /\ DOMAIN life = Issued
           /\ \A j \in Issued : token[j] \in TokenRecs /\ life[j] \in Lives
           /\ NoValue \notin Issued
<1>1. /\ Len(token) \in Nat /\ Issued = 1..Len(token) /\ DOMAIN life = Issued
      /\ \A j \in Issued : token[j] \in TokenRecs /\ life[j] \in Lives
  BY DEF AuthShape, Issued
<1>2. Len(token) <= MaxTokens
  BY DEF AuthShape
<1>3. NoValue \notin Issued
  BY <1>1, <1>2, SessionsConstants DEF Jtis
<1>4. QED
  BY <1>1, <1>3

\* A token is issued under the next jti.
LEMMA TokenIssued ==
    ASSUME AuthShape, NEW new \in TokenRecs, Issue(new)
    PROVE  /\ token' \in Seq(TokenRecs) /\ life' \in Seq(Lives)
           /\ Len(life') = Len(token') /\ Len(token') <= MaxTokens
           /\ Len(token) + 1 \notin Issued
           /\ Issued' = Issued \union {Len(token) + 1}
           /\ token'[Len(token) + 1] = new /\ life'[Len(token) + 1] = "long"
           /\ \A j \in Issued : token'[j] = token[j] /\ life'[j] = life[j]
<1>1. /\ token \in Seq(TokenRecs) /\ life \in Seq(Lives) /\ Len(life) = Len(token)
      /\ token' = Append(token, new) /\ life' = Append(life, "long") /\ Len(token) < MaxTokens
  BY DEF AuthShape, Issue
<1>2. Len(token) \in Nat /\ Issued = 1..Len(token) /\ "long" \in Lives
  BY <1>1 DEF Issued, Lives
<1>3. /\ token' \in Seq(TokenRecs) /\ life' \in Seq(Lives)
      /\ Len(token') = Len(token) + 1 /\ Len(life') = Len(token) + 1
  BY <1>1, <1>2
<1>4. Issued' = 1..(Len(token) + 1)
  BY <1>3 DEF Issued
<1>5. /\ token'[Len(token) + 1] = new /\ life'[Len(token) + 1] = "long"
      /\ \A j \in 1..Len(token) : token'[j] = token[j] /\ life'[j] = life[j]
  BY <1>1, <1>2
<1>6. QED
  BY <1>1, <1>2, <1>3, <1>4, <1>5, SessionsConstants

\* What requests hold stays meaningful while tokens are added.
LEMMA HeldMoved ==
    ASSUME AuthShape, HeldInv, NEW c \in Callers, NEW state, Then(c, state),
           Issued \subseteq Issued', Held(state)'
    PROVE  HeldInv'
<1>1. /\ caller'[c] = state
      /\ \A d \in Callers \ {c} : caller'[d] = caller[d]
  BY CallerMoved
<1>2. ASSUME NEW d \in Callers PROVE Held(caller[d])'
  BY <1>1 DEF HeldInv, Held
<1>3. QED
  BY <1>2 DEF HeldInv

\* The scopes of a user are permissions.
LEMMA ScopesTyped ==
    ASSUME RolesShape, NEW u \in Users
    PROVE  ScopesOf(u) \in SUBSET Perms
<1>1. ASSUME NEW r \in RoleIds, <<u, r>> \in holders
      PROVE  perms[r] \in SUBSET Perms
  BY <1>1 DEF RolesShape, RoleRows
<1>2. QED
  BY <1>1 DEF ScopesOf

\* A user as read by _get_user_with_roles, and with the login of another.
LEMMA UserRead ==
    ASSUME AuthShape, RolesShape, NEW u \in Users
    PROVE  /\ UserWithRoles(u) \in RowRecs
           /\ \A l \in LoginRecs : /\ [UserWithRoles(u) EXCEPT !.login = l] \in RowRecs
                                   /\ [UserWithRoles(u) EXCEPT !.login = l] =
                                        [user |-> u, scopes |-> ScopesOf(u), version |-> version[u], login |-> l]
<1> DEFINE fresh == FreshLogin(u)
<1>1. ScopesOf(u) \in SUBSET Perms /\ version[u] \in 1..MaxVersion /\ password[u] \in Nat
  BY ScopesTyped DEF AuthShape, RolesShape
<1>2. fresh \in LoginRecs
  BY <1>1 DEF LoginRecs, FreshLogin
<1>3. UserWithRoles(u) = [user |-> u, scopes |-> ScopesOf(u), version |-> version[u], login |-> fresh]
  BY DEF UserWithRoles
<1> HIDE DEF fresh
<1>4. QED
  BY <1>1, <1>2, <1>3 DEF RowRecs

\* The login of a challenge that was answered.
LEMMA AnsweredLogin ==
    ASSUME AuthShape, NEW u \in Users, NEW typed \in Nat
    PROVE  /\ [FreshLogin(u) EXCEPT !.typed = typed, !.second = TRUE] =
                 [epoch |-> password[u], typed |-> typed, second |-> TRUE]
           /\ [FreshLogin(u) EXCEPT !.typed = typed, !.second = TRUE] \in LoginRecs
<1>1. password[u] \in Nat
  BY DEF AuthShape
<1>2. [FreshLogin(u) EXCEPT !.typed = typed, !.second = TRUE] =
          [epoch |-> password[u], typed |-> typed, second |-> TRUE]
  <2>1. PICK f : f = [FreshLogin(u) EXCEPT !.typed = typed, !.second = TRUE]
    OBVIOUS
  <2>2. f = [epoch |-> password[u], typed |-> typed, second |-> TRUE]
    BY <1>1, <2>1 DEF FreshLogin
  <2>3. QED
    BY <2>1, <2>2
<1>3. QED
  BY <1>1, <1>2 DEF LoginRecs

\* A token made of a row.
LEMMA TokenMade ==
    ASSUME NEW row \in RowRecs, NEW type \in {"access", "sudo"}, NEW imp \in BOOLEAN
    PROVE  /\ CreateToken(row, type, imp) \in TokenRecs
           /\ CreateToken(row, type, imp).user = row.user
           /\ CreateToken(row, type, imp).type = type
           /\ CreateToken(row, type, imp).imp = imp
           /\ CreateToken(row, type, imp).login = row.login
           /\ CreateToken(row, type, imp).scopes \subseteq row.scopes
           /\ CreateToken(row, type, imp).version = IF type = "sudo" THEN 1 ELSE row.version
<1>1. 1 \in 1..MaxVersion
  BY RolesConstants
<1>2. QED
  BY <1>1 DEF RowRecs, TokenRecs, CreateToken, DefaultVersion

\* A sudo token made of an access token is one made of a row.
LEMMA TokenAsRow ==
    ASSUME NEW t \in TokenRecs
    PROVE  \E row \in RowRecs : /\ row.user = t.user /\ row.scopes = t.scopes
                                /\ row.version = t.version /\ row.login = t.login
                                /\ CreateToken(t, "sudo", FALSE) = CreateToken(row, "sudo", FALSE)
<1> DEFINE row == [user |-> t.user, scopes |-> t.scopes, version |-> t.version, login |-> t.login]
<1>1. /\ row \in RowRecs /\ row.user = t.user /\ row.scopes = t.scopes
      /\ row.version = t.version /\ row.login = t.login
  BY DEF TokenRecs, RowRecs
<1> HIDE DEF row
<1>2. CreateToken(t, "sudo", FALSE) = CreateToken(row, "sudo", FALSE)
  BY <1>1 DEF CreateToken
<1>3. QED
  BY <1>1, <1>2

\* A token made of a row is issued.
LEMMA RowIssued ==
    ASSUME AuthShape, NEW row \in RowRecs, NEW type \in {"access", "sudo"}, NEW imp \in BOOLEAN,
           Issue(CreateToken(row, type, imp))
    PROVE  /\ Issued' = Issued \union {Len(token) + 1} /\ Len(token) + 1 \notin Issued
           /\ token'[Len(token) + 1] = CreateToken(row, type, imp)
           /\ token'[Len(token) + 1].user = row.user
           /\ token'[Len(token) + 1].type = type
           /\ token'[Len(token) + 1].imp = imp
           /\ life'[Len(token) + 1] = "long"
           /\ \A j \in Issued : token'[j] = token[j] /\ life'[j] = life[j]
<1> DEFINE new == CreateToken(row, type, imp)
<1>1. new \in TokenRecs /\ new.user = row.user /\ new.type = type /\ new.imp = imp
  BY TokenMade
<1> HIDE DEF new
<1>2. Issue(new)
  BY DEF new
<1>3. /\ Issued' = Issued \union {Len(token) + 1} /\ Len(token) + 1 \notin Issued
      /\ token'[Len(token) + 1] = new /\ life'[Len(token) + 1] = "long"
      /\ \A j \in Issued : token'[j] = token[j] /\ life'[j] = life[j]
  BY <1>1, <1>2, TokenIssued
<1>4. QED
  BY <1>1, <1>3 DEF new

\* A step of assign_roles.
LEMMA AssignMoved ==
    ASSUME HeldInv, NEW c \in Callers, caller[c].at = "assign", NEW what, Did(c, what)
    PROVE  \E state : /\ Then(c, state) /\ state.at \in {"done", "assign"}
                      /\ state.at = "assign" =>
                            /\ state = [at |-> "assign", user |-> state.user, role |-> state.role, todo |-> state.todo]
                            /\ state.user \in Users /\ state.role \in RoleIds
<1> DEFINE s == caller[c]
<1>1. /\ s = [at |-> "assign", user |-> s.user, role |-> s.role, todo |-> s.todo]
      /\ s.user \in Users /\ s.role \in RoleIds
  BY DEF HeldInv, Held
<1>2. CASE s.todo = {what}
  <2>1. Then(c, [at |-> "done"])
    BY <1>2 DEF Did
  <2>2. QED
    BY <2>1
<1>3. CASE s.todo # {what}
  <2>1. Then(c, [s EXCEPT !.todo = s.todo \ {what}])
    BY <1>3 DEF Did
  <2>2. [s EXCEPT !.todo = s.todo \ {what}] =
            [at |-> "assign", user |-> s.user, role |-> s.role, todo |-> s.todo \ {what}]
    BY <1>1
  <2>3. QED
    BY <1>1, <2>1, <2>2
<1>4. QED
  BY <1>2, <1>3

-----------------------------------------------------------------------------
\* The steps in which a request only reads.
RequestReads(c) ==
    \/ \E u \in Users : \/ Login(c, u) \/ Impersonate(c, u)
                        \/ \E r \in RoleIds : AssignRoles(c, u, r)
    \/ \E j \in Issued : \/ RefreshVerify(c, j) \/ StopCheck(c, j)
                         \/ PasswordCheck(c, j) \/ RevokeCheck(c, j)
    \/ ChallengeAnswered(c) \/ ChallengeEnds(c) \/ RefreshRead(c) \/ MfaEnforced(c) \/ NotFound(c)

\* Where a request comes by reading, from st: the rows are those of users, a
\* user's own or with the login of the challenge or of the refresh token.
Read(st, s) ==
    \/ s = [at |-> "done"]
    \/ \E u \in users :
          \/ s \in {[at |-> "issue", row |-> UserWithRoles(u)], [at |-> "impersonate", row |-> UserWithRoles(u)]}
          \/ s = [at |-> "challenge", user |-> u, typed |-> password[u]]
          \/ \E r \in RoleIds : s = [at |-> "assign", user |-> u, role |-> r, todo |-> {"insert", "bump"}]
          \/ /\ st.at = "challenge"
             /\ s = [at |-> "issue",
                     row |-> [UserWithRoles(u) EXCEPT !.login =
                                 [FreshLogin(u) EXCEPT !.typed = st.typed, !.second = TRUE]]]
          \/ /\ st.at = "refresh" /\ token[st.jti].user = u /\ version[u] = token[st.jti].version
             /\ s = [at |-> "issue",
                     row |-> [UserWithRoles(u) EXCEPT !.login = token[st.jti].login]]
    \/ \E j \in Issued :
          \/ s = [at |-> "refresh", jti |-> j]
          \/ s = [at |-> "stop", jti |-> j]
          \/ s \in {[at |-> "password", user |-> token[j].user], [at |-> "revoke", user |-> token[j].user]}

\* A request that reads moves on, and nothing else happens.
LEMMA ReadOnly ==
    ASSUME NEW c \in Callers, RequestReads(c)
    PROVE  /\ caller[c].at # "blacklist"
           /\ UNCHANGED <<users, password, token, life, blacklist, sessions, revoked, unlisted, roleVars, store>>
           /\ \E s : Then(c, s) /\ Read(caller[c], s)
<1> DEFINE Goal == /\ caller[c].at # "blacklist"
                   /\ UNCHANGED <<users, password, token, life, blacklist, sessions, revoked, unlisted,
                                  roleVars, store>>
                   /\ \E s : Then(c, s) /\ Read(caller[c], s)
<1>1. ASSUME NEW u \in Users, Login(c, u)
      PROVE  Goal
  BY <1>1 DEF Login, Read
<1>2. ASSUME NEW u \in Users, Impersonate(c, u)
      PROVE  Goal
  BY <1>2 DEF Impersonate, Read
<1>3. ASSUME NEW u \in Users, NEW r \in RoleIds, AssignRoles(c, u, r)
      PROVE  Goal
  BY <1>3 DEF AssignRoles, Read
<1>4. ASSUME NEW j \in Issued, RefreshVerify(c, j)
      PROVE  Goal
  BY <1>4 DEF RefreshVerify, Read
<1>5. ASSUME NEW j \in Issued, StopCheck(c, j)
      PROVE  Goal
  BY <1>5 DEF StopCheck, Read
<1>6. ASSUME NEW j \in Issued, PasswordCheck(c, j)
      PROVE  Goal
  BY <1>6 DEF PasswordCheck, Read
<1>7. ASSUME NEW j \in Issued, RevokeCheck(c, j)
      PROVE  Goal
  BY <1>7 DEF RevokeCheck, Read
<1>8. ASSUME ChallengeAnswered(c)
      PROVE  Goal
  BY <1>8 DEF ChallengeAnswered, Over, Read
<1>9. ASSUME ChallengeEnds(c)
      PROVE  Goal
  BY <1>9 DEF ChallengeEnds, Over, Read
<1>10. ASSUME RefreshRead(c)
      PROVE  Goal
  BY <1>10 DEF RefreshRead, RefreshedRow, Over, Read
<1>11. ASSUME MfaEnforced(c)
      PROVE  Goal
  BY <1>11 DEF MfaEnforced, Over, Read
<1>12. ASSUME NotFound(c)
      PROVE  Goal
  BY <1>12 DEF NotFound, Over, Read
<1>13. QED
  BY <1>1, <1>2, <1>3, <1>4, <1>5, <1>6, <1>7, <1>8, <1>9, <1>10, <1>11, <1>12 DEF RequestReads

\* What is read is a row of a user, a user or a token.
LEMMA ReadHeld ==
    ASSUME AuthShape, HeldInv, RolesShape, NEW c \in Callers, NEW s, Read(caller[c], s)
    PROVE  Held(s) /\ s.at # "blacklist"
<1> DEFINE st == caller[c]
<1>1. CASE s = [at |-> "done"]
  BY <1>1 DEF Held
<1>2. ASSUME NEW u \in users, s \in {[at |-> "issue", row |-> UserWithRoles(u)],
                                   [at |-> "impersonate", row |-> UserWithRoles(u)]}
      PROVE  Held(s) /\ s.at # "blacklist"
  <2>1. PICK row \in RowRecs : row = UserWithRoles(u)
    BY UserRead DEF AuthShape
  <2>2. s = [at |-> "issue", row |-> row] \/ s = [at |-> "impersonate", row |-> row]
    BY <1>2, <2>1
  <2>3. QED
    BY <2>2 DEF Held
<1>3. ASSUME NEW u \in users, s = [at |-> "challenge", user |-> u, typed |-> password[u]]
      PROVE  Held(s) /\ s.at # "blacklist"
  BY <1>3 DEF Held, AuthShape
<1>4. ASSUME NEW u \in users, NEW r \in RoleIds,
             s = [at |-> "assign", user |-> u, role |-> r, todo |-> {"insert", "bump"}]
      PROVE  Held(s) /\ s.at # "blacklist"
  BY <1>4 DEF Held, AuthShape
<1>5. ASSUME NEW u \in users, NEW l \in LoginRecs,
             s = [at |-> "issue", row |-> [UserWithRoles(u) EXCEPT !.login = l]]
      PROVE  Held(s) /\ s.at # "blacklist"
  <2>1. PICK row \in RowRecs : row = [UserWithRoles(u) EXCEPT !.login = l]
    BY UserRead DEF AuthShape
  <2>2. s = [at |-> "issue", row |-> row]
    BY <1>5, <2>1
  <2>3. QED
    BY <2>2 DEF Held
<1>6. ASSUME NEW u \in users, st.at = "challenge"
      PROVE  [FreshLogin(u) EXCEPT !.typed = st.typed, !.second = TRUE] \in LoginRecs
  <2>1. st.typed \in Nat /\ u \in Users
    BY <1>6 DEF HeldInv, Held, AuthShape
  <2>2. QED
    BY <2>1, AnsweredLogin
<1>7. ASSUME st.at = "refresh"
      PROVE  token[st.jti].login \in LoginRecs
  <2>1. st.jti \in Issued
    BY <1>7 DEF HeldInv, Held
  <2>2. QED
    BY <2>1, IssuedJtis DEF TokenRecs
<1>8. ASSUME NEW j \in Issued,
             \/ s = [at |-> "refresh", jti |-> j]
             \/ s = [at |-> "stop", jti |-> j]
             \/ s \in {[at |-> "password", user |-> token[j].user], [at |-> "revoke", user |-> token[j].user]}
      PROVE  Held(s) /\ s.at # "blacklist"
  <2>1. token[j].user \in Users
    BY IssuedJtis DEF TokenRecs
  <2>2. CASE s = [at |-> "refresh", jti |-> j]
    BY <2>2 DEF Held
  <2>3. CASE s = [at |-> "stop", jti |-> j]
    BY <2>3 DEF Held
  <2>4. CASE s = [at |-> "password", user |-> token[j].user]
    BY <2>1, <2>4 DEF Held
  <2>5. CASE s = [at |-> "revoke", user |-> token[j].user]
    BY <2>1, <2>5 DEF Held
  <2>6. QED
    BY <1>8, <2>2, <2>3, <2>4, <2>5
<1>9. QED
  BY <1>1, <1>2, <1>3, <1>4, <1>5, <1>6, <1>7, <1>8 DEF Read

\* Tokens, tables and keys keep their shape.
LEMMA AuthShapeStep ==
    ASSUME AuthShape, HeldInv, RolesShape, AuthNext
    PROVE  AuthShape'
<1>1. ASSUME NEW c \in Callers, RequestReads(c)
      PROVE  AuthShape'
  <2>1. caller' = [d \in Callers |-> caller'[d]]
    BY <1>1, ReadOnly, CallerMoved
  <2>2. QED
    BY <1>1, <2>1, ReadOnly DEF AuthShape, Issued
<1>2. ASSUME NEW c \in Callers, NEW a \in Agents, IssueTokens(c, a)
      PROVE  AuthShape'
  <2> DEFINE row == caller[c].row
  <2>1. caller' = [d \in Callers |-> caller'[d]]
    BY <1>2, CallerMoved DEF IssueTokens, Over
  <2>2. CASE row.user \in users
    <3>1. CreateToken(row, "access", FALSE) \in TokenRecs
      BY <1>2, TokenMade DEF IssueTokens, HeldInv, Held
    <3>2. /\ token' \in Seq(TokenRecs) /\ life' \in Seq(Lives)
          /\ Len(life') = Len(token') /\ Len(token') <= MaxTokens
          /\ Issued' = Issued \union {Len(token) + 1}
      BY <1>2, <2>2, <3>1, TokenIssued DEF IssueTokens
    <3>3. /\ sessions' = [sessions EXCEPT ![<<row.user, a>>] = Len(token) + 1]
          /\ unlisted' = unlisted \union ({sessions[<<row.user, a>>]} \ {NoValue})
      BY <1>2, <2>2 DEF IssueTokens, UpsertSession
    <3>4. /\ sessions \in [Users \X Agents -> Issued \union {NoValue}] /\ unlisted \subseteq Issued
          /\ <<row.user, a>> \in Users \X Agents
      BY <2>2 DEF AuthShape
    <3>5. /\ sessions' \in [Users \X Agents -> Issued' \union {NoValue}]
          /\ unlisted' \subseteq Issued'
      BY <3>2, <3>3, <3>4
    <3>6. QED
      BY <1>2, <2>1, <3>2, <3>5 DEF IssueTokens, AuthShape
  <2>3. CASE row.user \notin users
    <3>1. UNCHANGED <<token, life, sessions, unlisted>>
      BY <1>2, <2>3 DEF IssueTokens
    <3>2. QED
      BY <1>2, <2>1, <3>1 DEF IssueTokens, AuthShape, Issued
  <2>4. QED
    BY <2>2, <2>3
<1>3. ASSUME NEW c \in Callers, IssueImpersonation(c)
      PROVE  AuthShape'
  <2>1. CreateToken(caller[c].row, "access", TRUE) \in TokenRecs
    BY <1>3, TokenMade DEF IssueImpersonation, HeldInv, Held
  <2>2. /\ token' \in Seq(TokenRecs) /\ life' \in Seq(Lives)
        /\ Len(life') = Len(token') /\ Len(token') <= MaxTokens
        /\ Issued' = Issued \union {Len(token) + 1}
    BY <1>3, <2>1, TokenIssued DEF IssueImpersonation
  <2>3. caller' = [d \in Callers |-> caller'[d]]
    BY <1>3, CallerMoved DEF IssueImpersonation, Over
  <2>4. QED
    BY <1>3, <2>2, <2>3 DEF IssueImpersonation, AuthShape
<1>4. ASSUME NEW c \in Callers, RevokeAllSessions(c)
      PROVE  AuthShape'
  <2>1. caller' = [d \in Callers |-> caller'[d]]
    BY <1>4, CallerMoved DEF RevokeAllSessions
  <2>2. /\ sessions' \in [Users \X Agents -> Issued \union {NoValue}]
        /\ unlisted' \subseteq Issued
    <3>1. PICK J : sessions' = WithoutRows(J)
      BY <1>4 DEF RevokeAllSessions
    <3>2. /\ sessions \in [Users \X Agents -> Issued \union {NoValue}] /\ unlisted \subseteq Issued
      BY DEF AuthShape
    <3>3. sessions' \in [Users \X Agents -> Issued \union {NoValue}]
      BY <3>1, <3>2 DEF WithoutRows
    <3>4. JtisOf(caller[c].user) \subseteq Issued
      BY <3>2 DEF JtisOf
    <3>5. unlisted' \subseteq Issued
      BY <1>4, <3>2, <3>4 DEF RevokeAllSessions
    <3>6. QED
      BY <3>3, <3>5
  <2>3. QED
    BY <1>4, <2>1, <2>2 DEF RevokeAllSessions, AuthShape, Issued
<1>5. ASSUME NEW c \in Callers, NEW j \in Issued, RevokeSession(c, j)
      PROVE  AuthShape'
  <2>1. caller' = [d \in Callers |-> caller'[d]]
    BY <1>5, CallerMoved DEF RevokeSession, Over
  <2>2. /\ sessions' \in [Users \X Agents -> Issued \union {NoValue}]
        /\ unlisted' \subseteq Issued
    BY <1>5 DEF RevokeSession, WithoutRows, AuthShape
  <2>3. QED
    BY <1>5, <2>1, <2>2 DEF RevokeSession, AuthShape, Issued
<1>6. ASSUME NEW c \in Callers, Blacklist(c)
      PROVE  AuthShape'
  <2>1. caller' = [d \in Callers |-> caller'[d]] /\ caller[c].jtis \subseteq Issued
    BY <1>6, CallerMoved DEF Blacklist, Over, HeldInv, Held
  <2>2. QED
    BY <1>6, <2>1 DEF Blacklist, AuthShape, Issued
<1>7. ASSUME NEW c \in Callers, BlacklistFails(c)
      PROVE  AuthShape'
  <2>1. caller' = [d \in Callers |-> caller'[d]] /\ caller[c].jtis \subseteq Issued
    BY <1>7, CallerMoved DEF BlacklistFails, Over, HeldInv, Held
  <2>2. QED
    BY <1>7, <2>1 DEF BlacklistFails, AuthShape, Issued
<1>8. ASSUME NEW c \in Callers, InsertUserRole(c)
      PROVE  AuthShape'
  <2>1. caller' = [d \in Callers |-> caller'[d]]
    BY <1>8, AssignMoved, CallerMoved DEF InsertUserRole
  <2>2. QED
    BY <1>8, <2>1 DEF InsertUserRole, AuthShape, Issued
<1>9. ASSUME NEW c \in Callers, BumpUser(c)
      PROVE  AuthShape'
  <2>1. caller' = [d \in Callers |-> caller'[d]]
    BY <1>9, AssignMoved, CallerMoved DEF BumpUser
  <2>2. QED
    BY <1>9, <2>1 DEF BumpUser, AuthShape, Issued
<1>10. ASSUME NEW u \in Users, CreateSudoToken(u)
      PROVE  AuthShape'
  <2>1. CreateToken(UserWithRoles(u), "sudo", FALSE) \in TokenRecs
    BY UserRead, TokenMade
  <2>2. /\ token' \in Seq(TokenRecs) /\ life' \in Seq(Lives)
        /\ Len(life') = Len(token') /\ Len(token') <= MaxTokens
        /\ Issued' = Issued \union {Len(token) + 1}
    BY <1>10, <2>1, TokenIssued DEF CreateSudoToken
  <2>3. caller' = [d \in Callers |-> caller'[d]]
    BY <1>10 DEF CreateSudoToken, AuthShape
  <2>4. QED
    BY <1>10, <2>2, <2>3 DEF CreateSudoToken, AuthShape
<1>11. ASSUME NEW j \in Issued, NEW k \in Issued, CreateSudoTokenOauth(j, k)
      PROVE  AuthShape'
  <2>1. CreateToken(token[j], "sudo", FALSE) \in TokenRecs
    <3>1. PICK row \in RowRecs : CreateToken(token[j], "sudo", FALSE) = CreateToken(row, "sudo", FALSE)
      BY IssuedJtis, TokenAsRow
    <3>2. QED
      BY <3>1, TokenMade
  <2>2. /\ token' \in Seq(TokenRecs) /\ life' \in Seq(Lives)
        /\ Len(life') = Len(token') /\ Len(token') <= MaxTokens
        /\ Issued' = Issued \union {Len(token) + 1}
    BY <1>11, <2>1, TokenIssued DEF CreateSudoTokenOauth
  <2>3. caller' = [d \in Callers |-> caller'[d]]
    BY <1>11 DEF CreateSudoTokenOauth, AuthShape
  <2>4. QED
    BY <1>11, <2>2, <2>3 DEF CreateSudoTokenOauth, AuthShape
<1>12. ASSUME NEW u \in Users, DeleteUser(u)
      PROVE  AuthShape'
  BY <1>12 DEF DeleteUser, AuthShape, Issued
<1>13. ASSUME NEW c \in Callers, StopImpersonation(c)
      PROVE  AuthShape'
  <2>1. caller' = [d \in Callers |-> caller'[d]] /\ caller[c].jti \in Issued
    BY <1>13, CallerMoved DEF StopImpersonation, Over, HeldInv, Held
  <2>2. QED
    BY <1>13, <2>1 DEF StopImpersonation, AuthShape, Issued
<1>14. ASSUME NEW c \in Callers, UpdatePassword(c)
      PROVE  AuthShape'
  <2>1. caller' = [d \in Callers |-> caller'[d]] /\ caller[c].user \in Users
    BY <1>14, CallerMoved DEF UpdatePassword, Over, HeldInv, Held
  <2>2. password' \in [Users -> Nat]
    <3>1. password \in [Users -> Nat]
      BY DEF AuthShape
    <3>2. \/ password' = [password EXCEPT ![caller[c].user] = @ + 1]
          \/ password' = password
      BY <1>14 DEF UpdatePassword
    <3>3. QED
      BY <2>1, <3>1, <3>2
  <2>3. QED
    BY <1>14, <2>1, <2>2 DEF UpdatePassword, AuthShape, Issued
<1>15. ASSUME NEW j \in Issued, Ages(j)
      PROVE  AuthShape'
  <2>1. j \in DOMAIN life /\ life \in Seq(Lives)
    BY IssuedJtis DEF AuthShape
  <2>2. life' \in Seq(Lives) /\ Len(life') = Len(life)
    BY <1>15, <2>1 DEF Ages, Lives
  <2>3. QED
    BY <1>15, <2>2 DEF Ages, AuthShape, Issued
<1>16. ASSUME NEW j \in Issued, BlacklistLapses(j)
      PROVE  AuthShape'
  BY <1>16 DEF BlacklistLapses, AuthShape, Issued
<1>17. ASSUME RolesNext /\ UNCHANGED authVars
      PROVE  AuthShape'
  BY <1>17 DEF authVars, AuthShape, Issued
<1>18. QED
  BY <1>1, <1>2, <1>3, <1>4, <1>5, <1>6, <1>7, <1>8, <1>9, <1>10, <1>11,
     <1>12, <1>13, <1>14, <1>15, <1>16, <1>17 DEF AuthNext, RequestReads

\* What requests hold keeps its meaning.
LEMMA AuthHeldStep ==
    ASSUME AuthShape, HeldInv, RolesShape, AuthNext
    PROVE  HeldInv'
<1>1. ASSUME NEW c \in Callers, RequestReads(c)
      PROVE  HeldInv'
  <2>1. PICK s : Then(c, s) /\ Read(caller[c], s)
    BY <1>1, ReadOnly
  <2>2. UNCHANGED token
    BY <1>1, ReadOnly
  <2>3. Held(s)
    BY <2>1, ReadHeld
  <2>4. Held(s)'
    BY <2>2, <2>3 DEF Held, Issued
  <2>5. QED
    BY <2>1, <2>2, <2>4, HeldMoved DEF Issued
<1>2. ASSUME NEW c \in Callers, NEW a \in Agents, IssueTokens(c, a)
      PROVE  HeldInv'
  <2>1. Then(c, [at |-> "done"]) /\ Held([at |-> "done"])'
    BY <1>2 DEF IssueTokens, Over, Held
  <2>2. Issued \subseteq Issued'
    <3>1. CASE caller[c].row.user \in users
      <4>1. CreateToken(caller[c].row, "access", FALSE) \in TokenRecs
        BY <1>2, TokenMade DEF IssueTokens, HeldInv, Held
      <4>2. QED
        BY <1>2, <3>1, <4>1, TokenIssued DEF IssueTokens
    <3>2. CASE caller[c].row.user \notin users
      BY <1>2, <3>2 DEF IssueTokens, Issued
    <3>3. QED
      BY <3>1, <3>2
  <2>3. QED
    BY <2>1, <2>2, HeldMoved
<1>3. ASSUME NEW c \in Callers, IssueImpersonation(c)
      PROVE  HeldInv'
  <2>1. Then(c, [at |-> "done"]) /\ Held([at |-> "done"])'
    BY <1>3 DEF IssueImpersonation, Over, Held
  <2>2. CreateToken(caller[c].row, "access", TRUE) \in TokenRecs
    BY <1>3, TokenMade DEF IssueImpersonation, HeldInv, Held
  <2>3. Issued \subseteq Issued'
    BY <1>3, <2>2, TokenIssued DEF IssueImpersonation
  <2>4. QED
    BY <2>1, <2>3, HeldMoved
<1>4. ASSUME NEW c \in Callers, RevokeAllSessions(c)
      PROVE  HeldInv'
  <2>1. PICK J, late : Then(c, [at |-> "blacklist", jtis |-> {j \in J : life[j] # "over"} \ late])
                       /\ J = JtisOf(caller[c].user)
    BY <1>4 DEF RevokeAllSessions
  <2>2. UNCHANGED token
    BY <1>4 DEF RevokeAllSessions
  <2>3. J \subseteq Issued
    BY <2>1 DEF AuthShape, JtisOf
  <2>4. PICK state : /\ Then(c, state)
                     /\ state = [at |-> "blacklist", jtis |-> {j \in J : life[j] # "over"} \ late]
    BY <2>1
  <2>5. Held(state)'
    BY <2>2, <2>3, <2>4 DEF Held, Issued
  <2>6. QED
    BY <2>2, <2>4, <2>5, HeldMoved DEF Issued
<1>5. ASSUME NEW c \in Callers, NEW j \in Issued, RevokeSession(c, j)
      PROVE  HeldInv'
  <2>1. PICK state : state \in {[at |-> "done"], [at |-> "blacklist", jtis |-> {j}]} /\ Then(c, state)
    BY <1>5 DEF RevokeSession, Over
  <2>2. UNCHANGED token
    BY <1>5 DEF RevokeSession
  <2>3. Held(state)'
    BY <2>1, <2>2 DEF Held, Issued
  <2>4. QED
    BY <2>1, <2>2, <2>3, HeldMoved DEF Issued
<1>6. ASSUME NEW c \in Callers, Blacklist(c)
      PROVE  HeldInv'
  <2>1. PICK state : state = [at |-> "done"] /\ Then(c, state)
    BY <1>6 DEF Blacklist, Over
  <2>2. UNCHANGED token
    BY <1>6 DEF Blacklist
  <2>3. Held(state)'
    BY <1>6, <2>1, <2>2 DEF Held
  <2>4. QED
    BY <2>1, <2>2, <2>3, HeldMoved DEF Issued
<1>7. ASSUME NEW c \in Callers, BlacklistFails(c)
      PROVE  HeldInv'
  <2>1. PICK state : state = [at |-> "done"] /\ Then(c, state)
    BY <1>7 DEF BlacklistFails, Over
  <2>2. UNCHANGED token
    BY <1>7 DEF BlacklistFails
  <2>3. Held(state)'
    BY <1>7, <2>1, <2>2 DEF Held
  <2>4. QED
    BY <2>1, <2>2, <2>3, HeldMoved DEF Issued
<1>8. ASSUME NEW c \in Callers, InsertUserRole(c)
      PROVE  HeldInv'
  <2>1. PICK state : /\ Then(c, state) /\ state.at \in {"done", "assign"}
                     /\ state.at = "assign" =>
                           /\ state = [at |-> "assign", user |-> state.user, role |-> state.role, todo |-> state.todo]
                           /\ state.user \in Users /\ state.role \in RoleIds
    BY <1>8, AssignMoved DEF InsertUserRole
  <2>2. UNCHANGED token
    BY <1>8 DEF InsertUserRole
  <2>3. Held(state)'
    BY <2>1 DEF Held
  <2>4. QED
    BY <2>1, <2>2, <2>3, HeldMoved DEF Issued
<1>9. ASSUME NEW c \in Callers, BumpUser(c)
      PROVE  HeldInv'
  <2>1. PICK state : /\ Then(c, state) /\ state.at \in {"done", "assign"}
                     /\ state.at = "assign" =>
                           /\ state = [at |-> "assign", user |-> state.user, role |-> state.role, todo |-> state.todo]
                           /\ state.user \in Users /\ state.role \in RoleIds
    BY <1>9, AssignMoved DEF BumpUser
  <2>2. UNCHANGED token
    BY <1>9 DEF BumpUser
  <2>3. Held(state)'
    BY <2>1 DEF Held
  <2>4. QED
    BY <2>1, <2>2, <2>3, HeldMoved DEF Issued
<1>10. ASSUME NEW u \in Users, CreateSudoToken(u)
      PROVE  HeldInv'
  <2>1. CreateToken(UserWithRoles(u), "sudo", FALSE) \in TokenRecs
    BY UserRead, TokenMade
  <2>2. Issued \subseteq Issued' /\ UNCHANGED caller
    BY <1>10, <2>1, TokenIssued DEF CreateSudoToken
  <2>3. QED
    BY <2>2 DEF HeldInv, Held
<1>11. ASSUME NEW j \in Issued, NEW k \in Issued, CreateSudoTokenOauth(j, k)
      PROVE  HeldInv'
  <2>1. CreateToken(token[j], "sudo", FALSE) \in TokenRecs
    <3>1. PICK row \in RowRecs : CreateToken(token[j], "sudo", FALSE) = CreateToken(row, "sudo", FALSE)
      BY IssuedJtis, TokenAsRow
    <3>2. QED
      BY <3>1, TokenMade
  <2>2. Issued \subseteq Issued' /\ UNCHANGED caller
    BY <1>11, <2>1, TokenIssued DEF CreateSudoTokenOauth
  <2>3. QED
    BY <2>2 DEF HeldInv, Held
<1>12. ASSUME NEW u \in Users, DeleteUser(u)
      PROVE  HeldInv'
  BY <1>12 DEF DeleteUser, HeldInv, Held, Issued
<1>13. ASSUME NEW c \in Callers, StopImpersonation(c)
      PROVE  HeldInv'
  <2>1. PICK state : state = [at |-> "done"] /\ Then(c, state)
    BY <1>13 DEF StopImpersonation, Over
  <2>2. UNCHANGED token
    BY <1>13 DEF StopImpersonation
  <2>3. Held(state)'
    BY <2>1 DEF Held
  <2>4. QED
    BY <2>1, <2>2, <2>3, HeldMoved DEF Issued
<1>14. ASSUME NEW c \in Callers, UpdatePassword(c)
      PROVE  HeldInv'
  <2>1. PICK state : state = [at |-> "done"] /\ Then(c, state)
    BY <1>14 DEF UpdatePassword, Over
  <2>2. UNCHANGED token
    BY <1>14 DEF UpdatePassword
  <2>3. Held(state)'
    BY <2>1 DEF Held
  <2>4. QED
    BY <2>1, <2>2, <2>3, HeldMoved DEF Issued
<1>15. ASSUME NEW j \in Issued, Ages(j)
      PROVE  HeldInv'
  BY <1>15 DEF Ages, HeldInv, Held, Issued
<1>16. ASSUME NEW j \in Issued, BlacklistLapses(j)
      PROVE  HeldInv'
  BY <1>16 DEF BlacklistLapses, HeldInv, Held, Issued
<1>17. ASSUME RolesNext /\ UNCHANGED authVars
      PROVE  HeldInv'
  BY <1>17 DEF authVars, HeldInv, Held, Issued
<1>18. QED
  BY <1>1, <1>2, <1>3, <1>4, <1>5, <1>6, <1>7, <1>8, <1>9, <1>10, <1>11,
     <1>12, <1>13, <1>14, <1>15, <1>16, <1>17 DEF AuthNext, RequestReads

\* A session stays that of a token of its user.
LEMMA AuthOwnStep ==
    ASSUME AuthShape, HeldInv, RolesShape, OwnInv, AuthNext
    PROVE  OwnInv'
<1>1. ASSUME NEW c \in Callers, RequestReads(c)
      PROVE  OwnInv'
  BY <1>1, ReadOnly DEF OwnInv, Issued
<1>2. ASSUME NEW c \in Callers, NEW a \in Agents, IssueTokens(c, a)
      PROVE  OwnInv'
  <2> DEFINE row == caller[c].row
             new == Len(token) + 1
  <2>1. row \in RowRecs
    BY <1>2 DEF IssueTokens, HeldInv, Held
  <2>2. CASE row.user \in users
    <3>1. /\ Issued' = Issued \union {new}
          /\ token'[new].type = "access" /\ ~token'[new].imp /\ token'[new].user = row.user
          /\ \A j \in Issued : token'[j] = token[j]
      BY <1>2, <2>1, <2>2, RowIssued DEF IssueTokens
    <3>2. sessions' = [sessions EXCEPT ![<<row.user, a>>] = new] /\ users' = users
      BY <1>2, <2>2 DEF IssueTokens, UpsertSession
    <3>3. <<row.user, a>> \in Users \X Agents /\ DOMAIN sessions = Users \X Agents
      BY <2>2 DEF AuthShape
    <3>4. \A j \in Issued' : token'[j].imp => token'[j].type = "access"
      BY <3>1 DEF OwnInv
    <3>5. ASSUME NEW ua \in Users \X Agents, sessions'[ua] # NoValue
          PROVE  /\ ua[1] \in users' /\ token'[sessions'[ua]].user = ua[1]
                 /\ token'[sessions'[ua]].type = "access" /\ ~token'[sessions'[ua]].imp
      <4>1. CASE ua = <<row.user, a>>
        BY <2>2, <3>1, <3>2, <3>3, <4>1
      <4>2. CASE ua # <<row.user, a>>
        <5>1. sessions'[ua] = sessions[ua] /\ sessions[ua] \in Issued
          BY <3>2, <3>3, <3>5, <4>2 DEF AuthShape
        <5>2. QED
          BY <3>1, <3>2, <3>5, <5>1 DEF OwnInv
      <4>3. QED
        BY <4>1, <4>2
    <3>6. QED
      BY <3>4, <3>5 DEF OwnInv
  <2>3. CASE row.user \notin users
    BY <1>2, <2>3 DEF IssueTokens, OwnInv, Issued
  <2>4. QED
    BY <2>2, <2>3
<1>3. ASSUME NEW c \in Callers, IssueImpersonation(c)
      PROVE  OwnInv'
  <2>1. caller[c].row \in RowRecs
    BY <1>3 DEF IssueImpersonation, HeldInv, Held
  <2>2. /\ Issued' = Issued \union {Len(token) + 1}
        /\ token'[Len(token) + 1].type = "access" /\ token'[Len(token) + 1].imp = TRUE
        /\ \A j \in Issued : token'[j] = token[j]
    BY <1>3, <2>1, RowIssued DEF IssueImpersonation
  <2>3. UNCHANGED <<users, sessions>>
    BY <1>3 DEF IssueImpersonation
  <2>4. \A i \in Issued' : token'[i].imp => token'[i].type = "access"
    BY <2>2 DEF OwnInv
  <2>5. \A ua \in Users \X Agents : sessions[ua] # NoValue => token'[sessions[ua]] = token[sessions[ua]]
    BY <2>2 DEF AuthShape
  <2>6. QED
    BY <2>3, <2>4, <2>5 DEF OwnInv
<1>4. ASSUME NEW c \in Callers, RevokeAllSessions(c)
      PROVE  OwnInv'
  <2>1. PICK J : sessions' = WithoutRows(J)
    BY <1>4 DEF RevokeAllSessions
  <2>2. \A ua \in Users \X Agents : sessions'[ua] \in {sessions[ua], NoValue}
    BY <2>1 DEF WithoutRows, AuthShape
  <2>3. UNCHANGED <<users, token>>
    BY <1>4 DEF RevokeAllSessions
  <2>4. QED
    BY <2>2, <2>3 DEF OwnInv, Issued
<1>5. ASSUME NEW c \in Callers, NEW j \in Issued, RevokeSession(c, j)
      PROVE  OwnInv'
  <2>1. PICK J : sessions' = WithoutRows(J)
    BY <1>5 DEF RevokeSession
  <2>2. \A ua \in Users \X Agents : sessions'[ua] \in {sessions[ua], NoValue}
    BY <2>1 DEF WithoutRows, AuthShape
  <2>3. UNCHANGED <<users, token>>
    BY <1>5 DEF RevokeSession
  <2>4. QED
    BY <2>2, <2>3 DEF OwnInv, Issued
<1>6. ASSUME NEW c \in Callers, Blacklist(c)
      PROVE  OwnInv'
  BY <1>6 DEF Blacklist, OwnInv, Issued
<1>7. ASSUME NEW c \in Callers, BlacklistFails(c)
      PROVE  OwnInv'
  BY <1>7 DEF BlacklistFails, OwnInv, Issued
<1>8. ASSUME NEW c \in Callers, InsertUserRole(c)
      PROVE  OwnInv'
  BY <1>8 DEF InsertUserRole, OwnInv, Issued
<1>9. ASSUME NEW c \in Callers, BumpUser(c)
      PROVE  OwnInv'
  BY <1>9 DEF BumpUser, OwnInv, Issued
<1>10. ASSUME NEW u \in Users, CreateSudoToken(u)
      PROVE  OwnInv'
  <2>1. UserWithRoles(u) \in RowRecs
    BY UserRead
  <2>2. /\ Issued' = Issued \union {Len(token) + 1}
        /\ token'[Len(token) + 1].type = "sudo" /\ token'[Len(token) + 1].imp = FALSE
        /\ \A j \in Issued : token'[j] = token[j]
    BY <1>10, <2>1, RowIssued DEF CreateSudoToken
  <2>3. UNCHANGED <<users, sessions>>
    BY <1>10 DEF CreateSudoToken
  <2>4. \A i \in Issued' : token'[i].imp => token'[i].type = "access"
    BY <2>2 DEF OwnInv
  <2>5. \A ua \in Users \X Agents : sessions[ua] # NoValue => token'[sessions[ua]] = token[sessions[ua]]
    BY <2>2 DEF AuthShape
  <2>6. QED
    BY <2>3, <2>4, <2>5 DEF OwnInv
<1>11. ASSUME NEW j \in Issued, NEW k \in Issued, CreateSudoTokenOauth(j, k)
      PROVE  OwnInv'
  <2>1. PICK row \in RowRecs : CreateToken(token[j], "sudo", FALSE) = CreateToken(row, "sudo", FALSE)
    BY IssuedJtis, TokenAsRow
  <2>2. /\ Issued' = Issued \union {Len(token) + 1}
        /\ token'[Len(token) + 1].type = "sudo" /\ token'[Len(token) + 1].imp = FALSE
        /\ \A i \in Issued : token'[i] = token[i]
    BY <1>11, <2>1, RowIssued DEF CreateSudoTokenOauth
  <2>3. UNCHANGED <<users, sessions>>
    BY <1>11 DEF CreateSudoTokenOauth
  <2>4. \A i \in Issued' : token'[i].imp => token'[i].type = "access"
    BY <2>2 DEF OwnInv
  <2>5. \A ua \in Users \X Agents : sessions[ua] # NoValue => token'[sessions[ua]] = token[sessions[ua]]
    BY <2>2 DEF AuthShape
  <2>6. QED
    BY <2>3, <2>4, <2>5 DEF OwnInv
<1>12. ASSUME NEW u \in Users, DeleteUser(u)
      PROVE  OwnInv'
  <2>1. /\ UNCHANGED token /\ users' = users \ {u}
        /\ \A ua \in Users \X Agents : sessions'[ua] = IF ua[1] = u THEN NoValue ELSE sessions[ua]
    BY <1>12 DEF DeleteUser, AuthShape
  <2>2. QED
    BY <2>1 DEF OwnInv, Issued
<1>13. ASSUME NEW c \in Callers, StopImpersonation(c)
      PROVE  OwnInv'
  BY <1>13 DEF StopImpersonation, OwnInv, Issued
<1>14. ASSUME NEW c \in Callers, UpdatePassword(c)
      PROVE  OwnInv'
  BY <1>14 DEF UpdatePassword, OwnInv, Issued
<1>15. ASSUME NEW j \in Issued, Ages(j)
      PROVE  OwnInv'
  BY <1>15 DEF Ages, OwnInv, Issued
<1>16. ASSUME NEW j \in Issued, BlacklistLapses(j)
      PROVE  OwnInv'
  BY <1>16 DEF BlacklistLapses, OwnInv, Issued
<1>17. ASSUME RolesNext /\ UNCHANGED authVars
      PROVE  OwnInv'
  BY <1>17 DEF authVars, OwnInv, Issued
<1>18. QED
  BY <1>1, <1>2, <1>3, <1>4, <1>5, <1>6, <1>7, <1>8, <1>9, <1>10, <1>11,
     <1>12, <1>13, <1>14, <1>15, <1>16, <1>17 DEF AuthNext, RequestReads

\* A revocation holds while the token lives.
LEMMA AuthRevokedStep ==
    ASSUME AuthShape, HeldInv, RolesShape, RevokedInv, AuthNext
    PROVE  RevokedInv'
<1>1. ASSUME NEW c \in Callers, RequestReads(c)
      PROVE  RevokedInv'
  BY <1>1, ReadOnly DEF RevokedInv
<1>2. ASSUME NEW c \in Callers, NEW a \in Agents, IssueTokens(c, a)
      PROVE  RevokedInv'
  <2>1. CreateToken(caller[c].row, "access", FALSE) \in TokenRecs
    BY <1>2, TokenMade DEF IssueTokens, HeldInv, Held
  <2>2. \A j \in Issued : life'[j] = life[j]
    BY <1>2, <2>1, TokenIssued DEF IssueTokens
  <2>3. QED
    BY <1>2, <2>2 DEF IssueTokens, RevokedInv, AuthShape
<1>3. ASSUME NEW c \in Callers, IssueImpersonation(c)
      PROVE  RevokedInv'
  <2>1. CreateToken(caller[c].row, "access", TRUE) \in TokenRecs
    BY <1>3, TokenMade DEF IssueImpersonation, HeldInv, Held
  <2>2. \A j \in Issued : life'[j] = life[j]
    BY <1>3, <2>1, TokenIssued DEF IssueImpersonation
  <2>3. QED
    BY <1>3, <2>2 DEF IssueImpersonation, RevokedInv, AuthShape
<1>4. ASSUME NEW c \in Callers, RevokeAllSessions(c)
      PROVE  RevokedInv'
  BY <1>4 DEF RevokeAllSessions, RevokedInv
<1>5. ASSUME NEW c \in Callers, NEW j \in Issued, RevokeSession(c, j)
      PROVE  RevokedInv'
  BY <1>5 DEF RevokeSession, RevokedInv
<1>6. ASSUME NEW c \in Callers, Blacklist(c)
      PROVE  RevokedInv'
  BY <1>6 DEF Blacklist, RevokedInv
<1>7. ASSUME NEW c \in Callers, BlacklistFails(c)
      PROVE  RevokedInv'
  BY <1>7 DEF BlacklistFails, RevokedInv
<1>8. ASSUME NEW c \in Callers, InsertUserRole(c)
      PROVE  RevokedInv'
  BY <1>8 DEF InsertUserRole, RevokedInv
<1>9. ASSUME NEW c \in Callers, BumpUser(c)
      PROVE  RevokedInv'
  BY <1>9 DEF BumpUser, RevokedInv
<1>10. ASSUME NEW u \in Users, CreateSudoToken(u)
      PROVE  RevokedInv'
  <2>1. CreateToken(UserWithRoles(u), "sudo", FALSE) \in TokenRecs
    BY UserRead, TokenMade
  <2>2. \A j \in Issued : life'[j] = life[j]
    BY <1>10, <2>1, TokenIssued DEF CreateSudoToken
  <2>3. QED
    BY <1>10, <2>2 DEF CreateSudoToken, RevokedInv, AuthShape
<1>11. ASSUME NEW j \in Issued, NEW k \in Issued, CreateSudoTokenOauth(j, k)
      PROVE  RevokedInv'
  <2>1. CreateToken(token[j], "sudo", FALSE) \in TokenRecs
    <3>1. PICK row \in RowRecs : CreateToken(token[j], "sudo", FALSE) = CreateToken(row, "sudo", FALSE)
      BY IssuedJtis, TokenAsRow
    <3>2. QED
      BY <3>1, TokenMade
  <2>2. \A i \in Issued : life'[i] = life[i]
    BY <1>11, <2>1, TokenIssued DEF CreateSudoTokenOauth
  <2>3. QED
    BY <1>11, <2>2 DEF CreateSudoTokenOauth, RevokedInv, AuthShape
<1>12. ASSUME NEW u \in Users, DeleteUser(u)
      PROVE  RevokedInv'
  BY <1>12 DEF DeleteUser, RevokedInv
<1>13. ASSUME NEW c \in Callers, StopImpersonation(c)
      PROVE  RevokedInv'
  BY <1>13 DEF StopImpersonation, RevokedInv
<1>14. ASSUME NEW c \in Callers, UpdatePassword(c)
      PROVE  RevokedInv'
  BY <1>14 DEF UpdatePassword, RevokedInv
<1>15. ASSUME NEW j \in Issued, Ages(j)
      PROVE  RevokedInv'
  <2>1. \A i \in Issued : life'[i] = "long" => life[i] = "long"
    BY <1>15, IssuedJtis DEF Ages
  <2>2. QED
    BY <1>15, <2>1 DEF Ages, RevokedInv, AuthShape
<1>16. ASSUME NEW j \in Issued, BlacklistLapses(j)
      PROVE  RevokedInv'
  BY <1>16 DEF BlacklistLapses, RevokedInv
<1>17. ASSUME RolesNext /\ UNCHANGED authVars
      PROVE  RevokedInv'
  BY <1>17 DEF authVars, RevokedInv
<1>18. QED
  BY <1>1, <1>2, <1>3, <1>4, <1>5, <1>6, <1>7, <1>8, <1>9, <1>10, <1>11,
     <1>12, <1>13, <1>14, <1>15, <1>16, <1>17 DEF AuthNext, RequestReads

\* A token that can be found, was lost or is about to be blacklisted stays so
\* when no row and no such request is touched.
LEMMA TrackedKept ==
    ASSUME NEW j, Tracked(j), UNCHANGED sessions,
           unlisted \union revoked \subseteq unlisted' \union revoked',
           \A d \in Callers : caller[d].at = "blacklist" => caller'[d] = caller[d]
    PROVE  Tracked(j)'
  BY DEF Tracked

\* A live token can be found, was lost in a known way, or is about to be
\* blacklisted.
LEMMA AuthListedStep ==
    ASSUME AuthShape, HeldInv, RolesShape, OwnInv, ListedInv, AuthNext
    PROVE  ListedInv'
<1>1. ASSUME NEW c \in Callers, RequestReads(c)
      PROVE  ListedInv'
  <2>1. \A d \in Callers : caller[d].at = "blacklist" => caller'[d] = caller[d]
    BY <1>1, ReadOnly, CallerMoved
  <2>2. UNCHANGED <<users, token, life, sessions, revoked, unlisted>>
    BY <1>1, ReadOnly
  <2>3. QED
    BY <2>1, <2>2, TrackedKept DEF ListedInv, Issued
<1>2. ASSUME NEW c \in Callers, NEW a \in Agents, IssueTokens(c, a)
      PROVE  ListedInv'
  <2> DEFINE row == caller[c].row
             new == Len(token) + 1
             cell == <<row.user, a>>
  <2>1. row \in RowRecs
    BY <1>2 DEF IssueTokens, HeldInv, Held
  <2>2. \A d \in Callers : caller[d].at = "blacklist" => caller'[d] = caller[d]
    BY <1>2, CallerMoved DEF IssueTokens, Over
  <2>3. CASE row.user \in users
    <3>1. /\ Issued' = Issued \union {new}
          /\ \A j \in Issued : token'[j] = token[j] /\ life'[j] = life[j]
      BY <1>2, <2>1, <2>3, RowIssued DEF IssueTokens
    <3>2. /\ sessions' = [sessions EXCEPT ![cell] = new]
          /\ unlisted' = unlisted \union ({sessions[cell]} \ {NoValue})
          /\ UNCHANGED <<users, revoked>>
      BY <1>2, <2>3 DEF IssueTokens, UpsertSession
    <3>3. cell \in Users \X Agents /\ DOMAIN sessions = Users \X Agents
      BY <2>3 DEF AuthShape
    <3>4. sessions'[cell] = new /\ \A ua \in Users \X Agents : ua # cell => sessions'[ua] = sessions[ua]
      BY <3>2, <3>3
    <3>5. ASSUME NEW n, n = new
          PROVE  Tracked(n)'
      BY <3>3, <3>4, <3>5 DEF Tracked
    <3>6. ASSUME NEW j \in Issued, Tracked(j)
          PROVE  Tracked(j)'
      <4>1. CASE sessions[cell] = j
        <5>1. j \in unlisted'
          BY <3>2, <4>1, IssuedJtis
        <5>2. QED
          BY <5>1 DEF Tracked
      <4>2. CASE sessions[cell] # j
        <5>1. (\E ua \in Users \X Agents : sessions[ua] = j) => \E ua \in Users \X Agents : sessions'[ua] = j
          BY <3>4, <4>2
        <5>2. unlisted \subseteq unlisted' /\ revoked' = revoked
          BY <3>2
        <5>3. QED
          BY <2>2, <3>6, <5>1, <5>2 DEF Tracked
      <4>3. QED
        BY <4>1, <4>2
    <3>7. QED
      BY <3>1, <3>2, <3>5, <3>6 DEF ListedInv
  <2>4. CASE row.user \notin users
    <3>1. UNCHANGED <<users, token, life, sessions, revoked, unlisted>>
      BY <1>2, <2>4 DEF IssueTokens
    <3>2. QED
      BY <2>2, <3>1, TrackedKept DEF ListedInv, Issued
  <2>5. QED
    BY <2>3, <2>4
<1>3. ASSUME NEW c \in Callers, IssueImpersonation(c)
      PROVE  ListedInv'
  <2> DEFINE new == Len(token) + 1
  <2>1. caller[c].row \in RowRecs
    BY <1>3 DEF IssueImpersonation, HeldInv, Held
  <2>2. /\ Issued' = Issued \union {new} /\ token'[new].imp = TRUE
        /\ \A j \in Issued : token'[j] = token[j] /\ life'[j] = life[j]
    BY <1>3, <2>1, RowIssued DEF IssueImpersonation
  <2>3. \A d \in Callers : caller[d].at = "blacklist" => caller'[d] = caller[d]
    BY <1>3, CallerMoved DEF IssueImpersonation, Over
  <2>4. UNCHANGED <<users, sessions, revoked, unlisted>>
    BY <1>3 DEF IssueImpersonation
  <2>5. \A j \in Issued : Tracked(j) => Tracked(j)'
    BY <2>3, <2>4, TrackedKept
  <2>6. QED
    BY <2>2, <2>4, <2>5 DEF ListedInv
<1>4. ASSUME NEW c \in Callers, RevokeAllSessions(c)
      PROVE  ListedInv'
  <2> DEFINE J == JtisOf(caller[c].user)
             live == {j \in J : life[j] # "over"}
  <2>1. PICK late \in SUBSET {j \in live : life[j] = "last"} :
            /\ Then(c, [at |-> "blacklist", jtis |-> live \ late])
            /\ unlisted' = unlisted \union late
    BY <1>4 DEF RevokeAllSessions
  <2>2. sessions' = WithoutRows(J) /\ UNCHANGED <<users, token, life, revoked>> /\ caller[c].at = "revoke"
    BY <1>4 DEF RevokeAllSessions
  <2>3. /\ caller'[c].at = "blacklist" /\ caller'[c].jtis = live \ late
        /\ \A d \in Callers : caller[d].at = "blacklist" => caller'[d] = caller[d]
    BY <2>1, <2>2, CallerMoved
  <2>4. \A ua \in Users \X Agents : sessions[ua] \notin J => sessions'[ua] = sessions[ua]
    BY <2>2 DEF WithoutRows, RowsOf, AuthShape
  <2> HIDE DEF J
  <2>5. ASSUME NEW i \in Issued, Tracked(i), life[i] # "over"
        PROVE  Tracked(i)'
    <3>1. CASE i \in J
      <4>1. i \in late \/ i \in live \ late
        BY <2>5, <3>1
      <4>2. QED
        BY <2>1, <2>3, <4>1 DEF Tracked
    <3>2. CASE i \notin J
      BY <2>1, <2>2, <2>3, <2>4, <2>5, <3>2 DEF Tracked
    <3>3. QED
      BY <3>1, <3>2
  <2>6. QED
    BY <2>2, <2>5 DEF ListedInv, Issued
<1>5. ASSUME NEW c \in Callers, NEW j \in Issued, RevokeSession(c, j)
      PROVE  ListedInv'
  <2>1. /\ UNCHANGED <<users, token, life, revoked>> /\ unlisted \subseteq unlisted'
        /\ \A ua \in Users \X Agents : sessions[ua] # j => sessions'[ua] = sessions[ua]
    BY <1>5 DEF RevokeSession, WithoutRows, RowsOf, AuthShape
  <2>2. \A d \in Callers : caller[d].at = "blacklist" => caller'[d] = caller[d]
    BY <1>5, CallerMoved DEF RevokeSession, Over
  <2>3. Tracked(j)'
    <3>1. CASE Then(c, [at |-> "blacklist", jtis |-> {j}])
      <4>1. caller'[c] = [at |-> "blacklist", jtis |-> {j}]
        BY <3>1, CallerMoved
      <4>2. QED
        BY <4>1 DEF Tracked
    <3>2. CASE unlisted' = unlisted \union {j}
      BY <3>2 DEF Tracked
    <3>3. QED
      BY <1>5, <3>1, <3>2 DEF RevokeSession
  <2>4. ASSUME NEW i \in Issued, Tracked(i), i # j
        PROVE  Tracked(i)'
    BY <2>1, <2>2, <2>4 DEF Tracked
  <2>5. QED
    BY <2>1, <2>3, <2>4 DEF ListedInv, Issued
<1>6. ASSUME NEW c \in Callers, Blacklist(c)
      PROVE  ListedInv'
  <2>1. /\ UNCHANGED <<users, token, life, sessions, unlisted>>
        /\ revoked' = revoked \union caller[c].jtis
    BY <1>6 DEF Blacklist
  <2>2. \A d \in Callers \ {c} : caller'[d] = caller[d]
    BY <1>6, CallerMoved DEF Blacklist, Over
  <2>3. ASSUME NEW j \in Issued, Tracked(j)
        PROVE  Tracked(j)'
    BY <2>1, <2>2, <2>3 DEF Tracked
  <2>4. QED
    BY <2>1, <2>3 DEF ListedInv, Issued
<1>7. ASSUME NEW c \in Callers, BlacklistFails(c)
      PROVE  ListedInv'
  <2>1. /\ UNCHANGED <<users, token, life, sessions, revoked>>
        /\ unlisted' = unlisted \union caller[c].jtis
    BY <1>7 DEF BlacklistFails
  <2>2. \A d \in Callers \ {c} : caller'[d] = caller[d]
    BY <1>7, CallerMoved DEF BlacklistFails, Over
  <2>3. ASSUME NEW j \in Issued, Tracked(j)
        PROVE  Tracked(j)'
    BY <2>1, <2>2, <2>3 DEF Tracked
  <2>4. QED
    BY <2>1, <2>3 DEF ListedInv, Issued
<1>8. ASSUME NEW c \in Callers, InsertUserRole(c)
      PROVE  ListedInv'
  <2>1. \A d \in Callers : caller[d].at = "blacklist" => caller'[d] = caller[d]
    BY <1>8, CallerMoved, AssignMoved DEF InsertUserRole
  <2>2. UNCHANGED <<users, token, life, sessions, revoked, unlisted>>
    BY <1>8 DEF InsertUserRole
  <2>3. QED
    BY <2>1, <2>2, TrackedKept DEF ListedInv, Issued
<1>9. ASSUME NEW c \in Callers, BumpUser(c)
      PROVE  ListedInv'
  <2>1. \A d \in Callers : caller[d].at = "blacklist" => caller'[d] = caller[d]
    BY <1>9, CallerMoved, AssignMoved DEF BumpUser
  <2>2. UNCHANGED <<users, token, life, sessions, revoked, unlisted>>
    BY <1>9 DEF BumpUser
  <2>3. QED
    BY <2>1, <2>2, TrackedKept DEF ListedInv, Issued
<1>10. ASSUME NEW u \in Users, CreateSudoToken(u)
      PROVE  ListedInv'
  <2> DEFINE new == Len(token) + 1
  <2>1. UserWithRoles(u) \in RowRecs
    BY UserRead
  <2>2. /\ Issued' = Issued \union {new} /\ token'[new].type = "sudo"
        /\ \A j \in Issued : token'[j] = token[j] /\ life'[j] = life[j]
    BY <1>10, <2>1, RowIssued DEF CreateSudoToken
  <2>3. UNCHANGED <<users, sessions, revoked, unlisted, caller>>
    BY <1>10 DEF CreateSudoToken
  <2>4. \A j \in Issued : Tracked(j) => Tracked(j)'
    BY <2>3, TrackedKept
  <2>5. QED
    BY <2>2, <2>3, <2>4 DEF ListedInv
<1>11. ASSUME NEW j \in Issued, NEW k \in Issued, CreateSudoTokenOauth(j, k)
      PROVE  ListedInv'
  <2> DEFINE new == Len(token) + 1
  <2>1. PICK row \in RowRecs : CreateToken(token[j], "sudo", FALSE) = CreateToken(row, "sudo", FALSE)
    BY IssuedJtis, TokenAsRow
  <2>2. /\ Issued' = Issued \union {new} /\ token'[new].type = "sudo"
        /\ \A i \in Issued : token'[i] = token[i] /\ life'[i] = life[i]
    BY <1>11, <2>1, RowIssued DEF CreateSudoTokenOauth
  <2>3. UNCHANGED <<users, sessions, revoked, unlisted, caller>>
    BY <1>11 DEF CreateSudoTokenOauth
  <2>4. \A i \in Issued : Tracked(i) => Tracked(i)'
    BY <2>3, TrackedKept
  <2>5. QED
    BY <2>2, <2>3, <2>4 DEF ListedInv
<1>12. ASSUME NEW u \in Users, DeleteUser(u)
      PROVE  ListedInv'
  <2>1. /\ UNCHANGED <<token, life, revoked, unlisted, caller>> /\ users' = users \ {u}
        /\ \A ua \in Users \X Agents : sessions'[ua] = IF ua[1] = u THEN NoValue ELSE sessions[ua]
    BY <1>12 DEF DeleteUser, AuthShape
  <2>2. ASSUME NEW j \in Issued, token[j].user # u, Tracked(j)
        PROVE  Tracked(j)'
    <3>1. ASSUME NEW ua \in Users \X Agents, sessions[ua] = j
          PROVE  sessions'[ua] = j
      BY <2>1, <2>2, <3>1, IssuedJtis DEF OwnInv
    <3>2. QED
      BY <2>1, <2>2, <3>1 DEF Tracked
  <2>3. QED
    BY <2>1, <2>2 DEF ListedInv, Issued
<1>13. ASSUME NEW c \in Callers, StopImpersonation(c)
      PROVE  ListedInv'
  <2>1. UNCHANGED <<users, token, life, sessions, unlisted>> /\ revoked \subseteq revoked'
    BY <1>13 DEF StopImpersonation
  <2>2. \A d \in Callers : caller[d].at = "blacklist" => caller'[d] = caller[d]
    BY <1>13, CallerMoved DEF StopImpersonation, Over
  <2>3. QED
    BY <2>1, <2>2, TrackedKept DEF ListedInv, Issued
<1>14. ASSUME NEW c \in Callers, UpdatePassword(c)
      PROVE  ListedInv'
  <2>1. UNCHANGED <<users, token, life, sessions, unlisted>> /\ revoked \subseteq revoked'
    BY <1>14 DEF UpdatePassword
  <2>2. \A d \in Callers : caller[d].at = "blacklist" => caller'[d] = caller[d]
    BY <1>14, CallerMoved DEF UpdatePassword, Over
  <2>3. QED
    BY <2>1, <2>2, TrackedKept DEF ListedInv, Issued
<1>15. ASSUME NEW j \in Issued, Ages(j)
      PROVE  ListedInv'
  <2>1. /\ UNCHANGED <<users, token, sessions, revoked, unlisted, caller>>
        /\ \A i \in Issued : life'[i] # "over" => life[i] # "over"
    BY <1>15, IssuedJtis DEF Ages
  <2>2. QED
    BY <2>1, TrackedKept DEF ListedInv, Issued
<1>16. ASSUME NEW j \in Issued, BlacklistLapses(j)
      PROVE  ListedInv'
  <2>1. /\ UNCHANGED <<users, token, life, sessions, unlisted, caller>>
        /\ revoked \subseteq revoked'
    BY <1>16 DEF BlacklistLapses
  <2>2. QED
    BY <2>1, TrackedKept DEF ListedInv, Issued
<1>17. ASSUME RolesNext /\ UNCHANGED authVars
      PROVE  ListedInv'
  <2>1. /\ UNCHANGED <<users, token, life, sessions, unlisted, caller>>
        /\ revoked \subseteq revoked'
    BY <1>17 DEF authVars
  <2>2. QED
    BY <2>1, TrackedKept DEF ListedInv, Issued
<1>18. QED
  BY <1>1, <1>2, <1>3, <1>4, <1>5, <1>6, <1>7, <1>8, <1>9, <1>10, <1>11,
     <1>12, <1>13, <1>14, <1>15, <1>16, <1>17 DEF AuthNext, RequestReads

-----------------------------------------------------------------------------
(***************************************************************************)
(* What a payload claims: a password and scopes.                           *)
(***************************************************************************)
\* An edit of a role of u has taken permissions and is going to raise the
\* token_version of u.
Covers(w, u) ==
    /\ <<u, editor[w].role>> \in holders
    /\ editor[w].at \in {"fill", "bump"}
    /\ editor[w].op \notin {"create", "view_create"}

Excused(u) == u \in unbumped \/ \E w \in Editors : Covers(w, u)

\* A payload of the present token_version stems from a login that read the
\* present password, and was given it or has a second factor; and it has no
\* scope that the user has lost, but for the known exceptions.  None is of
\* a later version: when the version is raised, every payload is behind.
Claim(p) ==
    /\ p.version <= version[p.user]
    /\ p.version = version[p.user] =>
          /\ p.login.epoch = password[p.user]
          /\ p.login.typed = password[p.user] \/ p.login.second
          /\ p.user \in users => p.scopes \subseteq ScopesOf(p.user) \/ Excused(p.user)

\* Every token's, and those of the rows that requests have read.
ClaimsInv ==
    /\ \A j \in Issued : Claim(token[j])
    /\ \A c \in Callers : caller[c].at \in {"issue", "impersonate"} => Claim(caller[c].row)

\* A step after which the claims about u are as good as before.
Safe(u) ==
    \/ version'[u] > version[u]
    \/ /\ version'[u] = version[u] /\ password'[u] = password[u]
       /\ u \in users' => u \in users
       /\ \/ u \notin users'
          \/ Excused(u)'
          \/ ScopesOf(u) \subseteq ScopesOf(u)' /\ (Excused(u) => Excused(u)')

LEMMA ClaimKept ==
    ASSUME RolesShape, RolesShape', NEW p, p.user \in Users, p.version \in 1..MaxVersion, Claim(p), Safe(p.user)
    PROVE  Claim(p)'
<1>1. version[p.user] \in Nat /\ version'[p.user] \in Nat
  BY DEF RolesShape
<1>2. CASE version'[p.user] > version[p.user]
  BY <1>1, <1>2 DEF Claim
<1>3. CASE version'[p.user] = version[p.user]
  BY <1>1, <1>3 DEF Claim, Safe
<1>4. QED
  BY <1>1, <1>2, <1>3 DEF Safe

\* Scopes are not lost while the roles of u keep their permissions.
LEMMA ScopesKept ==
    ASSUME NEW u, \A r \in RoleIds : <<u, r>> \in holders => <<u, r>> \in holders' /\ perms[r] \subseteq perms'[r]
    PROVE  ScopesOf(u) \subseteq ScopesOf(u)'
<1>1. SUFFICES ASSUME NEW p \in ScopesOf(u) PROVE p \in ScopesOf(u)'
  OBVIOUS
<1>2. PICK r \in RoleIds : <<u, r>> \in holders /\ p \in perms[r]
  BY DEF ScopesOf
<1>3. <<u, r>> \in holders' /\ p \in perms'[r]
  BY <1>2
<1>4. QED
  BY <1>3 DEF ScopesOf

\* A step of an editor that covers nobody, and of nothing else.
LEMMA SafeAside ==
    ASSUME UNCHANGED <<users, password, perms, holders, version>>, unbumped \subseteq unbumped',
           NEW w, editor[w].at \notin {"fill", "bump"},
           \A v \in Editors \ {w} : editor'[v] = editor[v], NEW u
    PROVE  Safe(u)
<1>1. ScopesOf(u)' = ScopesOf(u)
  BY DEF ScopesOf
<1>2. Excused(u) => Excused(u)'
  BY DEF Excused, Covers
<1>3. QED
  BY <1>1, <1>2 DEF Safe

\* A step that leaves users and editors alone.
LEMMA SafeIdle ==
    ASSUME UNCHANGED <<users, password, perms, holders, version, unbumped, editor>>, NEW u
    PROVE  Safe(u)
<1>1. ScopesOf(u)' = ScopesOf(u) /\ Excused(u)' = Excused(u)
  BY DEF ScopesOf, Excused, Covers
<1>2. QED
  BY <1>1 DEF Safe

\* Edits of roles leave no claim worse: update_role raises token_version after
\* it has taken permissions, and delete_role with it.
LEMMA RolesSafeStep ==
    ASSUME RolesShape, EditorInv, RolesNext, UNCHANGED <<users, password>>, NEW u \in Users
    PROVE  Safe(u)
<1> USE RolesConstants
<1>1. ASSUME NEW a \in Actors, NEW e \in RoleEntries, LookUpRole(a, e)
      PROVE  Safe(u)
  BY <1>1, SafeIdle DEF LookUpRole
<1>2. ASSUME NEW a \in Actors, FetchRole(a)
      PROVE  Safe(u)
  BY <1>2, SafeIdle DEF FetchRole
<1>3. ASSUME NEW a \in Actors, SaveRole(a)
      PROVE  Safe(u)
  BY <1>3, SafeIdle DEF SaveRole
<1>4. ASSUME RolesExpire
      PROVE  Safe(u)
  BY <1>4, SafeIdle DEF RolesExpire
<1>5. ASSUME NEW w \in Editors, BeginStep(w)
      PROVE  Safe(u)
  <2>1. /\ UNCHANGED <<perms, holders, version, unbumped>> /\ editor[w].at = "new"
        /\ \A v \in Editors \ {w} : editor'[v] = editor[v]
    BY <1>5 DEF BeginStep, Begin, At, RolesShape
  <2>2. QED
    BY <2>1, SafeAside
<1>6. ASSUME NEW w \in Editors, RoleFound(w)
      PROVE  Safe(u)
  <2>1. \A v \in Editors \ {w} : editor'[v] = editor[v]
    BY <1>6 DEF RoleFound, GoTo, Ends, RolesShape
  <2>2. QED
    BY <1>6, <2>1, SafeAside DEF RoleFound, At
<1>7. ASSUME NEW w \in Editors, NameTaken(w)
      PROVE  Safe(u)
  <2>1. \A v \in Editors \ {w} : editor'[v] = editor[v]
    BY <1>7, Ended DEF NameTaken
  <2>2. QED
    BY <1>7, <2>1, SafeAside DEF NameTaken, At
<1>8. ASSUME NEW w \in Editors, InsertRole(w)
      PROVE  Safe(u)
  <2> DEFINE r == editor[w].role
  <2>1. \A v \in Editors \ {w} : editor'[v] = editor[v]
    BY <1>8 DEF InsertRole, GoTo, Ends, RolesShape
  <2>2. UNCHANGED <<holders, version, unbumped>> /\ editor[w].at = "insert"
    BY <1>8 DEF InsertRole, At
  <2>3. \A q \in RoleIds : <<u, q>> \in holders => perms'[q] = perms[q]
    BY <1>8 DEF InsertRole, RolesShape
  <2>4. ScopesOf(u) \subseteq ScopesOf(u)'
    BY <2>2, <2>3, ScopesKept
  <2>5. Excused(u) => Excused(u)'
    BY <2>1, <2>2 DEF Excused, Covers
  <2>6. QED
    BY <2>2, <2>4, <2>5 DEF Safe
<1>9. ASSUME NEW w \in Editors, ClearPerms(w)
      PROVE  Safe(u)
  <2> DEFINE r == editor[w].role
  <2>1. /\ UNCHANGED <<holders, version, unbumped>> /\ editor[w].at = "clear"
        /\ editor[w].op \in {"update", "view_edit"}
    BY <1>9 DEF ClearPerms, At, EditorInv
  <2>2. /\ \A v \in Editors \ {w} : editor'[v] = editor[v]
        /\ editor'[w].at \in {"fill", "bump"} /\ editor'[w].role = r /\ editor'[w].op = editor[w].op
    BY <1>9, Gone DEF ClearPerms, Stages
  <2>3. CASE <<u, r>> \in holders
    <3>1. Covers(w, u)'
      BY <2>1, <2>2, <2>3 DEF Covers
    <3>2. QED
      BY <2>1, <3>1 DEF Safe, Excused
  <2>4. CASE <<u, r>> \notin holders
    <3>1. \A q \in RoleIds : <<u, q>> \in holders => perms'[q] = perms[q]
      BY <1>9, <2>4 DEF ClearPerms, RolesShape
    <3>2. ScopesOf(u) \subseteq ScopesOf(u)'
      BY <2>1, <3>1, ScopesKept
    <3>3. Excused(u) => Excused(u)'
      BY <2>1, <2>2 DEF Excused, Covers
    <3>4. QED
      BY <2>1, <3>2, <3>3 DEF Safe
  <2>5. QED
    BY <2>3, <2>4
<1>10. ASSUME NEW w \in Editors, FillPerms(w)
      PROVE  Safe(u)
  <2> DEFINE r == editor[w].role
             fits == perms[r] # NoValue /\ perms[r] \intersect Want(w) = {}
  <2>1. UNCHANGED <<holders, version>> /\ editor[w].at = "fill"
    BY <1>10 DEF FillPerms, At
  <2>2. CASE fits
    <3>1. /\ perms' = [perms EXCEPT ![r] = perms[r] \union Want(w)] /\ UNCHANGED unbumped
          /\ GoTo(w, IF Creates(w) THEN "reread" ELSE "bump")
      BY <1>10, <2>2 DEF FillPerms
    <3>2. \A q \in RoleIds : perms[q] \subseteq perms'[q]
      BY <3>1 DEF RolesShape
    <3>3. ScopesOf(u) \subseteq ScopesOf(u)'
      BY <2>1, <3>2, ScopesKept
    <3>4. /\ \A v \in Editors \ {w} : editor'[v] = editor[v]
          /\ ~Creates(w) => /\ editor'[w].at = "bump" /\ editor'[w].role = r
                            /\ editor'[w].op = editor[w].op
      BY <3>1, Gone DEF Stages
    <3>5. Excused(u) => Excused(u)'
      BY <2>1, <3>1, <3>4 DEF Excused, Covers, Creates
    <3>6. QED
      BY <2>1, <3>3, <3>5 DEF Safe
  <2>3. CASE ~fits
    <3>1. UNCHANGED perms /\ unbumped' = unbumped \union HoldersOf(r) /\ Ends(w, "failed")
      BY <1>10, <2>3 DEF FillPerms
    <3>2. \A v \in Editors \ {w} : editor'[v] = editor[v]
      BY <3>1, Ended
    <3>3. Excused(u) => Excused(u)'
      BY <2>1, <3>1, <3>2 DEF Excused, Covers, HoldersOf
    <3>4. ScopesOf(u)' = ScopesOf(u)
      BY <2>1, <3>1 DEF ScopesOf
    <3>5. QED
      BY <2>1, <3>3, <3>4 DEF Safe
  <2>4. QED
    BY <2>2, <2>3
<1>11. ASSUME NEW w \in Editors, BumpHolders(w)
      PROVE  Safe(u)
  <2> DEFINE U == HoldersOf(editor[w].role)
  <2>1. /\ UNCHANGED <<perms, holders>> /\ unbumped' = unbumped \ U
        /\ version'[u] = IF u \in U THEN version[u] + 1 ELSE version[u]
    BY <1>11 DEF BumpHolders, Bumped
  <2>2. \A v \in Editors \ {w} : editor'[v] = editor[v]
    BY <1>11, Gone DEF BumpHolders, Stages
  <2>3. CASE u \in U
    <3>1. version[u] \in Nat
      BY DEF RolesShape
    <3>2. QED
      BY <2>1, <2>3, <3>1 DEF Safe
  <2>4. CASE u \notin U
    <3>1. Excused(u) => Excused(u)'
      BY <2>1, <2>2, <2>4 DEF Excused, Covers, HoldersOf
    <3>2. ScopesOf(u)' = ScopesOf(u)
      BY <2>1 DEF ScopesOf
    <3>3. QED
      BY <2>1, <2>4, <3>1, <3>2 DEF Safe
  <2>5. QED
    BY <2>3, <2>4
<1>12. ASSUME NEW w \in Editors, RereadRole(w)
      PROVE  Safe(u)
  <2>1. \A v \in Editors \ {w} : editor'[v] = editor[v]
    BY <1>12 DEF RereadRole, GoTo, Ends, RolesShape
  <2>2. QED
    BY <1>12, <2>1, SafeAside DEF RereadRole, At
<1>13. ASSUME NEW w \in Editors, DeleteRole(w)
      PROVE  Safe(u)
  <2> DEFINE r == editor[w].role
             U == HoldersOf(r)
  <2>1. /\ editor[w].at = "drop" /\ perms' = [perms EXCEPT ![r] = NoValue]
        /\ holders' = {ur \in holders : ur[2] # r}
    BY <1>13 DEF DeleteRole, DropRow, At
  <2>2. \A v \in Editors \ {w} : editor'[v] = editor[v]
    BY <1>13, Gone DEF DeleteRole, Stages
  <2>3. CASE u \in U
    <3>1. version[u] \in Nat
      BY DEF RolesShape
    <3>2. QED
      BY <1>13, <2>3, <3>1 DEF DeleteRole, Bumped, Safe
  <2>4. CASE u \notin U
    <3>1. <<u, r>> \notin holders
      BY <2>4 DEF HoldersOf
    <3>2. \A q \in RoleIds : <<u, q>> \in holders => <<u, q>> \in holders' /\ perms'[q] = perms[q]
      BY <2>1, <3>1 DEF RolesShape
    <3>3. ScopesOf(u) \subseteq ScopesOf(u)'
      BY <3>2, ScopesKept
    <3>4. u \in unbumped => u \in unbumped'
      BY <1>13, <2>4 DEF DeleteRole
    <3>5. Excused(u) => Excused(u)'
      BY <2>1, <2>2, <3>1, <3>4 DEF Excused, Covers
    <3>6. version'[u] = version[u]
      BY <1>13, <2>4 DEF DeleteRole, Bumped
    <3>7. QED
      BY <3>3, <3>5, <3>6 DEF Safe
  <2>5. QED
    BY <2>3, <2>4
<1>14. ASSUME NEW w \in Editors, DeleteRoles(w)
      PROVE  Safe(u)
  <2> DEFINE r == editor[w].role
             U == HoldersOf(r)
  <2>1. /\ editor[w].at = "drop" /\ perms' = [perms EXCEPT ![r] = NoValue]
        /\ holders' = {ur \in holders : ur[2] # r}
    BY <1>14 DEF DeleteRoles, DropRow, At
  <2>2. \A v \in Editors \ {w} : editor'[v] = editor[v]
    BY <1>14, Gone DEF DeleteRoles, Stages
  <2>3. CASE u \in U
    BY <1>14, <2>3 DEF DeleteRoles, Safe, Excused
  <2>4. CASE u \notin U
    <3>1. <<u, r>> \notin holders
      BY <2>4 DEF HoldersOf
    <3>2. \A q \in RoleIds : <<u, q>> \in holders => <<u, q>> \in holders' /\ perms'[q] = perms[q]
      BY <2>1, <3>1 DEF RolesShape
    <3>3. ScopesOf(u) \subseteq ScopesOf(u)'
      BY <3>2, ScopesKept
    <3>4. u \in unbumped => u \in unbumped'
      BY <1>14, <2>4 DEF DeleteRoles
    <3>5. Excused(u) => Excused(u)'
      BY <2>1, <2>2, <3>1, <3>4 DEF Excused, Covers
    <3>6. version'[u] = version[u]
      BY <1>14, <2>4 DEF DeleteRoles, Bumped
    <3>7. QED
      BY <3>3, <3>5, <3>6 DEF Safe
  <2>5. QED
    BY <2>3, <2>4
<1>15. ASSUME NEW w \in Editors, InvalidateRoles(w)
      PROVE  Safe(u)
  <2>1. \A v \in Editors \ {w} : editor'[v] = editor[v]
    BY <1>15, Ended DEF InvalidateRoles
  <2>2. QED
    BY <1>15, <2>1, SafeAside DEF InvalidateRoles, At
<1>16. ASSUME NEW w \in Editors, InvalidateRolesFails(w)
      PROVE  Safe(u)
  <2>1. \A v \in Editors \ {w} : editor'[v] = editor[v]
    BY <1>16, Ended DEF InvalidateRolesFails
  <2>2. QED
    BY <1>16, <2>1, SafeAside DEF InvalidateRolesFails, At
<1>17. ASSUME NEW w \in Editors, EditFails(w)
      PROVE  Safe(u)
  <2>1. /\ UNCHANGED <<perms, holders, version>> /\ unbumped \subseteq unbumped'
        /\ editor[w].at \in {"fill", "bump"} => HoldersOf(editor[w].role) \subseteq unbumped'
    BY <1>17 DEF EditFails
  <2>2. \A v \in Editors \ {w} : editor'[v] = editor[v]
    BY <1>17, Ended DEF EditFails
  <2>3. Excused(u) => Excused(u)'
    BY <2>1, <2>2 DEF Excused, Covers, HoldersOf
  <2>4. ScopesOf(u)' = ScopesOf(u)
    BY <2>1 DEF ScopesOf
  <2>5. QED
    BY <2>1, <2>3, <2>4 DEF Safe
<1>18. ASSUME NEW w \in Editors, At(w, "check"), LookUpRole(w, RoleEntry(editor[w].role))
      PROVE  Safe(u)
  <2>1. w \in Actors /\ RoleEntry(editor[w].role) \in RoleEntries
    BY <1>18 DEF Actors, At, EditorInv, RoleEntries
  <2>2. QED
    BY <1>1, <1>18, <2>1
<1>19. \A a \in RoleReaders : a \in Actors
  BY DEF Actors
<1>20. ASSUME NEW w \in Editors, Describe(w)
      PROVE  Safe(u)
  <2>1. \A v \in Editors \ {w} : editor'[v] = editor[v]
    BY <1>20 DEF Describe, GoTo, RolesShape
  <2>2. QED
    BY <1>20, <2>1, SafeAside DEF Describe, At
<1>21. QED
  BY <1>1, <1>2, <1>3, <1>4, <1>5, <1>6, <1>7, <1>8,
     <1>9, <1>10, <1>11, <1>12, <1>13, <1>14, <1>15, <1>16, <1>17,
     <1>18, <1>19, <1>20, Begins DEF RolesNext, EditorStep

\* A user as read claims what is so; so does a row with the login of an
\* answered challenge, or of a token of the present version.
LEMMA ReadClaim ==
    ASSUME AuthShape, RolesShape, NEW u \in Users
    PROVE  /\ Claim(UserWithRoles(u))
           /\ \A l \in LoginRecs : l.epoch = password[u] /\ (l.typed = password[u] \/ l.second) =>
                 Claim([UserWithRoles(u) EXCEPT !.login = l])
<1>1. version[u] \in Nat
  BY DEF RolesShape
<1>2. Claim(UserWithRoles(u))
  BY <1>1 DEF Claim, UserWithRoles, FreshLogin
<1>3. ASSUME NEW l \in LoginRecs, l.epoch = password[u], l.typed = password[u] \/ l.second
      PROVE  Claim([UserWithRoles(u) EXCEPT !.login = l])
  <2> DEFINE row == [user |-> u, scopes |-> ScopesOf(u), version |-> version[u], login |-> l]
  <2>1. [UserWithRoles(u) EXCEPT !.login = l] = row
    BY UserRead
  <2>2. Claim(row)
    BY <1>1, <1>3 DEF Claim
  <2>3. QED
    BY <2>1, <2>2
<1>4. QED
  BY <1>2, <1>3

\* Every row that a request reads claims what is so.
LEMMA RowClaims ==
    ASSUME AuthShape, HeldInv, RolesShape, ClaimsInv, NEW c \in Callers, NEW s, Read(caller[c], s),
           s.at \in {"issue", "impersonate"}
    PROVE  Claim(s.row)
<1> DEFINE st == caller[c]
<1>1. ASSUME NEW u \in users, s \in {[at |-> "issue", row |-> UserWithRoles(u)],
                                   [at |-> "impersonate", row |-> UserWithRoles(u)]}
      PROVE  Claim(s.row)
  <2>1. s.row = UserWithRoles(u)
    BY <1>1
  <2>2. u \in Users
    BY DEF AuthShape
  <2>3. QED
    BY <2>1, <2>2, ReadClaim
<1>2. ASSUME NEW u \in users, st.at = "challenge",
             s = [at |-> "issue",
                  row |-> [UserWithRoles(u) EXCEPT !.login =
                              [FreshLogin(u) EXCEPT !.typed = st.typed, !.second = TRUE]]]
      PROVE  Claim(s.row)
  <2>1. st.typed \in Nat /\ u \in Users /\ password[u] \in Nat
    BY <1>2 DEF HeldInv, Held, AuthShape
  <2>2. PICK l : l = [FreshLogin(u) EXCEPT !.typed = st.typed, !.second = TRUE]
    OBVIOUS
  <2>3. l = [epoch |-> password[u], typed |-> st.typed, second |-> TRUE]
    BY <2>1, <2>2 DEF FreshLogin
  <2>4. l \in LoginRecs /\ l.epoch = password[u] /\ l.second
    BY <2>1, <2>3 DEF LoginRecs
  <2>5. s.row = [UserWithRoles(u) EXCEPT !.login = l]
    BY <1>2, <2>2
  <2>6. QED
    BY <2>1, <2>4, <2>5, ReadClaim
<1>3. ASSUME NEW u \in users, st.at = "refresh", token[st.jti].user = u, version[u] = token[st.jti].version,
             s = [at |-> "issue",
                  row |-> [UserWithRoles(u) EXCEPT !.login = token[st.jti].login]]
      PROVE  Claim(s.row)
  <2>1. st.jti \in Issued /\ u \in Users
    BY <1>3 DEF HeldInv, Held, AuthShape
  <2>2. PICK t : t = token[st.jti]
    OBVIOUS
  <2>3. t \in TokenRecs /\ Claim(t) /\ t.user = u /\ t.version = version[u]
    BY <1>3, <2>1, <2>2, IssuedJtis DEF ClaimsInv
  <2>4. t.login \in LoginRecs /\ t.login.epoch = password[u] /\ (t.login.typed = password[u] \/ t.login.second)
    BY <2>3 DEF TokenRecs, Claim
  <2>5. PICK l : l = t.login
    OBVIOUS
  <2>6. s.row = [UserWithRoles(u) EXCEPT !.login = l]
    BY <1>3, <2>2, <2>5
  <2>7. QED
    BY <2>1, <2>4, <2>5, <2>6, ReadClaim
<1>4. CASE s = [at |-> "done"]
  BY <1>4
<1>5. ASSUME NEW u \in users, NEW r \in RoleIds,
             s = [at |-> "assign", user |-> u, role |-> r, todo |-> {"insert", "bump"}]
      PROVE  FALSE
  BY <1>5
<1>6. ASSUME NEW j \in Issued,
             \/ s = [at |-> "refresh", jti |-> j]
             \/ s = [at |-> "stop", jti |-> j]
             \/ s \in {[at |-> "password", user |-> token[j].user], [at |-> "revoke", user |-> token[j].user]}
      PROVE  FALSE
  BY <1>6
<1>7. ASSUME NEW u \in users, s = [at |-> "challenge", user |-> u, typed |-> password[u]]
      PROVE  FALSE
  BY <1>7
<1>8. QED
  BY <1>1, <1>2, <1>3, <1>4, <1>5, <1>6, <1>7 DEF Read

\* So does a token made of a row.
LEMMA MadeClaim ==
    ASSUME RolesShape, NEW row \in RowRecs, Claim(row), NEW type \in {"access", "sudo"}, NEW imp \in BOOLEAN
    PROVE  Claim(CreateToken(row, type, imp))
<1> DEFINE t == CreateToken(row, type, imp)
<1>1. /\ t.user = row.user /\ t.login = row.login /\ t.scopes \subseteq row.scopes
      /\ t.version = IF type = "sudo" THEN 1 ELSE row.version
  BY TokenMade
<1>2. /\ row.version \in Nat /\ row.version >= 1
      /\ version[row.user] \in Nat /\ version[row.user] >= 1
  BY DEF RolesShape, RowRecs
<1> HIDE DEF t
<1>3. t.version <= row.version
  BY <1>1, <1>2
<1>4. t.version <= version[t.user] /\ (t.version = version[t.user] => row.version = version[row.user])
  BY <1>1, <1>2, <1>3 DEF Claim
<1>5. Claim(t)
  BY <1>1, <1>4 DEF Claim
<1>6. QED
  BY <1>5 DEF t

\* Claims stay good over a step that is safe and makes no false one.
LEMMA ClaimsKept ==
    ASSUME AuthShape, HeldInv, RolesShape, RolesShape', ClaimsInv, \A u \in Users : Safe(u),
           \A j \in Issued' : (j \in Issued /\ token'[j] = token[j]) \/ Claim(token[j])',
           \A c \in Callers : caller'[c].at \in {"issue", "impersonate"} =>
               caller'[c] = caller[c] \/ Claim(caller[c].row)'
    PROVE  ClaimsInv'
<1>1. ASSUME NEW j \in Issued' PROVE Claim(token[j])'
  <2>1. CASE j \in Issued /\ token'[j] = token[j]
    <3>1. PICK p : p = token[j]
      OBVIOUS
    <3>2. Claim(p) /\ p.user \in Users /\ p.version \in 1..MaxVersion
      BY <2>1, <3>1, IssuedJtis DEF ClaimsInv, TokenRecs
    <3>3. Claim(p)'
      BY <3>2, ClaimKept
    <3>4. QED
      BY <2>1, <3>1, <3>3
  <2>2. QED
    BY <2>1
<1>2. ASSUME NEW c \in Callers, caller'[c].at \in {"issue", "impersonate"}
      PROVE  Claim(caller[c].row)'
  <2>1. CASE caller'[c] = caller[c]
    <3>1. PICK p : p = caller[c].row
      OBVIOUS
    <3>2. Claim(p) /\ p.user \in Users /\ p.version \in 1..MaxVersion
      BY <1>2, <2>1, <3>1 DEF ClaimsInv, HeldInv, Held, RowRecs
    <3>3. Claim(p)'
      BY <3>2, ClaimKept
    <3>4. QED
      BY <2>1, <3>1, <3>3
  <2>2. QED
    BY <1>2, <2>1
<1>3. QED
  BY <1>1, <1>2 DEF ClaimsInv

\* No token and no row that was read comes to claim what is not so.
LEMMA AuthClaimsStep ==
    ASSUME AuthShape, HeldInv, RolesShape, RolesShape', EditorInv, ClaimsInv, AuthNext
    PROVE  ClaimsInv'
<1>1. ASSUME NEW c \in Callers, RequestReads(c)
      PROVE  ClaimsInv'
  <2>1. /\ UNCHANGED <<users, password, perms, holders, version, unbumped, editor>>
        /\ UNCHANGED token
    BY <1>1, ReadOnly DEF roleVars
  <2>2. PICK s : Then(c, s) /\ Read(caller[c], s)
    BY <1>1, ReadOnly
  <2>3. s.at \in {"issue", "impersonate"} => Claim(s.row)'
    BY <2>1, <2>2, RowClaims DEF Claim, ScopesOf, Excused, Covers
  <2>4. caller'[c] = s /\ \A d \in Callers \ {c} : caller'[d] = caller[d]
    BY <2>2, CallerMoved
  <2>5. \A d \in Callers : caller'[d].at \in {"issue", "impersonate"} =>
            caller'[d] = caller[d] \/ Claim(caller[d].row)'
    BY <2>3, <2>4
  <2>6. QED
    BY <2>1, <2>5, SafeIdle, ClaimsKept DEF Issued
<1>2. ASSUME NEW c \in Callers, NEW a \in Agents, IssueTokens(c, a)
      PROVE  ClaimsInv'
  <2>1. /\ UNCHANGED <<users, password, perms, holders, version, unbumped, editor>>
        /\ \A d \in Callers : caller'[d].at \in {"issue", "impersonate"} => caller'[d] = caller[d]
    BY <1>2, CallerMoved DEF IssueTokens, roleVars, Over
  <2>2. CASE caller[c].row.user \in users
    <3>1. PICK row : row = caller[c].row
      OBVIOUS
    <3>2. row \in RowRecs /\ Claim(row)
      BY <1>2, <3>1 DEF IssueTokens, HeldInv, Held, ClaimsInv
    <3>3. PICK t : t = CreateToken(row, "access", FALSE)
      OBVIOUS
    <3>4. Claim(t)
      BY <3>2, <3>3, MadeClaim
    <3>5. Claim(t)'
      BY <2>1, <3>4 DEF Claim, ScopesOf, Excused, Covers
    <3>6. /\ Issued' = Issued \union {Len(token) + 1} /\ token'[Len(token) + 1] = t
         /\ \A j \in Issued : token'[j] = token[j]
      BY <1>2, <3>1, <3>2, <3>3, <2>2, RowIssued DEF IssueTokens
    <3>7. \A j \in Issued' : (j \in Issued /\ token'[j] = token[j]) \/ Claim(token[j])'
      BY <3>5, <3>6
    <3>8. QED
      BY <2>1, <3>7, SafeIdle, ClaimsKept
  <2>3. CASE caller[c].row.user \notin users
    <3>1. UNCHANGED token
      BY <1>2, <2>3 DEF IssueTokens
    <3>2. QED
      BY <2>1, <3>1, SafeIdle, ClaimsKept DEF Issued
  <2>4. QED
    BY <2>2, <2>3
<1>3. ASSUME NEW c \in Callers, IssueImpersonation(c)
      PROVE  ClaimsInv'
  <2>1. /\ UNCHANGED <<users, password, perms, holders, version, unbumped, editor>>
        /\ \A d \in Callers : caller'[d].at \in {"issue", "impersonate"} => caller'[d] = caller[d]
    BY <1>3, CallerMoved DEF IssueImpersonation, roleVars, Over
  <2>2. QED
    <3>1. PICK row : row = caller[c].row
      OBVIOUS
    <3>2. row \in RowRecs /\ Claim(row)
      BY <1>3, <3>1 DEF IssueImpersonation, HeldInv, Held, ClaimsInv
    <3>3. PICK t : t = CreateToken(row, "access", TRUE)
      OBVIOUS
    <3>4. Claim(t)
      BY <3>2, <3>3, MadeClaim
    <3>5. Claim(t)'
      BY <2>1, <3>4 DEF Claim, ScopesOf, Excused, Covers
    <3>6. /\ Issued' = Issued \union {Len(token) + 1} /\ token'[Len(token) + 1] = t
         /\ \A j \in Issued : token'[j] = token[j]
      BY <1>3, <3>1, <3>2, <3>3, RowIssued DEF IssueImpersonation
    <3>7. \A j \in Issued' : (j \in Issued /\ token'[j] = token[j]) \/ Claim(token[j])'
      BY <3>5, <3>6
    <3>8. QED
      BY <2>1, <3>7, SafeIdle, ClaimsKept
<1>4. ASSUME NEW c \in Callers, RevokeAllSessions(c)
      PROVE  ClaimsInv'
  <2>1. /\ UNCHANGED <<users, password, perms, holders, version, unbumped, editor>>
        /\ UNCHANGED token
    BY <1>4 DEF RevokeAllSessions, roleVars
  <2>2. \A d \in Callers : caller'[d].at \in {"issue", "impersonate"} => caller'[d] = caller[d]
    BY <1>4, CallerMoved DEF RevokeAllSessions
  <2>3. QED
    BY <2>1, <2>2, SafeIdle, ClaimsKept DEF Issued
<1>5. ASSUME NEW c \in Callers, NEW j \in Issued, RevokeSession(c, j)
      PROVE  ClaimsInv'
  <2>1. /\ UNCHANGED <<users, password, perms, holders, version, unbumped, editor>>
        /\ UNCHANGED token
    BY <1>5 DEF RevokeSession, roleVars
  <2>2. \A d \in Callers : caller'[d].at \in {"issue", "impersonate"} => caller'[d] = caller[d]
    BY <1>5, CallerMoved DEF RevokeSession, Over
  <2>3. QED
    BY <2>1, <2>2, SafeIdle, ClaimsKept DEF Issued
<1>6. ASSUME NEW c \in Callers, Blacklist(c)
      PROVE  ClaimsInv'
  <2>1. /\ UNCHANGED <<users, password, perms, holders, version, unbumped, editor>>
        /\ UNCHANGED token
    BY <1>6 DEF Blacklist, roleVars
  <2>2. \A d \in Callers : caller'[d].at \in {"issue", "impersonate"} => caller'[d] = caller[d]
    BY <1>6, CallerMoved DEF Blacklist, Over
  <2>3. QED
    BY <2>1, <2>2, SafeIdle, ClaimsKept DEF Issued
<1>7. ASSUME NEW c \in Callers, BlacklistFails(c)
      PROVE  ClaimsInv'
  <2>1. /\ UNCHANGED <<users, password, perms, holders, version, unbumped, editor>>
        /\ UNCHANGED token
    BY <1>7 DEF BlacklistFails, roleVars
  <2>2. \A d \in Callers : caller'[d].at \in {"issue", "impersonate"} => caller'[d] = caller[d]
    BY <1>7, CallerMoved DEF BlacklistFails, Over
  <2>3. QED
    BY <2>1, <2>2, SafeIdle, ClaimsKept DEF Issued
<1>8. ASSUME NEW c \in Callers, InsertUserRole(c)
      PROVE  ClaimsInv'
  <2>1. UNCHANGED <<users, password, perms, version, unbumped, editor, token>> /\ holders \subseteq holders'
    BY <1>8 DEF InsertUserRole
  <2>2. \A d \in Callers : caller'[d].at \in {"issue", "impersonate"} => caller'[d] = caller[d]
    BY <1>8, AssignMoved, CallerMoved DEF InsertUserRole
  <2>3. ASSUME NEW u \in Users PROVE Safe(u)
    <3>1. ScopesOf(u) \subseteq ScopesOf(u)'
      BY <2>1, ScopesKept
    <3>2. Excused(u) => Excused(u)'
      BY <2>1 DEF Excused, Covers
    <3>3. QED
      BY <2>1, <3>1, <3>2 DEF Safe
  <2>4. QED
    BY <2>1, <2>2, <2>3, ClaimsKept DEF Issued
<1>9. ASSUME NEW c \in Callers, BumpUser(c)
      PROVE  ClaimsInv'
  <2> DEFINE u == caller[c].user
  <2>1. u \in Users
    BY <1>9 DEF BumpUser, HeldInv, Held
  <2>2. /\ UNCHANGED <<users, perms, holders, editor, token>> /\ unbumped' = unbumped \ {u}
        /\ \A x \in Users : version'[x] = IF x = u THEN version[x] + 1 ELSE version[x]
        /\ \A x \in Users : x # u => password'[x] = password[x]
    BY <1>9, <2>1 DEF BumpUser, Bumped, AuthShape
  <2>3. ASSUME NEW x \in Users PROVE Safe(x)
    <3>1. CASE x = u
      <4>1. version[x] \in Nat
        BY DEF RolesShape
      <4>2. QED
        BY <2>2, <3>1, <4>1 DEF Safe
    <3>2. CASE x # u
      <4>1. ScopesOf(x)' = ScopesOf(x)
        BY <2>2 DEF ScopesOf
      <4>2. Excused(x) => Excused(x)'
        BY <2>2, <3>2 DEF Excused, Covers
      <4>3. QED
        BY <2>2, <3>2, <4>1, <4>2 DEF Safe
    <3>3. QED
      BY <3>1, <3>2
  <2>4. \A d \in Callers : caller'[d].at \in {"issue", "impersonate"} => caller'[d] = caller[d]
    BY <1>9, AssignMoved, CallerMoved DEF BumpUser
  <2>5. QED
    BY <2>2, <2>3, <2>4, ClaimsKept DEF Issued
<1>10. ASSUME NEW u \in Users, CreateSudoToken(u)
      PROVE  ClaimsInv'
  <2>1. UNCHANGED <<users, password, perms, holders, version, unbumped, editor>> /\ UNCHANGED caller
    BY <1>10 DEF CreateSudoToken, roleVars
  <2>2. QED
    <3>1. PICK row : row = UserWithRoles(u)
      OBVIOUS
    <3>2. row \in RowRecs /\ Claim(row)
      BY <1>10, <3>1, UserRead, ReadClaim
    <3>3. PICK t : t = CreateToken(row, "sudo", FALSE)
      OBVIOUS
    <3>4. Claim(t)
      BY <3>2, <3>3, MadeClaim
    <3>5. Claim(t)'
      BY <2>1, <3>4 DEF Claim, ScopesOf, Excused, Covers
    <3>6. /\ Issued' = Issued \union {Len(token) + 1} /\ token'[Len(token) + 1] = t
         /\ \A j \in Issued : token'[j] = token[j]
      BY <1>10, <3>1, <3>2, <3>3, RowIssued DEF CreateSudoToken
    <3>7. \A j \in Issued' : (j \in Issued /\ token'[j] = token[j]) \/ Claim(token[j])'
      BY <3>5, <3>6
    <3>8. QED
      BY <2>1, <3>7, SafeIdle, ClaimsKept
<1>11. ASSUME NEW j \in Issued, NEW k \in Issued, CreateSudoTokenOauth(j, k)
      PROVE  ClaimsInv'
  <2>1. UNCHANGED <<users, password, perms, holders, version, unbumped, editor>> /\ UNCHANGED caller
    BY <1>11 DEF CreateSudoTokenOauth, roleVars
  <2>2. PICK row \in RowRecs : /\ row.user = token[j].user /\ row.scopes = token[j].scopes
                              /\ row.version = token[j].version /\ row.login = token[j].login
                              /\ CreateToken(token[j], "sudo", FALSE) = CreateToken(row, "sudo", FALSE)
    BY IssuedJtis, TokenAsRow
  <2>3. Claim(row)
    BY <2>2 DEF ClaimsInv, Claim
  <2>4. PICK t : t = CreateToken(row, "sudo", FALSE)
    OBVIOUS
  <2>5. Claim(t)
    BY <2>3, <2>4, MadeClaim
  <2>6. Claim(t)'
    BY <2>1, <2>5 DEF Claim, ScopesOf, Excused, Covers
  <2>7. /\ Issued' = Issued \union {Len(token) + 1} /\ token'[Len(token) + 1] = t
        /\ \A i \in Issued : token'[i] = token[i]
    BY <1>11, <2>2, <2>4, RowIssued DEF CreateSudoTokenOauth
  <2>8. \A i \in Issued' : (i \in Issued /\ token'[i] = token[i]) \/ Claim(token[i])'
    BY <2>6, <2>7
  <2>9. QED
    BY <2>1, <2>8, SafeIdle, ClaimsKept
<1>12. ASSUME NEW u \in Users, DeleteUser(u)
      PROVE  ClaimsInv'
  <2>1. /\ UNCHANGED <<password, perms, version, unbumped, editor, token, caller>>
        /\ users' = users \ {u} /\ holders' = {ur \in holders : ur[1] # u}
    BY <1>12 DEF DeleteUser
  <2>2. ASSUME NEW x \in Users PROVE Safe(x)
    <3>1. CASE x = u
      BY <2>1, <3>1 DEF Safe
    <3>2. CASE x # u
      <4>1. \A r : <<x, r>> \in holders => <<x, r>> \in holders'
        BY <2>1, <3>2
      <4>2. ScopesOf(x) \subseteq ScopesOf(x)'
        BY <2>1, <4>1, ScopesKept
      <4>3. Excused(x) => Excused(x)'
        BY <2>1, <4>1 DEF Excused, Covers
      <4>4. QED
        BY <2>1, <4>2, <4>3 DEF Safe
    <3>3. QED
      BY <3>1, <3>2
  <2>3. QED
    BY <2>1, <2>2, ClaimsKept DEF Issued
<1>13. ASSUME NEW c \in Callers, StopImpersonation(c)
      PROVE  ClaimsInv'
  <2>1. UNCHANGED <<users, password, perms, holders, version, unbumped, editor>> /\ UNCHANGED token
    BY <1>13 DEF StopImpersonation, roleVars
  <2>2. \A d \in Callers : caller'[d].at \in {"issue", "impersonate"} => caller'[d] = caller[d]
    BY <1>13, CallerMoved DEF StopImpersonation, Over
  <2>3. QED
    BY <2>1, <2>2, SafeIdle, ClaimsKept DEF Issued
<1>14. ASSUME NEW c \in Callers, UpdatePassword(c)
      PROVE  ClaimsInv'
  <2> DEFINE u == caller[c].user
  <2>1. u \in Users
    BY <1>14 DEF UpdatePassword, HeldInv, Held
  <2>2. \A d \in Callers : caller'[d].at \in {"issue", "impersonate"} => caller'[d] = caller[d]
    BY <1>14, CallerMoved DEF UpdatePassword, Over
  <2>3. UNCHANGED <<users, perms, holders, editor, token>>
    BY <1>14 DEF UpdatePassword
  <2>4. CASE u \in users
    <3>1. /\ unbumped' = unbumped \ {u}
          /\ \A x \in Users : version'[x] = IF x = u THEN version[x] + 1 ELSE version[x]
          /\ \A x \in Users : x # u => password'[x] = password[x]
      BY <1>14, <2>1, <2>4 DEF UpdatePassword, Bumped, AuthShape
    <3>2. ASSUME NEW x \in Users PROVE Safe(x)
      <4>1. CASE x = u
        <5>1. version[x] \in Nat
          BY DEF RolesShape
        <5>2. QED
          BY <3>1, <4>1, <5>1 DEF Safe
      <4>2. CASE x # u
        <5>1. ScopesOf(x)' = ScopesOf(x)
          BY <2>3 DEF ScopesOf
        <5>2. Excused(x) => Excused(x)'
          BY <2>3, <3>1, <4>2 DEF Excused, Covers
        <5>3. QED
          BY <2>3, <3>1, <4>2, <5>1, <5>2 DEF Safe
      <4>3. QED
        BY <4>1, <4>2
    <3>3. QED
      BY <2>2, <2>3, <3>2, ClaimsKept DEF Issued
  <2>5. CASE u \notin users
    <3>1. UNCHANGED <<password, version, unbumped>>
      BY <1>14, <2>5 DEF UpdatePassword
    <3>2. QED
      BY <2>2, <2>3, <3>1, SafeIdle, ClaimsKept DEF Issued
  <2>6. QED
    BY <2>4, <2>5
<1>15. ASSUME NEW j \in Issued, Ages(j)
      PROVE  ClaimsInv'
  <2>1. UNCHANGED <<users, password, perms, holders, version, unbumped, editor>> /\ UNCHANGED <<token, caller>>
    BY <1>15 DEF Ages, roleVars
  <2>2. QED
    BY <2>1, SafeIdle, ClaimsKept DEF Issued
<1>16. ASSUME NEW j \in Issued, BlacklistLapses(j)
      PROVE  ClaimsInv'
  <2>1. UNCHANGED <<users, password, perms, holders, version, unbumped, editor>> /\ UNCHANGED <<token, caller>>
    BY <1>16 DEF BlacklistLapses, roleVars
  <2>2. QED
    BY <2>1, SafeIdle, ClaimsKept DEF Issued
<1>17. ASSUME RolesNext /\ UNCHANGED authVars
      PROVE  ClaimsInv'
  <2>1. UNCHANGED <<users, password, token, caller>>
    BY <1>17 DEF authVars
  <2>2. \A u \in Users : Safe(u)
    BY <1>17, <2>1, RolesSafeStep
  <2>3. QED
    BY <2>1, <2>2, ClaimsKept DEF Issued
<1>18. QED
  BY <1>1, <1>2, <1>3, <1>4, <1>5, <1>6, <1>7, <1>8, <1>9, <1>10, <1>11,
     <1>12, <1>13, <1>14, <1>15, <1>16, <1>17 DEF AuthNext, RequestReads

-----------------------------------------------------------------------------
(***************************************************************************)
(* The roles, when tokens and users are about.                             *)
(***************************************************************************)
\* Assignments, versions and users change nothing else of the roles.
LEMMA RolesAside ==
    ASSUME RolesInv, UNCHANGED <<perms, about, rread, editor, wanted, torn, unsure, store>>,
           holders' \subseteq Users \X {r \in RoleIds : perms[r] # NoValue},
           version' \in [Users -> 1..MaxVersion], unbumped' \subseteq Users
    PROVE  RolesInv'
<1>1. RolesShape' /\ EditorInv' /\ FillInv'
  BY DEF RolesInv, RolesShape, EditorInv, FillInv
<1>2. RolesCacheFresh'
  BY RolesKept DEF RolesInv, RolesCacheFresh, Written
<1>3. PermsOfOneEdit'
  BY DEF RolesInv, PermsOfOneEdit
<1>4. QED
  BY <1>1, <1>2, <1>3 DEF RolesInv

\* The invariant of the roles holds among the steps of tokens and users too.
LEMMA AuthRolesStep ==
    ASSUME AuthShape, HeldInv, StoreInv, RolesInv, AuthNext
    PROVE  StoreInv' /\ RolesInv'
<1>1. ASSUME NEW c \in Callers, RequestReads(c)
      PROVE  StoreInv' /\ RolesInv'
  <2>1. UNCHANGED <<roleVars, store>>
    BY <1>1, ReadOnly
  <2>2. QED
    BY <2>1, RolesLeftAlone DEF StoreInv
<1>2. ASSUME NEW c \in Callers, NEW a \in Agents, IssueTokens(c, a)
      PROVE  StoreInv' /\ RolesInv'
  <2>1. UNCHANGED <<roleVars, store>>
    BY <1>2 DEF IssueTokens
  <2>2. QED
    BY <2>1, RolesLeftAlone DEF StoreInv
<1>3. ASSUME NEW c \in Callers, IssueImpersonation(c)
      PROVE  StoreInv' /\ RolesInv'
  <2>1. UNCHANGED <<roleVars, store>>
    BY <1>3 DEF IssueImpersonation
  <2>2. QED
    BY <2>1, RolesLeftAlone DEF StoreInv
<1>4. ASSUME NEW c \in Callers, RevokeAllSessions(c)
      PROVE  StoreInv' /\ RolesInv'
  <2>1. UNCHANGED <<roleVars, store>>
    BY <1>4 DEF RevokeAllSessions
  <2>2. QED
    BY <2>1, RolesLeftAlone DEF StoreInv
<1>5. ASSUME NEW c \in Callers, NEW j \in Issued, RevokeSession(c, j)
      PROVE  StoreInv' /\ RolesInv'
  <2>1. UNCHANGED <<roleVars, store>>
    BY <1>5 DEF RevokeSession
  <2>2. QED
    BY <2>1, RolesLeftAlone DEF StoreInv
<1>6. ASSUME NEW c \in Callers, Blacklist(c)
      PROVE  StoreInv' /\ RolesInv'
  <2>1. UNCHANGED <<roleVars, store>>
    BY <1>6 DEF Blacklist
  <2>2. QED
    BY <2>1, RolesLeftAlone DEF StoreInv
<1>7. ASSUME NEW c \in Callers, BlacklistFails(c)
      PROVE  StoreInv' /\ RolesInv'
  <2>1. UNCHANGED <<roleVars, store>>
    BY <1>7 DEF BlacklistFails
  <2>2. QED
    BY <2>1, RolesLeftAlone DEF StoreInv
<1>8. ASSUME NEW c \in Callers, InsertUserRole(c)
      PROVE  StoreInv' /\ RolesInv'
  <2>1. UNCHANGED <<perms, about, rread, editor, wanted, torn, unsure, store>> /\ UNCHANGED <<version, unbumped>>
    BY <1>8 DEF InsertUserRole
  <2>2. caller[c].user \in Users /\ caller[c].role \in RoleIds
    BY <1>8 DEF InsertUserRole, HeldInv, Held
  <2>3. holders' \subseteq Users \X {r \in RoleIds : perms[r] # NoValue}
    BY <1>8, <2>2 DEF InsertUserRole, RolesInv, RolesShape
  <2>4. version' \in [Users -> 1..MaxVersion] /\ unbumped' \subseteq Users
    BY <2>1 DEF RolesInv, RolesShape
  <2>5. QED
    BY <2>1, <2>3, <2>4, RolesAside DEF StoreInv
<1>9. ASSUME NEW c \in Callers, BumpUser(c)
      PROVE  StoreInv' /\ RolesInv'
  <2>1. UNCHANGED <<perms, about, rread, editor, wanted, torn, unsure, store>> /\ UNCHANGED holders
    BY <1>9 DEF BumpUser
  <2>2. caller[c].user \in Users
    BY <1>9 DEF BumpUser, HeldInv, Held
  <2>3. version' \in [Users -> 1..MaxVersion] /\ unbumped' \subseteq Users
    BY <1>9, <2>2, RolesConstants DEF BumpUser, Bumped, RolesInv, RolesShape
  <2>4. holders' \subseteq Users \X {r \in RoleIds : perms[r] # NoValue}
    BY <2>1 DEF RolesInv, RolesShape
  <2>5. QED
    BY <2>1, <2>3, <2>4, RolesAside DEF StoreInv
<1>10. ASSUME NEW u \in Users, CreateSudoToken(u)
      PROVE  StoreInv' /\ RolesInv'
  <2>1. UNCHANGED <<roleVars, store>>
    BY <1>10 DEF CreateSudoToken
  <2>2. QED
    BY <2>1, RolesLeftAlone DEF StoreInv
<1>11. ASSUME NEW j \in Issued, NEW k \in Issued, CreateSudoTokenOauth(j, k)
      PROVE  StoreInv' /\ RolesInv'
  <2>1. UNCHANGED <<roleVars, store>>
    BY <1>11 DEF CreateSudoTokenOauth
  <2>2. QED
    BY <2>1, RolesLeftAlone DEF StoreInv
<1>12. ASSUME NEW u \in Users, DeleteUser(u)
      PROVE  StoreInv' /\ RolesInv'
  <2>1. /\ UNCHANGED <<perms, about, rread, editor, wanted, torn, unsure, store>> /\ UNCHANGED <<version, unbumped>>
        /\ holders' \subseteq holders
    BY <1>12 DEF DeleteUser
  <2>2. /\ version' \in [Users -> 1..MaxVersion] /\ unbumped' \subseteq Users
        /\ holders' \subseteq Users \X {r \in RoleIds : perms[r] # NoValue}
    BY <2>1 DEF RolesInv, RolesShape
  <2>3. QED
    BY <2>1, <2>2, RolesAside DEF StoreInv
<1>13. ASSUME NEW c \in Callers, StopImpersonation(c)
      PROVE  StoreInv' /\ RolesInv'
  <2>1. UNCHANGED <<roleVars, store>>
    BY <1>13 DEF StopImpersonation
  <2>2. QED
    BY <2>1, RolesLeftAlone DEF StoreInv
<1>14. ASSUME NEW c \in Callers, UpdatePassword(c)
      PROVE  StoreInv' /\ RolesInv'
  <2>1. UNCHANGED <<perms, about, rread, editor, wanted, torn, unsure, store>> /\ UNCHANGED holders
    BY <1>14 DEF UpdatePassword
  <2>2. caller[c].user \in Users
    BY <1>14 DEF UpdatePassword, HeldInv, Held
  <2>3. version' \in [Users -> 1..MaxVersion] /\ unbumped' \subseteq Users
    BY <1>14, <2>2, RolesConstants DEF UpdatePassword, Bumped, RolesInv, RolesShape
  <2>4. holders' \subseteq Users \X {r \in RoleIds : perms[r] # NoValue}
    BY <2>1 DEF RolesInv, RolesShape
  <2>5. QED
    BY <2>1, <2>3, <2>4, RolesAside DEF StoreInv
<1>15. ASSUME NEW j \in Issued, Ages(j)
      PROVE  StoreInv' /\ RolesInv'
  <2>1. UNCHANGED <<roleVars, store>>
    BY <1>15 DEF Ages
  <2>2. QED
    BY <2>1, RolesLeftAlone DEF StoreInv
<1>16. ASSUME NEW j \in Issued, BlacklistLapses(j)
      PROVE  StoreInv' /\ RolesInv'
  <2>1. UNCHANGED <<roleVars, store>>
    BY <1>16 DEF BlacklistLapses
  <2>2. QED
    BY <2>1, RolesLeftAlone DEF StoreInv
<1>17. ASSUME RolesNext /\ UNCHANGED authVars
      PROVE  StoreInv' /\ RolesInv'
  BY <1>17, RolesStoreStep, RolesShapeStep, RolesEditorStep, RolesPermsStep, RolesFreshStep DEF RolesInv
<1>18. QED
  BY <1>1, <1>2, <1>3, <1>4, <1>5, <1>6, <1>7, <1>8, <1>9, <1>10, <1>11,
     <1>12, <1>13, <1>14, <1>15, <1>16, <1>17 DEF AuthNext, RequestReads

-----------------------------------------------------------------------------
(***************************************************************************)
(* The three together.                                                     *)
(***************************************************************************)
AuthInv == AuthShape /\ HeldInv /\ OwnInv /\ RevokedInv /\ ListedInv /\ ClaimsInv

AccountsInv == StoreInv /\ RolesInv /\ AuthInv /\ FactorInv /\ GoogleInv

\* Initially no token is issued and no request under way.
LEMMA AuthStart ==
    ASSUME AuthInit
    PROVE  AuthInv
<1> USE DEF AuthInit
<1>1. Issued = {} /\ token \in Seq(TokenRecs) /\ life \in Seq(Lives) /\ Len(token) = 0 /\ Len(life) = 0
  BY DEF Issued
<1>2. AuthShape
  BY <1>1, SessionsConstants DEF AuthShape
<1>3. HeldInv
  BY DEF HeldInv, Held, Idle
<1>4. OwnInv
  BY <1>1 DEF OwnInv
<1>5. RevokedInv /\ ListedInv /\ ClaimsInv
  BY <1>1 DEF RevokedInv, ListedInv, ClaimsInv, Idle
<1>6. QED
  BY <1>2, <1>3, <1>4, <1>5 DEF AuthInv

\* What the other parts do is nothing to tokens and roles.
LEMMA AuthLeftAlone ==
    ASSUME StoreInv, RolesInv, AuthInv, UNCHANGED sessionVars
    PROVE  StoreInv' /\ RolesInv' /\ AuthInv'
<1> USE DEF sessionVars, authVars
<1>1. StoreInv' /\ RolesInv'
  BY RolesLeftAlone DEF StoreInv
<1>2. AuthShape' /\ HeldInv' /\ OwnInv' /\ RevokedInv'
  BY DEF AuthInv, AuthShape, HeldInv, Held, OwnInv, RevokedInv, Issued
<1>3. ListedInv'
  BY TrackedKept DEF AuthInv, ListedInv, Issued
<1>4. ClaimsInv'
  BY DEF AuthInv, ClaimsInv, Claim, Excused, Covers, ScopesOf, Issued, roleVars
<1>5. QED
  BY <1>1, <1>2, <1>3, <1>4 DEF AuthInv

LEMMA AccountsStart == AccountsInit => AccountsInv
<1> SUFFICES ASSUME AccountsInit PROVE AccountsInv
  OBVIOUS
<1>1. StoreInv /\ \A e \in RoleEntries : store[e] = NoValue
  BY RolesConstants DEF AccountsInit, StoreInv
<1>2. RolesInv /\ AuthInv /\ FactorInv /\ GoogleInv
  BY <1>1, RolesStart, AuthStart, FactorStart, GoogleStart DEF AccountsInit
<1>3. QED
  BY <1>1, <1>2 DEF AccountsInv

LEMMA AccountsStep ==
    ASSUME AccountsInv, [AccountsNext]_accountVars
    PROVE  AccountsInv'
<1>1. CASE AuthStep
  <2>1. AuthNext /\ UNCHANGED <<factorVars, googleVars>>
    BY <1>1 DEF AuthStep
  <2>2. /\ AuthShape /\ HeldInv /\ OwnInv /\ RevokedInv /\ ListedInv /\ ClaimsInv
        /\ StoreInv /\ RolesInv /\ RolesShape /\ EditorInv
    BY DEF AccountsInv, AuthInv, RolesInv
  <2>3. StoreInv' /\ RolesInv'
    BY <2>1, <2>2, AuthRolesStep
  <2>4. AuthInv'
    <3>1. AuthShape' /\ HeldInv' /\ OwnInv'
      BY <2>1, <2>2, AuthShapeStep, AuthHeldStep, AuthOwnStep
    <3>2. RevokedInv' /\ ListedInv'
      BY <2>1, <2>2, AuthRevokedStep, AuthListedStep
    <3>3. RolesShape'
      BY <2>3 DEF RolesInv
    <3>4. ClaimsInv'
      BY <2>1, <2>2, <3>3, AuthClaimsStep
    <3>5. QED
      BY <3>1, <3>2, <3>4 DEF AuthInv
  <2>5. FactorInv' /\ GoogleInv'
    BY <2>1, FactorLeftAlone, GoogleLeftAlone DEF AccountsInv
  <2>6. QED
    BY <2>3, <2>4, <2>5 DEF AccountsInv
<1>2. CASE FactorStep
  <2>1. FactorNext /\ UNCHANGED <<sessionVars, googleVars>>
    BY <1>2 DEF FactorStep
  <2>2. FactorShape /\ ReadingInv /\ BackupSafe /\ TotpSafe
    BY DEF AccountsInv, FactorInv
  <2>3. FactorInv'
    BY <2>1, <2>2, FactorShapeStep, FactorReadingStep, FactorBackupStep, FactorTotpStep DEF FactorInv
  <2>4. QED
    BY <2>1, <2>3, AuthLeftAlone, GoogleLeftAlone DEF AccountsInv
<1>3. CASE GoogleStep
  <2>1. GoogleNext /\ UNCHANGED <<sessionVars, factorVars>>
    BY <1>3 DEF GoogleStep
  <2>2. GoogleInv'
    BY <2>1, GoogleShapeStep, GoogleLinkStep DEF AccountsInv, GoogleInv
  <2>3. QED
    BY <2>1, <2>2, AuthLeftAlone, FactorLeftAlone DEF AccountsInv
<1>4. CASE UNCHANGED accountVars
  <2>1. UNCHANGED <<sessionVars, factorVars, googleVars>>
    BY <1>4 DEF accountVars
  <2>2. QED
    BY <2>1, AuthLeftAlone, FactorLeftAlone, GoogleLeftAlone DEF AccountsInv
<1>5. QED
  BY <1>1, <1>2, <1>3, <1>4 DEF AccountsNext

(***************************************************************************)
(* The inductive invariant of the accounts.                                *)
(***************************************************************************)
THEOREM Invariance == AccountsSpec => []AccountsInv
  BY AccountsStart, AccountsStep, PTL DEF AccountsSpec

\* Tables, keys and requests keep their shape.
THEOREM TypeCorrect == AccountsSpec => []AccountsTypeOK
<1>1. AccountsInv => AccountsTypeOK
  <2> SUFFICES ASSUME AccountsInv PROVE AccountsTypeOK
    OBVIOUS
  <2>1. AuthTypeOK
    <3>1. AuthShape /\ OwnInv
      BY DEF AccountsInv, AuthInv
    <3>2. \A j \in Issued : token[j] \in TokenRecs /\ life[j] \in Lives
      BY <3>1, IssuedJtis
    <3>3. Len(token) \in 0..MaxTokens
      BY <3>1, IssuedJtis, SessionsConstants DEF AuthShape
    <3>4. QED
      BY <3>1, <3>2, <3>3 DEF AuthTypeOK, AuthShape, OwnInv, TokenRecs, Lives
  <2>2. RolesTypeOK
    BY DEF AccountsInv, RolesInv, RolesShape, ReadStates, EditorStates, RoleRows, RoleTexts,
           Stages, RolesTypeOK
  <2>3. FactorTypeOK
    BY DEF AccountsInv, FactorInv, FactorShape, CodeLists, ReadingInv, Reading, FactorTypeOK
  <2>4. GoogleTypeOK
    BY DEF AccountsInv, GoogleInv, GoogleShape
  <2>5. QED
    BY <2>1, <2>2, <2>3, <2>4 DEF AccountsTypeOK
<1>2. QED
  BY <1>1, Invariance, PTL

(***************************************************************************)
(* update_password raises token_version in the UPDATE that stores the      *)
(* hash: however it is interleaved with logins, refreshes, impersonations  *)
(* and sudo tokens, no token of a login that had read the user before is   *)
(* accepted, and none obtained with an earlier password but through a      *)
(* challenge for a second factor that was open at the change.              *)
(***************************************************************************)
THEOREM PasswordChangesEnd == AccountsSpec => []PasswordEndsTokens
<1>1. AccountsInv => PasswordEndsTokens
  BY DEF AccountsInv, AuthInv, ClaimsInv, Claim, PasswordEndsTokens
<1>2. QED
  BY <1>1, Invariance, PTL

(***************************************************************************)
(* update_role, delete_role and assign_roles against get_current_user: no  *)
(* token that is accepted has a scope that a finished edit took.           *)
(***************************************************************************)
THEOREM ScopesNotLost == AccountsSpec => []NoLostScopes
<1>1. AccountsInv => NoLostScopes
  <2>1. SUFFICES ASSUME AccountsInv, NEW j \in Issued, GetCurrentUser(j),
                        ~(token[j].scopes \subseteq ScopesOf(token[j].user))
                 PROVE  LET u == token[j].user IN
                        \/ u \in unbumped
                        \/ \E w \in Editors : /\ <<u, editor[w].role>> \in holders
                                              /\ editor[w].at \in {"fill", "bump"}
    BY DEF NoLostScopes
  <2>2. Excused(token[j].user)
    BY <2>1 DEF AccountsInv, AuthInv, ClaimsInv, Claim, GetCurrentUser
  <2>3. QED
    BY <2>2 DEF Excused, Covers
<1>2. QED
  BY <1>1, Invariance, PTL

(***************************************************************************)
(* upsert_user_session and the revocations: a token that is accepted can   *)
(* be found in user_sessions and revoked, with the named exceptions.       *)
(***************************************************************************)
THEOREM TokensListed == AccountsSpec => []LiveTokensListed
<1>1. AccountsInv => LiveTokensListed
  <2>1. SUFFICES ASSUME AccountsInv, NEW j \in Issued, GetCurrentUser(j), ~token[j].imp
                 PROVE  \/ RowsOf({j}) # {}
                        \/ j \in unlisted
                        \/ j \in revoked /\ life[j] # "long"
                        \/ \E c \in Callers : caller[c].at = "blacklist" /\ j \in caller[c].jtis
    BY DEF LiveTokensListed
  <2>2. /\ token[j].type = "access" /\ life[j] # "over" /\ token[j].user \in users
        /\ j \notin blacklist /\ AuthShape /\ ListedInv /\ RevokedInv
    BY <2>1 DEF GetCurrentUser, VerifyToken, AccountsInv, AuthInv
  <2>3. Tracked(j)
    BY <2>1, <2>2 DEF ListedInv
  <2>4. (\E ua \in Users \X Agents : sessions[ua] = j) => RowsOf({j}) # {}
    BY <2>2 DEF AuthShape, RowsOf
  <2>5. j \in revoked => life[j] # "long"
    BY <2>2 DEF RevokedInv
  <2>6. QED
    BY <2>3, <2>4, <2>5 DEF Tracked
<1>2. QED
  BY <1>1, Invariance, PTL

(***************************************************************************)
(* verify_two_factor_challenge with a backup code: it lets one login       *)
(* through, unless a request stored a list of codes over one it had not    *)
(* read.                                                                   *)
(***************************************************************************)
THEOREM CodesOnce == AccountsSpec => []BackupCodesUsedOnce
<1>1. AccountsInv => BackupCodesUsedOnce
  BY DEF AccountsInv, FactorInv, BackupSafe
<1>2. QED
  BY <1>1, Invariance, PTL

(***************************************************************************)
(* The marks of 2fa:replay: of the answers that are accepted in a slice of *)
(* 30 seconds one lets a login through, unless two requests were between   *)
(* the read and the write of its mark.  A code that is sent again in the   *)
(* next slice is another matter (TotpUsedOnce, which does not hold).       *)
(***************************************************************************)
THEOREM SlicesOnce == AccountsSpec => []OneLoginPerSlice
<1>1. AccountsInv => OneLoginPerSlice
  BY DEF AccountsInv, FactorInv, TotpSafe
<1>2. QED
  BY <1>1, Invariance, PTL

(***************************************************************************)
(* confirm_two_factor_setup, regenerate_two_factor_backup_codes and the    *)
(* consumption of codes: the codes in force are the ones generated last,   *)
(* and were shown, unless their request is under way or failed.            *)
(***************************************************************************)
THEOREM CodesInForce == AccountsSpec => []ShownCodesInForce
<1>1. AccountsInv => ShownCodesInForce
  BY DEF AccountsInv, FactorInv, BackupSafe
<1>2. QED
  BY <1>1, Invariance, PTL

(***************************************************************************)
(* handle_google_oauth: overlapping callbacks log in as the one user that  *)
(* the account is linked with, and an unverified address links with nobody *)
(* who registered.                                                         *)
(***************************************************************************)
THEOREM LinkedRight == AccountsSpec => []LinkedWithTheRightUser
<1>1. AccountsInv => LinkedWithTheRightUser
  BY DEF AccountsInv, GoogleInv
<1>2. QED
  BY <1>1, Invariance, PTL

=============================================================================
