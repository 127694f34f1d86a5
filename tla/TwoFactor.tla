----------------------------- MODULE TwoFactor -----------------------------
(***************************************************************************)
(* The second factor of one user, as AuthService and totp.py keep it: the  *)
(* row of user_two_factor, the secret of a setup under way and the         *)
(* challenges in Redis, and the marks against replay.  A secret, a batch   *)
(* of backup codes and a challenge are named by numbers in the order of    *)
(* their creation.  A request suspends where the code awaits; one that is  *)
(* refused changes nothing (the challenge stays).                          *)
(***************************************************************************)
EXTENDS Naturals, FiniteSets

CONSTANTS
    MaxSecrets,     \* bound on the setups begun
    MaxBatches,     \* bound on the batches of backup codes
    BackupCodes,    \* the codes of a batch
    MaxChallenges,  \* bound on the challenges issued
    MaxSlice,       \* bound on time: the slices of 30 seconds
    FactorRequests  \* requests of the user in flight

ASSUME TwoFactorConstants ==
    {MaxSecrets, MaxBatches, MaxChallenges, MaxSlice} \subseteq Nat

VARIABLES
    record,      \* user_two_factor: is_enabled, secret, and the backup codes
    setup,       \* 2fa:setup:<user>: a secret, or 0
    challenges,  \* the live 2fa:challenge:<token>
    replay,      \* the live 2fa:replay:<user>:<slice>
    slice,       \* the time, in slices
    secrets,     \* how many secrets were generated
    batches,     \* how many batches of codes were generated
    issued,      \* how many challenges were issued
    request,     \* the state of every request
    accepted,    \* history: the answers that let a request through
    shown,       \* history: the batches that a response showed to the user
    overtaken,   \* history: a list of codes was written over one not read
    crossed      \* history: a slice was marked by two requests at once

factorVars == <<record, setup, challenges, replay, slice, secrets, batches, issued, request,
                accepted, shown, overtaken, crossed>>

\* The list of code records: a batch and the codes of it that are marked used.
Codes(b, used) == [batch |-> b, used |-> used]

FactorInit ==
    /\ record = [on |-> FALSE, secret |-> 0, codes |-> Codes(0, {})]
    /\ setup = 0
    /\ challenges = {}
    /\ replay = {}
    /\ slice = 1
    /\ secrets = 0 /\ batches = 0 /\ issued = 0
    /\ request = [q \in FactorRequests |-> [at |-> "new"]]
    /\ accepted = {} /\ shown = {}
    /\ overtaken = FALSE /\ crossed = FALSE

Goes(q, state) == request' = [request EXCEPT ![q] = state]
FactorEnds(q) == Goes(q, [at |-> "over"])

\* The user's authenticator may hold any secret shown; a TOTP code is a
\* secret and the slice it was made in.
\* verify_totp with valid_window 1.
VerifyTotp(secret, code) == code.secret = secret /\ code.slice \in (slice - 1)..(slice + 1)
TotpCodes == [secret : 1..secrets, slice : 0..(MaxSlice + 1)]

\* generate_backup_codes, and the write of the batch.
NewBatch == batches < MaxBatches /\ batches' = batches + 1

\* Mutant: the code is found, but not marked.
FindBackupCode(codes, b, i) == [valid |-> codes.batch = b /\ i \notin codes.used, codes |-> codes]

\* verify_and_consume_backup_code.
ConsumeBackupCode(codes, b, i) ==
    [valid |-> codes.batch = b /\ i \notin codes.used,
     codes |-> [codes EXCEPT !.used = @ \union {i}]]

-----------------------------------------------------------------------------
(***************************************************************************)
(* Setup and confirmation.                                                 *)
(***************************************************************************)
\* initiate_two_factor_setup.
InitiateSetup ==
    /\ secrets < MaxSecrets
    /\ secrets' = secrets + 1
    /\ setup' = secrets + 1
    /\ UNCHANGED <<record, challenges, replay, slice, batches, issued, request, accepted, shown, overtaken, crossed>>

SetupLapses ==
    /\ setup # 0
    /\ setup' = 0
    /\ UNCHANGED <<record, challenges, replay, slice, secrets, batches, issued, request, accepted, shown, overtaken, crossed>>

\* confirm_two_factor_setup: the secret is read and the code verified,
ConfirmRead(q) ==
    /\ request[q].at = "new" /\ setup # 0
    /\ \E code \in TotpCodes : VerifyTotp(setup, code)
    /\ Goes(q, [at |-> "enable", secret |-> setup])
    /\ UNCHANGED <<record, setup, challenges, replay, slice, secrets, batches, issued, accepted, shown, overtaken, crossed>>

\* upsert_two_factor,
UpsertTwoFactor(q) ==
    /\ request[q].at = "enable"
    /\ NewBatch
    /\ record' = [on |-> TRUE, secret |-> request[q].secret, codes |-> Codes(batches + 1, {})]
    /\ Goes(q, [at |-> "forget", batch |-> batches + 1])
    /\ UNCHANGED <<setup, challenges, replay, slice, secrets, issued, accepted, shown, overtaken, crossed>>

\* and the key is deleted, whichever setup it is of by now; the codes are
\* shown.
ForgetSetup(q) ==
    /\ request[q].at = "forget"
    /\ setup' = 0
    /\ shown' = shown \union {request[q].batch}
    /\ FactorEnds(q)
    /\ UNCHANGED <<record, challenges, replay, slice, secrets, batches, issued, accepted, overtaken, crossed>>

\* The deletion or the event after it raises: the factor is on, with codes
\* that nobody has seen.
ForgetFails(q) ==
    /\ request[q].at = "forget"
    /\ setup' \in {setup, 0}
    /\ Goes(q, [at |-> "failed", batch |-> request[q].batch])
    /\ UNCHANGED <<record, challenges, replay, slice, secrets, batches, issued, accepted, shown, overtaken, crossed>>

-----------------------------------------------------------------------------
(***************************************************************************)
(* Disabling and new backup codes: the record is read and the code checked *)
(* against it; neither a mark is set nor the code consumed.                *)
(***************************************************************************)
CodeMatches(rec) ==
    \/ \E code \in TotpCodes : VerifyTotp(rec.secret, code)
    \/ \E i \in BackupCodes : i \notin rec.codes.used

ReadEnabled(q, next) ==
    /\ request[q].at = "new"
    /\ record.on /\ CodeMatches(record)
    /\ Goes(q, [at |-> next])
    /\ UNCHANGED <<record, setup, challenges, replay, slice, secrets, batches, issued, accepted, shown, overtaken, crossed>>

DisableRead(q) == ReadEnabled(q, "disable")
RegenerateRead(q) == ReadEnabled(q, "regenerate")

\* disable_two_factor of the DAO.
DisableTwoFactor(q) ==
    /\ request[q].at = "disable"
    /\ record' = [on |-> FALSE, secret |-> 0, codes |-> Codes(0, {})]
    /\ FactorEnds(q)
    /\ UNCHANGED <<setup, challenges, replay, slice, secrets, batches, issued, accepted, shown, overtaken, crossed>>

\* Mutant: the new codes are shown and not stored.
ShowNewCodes(q) ==
    /\ request[q].at = "regenerate"
    /\ NewBatch
    /\ shown' = shown \union {batches + 1}
    /\ FactorEnds(q)
    /\ UNCHANGED <<record, setup, challenges, replay, slice, secrets, issued, accepted, overtaken, crossed>>

\* The end of regenerate_two_factor_backup_codes.
Regenerate(q) ==
    /\ request[q].at = "regenerate"
    /\ NewBatch
    /\ record' = [record EXCEPT !.codes = Codes(batches + 1, {})]
    /\ shown' = shown \union {batches + 1}
    /\ FactorEnds(q)
    /\ UNCHANGED <<setup, challenges, replay, slice, secrets, issued, accepted, overtaken, crossed>>

-----------------------------------------------------------------------------
(***************************************************************************)
(* The challenge of a login.                                               *)
(***************************************************************************)
\* authenticate_user, with the factor enabled.
IssueChallenge ==
    /\ record.on /\ issued < MaxChallenges
    /\ issued' = issued + 1
    /\ challenges' = challenges \union {issued + 1}
    /\ UNCHANGED <<record, setup, replay, slice, secrets, batches, request, accepted, shown, overtaken, crossed>>

ChallengeLapses(t) ==
    /\ t \in challenges
    /\ challenges' = challenges \ {t}
    /\ UNCHANGED <<record, setup, replay, slice, secrets, batches, issued, request, accepted, shown, overtaken, crossed>>

\* verify_two_factor_challenge: the challenge is read, not taken.
ChallengeRead(q, t) ==
    /\ request[q].at = "new" /\ t \in challenges
    /\ Goes(q, [at |-> "record", challenge |-> t])
    /\ UNCHANGED <<record, setup, challenges, replay, slice, secrets, batches, issued, accepted, shown, overtaken, crossed>>

\* Then the record, and _verify_2fa_code_or_backup: a TOTP code,
AnswerTotp(q, code) ==
    /\ request[q].at = "record"
    /\ record.on /\ VerifyTotp(record.secret, code)
    /\ Goes(q, [at |-> "replay", challenge |-> request[q].challenge, slice |-> slice, code |-> code])
    /\ UNCHANGED <<record, setup, challenges, replay, slice, secrets, batches, issued, accepted, shown, overtaken, crossed>>

\* or else a backup code; the codes to store are computed of those read.
AnswerBackup(q, b, i) ==
    LET consumed == ConsumeBackupCode(record.codes, b, i) IN
    /\ request[q].at = "record"
    /\ record.on /\ consumed.valid
    /\ Goes(q, [at |-> "store", challenge |-> request[q].challenge, batch |-> b, code |-> i,
                read |-> record.codes, codes |-> consumed.codes])
    /\ UNCHANGED <<record, setup, challenges, replay, slice, secrets, batches, issued, accepted, shown, overtaken, crossed>>

\* Any other code, or a factor disabled meanwhile, ends the request.
AnswerRefused(q) ==
    /\ request[q].at = "record"
    /\ FactorEnds(q)
    /\ UNCHANGED <<record, setup, challenges, replay, slice, secrets, batches, issued, accepted, shown, overtaken, crossed>>

\* Mutant: the mark is not looked at.
ReplayIgnored(q) ==
    /\ request[q].at = "replay"
    /\ Goes(q, [request[q] EXCEPT !.at = "mark"])
    /\ UNCHANGED <<record, setup, challenges, replay, slice, secrets, batches, issued, accepted, shown, overtaken, crossed>>

\* The mark of the slice that it is by now, not of the code's, is read,
ReplayRead(q) ==
    /\ request[q].at = "replay"
    /\ IF request[q].slice \in replay THEN FactorEnds(q) ELSE Goes(q, [request[q] EXCEPT !.at = "mark"])
    /\ UNCHANGED <<record, setup, challenges, replay, slice, secrets, batches, issued, accepted, shown, overtaken, crossed>>

\* and set.  crossed: another request was between the two as well.
ReplaySet(q) ==
    /\ request[q].at = "mark"
    /\ replay' = replay \union {request[q].slice}
    /\ accepted' = accepted \union
          {[by |-> q, kind |-> "totp", slice |-> request[q].slice,
            what |-> <<request[q].code.secret, request[q].code.slice>>]}
    /\ crossed' = (crossed \/ \E p \in FactorRequests \ {q} :
                      request[p].at = "mark" /\ request[p].slice = request[q].slice)
    /\ Goes(q, [at |-> "take", challenge |-> request[q].challenge])
    /\ UNCHANGED <<record, setup, challenges, slice, secrets, batches, issued, shown, overtaken>>

\* update_two_factor_backup_codes: the whole list is written.
StoreCodes(q) ==
    /\ request[q].at = "store"
    /\ record' = [record EXCEPT !.codes = request[q].codes]
    /\ accepted' = accepted \union
          {[by |-> q, kind |-> "backup", slice |-> slice, what |-> <<request[q].batch, request[q].code>>]}
    /\ overtaken' = (overtaken \/ record.codes # request[q].read)
    /\ Goes(q, [at |-> "take", challenge |-> request[q].challenge])
    /\ UNCHANGED <<setup, challenges, replay, slice, secrets, batches, issued, shown, crossed>>

\* The challenge is deleted; the tokens are issued (Sessions).
TakeChallenge(q) ==
    /\ request[q].at = "take"
    /\ challenges' = challenges \ {request[q].challenge}
    /\ FactorEnds(q)
    /\ UNCHANGED <<record, setup, replay, slice, secrets, batches, issued, accepted, shown, overtaken, crossed>>

-----------------------------------------------------------------------------
\* Time.  A round trip to Redis ends within a slice.
Tick ==
    /\ slice < MaxSlice
    /\ \A q \in FactorRequests : request[q].at \in {"replay", "mark"} => request[q].slice = slice
    /\ slice' = slice + 1
    /\ UNCHANGED <<record, setup, challenges, replay, secrets, batches, issued, request, accepted, shown, overtaken, crossed>>

\* A mark lives for two slices.
MarkLapses(s) ==
    /\ s \in replay /\ slice >= s + 2
    /\ replay' = replay \ {s}
    /\ UNCHANGED <<record, setup, challenges, slice, secrets, batches, issued, request, accepted, shown, overtaken, crossed>>

FactorNext ==
    \/ InitiateSetup \/ SetupLapses \/ IssueChallenge \/ Tick
    \/ \E t \in 1..MaxChallenges : ChallengeLapses(t)
    \/ \E s \in 1..MaxSlice : MarkLapses(s)
    \/ \E q \in FactorRequests :
          \/ ConfirmRead(q) \/ UpsertTwoFactor(q) \/ ForgetSetup(q) \/ ForgetFails(q)
          \/ DisableRead(q) \/ RegenerateRead(q) \/ DisableTwoFactor(q) \/ Regenerate(q)
          \/ \E t \in 1..MaxChallenges : ChallengeRead(q, t)
          \/ \E code \in TotpCodes : AnswerTotp(q, code)
          \/ \E b \in 1..MaxBatches, i \in BackupCodes : AnswerBackup(q, b, i)
          \/ AnswerRefused(q) \/ ReplayRead(q) \/ ReplaySet(q) \/ StoreCodes(q) \/ TakeChallenge(q)

-----------------------------------------------------------------------------
(***************************************************************************)
(* Properties.                                                             *)
(***************************************************************************)
\* An enabled record has a secret the user was shown and a batch of codes.
FactorTypeOK ==
    /\ record.on \in BOOLEAN /\ record.secret \in 0..secrets
    /\ record.codes.batch \in 0..batches /\ record.codes.used \subseteq BackupCodes
    /\ record.on => record.secret # 0
    /\ setup \in 0..secrets /\ challenges \subseteq 1..issued /\ replay \subseteq 1..slice
    /\ \A q \in FactorRequests : request[q].at \in
          {"new", "enable", "forget", "failed", "disable", "regenerate",
           "record", "replay", "mark", "store", "take", "over"}

\* A backup code lets one login through ("single-use backup recovery codes"),
\* also across challenges and disabled or renewed factors, unless a request
\* stored a list over one it had not read: check and update are separate
\* statements.
BackupCodesUsedOnce ==
    ~overtaken => \A x, y \in accepted :
                      x.kind = "backup" /\ y.kind = "backup" /\ x.what = y.what => x = y

\* A slice of 30 seconds lets one login by TOTP through, whatever the code,
\* unless two requests were between the read and the write of its mark at
\* once.  It says nothing of a code that is sent again in the next slice.
OneLoginPerSlice ==
    ~crossed => \A x, y \in accepted :
                    x.kind = "totp" /\ y.kind = "totp" /\ x.slice = y.slice => x = y

\* The codes in force are the ones generated last, and a response showed them
\* or its request is still at it or has failed after the codes were stored;
\* unless a list was stored over one not read: a login with an old code,
\* overlapping a renewal, brings the old batch back and voids the new one.
ShownCodesInForce ==
    record.on /\ ~overtaken =>
        /\ record.codes.batch = batches
        /\ \/ batches \in shown
           \/ \E q \in FactorRequests : request[q].at \in {"forget", "failed"} /\ request[q].batch = batches

=============================================================================
