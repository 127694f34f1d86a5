------------------------------ MODULE Accounts ------------------------------
(***************************************************************************)
(* The accounts together, in any interleaving: tokens and sessions with    *)
(* the roles their scopes come from, the second factor of a user, and the  *)
(* login with a Google account.  A login with a second factor or with      *)
(* Google ends in issue_tokens_and_session (Sessions); the three share no  *)
(* other table and no key.                                                 *)
(***************************************************************************)
EXTENDS Sessions, TwoFactor, GoogleLogin

accountVars == <<sessionVars, factorVars, googleVars>>

AccountsInit ==
    /\ store = [k \in CacheKeys |-> NoValue]
    /\ AuthInit
    /\ RolesInit
    /\ FactorInit
    /\ GoogleInit

AuthStep == AuthNext /\ UNCHANGED <<factorVars, googleVars>>
FactorStep == FactorNext /\ UNCHANGED <<sessionVars, googleVars>>
GoogleStep == GoogleNext /\ UNCHANGED <<sessionVars, factorVars>>

AccountsNext == AuthStep \/ FactorStep \/ GoogleStep

AccountsSpec == AccountsInit /\ [][AccountsNext]_accountVars

\* The tables, the keys in Redis and the requests have their shape.
AccountsTypeOK == AuthTypeOK /\ RolesTypeOK /\ FactorTypeOK /\ GoogleTypeOK

=============================================================================
