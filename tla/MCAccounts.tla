----------------------------- MODULE MCAccounts -----------------------------
(***************************************************************************)
(* Instances for TLC of the accounts: tokens, sessions and roles, the      *)
(* second factor, and the login with Google.  A behaviour is one of a      *)
(* single part, chosen at the start.  Tokens and roles are in two of them: *)
(* one in which time passes, sessions are revoked and logins may have a    *)
(* second factor, but no role is edited or assigned; and one in which      *)
(* roles are, no token grows old, and there is one token and one request   *)
(* less.                                                                   *)
(***************************************************************************)
EXTENDS Accounts

VARIABLE part

vars == <<accountVars, part>>

MCCacheKeys == RoleEntries

Init ==
    /\ part \in {"time", "edits", "factor", "google"}
    /\ AccountsInit
    /\ part # "edits" => holders = {} /\ \A r \in RoleIds : perms[r] = {1}
    /\ part # "google" => verified

\* What no request of a part does.
Elsewhere(p) == IF p = "time" THEN {"assign"} ELSE {"challenge", "revoke", "stop"}

\* Requests are interchangeable: they begin in their order.
InOrder ==
    /\ \A c, d \in Callers : c < d /\ caller'[c].at = "new" => caller'[d].at = "new"
    /\ \A p, q \in FactorRequests : p < q /\ request'[p].at = "new" => request'[q].at = "new"

Next ==
    /\ UNCHANGED part
    /\ \/ part \in {"time", "edits"} /\ AuthStep
       \/ part = "factor" /\ FactorStep
       \/ part = "google" /\ GoogleStep
    /\ InOrder /\ \A c \in Callers : caller'[c].at \notin Elsewhere(part)
    /\ part = "time" => UNCHANGED editor
    /\ part = "edits" => /\ Len(token') < MaxTokens /\ caller'[Cardinality(Callers)].at = "new"
                         /\ \A j \in Issued : life'[j] = life[j]

Spec == Init /\ [][Next]_vars

=============================================================================
