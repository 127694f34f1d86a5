----------------------------- MODULE MCServices -----------------------------
(***************************************************************************)
(* Instances for TLC of the services around the database and the network.  *)
(* They share no table and no variable, so that what one of them does is   *)
(* independent of the others: a behaviour is one of a single service,      *)
(* chosen at the start (part), instead of an interleaving of all of them.  *)
(* The choice of a pool and the statements, and the webhooks sent and      *)
(* received, are parts of their own.                                       *)
(***************************************************************************)
EXTENDS Services, TLC

CONSTANTS r1, r2, r9, p1, p2, p3, w1, w2, w3, u1, u2, s1

VARIABLE part

vars == <<serviceVars, part>>

\* Two regions, the first with two replicas; clients of one of them and of a
\* region without replicas; a priority list that names a region or not.
MCRegionOrder == <<r1, r2>>
MCConfigured == r1 :> {p1, p2} @@ r2 :> {p3}
MCPriorities == {<<r9>>, <<r2>>}

\* Three migrations, two or all of them there at first; what two operators may
\* ask for: all of them or those up to the second one, up or down.
MCNumber == <<1, 2, 3>>
MCOrders == [direction : {"up", "down"}, target : {0, 2}, steps : {3}]

\* Two sockets of one user, one of another; a stream of the first user.
MCUserOf == w1 :> u1 @@ w2 :> u1 @@ w3 :> u2
MCStreamUser == s1 :> u1

Init ==
    /\ part \in {"pools", "statements", "migrations", "webhooks", "inbound", "sockets", "push"}
    /\ ServicesInit

Next ==
    /\ UNCHANGED part
    /\ IF part \in {"pools", "statements"} THEN PoolsNext ELSE UNCHANGED poolVars
    /\ part = "pools" => \A s \in Statements : statement'[s].at # "run"
    /\ part = "statements" => \A p \in Replicas : latency'[p] < 2
    /\ IF part = "migrations" THEN MigrationsNext ELSE UNCHANGED migrationVars
    /\ IF part \in {"webhooks", "inbound"} THEN WebhooksNext ELSE UNCHANGED hookVars
    /\ part = "webhooks" => UNCHANGED inbounds
    /\ part = "inbound" => UNCHANGED <<endpoints, jobs, admins>>
    /\ IF part = "sockets" THEN ConnectionsNext ELSE UNCHANGED connVars
    /\ IF part = "push" THEN PushNext ELSE UNCHANGED pushVars

Spec == Init /\ [][Next]_vars /\ PoolsFairness

=============================================================================
