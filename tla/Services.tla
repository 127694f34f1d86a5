------------------------------ MODULE Services ------------------------------
(***************************************************************************)
(* The services around the database and the network together, in any       *)
(* interleaving: the pools of api/core/database.py, migrate.py, webhooks,  *)
(* WebSocket connections and push notifications.  They share no table.     *)
(***************************************************************************)
EXTENDS DbPools, Migrations, Webhooks, Connections, Push

serviceVars == <<poolVars, migrationVars, hookVars, connVars, pushVars>>

ServicesInit == PoolsInit /\ MigrationsInit /\ WebhooksInit /\ ConnectionsInit /\ PushInit

PoolsStep == PoolsNext /\ UNCHANGED <<migrationVars, hookVars, connVars, pushVars>>
MigrationsStep == MigrationsNext /\ UNCHANGED <<poolVars, hookVars, connVars, pushVars>>
WebhooksStep == WebhooksNext /\ UNCHANGED <<poolVars, migrationVars, connVars, pushVars>>
ConnectionsStep == ConnectionsNext /\ UNCHANGED <<poolVars, migrationVars, hookVars, pushVars>>
PushStep == PushNext /\ UNCHANGED <<poolVars, migrationVars, hookVars, connVars>>

ServicesNext == PoolsStep \/ MigrationsStep \/ WebhooksStep \/ ConnectionsStep \/ PushStep

ServicesSpec == ServicesInit /\ [][ServicesNext]_serviceVars

\* The state of every service has its shape.
ServicesTypeOK ==
    PoolsTypeOK /\ MigrationsTypeOK /\ WebhooksTypeOK /\ ConnectionsTypeOK /\ PushTypeOK

=============================================================================
