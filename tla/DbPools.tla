------------------------------ MODULE DbPools ------------------------------
(***************************************************************************)
(* DataBase: a write pool, read pools by region, the loop that marks read  *)
(* pools healthy or not, the choice of a pool for a read, and the three    *)
(* attempts of every statement.  Without READ_DB_URIS the write pool is     *)
(* the one read pool, of the region "global": RegionOrder is empty then,   *)
(* and a read that finds no region goes to "primary", the write pool.      *)
(***************************************************************************)
EXTENDS Naturals, Sequences, FiniteSets, FiniteSetsExt

CONSTANTS
    RegionOrder,  \* the regions of READ_DB_URIS, in the order of the dict
    Configured,   \* the replicas of every region: region -> set
    Priorities,   \* what REGION_PRIORITY may be: sequences of regions
    ClientRegions,  \* the regions of the requests' clients
    MaxDown,      \* bound on the number of replicas down at a time
    Latencies,    \* what a health check may measure
    Statements    \* the statements of a run

Regions == {RegionOrder[i] : i \in DOMAIN RegionOrder}
Replicas == UNION {Configured[r] : r \in Regions}

NoRegion == "none"

ASSUME DbPoolsConstants ==
    /\ DOMAIN Configured = Regions
    /\ \A r, s \in Regions : r # s => Configured[r] \intersect Configured[s] = {}
    /\ DOMAIN RegionOrder \subseteq Nat
    /\ \A order \in Priorities : DOMAIN order \subseteq Nat
    /\ NoRegion \notin Regions
    /\ "primary" \notin Replicas
    /\ Latencies \subseteq Nat

VARIABLES
    opened,      \* write_pool is set
    pools,       \* read_pools_by_region: region -> set of replicas with a pool
    priority,    \* _region_priority
    healthy,     \* PoolMeta.healthy
    latency,     \* PoolMeta.last_latency, 0 for None
    loop,        \* _health_task: off, running, hung in a check, ended
    up,          \* replicas that answer
    statement,   \* the state of every statement
    applied,     \* history: how often the primary applied it
    lostAnswer   \* history: writes that were applied but not answered

poolVars == <<opened, pools, priority, healthy, latency, loop, up, statement, applied, lostAnswer>>

MaxAttempts == 3

InPool == UNION {pools[r] : r \in Regions}
HealthyIn(r) == {p \in pools[r] : healthy[p]}
HealthyPools == {p \in InPool : healthy[p]}

PoolsInit ==
    /\ opened = FALSE
    /\ pools = [r \in Regions |-> {}]
    /\ priority = <<>>
    /\ healthy = [p \in Replicas |-> TRUE]
    /\ latency = [p \in Replicas |-> 0]
    /\ loop = "off"
    /\ up = Replicas
    /\ statement = [s \in Statements |-> [at |-> "new"]]
    /\ applied = [s \in Statements |-> 0]
    /\ lostAnswer = {}

\* create_pool: a replica that does not answer is skipped, and the flags of
\* the others are those of a new PoolMeta.
CreatePool ==
    /\ ~opened
    /\ opened' = TRUE
    /\ pools' = [r \in Regions |-> Configured[r] \intersect up]
    /\ priority' \in Priorities
    /\ healthy' = [p \in Replicas |-> TRUE]
    /\ latency' = [p \in Replicas |-> 0]
    /\ loop' = "running"
    /\ UNCHANGED <<up, statement, applied, lostAnswer>>

\* close_pool, at shutdown, when no request is left.
ClosePool ==
    /\ opened /\ \A s \in Statements : statement[s].at # "run"
    /\ opened' = FALSE
    /\ pools' = [r \in Regions |-> {}]
    /\ loop' = "ended"
    /\ statement' = [s \in Statements |-> [at |-> "over", write |-> FALSE, result |-> "none"]]
    /\ UNCHANGED <<priority, healthy, latency, up, applied, lostAnswer>>

-----------------------------------------------------------------------------
(***************************************************************************)
(* The health check loop.                                                  *)
(***************************************************************************)
\* Mutant: a pool found sick is left out of the later rounds.
CheckHealthyOnly(p) ==
    /\ loop = "running" /\ p \in HealthyPools
    /\ healthy' = [healthy EXCEPT ![p] = p \in up]
    /\ IF p \in up THEN \E l \in Latencies : latency' = [latency EXCEPT ![p] = l]
                   ELSE UNCHANGED latency
    /\ UNCHANGED <<opened, pools, priority, loop, up, statement, applied, lostAnswer>>

\* The check of one pool in a round of _health_check_loop.
HealthCheck(p) ==
    /\ loop = "running" /\ p \in InPool
    /\ healthy' = [healthy EXCEPT ![p] = p \in up]
    /\ IF p \in up THEN \E l \in Latencies : latency' = [latency EXCEPT ![p] = l]
                   ELSE UNCHANGED latency
    /\ UNCHANGED <<opened, pools, priority, loop, up, statement, applied, lostAnswer>>

\* An exception that is neither a PostgresError nor an OSError ends the task.
HealthLoopEnds ==
    /\ loop = "running" /\ InPool # {}
    /\ loop' = "ended"
    /\ UNCHANGED <<opened, pools, priority, healthy, latency, up, statement, applied, lostAnswer>>

\* The checks come one after the other, and neither acquire nor fetchval has
\* a timeout: a replica that does not answer at all stops the round, for all
\* pools, until its connection breaks.
HealthLoopHangs ==
    /\ loop = "running" /\ InPool \ up # {}
    /\ loop' = "hung"
    /\ UNCHANGED <<opened, pools, priority, healthy, latency, up, statement, applied, lostAnswer>>

HealthLoopResumes ==
    /\ loop = "hung" /\ loop' = "running"
    /\ UNCHANGED <<opened, pools, priority, healthy, latency, up, statement, applied, lostAnswer>>

ReplicaFails(p) ==
    /\ p \in up /\ Cardinality(Replicas \ up) < MaxDown
    /\ up' = up \ {p}
    /\ UNCHANGED <<opened, pools, priority, healthy, latency, loop, statement, applied, lostAnswer>>

ReplicaRecovers(p) ==
    /\ p \in Replicas \ up /\ up' = up \union {p}
    /\ UNCHANGED <<opened, pools, priority, healthy, latency, loop, statement, applied, lostAnswer>>

-----------------------------------------------------------------------------
(***************************************************************************)
(* The choice of a pool.                                                   *)
(***************************************************************************)
\* The first of the regions that is in S.
FirstOf(regions, S) == regions[Min({i \in DOMAIN regions : regions[i] \in S})]

Measured(r) == {p \in HealthyIn(r) : latency[p] # 0}

SumOver(P) == MapThenSumSet(LAMBDA p : latency[p], P)

\* The average latency of r is below that of s.
Faster(r, s) ==
    SumOver(Measured(r)) * Cardinality(Measured(s)) < SumOver(Measured(s)) * Cardinality(Measured(r))

\* The regions with the lowest average.
LowestLatency ==
    LET known == {r \in Regions : Measured(r) # {}}
    IN {r \in known : \A s \in known : ~Faster(s, r)}

\* _choose_region: the client's, one of the priority list, the fastest, any.
ChooseRegion(client) ==
    LET sound == {r \in Regions : HealthyIn(r) # {}}
        stocked == {r \in Regions : pools[r] # {}}
    IN IF client \in sound THEN client
       ELSE IF \E i \in DOMAIN priority : priority[i] \in sound THEN FirstOf(priority, sound)
       ELSE IF LowestLatency # {} THEN FirstOf(RegionOrder, LowestLatency)
       ELSE IF stocked # {} THEN FirstOf(RegionOrder, stocked)
       ELSE NoRegion

\* Mutant: no look at the other regions.
SelectInRegion(client) ==
    LET region == ChooseRegion(client)
    IN IF region = NoRegion THEN {"primary"} ELSE pools[region]

\* _select_read_pool: the pools secrets.choice draws from.  A region with a
\* healthy pool is drawn from as a whole: healthy_metas is not used.
SelectReadPool(client) ==
    LET region == ChooseRegion(client)
    IN IF region = NoRegion THEN {"primary"}
       ELSE IF HealthyIn(region) # {} THEN pools[region]
       ELSE IF HealthyPools # {} THEN HealthyPools
       ELSE InPool

\* get_pool.
GetPool(usePrimary, client) == IF usePrimary THEN {"primary"} ELSE SelectReadPool(client)

-----------------------------------------------------------------------------
(***************************************************************************)
(* Statements: fetch and fetchval read, write and execute write.           *)
(***************************************************************************)
Start(s, write) ==
    /\ opened /\ statement[s].at = "new"
    /\ \E client \in ClientRegions : \E p \in GetPool(write, client) :
          statement' = [statement EXCEPT ![s] =
              [at |-> "run", write |-> write, client |-> client, attempt |-> 1, pool |-> p]]
    /\ UNCHANGED <<opened, pools, priority, healthy, latency, loop, up, applied, lostAnswer>>

Fetch(s) == Start(s, FALSE)
Write(s) == Start(s, TRUE)

FinishStatement(s, result) ==
    statement' = [statement EXCEPT ![s] = [at |-> "over", write |-> @.write, result |-> result]]

StatementAnswered(s) ==
    /\ statement[s].at = "run"
    /\ statement[s].pool \in up \union {"primary"}
    /\ applied' = IF statement[s].write THEN [applied EXCEPT ![s] = @ + 1] ELSE applied
    /\ FinishStatement(s, "row")
    /\ UNCHANGED <<opened, pools, priority, healthy, latency, loop, up, lostAnswer>>

\* Mutant: the last failure is swallowed (reraise and result mixed up).
RetryQuietly(s) ==
    IF statement[s].attempt < MaxAttempts
    THEN \E p \in GetPool(statement[s].write, statement[s].client) :
            statement' = [statement EXCEPT ![s].attempt = @ + 1, ![s].pool = p]
    ELSE FinishStatement(s, "row")

\* Mutant: stop_after_attempt(4).
RetryOnceMore(s) ==
    IF statement[s].attempt <= MaxAttempts
    THEN \E p \in GetPool(statement[s].write, statement[s].client) :
            statement' = [statement EXCEPT ![s].attempt = @ + 1, ![s].pool = p]
    ELSE FinishStatement(s, "error")

\* _db_retry: the function is called again, the pool is chosen again.
Retry(s) ==
    IF statement[s].attempt < MaxAttempts
    THEN \E p \in GetPool(statement[s].write, statement[s].client) :
            statement' = [statement EXCEPT ![s].attempt = @ + 1, ![s].pool = p]
    ELSE FinishStatement(s, "error")

\* The connection is refused or lost, or the statement times out (TimeoutError
\* is an OSError).  The primary may have applied the statement before.
ConnectionLost(s) ==
    /\ statement[s].at = "run"
    /\ \/ UNCHANGED <<applied, lostAnswer>>
       \/ /\ statement[s].write
          /\ applied' = [applied EXCEPT ![s] = @ + 1]
          /\ lostAnswer' = lostAnswer \union {s}
    /\ Retry(s)
    /\ UNCHANGED <<opened, pools, priority, healthy, latency, loop, up>>

\* Any other PostgresError is raised at once.
StatementRefused(s) ==
    /\ statement[s].at = "run"
    /\ statement[s].pool \in up \union {"primary"}
    /\ FinishStatement(s, "error")
    /\ UNCHANGED <<opened, pools, priority, healthy, latency, loop, up, applied, lostAnswer>>

PoolsNext ==
    \/ CreatePool \/ ClosePool \/ HealthLoopEnds \/ HealthLoopHangs \/ HealthLoopResumes
    \/ \E p \in Replicas : HealthCheck(p) \/ ReplicaFails(p) \/ ReplicaRecovers(p)
    \/ \E s \in Statements : Fetch(s) \/ Write(s) \/ StatementAnswered(s) \/ ConnectionLost(s) \/ StatementRefused(s)

\* A round of the loop that does not hang comes to every pool.
PoolsFairness == \A p \in Replicas : WF_poolVars(HealthCheck(p))

-----------------------------------------------------------------------------
(***************************************************************************)
(* Properties.                                                             *)
(***************************************************************************)
\* What a read is sent to has a pool, and the flags are those of replicas.
PoolsTypeOK ==
    /\ opened \in BOOLEAN /\ loop \in {"off", "running", "hung", "ended"}
    /\ \A r \in Regions : pools[r] \subseteq Configured[r]
    /\ healthy \in [Replicas -> BOOLEAN] /\ latency \in [Replicas -> Nat]
    /\ up \subseteq Replicas /\ lostAnswer \subseteq Statements
    /\ \A s \in Statements :
          /\ applied[s] \in 0..MaxAttempts
          /\ statement[s].at = "run" => /\ statement[s].attempt \in 1..MaxAttempts
                                        /\ statement[s].pool \in InPool \union {"primary"}
                                        /\ statement[s].write => statement[s].pool = "primary"

\* A region none of whose pools is healthy serves no read while another
\* region has a healthy pool, whichever the client's region, the priority
\* list and the latencies measured so far are.
SickRegionAvoided ==
    opened /\ HealthyPools # {} =>
        \A client \in ClientRegions : \A p \in SelectReadPool(client) :
            \E r \in Regions : p \in pools[r] /\ HealthyIn(r) # {}

\* A write that the caller is told of was applied, and it was applied twice
\* only if an answer was lost: the retries repeat what may have been done.
WritesTold ==
    \A s \in Statements :
        /\ statement[s].at = "over" /\ statement[s].result = "row" /\ statement[s].write => applied[s] > 0
        /\ applied[s] > 1 => s \in lostAnswer

\* A replica that stays up is taken for healthy again, unless an exception
\* or the shutdown has ended the loop or a check of another replica hangs.
UpIsFound ==
    \A p \in Replicas : [](p \in InPool /\ loop = "running" => <>(healthy[p] \/ p \notin up \/ loop # "running"))

=============================================================================
