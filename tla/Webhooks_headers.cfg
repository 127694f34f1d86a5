SPECIFICATION Spec
CONSTANTS
    RegionOrder <- MCRegionOrder
    Configured <- MCConfigured
    Priorities <- MCPriorities
    ClientRegions = {r9, r1}
    MaxDown = 1
    Latencies = {1, 2}
    Statements = {st1}
    Number <- MCNumber
    FirstFiles = {2, 3}
    Processes = {m1, m2}
    Orders <- MCOrders
    MaxEdits = 1
    MaxRuns = 2
    Endpoints = {ep1, ep2}
    Seeded = {}
    WebhookEvents = {v1}
    Urls = {"public"}
    Production = TRUE
    Jobs = {j1}
    Admins = {ad1}
    Inbounds = {in1}
    Sockets = {w1, w2, w3}
    UserOf <- MCUserOf
    MaxFailures = 1
    PushUsers = {u1, u2}
    Tokens = {t1, t2}
    Notices = {n1}
    Streams = {s1}
    StreamUser <- MCStreamUser
    MulticastMax = 1
    r1 = r1
    r2 = r2
    r9 = r9
    p1 = p1
    p2 = p2
    p3 = p3
    w1 = w1
    w2 = w2
    w3 = w3
    u1 = u1
    u2 = u2
    s1 = s1
CHECK_DEADLOCK FALSE
INVARIANT AttemptsLogged
