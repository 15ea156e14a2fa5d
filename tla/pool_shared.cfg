SPECIFICATION Spec
CONSTANTS
    s1 = s1
    s2 = s2
    h1 = h1
    h2 = h2
    Sids = {s1, s2}
    Tenants <- MCTenants
    Handlers = {h1, h2}
    Traffic <- MCTraffic
    MaxClients = 1
    MaxJobs = 1
    Nobody = Nobody
INVARIANTS JobsStayHome
CHECK_DEADLOCK FALSE
