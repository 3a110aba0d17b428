INIT Init
NEXT Next
CONSTANTS
    s1 = s1 s2 = s2 a1 = a1 a2 = a2 d1 = d1 e1 = e1 p1 = p1 p2 = p2 t1 = t1 t2 = t2
    m1 = m1 m2 = m2 x = x k1 = k1 k2 = k2
    None = None
    Sites <- MCSites
    SiteTokens <- MCSiteTokens
    Departments <- MCDepartments
    Employees <- MCEmployees
    Providers <- MCProviders
    AgentTokens <- MCAgentTokens
    Models <- MCModels
    Policies <- MCPolicies
    Boxes <- MCBoxes
    ModelOf <- MCModelOf
    File <- MCFile
    Databases <- MCDatabases
    Processes = {c1}
    MaxChanges = 4
    MaxDeaths = 1
INVARIANT DefaultGoesTogether
CHECK_DEADLOCK FALSE
