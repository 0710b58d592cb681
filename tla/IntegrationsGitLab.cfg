CONSTANTS
    NoTenant = "none"
    NoId = "none"
    Reqs = {q1, q2}
    TenantIds = {"t1", "none"}
    Keys = {"k1"}
    Provs = {"gitlab"}
    GitHubIds = {"i1"}
    Repos <- MCRepos
    Rotating = {"gitlab", "slack", "atlassian"}
    MaxOps = 3
    MaxFaults = 1
    q1 = q1
    q2 = q2
SPECIFICATION Spec
SYMMETRY Symmetry
CHECK_DEADLOCK FALSE
INVARIANT GitLabEventsArrive
