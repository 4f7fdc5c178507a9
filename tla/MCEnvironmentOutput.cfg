CONSTANTS
    k1 = k1
    k2 = k2
    k3 = k3
    p1 = p1
    p2 = p2
    p3 = p3
    Exec = {x1}
    Key = {k1, k2, k3}
    Path = {p1, p2, p3}
    Dep = {"pandas"}
    PathOf <- MCPathOf
    IdOf <- MCPathOf
    RuntimeOf <- MCRuntimeOf
    DepOf <- MCDepOf
    None = None
    Limits <- MCLimits
    MaxJobs = 2
SPECIFICATION Spec
INVARIANT ReportsOwnOutput
CHECK_DEADLOCK FALSE
