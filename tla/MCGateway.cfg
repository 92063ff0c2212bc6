SPECIFICATION Spec
CONSTANTS
    pa = pa
    pb = pb
    f1 = f1
    f2 = f2
    w1 = w1
    w2 = w2
    c1 = c1
    c2 = c2
    c3 = c3
    ProviderNames = {pa, pb}
    ProfileNames = {f1, f2}
    Types = {"full", "voice"}
    Keys = {"k1", "k2", "unset", "mask"}
    Known <- MCKnown
    Mask = "mask"
    Unusable = {"unset"}
    Requests <- MCRequests
    Bootstraps <- MCBootstraps
    Writers = {w1, w2}
    None = None
    Absent = Absent
    Torn = Torn
    Scenarios <- MCScenarios
    Conns = {c1, c2, c3}
    MaxSessions = 2
SYMMETRY MCSymmetry
CHECK_DEADLOCK FALSE
INVARIANTS
    AlwaysUsable
    AcknowledgedIsSafe
    NoLostUpdate
    SlotsExact
    ShutdownLeavesNobody
