SPECIFICATION FairSpec
CONSTANTS
    Tasks = {t}
    Operators = {op}
    Agents = {a1, a2}
    t = t
    op = op
    a1 = a1
    a2 = a2
    r = r
    inside = inside
    outside = outside
    o1 = o1
    o2 = o2
    Procs <- MCProcs
    Granted <- MCGranted
    Configs <- MCConfigs
    Installed <- MCInstalled
    Requests = {r}
    Addresses = {inside, outside}
    Global = {outside}
    MaxOperations = 1
    MaxRequests = 2
    Huge = Huge
    Unresolved = Unresolved
    NoCall = NoCall
    NoOne = NoOne
INVARIANTS
    SentOnce
    HonestOutcome
    WithinBudget
    RunOutlivesItsCalls
PROPERTIES
    ReplyIsMine
    ImplementsTaskLife
    RunEnds
