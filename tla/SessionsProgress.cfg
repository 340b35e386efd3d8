\* Requests that ask for their session, and the tick of the site pool. Liveness, so
\* no symmetry, and a view in which entries and sessions keep their names.
CONSTANTS
    Workers = {w1, w2}
    Ids = {i1}
    Objs = {o1, o2}
    Entries = {m1, m2}
    MaxDefers = 1
    MaxSets = 2
    Expired = TRUE
    Used = {"Session", "Check"}
    NoObj = NoObj
    NoEntry = NoEntry
    NoId = NoId
VIEW View
SPECIFICATION FairSpec
PROPERTIES
    DeadLeavesTheMap
    FreeRunsCalls
