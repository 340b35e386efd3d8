\* A call deferred on a session put under an id that is about to be deleted.
CONSTANTS
    Workers = {w1, w2}
    Ids = {i1}
    Objs = {o1, o2}
    Entries = {m1, m2, m3}
    MaxDefers = 1
    MaxSets = 2
    Expired = TRUE
    Used = {"Get", "New", "Session", "Del", "Check", "Instant"}
    NoObj = NoObj
    NoEntry = NoEntry
    NoId = NoId
SPECIFICATION Spec
INVARIANT DeferredCallsRun
