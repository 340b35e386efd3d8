\* Two goroutines, one id, every operation but Session: that one is GetSession, maybe
\* of several ids, and SetSession of a new session under a free id, which they call.
CONSTANTS
    Workers = {w1, w2}
    Ids = {i1}
    Objs = {o1, o2}
    Entries = {m1, m2, m3}
    MaxDefers = 1
    MaxSets = 2
    Expired = TRUE
    Used = {"Get", "New", "Set", "Del", "Check", "Instant"}
    NoObj = NoObj
    NoEntry = NoEntry
    NoId = NoId
SYMMETRY Symmetry
VIEW Nameless
SPECIFICATION Spec
INVARIANTS
    TypeOK
    FoundSessionIsLive
    CallsRunOnce
    NoCallBeforeTheEnd
