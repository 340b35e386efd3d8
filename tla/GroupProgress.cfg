\* Start, updates and Close, four calls in all; one setting stops gracefully, one at
\* once, and one has a bad certificate.
CONSTANTS
    Callers = {c1, c2}
    Starters = {c1}
    Updaters = {c2}
    Closers = {c2}
    Addrs = {a1}
    Settings = {x1, x2, x3}
    Graceful = {x1}
    BadTLS = {x3}
    Canonical = {a1}
    Servers = {s1, s2}
    Chans = {h1, h2}
    Faulty = FALSE
    MaxCalls = 4
    Free = Free
    NoConf = NoConf
    NoSrv = NoSrv
    NoAddr = NoAddr
    NoChan = NoChan
    Off = Off
\* Every caller may be waiting in Start, with nobody left to call Close.
CHECK_DEADLOCK FALSE
SPECIFICATION FairSpec
PROPERTIES
    LockIsReleased
    StoppedServerEnds
