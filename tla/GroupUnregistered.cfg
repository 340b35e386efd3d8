\* Three updates in a row; nothing fails but the port being taken.
CONSTANTS
    Callers = {c1, c2}
    Starters = {c1}
    Updaters = {c2}
    Closers = {c2}
    Addrs = {a1}
    Settings = {x1, x2}
    Graceful = {x2}
    BadTLS = {}
    Canonical = {a1}
    Servers = {s1, s2}
    Chans = {h1, h2}
    Faulty = FALSE
    MaxCalls = Off
    Free = Free
    NoConf = NoConf
    NoSrv = NoSrv
    NoAddr = NoAddr
    NoChan = NoChan
    Off = Off
\* Every caller may be waiting in Start, with nobody left to call Close.
CHECK_DEADLOCK FALSE
SYMMETRY Symmetry
SPECIFICATION Spec
INVARIANT ServingIsRegistered
