\* Two updates or closes around one request at a time of its own pace.
CONSTANTS
    Requests = {r1}
    SiteObjs = {s1, s2, s3}
    Exts = {e1, e2, e3}
    Handlers = {x1, x2}
    h1 = h1
    wild = wild
    A = A
    B = B
    d1 = d1
    d2 = d2
    Hosts = {h1, wild}
    Idents = {A, B}
    Candidates <- MCCandidates
    Configs <- MCConfigs
    MaxUpdates = 2
    NoSite = NoSite
    NoExt = NoExt
    NoConf = NoConf
    NoHandler = NoHandler
    NoIdent = NoIdent
SYMMETRY Symmetry
SPECIFICATION Spec
INVARIANTS
    TypeOK
    FoundSiteIsPooled
    AppliedAtRest
    RemovedSiteIsEmpty
    CachedHandlerIsOpen
