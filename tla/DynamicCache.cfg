\* Two requests for a page that is stat-ed, then opened. Liveness, so no symmetry.
CONSTANTS
    Requests = {r1, r2}
    Pages = {p1}
    Tmpls = {t1, t2, t3}
    Locks = {l1, l2}
    MaxVersion = 2
    UseReadFile = FALSE
    NoPage = NoPage
    NoTmpl = NoTmpl
    NoLock = NoLock
    NoEntry = NoEntry
SPECIFICATION FairSpec
INVARIANTS
    TypeOK
    NoUseAfterClose
    ClosedAtMostOnce
    RefsCountHolders
    NoLeak
    NothingCachedOnceClosed
    NotOlderThanSeen
    HitIsCurrent
PROPERTIES
    EveryRequestReturns
    CloseReleasesAll
    ImplementsSharedTemplate
