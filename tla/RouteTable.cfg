\* Two goroutines that register and remove, one request.
CONSTANTS
    w1 = w1
    w2 = w2
    pattern = pattern
    other = other
    page = page
    h1 = h1
    h2 = h2
    Writers = {w1, w2}
    RoutesOf <- MCRoutesOf
    Requests = {r1}
    Urls = {page, pattern, other}
    Exact = {page}
    Paths = {page}
    Matches <- MCMatches
    Handlers = {h1, h2}
    Arrays = {a1, a2}
    Free = Free
    NoUrl = NoUrl
    NoPath = NoPath
    NoHandler = NoHandler
    NoArray = NoArray
    NoRoute = NoRoute
SPECIFICATION Spec
INVARIANTS
    TypeOK
    
    FirstMatchServes
PROPERTIES
    ImplementsRouteOrder
