----------------------------- MODULE RouteTable -----------------------------
(***************************************************************************)
(* The route table (route.go): goroutines that register and remove         *)
(* handlers while requests look for theirs.                                *)
(*                                                                         *)
(* rt is a sync.Map, one call of which is one step.  list is a Go slice: a *)
(* header (array, length) that mu guards, over an array that a request     *)
(* goes on reading after it has copied the header and given mu back.       *)
(* Whether a pattern matches a path is given by Matches; a directory url   *)
(* matches directory paths only.  A request whose host has no site does    *)
(* not get here.                                                           *)
(***************************************************************************)
EXTENDS Integers, Sequences, SequencesExt

CONSTANTS
    Writers,      \* goroutines that call HandleFunc and HandleFuncDot
    RoutesOf,     \* the routes each of them registers and removes (bound)
    Requests,
    Urls,
    Exact,        \* those that are neither regexp, wildcard nor placeholder
    Paths,        \* what requests ask for
    Matches,      \* the paths each url matches
    Handlers,
    Arrays,       \* backing arrays, used again once no header refers to them
    Free, NoUrl, NoPath, NoHandler, NoArray, NoRoute

ASSUME UrlsAssumption ==
    /\ RoutesOf \in [Writers -> SUBSET [url : Urls, handle : Handlers]]
    /\ Exact \subseteq Urls
    /\ Matches \in [Urls -> SUBSET (Paths \cup Urls)]
    /\ \A u \in Exact : Matches[u] = {u}
ASSUME NullAssumption ==
    /\ Free \notin Writers
    /\ NoUrl \notin Urls
    /\ NoPath \notin Paths
    /\ NoHandler \notin Handlers
    /\ NoArray \notin Arrays
    /\ NoRoute \notin [url : Urls, handle : Handlers]

VARIABLES
    rt,           \* T.rt: the handler under a url
    list,         \* T.list: the array and the length of the slice
    mem,          \* the arrays: as long as their capacity
    mu,           \* who holds T.mu for writing
    pc, url, handle,  \* a writer: where it stands, and with which route
    hole,         \* the index removeHandle copies to next
    raced,        \* history: urls of which two calls were under way at once, until
                  \* a call for them begins alone
    at, path,     \* a request: where it stands, and what it asks for
    header,       \* its copy of T.list
    next,         \* the index it reads next
    served,       \* the url whose handler it got; NoUrl for HandlerError
    first,        \* history: the first match in the list it copied
    lost          \* history: what has been taken off the list since

tableVars == <<rt, list, mem, mu>>
writerVars == <<pc, url, handle, hole, raced>>
requestVars == <<at, path, header, next, served, first, lost>>
vars == <<tableVars, writerVars, requestVars>>

Route == [url : Urls, handle : Handlers]
Slice == [array : Arrays \cup {NoArray}, len : Nat]
Empty == [array |-> NoArray, len |-> 0]

TypeOK ==
    /\ rt \in [Urls -> Handlers \cup {NoHandler}]
    /\ list \in Slice
    /\ mem \in [Arrays -> Seq(Route \cup {NoRoute})]
    /\ mu \in Writers \cup {Free}
    /\ pc \in [Writers -> {"idle", "add", "remove", "shift"}]
    /\ url \in [Writers -> Urls \cup {NoUrl}]
    /\ handle \in [Writers -> Handlers \cup {NoHandler}]
    /\ hole \in [Writers -> Nat]
    /\ raced \subseteq Urls
    /\ at \in [Requests -> {"idle", "exact", "copy", "scan", "done"}]
    /\ path \in [Requests -> Paths \cup {NoPath}]
    /\ header \in [Requests -> Slice]
    /\ next \in [Requests -> Nat]
    /\ served \in [Requests -> Urls \cup {NoUrl}]
    /\ first \in [Requests -> Urls \cup {NoUrl}]
    /\ lost \in [Requests -> {"nothing", "another", "first"}]

Init ==
    /\ rt = [u \in Urls |-> NoHandler]
    /\ list = Empty
    /\ mem = [a \in Arrays |-> <<>>]
    /\ mu = Free
    /\ pc = [w \in Writers |-> "idle"]
    /\ url = [w \in Writers |-> NoUrl]
    /\ handle = [w \in Writers |-> NoHandler]
    /\ hole = [w \in Writers |-> 0]
    /\ raced = {}
    /\ at = [r \in Requests |-> "idle"]
    /\ path = [r \in Requests |-> NoPath]
    /\ header = [r \in Requests |-> Empty]
    /\ next = [r \in Requests |-> 0]
    /\ served = [r \in Requests |-> NoUrl]
    /\ first = [r \in Requests |-> NoUrl]
    /\ lost = [r \in Requests |-> "nothing"]

-----------------------------------------------------------------------------
\* The routes a slice stands for.
Elements(slice) ==
    IF slice.array = NoArray THEN <<>> ELSE SubSeq(mem[slice.array], 1, slice.len)

IndicesOf(u) == {i \in DOMAIN Elements(list) : Elements(list)[i].url = u}

Capacity == IF list.array = NoArray THEN 0 ELSE Len(mem[list.array])

FreshArray(a) == a # list.array /\ \A r \in Requests : header[r].array # a

\* What is left of the arrays when no header but these refers to one.
Collected(m, slices) ==
    [a \in Arrays |-> IF \E slice \in slices : slice.array = a THEN m[a] ELSE <<>>]

\* A call for a url begins, while another is under way or not.
Begin(u) ==
    raced' = IF \E w \in Writers : url[w] = u THEN raced \cup {u} ELSE raced \ {u}

\* The writer's call returns.
Return(w) ==
    /\ pc' = [pc EXCEPT ![w] = "idle"]
    /\ url' = [url EXCEPT ![w] = NoUrl]
    /\ handle' = [handle EXCEPT ![w] = NoHandler]
    /\ hole' = [hole EXCEPT ![w] = 0]
    /\ UNCHANGED raced

-----------------------------------------------------------------------------
(* HandleFunc and HandleFuncDot: addHandle.                                 *)

addHandle(w) ==
    /\ pc[w] = "idle"
    /\ \E route \in RoutesOf[w] :
         /\ rt' = [rt EXCEPT ![route.url] = route.handle]
         /\ url' = [url EXCEPT ![w] = route.url]
         /\ handle' = [handle EXCEPT ![w] = route.handle]
         /\ Begin(route.url)
    /\ pc' = [pc EXCEPT ![w] = "add"]
    /\ UNCHANGED <<list, mem, mu, hole, requestVars>>

\* Mutant: the first registration of a url stays in the list.
KeepOldRoute(w) ==
    /\ pc[w] = "add"
    /\ mu = Free
    /\ IndicesOf(url[w]) # {}
    /\ Return(w)
    /\ UNCHANGED <<tableVars, requestVars>>

\* Mutant: the url is taken off the list and appended.
MoveToEnd(w) ==
    /\ pc[w] = "add"
    /\ mu = Free
    /\ \E i \in IndicesOf(url[w]) :
         mem' = [mem EXCEPT ![list.array] =
                   SubSeq(@, 1, i - 1) \o SubSeq(@, i + 1, list.len)
                   \o <<[url |-> url[w], handle |-> handle[w]]>>
                   \o SubSeq(@, list.len + 1, Len(@))]
    /\ Return(w)
    /\ UNCHANGED <<rt, list, mu, requestVars>>

\* A url that is in the list already keeps its place.
ReplaceRoute(w) ==
    /\ pc[w] = "add"
    /\ mu = Free
    /\ IndicesOf(url[w]) # {}
    /\ \E i \in IndicesOf(url[w]) :
         mem' = [mem EXCEPT ![list.array] =
                   ReplaceAt(@, i, [url |-> url[w], handle |-> handle[w]])]
    /\ Return(w)
    /\ UNCHANGED <<rt, list, mu, requestVars>>

\* append: in place while there is capacity, else in an array twice as long.
AppendRoute(w) ==
    LET route == [url |-> url[w], handle |-> handle[w]]
        n == list.len
    IN
    /\ pc[w] = "add"
    /\ mu = Free
    /\ IndicesOf(url[w]) = {}
    /\ \/ /\ n < Capacity
          /\ mem' = [mem EXCEPT ![list.array] = ReplaceAt(@, n + 1, route)]
          /\ list' = [list EXCEPT !.len = n + 1]
       \/ /\ n = Capacity
          /\ \E a \in Arrays : FreshArray(a)
          /\ LET a == CHOOSE a \in Arrays : FreshArray(a)
                 grown == [i \in 1 .. (IF n = 0 THEN 1 ELSE 2 * n) |->
                             IF i <= n THEN Elements(list)[i]
                             ELSE IF i = n + 1 THEN route ELSE NoRoute]
             IN /\ list' = [array |-> a, len |-> n + 1]
                /\ mem' = Collected([mem EXCEPT ![a] = grown],
                                    {list'} \cup {header[r] : r \in Requests})
    /\ Return(w)
    /\ UNCHANGED <<rt, mu, requestVars>>

-----------------------------------------------------------------------------
(* HandleFunc(url, nil): removeHandle.                                      *)

removeHandle(w) ==
    /\ pc[w] = "idle"
    /\ \E route \in RoutesOf[w] :
         /\ rt' = [rt EXCEPT ![route.url] = NoHandler]
         /\ url' = [url EXCEPT ![w] = route.url]
         /\ Begin(route.url)
    /\ pc' = [pc EXCEPT ![w] = "remove"]
    /\ UNCHANGED <<list, mem, mu, handle, hole, requestVars>>

\* Mutant: the last route goes when the url is not in the list.
RemoveLast(w) ==
    /\ pc[w] = "remove"
    /\ mu = Free
    /\ IndicesOf(url[w]) = {}
    /\ list' = [list EXCEPT !.len = @ - 1]
    /\ Return(w)
    /\ UNCHANGED <<rt, mem, mu, requestVars>>

RemoveNothing(w) ==
    /\ pc[w] = "remove"
    /\ mu = Free
    /\ IndicesOf(url[w]) = {}
    /\ Return(w)
    /\ UNCHANGED <<tableVars, requestVars>>

\* From here to Shorten the lock is held.
FindHole(w) ==
    /\ pc[w] = "remove"
    /\ mu = Free
    /\ IndicesOf(url[w]) # {}
    /\ mu' = w
    /\ \E i \in IndicesOf(url[w]) : hole' = [hole EXCEPT ![w] = i]
    /\ lost' = [r \in Requests |->
                  IF at[r] # "scan" \/ lost[r] = "first" THEN lost[r]
                  ELSE IF first[r] = url[w] THEN "first" ELSE "another"]
    /\ pc' = [pc EXCEPT ![w] = "shift"]
    /\ UNCHANGED <<rt, list, mem, url, handle, raced, at, path, header, next, served, first>>

\* Mutant: the last route fills the hole.
SwapWithLast(w) ==
    /\ pc[w] = "shift"
    /\ hole[w] < list.len
    /\ mem' = [mem EXCEPT ![list.array] = ReplaceAt(@, hole[w], @[list.len])]
    /\ hole' = [hole EXCEPT ![w] = list.len]
    /\ UNCHANGED <<rt, list, mu, pc, url, handle, raced, requestVars>>

\* append(list[:i], list[i+1:]...) moves the routes behind the hole one by one,
\* in the array that requests may be reading.
Shift(w) ==
    LET i == hole[w] IN
    /\ pc[w] = "shift"
    /\ i < list.len
    /\ mem' = [mem EXCEPT ![list.array] = ReplaceAt(@, i, @[i + 1])]
    /\ hole' = [hole EXCEPT ![w] = i + 1]
    /\ UNCHANGED <<rt, list, mu, pc, url, handle, raced, requestVars>>

\* The last route stays behind the new end of the list.
Shorten(w) ==
    /\ pc[w] = "shift"
    /\ hole[w] = list.len
    /\ list' = [list EXCEPT !.len = @ - 1]
    /\ mu' = Free
    /\ Return(w)
    /\ UNCHANGED <<rt, mem, requestVars>>

-----------------------------------------------------------------------------
(* ServeHTTP.                                                               *)

ServeHTTP(r) ==
    /\ at[r] = "idle"
    /\ \E p \in Paths : path' = [path EXCEPT ![r] = p]
    /\ at' = [at EXCEPT ![r] = "exact"]
    /\ UNCHANGED <<tableVars, writerVars, header, next, served, first, lost>>

\* The handler of url u runs, or HandlerError (404) when there is none.
Answer(r, u) ==
    /\ at' = [at EXCEPT ![r] = "done"]
    /\ served' = [served EXCEPT ![r] = u]
    /\ path' = [path EXCEPT ![r] = NoPath]
    /\ header' = [header EXCEPT ![r] = Empty]
    /\ next' = [next EXCEPT ![r] = 0]
    /\ mem' = Collected(mem, {list} \cup {header[q] : q \in Requests \ {r}})

LoadExact(r) ==
    /\ at[r] = "exact"
    /\ IF path[r] \in Exact /\ rt[path[r]] # NoHandler
       THEN Answer(r, path[r]) /\ first' = [first EXCEPT ![r] = path[r]]
       ELSE /\ at' = [at EXCEPT ![r] = "copy"]
            /\ UNCHANGED <<mem, path, header, next, served, first>>
    /\ UNCHANGED <<rt, list, mu, writerVars, lost>>

\* The indices of the list whose routes match a path.
Candidates(p) == {i \in DOMAIN Elements(list) : p \in Matches[Elements(list)[i].url]}

\* Under the read lock.
CopyList(r) ==
    /\ at[r] = "copy"
    /\ mu = Free
    /\ header' = [header EXCEPT ![r] = list]
    /\ next' = [next EXCEPT ![r] = 1]
    /\ first' = IF Candidates(path[r]) = {} THEN first
                ELSE [first EXCEPT ![r] =
                        LET i == CHOOSE i \in Candidates(path[r]) :
                                   \A j \in Candidates(path[r]) : i <= j
                        IN  Elements(list)[i].url]
    /\ at' = [at EXCEPT ![r] = "scan"]
    /\ UNCHANGED <<tableVars, writerVars, path, served, lost>>

\* One route of the copied slice, as the array has it by now.
Scan(r) ==
    LET route == mem[header[r].array][next[r]] IN
    /\ at[r] = "scan"
    /\ next[r] <= header[r].len
    /\ IF path[r] \in Matches[route.url]
       THEN Answer(r, route.url)
       ELSE next' = [next EXCEPT ![r] = @ + 1] /\ UNCHANGED <<mem, at, path, header, served>>
    /\ UNCHANGED <<rt, list, mu, writerVars, first, lost>>

NotFound(r) ==
    /\ at[r] = "scan"
    /\ next[r] > header[r].len
    /\ Answer(r, NoUrl)
    /\ UNCHANGED <<rt, list, mu, writerVars, first, lost>>

\* The handler returns.
Done(r) ==
    /\ at[r] = "done"
    /\ at' = [at EXCEPT ![r] = "idle"]
    /\ served' = [served EXCEPT ![r] = NoUrl]
    /\ first' = [first EXCEPT ![r] = NoUrl]
    /\ lost' = [lost EXCEPT ![r] = "nothing"]
    /\ UNCHANGED <<tableVars, writerVars, path, header, next>>

-----------------------------------------------------------------------------
Next ==
    \/ \E w \in Writers :
         \/ addHandle(w) \/ ReplaceRoute(w) \/ AppendRoute(w)
         \/ removeHandle(w) \/ RemoveNothing(w) \/ FindHole(w) \/ Shift(w) \/ Shorten(w)
    \/ \E r \in Requests :
         \/ ServeHTTP(r) \/ LoadExact(r) \/ CopyList(r) \/ Scan(r) \/ NotFound(r) \/ Done(r)

Spec == Init /\ [][Next]_vars

-----------------------------------------------------------------------------
(* What the table promises. *)

\* Outside a call for it, a url has the same handler in the exact map and in the
\* list, or is in neither, whatever the other goroutines register and remove.
\* HandleFunc stores in the map before it takes the lock (route.go:116), so two
\* calls for one url at once can leave it different handlers in the two; the next
\* call for it that begins alone makes them agree again.
TablesAgree ==
    \A u \in Urls \ raced :
        (\A w \in Writers : url[w] # u) =>
            IF mu # Free THEN (rt[u] = NoHandler) = (IndicesOf(u) = {})
            ELSE IF rt[u] = NoHandler THEN IndicesOf(u) = {}
            ELSE \E i \in IndicesOf(u) : Elements(list)[i].handle = rt[u] /\ IndicesOf(u) = {i}

\* While no route is being removed, a request gets the route that was the first
\* match in the list it copied, although routes are replaced and appended in the
\* array it reads.
FirstMatchServes ==
    \A r \in Requests : at[r] = "done" /\ lost[r] = "nothing" => served[r] = first[r]

\* "In the order of registration, to be deterministic": a request whose first
\* match stays registered gets it, whatever other routes are removed meanwhile.
OrderIsDeterministic ==
    \A r \in Requests :
        at[r] = "done" /\ first[r] # NoUrl /\ lost[r] # "first" => served[r] = first[r]

\* The list as RouteOrder sees it: the route being removed is gone as soon as the
\* hole is found.
routes ==
    IF mu = Free THEN Elements(list)
    ELSE RemoveAt(Elements(list), hole[mu])

Order == INSTANCE RouteOrder

\* Registration and removal keep the order of the other routes, and one route
\* per url, although a removal takes several steps.
ImplementsRouteOrder == Order!Spec
=============================================================================
