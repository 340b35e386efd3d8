# Verification of vweb in TLA+

vweb (`github.com/456vv/vweb/v3`) is a web server in Go: a group of HTTP
servers driven by a configuration that may be reloaded while it runs, sites with
sessions, static files, and dynamic pages that are parsed once and cached.
This directory holds TLA+ models of its concurrent core and of its pure functions,
the TLC configurations that check them, and proofs about each of them.

## The system

| Component | Source | State | Operations | Used by |
|---|---|---|---|---|
| Dynamic page cache | `serverHandlerDynamic.go` | `pageCache`, `pathLocks`, `closed`, a reference count per template | `ServeHTTP`, `cleanupCacheEntry`, `Close` | `Group.serveHTTP` |
| Sessions | `Sessions.go`, `Session.go` | `ss`: id to session; per session `recent`, `unavailable`, `freed` | `GetSession`, `NewSession`, `Session`, `SetSession`, `DelSession`, `CheckDeadAll`, `InstantDeadAll`, `Defer` | requests, the tick of the site pool, `SitePool.Close` |
| Deferred calls | `defer.go` | the list of calls | `Defer`, `Free` | `Session`, `Dot` |
| Server group | `server/Server.go`, `server/listener.go` | `run`, `config`, `exit`, `srvMan`, `sitePool`, `siteMan`; per server `status`, its listener | `Start`, `UpdateConfig`, `LoadConfigFile`, `Close`, one goroutine `serve` per server | the command |
| Site pool, site manager | `Site.go` | sites by name, sites by host, the ticker | `NewSite`, `DelSite`, the tick, `Close`, `Add`, `Get` | the group, `Route` |
| Route table | `route.go` | an exact map and an ordered list | `HandleFunc`, `ServeHTTP` | every request |
| Static handler | `serverHandlerStatic.go` | none | `ServeHTTP`: ranges, conditional requests | `Group.serveHTTP` |
| Rewriting | `rewrite.go` | compiled patterns | `Compile`, `Rewrite` | `Group.serveHTTP` |
| Configuration | `server/config/Config.go` | the settings | `ParseFiles`, the merge of public and private settings | the group |
| Request context | `dot.go`, `Response.go`, `Cookie.go`, `Global.go` | per request | handler chain, `Defer`, `SaveStatic` | handlers, templates |
| Plugins | `PluginHTTP.go`, `PluginRPC.go`, `plugin/` | pooled connections | `Connection`, `Call`, `Serve`, `Close` | templates |
| Template helpers | `builtin/` | none | functions of values | templates |
| Command | `cmd/main` | flags | starts a group, watches the configuration | |

How they interact. `cmd/main` makes a `Group` and calls `UpdateConfig` and
`Start`; a file watcher calls `UpdateConfig` again. `UpdateConfig` makes the
sites and starts or stops servers, each of which runs in a goroutine of its own.
A request goes through `Route` to `Group.serveHTTP`, which finds its site and
hands it to the static handler or to a dynamic handler that every request of the
page shares. A page may ask for the session of its client, which the pool's tick
checks for expiry once a second from yet another goroutine.

What is hard, and what would make it correct:

* **Dynamic page cache.** Requests share a template that another request may
  replace, a failing stat may drop, and `Close` may withdraw. A template must
  not be closed while it is executed, must be closed once, and must not be
  forgotten; an answer must not be older than the file its request saw; a
  request must not wait for a lock for ever.
* **Sessions.** The operations read an entry of a concurrent map and act on it
  later, without a lock, on fields that are plain variables. A session that can
  be found must be live; its deferred calls must run, once, after its end.
* **Server group.** `Start` changes the state outside `configMu`, and the
  goroutine of a server that is being replaced is still on its way out while its
  successor comes up at the same address. A closed group must have no server,
  a stopped server must not serve and must end, what serves must be registered,
  `Start` must return after `Close`, and the lock must be given back.
* **Site pool, route table.** A registry that requests read while it changes: two
  maps, or a map and a list, changed in two steps.
* **Static handler, rewriting, configuration.** Case tables and merges whose
  corner cases are easy to get wrong: overlapping ranges, precedence of
  conditions, wildcard domains, zero values.

`PROJECT.json` lists the hazards line by line.

## The modules

| Module | Models |
|---|---|
| `DynamicCache` | the page cache: one process per request, files that change, `Close` at any moment |
| `SharedTemplate` | what the cache promises of one template: private, open, retired, closed |
| `DynamicCache_proofs` | theorems about `DynamicCache` |
| `SharedTemplate_proofs` | that `DynamicCache` implements `SharedTemplate` |
| `Sessions` | the session map, sessions, and their deferred calls |
| `Sessions_proofs`, `Group_proofs`, `Sites_proofs` | theorems about the modules of these names |
| `Group` | callers of `Start`, `UpdateConfig`, `Close`, and the goroutine of each server |
| `RouteTable` | the exact map, the list and the array under it, while routes are registered and removed |
| `RouteOrder` | what the table promises: one route per url, in the order of registration |
| `RouteTable_proofs` | theorems about `RouteTable`; that it implements `RouteOrder` |
| `Sites` | the sites of a group: pool, manager, extensions, the updates that change them and the requests and the tick that use them |
| `StaticFile` | the answer to a request for a static file, as a function |
| `Matching` | wildcard domains, placeholders of routes, forward rules, as functions |
| `ConfigMerge` | templates and sites merged, sub-configurations, plugin clients, as functions |
| `Numbers` | arithmetic and keys of fixed width, as functions |
| `Algorithms` | what the functions of `StaticFile`, `Matching` and `ConfigMerge` promise, input by input |
| `Arithmetic` | what those of `Numbers` promise |
| `Algorithms_proofs`, `Arithmetic_proofs` | theorems about `Algorithms` and `Arithmetic` |
| `MC...` | the small instances of each: values, inputs, symmetry |

How they are put together. `Group` treats the sites of a configuration as one step
(`UpdateSites`), which `Sites` takes apart: its updater is the part of `Group` that
holds `configMu`. `Sites` knows that a site has sessions or has none, and its
`InstantDeadAll` and `Tick` are operations of `Sessions`. Its dynamic handler is one
`DynamicCache`, made, cached and closed there. Which candidates a host has
(`Candidates`) and which route matches (`Matches` in `RouteTable`) are constants
there and functions in `Matching`.

In all of them one step is one critical section, one atomic operation, one call
of `vmap.Map` or `sync.Map` (external: a linearizable map whose `Range` visits
each key once, in any order, and reads each entry as it comes to it), or one
access to a plain variable that goroutines share. Data races in the Go sense
(`recent`, `unavailable`, `Group.exit`, `sitePool`, `siteMan`) are modelled as
interleavings of such accesses, each of which reads the last value written.
Objects (`Tmpls`, `Locks`, `Objs`, `Servers`, `Chans`) are drawn from finite sets
and used again once nothing refers to them, as the garbage collector does.

### DynamicCache

`pc[r]` is where request `r` stands: `stat`, `lookup` (the read-locked lookup),
`open`, `getLock` (the first section of `parseAndCache`), `wait` (for the path
lock), `recheck`, `parse`, `store`, then `execute` and the deferred release. A
template is a record of the fields of `refCountedTemplater`, a count of real
closes, and the version of the file it was made of; `wrap`, `acquire`, `release`
and `Close` are the methods. A file's modification time is the number of its
version. `UseReadFile` chooses between a `ReadFile` that gives time and content
together and the file system, where stat and open are two steps. `Close` takes
the maps in one step and closes what it took one entry at a time.

`ImplementsSharedTemplate` is refinement: a template of the cache is `private`
while one request has it, `open` while an entry has it, `retired` when the cache
gave it up with users left, `closed` otherwise, and every step of the cache is a
step of `SharedTemplate` or leaves it alone. `SharedTemplate` says in seven actions
what the reference counts are for: a template is closed by the last one to leave.

### Sessions

A `manageSession` is an entry (`Entries`: `session`, `unavailable`, `old`), a `Session`
an object of its own (`Objs`: `token`, `freed`, its calls), since a session that is
set again gets another entry. `GetSession` is `GetHas`, `CheckAvailable`,
`triggerDeadSession` (which reads two fields), and `DropId` or `TouchSession`.
`SetSession` reads the old entry (`SetSession`, `CheckOld`), compares the tokens
(`ReadToken`, `CompareToken`: of two that are equal the new session is returned and not
stored), else retires the old entry (`RetireOld`), stamps the id (`StampToken`) and
stores a new entry (`PutSession`). It is called by `NewSession` and `writeToClient`
with a new session, and by a user of the package with one it has made (`CallNew`) or
was given by an earlier call, set already or not (`CallSet`). `stored` counts for the
properties how often a session was put on the map. `Session` is `GetSession`, then
the cookies the response bears already (`ReadSetCookie`), then a new session under a
free id. `CheckDeadAll` and `InstantDeadAll` visit the ids one at a time (`VisitId`,
`MarkDead`) and then delete (`WipeIds`). `go s.Free()` is counted in `spawned`, and
its two halves are `Free` (the flag) and `ExitCallFree` (take the calls and run them,
last first). `Elapse` is time: a session gets old once it has not been used for
`Expired`.

### Group

A caller runs `Start`, `UpdateConfig` or `Close`, one step per shared access; a server
runs `Listen`, `Serve`, `Track`, `AcceptFails` and the cleanup. `port` says
which socket listens on an address, so a new server whose predecessor still holds
the port fails to listen. `http.Server` is external: it takes a listener unless
`Close` or `Shutdown` came first, `Close` and `Shutdown` close the listener it has
taken, and `Shutdown` waits for the connections in use. A configuration is a
function from addresses to settings; settings differ in whether they ask for a
graceful stop and whether their certificate loads. `Canonical` are the addresses
that `Serve` writes back unchanged: it replaces `Addr` by the listener's own
address, so a server configured as `:80` later looks for `[::]:80`.

### RouteTable

`rt` is a `sync.Map` and one call of it is one step. `list` is a Go slice: a header
(`Slice`: array and length) under `mu`, and in `mem` the arrays, each as long as its
capacity. `append` writes in place or into an array twice as long; `removeHandle`
finds the hole (`FindHole`), moves the routes behind it one by one (`Shift`) and
shortens the header (`Shorten`), with `mu` held. A request looks into `rt`
(`LoadExact`), copies the header under the read lock (`CopyList`) and then reads the
array route by route without it (`Scan`), so it sees what the writers do to the
array meanwhile. `first` and `lost` record for the properties what the request would
have found at the moment of the copy, and what has been removed since; `raced` the
urls of which two calls were under way at once, until a call for them runs alone. Which paths
a url matches is the constant `Matches`; a panic on an invalid pattern comes before
any change and is left out.

`ImplementsRouteOrder` is refinement: the list, without the route being removed once
its hole is found, is the sequence of `RouteOrder`, in which each registration and
removal is one step.

### Sites

The updater works through a configuration site by site (`upc`): `AddSite` and
`AddHost`, `SetRootDir`, `setConfig`, then the plugins (`InfoSite`, `SetPlugins`),
and at the end the hosts and the sites that are gone (`DelHost`, `DelSite`,
`DelExt`, `InstantDeadAll`, `ResetData`). `GetExt` and `SetExt` are the two halves of
`getSiteExtend`, which the updater calls in three places and every request in one.
A request reads the manager candidate by candidate (`GetSite`), then the extension,
its configuration, the root directory, and looks for a cached handler (`Lookup`). On
a miss it deletes what is cached for the page by then (`Drop`), makes a handler, and is
served. It keeps what it has read while the updater goes
on. `late`, `outdone` and `lost` record for the properties which sites a request
still held when they were removed, and which extensions one request's `SetExt` has
put in the place of another.

`FreshRequestUsesItsRoot` is stated in the module and not checked, since it does not
hold: a cached handler keeps the root directory it was made with, so after a
reload that moves a site its pages come from the old directory until the entry
expires. No comment promises otherwise.

### StaticFile, Matching, ConfigMerge, Numbers

These are operators without state. A behaviour of `Algorithms` takes one input
and drops it again, so that each input is a state and each promise an invariant.
A loop of the code is a recursive function of the number of rounds (`merged` in
`ranges`, `after` in `forwardList`, `scanned` and `taken`, `loadSites` and
`ParseFiles`), which the proofs can follow round by round. Powers of two (`pow2`) and
the operators on the bits of words (`bitwise`, with a table for each operator) are
recursive functions of the number of bits.
The promises are stated without the algorithm: the bytes a list of ranges asks for
as a set, the values of placeholders as those that give the text when they are
put back, the domain that covers a host with the fewest stars, the remainder as
the number with the sign of the dividend that differs from it by a multiple. Texts
are sequences of characters only where something is searched in them.

A struct is a function from fields to values and a map an address in a heap, so
that the sharing of maps between a template and the sites that use it is seen. Where
the code copies a template by `clone` the template must stay as it was; where it
does not (`ConfigSite`, `ConfigConn`) the model has the sharing, and `FlatMerge` claims
only what the site itself gets.

## What TLC checks

| Run | Instance | Shows |
|---|---|---|
| `dynamic_cache` | 2 requests, 1 page, 2 versions, stat then open, `Close` | `NoUseAfterClose`, `ClosedAtMostOnce`, `RefsCountHolders`, `NoLeak`, `NothingCachedOnceClosed`, `NotOlderThanSeen`, `HitIsCurrent`; under fairness `EveryRequestReturns` and `CloseReleasesAll`; refinement of `SharedTemplate` |
| `sessions_safety` | 2 goroutines, every operation but `Session`, sessions set up to twice, 1 id | `FoundSessionIsLive`, `CallsRunOnce`, `NoCallBeforeTheEnd` |
| `sessions_progress` | 2 goroutines with `Session` and `CheckDeadAll`, 1 id | `DeadLeavesTheMap`, `FreeRunsCalls` |
| `sessions_lost` | every operation, `SetSession` from within only | a violation: `DeferredCallsRun` |
| `group_safety` | a caller of `Start`, a caller of `UpdateConfig` and `Close`, servers that may fail | `StoppedHasNoServers`, `ShutDownNeverServes`, `RegisteredIsConfigured`, `RegisteredIsAlive` |
| `group_progress` | `Start`, updates and `Close`, 4 calls; a graceful setting, a plain one, one with a bad certificate | `LockIsReleased`, `StoppedServerEnds` |
| `group_exit` | `Start` against `Close` | a violation: `StartReturns` |
| `group_unregistered` | `Start`, updates and `Close` | a violation: `ServingIsRegistered` |
| `route_table` | 2 goroutines that register and remove 3 urls, one of them in common with a handler of each; 1 request | `TablesAgree`, `FirstMatchServes`; refinement of `RouteOrder` |
| `route_skip` | the same | a violation: `OrderIsDeterministic` |
| `sites` | 2 updates or closes out of 4 configurations of 2 sites, one of which lists an identity twice; 2 domains, one of them a wildcard; 1 request | `FoundSiteIsPooled`, `AppliedAtRest`, `RemovedSiteIsEmpty`, `CachedHandlerIsOpen` |
| `algorithms` | 66,000 inputs around the ends of every range | `AnswerFitsTheRequest`, `MostSpecificDomainWins`, `ExtractInverts`, `ForwardStops`, `LastFileThenTemplate`, `TransportIsAsConfigured`, `NumbersFit` |

What the violations say of the code:

* **`DeferredCallsRun`.** `CheckDeadAll` and `InstantDeadAll` delete by id after
  `Range`. A session that was put under one of those ids in between is
  deleted without `Free`, so what was deferred on it never runs.
* **`StartReturns`.** `Close` sends on `exit` without waiting. If `Start` has
  set `run` but has not reached its receive, nobody receives, and `Start` waits for a
  notification that no later `Close` sends either, since `run` is false by then.
* **`ServingIsRegistered`.** The cleanup of `serve` compares the registration with
  its own server and deletes by address in a second call. With a reload in between it
  deletes the registration of the successor, which then serves where neither
  `listenStop` nor `Close` finds it.
* **`OrderIsDeterministic`.** `removeHandle` shifts the routes inside the array that
  requests read without the lock. A request whose next route has just moved one
  place down skips it: its first match is still registered, and it gets a later one or
  404. `FirstMatchServes` holds: registering and replacing never disturb a
  request, since an append in place lies beyond the length it copied.

Met while modelling, and not worth a run or not within reach of one:

* `OneParserPerPage` (in `DynamicCache`): the comments on `pathLocks` and
  `parseAndCache` say that parsing of one page is serial. `cleanupCacheEntry`
  deletes the lock of a page while a parser may hold it; the next miss makes another
  lock and parses at the same time. It takes three requests; the counts stay right
  for any number of them, as proved, so the cost is parsing twice.
* `ConfigSiteSession`, `ConfigSiteHeader` and `ConfigSiteDynamic` are called with no
  filter, where the plugins use `configExclude`: a private field that is zero
  overwrites the public one, though the comment on each (`Config.go:342`, `:358`,
  `:406-407`) says that only fields that are not zero do, and the entries of a private
  header map are written into the map of the public template, where the next site
  finds them. `FlatMerge` takes neither side: it claims the fields that are not zero,
  and the maps of the site.
* The public forward rules are appended to a site's list at every application of a
  configuration, so `Start` after an `UpdateConfig`, which applies the same one, makes
  them act twice. `Config.go:371-373` speaks of appending and says nothing of a second
  time.
* `CipherSuitesAuto` also fills in the suites of TLS 1.3 alone, if the version is
  allowed; its comment (`Config.go:497-498`, and the one on the field, 488) says that it
  fills in those of TLS 1.0 to 1.2. `crypto/tls` ignores the others. `SuitesAreAllowed`
  claims nothing of them.
* In `serveHTTP` the `ok` of `Server.go:596` is that of line 452, which is true there, so
  every request that misses deletes what is cached for its page, though the comment in
  the branch (`:597`) speaks of a handler that is cached while caching is off. What it
  deletes may be the handler that another request has just stored; nobody closes
  that one, and the next request of the page makes a third.
* `SetSession` of a session that was set before puts it on the map again as it is. If it
  was freed meanwhile, `GetSession` finds a session that refuses every `Defer`; if its
  `Free` has yet to begin, its calls run while it can be got; and under two ids it is
  freed when the first expires. Its comment (`Sessions.go:158-161`) asks for a new session,
  so `FoundSessionIsLive` and `NoCallBeforeTheEnd` except one that was put on the map
  twice (`stored[o] < 2`); `CallsRunOnce` holds for it too.
* A plugin client that is configured again keeps a local address, a proxy and the
  timeouts of its transport when the new configuration no longer names them
  (`ClientHasItsConfiguration` says which settings those are).
* The conversion of a float to an index or key lets through 2^63 (and 2^64 for
  unsigned keys), because the bound is rounded up when it becomes a float. The
  conversion of that one value is the processor's.
* `derogatoryDomain` of `func.go` also replaces the numbers of an IP address by stars
  and cuts an IPv6 address at its first colon; the one of `server/func.go` does
  neither. A host like that may find a site and not the forward rules of it.
* In `builtin`, `SetSlice` refuses an array although its comment allows one, and
  `GetSlice` of an array by value panics where its comment says it copies.

### Bounds

* Page cache: 2 requests, one that parses or hits and one that stores over it, fails
  its stat and cleans up, or waits. A third one adds only more waiters and parsers of
  the same kind, and the safety properties are proved for any number. `Tmpls` is
  one more than can be referred to by requests and the cache, so a fresh one always
  exists. One page: pages share only the handler's maps, which every step touches at
  one page. `ReadFile` (`UseReadFile`) is left to the proofs, which cover both.
* `MaxVersion` 2: the file a request saw and the one that replaced it. The
  proofs hold for any number.
* Sessions: 2 goroutines and 1 id. Every property relates one id to the
  operations that race on it, and each of the races takes two of them; two sessions are
  the one being removed and the one replacing it, and a third cannot be
  made before one is unreachable. 3 entries (2 in `sessions_progress`) are the one on the
  map and one that each goroutine still holds. `MaxDefers` bounds the calls of a
  session and `MaxSets` how often the user sets one: the second time is the first at which
  it has two entries. The theorems are about any number of each. `sessions_safety` leaves
  out `Session`, which does what `GetSession` and `SetSession` of a new session do, one
  after the other; `sessions_progress` has it.
* Two views keep these runs small. `View` leaves out what an entry or a session holds
  that nothing refers to: it is overwritten before it is used again. `Nameless`, for the
  invariants, also leaves out the names of entries and sessions and describes each by
  who refers to it and what it holds. Two states with the same view have the same steps,
  up to those names, and no property can tell them apart.
* Group: 1 address, since addresses share only `configMu` and the group's own
  variables; 2 settings, so that a reload can change one; 2 servers, the old and the
  new. With 2 callers one is `Start`, and the other makes every sequence of
  `UpdateConfig` and `Close`. `group_progress` has 3 settings, so that a stop at once, a
  graceful one and a failing certificate meet, and `MaxCalls` = 4 calls in all: `Start`
  and three of the other caller, such as update, update, `Close`; the safety runs have no
  such bound.
* Route table: 3 urls, so that a removal moves two routes and capacity doubles
  twice; 2 arrays, one for the list and one that it grows into or that the request still
  reads. One goroutine registers all three urls and the other one of them, so calls of
  one url overlap: they may leave map and list different, and nothing in the code says
  otherwise, so `TablesAgree` excepts that url (`raced`) until a call for it runs alone.
  Requests do not change the table, so one shows what any of them meets.
* Sites: 2 updates, one that brings a site in and one that moves it, switches it off
  or takes it away, with a configuration that fails midway among them, one that
  names a site twice, and domains that change their site. `Config.go` calls an
  identity unique and lets the last of two win, which `AppliedAtRest` states
  (`LastToName`, `LastOf`). 1 request: requests meet only in the extension and its
  cache, and there a second one does what the updater and the timer do to the
  first (another extension in its place, a handler gone or new); that one request
  deletes what another has just cached is left to `CachedIsOpen`, which is proved for any
  number of them. 3 sites and
  extensions: the one that is held, the one that replaces it and one more.
* Algorithms: ranges of up to 2 elements on files of 0 to 4 bytes, with every kind of
  overlap, gap and overrun; hosts of up to 3 labels and tables of up to 3 domains;
  every segment of up to 5 characters over two letters and braces, and texts of up
  to 4; lists of 1 and 1 forward rules, which by `ForwardStops` compose; 2 files
  and a template for one site; numbers of 3 and 4 bits, where every sum, product
  and shift of a width is met.
* `CHECK_DEADLOCK FALSE` in the group's runs only: every caller may be waiting in
  `Start`, with nobody left to call `Close`.
* Symmetry is used in safety runs only.

### Fairness

Weak fairness of every process's steps stands for the Go scheduler: a goroutine
that can run runs. Nothing obliges a request, a call or a write of a file to
happen, nor a listener to fail. Waiting for the path lock is strongly fair: Go's
`sync.Mutex` hands the lock to a waiter that has starved for a millisecond. A
connection in use need not end: nothing in the code sets `Shutdown` a limit, and it is
called with a background context and with `configMu` held. `LockIsReleased` therefore
says that the lock is given back or its holder comes to wait for a client in a graceful
`Shutdown` (`WaitsForClient`), and `StoppedServerEnds` is about the goroutine of the
server, which does not wait for connections. A panicked process takes no step; the progress properties of
the group except it by name.

## What is proved

`DynamicCache_proofs` proves, for any number of requests, pages, templates, locks
and versions, with and without `ReadFile`:

| Theorem | Says |
|---|---|
| `OwnerInvariant` | the inductive invariant `OwnerInv` |
| `TypeCorrect`, `UseSafe`, `CloseOnce`, `CountsExact`, `NothingLeaks`, `ClosedStaysEmpty` | the properties of these names in `dynamic_cache`, each `Spec => []P` |
| `FileInvariant` | the inductive invariant `OwnerInv /\ FileInv` |
| `AnswerNotOld`, `HitCurrent` | `NotOlderThanSeen` and `HitIsCurrent` |
| `ParsingIsSerial` | requests parse one page together only if a path lock in use was dropped from `pathLocks` |
| `NothingSurvivesClose` | after `Close` and the last request, every template made has been closed |

Why stronger invariants. `NoUseAfterClose` is not inductive: that a template in use
is not closed follows from its count, and that the count is right follows from
who holds the template. `OwnerInv` says for each template in which of four
situations it is: known to the one request that will store it (no references yet);
published in exactly one entry of the cache or of the list `Close` works off (one
reference, plus one per user); retired, destroyed and with users left (one
reference per user); or closed once, with no user. Each step moves a template from one
situation to another, and there is a lemma for each kind of move (`HitStep`,
`Withdraw`, `ParseStep`, `StoreStep`, `ReleaseStep`, ...). `NotOlderThanSeen` is not
inductive either: an answer from a hit is as old as the entry, so `FileInv` carries
the bound from the request that parsed, through the entry, to the request that
hits it.

The last two have no run of their own. `ParsingIsSerial` is the true part of
`OneParserPerPage`, which fails (see "What TLC checks"): of two requests that parse
one page, one has a lock that is no longer the registered one. `LockInv` carries it:
each lock is of one page, whether registered or only still held, and one request
holds it. `NothingSurvivesClose` is the safety half of the liveness property
`CloseReleasesAll`: TLC checks that a closed handler comes to rest, and the theorem
says that nothing is left open when it has.

`SharedTemplate_proofs` proves `CacheImplements`, the refinement
`Spec => ImplementsSharedTemplate`, under the same generality. The refinement mapping
looks at counts (`closes`, `destroyed`, `refs`); the proof replaces it by who holds
the template (`Situation`), which `OwnerInv` makes equal (`StateIsSituation`). A step
that touches one template is then one action of `SharedTemplate`, and a step
that changes a field no situation depends on is a stutter.

`Sessions_proofs` proves, for any number of goroutines, ids and sessions, with and
without an expiry, whichever operations are called:

| Theorem | Says |
|---|---|
| `TypeCorrect` | `TypeOK` |
| `FoundIsLive` | `FoundSessionIsLive` |
| `CallsWait` | `NoCallBeforeTheEnd` |
| `CallsOnce` | `CallsRunOnce` |

`OwnInv` says who may free a session. One that was put on the map once has one entry
among all that the map or a goroutine still refers to (`EntryOnce`), and that entry is
under one id (`StoredOnce`), so that `DelSession`, which deletes before it frees, has it off
the map for good (`DeletedIsOff`); one that was never put there has no entry, so that
no operation that read the map earlier can retire it (`NewIsQuiet`); everyone
else marks the entry before the `go s.Free()`. What an entry or a session is when it is
used again after nothing referred to it is `PutsEntry` and `Allocate`. `CallsInv` numbers the calls: one that is
appended gets the number after all that wait or were run, and running them only
moves numbers from one sequence to the other (`NumberingAppend`,
`NumberingRun`). It counts the goroutines that are about to append, which the bound
on calls leaves room for; that is what makes the types of the two sequences
inductive.

`Group_proofs` proves, for any number of callers, addresses, servers and settings:

| Theorem | Says |
|---|---|
| `TypeCorrect` | `TypeOK` |
| `ShutDownStaysDown` | `ShutDownNeverServes` |
| `StoppedIsEmpty` | `StoppedHasNoServers` |
| `RegisteredAsConfigured` | `RegisteredIsConfigured` |
| `RegisteredStaysAlive` | `RegisteredIsAlive`, if every address is canonical |

`TypeInv` holds what every other argument uses: one caller at most is past
`configMu`. `RunInv` says that an update past its check of `run` cannot see `run` go
back, since `Close` needs the lock for that, and that a `Close` leaves no entry
behind it. `ConfInv` adds the addresses an update has yet to look at (`Pending`): a
registered server has the setting of the configuration, or its address is still to
come. A socket belongs to one server, so shutting a server down takes from it the
port it could serve on (`ShutDownInv`).

`Sites_proofs` proves, for any configurations, hosts and numbers of requests,
sites, extensions and handlers:

| Theorem | Says |
|---|---|
| `TypeCorrect` | `TypeOK` |
| `FoundIsPooled` | `FoundSiteIsPooled` |
| `CachedIsOpen` | `CachedHandlerIsOpen` |
| `UpdateInvariant` | the inductive invariant of an update, `UpdateInv` |
| `AppliedWhenDone` | `AppliedAtRest` |
| `RemovedIsEmpty` | `RemovedSiteIsEmpty` |

`HostInv` follows an update through its phases: a host it has dealt with leads to a
site whose name the configuration keeps (`Handled`, `Adding`), and the hosts are
cleared of all others before the first site goes (`Removing`), so no removal takes a
site that a host still leads to. `CacheInv`: a handler is in the cache of one
extension, it is open, and a request that will close its handler after
serving has one that no cache holds. An extension or handler comes into use empty,
which is why `ExtUsed` says what still refers to one.

`AppliedAtRest` and `RemovedSiteIsEmpty` speak of the end of an update, so the
invariant they need says what is true in the middle of one. `UpdateInv` has these
parts: a site has one name and an extension one site (`OneEach`); a request holds a
site of the pool or one in `late` (`HeldInv`); `cur` is the site of the entry at hand
(`StageInv`), and `se` its extension, unless a request has replaced it (`SeInv`); what
left the pool is emptied by the time the updater is past it (`EmptyInv`), and an
open plugin client is within reach of the pool or of the updater that will close it
(`PluginInv`). `Applied` is `AppliedAtRest` for the entries handled so far: `Named`,
`Rooted` and `Configured` say how far an entry has come, and of those that came as
far, the last one is in force. It holds while an update runs and after one that was
complete; one that stopped at a site without a name promises nothing.

`RouteTable_proofs` proves, for any number of goroutines, urls, handlers, arrays
and requests, and for any relation between urls and paths:

| Theorem | Says |
|---|---|
| `TableInvariant` | the inductive invariant `TableInv /\ OrderInv` |
| `TableTypes` | `TypeOK` |
| `FirstMatch` | `FirstMatchServes` |
| `MapInvariant` | the invariant of the two registries, `MapInv` |
| `MapAndListAgree` | `TablesAgree` |

and the refinement, `TableImplements`. The list is described by
the indices that count (`Live`): all of them, but for the hole of a removal, which
holds the route that goes or a copy of the one before it. The urls at those
indices are distinct, so a shift changes where a route is and never which there are.
That a type is kept is not trivial here: it says that no append goes past its
array, and that the header a request copied stays within an array that has routes
all along, which the arrays being collected and used again could break
(`SliceInv`, for the table's header and each request's). `ScanInv` is what a request
knows while it reads: what it has passed did not match, and, if nothing was removed
since it copied the header, its first match is still at the place where it was.
`AgreeInv(u)` relates map and list for one url: equal when nobody is in a
call for it, the map ahead by the one call otherwise. It is not assumed that a url has
one goroutine: two that register one url at the same time can leave one handler in
the map and the other in the list, and nothing in `route.go` promises otherwise, so the
invariant is about the urls outside `raced`. A call that begins when nobody is in
another for its url brings both into agreement whatever it finds, which is why the url
leaves `raced` then, and not for good.

`Algorithms_proofs` proves, for files of any size, headers of any length, hosts of any
number of labels, rules, sites and files of any number:

| Theorem | Says |
|---|---|
| `InputInvariant` | an input is one of those given |
| `RightAnswer`, `HeadIsGet` | `AnswerFitsTheRequest`, and its half about HEAD |
| `MostSpecific` | `MostSpecificDomainWins` |
| `ExtractIsInverse` | `ExtractInverts` |
| `ForwardingStops` | `ForwardStops` |
| `LastFileWins` | `LastFileThenTemplate` |
| `ConfiguredTransport` | `TransportIsAsConfigured` |

There are no transitions to speak of: the invariant only says where an input comes
from, and the work is in what the functions compute. A recursive function of the model
is a CHOOSE, so each has a lemma that one exists (`MergingExists`, `RunExists`,
`LoadingExists`, `ParsingExists`), and a loop has an invariant over its rounds:
`IsMerged` (the first ranges merged are the same bytes in ranges apart, the last of
which starts no later than what comes), `GoodState`, `LoadInv`, `ParseInv`. Both are
shown by induction in the form the provers can use: the set of rounds for which
they hold has 0 and with each number the next, so it is `Nat` (lemma `Induction`,
from the well-foundedness of `<`). The model sorts by choosing a sorted sequence;
`Ordered` shows that every finite set of ranges has one, and `FinitelyMany` that a
header gives finitely many. `MostSpecific` rests on `CoveringIsStarred`: a domain that
covers a host is the host with some labels on the left replaced, and the search
goes through all of those. In `LastFileWins` the heap of maps is followed address by
address (`StructCopied`, `PluginCopied`), which is where it shows that the template's
map is left alone.

`ExtractIsInverse` goes through three loops: over the characters of a segment
(`ScanExists`; what is read is a sequence of parts, and one with a name right behind
another is refused: `AreParts`), over its parts (`TakingExists`;
what has been taken is the text up to `at`, rendered from the values put into the
map), and over the parts once more in `rendered` (`RenderingExists`). Read forwards,
a successful extraction gives values that render the text, each the shortest, since
each ends at the first occurrence of the literal behind it. Read backwards, values
that render the text and are the shortest are what each round takes: the first
occurrence of the literal from `at` on is where the value ends, so the rounds cannot
fail or go another way.

`Arithmetic_proofs` proves `NumbersAreFit`, which is `NumbersFit` for words of any
width. `pow2` and `bitwise` are recursive functions, so they too have lemmas of
existence (`PowerExists`, `PatternExists`). `WrapIs` says that the low bits read as
a type are the one number of that type that differs from what was computed by a
multiple of its range; with `DivMod` and `DivModIs` (quotient and rest exist, and are
unique) this gives sums, products, shifts to the left, and quotients, whose absolute
value is one too many only for the lowest integer divided by -1 (`QuoHeld`).
`BitNext` adds to the low bits of a number the next one, by which `BitwiseOf` finds
out what `bitwise` has made after the last round, and `BitsAre` gives the bits of
the wrapped result.
Keys are the same argument about `Holds`, with halves for floats.

Assumptions. All are named where the constants are declared, and TLC evaluates them on
each run: null values are not members of the sets they stand beside; `MaxVersion`,
`MaxDefers` and `MaxUpdates` are natural numbers; `Requests` of the page cache and
`Workers` of the sessions are finite (users and appending goroutines are counted);
the group has a channel to make `exit` of; a host has at least one candidate; a configuration is a sequence of settings; a
url without placeholders matches itself only. Those of `Algorithms` say which shape
an input has, as the types of the code do: sizes and offsets are numbers, lists are
sequences, a plugin and its template have the same fields, a segment and its text are
strings of characters (`SegmentInputsAssumption`). `NumberAssumption`, of `Arithmetic`,
says the same of numbers: an integer is in the range of its type, which has 1 to `Word`
bits, and a float or a string has a number or none.

Only model-checked:

* Liveness, everywhere: it is out of the prover's reach.
* The invariants of runs that expect a violation.

## Not modelled

* A `Free` of a session that the user calls itself, and other types that implement
  `Sessioner`: `SetSession` stamps a `*Session` only.
* A panic inside an interpreter or a deferred function: the modelled calls
  return.
* `Group.SetServer`, which lets a caller put any server into `srvMan`;
  `LoadConfigFile`, a check of a modification time in front of `UpdateConfig`;
  how a listener loads its certificates, which either succeeds or fails.
* A static file that changes or cannot be opened after `os.Stat`; content types and
  expiry headers.
* `RootDir` and `PagePath`, which look at the file system; `ParseReader`; the
  addresses in `derogatoryDomain` of `server/func.go`; `SitePublic.ConfigSitePlugin`,
  which nothing calls.
* The form of data: paths, ids, cookies, certificates, the text of pages.
* `PluginHTTP`, `PluginRPC`, `plugin/`, `Cookie`, `Response`: thin wrappers of
  `net/http` and `net/rpc`. `builtin` beyond numbers and `CopyStructDeep`: functions
  of values, one call of `reflect` each.
  `cmd/main`: flags and I/O.

## Plan

Done: `DynamicCache`, `Sessions`, `Group`, `Sites`, `RouteTable`, the pure functions,
both refinements, and a theorem for every safety invariant of the passing runs.
Where it could go on, in this order:

1. Action properties that the invariants support: that a session's `freed` and a
   template's `destroyed` are never taken back.
2. The safety halves of the other liveness properties, as `NothingSurvivesClose` is that
   of `CloseReleasesAll`: who may hold `configMu`, and what a session that has left the
   map still owes.
3. The life of `LoadConfigFile` in front of `UpdateConfig`, with the watcher of
   `cmd/main`.
