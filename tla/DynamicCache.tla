---------------------------- MODULE DynamicCache ----------------------------
(***************************************************************************)
(* The page cache of ServerHandlerDynamic (serverHandlerDynamic.go): the   *)
(* goroutines of net/http that call ServeHTTP, the parsed templates they   *)
(* share through reference counts, the per-page parse locks, the goroutine *)
(* that calls Close, and the files of the site, which change meanwhile.    *)
(*                                                                         *)
(* A critical section of T.mu or of refCountedTemplater.mu is one step; a  *)
(* request that holds a path lock takes several.  A file's content is its  *)
(* version, and its modification time is that version too: two writes      *)
(* never share a modification time, and times only grow.                   *)
(***************************************************************************)
EXTENDS Integers, FiniteSets

CONSTANTS
    Requests,      \* the goroutines that run ServeHTTP; each serves again and again
    Pages,         \* pagePath, the keys of pageCache and pathLocks
    Tmpls,         \* the objects Module returns, with the wrapper around each
    Locks,         \* the *sync.Mutex objects stored in pathLocks
    MaxVersion,    \* how often a file is written (bound)
    UseReadFile,   \* T.ReadFile # nil
    NoPage, NoTmpl, NoLock, NoEntry

ASSUME RequestsAssumption == IsFiniteSet(Requests)
ASSUME VersionAssumption == MaxVersion \in Nat /\ UseReadFile \in BOOLEAN
ASSUME NullAssumption ==
    /\ NoPage \notin Pages
    /\ NoTmpl \notin Tmpls
    /\ NoLock \notin Locks
    /\ NoEntry \notin [tmpl : Tmpls, mtime : Nat]

VARIABLES
    kind,       \* what is at a page's path: "file", "dir" or "none"
    version,    \* content and modification time of the file
    closed,     \* T.closed
    cache,      \* T.pageCache
    pathLock,   \* T.pathLocks
    entries,    \* the templates Close took from pageCache and has yet to close
    tmpl,       \* refs and destroyed of the wrapper; content; how often the
                \* template behind it was really closed
    pc, page,   \* where a request stands and the page it is for
    modeTime,   \* the modification time it saw
    opened,     \* the version its reader was opened on, 0 for a directory
    lock,       \* the path lock it waits for or holds
    exec        \* the template it made or acquired

fileVars == <<kind, version>>
handlerVars == <<closed, cache, pathLock, entries>>
reqVars == <<pc, page, modeTime, opened, lock, exec>>
vars == <<fileVars, handlerVars, tmpl, reqVars>>

PCs == {"idle", "stat", "lookup", "open", "getLock", "wait", "recheck",
        "parse", "store", "execute", "defers"}

\* A request in one of these holds its path lock, or a reference on its template.
Locked == {"recheck", "parse", "store"}
Using == {"execute", "defers"}

Entry == [tmpl : Tmpls, mtime : Nat]

Template == [refs : Int, destroyed : BOOLEAN, closes : Nat, content : Nat]

TypeOK ==
    /\ kind \in [Pages -> {"file", "dir", "none"}]
    /\ version \in [Pages -> Nat]
    /\ closed \in BOOLEAN
    /\ cache \in [Pages -> Entry \cup {NoEntry}]
    /\ pathLock \in [Pages -> Locks \cup {NoLock}]
    /\ entries \subseteq Tmpls
    /\ tmpl \in [Tmpls -> Template]
    /\ pc \in [Requests -> PCs]
    /\ page \in [Requests -> Pages \cup {NoPage}]
    /\ modeTime \in [Requests -> Nat]
    /\ opened \in [Requests -> Nat]
    /\ lock \in [Requests -> Locks \cup {NoLock}]
    /\ exec \in [Requests -> Tmpls \cup {NoTmpl}]

-----------------------------------------------------------------------------
(* refCountedTemplater: each operator maps a template before the call to    *)
(* the template after it.                                                   *)

\* The Close of the template itself runs when the last reference went.
closesIf(last, x) == IF last THEN x.closes + 1 ELSE x.closes

Close(x) ==
    IF x.destroyed THEN x
    ELSE [refs |-> x.refs - 1, destroyed |-> TRUE,
          closes |-> closesIf(x.refs - 1 <= 0, x), content |-> x.content]

\* Mutant: a hit is not counted.
acquireNothing(x) == x

acquire(x) == [x EXCEPT !.refs = @ + 1]            \* the caller saw ~destroyed

\* Mutant: the first release after Close closes.
releaseEarly(x) ==
    [refs |-> x.refs - 1, destroyed |-> x.destroyed,
     closes |-> closesIf(x.refs - 1 <= 0 \/ x.destroyed, x), content |-> x.content]

release(x) ==
    [refs |-> x.refs - 1, destroyed |-> x.destroyed,
     closes |-> closesIf(x.refs - 1 <= 0 /\ x.destroyed, x), content |-> x.content]

\* What Module and Parse return: not wrapped yet, so nobody counts it.
parsed(c) == [refs |-> 0, destroyed |-> FALSE, closes |-> 0, content |-> c]

\* Mutant: the reference of pageCache is not counted.
wrapAtZero(x) == [x EXCEPT !.refs = 0]

wrap(x) == [x EXCEPT !.refs = 1]                   \* 1: held by pageCache

\* Mutant: the template parsed for a closed handler is dropped, not closed.
discardOpen(x) == x

\* newExec.Close(), before any wrapper.
discard(x) == [x EXCEPT !.closes = @ + 1]

-----------------------------------------------------------------------------
Users(t) == {r \in Requests : pc[r] \in Using /\ exec[r] = t}
Storers(t) == {r \in Requests : pc[r] = "store" /\ exec[r] = t}
InCache(t) == \E p \in Pages : cache[p] # NoEntry /\ cache[p].tmpl = t
Published(t) == InCache(t) \/ t \in entries

\* An object no variable refers to: one never made, or one already collected.
FreshTmpl(t) == /\ tmpl[t].closes > 0
                /\ ~Published(t)
                /\ \A r \in Requests : exec[r] # t
FreshLock(l) == /\ \A p \in Pages : pathLock[p] # l
                /\ \A r \in Requests : lock[r] # l

LockFree(l) == \A r \in Requests : lock[r] = l => pc[r] \notin Locked

Init ==
    /\ kind = [p \in Pages |-> "file"]
    /\ version = [p \in Pages |-> 1]
    /\ closed = FALSE
    /\ cache = [p \in Pages |-> NoEntry]
    /\ pathLock = [p \in Pages |-> NoLock]
    /\ entries = {}
    /\ tmpl = [t \in Tmpls |->
                 [refs |-> 0, destroyed |-> TRUE, closes |-> 1, content |-> 0]]
    /\ pc = [r \in Requests |-> "idle"]
    /\ page = [r \in Requests |-> NoPage]
    /\ modeTime = [r \in Requests |-> 0]
    /\ opened = [r \in Requests |-> 0]
    /\ lock = [r \in Requests |-> NoLock]
    /\ exec = [r \in Requests |-> NoTmpl]

-----------------------------------------------------------------------------
(* The site's author edits, removes or replaces a page (external). *)

WriteFile(p) ==
    /\ version[p] < MaxVersion
    /\ kind' = [kind EXCEPT ![p] = "file"]
    /\ version' = [version EXCEPT ![p] = @ + 1]
    /\ UNCHANGED <<handlerVars, tmpl, reqVars>>

RemoveFile(p) ==
    /\ kind[p] = "file"
    /\ \E k \in {"none", "dir"} : kind' = [kind EXCEPT ![p] = k]
    /\ UNCHANGED <<version, handlerVars, tmpl, reqVars>>

-----------------------------------------------------------------------------
(* A request.  Finish is every return: the deferred lock.Unlock and the     *)
(* locals that go out of scope.                                             *)

Finish(r) ==
    /\ pc' = [pc EXCEPT ![r] = "idle"]
    /\ page' = [page EXCEPT ![r] = NoPage]
    /\ modeTime' = [modeTime EXCEPT ![r] = 0]
    /\ opened' = [opened EXCEPT ![r] = 0]
    /\ lock' = [lock EXCEPT ![r] = NoLock]
    /\ exec' = [exec EXCEPT ![r] = NoTmpl]

GoTo(r, where) == pc' = [pc EXCEPT ![r] = where]

\* The request leaves getOrCreateExecutor with a reference on t; the deferred
\* calls close its reader and unlock the path.
Run(r, t) ==
    /\ GoTo(r, "execute")
    /\ exec' = [exec EXCEPT ![r] = t]
    /\ lock' = [lock EXCEPT ![r] = NoLock]
    /\ opened' = [opened EXCEPT ![r] = 0]
    /\ UNCHANGED <<page, modeTime>>

\* ServeHTTP up to the call of getOrCreateExecutor.
ServeHTTP(r) ==
    /\ pc[r] = "idle"
    /\ ~closed
    /\ GoTo(r, "stat")
    /\ \E p \in Pages : page' = [page EXCEPT ![r] = p]
    /\ UNCHANGED <<fileVars, handlerVars, tmpl, modeTime, opened, lock, exec>>

\* The early return: an error is answered and nothing is left behind.
ServeHTTPClosed(r) ==
    /\ pc[r] = "idle"
    /\ closed
    /\ UNCHANGED vars

\* os.Stat, or the one call of ReadFile, which opens the page as well.
Stat(r) ==
    LET p == page[r] IN
    /\ pc[r] = "stat"
    /\ kind[p] = "file"
    /\ GoTo(r, "lookup")
    /\ modeTime' = [modeTime EXCEPT ![r] = version[p]]
    /\ opened' = IF UseReadFile THEN [opened EXCEPT ![r] = version[p]] ELSE opened
    /\ UNCHANGED <<fileVars, handlerVars, tmpl, page, lock, exec>>

\* cleanupCacheEntry: the entry's reference and the page's lock are dropped.
cleanupCacheEntry(p) ==
    /\ tmpl' = IF cache[p] = NoEntry THEN tmpl
               ELSE [tmpl EXCEPT ![cache[p].tmpl] = Close(@)]
    /\ cache' = [cache EXCEPT ![p] = NoEntry]
    /\ pathLock' = [pathLock EXCEPT ![p] = NoLock]

StatFails(r) ==
    LET p == page[r] IN
    /\ pc[r] = "stat"
    /\ kind[p] = "none" \/ (UseReadFile /\ kind[p] = "dir")
    /\ cleanupCacheEntry(p)
    /\ Finish(r)
    /\ UNCHANGED <<fileVars, closed, entries>>

\* A directory is an error that keeps the entry.
StatIsDir(r) ==
    /\ pc[r] = "stat"
    /\ kind[page[r]] = "dir" /\ ~UseReadFile
    /\ Finish(r)
    /\ UNCHANGED <<fileVars, handlerVars, tmpl>>

\* Mutant: the modification time is not compared.
HitAnyTime(r) ==
    LET e == cache[page[r]] IN e # NoEntry /\ ~tmpl[e.tmpl].destroyed

\* The test both lookups make, under T.mu.RLock.
Hit(r) ==
    LET e == cache[page[r]] IN
    /\ e # NoEntry
    /\ e.mtime = modeTime[r]
    /\ ~tmpl[e.tmpl].destroyed

TakeHit(r) ==
    LET t == cache[page[r]].tmpl IN
    /\ tmpl' = [tmpl EXCEPT ![t] = acquire(@)]
    /\ Run(r, t)
    /\ UNCHANGED <<fileVars, handlerVars>>

LookupHit(r) == pc[r] = "lookup" /\ Hit(r) /\ TakeHit(r)

LookupMiss(r) ==
    /\ pc[r] = "lookup"
    /\ ~Hit(r)
    /\ GoTo(r, IF UseReadFile THEN "getLock" ELSE "open")
    /\ UNCHANGED <<fileVars, handlerVars, tmpl, page, modeTime, opened, lock, exec>>

\* os.OpenFile; modeTime keeps what Stat saw.
OpenFile(r) ==
    LET p == page[r] IN
    /\ pc[r] = "open"
    /\ IF kind[p] = "none"
       THEN Finish(r)
       ELSE /\ GoTo(r, "getLock")
            /\ opened' = [opened EXCEPT ![r] = IF kind[p] = "dir" THEN 0 ELSE version[p]]
            /\ UNCHANGED <<page, modeTime, lock, exec>>
    /\ UNCHANGED <<fileVars, handlerVars, tmpl>>

getOrCreatePathLockLocked(p) ==
    IF pathLock[p] # NoLock THEN pathLock[p] ELSE CHOOSE l \in Locks : FreshLock(l)

\* parseAndCache, first section under T.mu.
GetPathLock(r) ==
    LET p == page[r] IN
    /\ pc[r] = "getLock"
    /\ ~closed
    /\ GoTo(r, "wait")
    /\ pathLock[p] = NoLock => \E l \in Locks : FreshLock(l)
    /\ pathLock' = [pathLock EXCEPT ![p] = getOrCreatePathLockLocked(p)]
    /\ lock' = [lock EXCEPT ![r] = getOrCreatePathLockLocked(p)]
    /\ UNCHANGED <<fileVars, closed, cache, entries, tmpl, page, modeTime, opened, exec>>

GetPathLockClosed(r) ==
    /\ pc[r] = "getLock"
    /\ closed
    /\ Finish(r)
    /\ UNCHANGED <<fileVars, handlerVars, tmpl>>

\* lock.Lock()
LockPath(r) ==
    /\ pc[r] = "wait"
    /\ LockFree(lock[r])
    /\ GoTo(r, "recheck")
    /\ UNCHANGED <<fileVars, handlerVars, tmpl, page, modeTime, opened, lock, exec>>

\* The second lookup, with the path lock held.
RecheckHit(r) == pc[r] = "recheck" /\ ~closed /\ Hit(r) /\ TakeHit(r)

\* Mutant: the second miss waits for the lock again.
RecheckMissAgain(r) ==
    /\ pc[r] = "recheck"
    /\ ~closed
    /\ ~Hit(r)
    /\ GoTo(r, "wait")
    /\ UNCHANGED <<fileVars, handlerVars, tmpl, page, modeTime, opened, lock, exec>>

RecheckMiss(r) ==
    /\ pc[r] = "recheck"
    /\ ~closed
    /\ ~Hit(r)
    /\ GoTo(r, "parse")
    /\ UNCHANGED <<fileVars, handlerVars, tmpl, page, modeTime, opened, lock, exec>>

RecheckClosed(r) ==
    /\ pc[r] = "recheck"
    /\ closed
    /\ Finish(r)
    /\ UNCHANGED <<fileVars, handlerVars, tmpl>>

\* parseTemplate reads the open file: what it was opened on, or what was
\* written into it since.
Parse(r) ==
    /\ pc[r] = "parse"
    /\ opened[r] > 0
    /\ \E t \in Tmpls : FreshTmpl(t)
    /\ LET t == CHOOSE t \in Tmpls : FreshTmpl(t) IN
         /\ \E c \in opened[r] .. version[page[r]] : 
                tmpl' = [tmpl EXCEPT ![t] = parsed(c)]
         /\ exec' = [exec EXCEPT ![r] = t]
    /\ GoTo(r, "store")
    /\ UNCHANGED <<fileVars, handlerVars, page, modeTime, opened, lock>>

\* Mutant: the error of parseTemplate is ignored.
ParseFailsIgnored(r) ==
    /\ pc[r] = "parse"
    /\ GoTo(r, "store")
    /\ UNCHANGED <<fileVars, handlerVars, tmpl, page, modeTime, opened, lock, exec>>

\* No Module, a bad first line, an unknown type, or a template that does not
\* parse and is closed on the spot: nothing outlives the step.
ParseFails(r) ==
    /\ pc[r] = "parse"
    /\ Finish(r)
    /\ UNCHANGED <<fileVars, handlerVars, tmpl>>

\* Mutant: closed is not looked at again after the parse.
StoreAlways(r) ==
    LET p == page[r]
        t == exec[r]
        old == IF cache[p] = NoEntry THEN tmpl
               ELSE [tmpl EXCEPT ![cache[p].tmpl] = Close(@)]
    IN
    /\ pc[r] = "store"
    /\ tmpl' = [old EXCEPT ![t] = acquire(wrap(@))]
    /\ cache' = [cache EXCEPT ![p] = [tmpl |-> t, mtime |-> modeTime[r]]]
    /\ Run(r, t)
    /\ UNCHANGED <<fileVars, closed, pathLock, entries>>

\* Mutant: the entry gets the time of the file as it is stored.
StoreStamped(r) ==
    LET p == page[r]
        t == exec[r]
        old == IF cache[p] = NoEntry THEN tmpl
               ELSE [tmpl EXCEPT ![cache[p].tmpl] = Close(@)]
    IN
    /\ pc[r] = "store"
    /\ ~closed
    /\ tmpl' = [old EXCEPT ![t] = acquire(wrap(@))]
    /\ cache' = [cache EXCEPT ![p] = [tmpl |-> t, mtime |-> version[p]]]
    /\ Run(r, t)
    /\ UNCHANGED <<fileVars, closed, pathLock, entries>>

\* parseAndCache, last section under T.mu: wrap, replace the old entry, keep
\* a reference for this request.
Store(r) ==
    LET p == page[r]
        t == exec[r]
        old == IF cache[p] = NoEntry THEN tmpl
               ELSE [tmpl EXCEPT ![cache[p].tmpl] = Close(@)]
    IN
    /\ pc[r] = "store"
    /\ ~closed
    /\ tmpl' = [old EXCEPT ![t] = acquire(wrap(@))]
    /\ cache' = [cache EXCEPT ![p] = [tmpl |-> t, mtime |-> modeTime[r]]]
    /\ Run(r, t)
    /\ UNCHANGED <<fileVars, closed, pathLock, entries>>

StoreClosed(r) ==
    /\ pc[r] = "store"
    /\ closed
    /\ tmpl' = [tmpl EXCEPT ![exec[r]] = discard(@)]
    /\ Finish(r)
    /\ UNCHANGED <<fileVars, handlerVars>>

\* executeWith returns, or recovers the template's panic.
Execute(r) ==
    /\ pc[r] = "execute"
    /\ GoTo(r, "defers")
    /\ UNCHANGED <<fileVars, handlerVars, tmpl, page, modeTime, opened, lock, exec>>

\* The deferred calls, last one first: dock.Close ran, then tplExec.release.
Release(r) ==
    /\ pc[r] = "defers"
    /\ tmpl' = [tmpl EXCEPT ![exec[r]] = release(@)]
    /\ Finish(r)
    /\ UNCHANGED <<fileVars, handlerVars>>

-----------------------------------------------------------------------------
(* ServerHandlerDynamic.Close.  A second call finds closed set and returns. *)

\* Mutant: Close forgets the entries it takes off the map.
CloseHandlerForgets ==
    /\ ~closed
    /\ closed' = TRUE
    /\ cache' = [p \in Pages |-> NoEntry]
    /\ pathLock' = [p \in Pages |-> NoLock]
    /\ UNCHANGED <<fileVars, entries, tmpl, reqVars>>

CloseHandler ==
    /\ ~closed
    /\ closed' = TRUE
    /\ entries' = {t \in Tmpls : InCache(t)}
    /\ cache' = [p \in Pages |-> NoEntry]
    /\ pathLock' = [p \in Pages |-> NoLock]
    /\ UNCHANGED <<fileVars, tmpl, reqVars>>

CloseEntry ==
    /\ \E t \in entries :
         /\ tmpl' = [tmpl EXCEPT ![t] = Close(@)]
         /\ entries' = entries \ {t}
    /\ UNCHANGED <<fileVars, closed, cache, pathLock, reqVars>>

-----------------------------------------------------------------------------
\* A request's steps from its first to its return; ServeHTTP itself is the
\* arrival of a request, which nothing obliges.
Step(r) ==
    \/ Stat(r) \/ StatFails(r) \/ StatIsDir(r)
    \/ LookupHit(r) \/ LookupMiss(r) \/ OpenFile(r)
    \/ GetPathLock(r) \/ GetPathLockClosed(r) \/ LockPath(r)
    \/ RecheckHit(r) \/ RecheckMiss(r) \/ RecheckClosed(r)
    \/ Parse(r) \/ ParseFails(r) \/ Store(r) \/ StoreClosed(r)
    \/ Execute(r) \/ Release(r)

Next ==
    \/ \E r \in Requests : ServeHTTP(r) \/ ServeHTTPClosed(r) \/ Step(r)
    \/ \E p \in Pages : WriteFile(p) \/ RemoveFile(p)
    \/ CloseHandler \/ CloseEntry

Spec == Init /\ [][Next]_vars

\* The scheduler runs every goroutine, a template's code returns, and
\* sync.Mutex hands a lock to a starving waiter: strong fairness for LockPath.
Fairness ==
    /\ \A r \in Requests : WF_vars(Step(r)) /\ SF_vars(LockPath(r))
    /\ WF_vars(CloseEntry)

FairSpec == Spec /\ Fairness

-----------------------------------------------------------------------------
(* What the cache promises. *)

\* A template that a request executes, or whose request still runs its deferred
\* calls, was not really closed: the reference counts keep it alive across
\* replacement, cleanup and Close of the handler.
NoUseAfterClose ==
    \A r \in Requests : pc[r] \in Using => tmpl[exec[r]].closes = 0

\* No two paths (replacement, cleanupCacheEntry, Close, the last release, the
\* store that finds the handler closed) really close the same template.
ClosedAtMostOnce == \A t \in Tmpls : tmpl[t].closes <= 1

\* refs is what its comment says: one for the page cache while an entry (or
\* Close's copy of the map) holds the template, and one per request using it.
RefsCountHolders ==
    \A t \in Tmpls :
        (Published(t) \/ Users(t) # {}) =>
            /\ tmpl[t].refs = Cardinality(Users(t)) + (IF Published(t) THEN 1 ELSE 0)
            /\ tmpl[t].destroyed <=> ~Published(t)

\* A template that is not closed is still within someone's reach: an entry, a
\* request, or the list Close works through.  Otherwise it would never be.
NoLeak ==
    \A t \in Tmpls :
        tmpl[t].closes = 0 => Published(t) \/ \E r \in Requests : exec[r] = t

\* A request is never answered from content older than the modification time
\* it saw, whoever parsed the template and however the file changed between
\* Stat and OpenFile.
NotOlderThanSeen ==
    \A r \in Requests : pc[r] \in Using => tmpl[exec[r]].content >= modeTime[r]

\* The entry a request would take for the file as it stands now has the content
\* the file has now, although time and content were read at different moments.
HitIsCurrent ==
    \A p \in Pages :
        (cache[p] # NoEntry /\ cache[p].mtime = version[p])
            => tmpl[cache[p].tmpl].content = version[p]

\* Requests that were already past the check of ServeHTTP when Close ran put
\* nothing back into the maps.
NothingCachedOnceClosed ==
    closed => \A p \in Pages : cache[p] = NoEntry /\ pathLock[p] = NoLock

\* "Parsing of one page is serial": the comment on pathLocks and on
\* parseAndCache.  cleanupCacheEntry drops the lock of a page under a request
\* that holds it, and the next request locks a new one.
OneParserPerPage ==
    \A r, s \in Requests :
        (pc[r] = "parse" /\ pc[s] = "parse" /\ page[r] = page[s]) => r = s

\* Every request that entered ServeHTTP returns: no lock is left locked.
EveryRequestReturns ==
    \A r \in Requests : (pc[r] # "idle") ~> (pc[r] = "idle")

\* After Close every template ends up closed, those that running requests
\* still use, and those being parsed, included.
CloseReleasesAll == closed ~> [](\A t \in Tmpls : tmpl[t].closes > 0)

-----------------------------------------------------------------------------
\* The counts implement the sets of users of SharedTemplate.
stateOf == [t \in Tmpls |->
              IF tmpl[t].closes > 0 THEN "closed"
              ELSE IF tmpl[t].destroyed THEN "retired"
              ELSE IF Storers(t) # {} THEN "private"
              ELSE "open"]
usersOf == [t \in Tmpls |-> Users(t)]

Shared == INSTANCE SharedTemplate WITH state <- stateOf, users <- usersOf

\* Every step of the cache is, seen through the wrappers' counts, a step of
\* the template lifecycle or none: a template is handed out only while open,
\* and really closed at the instant its last user leaves and never before.
ImplementsSharedTemplate == Shared!Spec
=============================================================================
