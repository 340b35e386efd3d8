------------------------ MODULE DynamicCache_proofs -------------------------
(***************************************************************************)
(* Proofs about DynamicCache, for any requests, pages, templates, locks    *)
(* and versions.                                                           *)
(***************************************************************************)
EXTENDS DynamicCache, FiniteSetTheorems, TLAPS

-----------------------------------------------------------------------------
(* The inductive invariant. *)

\* A request that entered ServeHTTP has a page; it has a template exactly
\* while it is about to store one or uses one.
RequestInv ==
    \A r \in Requests :
        /\ pc[r] # "idle" => page[r] \in Pages
        /\ exec[r] # NoTmpl <=> pc[r] \in Using \cup {"store"}
        /\ pc[r] = "wait" => lock[r] \in Locks

\* An entry has a template of its own, and one that Close did not take.
EntryInv ==
    /\ \A p \in Pages : cache[p] # NoEntry => cache[p].tmpl \notin entries
    /\ \A p, q \in Pages :
         (cache[p] # NoEntry /\ cache[q] # NoEntry /\ cache[p].tmpl = cache[q].tmpl)
            => p = q
    /\ ~closed => entries = {}

\* The life of a template: published, retired but in use, private to the
\* request about to store it, or closed.
PublishedInv(t) ==
    Published(t) =>
        /\ tmpl[t].closes = 0
        /\ ~tmpl[t].destroyed
        /\ tmpl[t].refs = Cardinality(Users(t)) + 1

RetiredInv(t) ==
    (~Published(t) /\ Users(t) # {}) =>
        /\ tmpl[t].closes = 0
        /\ tmpl[t].destroyed
        /\ tmpl[t].refs = Cardinality(Users(t))

PrivateInv(t) ==
    \A r \in Requests : r \in Storers(t) =>
        /\ ~Published(t)
        /\ Users(t) = {}
        /\ Storers(t) = {r}
        /\ tmpl[t].closes = 0
        /\ ~tmpl[t].destroyed

ClosedInv(t) ==
    (~Published(t) /\ Users(t) = {} /\ Storers(t) = {}) => tmpl[t].closes = 1

TmplInv == \A t \in Tmpls :
    PublishedInv(t) /\ RetiredInv(t) /\ PrivateInv(t) /\ ClosedInv(t)

OwnerInv == TypeOK /\ RequestInv /\ EntryInv /\ NothingCachedOnceClosed /\ TmplInv

-----------------------------------------------------------------------------
(* The operators of refCountedTemplater. *)

\* Close destroys a template and takes the cache's reference; the template is
\* really closed when that was the last one.
LEMMA CloseEffect ==
    ASSUME NEW x \in Template
    PROVE  /\ Close(x) \in Template
           /\ x.destroyed => Close(x) = x
           /\ ~x.destroyed =>
                /\ Close(x).destroyed
                /\ Close(x).refs = x.refs - 1
                /\ Close(x).content = x.content
                /\ Close(x).closes = IF x.refs <= 1 THEN x.closes + 1 ELSE x.closes
BY DEF Close, closesIf, Template

\* release gives one reference back; a destroyed template is really closed when
\* that was the last one.
LEMMA ReleaseEffect ==
    ASSUME NEW x \in Template
    PROVE  /\ release(x) \in Template
           /\ release(x).destroyed = x.destroyed
           /\ release(x).refs = x.refs - 1
           /\ release(x).content = x.content
           /\ release(x).closes =
                IF x.refs <= 1 /\ x.destroyed THEN x.closes + 1 ELSE x.closes
BY DEF release, closesIf, Template

\* acquire adds one reference and changes nothing else.
LEMMA AcquireEffect ==
    ASSUME NEW x \in Template
    PROVE  /\ acquire(x) \in Template
           /\ acquire(x).refs = x.refs + 1
           /\ acquire(x).destroyed = x.destroyed
           /\ acquire(x).closes = x.closes
           /\ acquire(x).content = x.content
BY DEF acquire, Template

\* wrap leaves the one reference of the cache and changes nothing else.
LEMMA WrapEffect ==
    ASSUME NEW x \in Template
    PROVE  /\ wrap(x) \in Template
           /\ wrap(x).refs = 1
           /\ wrap(x).destroyed = x.destroyed
           /\ wrap(x).closes = x.closes
           /\ wrap(x).content = x.content
BY DEF wrap, Template

\* A template nobody wrapped is closed by the request that parsed it.
LEMMA DiscardEffect ==
    ASSUME NEW x \in Template
    PROVE  /\ discard(x) \in Template
           /\ discard(x).closes = x.closes + 1
           /\ discard(x).content = x.content
BY DEF discard, Template

-----------------------------------------------------------------------------
(* Users of a template. *)

\* The users of a template are finitely many, and their number is 0 exactly
\* when there are none.
LEMMA UsersFinite ==
    ASSUME NEW t
    PROVE  /\ IsFiniteSet(Users(t))
           /\ Cardinality(Users(t)) \in Nat
           /\ Cardinality(Users(t)) = 0 <=> Users(t) = {}
<1>1. Users(t) \subseteq Requests
  BY DEF Users
<1>2. IsFiniteSet(Users(t))
  BY <1>1, RequestsAssumption, FS_Subset
<1> QED
  BY <1>2, FS_CardinalityType, FS_EmptySet

\* When one request moves, the sets of users and storers change by that
\* request only.
LEMMA OneMoves ==
    ASSUME NEW r \in Requests, NEW x,
           \A q \in Requests : q # r => pc'[q] = pc[q] /\ exec'[q] = exec[q]
    PROVE  /\ (pc'[r] \in Using /\ exec'[r] = x) => Users(x)' = Users(x) \cup {r}
           /\ ~(pc'[r] \in Using /\ exec'[r] = x) => Users(x)' = Users(x) \ {r}
           /\ (pc'[r] = "store" /\ exec'[r] = x) => Storers(x)' = Storers(x) \cup {r}
           /\ ~(pc'[r] = "store" /\ exec'[r] = x) => Storers(x)' = Storers(x) \ {r}
BY DEF Users, Storers

\* A template that keeps its holders and its counts keeps its invariant.
LEMMA Unaffected ==
    ASSUME NEW t \in Tmpls, TmplInv,
           Users(t)' = Users(t), Storers(t)' = Storers(t),
           Published(t)' <=> Published(t), tmpl'[t] = tmpl[t]
    PROVE  (PublishedInv(t) /\ RetiredInv(t) /\ PrivateInv(t) /\ ClosedInv(t))'
BY DEF TmplInv, PublishedInv, RetiredInv, PrivateInv, ClosedInv

\* A step that moves a request outside Using and "store" touches no template.
LEMMA QuietStep ==
    ASSUME TypeOK, RequestInv, TmplInv, NEW r \in Requests,
           \A q \in Requests : q # r => pc'[q] = pc[q] /\ exec'[q] = exec[q],
           pc[r] \notin Using \cup {"store"}, pc'[r] \notin Using \cup {"store"},
           UNCHANGED <<tmpl, cache, entries>>
    PROVE  TmplInv'
<1> SUFFICES ASSUME NEW t \in Tmpls
             PROVE  (PublishedInv(t) /\ RetiredInv(t) /\ PrivateInv(t) /\ ClosedInv(t))'
  BY DEF TmplInv
<1>1. r \notin Users(t) /\ r \notin Storers(t)
  BY DEF Users, Storers
<1>2. Users(t)' = Users(t) /\ Storers(t)' = Storers(t)
  BY <1>1, OneMoves
<1>3. Published(t)' <=> Published(t)
  BY DEF Published, InCache
<1> QED  BY <1>2, <1>3, Unaffected

-----------------------------------------------------------------------------
(* Types. *)

\* Every variable keeps its type, and every request keeps a page and a
\* template exactly while it needs them.
LEMMA TypeStep ==
    ASSUME TypeOK, RequestInv, [Next]_vars
    PROVE  TypeOK' /\ RequestInv'
<1> USE NullAssumption DEF TypeOK, RequestInv, PCs, Using, Entry
<1>1. ASSUME NEW r \in Requests, ServeHTTP(r)
      PROVE  TypeOK' /\ RequestInv'
  BY <1>1 DEF ServeHTTP, GoTo, fileVars, handlerVars
<1>2. ASSUME NEW r \in Requests, Step(r)
      PROVE  TypeOK' /\ RequestInv'
  <2>1. CASE Stat(r)
    BY <2>1 DEF Stat, GoTo, fileVars, handlerVars
  <2>2. CASE StatFails(r)
    <3>1. page[r] \in Pages
      BY <2>2 DEF StatFails
    <3>2. tmpl' \in [Tmpls -> Template]
      BY <2>2, <3>1, CloseEffect DEF StatFails, cleanupCacheEntry
    <3> QED  BY <2>2, <3>1, <3>2 DEF StatFails, cleanupCacheEntry, Finish, fileVars
  <2>3. CASE StatIsDir(r)
    BY <2>3 DEF StatIsDir, Finish, fileVars, handlerVars
  <2>4. CASE LookupHit(r) \/ RecheckHit(r)
    <3>1. page[r] \in Pages /\ cache[page[r]] \in Entry
      BY <2>4 DEF LookupHit, RecheckHit, Hit
    <3>2. tmpl' \in [Tmpls -> Template]
      BY <2>4, <3>1, AcquireEffect DEF LookupHit, RecheckHit, TakeHit
    <3> QED  BY <2>4, <3>1, <3>2 DEF LookupHit, RecheckHit, TakeHit, Run, GoTo,
                                     fileVars, handlerVars
  <2>5. CASE LookupMiss(r)
    BY <2>5 DEF LookupMiss, GoTo, fileVars, handlerVars
  <2>6. CASE OpenFile(r)
    BY <2>6 DEF OpenFile, Finish, GoTo, fileVars, handlerVars
  <2>7. CASE GetPathLock(r)
    <3>1. page[r] \in Pages
      BY <2>7 DEF GetPathLock
    <3>2. getOrCreatePathLockLocked(page[r]) \in Locks
      BY <2>7, <3>1 DEF GetPathLock, getOrCreatePathLockLocked
    <3> QED  BY <2>7, <3>1, <3>2 DEF GetPathLock, GoTo, fileVars
  <2>8. CASE GetPathLockClosed(r) \/ RecheckClosed(r) \/ ParseFails(r)
    BY <2>8 DEF GetPathLockClosed, RecheckClosed, ParseFails, Finish, fileVars, handlerVars
  <2>9. CASE LockPath(r) \/ RecheckMiss(r) \/ Execute(r)
    BY <2>9 DEF LockPath, RecheckMiss, Execute, GoTo, fileVars, handlerVars
  <2>10. CASE Parse(r)
    <3>1. PICK t \in Tmpls : exec' = [exec EXCEPT ![r] = t]
      BY <2>10 DEF Parse
    <3>2. PICK c \in opened[r] .. version[page[r]], u \in Tmpls :
            tmpl' = [tmpl EXCEPT ![u] = parsed(c)]
      BY <2>10 DEF Parse
    <3>3. page[r] \in Pages
      BY <2>10 DEF Parse
    <3>4. parsed(c) \in Template
      BY <3>2, <3>3 DEF parsed, Template
    <3>5. tmpl' \in [Tmpls -> Template]
      BY <3>2, <3>4
    <3> QED  BY <2>10, <3>1, <3>5 DEF Parse, GoTo, fileVars, handlerVars
  <2>11. CASE Store(r)
    <3> DEFINE old == IF cache[page[r]] = NoEntry THEN tmpl
                      ELSE [tmpl EXCEPT ![cache[page[r]].tmpl] = Close(@)]
    <3>1. page[r] \in Pages /\ exec[r] \in Tmpls
      BY <2>11 DEF Store
    <3>2. old \in [Tmpls -> Template]
      BY <3>1, CloseEffect
    <3>3. tmpl' = [old EXCEPT ![exec[r]] = acquire(wrap(@))]
      BY <2>11 DEF Store
    <3>4. acquire(wrap(old[exec[r]])) \in Template
      BY <3>1, <3>2, WrapEffect, AcquireEffect
    <3>5. tmpl' \in [Tmpls -> Template]
      <4> HIDE DEF old
      <4> QED  BY <3>2, <3>3, <3>4
    <3> QED  BY <2>11, <3>1, <3>5 DEF Store, Run, GoTo, fileVars
  <2>12. CASE StoreClosed(r)
    BY <2>12, DiscardEffect DEF StoreClosed, Finish, fileVars, handlerVars
  <2>13. CASE Release(r)
    BY <2>13, ReleaseEffect DEF Release, Finish, fileVars, handlerVars
  <2> QED
    BY <1>2, <2>1, <2>2, <2>3, <2>4, <2>5, <2>6, <2>7, <2>8, <2>9, <2>10, <2>11,
       <2>12, <2>13 DEF Step
<1>3. ASSUME NEW p \in Pages, WriteFile(p) \/ RemoveFile(p)
      PROVE  TypeOK' /\ RequestInv'
  BY <1>3 DEF WriteFile, RemoveFile, handlerVars, reqVars
<1>4. CASE CloseHandler
  BY <1>4 DEF CloseHandler, fileVars, reqVars
<1>5. CASE CloseEntry
  BY <1>5, CloseEffect DEF CloseEntry, fileVars, reqVars
<1>6. CASE UNCHANGED vars
  BY <1>6 DEF vars, fileVars, handlerVars, reqVars
<1> QED
  BY <1>1, <1>2, <1>3, <1>4, <1>5, <1>6 DEF Next, ServeHTTPClosed

-----------------------------------------------------------------------------
(* Entries. *)

\* The template a request is about to store is in no entry, and the maps of a
\* closed handler stay empty, so every entry keeps a template of its own.
LEMMA EntryStep ==
    ASSUME OwnerInv, [Next]_vars
    PROVE  EntryInv' /\ NothingCachedOnceClosed'
<1> USE DEF OwnerInv, TypeOK, RequestInv, EntryInv, NothingCachedOnceClosed, Entry
<1>1. CASE UNCHANGED <<closed, cache, pathLock, entries>>
  BY <1>1
<1>2. ASSUME NEW r \in Requests, StatFails(r)
      PROVE  EntryInv' /\ NothingCachedOnceClosed'
  BY <1>2 DEF StatFails, cleanupCacheEntry
<1>3. ASSUME NEW r \in Requests, GetPathLock(r)
      PROVE  EntryInv' /\ NothingCachedOnceClosed'
  BY <1>3 DEF GetPathLock
<1>4. ASSUME NEW r \in Requests, Store(r)
      PROVE  EntryInv' /\ NothingCachedOnceClosed'
  <2>1. page[r] \in Pages /\ exec[r] \in Tmpls /\ r \in Storers(exec[r])
    BY <1>4, NullAssumption DEF Store, Storers
  <2>2. ~Published(exec[r])
    BY <2>1 DEF TmplInv, PrivateInv
  <2>3. /\ exec[r] \notin entries
        /\ \A p \in Pages : cache[p] # NoEntry => cache[p].tmpl # exec[r]
    BY <2>2 DEF Published, InCache
  <2>4. cache' = [cache EXCEPT ![page[r]] = [tmpl |-> exec[r], mtime |-> modeTime[r]]]
    BY <1>4 DEF Store
  <2> QED  BY <1>4, <2>1, <2>3, <2>4 DEF Store
<1>5. CASE CloseHandler
  BY <1>5 DEF CloseHandler
<1>6. CASE CloseEntry
  BY <1>6 DEF CloseEntry
<1>7. CASE UNCHANGED vars
  BY <1>7, <1>1 DEF vars, handlerVars
<1>8. ASSUME NEW r \in Requests, Step(r)
      PROVE  EntryInv' /\ NothingCachedOnceClosed'
  <2>1. StatFails(r) \/ GetPathLock(r) \/ Store(r)
          \/ UNCHANGED <<closed, cache, pathLock, entries>>
    BY <1>8 DEF Step, Stat, StatIsDir, LookupHit, LookupMiss, OpenFile,
       GetPathLockClosed, LockPath, RecheckHit, RecheckMiss, RecheckClosed, TakeHit,
       Parse, ParseFails, StoreClosed, Execute, Release, handlerVars
  <2> QED  BY <2>1, <1>1, <1>2, <1>3, <1>4
<1> QED
  BY <1>1, <1>5, <1>6, <1>7, <1>8
     DEF Next, ServeHTTP, ServeHTTPClosed, WriteFile, RemoveFile, handlerVars, vars

-----------------------------------------------------------------------------
(* Templates. *)

\* Taking a hit: the template of an entry gets one more user.
LEMMA HitStep ==
    ASSUME OwnerInv, NEW r \in Requests, LookupHit(r) \/ RecheckHit(r)
    PROVE  TmplInv'
<1>1. PICK t \in Tmpls :
      /\ page[r] \in Pages /\ cache[page[r]] # NoEntry /\ cache[page[r]].tmpl = t
      /\ pc[r] \notin Using \cup {"store"}
      /\ tmpl' = [tmpl EXCEPT ![t] = acquire(@)]
      /\ pc' = [pc EXCEPT ![r] = "execute"] /\ exec' = [exec EXCEPT ![r] = t]
      /\ UNCHANGED <<cache, entries>>
  BY DEF OwnerInv, TypeOK, RequestInv, Entry, LookupHit, RecheckHit, Hit, TakeHit,
         Run, GoTo, handlerVars, Using
<1>2. Published(t)
  BY <1>1 DEF Published, InCache
<1>3. /\ \A q \in Requests : q # r => pc'[q] = pc[q] /\ exec'[q] = exec[q]
      /\ pc'[r] \in Using /\ pc'[r] # "store" /\ exec'[r] = t
  BY <1>1 DEF Using, OwnerInv, TypeOK
<1> SUFFICES ASSUME NEW x \in Tmpls
             PROVE  (PublishedInv(x) /\ RetiredInv(x) /\ PrivateInv(x) /\ ClosedInv(x))'
  BY DEF TmplInv
<1>4. Published(x)' <=> Published(x)
  BY <1>1 DEF Published, InCache
<1>5. r \notin Users(x) /\ r \notin Storers(x) /\ Storers(x)' = Storers(x)
  BY <1>1, <1>3, OneMoves DEF Users, Storers
<1>6. CASE x = t
  <2>1. Users(t)' = Users(t) \cup {r}
    BY <1>3, OneMoves
  <2>2. Cardinality(Users(t)') = Cardinality(Users(t)) + 1
    BY <1>5, <1>6, <2>1, UsersFinite, FS_AddElement
  <2>3. /\ tmpl[t].closes = 0 /\ ~tmpl[t].destroyed
        /\ tmpl[t].refs = Cardinality(Users(t)) + 1
        /\ Storers(t) = {}
    BY <1>1, <1>2 DEF OwnerInv, TmplInv, PublishedInv, PrivateInv, Storers
  <2>4. /\ tmpl'[t].closes = 0 /\ ~tmpl'[t].destroyed
        /\ tmpl'[t].refs = tmpl[t].refs + 1
    BY <1>1, <2>3, AcquireEffect DEF OwnerInv, TypeOK
  <2> QED
    BY <1>2, <1>4, <1>5, <1>6, <2>1, <2>2, <2>3, <2>4, UsersFinite
       DEF PublishedInv, RetiredInv, PrivateInv, ClosedInv
<1>7. CASE x # t
  <2>1. Users(x)' = Users(x)
    BY <1>3, <1>5, <1>7, OneMoves
  <2>2. tmpl'[x] = tmpl[x]
    BY <1>1, <1>7
  <2> QED  BY <1>4, <1>5, <2>1, <2>2, Unaffected DEF OwnerInv
<1> QED  BY <1>6, <1>7

\* A published template that the cache gives up is retired while it has users
\* and closed when it has none.
LEMMA Withdraw ==
    ASSUME OwnerInv, NEW t \in Tmpls, Published(t), ~(Published(t)'),
           Users(t)' = Users(t), Storers(t)' = Storers(t),
           tmpl'[t] = Close(tmpl[t])
    PROVE  (PublishedInv(t) /\ RetiredInv(t) /\ PrivateInv(t) /\ ClosedInv(t))'
<1>1. /\ tmpl[t] \in Template
      /\ tmpl[t].closes = 0 /\ ~tmpl[t].destroyed
      /\ tmpl[t].refs = Cardinality(Users(t)) + 1
      /\ Storers(t) = {}
  BY DEF OwnerInv, TypeOK, TmplInv, PublishedInv, PrivateInv, Storers
<1>2. /\ tmpl'[t].destroyed
      /\ tmpl'[t].refs = Cardinality(Users(t))
      /\ Users(t) # {} => tmpl'[t].closes = 0
      /\ Users(t) = {} => tmpl'[t].closes = 1
  BY <1>1, CloseEffect, UsersFinite
<1> QED
  BY <1>1, <1>2 DEF PublishedInv, RetiredInv, PrivateInv, ClosedInv

\* cleanupCacheEntry withdraws the template of one entry.
LEMMA StatFailsStep ==
    ASSUME OwnerInv, NEW r \in Requests, StatFails(r)
    PROVE  TmplInv'
<1> DEFINE p == page[r]
<1>1. /\ p \in Pages
      /\ pc[r] = "stat" /\ pc' = [pc EXCEPT ![r] = "idle"]
      /\ exec' = [exec EXCEPT ![r] = NoTmpl]
      /\ cache' = [cache EXCEPT ![p] = NoEntry] /\ entries' = entries
      /\ cache \in [Pages -> Entry \cup {NoEntry}]
      /\ tmpl \in [Tmpls -> Template]
  BY DEF OwnerInv, TypeOK, RequestInv, StatFails, cleanupCacheEntry, Finish
<1>2. /\ \A q \in Requests : q # r => pc'[q] = pc[q] /\ exec'[q] = exec[q]
      /\ pc[r] \notin Using \cup {"store"} /\ pc'[r] \notin Using \cup {"store"}
  BY <1>1 DEF Using, OwnerInv, TypeOK
<1>3. CASE cache[p] = NoEntry
  <2>1. UNCHANGED <<tmpl, cache, entries>>
    BY <1>1, <1>3 DEF StatFails, cleanupCacheEntry
  <2> QED  BY <1>2, <2>1, QuietStep DEF OwnerInv
<1>4. CASE cache[p] # NoEntry
  <2>1. PICK t \in Tmpls : cache[p].tmpl = t
    BY <1>1, <1>4 DEF Entry
  <2>2. tmpl' = [tmpl EXCEPT ![t] = Close(@)]
    BY <1>4, <2>1 DEF StatFails, cleanupCacheEntry
  <2>3. \A q \in Pages : q # p /\ cache[q] # NoEntry => cache[q].tmpl # t
    BY <1>1, <1>4, <2>1 DEF OwnerInv, EntryInv
  <2>4. Published(t) /\ t \notin entries
    BY <1>1, <1>4, <2>1 DEF OwnerInv, EntryInv, Published, InCache
  <2> SUFFICES ASSUME NEW x \in Tmpls
               PROVE  (PublishedInv(x) /\ RetiredInv(x) /\ PrivateInv(x) /\ ClosedInv(x))'
    BY DEF TmplInv
  <2>5. r \notin Users(x) /\ r \notin Storers(x)
    BY <1>2 DEF Users, Storers
  <2>6. Users(x)' = Users(x) /\ Storers(x)' = Storers(x)
    BY <1>2, <2>5, OneMoves
  <2>7. CASE x = t
    <3>1. ~(Published(t)')
      BY <1>1, <2>3, <2>4 DEF Published, InCache
    <3> QED  BY <1>1, <2>2, <2>4, <2>6, <2>7, <3>1, Withdraw
  <2>8. CASE x # t
    <3>1. Published(x)' <=> Published(x)
      BY <1>1, <2>1, <2>8 DEF Published, InCache
    <3> QED  BY <1>1, <2>2, <2>6, <2>8, <3>1, Unaffected DEF OwnerInv
  <2> QED  BY <2>7, <2>8
<1> QED  BY <1>3, <1>4

\* Close of the handler withdraws the templates it took, one at a time.
LEMMA CloseEntryStep ==
    ASSUME OwnerInv, CloseEntry
    PROVE  TmplInv'
<1>1. PICK t \in Tmpls :
        t \in entries /\ tmpl' = [tmpl EXCEPT ![t] = Close(@)] /\ entries' = entries \ {t}
  BY DEF CloseEntry, OwnerInv, TypeOK
<1>2. UNCHANGED <<cache, pc, exec>> /\ tmpl \in [Tmpls -> Template]
  BY DEF CloseEntry, reqVars, OwnerInv, TypeOK
<1>3. ~InCache(t) /\ Published(t)
  BY <1>1 DEF OwnerInv, EntryInv, InCache, Published
<1> SUFFICES ASSUME NEW x \in Tmpls
             PROVE  (PublishedInv(x) /\ RetiredInv(x) /\ PrivateInv(x) /\ ClosedInv(x))'
  BY DEF TmplInv
<1>4. Users(x)' = Users(x) /\ Storers(x)' = Storers(x) /\ (InCache(x)' <=> InCache(x))
  BY <1>2 DEF Users, Storers, InCache
<1>5. CASE x = t
  <2>1. ~(Published(t)')
    BY <1>1, <1>3, <1>4, <1>5 DEF Published
  <2> QED  BY <1>1, <1>2, <1>3, <1>4, <1>5, <2>1, Withdraw
<1>6. CASE x # t
  <2>1. Published(x)' <=> Published(x)
    BY <1>1, <1>4, <1>6 DEF Published
  <2> QED  BY <1>1, <1>2, <1>4, <1>6, <2>1, Unaffected DEF OwnerInv
<1> QED  BY <1>5, <1>6

\* The handler's Close moves every entry to its own list: what is published
\* stays so.
LEMMA CloseHandlerStep ==
    ASSUME OwnerInv, CloseHandler
    PROVE  TmplInv'
<1>1. /\ entries = {} /\ entries' = {t \in Tmpls : InCache(t)}
      /\ cache' = [p \in Pages |-> NoEntry]
      /\ UNCHANGED <<tmpl, pc, exec>>
  BY DEF OwnerInv, EntryInv, CloseHandler, reqVars
<1> SUFFICES ASSUME NEW x \in Tmpls
             PROVE  (PublishedInv(x) /\ RetiredInv(x) /\ PrivateInv(x) /\ ClosedInv(x))'
  BY DEF TmplInv
<1>2. Users(x)' = Users(x) /\ Storers(x)' = Storers(x)
  BY <1>1 DEF Users, Storers
<1>3. Published(x)' <=> Published(x)
  BY <1>1 DEF Published, InCache
<1> QED  BY <1>1, <1>2, <1>3, Unaffected DEF OwnerInv

\* Parsing makes a template that only this request knows.
LEMMA ParseStep ==
    ASSUME OwnerInv, NEW r \in Requests, Parse(r)
    PROVE  TmplInv'
<1>1. PICK t \in Tmpls, c \in opened[r] .. version[page[r]] :
        FreshTmpl(t) /\ tmpl' = [tmpl EXCEPT ![t] = parsed(c)] /\ exec' = [exec EXCEPT ![r] = t]
  BY DEF Parse
<1>2. /\ pc[r] = "parse" /\ pc' = [pc EXCEPT ![r] = "store"]
      /\ UNCHANGED <<cache, entries>>
      /\ tmpl \in [Tmpls -> Template]
  BY DEF Parse, GoTo, handlerVars, OwnerInv, TypeOK
<1>3. /\ \A q \in Requests : q # r => pc'[q] = pc[q] /\ exec'[q] = exec[q]
      /\ pc[r] \notin Using \cup {"store"}
      /\ pc'[r] \notin Using /\ pc'[r] = "store" /\ exec'[r] = t
  BY <1>1, <1>2 DEF Using, OwnerInv, TypeOK
<1> SUFFICES ASSUME NEW x \in Tmpls
             PROVE  (PublishedInv(x) /\ RetiredInv(x) /\ PrivateInv(x) /\ ClosedInv(x))'
  BY DEF TmplInv
<1>4. Published(x)' <=> Published(x)
  BY <1>2 DEF Published, InCache
<1>5. r \notin Users(x) /\ r \notin Storers(x) /\ Users(x)' = Users(x)
  BY <1>3, OneMoves DEF Users, Storers
<1>6. CASE x = t
  <2>1. ~Published(t) /\ Users(t) = {} /\ Storers(t) = {}
    BY <1>1 DEF FreshTmpl, Users, Storers
  <2>2. Storers(t)' = {r}
    BY <1>3, <2>1, OneMoves
  <2>3. tmpl'[t].closes = 0 /\ ~tmpl'[t].destroyed
    BY <1>1, <1>2 DEF parsed
  <2> QED
    BY <1>4, <1>5, <1>6, <2>1, <2>2, <2>3
       DEF PublishedInv, RetiredInv, PrivateInv, ClosedInv
<1>7. CASE x # t
  <2>1. Storers(x)' = Storers(x)
    <3>1. r \notin Storers(x)'
      BY <1>3, <1>7 DEF Storers
    <3>2. \A q \in Requests \ {r} : q \in Storers(x)' <=> q \in Storers(x)
      BY <1>3 DEF Storers
    <3> QED  BY <1>5, <3>1, <3>2 DEF Storers
  <2>2. tmpl'[x] = tmpl[x]
    BY <1>1, <1>7
  <2> QED  BY <1>4, <1>5, <2>1, <2>2, Unaffected DEF OwnerInv
<1> QED  BY <1>6, <1>7

\* A request that finds the handler closed discards what it parsed.
LEMMA StoreClosedStep ==
    ASSUME OwnerInv, NEW r \in Requests, StoreClosed(r)
    PROVE  TmplInv'
<1>1. PICK t \in Tmpls :
        exec[r] = t /\ tmpl' = [tmpl EXCEPT ![t] = discard(@)]
  BY NullAssumption DEF StoreClosed, OwnerInv, TypeOK, RequestInv
<1>2. /\ pc[r] = "store" /\ pc' = [pc EXCEPT ![r] = "idle"]
      /\ exec' = [exec EXCEPT ![r] = NoTmpl]
      /\ UNCHANGED <<cache, entries>>
      /\ tmpl \in [Tmpls -> Template]
  BY DEF StoreClosed, Finish, handlerVars, OwnerInv, TypeOK
<1>3. /\ \A q \in Requests : q # r => pc'[q] = pc[q] /\ exec'[q] = exec[q]
      /\ pc'[r] \notin Using /\ pc'[r] # "store"
  BY <1>2 DEF Using, OwnerInv, TypeOK
<1> SUFFICES ASSUME NEW x \in Tmpls
             PROVE  (PublishedInv(x) /\ RetiredInv(x) /\ PrivateInv(x) /\ ClosedInv(x))'
  BY DEF TmplInv
<1>4. Published(x)' <=> Published(x)
  BY <1>2 DEF Published, InCache
<1>5. r \notin Users(x) /\ Users(x)' = Users(x) /\ Storers(x)' = Storers(x) \ {r}
  BY <1>2, <1>3, OneMoves DEF Users, Using
<1>6. CASE x = t
  <2>1. r \in Storers(t)
    BY <1>1, <1>2 DEF Storers
  <2>2. ~Published(t) /\ Users(t) = {} /\ Storers(t) = {r} /\ tmpl[t].closes = 0
    BY <2>1 DEF OwnerInv, TmplInv, PrivateInv
  <2>3. tmpl'[t].closes = 1
    BY <1>1, <1>2, <2>2, DiscardEffect
  <2> QED
    BY <1>4, <1>5, <1>6, <2>2, <2>3 DEF PublishedInv, RetiredInv, PrivateInv, ClosedInv
<1>7. CASE x # t
  <2>1. Storers(x)' = Storers(x)
    BY <1>1, <1>5, <1>7 DEF Storers
  <2>2. tmpl'[x] = tmpl[x]
    BY <1>1, <1>7
  <2> QED  BY <1>4, <1>5, <2>1, <2>2, Unaffected DEF OwnerInv
<1> QED  BY <1>6, <1>7

\* A request gives its reference back: the last one of a retired template
\* closes it.
LEMMA ReleaseStep ==
    ASSUME OwnerInv, NEW r \in Requests, Release(r)
    PROVE  TmplInv'
<1>1. PICK t \in Tmpls :
        exec[r] = t /\ tmpl' = [tmpl EXCEPT ![t] = release(@)]
  BY NullAssumption DEF Release, OwnerInv, TypeOK, RequestInv, Using
<1>2. /\ pc[r] = "defers" /\ pc' = [pc EXCEPT ![r] = "idle"]
      /\ exec' = [exec EXCEPT ![r] = NoTmpl]
      /\ UNCHANGED <<cache, entries>>
      /\ tmpl \in [Tmpls -> Template]
  BY DEF Release, Finish, handlerVars, OwnerInv, TypeOK
<1>3. /\ \A q \in Requests : q # r => pc'[q] = pc[q] /\ exec'[q] = exec[q]
      /\ pc'[r] \notin Using /\ pc'[r] # "store"
  BY <1>2 DEF Using, OwnerInv, TypeOK
<1> SUFFICES ASSUME NEW x \in Tmpls
             PROVE  (PublishedInv(x) /\ RetiredInv(x) /\ PrivateInv(x) /\ ClosedInv(x))'
  BY DEF TmplInv
<1>4. Published(x)' <=> Published(x)
  BY <1>2 DEF Published, InCache
<1>5. r \notin Storers(x) /\ Storers(x)' = Storers(x) /\ Users(x)' = Users(x) \ {r}
  BY <1>2, <1>3, OneMoves DEF Storers
<1>6. CASE x = t
  <2>1. r \in Users(t)
    BY <1>1, <1>2 DEF Users, Using
  <2>2. Cardinality(Users(t)') = Cardinality(Users(t)) - 1
    BY <1>5, <1>6, <2>1, UsersFinite, FS_RemoveElement
  <2>3. Cardinality(Users(t)) >= 1 /\ (Cardinality(Users(t)) = 1 <=> Users(t)' = {})
    <3>1. IsFiniteSet(Users(t)')
      BY <1>5, <1>6, UsersFinite, FS_RemoveElement
    <3>2. Cardinality(Users(t)') = 0 <=> Users(t)' = {}
      BY <3>1, FS_EmptySet
    <3> QED  BY <2>1, <2>2, <3>2, UsersFinite
  <2>4. Storers(t) = {} /\ tmpl[t].closes = 0
    BY <2>1 DEF OwnerInv, TmplInv, PublishedInv, RetiredInv, PrivateInv, Storers
  <2>5. CASE Published(t)
    <3>1. ~tmpl[t].destroyed /\ tmpl[t].refs = Cardinality(Users(t)) + 1
      BY <2>5 DEF OwnerInv, TmplInv, PublishedInv
    <3>2. /\ tmpl'[t].closes = 0 /\ ~tmpl'[t].destroyed
          /\ tmpl'[t].refs = Cardinality(Users(t))
      BY <1>1, <1>2, <2>4, <3>1, ReleaseEffect, UsersFinite
    <3>3. tmpl'[t].refs = Cardinality(Users(t)') + 1
      BY <2>2, <3>2, UsersFinite
    <3> QED
      BY <1>4, <1>5, <1>6, <2>4, <2>5, <3>2, <3>3
         DEF PublishedInv, RetiredInv, PrivateInv, ClosedInv
  <2>6. CASE ~Published(t)
    <3>1. tmpl[t].destroyed /\ tmpl[t].refs = Cardinality(Users(t))
      BY <2>1, <2>6 DEF OwnerInv, TmplInv, RetiredInv
    <3>2. /\ tmpl'[t].destroyed
          /\ tmpl'[t].refs = Cardinality(Users(t)) - 1
          /\ tmpl'[t].closes = IF Cardinality(Users(t)) <= 1 THEN 1 ELSE 0
      BY <1>1, <1>2, <2>4, <3>1, ReleaseEffect
    <3> QED
      BY <1>4, <1>5, <1>6, <2>2, <2>3, <2>4, <2>6, <3>2, UsersFinite
         DEF PublishedInv, RetiredInv, PrivateInv, ClosedInv
  <2> QED  BY <2>5, <2>6
<1>7. CASE x # t
  <2>1. Users(x)' = Users(x)
    BY <1>1, <1>5, <1>7 DEF Users
  <2>2. tmpl'[x] = tmpl[x]
    BY <1>1, <1>7
  <2> QED  BY <1>4, <1>5, <2>1, <2>2, Unaffected DEF OwnerInv
<1> QED  BY <1>6, <1>7

\* Storing publishes the request's own template, with the request as its one
\* user, and withdraws the template of the entry it replaces.
LEMMA StoreStep ==
    ASSUME OwnerInv, NEW r \in Requests, Store(r)
    PROVE  TmplInv'
<1> DEFINE p == page[r]
           old == IF cache[p] = NoEntry THEN tmpl
                  ELSE [tmpl EXCEPT ![cache[p].tmpl] = Close(@)]
<1>1. PICK t \in Tmpls : exec[r] = t
  BY NullAssumption DEF Store, OwnerInv, TypeOK, RequestInv
<1>2. /\ p \in Pages
      /\ pc[r] = "store" /\ pc' = [pc EXCEPT ![r] = "execute"]
      /\ exec' = [exec EXCEPT ![r] = t]
      /\ cache' = [cache EXCEPT ![p] = [tmpl |-> t, mtime |-> modeTime[r]]]
      /\ entries' = entries
      /\ tmpl' = [old EXCEPT ![t] = acquire(wrap(@))]
      /\ tmpl \in [Tmpls -> Template]
      /\ cache \in [Pages -> Entry \cup {NoEntry}]
      /\ modeTime[r] \in Nat
  BY <1>1 DEF Store, Run, GoTo, OwnerInv, TypeOK, RequestInv
<1>3. /\ \A q \in Requests : q # r => pc'[q] = pc[q] /\ exec'[q] = exec[q]
      /\ pc'[r] \in Using /\ pc'[r] # "store" /\ exec'[r] = t
  BY <1>2 DEF Using, OwnerInv, TypeOK
<1>4. /\ r \in Storers(t)
      /\ ~Published(t) /\ Users(t) = {} /\ Storers(t) = {r}
      /\ tmpl[t].closes = 0 /\ ~tmpl[t].destroyed
  BY <1>1, <1>2 DEF Storers, OwnerInv, TmplInv, PrivateInv
<1>5. [tmpl |-> t, mtime |-> modeTime[r]] # NoEntry
  BY <1>2, NullAssumption DEF Entry
<1>6. /\ \A q \in Pages : q # p => cache'[q] = cache[q]
      /\ cache'[p] # NoEntry /\ cache'[p].tmpl = t
  BY <1>2, <1>5
<1>7. old \in [Tmpls -> Template] /\ old[t] = tmpl[t]
  <2>1. CASE cache[p] = NoEntry
    BY <1>2, <2>1
  <2>2. CASE cache[p] # NoEntry
    <3>1. PICK e \in Entry : cache[p] = e
      BY <1>2, <2>2
    <3>2. e.tmpl \in Tmpls /\ tmpl[e.tmpl] \in Template
      BY <1>2, <3>1 DEF Entry
    <3>3. e.tmpl # t
      BY <1>2, <1>4, <2>2, <3>1 DEF Published, InCache
    <3>4. Close(tmpl[e.tmpl]) \in Template
      BY <3>2, CloseEffect
    <3> QED  BY <1>2, <2>2, <3>1, <3>2, <3>3, <3>4
  <2> QED  BY <2>1, <2>2
<1>8. /\ tmpl'[t].refs = 2 /\ ~tmpl'[t].destroyed
      /\ tmpl'[t].closes = 0
      /\ \A x \in Tmpls : x # t => tmpl'[x] = old[x]
  <2> HIDE DEF old
  <2>1. wrap(old[t]) \in Template
    BY <1>7, WrapEffect
  <2>2. acquire(wrap(old[t])).refs = wrap(old[t]).refs + 1
    BY <2>1, AcquireEffect
  <2> QED  BY <1>2, <1>4, <1>7, <2>1, <2>2, WrapEffect, AcquireEffect
<1> HIDE DEF old, p
<1> SUFFICES ASSUME NEW x \in Tmpls
             PROVE  (PublishedInv(x) /\ RetiredInv(x) /\ PrivateInv(x) /\ ClosedInv(x))'
  BY DEF TmplInv
<1>9. CASE x = t
  <2>1. Users(t)' = {r}
    BY <1>3, <1>4, OneMoves
  <2>2. Storers(t)' = {}
    BY <1>3, <1>4, OneMoves
  <2>3. Published(t)'
    BY <1>2, <1>6 DEF Published, InCache, p
  <2>4. Cardinality(Users(t)') = 1
    BY <2>1, FS_Singleton
  <2> QED
    BY <1>8, <1>9, <2>1, <2>2, <2>3, <2>4
       DEF PublishedInv, RetiredInv, PrivateInv, ClosedInv
<1>10. CASE x # t
  <2>1. r \notin Users(x) /\ r \notin Storers(x)
    BY <1>1, <1>2, <1>10 DEF Users, Storers, Using
  <2>2. Users(x)' = Users(x) /\ Storers(x)' = Storers(x)
    BY <1>3, <1>10, <2>1, OneMoves
  <2>3. CASE cache[p] # NoEntry /\ cache[p].tmpl = x
    <3>1. Published(x) /\ tmpl'[x] = Close(tmpl[x])
      BY <1>2, <1>8, <1>10, <2>3 DEF Published, InCache, old
    <3>2. /\ x \notin entries
          /\ \A q \in Pages : q # p /\ cache[q] # NoEntry => cache[q].tmpl # x
      BY <1>2, <2>3 DEF OwnerInv, EntryInv
    <3>3. ~(Published(x)')
      BY <1>2, <1>6, <1>10, <3>2 DEF Published, InCache
    <3> QED  BY <2>2, <3>1, <3>3, Withdraw
  <2>4. CASE ~(cache[p] # NoEntry /\ cache[p].tmpl = x)
    <3>1. tmpl'[x] = tmpl[x]
      BY <1>2, <1>8, <1>10, <2>4 DEF old
    <3>2. Published(x)' <=> Published(x)
      BY <1>2, <1>6, <1>10, <2>4 DEF Published, InCache
    <3> QED  BY <2>2, <3>1, <3>2, Unaffected DEF OwnerInv
  <2> QED  BY <2>3, <2>4
<1> QED  BY <1>9, <1>10

-----------------------------------------------------------------------------
(* The invariant. *)

\* The empty cache of a new handler satisfies the invariant.
LEMMA OwnerInit == Init => OwnerInv
<1> SUFFICES ASSUME Init PROVE OwnerInv
  OBVIOUS
<1> USE NullAssumption DEF Init
<1>1. TypeOK
  <2>1. tmpl \in [Tmpls -> Template]
    BY DEF Template
  <2> QED  BY <2>1 DEF TypeOK, PCs
<1>2. RequestInv
  BY DEF RequestInv, Using
<1>3. EntryInv /\ NothingCachedOnceClosed
  BY DEF EntryInv, NothingCachedOnceClosed
<1>4. TmplInv
  BY DEF TmplInv, PublishedInv, RetiredInv, PrivateInv, ClosedInv, Published, InCache,
         Users, Storers, Using
<1> QED  BY <1>1, <1>2, <1>3, <1>4 DEF OwnerInv

\* Every step of a request, of the file system and of Close keeps it.
LEMMA OwnerStep == OwnerInv /\ [Next]_vars => OwnerInv'
<1> SUFFICES ASSUME OwnerInv, [Next]_vars PROVE OwnerInv'
  OBVIOUS
<1>1. TypeOK' /\ RequestInv' /\ EntryInv' /\ NothingCachedOnceClosed'
  BY TypeStep, EntryStep DEF OwnerInv
<1> SUFFICES TmplInv'
  BY <1>1 DEF OwnerInv
<1>2. ASSUME NEW r \in Requests, ServeHTTP(r) \/ Step(r)
      PROVE  TmplInv'
  <2>1. CASE StatFails(r)
    BY <2>1, StatFailsStep
  <2>2. CASE LookupHit(r) \/ RecheckHit(r)
    BY <2>2, HitStep
  <2>3. CASE Parse(r)
    BY <2>3, ParseStep
  <2>4. CASE Store(r)
    BY <2>4, StoreStep
  <2>5. CASE StoreClosed(r)
    BY <2>5, StoreClosedStep
  <2>6. CASE Execute(r)
    <3>1. /\ pc[r] = "execute" /\ pc' = [pc EXCEPT ![r] = "defers"]
          /\ UNCHANGED <<tmpl, cache, entries, exec>> /\ pc \in [Requests -> PCs]
      BY <2>6 DEF Execute, GoTo, handlerVars, OwnerInv, TypeOK
    <3> SUFFICES ASSUME NEW t \in Tmpls
                 PROVE  (PublishedInv(t) /\ RetiredInv(t) /\ PrivateInv(t) /\ ClosedInv(t))'
      BY DEF TmplInv
    <3>2. Users(t)' = Users(t) /\ Storers(t)' = Storers(t)
      BY <3>1 DEF Users, Storers, Using
    <3>3. Published(t)' <=> Published(t)
      BY <3>1 DEF Published, InCache
    <3> QED  BY <3>1, <3>2, <3>3, Unaffected DEF OwnerInv
  <2>7. CASE Release(r)
    BY <2>7, ReleaseStep
  <2>8. CASE \/ ServeHTTP(r) \/ Stat(r) \/ StatIsDir(r) \/ LookupMiss(r) \/ OpenFile(r)
             \/ GetPathLock(r) \/ GetPathLockClosed(r) \/ LockPath(r)
             \/ RecheckMiss(r) \/ RecheckClosed(r) \/ ParseFails(r)
    <3>1. /\ \A q \in Requests : q # r => pc'[q] = pc[q] /\ exec'[q] = exec[q]
          /\ pc[r] \notin Using \cup {"store"} /\ pc'[r] \notin Using \cup {"store"}
      BY <2>8 DEF ServeHTTP, Stat, StatIsDir, LookupMiss, OpenFile, GetPathLock,
         GetPathLockClosed, LockPath, RecheckMiss, RecheckClosed, ParseFails, GoTo,
         Finish, Using, OwnerInv, TypeOK
    <3>2. UNCHANGED <<tmpl, cache, entries>>
      BY <2>8 DEF ServeHTTP, Stat, StatIsDir, LookupMiss, OpenFile, GetPathLock,
         GetPathLockClosed, LockPath, RecheckMiss, RecheckClosed, ParseFails, handlerVars
    <3> QED  BY <3>1, <3>2, QuietStep DEF OwnerInv
  <2> QED
    BY <1>2, <2>1, <2>2, <2>3, <2>4, <2>5, <2>6, <2>7, <2>8 DEF Step
<1>3. ASSUME UNCHANGED <<tmpl, cache, entries, pc, exec>>
      PROVE  TmplInv'
  <2> SUFFICES ASSUME NEW t \in Tmpls
               PROVE  (PublishedInv(t) /\ RetiredInv(t) /\ PrivateInv(t) /\ ClosedInv(t))'
    BY DEF TmplInv
  <2>1. Users(t)' = Users(t) /\ Storers(t)' = Storers(t) /\ (Published(t)' <=> Published(t))
    BY <1>3 DEF Users, Storers, Published, InCache
  <2> QED  BY <1>3, <2>1, Unaffected DEF OwnerInv
<1>4. ASSUME NEW p \in Pages, WriteFile(p) \/ RemoveFile(p)
      PROVE  TmplInv'
  BY <1>3, <1>4 DEF WriteFile, RemoveFile, handlerVars, reqVars
<1>5. CASE CloseHandler
  BY <1>5, CloseHandlerStep
<1>6. CASE CloseEntry
  BY <1>6, CloseEntryStep
<1>7. CASE UNCHANGED vars
  BY <1>3, <1>7 DEF vars, handlerVars, reqVars
<1> QED
  BY <1>2, <1>4, <1>5, <1>6, <1>7 DEF Next, ServeHTTPClosed

\* The invariant above holds in every state of every run of the cache.
THEOREM OwnerInvariant == Spec => []OwnerInv
BY OwnerInit, OwnerStep, PTL DEF Spec

-----------------------------------------------------------------------------
(* What the runs check, for any number of requests, pages and versions. *)

\* Every variable has its type.
THEOREM TypeCorrect == Spec => []TypeOK
<1>1. OwnerInv => TypeOK
  BY DEF OwnerInv
<1> QED  BY <1>1, OwnerInvariant, PTL

\* No request executes, or runs its deferred calls with, a template that was
\* really closed.
THEOREM UseSafe == Spec => []NoUseAfterClose
<1>1. OwnerInv => NoUseAfterClose
  <2> SUFFICES ASSUME OwnerInv, NEW r \in Requests, pc[r] \in Using
               PROVE  tmpl[exec[r]].closes = 0
    BY DEF NoUseAfterClose
  <2>1. exec[r] \in Tmpls /\ r \in Users(exec[r])
    BY DEF OwnerInv, TypeOK, RequestInv, Users
  <2> QED  BY <2>1 DEF OwnerInv, TmplInv, PublishedInv, RetiredInv
<1> QED  BY <1>1, OwnerInvariant, PTL

\* No template is really closed twice.
THEOREM CloseOnce == Spec => []ClosedAtMostOnce
<1>1. OwnerInv => ClosedAtMostOnce
  <2> SUFFICES ASSUME OwnerInv, NEW t \in Tmpls
               PROVE  tmpl[t].closes <= 1
    BY DEF ClosedAtMostOnce
  <2>1. \/ Published(t) \/ Users(t) # {}
        \/ \E r \in Requests : r \in Storers(t)
        \/ ~Published(t) /\ Users(t) = {} /\ Storers(t) = {}
    BY DEF Storers
  <2>2. tmpl[t].closes = 0 \/ tmpl[t].closes = 1
    BY <2>1 DEF OwnerInv, TmplInv, PublishedInv, RetiredInv, PrivateInv, ClosedInv
  <2> QED  BY <2>2
<1> QED  BY <1>1, OwnerInvariant, PTL

\* refs is the number of requests using the template, plus one while the cache
\* or Close's list holds it.
THEOREM CountsExact == Spec => []RefsCountHolders
<1>1. OwnerInv => RefsCountHolders
  <2> SUFFICES ASSUME OwnerInv, NEW t \in Tmpls, Published(t) \/ Users(t) # {}
               PROVE  /\ tmpl[t].refs = Cardinality(Users(t)) + (IF Published(t) THEN 1 ELSE 0)
                      /\ tmpl[t].destroyed <=> ~Published(t)
    BY DEF RefsCountHolders
  <2>1. CASE Published(t)
    BY <2>1, UsersFinite DEF OwnerInv, TmplInv, PublishedInv
  <2>2. CASE ~Published(t)
    BY <2>2, UsersFinite DEF OwnerInv, TmplInv, RetiredInv
  <2> QED  BY <2>1, <2>2
<1> QED  BY <1>1, OwnerInvariant, PTL

\* A template that is not closed is within reach of something that closes it.
THEOREM NothingLeaks == Spec => []NoLeak
<1>1. OwnerInv => NoLeak
  <2> SUFFICES ASSUME OwnerInv, NEW t \in Tmpls, tmpl[t].closes = 0, ~Published(t)
               PROVE  \E r \in Requests : exec[r] = t
    BY DEF NoLeak
  <2>1. Users(t) # {} \/ Storers(t) # {}
    BY DEF OwnerInv, TmplInv, ClosedInv
  <2> QED  BY <2>1 DEF Users, Storers
<1> QED  BY <1>1, OwnerInvariant, PTL

\* A closed handler caches nothing, whatever was under way when it closed.
THEOREM ClosedStaysEmpty == Spec => []NothingCachedOnceClosed
<1>1. OwnerInv => NothingCachedOnceClosed
  BY DEF OwnerInv
<1> QED  BY <1>1, OwnerInvariant, PTL

-----------------------------------------------------------------------------
(* Versions of a page. *)

\* What a request reads is at least as new as the time it saw, and what it
\* stores under that time is too.
RequestFile(r) ==
    /\ pc[r] # "idle" => modeTime[r] <= version[page[r]]
    /\ opened[r] # 0 => /\ pc[r] # "idle"
                        /\ modeTime[r] <= opened[r] /\ opened[r] <= version[page[r]]
    /\ pc[r] \in Using \cup {"store"} => modeTime[r] <= tmpl[exec[r]].content
    /\ pc[r] = "store" => tmpl[exec[r]].content <= version[page[r]]
    /\ pc[r] \in {"idle", "stat"} => modeTime[r] = 0 /\ opened[r] = 0

EntryFile(p) ==
    cache[p] # NoEntry => /\ cache[p].mtime <= tmpl[cache[p].tmpl].content
                          /\ tmpl[cache[p].tmpl].content <= version[p]

FileInv == /\ \A r \in Requests : RequestFile(r)
           /\ \A p \in Pages : EntryFile(p)

\* Only parsing gives a template its content.
LEMMA ContentKept ==
    ASSUME OwnerInv, [Next]_vars, \A r \in Requests : ~Parse(r)
    PROVE  \A x \in Tmpls : tmpl'[x].content = tmpl[x].content
<1> USE DEF OwnerInv, TypeOK, RequestInv, Entry
<1>1. ASSUME NEW r \in Requests, StatFails(r)
      PROVE  \A x \in Tmpls : tmpl'[x].content = tmpl[x].content
  BY <1>1, CloseEffect DEF StatFails, cleanupCacheEntry
<1>2. ASSUME NEW r \in Requests, LookupHit(r) \/ RecheckHit(r)
      PROVE  \A x \in Tmpls : tmpl'[x].content = tmpl[x].content
  BY <1>2, AcquireEffect DEF LookupHit, RecheckHit, TakeHit
<1>3. ASSUME NEW r \in Requests, Store(r)
      PROVE  \A x \in Tmpls : tmpl'[x].content = tmpl[x].content
  <2> DEFINE p == page[r]
             old == IF cache[p] = NoEntry THEN tmpl
                    ELSE [tmpl EXCEPT ![cache[p].tmpl] = Close(@)]
  <2>1. /\ old \in [Tmpls -> Template]
        /\ \A x \in Tmpls : old[x].content = tmpl[x].content
    <3>1. /\ tmpl \in [Tmpls -> Template] /\ cache[p] \in Entry \cup {NoEntry}
      BY <1>3 DEF Store
    <3>2. CASE cache[p] = NoEntry
      BY <3>1, <3>2
    <3>3. CASE cache[p] # NoEntry
      <4>1. PICK t \in Tmpls : cache[p].tmpl = t
        BY <3>1, <3>3
      <4>2. /\ tmpl[t] \in Template /\ Close(tmpl[t]) \in Template
            /\ Close(tmpl[t]).content = tmpl[t].content
        BY <3>1, CloseEffect
      <4> QED  BY <3>1, <3>3, <4>1, <4>2
    <3> QED  BY <3>2, <3>3
  <2>2. tmpl' = [old EXCEPT ![exec[r]] = acquire(wrap(@))]
    BY <1>3 DEF Store
  <2> HIDE DEF old, p
  <2>3. \A x \in Tmpls : acquire(wrap(old[x])).content = old[x].content
    BY <2>1, WrapEffect, AcquireEffect
  <2> QED  BY <2>1, <2>2, <2>3
<1>4. ASSUME NEW r \in Requests, StoreClosed(r)
      PROVE  \A x \in Tmpls : tmpl'[x].content = tmpl[x].content
  BY <1>4, DiscardEffect DEF StoreClosed
<1>5. ASSUME NEW r \in Requests, Release(r)
      PROVE  \A x \in Tmpls : tmpl'[x].content = tmpl[x].content
  BY <1>5, ReleaseEffect DEF Release
<1>6. CASE CloseEntry
  BY <1>6, CloseEffect DEF CloseEntry
<1>7. ASSUME NEW r \in Requests, Step(r)
      PROVE  \A x \in Tmpls : tmpl'[x].content = tmpl[x].content
  <2>1. \/ StatFails(r) \/ LookupHit(r) \/ RecheckHit(r) \/ Store(r) \/ StoreClosed(r)
        \/ Release(r) \/ UNCHANGED tmpl
    BY <1>7 DEF Step, Stat, StatIsDir, LookupMiss, OpenFile, GetPathLock,
       GetPathLockClosed, LockPath, RecheckMiss, RecheckClosed, ParseFails, Execute
  <2> QED  BY <2>1, <1>1, <1>2, <1>3, <1>4, <1>5
<1>8. CASE UNCHANGED tmpl
  BY <1>8
<1> QED
  BY <1>6, <1>7, <1>8 DEF Next, ServeHTTP, ServeHTTPClosed, WriteFile, RemoveFile,
     CloseHandler, vars

\* A request that does not move keeps its part while files only get newer.
LEMMA RequestFileKept ==
    ASSUME OwnerInv, TypeOK', NEW q \in Requests, RequestFile(q),
           pc'[q] = pc[q], page'[q] = page[q], modeTime'[q] = modeTime[q],
           opened'[q] = opened[q], exec'[q] = exec[q],
           \A p \in Pages : version[p] <= version'[p],
           exec[q] \in Tmpls => tmpl'[exec[q]].content = tmpl[exec[q]].content
    PROVE  RequestFile(q)'
<1>1. /\ pc[q] # "idle" => page[q] \in Pages
      /\ pc[q] \in Using \cup {"store"} => exec[q] \in Tmpls
      /\ modeTime[q] \in Nat /\ opened[q] \in Nat
      /\ opened[q] # 0 => page[q] \in Pages
  BY DEF OwnerInv, TypeOK, RequestInv, RequestFile
<1>2. \A p \in Pages : version[p] \in Nat /\ version'[p] \in Nat
  BY DEF OwnerInv, TypeOK
<1>3. \A x \in Tmpls : tmpl[x].content \in Nat
  BY DEF OwnerInv, TypeOK, Template
<1> QED  BY <1>1, <1>2, <1>3 DEF RequestFile

\* So does an entry that stays.
LEMMA EntryFileKept ==
    ASSUME OwnerInv, TypeOK', NEW p \in Pages, EntryFile(p),
           cache'[p] = cache[p] \/ cache'[p] = NoEntry,
           version[p] <= version'[p],
           cache[p] # NoEntry =>
             tmpl'[cache[p].tmpl].content = tmpl[cache[p].tmpl].content
    PROVE  EntryFile(p)'
<1>1. version[p] \in Nat /\ version'[p] \in Nat
  BY DEF OwnerInv, TypeOK
<1>2. cache[p] # NoEntry => tmpl[cache[p].tmpl].content \in Nat
  BY DEF OwnerInv, TypeOK, Entry, Template
<1> QED  BY <1>1, <1>2 DEF EntryFile

\* A step of a request that neither parses nor stores: its own part is what is
\* left to show.
LEMMA OneRequestFile ==
    ASSUME OwnerInv, FileInv, [Next]_vars, NEW r \in Requests,
           \A q \in Requests : ~Parse(q),
           UNCHANGED version,
           \A q \in Requests : q # r =>
             /\ pc'[q] = pc[q] /\ page'[q] = page[q] /\ modeTime'[q] = modeTime[q]
             /\ opened'[q] = opened[q] /\ exec'[q] = exec[q],
           \A p \in Pages : cache'[p] = cache[p] \/ cache'[p] = NoEntry,
           RequestFile(r)'
    PROVE  FileInv'
<1>1. TypeOK' /\ \A p \in Pages : version[p] <= version'[p]
  BY TypeStep DEF OwnerInv, TypeOK
<1>2. \A x \in Tmpls : tmpl'[x].content = tmpl[x].content
  BY ContentKept
<1>3. ASSUME NEW q \in Requests PROVE RequestFile(q)'
  <2>1. CASE q = r
    BY <2>1
  <2>2. CASE q # r
    BY <1>1, <1>2, <2>2, RequestFileKept DEF FileInv
  <2> QED  BY <2>1, <2>2
<1>4. ASSUME NEW p \in Pages PROVE EntryFile(p)'
  <2>1. cache[p] # NoEntry => cache[p].tmpl \in Tmpls
    BY DEF OwnerInv, TypeOK, Entry
  <2> QED  BY <1>1, <1>2, <2>1, EntryFileKept DEF FileInv
<1> QED  BY <1>3, <1>4 DEF FileInv

\* The step of a request that neither parses nor stores keeps FileInv.
LEMMA RequestFileStep ==
    ASSUME OwnerInv, FileInv, NEW r \in Requests,
           ServeHTTP(r) \/ (Step(r) /\ ~Parse(r) /\ ~Store(r))
    PROVE  FileInv'
<1> USE DEF Using
<1>1. [Next]_vars /\ TypeOK'
  BY TypeStep DEF Next, OwnerInv
<1>2. \A q \in Requests : ~Parse(q)
  <2> SUFFICES ASSUME NEW q \in Requests, Parse(q) PROVE FALSE
    OBVIOUS
  <2>1. pc[q] = "parse" /\ pc'[q] = "store" /\ pc \in [Requests -> PCs]
    BY DEF Parse, GoTo, OwnerInv, TypeOK
  <2>2. CASE ServeHTTP(r) \/ Stat(r) \/ StatFails(r) \/ StatIsDir(r)
    BY <2>1, <2>2 DEF ServeHTTP, Stat, StatFails, StatIsDir, GoTo, Finish, OwnerInv, TypeOK
  <2>3. CASE LookupMiss(r) \/ OpenFile(r) \/ GetPathLock(r)
    BY <2>1, <2>3 DEF LookupMiss, OpenFile, GetPathLock, GoTo, Finish
  <2>4. CASE GetPathLockClosed(r) \/ LockPath(r) \/ RecheckMiss(r)
    BY <2>1, <2>4 DEF GetPathLockClosed, LockPath, RecheckMiss, GoTo, Finish
  <2>6. CASE LookupHit(r) \/ RecheckHit(r)
    BY <2>1, <2>6 DEF LookupHit, RecheckHit, GoTo, TakeHit, Run
  <2>5. CASE RecheckClosed(r) \/ ParseFails(r) \/ StoreClosed(r) \/ Execute(r) \/ Release(r)
    BY <2>1, <2>5 DEF RecheckClosed, ParseFails, StoreClosed, Execute, Release, GoTo, Finish
  <2> QED  BY <2>1, <2>2, <2>3, <2>4, <2>5, <2>6 DEF Step
<1>3. \A x \in Tmpls : tmpl'[x].content = tmpl[x].content /\ tmpl[x].content \in Nat
  BY <1>1, <1>2, ContentKept DEF OwnerInv, TypeOK, Template
<1>4. /\ RequestFile(r)
      /\ pc[r] # "idle" => page[r] \in Pages /\ version[page[r]] \in Nat
      /\ modeTime[r] \in Nat /\ opened[r] \in Nat
  BY DEF FileInv, OwnerInv, TypeOK, RequestInv
<1>5. /\ pc \in [Requests -> PCs] /\ page \in [Requests -> Pages \cup {NoPage}]
      /\ modeTime \in [Requests -> Nat] /\ opened \in [Requests -> Nat]
      /\ exec \in [Requests -> Tmpls \cup {NoTmpl}]
      /\ cache \in [Pages -> Entry \cup {NoEntry}] /\ version \in [Pages -> Nat]
  BY DEF OwnerInv, TypeOK
<1>6. /\ UNCHANGED version
      /\ \A q \in Requests : q # r =>
           /\ pc'[q] = pc[q] /\ page'[q] = page[q] /\ modeTime'[q] = modeTime[q]
           /\ opened'[q] = opened[q] /\ exec'[q] = exec[q]
      /\ \A p \in Pages : cache'[p] = cache[p] \/ cache'[p] = NoEntry
      /\ RequestFile(r)'
  <2>1. CASE ServeHTTP(r)
    <3>1. page'[r] \in Pages /\ version[page'[r]] \in Nat
      BY <1>5, <2>1 DEF ServeHTTP
    <3> QED  BY <1>4, <1>5, <2>1, <3>1 DEF ServeHTTP, GoTo, fileVars, handlerVars, RequestFile
  <2>2. CASE Stat(r)
    <3>1. opened[r] = 0
      BY <1>4, <2>2 DEF Stat, RequestFile
    <3> QED  BY <1>4, <1>5, <2>2, <3>1 DEF Stat, GoTo, fileVars, handlerVars, RequestFile
  <2>3. CASE StatFails(r)
    BY <1>5, <2>3 DEF StatFails, cleanupCacheEntry, Finish, fileVars, RequestFile
  <2>4. CASE StatIsDir(r) \/ GetPathLockClosed(r) \/ RecheckClosed(r) \/ ParseFails(r)
               \/ StoreClosed(r) \/ Release(r)
    BY <1>5, <2>4 DEF StatIsDir, GetPathLockClosed, RecheckClosed, ParseFails, StoreClosed,
       Release, Finish, fileVars, handlerVars, RequestFile
  <2>5. CASE LookupHit(r) \/ RecheckHit(r)
    <3>1. /\ page[r] \in Pages /\ cache[page[r]] \in Entry
          /\ cache[page[r]].mtime = modeTime[r] /\ pc[r] # "idle"
      BY <1>4, <1>5, <2>5 DEF LookupHit, RecheckHit, Hit
    <3>2. /\ pc' = [pc EXCEPT ![r] = "execute"]
          /\ exec' = [exec EXCEPT ![r] = cache[page[r]].tmpl]
          /\ opened' = [opened EXCEPT ![r] = 0]
          /\ UNCHANGED <<page, modeTime, version, cache>>
      BY <2>5 DEF LookupHit, RecheckHit, TakeHit, Run, GoTo, fileVars, handlerVars
    <3>3. cache[page[r]].tmpl \in Tmpls /\ cache[page[r]] # NoEntry
      BY <3>1, NullAssumption DEF Entry
    <3>4. modeTime[r] <= tmpl[cache[page[r]].tmpl].content
      BY <3>1, <3>3 DEF FileInv, EntryFile
    <3> QED  BY <1>3, <1>4, <1>5, <3>1, <3>2, <3>3, <3>4 DEF RequestFile
  <2>6. CASE OpenFile(r)
    BY <1>4, <1>5, <2>6 DEF OpenFile, Finish, GoTo, fileVars, handlerVars, RequestFile
  <2>7. CASE LookupMiss(r) \/ LockPath(r) \/ RecheckMiss(r) \/ GetPathLock(r)
    BY <1>4, <1>5, <2>7 DEF LookupMiss, LockPath, RecheckMiss, GetPathLock, GoTo,
       fileVars, handlerVars, RequestFile
  <2>8. CASE Execute(r)
    <3>1. exec[r] \in Tmpls
      BY <2>8 DEF Execute, OwnerInv, TypeOK, RequestInv
    <3> QED  BY <1>3, <1>4, <1>5, <2>8, <3>1 DEF Execute, GoTo, fileVars, handlerVars, RequestFile
  <2> QED
    BY <2>1, <2>2, <2>3, <2>4, <2>5, <2>6, <2>7, <2>8 DEF Step
<1> QED  BY <1>1, <1>2, <1>6, OneRequestFile

\* Every step keeps each request and each entry no older than what it saw.
LEMMA FileStep == OwnerInv /\ FileInv /\ [Next]_vars => FileInv'
<1> SUFFICES ASSUME OwnerInv, FileInv, [Next]_vars PROVE FileInv'
  OBVIOUS
<1>1. TypeOK' /\ TypeOK
  BY TypeStep DEF OwnerInv
<1>2. ASSUME NEW r \in Requests, ServeHTTP(r) \/ (Step(r) /\ ~Parse(r) /\ ~Store(r))
      PROVE  FileInv'
  BY <1>2, RequestFileStep
<1>3. ASSUME NEW r \in Requests, Parse(r)
      PROVE  FileInv'
  <2>1. PICK t \in Tmpls, c \in opened[r] .. version[page[r]] :
          FreshTmpl(t) /\ tmpl' = [tmpl EXCEPT ![t] = parsed(c)] /\ exec' = [exec EXCEPT ![r] = t]
    BY <1>3 DEF Parse
  <2>2. /\ pc[r] = "parse" /\ opened[r] > 0 /\ pc' = [pc EXCEPT ![r] = "store"]
        /\ UNCHANGED <<version, cache, page, modeTime, opened>>
    BY <1>3 DEF Parse, GoTo, fileVars, handlerVars
  <2>3. \A p \in Pages : version[p] \in Nat /\ version[p] <= version'[p]
    BY <1>1, <2>2 DEF TypeOK
  <2>4. /\ \A x \in Tmpls : x # t => tmpl'[x].content = tmpl[x].content
        /\ tmpl'[t].content = c
    BY <1>1, <2>1 DEF parsed, TypeOK
  <2>5. ASSUME NEW q \in Requests PROVE RequestFile(q)'
    <3>1. CASE q = r
      <4>1. RequestFile(r) /\ page[r] \in Pages /\ opened[r] \in Nat /\ modeTime[r] \in Nat
        BY <1>1, <2>2 DEF FileInv, OwnerInv, RequestInv, TypeOK
      <4>2. modeTime[r] <= c /\ c <= version[page[r]]
        BY <2>1, <2>2, <2>3, <4>1 DEF RequestFile
      <4>3. pc'[r] = "store" /\ exec'[r] = t
        BY <1>1, <2>1, <2>2 DEF TypeOK
      <4> QED  BY <2>2, <2>3, <2>4, <3>1, <4>1, <4>2, <4>3 DEF RequestFile, Using
    <3>2. CASE q # r
      <4>1. exec[q] # t
        BY <2>1 DEF FreshTmpl
      <4>2. exec[q] \in Tmpls => tmpl'[exec[q]].content = tmpl[exec[q]].content
        BY <2>4, <4>1
      <4> QED  BY <1>1, <2>1, <2>2, <2>3, <3>2, <4>2, RequestFileKept DEF FileInv, TypeOK
    <3> QED  BY <3>1, <3>2
  <2>6. ASSUME NEW p \in Pages PROVE EntryFile(p)'
    <3>1. cache[p] # NoEntry => cache[p].tmpl \in Tmpls /\ cache[p].tmpl # t
      BY <1>1, <2>1 DEF FreshTmpl, Published, InCache, TypeOK, Entry
    <3> QED  BY <1>1, <2>2, <2>3, <2>4, <3>1, EntryFileKept DEF FileInv
  <2> QED  BY <2>5, <2>6 DEF FileInv
<1>4. ASSUME NEW r \in Requests, Store(r)
      PROVE  FileInv'
  <2>1. /\ pc[r] = "store" /\ pc' = [pc EXCEPT ![r] = "execute"]
        /\ exec' = [exec EXCEPT ![r] = exec[r]]
        /\ opened' = [opened EXCEPT ![r] = 0]
        /\ cache' = [cache EXCEPT ![page[r]] = [tmpl |-> exec[r], mtime |-> modeTime[r]]]
        /\ UNCHANGED <<version, page, modeTime>>
    BY <1>4 DEF Store, Run, GoTo, fileVars
  <2>2. /\ page[r] \in Pages /\ exec[r] \in Tmpls /\ modeTime[r] \in Nat
        /\ RequestFile(r)
    BY <1>1, <2>1, NullAssumption DEF OwnerInv, RequestInv, TypeOK, FileInv
  <2>3. \A x \in Tmpls : tmpl'[x].content = tmpl[x].content /\ tmpl[x].content \in Nat
    <3>1. \A q \in Requests : ~Parse(q)
      BY <1>1, <1>4, <2>1 DEF Parse, GoTo, TypeOK
    <3> QED  BY <1>1, <3>1, ContentKept DEF TypeOK, Template
  <2>4. \A p \in Pages : version[p] \in Nat /\ version[p] <= version'[p]
    BY <1>1, <2>1 DEF TypeOK
  <2>5. ASSUME NEW q \in Requests PROVE RequestFile(q)'
    <3>1. CASE q = r
      BY <1>1, <2>1, <2>2, <2>3, <2>4, <3>1 DEF RequestFile, Using, TypeOK
    <3>2. CASE q # r
      BY <1>1, <2>1, <2>3, <2>4, <3>2, RequestFileKept DEF FileInv, TypeOK
    <3> QED  BY <3>1, <3>2
  <2>6. ASSUME NEW p \in Pages PROVE EntryFile(p)'
    <3>1. CASE p = page[r]
      <4>1. /\ modeTime[r] <= tmpl[exec[r]].content
            /\ tmpl[exec[r]].content <= version[page[r]]
        BY <2>1, <2>2 DEF RequestFile
      <4>2. cache'[p].tmpl = exec[r] /\ cache'[p].mtime = modeTime[r]
        BY <1>1, <2>1, <2>2, <3>1 DEF TypeOK
      <4> QED  BY <2>1, <2>2, <2>3, <3>1, <4>1, <4>2 DEF EntryFile
    <3>2. CASE p # page[r]
      <4>1. cache[p] # NoEntry => cache[p].tmpl \in Tmpls
        BY <1>1 DEF TypeOK, Entry
      <4>2. cache'[p] = cache[p]
        BY <1>1, <2>1, <3>2 DEF TypeOK
      <4> QED  BY <1>1, <2>3, <2>4, <4>1, <4>2, EntryFileKept DEF FileInv
    <3> QED  BY <3>1, <3>2
  <2> QED  BY <2>5, <2>6 DEF FileInv
<1>5. ASSUME UNCHANGED reqVars, \A q \in Requests : ~Parse(q),
             \A p \in Pages : version[p] <= version'[p],
             \A p \in Pages : cache'[p] = cache[p] \/ cache'[p] = NoEntry
      PROVE  FileInv'
  <2>1. \A x \in Tmpls : tmpl'[x].content = tmpl[x].content
    BY <1>5, ContentKept
  <2>2. ASSUME NEW q \in Requests PROVE RequestFile(q)'
    BY <1>1, <1>5, <2>1, RequestFileKept DEF FileInv, reqVars
  <2>3. ASSUME NEW p \in Pages PROVE EntryFile(p)'
    <3>1. cache[p] # NoEntry => cache[p].tmpl \in Tmpls
      BY <1>1 DEF TypeOK, Entry
    <3> QED  BY <1>1, <1>5, <2>1, <3>1, EntryFileKept DEF FileInv
  <2> QED  BY <2>2, <2>3 DEF FileInv
<1>6. (UNCHANGED reqVars) => \A q \in Requests : ~Parse(q)
  BY <1>1 DEF reqVars, Parse, GoTo, TypeOK
<1>7. ASSUME NEW p \in Pages, WriteFile(p) \/ RemoveFile(p)
      PROVE  FileInv'
  BY <1>1, <1>5, <1>6, <1>7 DEF WriteFile, RemoveFile, handlerVars, TypeOK
<1>8. CASE CloseHandler \/ CloseEntry \/ UNCHANGED vars
  BY <1>1, <1>5, <1>6, <1>8
     DEF CloseHandler, CloseEntry, vars, fileVars, handlerVars, TypeOK
<1> QED
  BY <1>2, <1>3, <1>4, <1>7, <1>8 DEF Next, ServeHTTPClosed

\* Both invariants hold in every state of every run of the cache.
THEOREM FileInvariant == Spec => [](OwnerInv /\ FileInv)
<1>1. Init => FileInv
  BY DEF Init, FileInv, RequestFile, EntryFile, Using
<1> QED  BY <1>1, OwnerInit, OwnerStep, FileStep, PTL DEF Spec

\* No request is answered from content older than the time it saw.
THEOREM AnswerNotOld == Spec => []NotOlderThanSeen
<1>1. OwnerInv /\ FileInv => NotOlderThanSeen
  BY DEF OwnerInv, TypeOK, RequestInv, Template, FileInv, RequestFile,
         NotOlderThanSeen, Using
<1> QED  BY <1>1, FileInvariant, PTL

\* The entry that would be hit for the file as it stands has its content.
THEOREM HitCurrent == Spec => []HitIsCurrent
<1>1. OwnerInv /\ FileInv => HitIsCurrent
  <2> SUFFICES ASSUME OwnerInv, FileInv, NEW p \in Pages,
                      cache[p] # NoEntry, cache[p].mtime = version[p]
               PROVE  tmpl[cache[p].tmpl].content = version[p]
    BY DEF HitIsCurrent
  <2>1. tmpl[cache[p].tmpl].content \in Nat /\ version[p] \in Nat
    BY DEF OwnerInv, TypeOK, Entry, Template
  <2> QED  BY <2>1 DEF FileInv, EntryFile
<1> QED  BY <1>1, FileInvariant, PTL

-----------------------------------------------------------------------------
(* The path locks. *)

\* Who waits for a path lock or holds it has one, each lock is of one page, and
\* one request holds it.
LockInv ==
    /\ \A r \in Requests : lock[r] # NoLock <=> pc[r] \in Locked \cup {"wait"}
    /\ \A r, s \in Requests :
         (pc[r] \in Locked /\ pc[s] \in Locked /\ lock[r] = lock[s]) => r = s
    /\ \A r, s \in Requests : (lock[r] # NoLock /\ lock[r] = lock[s]) => page[r] = page[s]
    /\ \A r \in Requests, p \in Pages :
         (lock[r] # NoLock /\ pathLock[p] = lock[r]) => page[r] = p
    /\ \A p, q \in Pages : (pathLock[p] # NoLock /\ pathLock[p] = pathLock[q]) => p = q

\* Parsing of one page is serial, but for a request whose lock cleanupCacheEntry or
\* Close dropped from pathLocks meanwhile; and no request waits for the lock of
\* another page.
SerialPerLock ==
    /\ \A r, s \in Requests :
         (pc[r] = "parse" /\ pc[s] = "parse" /\ page[r] = page[s] /\ r # s)
            => lock[r] # pathLock[page[r]] \/ lock[s] # pathLock[page[s]]
    /\ \A r, s \in Requests :
         (pc[r] = "wait" /\ pc[s] \in Locked /\ lock[r] = lock[s]) => page[r] = page[s]

\* A step that takes no lock and waits for none keeps the invariant.
LEMMA LocksKept ==
    ASSUME LockInv,
           \A q \in Requests :
               /\ lock'[q] # NoLock <=> pc'[q] \in Locked \cup {"wait"}
               /\ lock'[q] # NoLock => /\ lock'[q] = lock[q] /\ page'[q] = page[q]
                                       /\ pc'[q] \in Locked => pc[q] \in Locked,
           \A p \in Pages : pathLock'[p] = pathLock[p] \/ pathLock'[p] = NoLock
    PROVE  LockInv'
<1>1. (\A r, s \in Requests :
         (pc[r] \in Locked /\ pc[s] \in Locked /\ lock[r] = lock[s]) => r = s)'
  BY DEF LockInv
<1>2. (\A r, s \in Requests : (lock[r] # NoLock /\ lock[r] = lock[s]) => page[r] = page[s])'
  BY DEF LockInv
<1>3. (\A r \in Requests, p \in Pages :
         (lock[r] # NoLock /\ pathLock[p] = lock[r]) => page[r] = p)'
  BY DEF LockInv
<1>4. (\A p, q \in Pages : (pathLock[p] # NoLock /\ pathLock[p] = pathLock[q]) => p = q)'
  BY DEF LockInv
<1> QED
  BY <1>1, <1>2, <1>3, <1>4 DEF LockInv

\* A request gets the lock of its page, or a new one that nobody has.
LEMMA GetPathLockStep ==
    ASSUME OwnerInv, LockInv, NEW r \in Requests, GetPathLock(r)
    PROVE  LockInv'
<1> DEFINE p == page[r]
           l == getOrCreatePathLockLocked(p)
<1>1. /\ p \in Pages /\ pc[r] = "getLock" /\ lock[r] = NoLock
      /\ pathLock[p] # NoLock \/ FreshLock(l)
      /\ l \in Locks
  <2>1. p \in Pages /\ pc[r] = "getLock" /\ lock[r] = NoLock
    BY DEF OwnerInv, RequestInv, LockInv, GetPathLock, Locked
  <2>2. CASE pathLock[p] # NoLock
    BY <2>1, <2>2 DEF getOrCreatePathLockLocked, OwnerInv, TypeOK
  <2>3. CASE pathLock[p] = NoLock
    <3>1. l = CHOOSE x \in Locks : FreshLock(x)
      BY <2>3 DEF getOrCreatePathLockLocked
    <3>2. \E x \in Locks : FreshLock(x)
      BY <2>3 DEF GetPathLock
    <3> QED  BY <2>1, <3>1, <3>2
  <2> QED  BY <2>1, <2>2, <2>3
<1>2. l # NoLock
  BY <1>1, NullAssumption
<1>3. \A q \in Pages : pathLock[q] = l => q = p
  <2>1. CASE pathLock[p] # NoLock
    BY <1>1, <2>1 DEF getOrCreatePathLockLocked, LockInv
  <2>2. CASE FreshLock(l)
    BY <2>2 DEF FreshLock
  <2> QED  BY <1>1, <2>1, <2>2
<1>4. \A q \in Requests : lock[q] = l => page[q] = p
  <2>1. CASE pathLock[p] # NoLock
    BY <1>1, <1>2, <2>1 DEF getOrCreatePathLockLocked, LockInv
  <2>2. CASE FreshLock(l)
    BY <2>2 DEF FreshLock
  <2> QED  BY <1>1, <2>1, <2>2
<1>5. /\ pc' = [pc EXCEPT ![r] = "wait"] /\ page' = page
      /\ pathLock' = [pathLock EXCEPT ![p] = l] /\ lock' = [lock EXCEPT ![r] = l]
  BY DEF GetPathLock, GoTo
<1> HIDE DEF p, l
<1>6. /\ pc'[r] = "wait" /\ lock'[r] = l /\ page'[r] = p
      /\ \A q \in Requests : q # r => pc'[q] = pc[q] /\ lock'[q] = lock[q]
      /\ \A q \in Requests : page'[q] = page[q]
  BY <1>5 DEF OwnerInv, TypeOK, p
<1>7. pathLock'[p] = l /\ \A q \in Pages : q # p => pathLock'[q] = pathLock[q]
  BY <1>1, <1>5 DEF OwnerInv, TypeOK
<1>8. (\A q \in Requests : lock[q] # NoLock <=> pc[q] \in Locked \cup {"wait"})'
  BY <1>2, <1>6 DEF LockInv
<1>9. (\A q, s \in Requests :
         (pc[q] \in Locked /\ pc[s] \in Locked /\ lock[q] = lock[s]) => q = s)'
  BY <1>6 DEF LockInv, Locked
<1>10. (\A q, s \in Requests : (lock[q] # NoLock /\ lock[q] = lock[s]) => page[q] = page[s])'
  BY <1>4, <1>6 DEF LockInv
<1>11. (\A q \in Requests, o \in Pages :
          (lock[q] # NoLock /\ pathLock[o] = lock[q]) => page[q] = o)'
  BY <1>3, <1>4, <1>6, <1>7 DEF LockInv
<1>12. (\A o, q \in Pages : (pathLock[o] # NoLock /\ pathLock[o] = pathLock[q]) => o = q)'
  BY <1>3, <1>7 DEF LockInv
<1> QED
  BY <1>8, <1>9, <1>10, <1>11, <1>12 DEF LockInv

\* A request takes a lock only while no other holds it.
LEMMA LockPathStep ==
    ASSUME OwnerInv, LockInv, NEW r \in Requests, LockPath(r)
    PROVE  LockInv'
<1>1. /\ pc'[r] = "recheck" /\ pc[r] = "wait"
      /\ \A q \in Requests : q # r => pc'[q] = pc[q]
      /\ lock' = lock /\ page' = page /\ pathLock' = pathLock
  BY DEF OwnerInv, TypeOK, LockPath, GoTo, handlerVars
<1>2. \A q \in Requests : lock[q] = lock[r] => pc[q] \notin Locked
  BY DEF LockPath, LockFree
<1>3. (\A q \in Requests : lock[q] # NoLock <=> pc[q] \in Locked \cup {"wait"})'
  BY <1>1 DEF LockInv, Locked
<1>4. (\A q, s \in Requests :
         (pc[q] \in Locked /\ pc[s] \in Locked /\ lock[q] = lock[s]) => q = s)'
  BY <1>1, <1>2 DEF LockInv
<1> QED
  BY <1>1, <1>3, <1>4 DEF LockInv

\* No step takes a lock that is held, or a lock of another page.
LEMMA LockStep == OwnerInv /\ LockInv /\ [Next]_vars => LockInv'
<1> SUFFICES ASSUME OwnerInv, LockInv, [Next]_vars PROVE LockInv'
  OBVIOUS
<1>1. /\ TypeOK
      /\ \A q \in Requests : lock[q] # NoLock <=> pc[q] \in Locked \cup {"wait"}
  BY DEF OwnerInv, LockInv
<1>2. ASSUME UNCHANGED reqVars,
             \A p \in Pages : pathLock'[p] = pathLock[p] \/ pathLock'[p] = NoLock
      PROVE  LockInv'
  BY <1>1, <1>2, LocksKept DEF reqVars
<1>3. ASSUME NEW r \in Requests,
             \A q \in Requests : q # r => /\ pc'[q] = pc[q] /\ lock'[q] = lock[q]
                                          /\ page'[q] = page[q],
             lock'[r] # NoLock <=> pc'[r] \in Locked \cup {"wait"},
             lock'[r] # NoLock => /\ lock'[r] = lock[r] /\ page'[r] = page[r]
                                  /\ pc'[r] \in Locked => pc[r] \in Locked,
             \A p \in Pages : pathLock'[p] = pathLock[p] \/ pathLock'[p] = NoLock
      PROVE  LockInv'
  BY <1>1, <1>3, LocksKept
<1>4. ASSUME NEW r \in Requests, ServeHTTP(r) PROVE LockInv'
  BY <1>1, <1>3, <1>4 DEF ServeHTTP, GoTo, handlerVars, TypeOK, Locked
<1>5. ASSUME NEW r \in Requests, Stat(r) \/ LookupMiss(r) PROVE LockInv'
  BY <1>1, <1>3, <1>5 DEF Stat, LookupMiss, GoTo, handlerVars, TypeOK, Locked
<1>6. ASSUME NEW r \in Requests, StatFails(r) PROVE LockInv'
  BY <1>1, <1>3, <1>6 DEF StatFails, cleanupCacheEntry, Finish, TypeOK, Locked
<1>7. ASSUME NEW r \in Requests,
             \/ StatIsDir(r) \/ GetPathLockClosed(r) \/ RecheckClosed(r)
             \/ ParseFails(r) \/ StoreClosed(r) \/ Release(r)
      PROVE LockInv'
  BY <1>1, <1>3, <1>7 DEF StatIsDir, GetPathLockClosed, RecheckClosed, ParseFails,
     StoreClosed, Release, Finish, handlerVars, TypeOK, Locked
<1>8. ASSUME NEW r \in Requests, LookupHit(r) \/ RecheckHit(r) PROVE LockInv'
  BY <1>1, <1>3, <1>8 DEF LookupHit, RecheckHit, TakeHit, Run, GoTo, handlerVars, TypeOK,
     Locked
<1>9. ASSUME NEW r \in Requests, OpenFile(r) PROVE LockInv'
  <2>1. CASE kind[page[r]] = "none"
    BY <1>1, <1>3, <1>9, <2>1 DEF OpenFile, Finish, handlerVars, TypeOK, Locked
  <2>2. CASE kind[page[r]] # "none"
    BY <1>1, <1>3, <1>9, <2>2 DEF OpenFile, GoTo, handlerVars, TypeOK, Locked
  <2> QED  BY <2>1, <2>2
<1>10. ASSUME NEW r \in Requests, RecheckMiss(r) \/ Parse(r) PROVE LockInv'
  BY <1>1, <1>3, <1>10 DEF RecheckMiss, Parse, GoTo, handlerVars, TypeOK, Locked
<1>11. ASSUME NEW r \in Requests, Store(r) PROVE LockInv'
  BY <1>1, <1>3, <1>11 DEF Store, Run, GoTo, TypeOK, Locked
<1>12. ASSUME NEW r \in Requests, Execute(r) PROVE LockInv'
  BY <1>1, <1>3, <1>12 DEF Execute, GoTo, handlerVars, TypeOK, Locked
<1>13. ASSUME NEW p \in Pages, WriteFile(p) \/ RemoveFile(p) PROVE LockInv'
  BY <1>2, <1>13 DEF WriteFile, RemoveFile, handlerVars
<1>14. CASE CloseHandler
  BY <1>2, <1>14 DEF CloseHandler
<1>15. CASE CloseEntry
  BY <1>2, <1>15 DEF CloseEntry
<1>16. CASE UNCHANGED vars
  BY <1>2, <1>16 DEF vars, handlerVars
<1> QED
  BY <1>4, <1>5, <1>6, <1>7, <1>8, <1>9, <1>10, <1>11, <1>12, <1>13, <1>14, <1>15, <1>16,
     GetPathLockStep, LockPathStep DEF Next, Step, ServeHTTPClosed

\* SerialPerLock: parsing of one page is serial as long as nobody drops its lock, and
\* pages do not wait for one another.
THEOREM ParsingIsSerial == Spec => []SerialPerLock
<1>1. Init => LockInv
  BY DEF Init, LockInv, Locked
<1>2. LockInv => SerialPerLock
  <2> SUFFICES ASSUME LockInv PROVE SerialPerLock
    OBVIOUS
  <2>1. \A r \in Requests : pc[r] = "parse" => pc[r] \in Locked
    BY DEF Locked
  <2>2. \A r \in Requests : pc[r] = "wait" => lock[r] # NoLock
    BY DEF LockInv
  <2> QED  BY <2>1, <2>2 DEF LockInv, SerialPerLock
<1> QED
  BY <1>1, <1>2, OwnerInit, OwnerStep, LockStep, PTL DEF Spec

\* Once the handler is closed, Close has gone through what it took, and no request is
\* under way, every template has been closed: no order of the requests and Close
\* leaves one behind.
AllClosedAtRest ==
    (closed /\ entries = {} /\ \A r \in Requests : pc[r] = "idle")
        => \A t \in Tmpls : tmpl[t].closes = 1

\* AllClosedAtRest is what CloseReleasesAll says of safety.
THEOREM NothingSurvivesClose == Spec => []AllClosedAtRest
<1>1. OwnerInv => AllClosedAtRest
  <2> SUFFICES ASSUME OwnerInv, closed, entries = {}, \A r \in Requests : pc[r] = "idle",
                      NEW t \in Tmpls
               PROVE  tmpl[t].closes = 1
    BY DEF AllClosedAtRest
  <2>1. ~Published(t)
    BY DEF OwnerInv, NothingCachedOnceClosed, Published, InCache
  <2>2. Users(t) = {} /\ Storers(t) = {}
    BY DEF Users, Storers, Using
  <2> QED  BY <2>1, <2>2 DEF OwnerInv, TmplInv, ClosedInv
<1> QED  BY <1>1, OwnerInvariant, PTL

=============================================================================
