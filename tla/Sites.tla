-------------------------------- MODULE Sites --------------------------------
(***************************************************************************)
(* The sites of a server group: SitePool and SiteMan of Site.go, and in    *)
(* server/Server.go the extension of a site, updateConfigSites with all it *)
(* calls, and the way of a request through serveHTTP.                      *)
(*                                                                         *)
(* One updater holds configMu, so updates follow one another; requests and *)
(* the tick of the pool take no lock and run between any two steps of it.  *)
(* One call of sync.Map or vmap.Map is one step, so is reading or writing  *)
(* Site.RootDir or the guarded configSite.  Requests ask for one dynamic   *)
(* page, so a dynamicCache holds one handler at most.                      *)
(***************************************************************************)
EXTENDS Integers, FiniteSets, Sequences, Functions

CONSTANTS
    Requests, SiteObjs, Exts, Handlers,   \* objects are used again when nothing
                                          \* refers to them
    Hosts, Idents,
    Candidates,    \* host -> the domains SiteMan.Get tries, in order
    Configs,       \* the configurations: sequences of Settings
    MaxUpdates,    \* calls of UpdateConfig and Close (bound)
    NoSite, NoExt, NoConf, NoHandler, NoIdent

\* config.Site, as far as it matters here: Identity, Host, Status, what RootDir
\* answers, Dynamic.Cache, and whether a plugin is configured.
Settings == UNION {{c[i] : i \in DOMAIN c} : c \in Configs}
Dirs == {s.dir : s \in Settings}

ASSUME CandidatesAssumption ==
    /\ Hosts # {}
    /\ \A h \in Hosts : Candidates[h] \in Seq(Hosts) /\ Candidates[h] # <<>>
ASSUME ConfigsAssumption ==
    /\ Settings # {}
    /\ \A c \in Configs : c \in Seq(Settings)
    /\ \A s \in Settings : /\ s.id \in Idents \cup {NoIdent}
                           /\ s.hosts \subseteq Hosts
                           /\ {s.on, s.cache, s.plugin} \subseteq BOOLEAN
ASSUME BoundAssumption == MaxUpdates \in Nat
ASSUME NullAssumption ==
    /\ NoSite \notin SiteObjs /\ NoExt \notin Exts
    /\ NoHandler \notin Handlers /\ NoIdent \notin Idents

VARIABLES
    pool, closed,           \* SitePool: name -> site; Close was called
    man,                    \* SiteMan: domain -> site
    root, ext, sess,        \* Site: RootDir, its entry in Extend, has sessions
    conf, cache, plugin,    \* siteExtendInfo: configSite, the handler in
                            \* dynamicCache, a plugin client is open
    hroot, hclosed,         \* ServerHandlerDynamic: RootPath, closed
    upc, cfg, k, todo,      \* updater: where, its configuration, the index in
    cur, se, updates,       \*   it, what is left to do; its site and extension
    rpc, host, try,         \* request: where, its host, the candidate it is at,
    rsite, rext, rconf,     \*   and what it has read
    rroot, rhand,
    fresh,                  \* history: no update has run since the request came
    late, outdone, lost     \* history: sites a request held when they were
                            \* removed; sites whose extension a request
                            \* replaced; extensions replaced by another

siteVars == <<pool, closed, man, root, ext, sess>>
extVars == <<conf, cache, plugin, hroot, hclosed>>
updVars == <<upc, cfg, k, todo, cur, se, updates>>
reqVars == <<rpc, host, try, rsite, rext, rconf, rroot, rhand, fresh>>
hist == <<late, outdone, lost>>
vars == <<siteVars, extVars, updVars, reqVars, hist>>

SiteTypeOK ==
    /\ pool \in [Idents -> SiteObjs \cup {NoSite}]
    /\ man \in [Hosts -> SiteObjs \cup {NoSite}]
    /\ root \in [SiteObjs -> Dirs]
    /\ ext \in [SiteObjs -> Exts \cup {NoExt}]
    /\ sess \in [SiteObjs -> BOOLEAN]
    /\ late \subseteq SiteObjs /\ outdone \subseteq SiteObjs

ExtTypeOK ==
    /\ conf \in [Exts -> Settings \cup {NoConf}]
    /\ cache \in [Exts -> Handlers \cup {NoHandler}]
    /\ plugin \in [Exts -> BOOLEAN]
    /\ hroot \in [Handlers -> Dirs]
    /\ hclosed \in [Handlers -> BOOLEAN]
    /\ lost \subseteq Exts

UpdaterTypeOK ==
    /\ closed \in BOOLEAN
    /\ upc \in {"idle", "site", "hosts", "getExt", "setExt", "setConf", "info",
                "infoGet", "infoSet", "plugins", "delHosts", "delSites", "delGet",
                "delSet", "delExt", "delSess", "delData"}
    /\ cfg \in Configs \cup {<<>>}
    /\ k \in Nat /\ updates \in 0 .. MaxUpdates
    /\ todo \in SUBSET Hosts
    /\ cur \in SiteObjs \cup {NoSite} /\ se \in Exts \cup {NoExt}

RequestTypeOK ==
    /\ rpc \in [Requests -> {"idle", "get", "getExt", "setExt", "config", "root",
                             "lookup", "drop", "make", "serve"}]
    /\ host \in [Requests -> Hosts]
    /\ try \in [Requests -> Nat] /\ \A r \in Requests : try[r] <= Len(Candidates[host[r]])
    /\ rsite \in [Requests -> SiteObjs \cup {NoSite}]
    /\ rext \in [Requests -> Exts \cup {NoExt}]
    /\ rconf \in [Requests -> Settings \cup {NoConf}]
    /\ rroot \in [Requests -> Dirs]
    /\ rhand \in [Requests -> Handlers \cup {NoHandler}]
    /\ fresh \in [Requests -> BOOLEAN]

TypeOK == SiteTypeOK /\ ExtTypeOK /\ UpdaterTypeOK /\ RequestTypeOK

AnyDir == CHOOSE d \in Dirs : TRUE
AnyHost == CHOOSE h \in Hosts : TRUE

Init ==
    /\ pool = [i \in Idents |-> NoSite] /\ closed = FALSE
    /\ man = [h \in Hosts |-> NoSite]
    /\ root = [s \in SiteObjs |-> AnyDir]
    /\ ext = [s \in SiteObjs |-> NoExt]
    /\ sess = [s \in SiteObjs |-> FALSE]
    /\ conf = [e \in Exts |-> NoConf]
    /\ cache = [e \in Exts |-> NoHandler]
    /\ plugin = [e \in Exts |-> FALSE]
    /\ hroot = [h \in Handlers |-> AnyDir]
    /\ hclosed = [h \in Handlers |-> FALSE]
    /\ upc = "idle" /\ cfg = <<>> /\ k = 0 /\ todo = {}
    /\ cur = NoSite /\ se = NoExt /\ updates = 0
    /\ rpc = [r \in Requests |-> "idle"]
    /\ host = [r \in Requests |-> AnyHost]
    /\ try = [r \in Requests |-> 0]
    /\ rsite = [r \in Requests |-> NoSite]
    /\ rext = [r \in Requests |-> NoExt]
    /\ rconf = [r \in Requests |-> NoConf]
    /\ rroot = [r \in Requests |-> AnyDir]
    /\ rhand = [r \in Requests |-> NoHandler]
    /\ fresh = [r \in Requests |-> FALSE]
    /\ late = {} /\ outdone = {} /\ lost = {}

-----------------------------------------------------------------------------
\* What is still referred to; the rest is garbage and may be allocated.
UsedSites == Range(pool) \cup Range(man) \cup Range(rsite) \cup {cur}
UsedExts == {ext[s] : s \in UsedSites \ {NoSite}} \cup Range(rext) \cup {se}
UsedHandlers == {cache[e] : e \in UsedExts \ {NoExt}} \cup Range(rhand)

EffectiveIdents == {cfg[i].id : i \in {j \in DOMAIN cfg : cfg[j].on}}
EffectiveHosts == UNION {cfg[i].hosts : i \in {j \in DOMAIN cfg : cfg[j].on}}

\* NewSite(name): the site of this name, or a new one stored under it.
NewSite(name, s) ==
    IF pool[name] # NoSite
    THEN s = pool[name] /\ UNCHANGED <<pool, root, ext, sess, late, outdone>>
    ELSE /\ s \in SiteObjs \ UsedSites
         /\ pool' = [pool EXCEPT ![name] = s]
         /\ root' = [root EXCEPT ![s] = AnyDir]
         /\ ext' = [ext EXCEPT ![s] = NoExt]
         /\ sess' = [sess EXCEPT ![s] = FALSE]
         /\ late' = late \ {s} /\ outdone' = outdone \ {s}

\* site.Extend.Set(site, newSiteExtendInfo()): e takes the place of what is there.
SetExtend(s, e) ==
    /\ e \in Exts \ UsedExts
    /\ ext' = [ext EXCEPT ![s] = e]
    /\ conf' = [conf EXCEPT ![e] = NoConf]
    /\ cache' = [cache EXCEPT ![e] = NoHandler]
    /\ plugin' = [plugin EXCEPT ![e] = FALSE]
    /\ lost' = (lost \ {e}) \cup ({ext[s]} \ {NoExt})

-----------------------------------------------------------------------------
(* The updater: UpdateConfig and Close, with configMu held.                  *)

updRest == <<cfg, updates>>

UpdateConfig ==
    /\ upc = "idle" /\ updates < MaxUpdates
    /\ ~closed
    /\ \E c \in Configs : cfg' = c
    /\ upc' = "site" /\ k' = 1 /\ updates' = updates + 1
    /\ fresh' = [r \in Requests |-> FALSE]
    /\ UNCHANGED <<siteVars, extVars, todo, cur, se, rpc, host, try, rsite, rext,
                   rconf, rroot, rhand, hist>>

\* Group.Close: updateSitePoolDel(nil, nil), then SitePool.Close.
Close ==
    /\ upc = "idle" /\ updates < MaxUpdates
    /\ ~closed
    /\ cfg' = <<>>
    /\ upc' = "delHosts" /\ todo' = Hosts /\ updates' = updates + 1
    /\ closed' = TRUE
    /\ fresh' = [r \in Requests |-> FALSE]
    /\ UNCHANGED <<pool, man, root, ext, sess, extVars, k, cur, se, rpc, host, try,
                   rsite, rext, rconf, rroot, rhand, hist>>

\* A site without a name ends the update; what came before it stays applied.
NoIdentity ==
    /\ upc = "site" /\ k \in DOMAIN cfg
    /\ cfg[k].id = NoIdent
    /\ upc' = "idle"
    /\ UNCHANGED <<siteVars, extVars, updRest, k, todo, cur, se, reqVars, hist>>

\* updateSitePoolAdd of an enabled site begins: its Site.
AddSite ==
    /\ upc = "site" /\ k \in DOMAIN cfg
    /\ cfg[k].id # NoIdent /\ cfg[k].on
    /\ \E s \in SiteObjs : NewSite(cfg[k].id, s) /\ cur' = s
    /\ upc' = "hosts" /\ todo' = cfg[k].hosts
    /\ UNCHANGED <<closed, man, extVars, updRest, k, se, reqVars, lost>>

SkipSite ==
    /\ upc = "site" /\ k \in DOMAIN cfg
    /\ cfg[k].id # NoIdent /\ ~cfg[k].on
    /\ upc' = "info"
    /\ UNCHANGED <<siteVars, extVars, updRest, k, todo, cur, se, reqVars, hist>>

AddHost ==
    /\ upc = "hosts"
    /\ \E h \in todo : /\ man' = [man EXCEPT ![h] = cur]
                       /\ todo' = todo \ {h}
    /\ UNCHANGED <<pool, closed, root, ext, sess, extVars, upc, updRest, k, cur, se,
                   reqVars, hist>>

SetRootDir ==
    /\ upc = "hosts" /\ todo = {}
    /\ root' = [root EXCEPT ![cur] = cfg[k].dir]
    /\ upc' = "getExt"
    /\ UNCHANGED <<pool, closed, man, ext, sess, extVars, updRest, k, todo, cur, se,
                   reqVars, hist>>

\* getSiteExtend, called by updateSitePoolAdd, updateExtInfo, updateSitePoolDel:
\* from "at" on to "next" with an extension, or to "make" for a new one.
GetExt(at, make, next) ==
    /\ upc = at
    /\ se' = ext[cur]
    /\ upc' = IF ext[cur] = NoExt THEN make ELSE next
    /\ UNCHANGED <<siteVars, extVars, updRest, k, todo, cur, reqVars, hist>>

SetExt(at, next) ==
    /\ upc = at
    /\ \E e \in Exts : SetExtend(cur, e) /\ se' = e
    /\ upc' = next
    /\ UNCHANGED <<pool, closed, man, root, sess, hroot, hclosed, updRest, k, todo,
                   cur, reqVars, late, outdone>>

\* Mutant: a configuration already there is kept.
setConfigOnce ==
    /\ upc = "setConf"
    /\ conf' = IF conf[se] = NoConf THEN [conf EXCEPT ![se] = cfg[k]] ELSE conf
    /\ outdone' = IF ext[cur] = se THEN outdone \ {cur} ELSE outdone
    /\ upc' = "info"
    /\ UNCHANGED <<siteVars, cache, plugin, hroot, hclosed, updRest, k, todo, cur, se,
                   reqVars, late, lost>>

setConfig ==
    /\ upc = "setConf"
    /\ conf' = [conf EXCEPT ![se] = cfg[k]]
    /\ outdone' = IF ext[cur] = se THEN outdone \ {cur} ELSE outdone
    /\ upc' = "info"
    /\ UNCHANGED <<siteVars, cache, plugin, hroot, hclosed, updRest, k, todo, cur, se,
                   reqVars, late, lost>>

\* updateExtInfo: NewSite also for a site that is off.
InfoSite ==
    /\ upc = "info"
    /\ \E s \in SiteObjs : NewSite(cfg[k].id, s) /\ cur' = s
    /\ upc' = "infoGet"
    /\ UNCHANGED <<closed, man, extVars, updRest, k, todo, se, reqVars, lost>>

\* Plugin clients are made, kept or closed; a site that is off loses its handlers.
SetPlugins ==
    /\ upc = "plugins"
    /\ plugin' = [plugin EXCEPT ![se] = cfg[k].on /\ cfg[k].plugin]
    /\ cache' = IF cfg[k].on THEN cache ELSE [cache EXCEPT ![se] = NoHandler]
    /\ upc' = "site" /\ k' = k + 1
    /\ UNCHANGED <<siteVars, conf, hroot, hclosed, updRest, todo, cur, se, reqVars,
                   hist>>

\* Mutant: the hosts of sites that are gone stay.
BeginDelKeepsHosts ==
    /\ upc = "site" /\ k \notin DOMAIN cfg
    /\ upc' = "delSites" /\ todo' = {}
    /\ UNCHANGED <<siteVars, extVars, updRest, k, cur, se, reqVars, hist>>

\* updateSitePoolDel: first the hosts, then the sites.
BeginDel ==
    /\ upc = "site" /\ k \notin DOMAIN cfg
    /\ upc' = "delHosts" /\ todo' = Hosts
    /\ UNCHANGED <<siteVars, extVars, updRest, k, cur, se, reqVars, hist>>

DelHost ==
    /\ upc = "delHosts"
    /\ \E h \in todo :
         /\ todo' = todo \ {h}
         /\ man' = IF h \in EffectiveHosts THEN man ELSE [man EXCEPT ![h] = NoSite]
    /\ UNCHANGED <<pool, closed, root, ext, sess, extVars, upc, updRest, k, cur, se,
                   reqVars, hist>>

BeginDelSites ==
    /\ upc = "delHosts" /\ todo = {}
    /\ upc' = "delSites"
    /\ UNCHANGED <<siteVars, extVars, updRest, k, todo, cur, se, reqVars, hist>>

DelSite ==
    /\ upc = "delSites"
    /\ \E i \in Idents \ EffectiveIdents :
         /\ pool[i] # NoSite
         /\ cur' = pool[i]
         /\ pool' = [pool EXCEPT ![i] = NoSite]
         /\ late' = IF pool[i] \in Range(rsite) THEN late \cup {pool[i]} ELSE late
    /\ upc' = "delGet"
    /\ UNCHANGED <<closed, man, root, ext, sess, extVars, updRest, k, todo, se,
                   reqVars, outdone, lost>>

\* Its plugin clients are closed, its handlers forgotten without being closed.
DelExt ==
    /\ upc = "delExt"
    /\ plugin' = [plugin EXCEPT ![se] = FALSE]
    /\ cache' = [cache EXCEPT ![se] = NoHandler]
    /\ upc' = "delSess"
    /\ UNCHANGED <<siteVars, conf, hroot, hclosed, updRest, k, todo, cur, se, reqVars,
                   hist>>

InstantDeadAll ==
    /\ upc = "delSess"
    /\ sess' = [sess EXCEPT ![cur] = FALSE]
    /\ upc' = "delData"
    /\ UNCHANGED <<pool, closed, man, root, ext, extVars, updRest, k, todo, cur, se,
                   reqVars, hist>>

\* Mutant: Extend is not reset.
ResetGlobal ==
    /\ upc = "delData"
    /\ upc' = "delSites" /\ cur' = NoSite /\ se' = NoExt
    /\ UNCHANGED <<pool, closed, man, root, ext, sess, extVars, updRest, k, todo,
                   reqVars, hist>>

\* Global.Reset and Extend.Reset; on to the next site of the pool.
ResetData ==
    /\ upc = "delData"
    /\ ext' = [ext EXCEPT ![cur] = NoExt]
    /\ upc' = "delSites" /\ cur' = NoSite /\ se' = NoExt
    /\ UNCHANGED <<pool, closed, man, root, sess, extVars, updRest, k, todo, reqVars,
                   hist>>

EndUpdate ==
    /\ upc = "delSites"
    /\ \A i \in Idents \ EffectiveIdents : pool[i] = NoSite
    /\ upc' = "idle" /\ cur' = NoSite /\ se' = NoExt
    /\ UNCHANGED <<siteVars, extVars, updRest, k, todo, reqVars, hist>>

\* Start after Close makes a pool again; the tick of the closed one is over.
NewSitePool ==
    /\ upc = "idle" /\ closed
    /\ closed' = FALSE
    /\ UNCHANGED <<pool, man, root, ext, sess, extVars, updVars, reqVars, hist>>

\* The tick of the pool, which ends when Close does, finds every session of a
\* site expired.
Tick ==
    /\ ~closed \/ upc # "idle"
    /\ \E i \in Idents : /\ pool[i] # NoSite
                         /\ sess[pool[i]]
                         /\ sess' = [sess EXCEPT ![pool[i]] = FALSE]
    /\ UNCHANGED <<pool, closed, man, root, ext, extVars, updVars, reqVars, hist>>

Updater ==
    \/ UpdateConfig \/ Close \/ NoIdentity \/ AddSite \/ SkipSite \/ AddHost
    \/ SetRootDir \/ setConfig \/ InfoSite \/ SetPlugins
    \/ GetExt("getExt", "setExt", "setConf") \/ SetExt("setExt", "setConf")
    \/ GetExt("infoGet", "infoSet", "plugins") \/ SetExt("infoSet", "plugins")
    \/ BeginDel \/ DelHost \/ BeginDelSites \/ DelSite
    \/ GetExt("delGet", "delSet", "delExt") \/ SetExt("delSet", "delExt")
    \/ DelExt \/ InstantDeadAll \/ ResetData \/ EndUpdate \/ NewSitePool

-----------------------------------------------------------------------------
(* A request.                                                                *)

GoTo(r, where) == rpc' = [rpc EXCEPT ![r] = where]

\* It is answered; its locals go.
Answered(r) ==
    /\ rpc' = [rpc EXCEPT ![r] = "idle"]
    /\ host' = [host EXCEPT ![r] = AnyHost]
    /\ try' = [try EXCEPT ![r] = 0]
    /\ rsite' = [rsite EXCEPT ![r] = NoSite]
    /\ rext' = [rext EXCEPT ![r] = NoExt]
    /\ rconf' = [rconf EXCEPT ![r] = NoConf]
    /\ rroot' = [rroot EXCEPT ![r] = AnyDir]
    /\ rhand' = [rhand EXCEPT ![r] = NoHandler]
    /\ fresh' = [fresh EXCEPT ![r] = FALSE]

Arrive(r) ==
    /\ rpc[r] = "idle"
    /\ \E h \in Hosts : host' = [host EXCEPT ![r] = h]
    /\ try' = [try EXCEPT ![r] = 1]
    /\ fresh' = [fresh EXCEPT ![r] = upc = "idle"]
    /\ GoTo(r, "get")
    /\ UNCHANGED <<siteVars, extVars, updVars, rsite, rext, rconf, rroot, rhand, hist>>

\* Mutant: one candidate too far.
GetSiteBeyond(r) ==
    /\ rpc[r] = "get"
    /\ LET s == man[Candidates[host[r]][try[r]]] IN
         \/ /\ s # NoSite
            /\ rsite' = [rsite EXCEPT ![r] = s]
            /\ GoTo(r, "getExt")
            /\ UNCHANGED <<host, try, rext, rconf, rroot, rhand, fresh>>
         \/ /\ s = NoSite /\ try[r] <= Len(Candidates[host[r]])
            /\ try' = [try EXCEPT ![r] = @ + 1]
            /\ UNCHANGED <<rpc, host, rsite, rext, rconf, rroot, rhand, fresh>>
    /\ UNCHANGED <<siteVars, extVars, updVars, hist>>

\* SiteMan.Get: one Load per candidate; without any the connection is closed.
GetSite(r) ==
    /\ rpc[r] = "get"
    /\ LET s == man[Candidates[host[r]][try[r]]] IN
         \/ /\ s # NoSite
            /\ rsite' = [rsite EXCEPT ![r] = s]
            /\ GoTo(r, "getExt")
            /\ UNCHANGED <<host, try, rext, rconf, rroot, rhand, fresh>>
         \/ /\ s = NoSite /\ try[r] < Len(Candidates[host[r]])
            /\ try' = [try EXCEPT ![r] = @ + 1]
            /\ UNCHANGED <<rpc, host, rsite, rext, rconf, rroot, rhand, fresh>>
         \/ s = NoSite /\ try[r] = Len(Candidates[host[r]]) /\ Answered(r)
    /\ UNCHANGED <<siteVars, extVars, updVars, hist>>

RequestGetExt(r) ==
    /\ rpc[r] = "getExt"
    /\ rext' = [rext EXCEPT ![r] = ext[rsite[r]]]
    /\ GoTo(r, IF ext[rsite[r]] = NoExt THEN "setExt" ELSE "config")
    /\ UNCHANGED <<siteVars, extVars, updVars, host, try, rsite, rconf, rroot, rhand,
                   fresh, hist>>

RequestSetExt(r) ==
    /\ rpc[r] = "setExt"
    /\ \E e \in Exts : SetExtend(rsite[r], e) /\ rext' = [rext EXCEPT ![r] = e]
    /\ outdone' = IF ext[rsite[r]] = NoExt THEN outdone ELSE outdone \cup {rsite[r]}
    /\ GoTo(r, "config")
    /\ UNCHANGED <<pool, closed, man, root, sess, hroot, hclosed, updVars, host, try,
                   rsite, rconf, rroot, rhand, fresh, late>>

\* config(): without a configuration the answer is 500.
ReadConfig(r) ==
    /\ rpc[r] = "config"
    /\ \/ /\ conf[rext[r]] # NoConf
          /\ rconf' = [rconf EXCEPT ![r] = conf[rext[r]]]
          /\ GoTo(r, "root")
          /\ UNCHANGED <<host, try, rsite, rext, rroot, rhand, fresh>>
       \/ conf[rext[r]] = NoConf /\ Answered(r)
    /\ UNCHANGED <<siteVars, extVars, updVars, hist>>

\* Site.RootDir; a redirect, a missing file and a static one end here.
ReadRootDir(r) ==
    /\ rpc[r] = "root"
    /\ \/ /\ rroot' = [rroot EXCEPT ![r] = root[rsite[r]]]
          /\ GoTo(r, "lookup")
          /\ UNCHANGED <<host, try, rsite, rext, rconf, rhand, fresh>>
       \/ Answered(r)
    /\ UNCHANGED <<siteVars, extVars, updVars, hist>>

\* dCache.GetHas: a handler that is cached serves if the configuration wants it.
Lookup(r) ==
    /\ rpc[r] = "lookup"
    /\ \/ /\ cache[rext[r]] # NoHandler /\ rconf[r].cache
          /\ rhand' = [rhand EXCEPT ![r] = cache[rext[r]]]
          /\ GoTo(r, "serve")
       \/ /\ cache[rext[r]] = NoHandler \/ ~rconf[r].cache
          /\ GoTo(r, "drop") /\ UNCHANGED rhand
    /\ UNCHANGED <<siteVars, extVars, updVars, host, try, rsite, rext, rconf, rroot,
                   fresh, hist>>

\* dCache.Del, whatever is cached by now: "if ok" asks whether the host had a site,
\* which it had.  Nobody closes the handler that goes.
Drop(r) ==
    /\ rpc[r] = "drop"
    /\ cache' = [cache EXCEPT ![rext[r]] = NoHandler]
    /\ GoTo(r, "make")
    /\ UNCHANGED <<siteVars, conf, plugin, hroot, hclosed, updVars, host, try, rsite,
                   rext, rconf, rroot, rhand, fresh, hist>>

\* A new handler, in the cache if the configuration wants one.
MakeHandler(r) ==
    /\ rpc[r] = "make"
    /\ \E h \in Handlers \ UsedHandlers :
         /\ rhand' = [rhand EXCEPT ![r] = h]
         /\ hroot' = [hroot EXCEPT ![h] = rroot[r]]
         /\ hclosed' = [hclosed EXCEPT ![h] = FALSE]
         /\ cache' = IF rconf[r].cache THEN [cache EXCEPT ![rext[r]] = h] ELSE cache
    /\ GoTo(r, "serve")
    /\ UNCHANGED <<siteVars, conf, plugin, updVars, host, try, rsite, rext, rconf,
                   rroot, fresh, hist>>

\* The timer of an entry: the handler leaves the cache and is closed.
Expire ==
    /\ \E e \in UsedExts \ {NoExt} :
         /\ cache[e] # NoHandler
         /\ hclosed' = [hclosed EXCEPT ![cache[e]] = TRUE]
         /\ cache' = [cache EXCEPT ![e] = NoHandler]
    /\ UNCHANGED <<siteVars, conf, plugin, hroot, updVars, reqVars, hist>>

\* The page asks for its session.
UseSession(r) ==
    /\ rpc[r] = "serve" /\ ~hclosed[rhand[r]]
    /\ sess' = [sess EXCEPT ![rsite[r]] = TRUE]
    /\ UNCHANGED <<pool, closed, man, root, ext, extVars, updVars, reqVars, hist>>

\* Mutant: every handler is closed.
ServedClosesAll(r) ==
    /\ rpc[r] = "serve"
    /\ hclosed' = [hclosed EXCEPT ![rhand[r]] = TRUE]
    /\ Answered(r)
    /\ UNCHANGED <<siteVars, conf, cache, plugin, hroot, updVars, hist>>

\* The page is sent; the handler of a site without a cache is closed.
Served(r) ==
    /\ rpc[r] = "serve"
    /\ hclosed' = IF rconf[r].cache THEN hclosed
                  ELSE [hclosed EXCEPT ![rhand[r]] = TRUE]
    /\ Answered(r)
    /\ UNCHANGED <<siteVars, conf, cache, plugin, hroot, updVars, hist>>

Request(r) ==
    \/ Arrive(r) \/ GetSite(r) \/ RequestGetExt(r) \/ RequestSetExt(r)
    \/ ReadConfig(r) \/ ReadRootDir(r) \/ Lookup(r) \/ Drop(r) \/ MakeHandler(r)
    \/ UseSession(r) \/ Served(r)

Next == Updater \/ Tick \/ Expire \/ \E r \in Requests : Request(r)

Spec == Init /\ [][Next]_vars

-----------------------------------------------------------------------------
(* Properties.                                                               *)

\* A site that a request can find is in the pool, so the tick looks after the
\* sessions that the request makes: hosts are added after their site and
\* removed before it.
FoundSiteIsPooled ==
    \A h \in Hosts : man[h] # NoSite => \E i \in Idents : pool[i] = man[h]

Complete == \A i \in DOMAIN cfg : cfg[i].id # NoIdent

\* The last enabled entry to name a domain, and the last one of an identity.
LastToName(i, h) ==
    /\ cfg[i].on /\ h \in cfg[i].hosts
    /\ \A m \in DOMAIN cfg : m > i /\ cfg[m].on => h \notin cfg[m].hosts
LastOf(j, id) ==
    /\ cfg[j].on /\ cfg[j].id = id
    /\ \A m \in DOMAIN cfg : m > j /\ cfg[m].on => cfg[m].id # id

\* Once an update is over, a domain leads to the site of the last enabled entry to
\* name it, with the root directory and the configuration of the last entry of
\* that identity, unless a request's getSiteExtend has replaced the extension.
AppliedAtRest ==
    upc = "idle" /\ Complete =>
        \A h \in Hosts, i \in DOMAIN cfg, j \in DOMAIN cfg :
            LastToName(i, h) /\ LastOf(j, cfg[i].id) =>
                LET s == man[h] IN
                /\ s # NoSite
                /\ pool[cfg[i].id] = s
                /\ root[s] = cfg[j].dir
                /\ ext[s] # NoExt
                /\ conf[ext[s]] = cfg[j] \/ s \in outdone

\* Once an update is over, a site that is gone has no sessions and no extension,
\* except what a request that held it at its removal made since; and an open
\* plugin client belongs to a site of the pool, except in a replaced extension.
RemovedSiteIsEmpty ==
    upc = "idle" =>
        /\ \A s \in SiteObjs \ (Range(pool) \cup late) : ~sess[s] /\ ext[s] = NoExt
        /\ \A e \in Exts \ lost :
             plugin[e] => \E s \in Range(pool) \ {NoSite} : ext[s] = e

\* What the cache of a site hands out has not been closed: neither by the
\* request that made it nor by a timer.
CachedHandlerIsOpen ==
    \A e \in UsedExts \ {NoExt} : cache[e] # NoHandler => ~hclosed[cache[e]]

\* A request that came after the last update was over is served from the root
\* directory of that configuration.
FreshRequestUsesItsRoot ==
    \A r \in Requests : fresh[r] /\ rpc[r] = "serve" => hroot[rhand[r]] = rconf[r].dir
=============================================================================
