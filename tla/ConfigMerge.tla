---------------------------- MODULE ConfigMerge ----------------------------
(***************************************************************************)
(* How a configuration comes about (server/config/Config.go): sites and    *)
(* listeners merged with public templates, sub-configurations loaded over  *)
(* the main one, and plugin clients configured again and again.            *)
(*                                                                         *)
(* A struct is a function from field names to values.  Kind says what a    *)
(* field is: a scalar is a number and 0 is its zero; a slice is Nil or a   *)
(* sequence; a pointer is Nil or a struct; a map is Nil or an address in   *)
(* the heap, because two structs may share one.  Fields of Go that behave  *)
(* alike share a field here.                                               *)
(***************************************************************************)
EXTENDS Integers, Sequences, SequencesExt, FiniteSets, TLC

CONSTANTS Nil,
          Kind        \* field -> "scalar", "slice", "map" or "pointer"

Zero(kind) == IF kind = "scalar" THEN 0 ELSE Nil
ZeroStruct(fields) == [f \in fields |-> Zero(Kind[f])]

\* Two maps as one, the entries of f over those of g.
Over(f, g) == [k \in DOMAIN f \cup DOMAIN g |-> IF k \in DOMAIN f THEN f[k] ELSE g[k]]

\* Merges are done with configExclude(nil), by which a field whose source is zero is
\* left alone, or without it.
With == TRUE
Without == FALSE
configExclude(exclude, f, v) == exclude /\ v = Zero(Kind[f])

-----------------------------------------------------------------------------
(* CopyStructDeep(dst, src, exclude) of builtin.go.                          *)

\* The fields that are no pointers and no maps; a nil slice is never copied.
copyPlain(dst, src, exclude) ==
    [f \in DOMAIN dst |->
        IF configExclude(exclude, f, src[f]) \/ (Kind[f] = "slice" /\ src[f] = Nil)
        THEN dst[f] ELSE src[f]]

\* A map is copied into the map of dst, wherever else that one is used; a new
\* one is made at address "own" when dst has none.
copyMaps(dst, src, heap, own) ==
    LET from(f) == heap[src[f]]
        fields == {f \in DOMAIN dst : Kind[f] = "map" /\ src[f] # Nil}
        shared == {f \in fields : dst[f] # Nil}
    IN [dst |-> [f \in DOMAIN dst |-> IF f \in fields \ shared THEN own ELSE dst[f]],
        heap |-> [a \in DOMAIN heap |->
                    IF \E f \in shared : dst[f] = a
                    THEN Over(from(CHOOSE f \in shared : dst[f] = a), heap[a])
                    ELSE IF a = own /\ fields # shared
                    THEN from(CHOOSE f \in fields \ shared : TRUE)
                    ELSE heap[a]]]

\* A pointer that is set on both sides is copied field by field.
copyPointer(f, dst, src, exclude) ==
    IF configExclude(exclude, f, src[f]) THEN dst[f]
    ELSE IF src[f] = Nil THEN Nil
    ELSE copyPlain(IF dst[f] = Nil THEN ZeroStruct(DOMAIN src[f]) ELSE dst[f],
                   src[f], exclude)

copyStruct(dst, src, heap, own, exclude) ==
    LET plain == copyPlain(dst, src, exclude)
        fields == [f \in DOMAIN dst |->
                     CASE Kind[f] = "map" -> dst[f]
                       [] Kind[f] = "pointer" -> copyPointer(f, dst, src, exclude)
                       [] OTHER -> plain[f]]
    IN copyMaps(fields, src, heap, own)

-----------------------------------------------------------------------------
(* The merges with a public template; origin is left alone if its PublicName *)
(* is not among the templates.                                               *)

Merged(public, origin, heap, own, exclude) ==
    IF origin.PublicName \notin DOMAIN public THEN [dst |-> origin, heap |-> heap]
    ELSE copyStruct(public[origin.PublicName], origin, heap, own, exclude)

\* ConfigSiteSession, ConfigSiteHeader and ConfigSiteDynamic
ConfigSite(public, origin, heap, own) == Merged(public, origin, heap, own, Without)

\* ConfigConn, and ConfigServer before CipherSuitesAuto
ConfigConn(public, origin, heap, own) == Merged(public, origin, heap, own, With)

\* ConfigSitePluginHTTP and ConfigSitePluginRPC work on a clone of the template,
\* whose maps are copies.
clone(c, heap, at) ==
    LET maps == {f \in DOMAIN c : Kind[f] = "map" /\ c[f] # Nil} IN
    [dst |-> [f \in DOMAIN c |-> IF f \in maps THEN at ELSE c[f]],
     heap |-> IF maps = {} THEN heap
              ELSE [heap EXCEPT ![at] = heap[c[CHOOSE f \in maps : TRUE]]]]

\* Mutant: no clone of the template.
ConfigSitePluginShared(public, origin, heap, own) ==
    Merged(public, origin, heap, own, With)

ConfigSitePlugin(public, origin, heap, own) ==
    IF origin.PublicName \notin DOMAIN public THEN [dst |-> origin, heap |-> heap]
    ELSE LET c == clone(public[origin.PublicName], heap, own)
         IN copyStruct(c.dst, origin, c.heap, own, With)

\* The public list comes behind the site's own.
ConfigSiteForward(public, origin) ==
    IF origin.PublicName \notin DOMAIN public THEN origin
    ELSE [origin EXCEPT !.List = @ \o public[origin.PublicName].List]

\* Mutant: the order of the versions is not mended.
CipherSuitesAutoUnordered(tls, TLS13, suites) ==
    LET max == IF tls.MaxVersion = 0 THEN TLS13 ELSE tls.MaxVersion
    IN [tls EXCEPT !.MaxVersion = max,
                   !.CipherSuites = {s \in suites : \E v \in s :
                                        tls.MinVersion <= v /\ v <= max}]

\* The suites of a TLS configuration are chosen by the versions it allows; a
\* suite is known by the versions that support it.
CipherSuitesAuto(tls, TLS13, suites) ==
    LET max == IF tls.MaxVersion = 0 THEN TLS13 ELSE tls.MaxVersion
        min == IF tls.MinVersion > max THEN max ELSE tls.MinVersion
    IN [MaxVersion |-> max, MinVersion |-> min,
        CipherSuites |-> IF tls.CipherSuites # {} THEN tls.CipherSuites
                         ELSE {s \in suites : \E v \in s : min <= v /\ v <= max}]

\* ConfigServer fills in suites where the merge has left none.
serverTLS(tls, TLS13, suites) ==
    IF tls.CipherSuites = {} THEN CipherSuitesAuto(tls, TLS13, suites) ELSE tls

-----------------------------------------------------------------------------
(* loadSubConf and ParseFiles, in the order of the names of the files.       *)

placesOf(sites, identity) == {i \in DOMAIN sites : sites[i].Identity = identity}

\* A site of a .site.json file takes the last place that its identity had before
\* the file, or it comes behind all.
loadSites(sites, incoming) ==
    LET after[j \in 0 .. Len(incoming)] ==
            IF j = 0 THEN sites
            ELSE LET s == incoming[j]
                     identityIndex == placesOf(sites, s.Identity)
                 IN IF identityIndex = {} THEN Append(after[j - 1], s)
                    ELSE [after[j - 1] EXCEPT ![Max(identityIndex)] = s]
    IN after[Len(incoming)]

\* A listener of a .listen.json file takes the place of one of the same name.
loadListens(listens, incoming) == Over(incoming, listens)

\* A file that does not parse ends the loading; what came before it stays.
loadSubConf(st, file) ==
    IF ~st.ok \/ file.bad THEN [st EXCEPT !.ok = FALSE]
    ELSE [ok |-> TRUE, sites |-> loadSites(st.sites, file.sites),
          listens |-> loadListens(st.listens, file.listens)]

ParseFiles(sites, listens, files) ==
    LET after[i \in 0 .. Len(files)] ==
            IF i = 0 THEN [ok |-> TRUE, sites |-> sites, listens |-> listens]
            ELSE loadSubConf(after[i - 1], files[i])
    IN after[Len(files)]

-----------------------------------------------------------------------------
(* configHTTPClient on a client that may have been configured before.  What  *)
(* a configuration leaves at zero keeps its former value in LocalAddr, Proxy *)
(* and the timeouts of the transport.                                        *)

NewClient == [Addr |-> 0, LocalAddr |-> 0, Dial |-> 0, Proxy |-> 0, Keep |-> 0,
              Timeout |-> 0, TLS |-> 0]

keepIfZero(old, v) == IF v = 0 THEN old ELSE v

\* fails says where the configuration is wrong: "local", "proxy", "ca" or "no".
configHTTPClient(c, conf) ==
    LET dialed == [c EXCEPT !.Addr = conf.Addr,
                            !.LocalAddr = keepIfZero(@, conf.LocalAddr),
                            !.Dial = conf.Dial]
        done == [dialed EXCEPT !.Proxy = keepIfZero(@, conf.Proxy),
                               !.Keep = conf.Keep,
                               !.Timeout = keepIfZero(@, conf.Timeout)]
    IN CASE conf.fails = "local" -> [c EXCEPT !.Addr = conf.Addr]
         [] conf.fails = "proxy" -> dialed
         [] conf.fails = "ca" -> done
         [] OTHER -> [done EXCEPT !.TLS = conf.TLS]

NewPool == [Addr |-> 0, Conns |-> 0, LocalAddr |-> 0, Timeout |-> 0, foreign |-> FALSE]

atLeastZero(v) == IF v < 0 THEN 0 ELSE v

\* configRPCClient: a pool whose dialer is foreign keeps it, and a negative limit
\* or timeout is none.
configRPCClient(c, conf) ==
    LET sized == [c EXCEPT !.Addr = conf.Addr, !.Conns = atLeastZero(conf.Conns)]
    IN IF c.foreign \/ conf.fails = "local" THEN sized
       ELSE [sized EXCEPT !.LocalAddr = keepIfZero(@, conf.LocalAddr),
                          !.Timeout = atLeastZero(conf.Timeout)]
=============================================================================
