----------------------------- MODULE Algorithms -----------------------------
(***************************************************************************)
(* What the functions of StaticFile, Matching, ConfigMerge and Numbers     *)
(* promise, for every input of some sets.  A behaviour takes an input of   *)
(* one of the functions, and drops it for another.  What Numbers promises  *)
(* is told in Arithmetic.                                                  *)
(***************************************************************************)
EXTENDS StaticFile, Matching, ConfigMerge

CONSTANTS
    StaticInputs,     \* [of, request, file]; of any method
    DomainInputs,     \* [of, table, host]
    SegmentInputs,    \* [of, segment, text]
    ForwardInputs,    \* [of, first, second, upath]
    ConfigInputs,     \* [of, sites, files, template]
    TLSInputs,        \* [of, tls]
    ClientInputs,     \* [of, before, conf], of is "client"; or "pool" and foreign
    SumInputs,        \* [of, x, symbol, y]
    KeyInputs,        \* [of, key, kind, bits]
    TLS13, Suites     \* versions are numbers, a suite the set of its versions

\* Of what a request brings and of the configuration, what the code relies on:
\* the headers it reads, domains as lists of labels, patterns that are literal or
\* regular expressions if they compile, structs of the same fields with a map of
\* their own, versions that are numbers.
ASSUME StaticInputsAssumption == \A in \in StaticInputs :
    /\ in.of = "static"
    /\ DOMAIN in.request = {"method", "path", "range", "ifNoneMatch", "ifModifiedSince",
                            "ifRange"}
    /\ in.file.size \in Nat
    /\ in.request.range \in {None, Bad} \/
         /\ in.request.range \in Seq(Range(in.request.range))
         /\ \A spec \in Range(in.request.range) :
              /\ spec.form \in {"suffix", "from", "between", "other"}
              /\ spec.form = "suffix" => spec.n \in Int
              /\ spec.form \in {"from", "between"} => spec.a \in Nat
              /\ spec.form = "between" => spec.b \in Int

ASSUME DomainInputsAssumption == \A in \in DomainInputs :
    /\ in.of = "domain"
    /\ \A d \in in.table \cup {in.host} : d \in [labels : Seq(STRING), port : STRING]

ASSUME SegmentInputsAssumption == \A in \in SegmentInputs :
    /\ in.of = "segment"
    /\ in.segment \in Seq(Range(in.segment)) /\ in.text \in Seq(Range(in.text))

ASSUME ForwardInputsAssumption == \A in \in ForwardInputs :
    /\ in.of = "forward"
    /\ \A list \in {in.first, in.second} :
         /\ list \in Seq(Range(list))
         /\ \A rule \in Range(list) :
              /\ {rule.status, rule.end} \subseteq BOOLEAN
              /\ \A p \in rule.path \cup rule.exclude :
                   p.form \in {"literal", "regex", "invalid"}

\* A plugin and its template have the same fields, also where they point, and a map
\* each, the field Header; Nil is no struct made of the two.
PlainFields == {f \in DOMAIN Kind : Kind[f] \in {"scalar", "slice"}}
IsStruct(s, fields) == DOMAIN s = fields /\ s = [f \in fields |-> s[f]]
mixture(fields, own, s, t) == [g \in fields |-> IF g \in own THEN s[g] ELSE t[g]]
AreAlike(plugin, template) ==
    /\ IsStruct(template, DOMAIN template) /\ IsStruct(plugin, DOMAIN template)
    /\ {"PublicName", "Addr", "Header"} \subseteq DOMAIN template
    /\ plugin.Header \in {Nil, "site"} /\ template.Header \in {Nil, "public"}
    /\ \A f \in DOMAIN template : Kind[f] = "pointer" =>
         \E fields \in SUBSET PlainFields :
             /\ \A s \in {plugin[f], template[f]} : s = Nil \/ IsStruct(s, fields)
             /\ plugin[f] # Nil /\ template[f] # Nil =>
                  \A own \in SUBSET fields : mixture(fields, own, plugin[f], template[f]) # Nil

\* The plugins of the sites that a configuration and its files name.
plugins(in) ==
    {s.Plugin : s \in Range(in.sites) \cup UNION {Range(in.files[i].sites) : i \in DOMAIN in.files}}

ASSUME KindAssumption ==
    /\ \A f \in DOMAIN Kind : /\ Kind[f] \in {"scalar", "slice", "map", "pointer"}
                              /\ Kind[f] = "map" <=> f = "Header"
    /\ {"PublicName", "Addr", "Header"} \subseteq DOMAIN Kind
    /\ Kind["PublicName"] = "scalar" /\ Kind["Addr"] = "scalar"
    /\ Nil \notin {"public", "site", "own", "again"}

ASSUME ConfigInputsAssumption == \A in \in ConfigInputs :
    /\ in.of = "config"
    /\ in.sites \in Seq(Range(in.sites)) /\ in.files \in Seq(Range(in.files))
    /\ \A file \in Range(in.files) : file.bad \in BOOLEAN /\ file.sites \in Seq(Range(file.sites))
    /\ DOMAIN in.template \subseteq DOMAIN Kind
    /\ \A plugin \in plugins(in) : AreAlike(plugin, in.template)

ASSUME TLSAssumption ==
    /\ TLS13 \in Nat \ {0} /\ \A s \in Suites : s \subseteq 1 .. TLS13
    /\ \A in \in TLSInputs :
         /\ in.of = "tls"
         /\ in.tls.MinVersion \in Nat /\ in.tls.MaxVersion \in Nat

ASSUME ClientInputsAssumption == \A in \in ClientInputs :
    /\ in.of \in {"client", "pool"}
    /\ \A conf \in {in.before, in.conf} :
         /\ conf.fails \in {"no", "local", "proxy", "ca"}
         /\ {conf.Conns, conf.Timeout} \subseteq Int
    /\ in.of = "pool" => in.foreign \in BOOLEAN

ASSUME NumberInputsAssumption ==
    /\ \A in \in SumInputs : in.of = "sum"
    /\ \A in \in KeyInputs : in.of = "key"

VARIABLE input

Nothing == [of |-> "nothing"]
TakeStatic == input = Nothing /\ input' \in StaticInputs
TakeDomain == input = Nothing /\ input' \in DomainInputs
TakeSegment == input = Nothing /\ input' \in SegmentInputs
TakeForward == input = Nothing /\ input' \in ForwardInputs
TakeConfig == input = Nothing /\ input' \in ConfigInputs
TakeTLS == input = Nothing /\ input' \in TLSInputs
TakeClient == input = Nothing /\ input' \in ClientInputs
TakeSum == input = Nothing /\ input' \in SumInputs
TakeKey == input = Nothing /\ input' \in KeyInputs
Drop == input # Nothing /\ input' = Nothing

Init == input = Nothing
Next == \/ TakeStatic \/ TakeDomain \/ TakeSegment \/ TakeForward \/ TakeConfig
        \/ TakeTLS \/ TakeClient \/ TakeSum \/ TakeKey \/ Drop
Spec == Init /\ [][Next]_input

-----------------------------------------------------------------------------
(* StaticFile.                                                               *)

answer(method) == ServeHTTP([input.request EXCEPT !.method = method], input.file)

\* The bytes of a file that one element of a Range header asks for.
asked(spec, size) ==
    {n \in 0 .. size - 1 : CASE spec.form = "suffix" -> n >= size - spec.n
                             [] spec.form = "from" -> n >= spec.a
                             [] spec.form = "between" -> spec.a <= n /\ n <= spec.b
                             [] OTHER -> FALSE}

RangesAreTheBytesAskedFor ==
    LET a == answer("GET")
        range == input.request.range
        bytes == UNION {asked(range[i], input.file.size) : i \in DOMAIN range}
    IN /\ a.status = 206 =>
            /\ UNION {a.blocks[i].start .. a.blocks[i].end : i \in DOMAIN a.blocks} = bytes
            /\ \A i \in 1 .. Len(a.blocks) - 1 : a.blocks[i].end + 1 < a.blocks[i + 1].start
            /\ Len(a.blocks) = 1 => a.length = Cardinality(bytes)
       /\ a.status = 416 => range = Bad \/ bytes = {}
       /\ a.status = 200 => a.length = input.file.size

HeadAgreesWithGet ==
    LET get == answer("GET")
        head == answer("HEAD")
    IN head.status = get.status /\ head.length = get.length /\ head.blocks = get.blocks

\* The parts of a partial answer are together exactly the bytes that the ranges
\* of the request ask for, apart from one another, 416 is for a request that asks
\* for no byte, and HEAD gets the status, length and ranges that GET would get.
AnswerFitsTheRequest ==
    input.of = "static" => RangesAreTheBytesAskedFor /\ HeadAgreesWithGet

-----------------------------------------------------------------------------
(* Matching.                                                                 *)

covers(d, host) ==
    /\ d.port = host.port /\ Len(d.labels) = Len(host.labels)
    /\ \A i \in DOMAIN d.labels : d.labels[i] = host.labels[i] \/
                                  \A j \in 1 .. i : d.labels[j] = Star
stars(d) == Cardinality({i \in DOMAIN d.labels : d.labels[i] = Star})

\* derogatoryDomain: of the domains of a table that cover a host, stars being
\* allowed on the left only, the one with the fewest stars is taken; if there
\* are any, one is taken.
MostSpecificDomainWins ==
    input.of = "domain" =>
        LET found == firstDomain(input.table, input.host)
            covering == {d \in input.table : covers(d, input.host)}
        IN IF covering = {} THEN found = NoDomain
           ELSE /\ found \in covering
                /\ \A d \in covering : stars(found) <= stars(d)

\* The texts that the parts stand for, one after another.
rendered(parts, value) ==
    LET upTo[i \in 0 .. Len(parts)] ==
            IF i = 0 THEN <<>>
            ELSE upTo[i - 1] \o IF parts[i].isPlaceholder THEN value[i] ELSE parts[i].value
    IN upTo[Len(parts)]

\* No value reaches past the first place where the literal behind it stands.
shortest(parts, value) ==
    \A i \in 1 .. Len(parts) - 1 : parts[i].isPlaceholder =>
        First(Occurrences(parts[i + 1].value, value[i] \o parts[i + 1].value, 1))
          = Len(value[i]) + 1

SubTexts(text) == {SubSeq(text, i, j) : i \in 1 .. Len(text) + 1, j \in 0 .. Len(text)}

\* A segment is extracted from a text exactly when some values for its names, as
\* short as the literals allow, give that text; and it yields those values.
ExtractInverts ==
    input.of = "segment" =>
        LET parsed == parsePlaceholderSegment(input.segment)
            parts == parsed.parts
            places == {i \in DOMAIN parts : parts[i].isPlaceholder}
            got == parsePathParams(<<input.text>>, <<input.segment>>)
            values == {v \in [places -> SubTexts(input.text)] :
                          rendered(parts, v) = input.text /\ shortest(parts, v)}
        IN parsed.ok /\ places # {} =>
             /\ got.ok <=> values # {}
             /\ got.ok => \E v \in values : \A i \in places :
                              \/ got.params[parts[i].value] = v[i]
                              \/ \E j \in places : j > i /\ parts[j].value = parts[i].value

\* One public template, whose name is 1.
Public(template) == [name \in {1} |-> template]

applies(rule, upath) ==
    /\ rule.status /\ Compiles(rule)
    /\ \E p \in rule.path : upath \in p.paths
    /\ ~\E p \in rule.exclude : upath \in p.paths

\* The rules of a list act one after another on the path as it is by then, up to
\* a redirect or a rule that ends the list, those of a site before the public ones;
\* and no rule acts that is off, does not compile, does not name the path, or
\* excludes it.
ForwardStops ==
    input.of = "forward" =>
        LET merged == ConfigSiteForward(Public([List |-> input.second]),
                                        [PublicName |-> 1, List |-> input.first])
            all == forwardList(merged.List, input.upath)
            one == forwardList(input.first, input.upath)
            then == forwardList(input.second, one.path)
            rule == input.first[1]
        IN /\ all = IF one.over THEN one ELSE then
           /\ Len(input.first) = 1 =>
                /\ one.path = IF applies(rule, input.upath) THEN rule.rePath[input.upath]
                              ELSE input.upath
                /\ one.redirect # 0 => applies(rule, input.upath)
                /\ one.over <=> /\ applies(rule, input.upath)
                                /\ rule.redirectCode # 0 \/ rule.end

-----------------------------------------------------------------------------
(* ConfigMerge.  The template is at "public" with its map; a site's plugin   *)
(* has its map at "site", and new ones are made at "own" and "again".        *)

heap0 == [a \in {"public", "site", "own", "again"} |->
             CASE a = "public" -> [x |-> 1, y |-> 1]
               [] a = "site" -> [x |-> 2]
               [] OTHER -> <<>>]

over(f, v, default) == IF v = Zero(Kind[f]) THEN default ELSE v

\* What a struct holds, its map by content.
content(m, f) == IF m.dst[f] = Nil THEN <<>> ELSE m.heap[m.dst[f]]
initially(struct, f) == content([dst |-> struct, heap |-> heap0], f)

\* m is origin over template, field by field, in their maps, and in their pointers.
fieldwise(m, origin, template) ==
    \A f \in DOMAIN origin :
        CASE Kind[f] \in {"scalar", "slice"} -> m.dst[f] = over(f, origin[f], template[f])
          [] Kind[f] = "map" ->
               content(m, f) = Over(initially(origin, f), initially(template, f))
          [] Kind[f] = "pointer" ->
               IF origin[f] = Nil \/ template[f] = Nil
               THEN m.dst[f] = over(f, origin[f], template[f])
               ELSE m.dst[f] = [g \in DOMAIN origin[f] |->
                                   over(g, origin[f][g], template[f][g])]

\* Sessions, headers and the dynamic settings have no pointers.
flat(struct) == [f \in DOMAIN struct \ {"TLS"} |-> struct[f]]

\* A scalar that is set is the site's, and the contents of a map are those of both,
\* the site's first.  Connections take nothing that is not set.  What sites,
\* sessions, headers and dynamic settings become where origin has a zero is not
\* claimed: the code takes the zero, its comments promise the template's value.
FlatMerge(origin, template) ==
    LET site == ConfigSite(Public(flat(template)), flat(origin), heap0, "own")
        conn == ConfigConn(Public(flat(template)), flat(origin), heap0, "own")
        maps == Over(initially(origin, "Header"), initially(template, "Header"))
    IN origin.PublicName = 1 =>
         /\ origin.Addr # 0 => site.dst.Addr = origin.Addr
         /\ conn.dst.Addr = over("Addr", origin.Addr, template.Addr)
         /\ content(site, "Header") = maps /\ content(conn, "Header") = maps

\* A plugin whose PublicName is known is the site's settings over the template's in
\* every field and map; the template stays as it was for the other sites; and
\* merging the outcome again, as the next update does, changes nothing.
PluginMerge(origin, template) ==
    LET m == ConfigSitePlugin(Public(template), origin, heap0, "own")
        again == ConfigSitePlugin(Public(template), m.dst, m.heap, "again")
    IN /\ m.heap["public"] = heap0["public"]
       /\ IF origin.PublicName = 1 THEN fieldwise(m, origin, template)
          ELSE m.dst = origin
       /\ \A f \in DOMAIN m.dst :
            IF Kind[f] = "map" THEN content(again, f) = content(m, f)
            ELSE again.dst[f] = m.dst[f]

\* ParseFiles leaves for each identity the last site of the last file that names it,
\* or of the main one, files from the first one on that does not parse being left
\* out; and that site's settings are then merged with those of its template.
inForce(sites, id) == sites[Max(placesOf(sites, id))]
LastFileThenTemplate ==
    input.of = "config" =>
        LET loaded == ParseFiles(input.sites, <<>>, input.files)
            good == {i \in DOMAIN input.files : \A j \in 1 .. i : ~input.files[j].bad}
            sitesOf(i) == IF i = 0 THEN input.sites ELSE input.files[i].sites
            identities(sites) == {s.Identity : s \in Range(sites)}
            naming(id) == {i \in {0} \cup good : placesOf(sitesOf(i), id) # {}}
        IN /\ loaded.ok <=> good = DOMAIN input.files
           /\ identities(loaded.sites) = UNION {identities(sitesOf(i)) : i \in {0} \cup good}
           /\ \A id \in identities(loaded.sites) :
                LET site == inForce(loaded.sites, id)
                IN /\ site = inForce(sitesOf(Max(naming(id))), id)
                   /\ FlatMerge(site.Plugin, input.template)
                   /\ PluginMerge(site.Plugin, input.template)

\* Every suite of TLS 1.0 to 1.2 for a version that is allowed, and none for
\* versions that are not.  Nothing is claimed of suites of TLS 1.3 alone: the code
\* fills them in, its comment says that it does not.
SuitesAreAllowed ==
    LET tls == serverTLS(input.tls, TLS13, Suites)
        allowed == {v \in 1 .. TLS13 : tls.MinVersion <= v /\ v <= tls.MaxVersion}
    IN IF input.tls.CipherSuites # {} THEN tls = input.tls
       ELSE /\ tls.MinVersion <= tls.MaxVersion /\ tls.MaxVersion # 0
            /\ {s \in Suites : s \cap (allowed \ {TLS13}) # {}} \subseteq tls.CipherSuites
            /\ tls.CipherSuites \subseteq {s \in Suites : s \cap allowed # {}}

ClientHasItsConfiguration ==
    LET before == configHTTPClient(NewClient, input.before)
        after == configHTTPClient(before, input.conf)
        fresh == configHTTPClient(NewClient, input.conf)
    IN /\ input.conf.fails = "no" =>
            \A f \in DOMAIN NewClient :
                /\ input.conf[f] # 0 => after[f] = input.conf[f]
                /\ after[f] # fresh[f] => input.conf[f] = 0 /\ after[f] = before[f]
       /\ input.conf.fails # "no" => after.TLS = before.TLS

PoolHasItsConfiguration ==
    LET pool == [NewPool EXCEPT !.foreign = input.foreign]
        before == configRPCClient(pool, input.before)
        after == configRPCClient(before, input.conf)
    IN /\ {after.Timeout, after.Conns} \subseteq Nat
       /\ after.Addr = input.conf.Addr /\ after.foreign = input.foreign
       /\ input.foreign => after.Timeout = 0 /\ after.LocalAddr = 0
       /\ ~input.foreign /\ input.conf.fails = "no" =>
            after.LocalAddr = IF input.conf.LocalAddr = 0 THEN before.LocalAddr
                               ELSE input.conf.LocalAddr

\* A listener that names no suites gets those of TLS 1.0 to 1.2 for the versions it
\* allows, and none for other versions.  A plugin client that is configured again,
\* the time before having failed perhaps, has every setting that the new
\* configuration makes; of the old ones it keeps only those that the new one leaves
\* open, and a failure leaves it the old TLS.  The limits of a connection pool are
\* never negative, and a dialer that is not the code's own is left alone.
TransportIsAsConfigured ==
    /\ input.of = "tls" => SuitesAreAllowed
    /\ input.of = "client" => ClientHasItsConfiguration
    /\ input.of = "pool" => PoolHasItsConfiguration
=============================================================================
