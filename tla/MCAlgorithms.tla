---------------------------- MODULE MCAlgorithms ----------------------------
(* Bounded inputs for Algorithms. *)
EXTENDS Arithmetic

\* Range headers of up to two elements around the ends of files of 0 to 4 bytes.
Suffix == {[form |-> "suffix", n |-> n] : n \in {0, 1, 3, 5}}
From == {[form |-> "from", a |-> a] : a \in {0, 2, 3, 4}}
Between == {[form |-> "between", a |-> a, b |-> b] : a \in {0, 1, 3, 4}, b \in {0, 1, 2, 4, 9}}
Specs == Suffix \cup From \cup Between \cup {[form |-> "other"]}
RangeHeaders == {<<>>} \cup {<<s>> : s \in Specs} \cup {<<s, t>> : s, t \in Specs}

File(kind, size_, mtime) == [kind |-> kind, size |-> size_, mtime |-> mtime]
NoIfRange == [form |-> "none"]
Request(path, range, inm, ims, ir) ==
    [method |-> "GET", path |-> path, range |-> range, ifNoneMatch |-> inm,
     ifModifiedSince |-> ims, ifRange |-> ir]
Static(h, f) == [of |-> "static", request |-> h, file |-> f]

Tag(weak, f) == [weak |-> weak, tag |-> <<f.mtime, f.size>>]
MCStaticInputs ==
    {Static(Request(<<"a">>, r, None, None, NoIfRange), File("file", n, 3)) :
        r \in RangeHeaders \cup {None, Bad}, n \in {0, 1, 4}}
    \cup
    {Static(Request(p, r, inm, ims, ir), File(k, n, 3)) :
        p \in {<<"..", "a">>, <<"b", "..", "a">>},
        r \in {None, <<[form |-> "from", a |-> 1]>>},
        inm \in {None, AnyTag, <<>>, <<Tag(FALSE, File("file", 4, 3))>>,
                 <<Tag(TRUE, File("file", 4, 2))>>},
        ims \in {None, Bad, 0, 1, 2},
        ir \in {NoIfRange, [form |-> "bad"]}
               \cup {[form |-> "date", date |-> d] : d \in {0, 1, 2}}
               \cup {[form |-> "tag", tag |-> Tag(w, File("file", 4, t))] :
                        w \in BOOLEAN, t \in {2, 3}},
        k \in {"file", "dir", "other", "none"}, n \in {0, 4}}

\* Hosts of up to three labels, tables of up to three domains.
Host(labels, port) == [labels |-> labels, port |-> port]
Hosts == {Host(l, p) : l \in {<<"a">>, <<"a", "b">>, <<"b", "a", "a">>}, p \in {"", ":1"}}
Domains == {Host(l, "") : l \in UNION {[1 .. n -> {"a", "b", Star}] : n \in {1, 2}}}
           \cup {Host(<<Star, Star, "a">>, ""), Host(<<Star, "a", "a">>, ""),
                 Host(<<Star>>, ":1"), Host(<<"a">>, ":1"), Host(<<"b", Star, "a">>, "")}
MCDomainInputs == {[of |-> "domain", table |-> {d, e, g}, host |-> h] :
                      d, e, g \in Domains, h \in Hosts}

\* Segments with up to two names, also ill-formed ones, against short texts.
MCSegments == UNION {[1 .. n -> {"{", "}", "a", "b"}] : n \in 1 .. 5}
              \cup {<<"{", "a", "}", "a", "{", "b", "}", "b">>,
                    <<"{", "a", "}", "a", "b", "{", "a", "}">>,
                    <<"b", "{", "a", "}", "a", "a", "{", "b", "}">>}
MCTexts == UNION {[1 .. n -> {"a", "b"}] : n \in 0 .. 4}
Braces(s) == {i \in DOMAIN s : s[i] \in {"{", "}"}}
MCSegmentInputs == {[of |-> "segment", segment |-> s, text |-> t] :
                       s \in {s \in MCSegments : Cardinality(Braces(s)) \in {2, 4}},
                       t \in MCTexts}

\* Rules over three paths, as lists of one and of up to two.
Pattern(form, paths) == [form |-> form, paths |-> paths]
Rule(status, path, exclude, to, code, end) ==
    [status |-> status, path |-> path, exclude |-> exclude,
     rePath |-> [p \in 1 .. 3 |-> to], redirectCode |-> code, end |-> end]
Rules == {Rule(on, p, x, to, code, end) :
             on \in BOOLEAN,
             p \in {{Pattern("literal", {1})}, {Pattern("regex", {1, 2})},
                    {Pattern("regex", {2, 3}), Pattern("invalid", {})}},
             x \in {{}, {Pattern("literal", {2})}, {Pattern("regex", {1, 3})}},
             to \in {2, 3}, code \in {0, 301}, end \in BOOLEAN}
OnRules == {r \in Rules : r.status /\ r.exclude = {}}
MCForwardInputs ==
    {[of |-> "forward", first |-> <<r>>, second |-> s, upath |-> p] :
        r \in Rules, s \in {<<>>} \cup {<<r2>> : r2 \in OnRules}, p \in 1 .. 2}

\* Plugins of two fields, a nested struct and a map; two files, one maybe bad.
TLSes == {Nil} \cup {[ServerName |-> n, NextProtos |-> p] : n \in {0, 2}, p \in {Nil, <<1>>}}
Plugin(name, addr, tls, map) ==
    [PublicName |-> name, Addr |-> addr, TLS |-> tls, Header |-> map]
Plugins == {Plugin(n, a, t, m) : n \in {0, 1}, a \in {0, 3}, t \in TLSes, m \in {Nil, "site"}}
TLSTemplates == {Nil, [ServerName |-> 4, NextProtos |-> <<4>>],
                 [ServerName |-> 4, NextProtos |-> Nil]}
MCTemplates == {Plugin(1, 4, t, m) : t \in TLSTemplates, m \in {Nil, "public"}}
MCKind == [f \in {"PublicName", "Addr", "TLS", "Header", "ServerName", "NextProtos"} |->
              CASE f = "TLS" -> "pointer" [] f = "Header" -> "map"
                [] f = "NextProtos" -> "slice" [] OTHER -> "scalar"]

SiteOf(id, p) == [Identity |-> id, Plugin |-> p]
Plain(a) == Plugin(0, a, Nil, Nil)
FileOf(bad, sites) == [bad |-> bad, sites |-> sites, listens |-> <<>>]
SomeFiles == {FileOf(b, s) : b \in BOOLEAN,
                 s \in {<<>>, <<SiteOf(1, Plain(5))>>, <<SiteOf(2, Plain(6)), SiteOf(1, Plain(7))>>,
                        <<SiteOf(3, Plain(8)), SiteOf(3, Plain(9))>>}}
MCConfigInputs ==
    {[of |-> "config", sites |-> <<SiteOf(1, p)>>, files |-> <<>>, template |-> t] :
        p \in Plugins, t \in MCTemplates}
    \cup
    {[of |-> "config", sites |-> <<SiteOf(1, Plain(1)), SiteOf(2, Plain(2))>>,
      files |-> <<f, g, FileOf(FALSE, <<SiteOf(id, p)>>)>>, template |-> t] :
        f, g \in SomeFiles, id \in {2, 3}, p \in {p \in Plugins : p.PublicName = 1},
        t \in {Plugin(1, 4, [ServerName |-> 4, NextProtos |-> Nil], "public")}}

MCSuites == {{1, 2}, {2}, {1}, {3}}
MCTLSInputs == {[of |-> "tls", tls |-> [MinVersion |-> a, MaxVersion |-> b, CipherSuites |-> c]] :
                   a, b \in 0 .. 3, c \in {{}, {{3}}}}

Conf(local, timeout, tls, fails) ==
    [Addr |-> 3, LocalAddr |-> local, Dial |-> timeout, Proxy |-> local, Keep |-> 0,
     Timeout |-> timeout, TLS |-> tls, Conns |-> timeout, fails |-> fails]
Confs(n) == {Conf(l, t, s, f) : l \in {0, n}, t \in {0, n}, s \in {0, n},
                f \in {"no", "local", "proxy", "ca"}}
MCClientInputs ==
    {[of |-> "client", before |-> b, conf |-> c] : b \in Confs(1), c \in Confs(2)}
    \cup {[of |-> "pool", before |-> b, conf |-> c, foreign |-> g] :
             b \in Confs(1), c \in Confs(-2), g \in BOOLEAN}

\* Words of four bits, and types of three.
Ints == {num(k, b, n) : k \in integers, b \in {3, 4}, n \in -8 .. 15}
TypedInts == {x \in Ints : x.n \in Holds(x.kind, x.bits)}
MCSumInputs ==
    {[of |-> "sum", x |-> x, symbol |-> s, y |-> y] :
        x \in TypedInts \cup {float(1)}, s \in symbols,
        y \in {y \in TypedInts : y.kind = "int" \/ y.n \in {0, 1, 3, 6, 7, 15}}}
MCKeyInputs ==
    {[of |-> "key", key |-> key, kind |-> k, bits |-> b] :
        key \in TypedInts \cup {float(n) : n \in -20 .. 40 \cup {NaN}}
                \cup {num("string", 0, n) : n \in -20 .. 20 \cup {NaN}},
        k \in integers, b \in {3, 4}}
=============================================================================
