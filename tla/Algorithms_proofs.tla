--------------------------- MODULE Algorithms_proofs ---------------------------
(***************************************************************************)
(* Proofs about Algorithms, for any inputs of the shape that is assumed    *)
(* there.                                                                  *)
(***************************************************************************)
EXTENDS Algorithms, FiniteSetTheorems, WellFoundedInduction, TLAPS

-----------------------------------------------------------------------------
(* What an input is known to be by what it is an input of.                   *)

InputInv ==
    input \in {Nothing} \cup StaticInputs \cup DomainInputs \cup SegmentInputs
              \cup ForwardInputs \cup ConfigInputs \cup TLSInputs \cup ClientInputs
              \cup SumInputs \cup KeyInputs

\* A behaviour takes its inputs from the sets that are given, and nothing else.
THEOREM InputInvariant == Spec => []InputInv
<1>1. Init => InputInv
  BY DEF Init, InputInv
<1>2. InputInv /\ [Next]_input => InputInv'
  BY DEF InputInv, Next, TakeStatic, TakeDomain, TakeSegment, TakeForward, TakeConfig,
         TakeTLS, TakeClient, TakeSum, TakeKey, Drop
<1>. QED
  BY <1>1, <1>2, PTL DEF Spec

\* An input of a kind is one of the inputs of that kind.
LEMMA WhoseInput ==
  ASSUME InputInv
  PROVE  /\ input.of = "static" => input \in StaticInputs
         /\ input.of = "domain" => input \in DomainInputs
         /\ input.of = "segment" => input \in SegmentInputs
         /\ input.of = "forward" => input \in ForwardInputs
         /\ input.of = "config" => input \in ConfigInputs
         /\ input.of = "tls" => input \in TLSInputs
         /\ input.of \in {"client", "pool"} => input \in ClientInputs
  BY StaticInputsAssumption, DomainInputsAssumption, SegmentInputsAssumption,
     ForwardInputsAssumption, ConfigInputsAssumption, TLSAssumption,
     ClientInputsAssumption, NumberInputsAssumption
     DEF InputInv, Nothing

-----------------------------------------------------------------------------
(* Domains.                                                                  *)

\* A set of naturals that is not empty has a least element, the one First takes.
LEMMA NatRelation == IsWellFoundedOn({ss \in Nat \X Nat : ss[1] < ss[2]}, Nat)
  BY NatLessThanWellFounded DEF OpToRel

\* First of a set of naturals that is not empty is in it and no greater than any.
LEMMA FirstIsLeast ==
  ASSUME NEW S \in SUBSET Nat, S # {}
  PROVE  First(S) \in S /\ \A n \in S : First(S) <= n
<1> DEFINE R == {ss \in Nat \X Nat : ss[1] < ss[2]}
<1>1. IsWellFoundedOn(R, Nat)
  BY NatRelation
<1>2. PICK m \in S : \A n \in S : <<n, m>> \notin R
  <2> HIDE DEF R
  <2> QED  BY <1>1, WFMin
<1>3. ASSUME NEW n \in S PROVE m <= n
  <2>1. m \in Nat /\ n \in Nat /\ <<n, m>> \notin R
    BY <1>2
  <2>2. ~(n < m)
    BY <2>1
  <2> QED  BY <2>1, <2>2
<1> QED
  BY <1>3 DEF First

\* Induction, over a set of naturals.
LEMMA Induction ==
  ASSUME NEW S \in SUBSET Nat, 0 \in S, \A k \in S : k + 1 \in S
  PROVE  S = Nat
<1> DEFINE rest == Nat \ S
<1> SUFFICES ASSUME rest # {} PROVE FALSE
  OBVIOUS
<1>1. PICK k \in rest : \A j \in rest : k <= j
  <2>1. rest \in SUBSET Nat
    OBVIOUS
  <2> HIDE DEF rest
  <2> QED  BY <2>1, FirstIsLeast
<1>2. k - 1 \in Nat /\ ~(k <= k - 1) /\ (k - 1) + 1 = k
  BY <1>1
<1>3. k - 1 \in S
  BY <1>1, <1>2
<1> QED
  BY <1>1, <1>2, <1>3

Domain == [labels : Seq(STRING), port : STRING]

\* A host with its first p labels replaced by stars.
starred(host, p) ==
    [labels |-> [j \in 1 .. Len(host.labels) |-> IF j <= p THEN Star ELSE host.labels[j]],
     port |-> host.port]

\* What derogatoryDomain tries: the host with ever more stars.
LEMMA DomainsTried ==
  ASSUME NEW host \in Domain
  PROVE  LET domains == derogatoryDomain(host)
         IN /\ DOMAIN domains = 1 .. Len(host.labels) + 1
            /\ \A i \in DOMAIN domains : domains[i] = starred(host, i - 1)
<1> DEFINE n == Len(host.labels)
           rest == [i \in DOMAIN host.labels |->
                      [host EXCEPT !.labels = [j \in DOMAIN @ |->
                                                 IF j <= i THEN Star ELSE @[j]]]]
           all == {starred(host, p) : p \in Nat}
<1>1. host = [labels |-> host.labels, port |-> host.port] /\ host.labels \in Seq(STRING)
  BY DEF Domain
<1>2. n \in Nat /\ DOMAIN host.labels = 1 .. n
  BY <1>1
<1>3. host = starred(host, 0)
  <2>1. host.labels = [j \in 1 .. n |-> IF j <= 0 THEN Star ELSE host.labels[j]]
    BY <1>1, <1>2
  <2> QED  BY <1>1, <2>1 DEF starred
<1>4. \A i \in 1 .. n : rest[i] = starred(host, i)
  BY <1>1, <1>2 DEF starred
<1>5. rest \in Seq(all) /\ Len(rest) = n
  <2>1. DOMAIN rest = 1 .. n /\ rest = [i \in 1 .. n |-> rest[i]]
    BY <1>2
  <2>2. \A i \in 1 .. n : starred(host, i) \in all
    OBVIOUS
  <2>3. rest \in [1 .. n -> all]
    <3> HIDE DEF rest, all
    <3> QED  BY <1>4, <2>1, <2>2
  <2> QED  BY <1>2, <2>3
<1>6. <<host>> \in Seq(all) /\ Len(<<host>>) = 1
  BY <1>3
<1>7. derogatoryDomain(host) = <<host>> \o rest
  BY DEF derogatoryDomain
<1> QED
  <2> HIDE DEF rest, all
  <2>1. DOMAIN (<<host>> \o rest) = 1 .. n + 1
    BY <1>2, <1>5, <1>6
  <2>2. ASSUME NEW i \in 1 .. n + 1
        PROVE  (<<host>> \o rest)[i] = starred(host, i - 1)
    BY <1>2, <1>3, <1>4, <1>5, <1>6
  <2> QED  BY <1>7, <2>1, <2>2

\* The labels of a starred host, as a function and as a sequence.
LEMMA StarredLabels ==
  ASSUME NEW host \in Domain, NEW p \in Nat
  PROVE  LET d == starred(host, p)
         IN /\ DOMAIN d.labels = 1 .. Len(host.labels) /\ Len(d.labels) = Len(host.labels)
            /\ \A i \in 1 .. Len(host.labels) :
                 d.labels[i] = IF i <= p THEN Star ELSE host.labels[i]
            /\ d.port = host.port
<1> DEFINE n == Len(host.labels)
           labels == [j \in 1 .. n |-> IF j <= p THEN Star ELSE host.labels[j]]
<1>1. n \in Nat
  BY DEF Domain
<1>2. Len(labels) = n
  <2> HIDE DEF n
  <2>1. DOMAIN labels = 1 .. n
    OBVIOUS
  <2>2. labels \in Seq({labels[j] : j \in 1 .. n})
    <3>1. labels \in [1 .. n -> {labels[j] : j \in 1 .. n}]
      OBVIOUS
    <3> QED  BY <1>1, <3>1
  <2> QED  BY <1>1, <2>1, <2>2
<1> QED
  BY <1>1, <1>2 DEF starred

\* Exactly the starred hosts cover a host, if they are domains.
LEMMA StarredCovers ==
  ASSUME NEW host \in Domain, NEW p \in Nat
  PROVE  covers(starred(host, p), host)
<1>1. Len(host.labels) \in Nat
  BY DEF Domain
<1> QED
  BY <1>1, StarredLabels DEF covers

\* And every domain that covers a host, stars being on the left, is a starred host.
LEMMA CoveringIsStarred ==
  ASSUME NEW host \in Domain, NEW d \in Domain, covers(d, host)
  PROVE  \E p \in 0 .. Len(host.labels) : d = starred(host, p)
<1> DEFINE n == Len(host.labels)
           plain == {i \in 1 .. n : d.labels[i] # Star}
<1>1. /\ n \in Nat /\ Len(d.labels) = n /\ DOMAIN d.labels = 1 .. n
      /\ d = [labels |-> d.labels, port |-> host.port]
      /\ d.labels = [i \in 1 .. n |-> d.labels[i]]
  BY DEF Domain, covers
<1>2. PICK p \in 0 .. n : /\ \A i \in 1 .. p : d.labels[i] = Star
                          /\ p < n => d.labels[p + 1] # Star
  <2>1. CASE plain = {}
    <3>1. \A i \in 1 .. n : d.labels[i] = Star
      BY <2>1
    <3>2. n \in 0 .. n /\ ~(n < n)
      BY <1>1
    <3> HIDE DEF n, plain
    <3> QED  BY <3>1, <3>2
  <2>2. CASE plain # {}
    <3> DEFINE k == First(plain)
    <3>1. k \in plain /\ \A i \in plain : k <= i
      <4>1. plain \in SUBSET Nat
        OBVIOUS
      <4> HIDE DEF plain
      <4> QED  BY <2>2, <4>1, FirstIsLeast
    <3> HIDE DEF k
    <3>2. k \in 1 .. n /\ d.labels[k] # Star
      BY <3>1
    <3>3. ASSUME NEW i \in 1 .. k - 1 PROVE d.labels[i] = Star
      <4>1. i \in 1 .. n /\ ~(k <= i)
        BY <1>1, <3>2
      <4>2. i \notin plain
        BY <3>1, <4>1
      <4> QED  BY <4>1, <4>2
    <3> HIDE DEF plain
    <3>4. k - 1 \in 0 .. n /\ (k - 1) + 1 = k
      BY <1>1, <3>2
    <3> QED  BY <3>2, <3>3, <3>4
  <2> HIDE DEF plain
  <2> QED  BY <2>1, <2>2
<1>3. \A i \in 1 .. n : d.labels[i] = IF i <= p THEN Star ELSE host.labels[i]
  <2> SUFFICES ASSUME NEW i \in 1 .. n, ~(i <= p)
               PROVE  d.labels[i] = host.labels[i]
    <3>1. ASSUME NEW i \in 1 .. n, i <= p PROVE d.labels[i] = Star
      <4>1. i \in 1 .. p
        BY <1>1, <3>1
      <4> QED  BY <1>2, <4>1
    <3> QED  BY <3>1
  <2>1. p + 1 \in 1 .. i /\ d.labels[p + 1] # Star
    BY <1>1, <1>2
  <2> QED  BY <1>1, <2>1 DEF covers
<1>4. d.labels = [i \in 1 .. n |-> IF i <= p THEN Star ELSE host.labels[i]]
  BY <1>1, <1>3
<1> QED
  BY <1>1, <1>4 DEF starred

\* More labels replaced are no fewer stars.
LEMMA MoreStars ==
  ASSUME NEW host \in Domain, NEW p \in Nat, NEW q \in Nat, p <= q
  PROVE  stars(starred(host, p)) <= stars(starred(host, q))
<1> DEFINE n == Len(host.labels)
           at(r) == {i \in DOMAIN starred(host, r).labels : starred(host, r).labels[i] = Star}
<1>1. n \in Nat
  BY DEF Domain
<1>2. at(p) \subseteq at(q) /\ at(q) \subseteq 1 .. n
  BY <1>1, StarredLabels
<1>3. IsFiniteSet(at(q))
  <2>1. IsFiniteSet(1 .. n)
    BY <1>1, FS_Interval
  <2> HIDE DEF at
  <2> QED  BY <1>2, <2>1, FS_Subset
<1>4. Cardinality(at(p)) <= Cardinality(at(q))
  <2> HIDE DEF at
  <2> QED  BY <1>2, <1>3, FS_Subset
<1> QED
  BY <1>4 DEF stars

\* derogatoryDomain: of the domains of a table that cover a host, stars being
\* allowed on the left only, the one with the fewest stars is taken; if there are
\* any, one is taken.
THEOREM MostSpecific == Spec => []MostSpecificDomainWins
<1> SUFFICES ASSUME InputInv PROVE MostSpecificDomainWins
  BY InputInvariant, PTL
<1> SUFFICES ASSUME input.of = "domain"
             PROVE  LET found == firstDomain(input.table, input.host)
                        covering == {d \in input.table : covers(d, input.host)}
                    IN IF covering = {} THEN found = NoDomain
                       ELSE /\ found \in covering
                            /\ \A d \in covering : stars(found) <= stars(d)
  BY DEF MostSpecificDomainWins
<1>1. input \in DomainInputs
  BY WhoseInput
<1>2. PICK host \in Domain, table \in SUBSET Domain : input.host = host /\ input.table = table
  BY <1>1, DomainInputsAssumption DEF Domain
<1> DEFINE domains == derogatoryDomain(host)
           found == {i \in DOMAIN domains : domains[i] \in table}
           covering == {d \in table : covers(d, host)}
<1>3. /\ Len(host.labels) \in Nat /\ DOMAIN domains = 1 .. Len(host.labels) + 1
      /\ \A i \in DOMAIN domains : domains[i] = starred(host, i - 1)
  BY DomainsTried DEF Domain
<1>4. firstDomain(table, host) = IF found = {} THEN NoDomain ELSE domains[First(found)]
  BY DEF firstDomain
<1> HIDE DEF domains
<1>5. ASSUME NEW d \in covering
      PROVE  \E i \in found : d = starred(host, i - 1)
  <2>1. PICK p \in 0 .. Len(host.labels) : d = starred(host, p)
    BY CoveringIsStarred
  <2>2. p + 1 \in DOMAIN domains /\ (p + 1) - 1 = p
    BY <1>3
  <2> QED  BY <1>3, <2>1, <2>2
<1>6. ASSUME NEW i \in found PROVE i - 1 \in Nat /\ domains[i] \in covering
  BY <1>3, StarredCovers
<1>7. CASE covering = {}
  BY <1>2, <1>4, <1>6, <1>7
<1>8. CASE covering # {}
  <2>1. found # {} /\ found \in SUBSET Nat
    BY <1>3, <1>5, <1>8
  <2>2. PICK k \in found : k = First(found) /\ \A i \in found : k <= i
    BY <2>1, FirstIsLeast
  <2>3. firstDomain(table, host) = starred(host, k - 1)
    BY <1>3, <1>4, <2>1, <2>2
  <2>4. starred(host, k - 1) \in covering
    BY <1>3, <1>6
  <2>5. ASSUME NEW d \in covering PROVE stars(starred(host, k - 1)) <= stars(d)
    <3>1. PICK i \in found : d = starred(host, i - 1)
      BY <1>5
    <3>2. k \in Nat /\ i \in Nat /\ k <= i
      BY <2>1, <2>2
    <3>3. k - 1 \in Nat /\ i - 1 \in Nat /\ k - 1 <= i - 1
      <4> HIDE DEF found
      <4> QED  BY <1>6, <3>2
    <3> QED  BY <3>1, <3>3, MoreStars
  <2> QED  BY <1>2, <1>8, <2>3, <2>4, <2>5
<1> QED
  BY <1>7, <1>8

-----------------------------------------------------------------------------
(* Listeners and plugin clients.                                             *)

\* CipherSuitesAuto mends the order of the versions, and with it the suites.
LEMMA Suited ==
  ASSUME input \in TLSInputs
  PROVE  SuitesAreAllowed
<1> DEFINE tls == input.tls
           max == IF tls.MaxVersion = 0 THEN TLS13 ELSE tls.MaxVersion
           min == IF tls.MinVersion > max THEN max ELSE tls.MinVersion
<1>1. CASE tls.CipherSuites # {}
  BY <1>1 DEF SuitesAreAllowed, serverTLS
<1>2. CASE tls.CipherSuites = {}
  <2>1. /\ tls.MinVersion \in Nat /\ tls.MaxVersion \in Nat
        /\ TLS13 \in Nat \ {0} /\ \A s \in Suites : s \subseteq 1 .. TLS13
    BY TLSAssumption
  <2>2. max \in Nat \ {0} /\ min \in Nat /\ min <= max
    BY <2>1
  <2>3. serverTLS(tls, TLS13, Suites) =
          [MaxVersion |-> max, MinVersion |-> min,
           CipherSuites |-> {s \in Suites : \E v \in s : min <= v /\ v <= max}]
    BY <1>2 DEF serverTLS, CipherSuitesAuto
  <2> HIDE DEF max, min
  <2> DEFINE allowed == {v \in 1 .. TLS13 : min <= v /\ v <= max}
  <2>4. \A s \in Suites : (\E v \in s : min <= v /\ v <= max) <=> s \cap allowed # {}
    BY <2>1
  <2> QED
    BY <1>2, <2>2, <2>3, <2>4 DEF SuitesAreAllowed
<1> QED
  BY <1>1, <1>2

\* What configHTTPClient does to each setting.
LEMMA ClientConfigured ==
  ASSUME input \in ClientInputs, input.of = "client"
  PROVE  ClientHasItsConfiguration
<1> DEFINE before == configHTTPClient(NewClient, input.before)
           after == configHTTPClient(before, input.conf)
           fresh == configHTTPClient(NewClient, input.conf)
           fields == {"Addr", "LocalAddr", "Dial", "Proxy", "Keep", "Timeout", "TLS"}
<1>1. input.conf.fails \in {"no", "local", "proxy", "ca"}
  BY ClientInputsAssumption
<1>2. DOMAIN NewClient = fields /\ DOMAIN before = fields
  BY DEF NewClient, configHTTPClient
<1> HIDE DEF before
<1>3. ASSUME input.conf.fails = "no", NEW f \in fields
      PROVE  /\ input.conf[f] # 0 => after[f] = input.conf[f]
             /\ after[f] # fresh[f] => input.conf[f] = 0 /\ after[f] = before[f]
  <2>1. /\ after.Addr = input.conf.Addr /\ after.Dial = input.conf.Dial
        /\ after.Keep = input.conf.Keep /\ after.TLS = input.conf.TLS
        /\ \A g \in {"LocalAddr", "Proxy", "Timeout"} :
             after[g] = IF input.conf[g] = 0 THEN before[g] ELSE input.conf[g]
    BY <1>2, <1>3 DEF configHTTPClient, keepIfZero
  <2>2. /\ fresh.Addr = input.conf.Addr /\ fresh.Dial = input.conf.Dial
        /\ fresh.Keep = input.conf.Keep /\ fresh.TLS = input.conf.TLS
        /\ \A g \in {"LocalAddr", "Proxy", "Timeout"} :
             fresh[g] = IF input.conf[g] = 0 THEN 0 ELSE input.conf[g]
    BY <1>3 DEF configHTTPClient, keepIfZero, NewClient
  <2> HIDE DEF after, fresh
  <2> QED
    BY <2>1, <2>2
<1>4. ASSUME input.conf.fails # "no" PROVE after.TLS = before.TLS
  BY <1>1, <1>2, <1>4 DEF configHTTPClient
<1> QED
  BY <1>2, <1>3, <1>4 DEF ClientHasItsConfiguration, before

\* What configRPCClient does to a pool, one of the code's own or a foreign one.
LEMMA PoolConfigured ==
  ASSUME input \in ClientInputs, input.of = "pool"
  PROVE  PoolHasItsConfiguration
<1> DEFINE pool == [NewPool EXCEPT !.foreign = input.foreign]
           before == configRPCClient(pool, input.before)
           after == configRPCClient(before, input.conf)
           fields == {"Addr", "Conns", "LocalAddr", "Timeout", "foreign"}
<1>1. /\ input.foreign \in BOOLEAN
      /\ \A conf \in {input.before, input.conf} : conf.Conns \in Int /\ conf.Timeout \in Int
  BY ClientInputsAssumption
<1>2. \A n \in Int : atLeastZero(n) \in Nat
  BY DEF atLeastZero
<1>3. /\ DOMAIN pool = fields /\ pool.foreign = input.foreign
      /\ pool.Timeout = 0 /\ pool.LocalAddr = 0 /\ pool.Conns = 0
  BY DEF NewPool
<1> HIDE DEF pool
<1>4. /\ DOMAIN before = fields /\ before.foreign = input.foreign /\ before.Timeout \in Nat
      /\ input.foreign => before.Timeout = 0 /\ before.LocalAddr = 0
  BY <1>1, <1>2, <1>3 DEF configRPCClient
<1> HIDE DEF before
<1>5. /\ after.Timeout \in Nat /\ after.Conns \in Nat
      /\ after.Addr = input.conf.Addr /\ after.foreign = input.foreign
      /\ input.foreign => after.Timeout = 0 /\ after.LocalAddr = 0
  BY <1>1, <1>2, <1>4 DEF configRPCClient
<1>6. ~input.foreign /\ input.conf.fails = "no" =>
         after.LocalAddr = keepIfZero(before.LocalAddr, input.conf.LocalAddr)
  BY <1>4 DEF configRPCClient
<1> QED
  BY <1>5, <1>6 DEF PoolHasItsConfiguration, before, pool, keepIfZero

\* A listener that names no suites gets those of TLS 1.0 to 1.2 for the versions it
\* allows, and none for other versions.  A plugin client that is configured again has
\* every setting of the new configuration and of the old ones only those that the
\* new one leaves open; a failure leaves it the old TLS, and limits are never negative.
THEOREM ConfiguredTransport == Spec => []TransportIsAsConfigured
<1>1. InputInv => TransportIsAsConfigured
  BY WhoseInput, Suited, ClientConfigured, PoolConfigured DEF TransportIsAsConfigured
<1> QED
  BY <1>1, InputInvariant, PTL

-----------------------------------------------------------------------------
(* Static files.                                                             *)

\* A request for GET and one for HEAD differ in nothing that decides the answer.
LEMMA SameButMethod ==
  ASSUME input \in StaticInputs, NEW method
  PROVE  LET req == [input.request EXCEPT !.method = method]
             all == input.request
         IN /\ req.method = method /\ req.path = all.path /\ req.range = all.range
            /\ req.ifNoneMatch = all.ifNoneMatch /\ req.ifModifiedSince = all.ifModifiedSince
            /\ req.ifRange = all.ifRange
<1>1. DOMAIN input.request = {"method", "path", "range", "ifNoneMatch", "ifModifiedSince",
                              "ifRange"}
  BY StaticInputsAssumption
<1> QED
  BY <1>1

\* The header for HEAD, by the three ways setHeader can go with a GET.
LEMMA HeadAgrees ==
  ASSUME InputInv, input.of = "static"
  PROVE  HeadAgreesWithGet
<1> DEFINE get == [input.request EXCEPT !.method = "GET"]
           head == [input.request EXCEPT !.method = "HEAD"]
           file == input.file
           blocks == ranges(get.range, file.size)
<1>1. /\ get.method = "GET" /\ head.method = "HEAD"
      /\ get.path = head.path /\ get.range = head.range
      /\ get.ifNoneMatch = head.ifNoneMatch /\ get.ifModifiedSince = head.ifModifiedSince
      /\ get.ifRange = head.ifRange
  BY WhoseInput, SameButMethod
<1>2. answer("GET") = ServeHTTP(get, file) /\ answer("HEAD") = ServeHTTP(head, file)
  BY DEF answer
<1> HIDE DEF get, head
<1>3. /\ NotModified(get, file) <=> NotModified(head, file)
      /\ useRange(get, file) <=> useRange(head, file)
      /\ ranges(head.range, file.size) = blocks
  BY <1>1 DEF NotModified, useRange
<1>4. file.size \in Nat
  BY WhoseInput, StaticInputsAssumption
<1> DEFINE partial == /\ ~NotModified(get, file) /\ file.size > 0 /\ get.range # None
                      /\ get.ifRange.form = "none" \/ useRange(get, file)
                      /\ get.range # Bad /\ blocks # <<>> /\ ~(Total(blocks) > file.size)
           whole == /\ ~NotModified(get, file) /\ file.size > 0
                    /\ \/ get.range = None
                       \/ get.ifRange.form # "none" /\ ~useRange(get, file)
                       \/ get.range # Bad /\ blocks # <<>> /\ Total(blocks) > file.size
<1> HIDE DEF blocks
<1>5. CASE partial
  <2>1. setHeader(get, file) = Answer(206, None, blocks, TRUE)
    BY <1>1, <1>3, <1>4, <1>5 DEF setHeader, blocks, Answer, NotSatisfiable
  <2>2. setHeader(head, file) =
          Answer(206, IF Len(blocks) = 1 THEN Length(blocks[1]) ELSE None, blocks, FALSE)
    BY <1>1, <1>3, <1>4, <1>5 DEF setHeader, blocks, Answer, NotSatisfiable
  <2> QED
    BY <1>1, <1>2, <1>5, <2>1, <2>2 DEF ServeHTTP, body, Answer, HeadAgreesWithGet
<1>6. CASE whole
  <2>1. setHeader(get, file) = Answer(200, file.size, <<>>, TRUE)
    BY <1>1, <1>3, <1>4, <1>6 DEF setHeader, blocks, Full, Answer, NotSatisfiable
  <2>2. setHeader(head, file) = Answer(200, file.size, <<>>, FALSE)
    BY <1>1, <1>3, <1>4, <1>6 DEF setHeader, blocks, Full, Answer, NotSatisfiable
  <2> QED
    BY <1>1, <1>2, <2>1, <2>2 DEF ServeHTTP, body, Answer, HeadAgreesWithGet
<1>7. CASE ~partial /\ ~whole
  <2>1. setHeader(get, file) = setHeader(head, file) /\ ~setHeader(get, file).more
    BY <1>1, <1>3, <1>4, <1>7 DEF setHeader, blocks, Answer, NotSatisfiable
  <2> QED
    BY <1>1, <1>2, <2>1 DEF ServeHTTP, Answer, HeadAgreesWithGet
<1> QED
  BY <1>5, <1>6, <1>7

\* HEAD gets the status, the length and the ranges that GET would get, for every
\* file and every header, whatever the ranges are.
THEOREM HeadIsGet == Spec => [](input.of = "static" => HeadAgreesWithGet)
<1>1. InputInv => (input.of = "static" => HeadAgreesWithGet)
  BY HeadAgrees
<1> QED
  BY <1>1, InputInvariant, PTL

\* The ranges of a file, and the bytes in one.
Blocks(size) == {b \in [start : Nat, end : Nat] : b.start <= b.end /\ b.end < size}
bytesOf(b) == b.start .. b.end
IsSpec(spec) ==
    /\ spec.form \in {"suffix", "from", "between", "other"}
    /\ spec.form = "suffix" => spec.n \in Int
    /\ spec.form \in {"from", "between"} => spec.a \in Nat
    /\ spec.form = "between" => spec.b \in Int

\* One element of a Range header gives one range at most, of the bytes it asks for.
LEMMA OneSpec ==
  ASSUME NEW size \in Nat, size > 0, NEW spec, IsSpec(spec)
  PROVE  /\ blockRange(spec, size) \subseteq Blocks(size)
         /\ \A b, c \in blockRange(spec, size) : b = c
         /\ \A n : n \in asked(spec, size) <=> \E b \in blockRange(spec, size) : n \in bytesOf(b)
<1>1. ASSUME NEW s \in Nat, NEW e \in Int, e < size,
             blockRange(spec, size) = IF s >= size \/ s > e THEN {}
                                      ELSE {[start |-> s, end |-> e]},
             \A n : n \in asked(spec, size) <=> n \in 0 .. size - 1 /\ s <= n /\ n <= e
      PROVE  /\ blockRange(spec, size) \subseteq Blocks(size)
             /\ \A b, c \in blockRange(spec, size) : b = c
             /\ \A n : n \in asked(spec, size) <=>
                         \E b \in blockRange(spec, size) : n \in bytesOf(b)
  <2>1. CASE s >= size \/ s > e
    <3>1. blockRange(spec, size) = {}
      BY <1>1, <2>1
    <3>2. \A n : n \notin asked(spec, size)
      BY <1>1, <2>1
    <3> QED  BY <3>1, <3>2
  <2>2. CASE ~(s >= size \/ s > e)
    <3> DEFINE b == [start |-> s, end |-> e]
    <3>1. blockRange(spec, size) = {b}
      BY <1>1, <2>2
    <3>2. b \in Blocks(size)
      BY <1>1, <2>2 DEF Blocks
    <3>3. \A n : n \in bytesOf(b) <=> n \in 0 .. size - 1 /\ s <= n /\ n <= e
      BY <1>1, <2>2 DEF bytesOf
    <3> HIDE DEF b
    <3> QED  BY <1>1, <3>1, <3>2, <3>3
  <2> QED  BY <2>1, <2>2
<1>2. CASE spec.form = "suffix"
  <2>1. CASE spec.n <= 0
    <3>1. blockRange(spec, size) = {}
      BY <1>2, <2>1 DEF blockRange
    <3>2. \A n : n \notin asked(spec, size)
      BY <1>2, <2>1 DEF IsSpec, asked
    <3> QED  BY <3>1, <3>2
  <2>2. CASE ~(spec.n <= 0)
    <3>1. PICK s \in Nat : s = IF size - spec.n > 0 THEN size - spec.n ELSE 0
      BY <1>2 DEF IsSpec
    <3>2. blockRange(spec, size) = IF s >= size \/ s > size - 1 THEN {}
                                   ELSE {[start |-> s, end |-> size - 1]}
      BY <1>2, <2>2, <3>1 DEF blockRange
    <3>3. \A n : n \in asked(spec, size) <=> n \in 0 .. size - 1 /\ s <= n /\ n <= size - 1
      BY <1>2, <3>1 DEF IsSpec, asked
    <3> QED  BY <1>1, <3>2, <3>3
  <2> QED  BY <2>1, <2>2
<1>3. CASE spec.form = "from"
  <2>1. PICK s \in Nat : s = spec.a
    BY <1>3 DEF IsSpec
  <2>2. blockRange(spec, size) = IF s >= size \/ s > size - 1 THEN {}
                                 ELSE {[start |-> s, end |-> size - 1]}
    BY <1>3, <2>1 DEF blockRange
  <2>3. \A n : n \in asked(spec, size) <=> n \in 0 .. size - 1 /\ s <= n /\ n <= size - 1
    BY <1>3, <2>1 DEF asked
  <2> QED  BY <1>1, <2>2, <2>3
<1>4. CASE spec.form = "between"
  <2>1. PICK s \in Nat, e \in Int : s = spec.a /\ e = IF spec.b < size THEN spec.b ELSE size - 1
    BY <1>4 DEF IsSpec
  <2>2. blockRange(spec, size) = IF s >= size \/ s > e THEN {}
                                 ELSE {[start |-> s, end |-> e]}
    BY <1>4, <2>1 DEF blockRange
  <2>3. e < size /\ \A n : n \in asked(spec, size) <=> n \in 0 .. size - 1 /\ s <= n /\ n <= e
    BY <1>4, <2>1 DEF IsSpec, asked
  <2> QED  BY <1>1, <2>2, <2>3
<1>5. CASE spec.form = "other"
  BY <1>5 DEF blockRange, asked
<1> QED
  BY <1>2, <1>3, <1>4, <1>5 DEF IsSpec

\* There are finitely many ranges: no more than elements.
LEMMA FinitelyMany ==
  ASSUME NEW specs, NEW n \in Nat, DOMAIN specs = 1 .. n, NEW size \in Nat, size > 0,
         \A i \in 1 .. n : IsSpec(specs[i])
  PROVE  IsFiniteSet(UNION {blockRange(specs[i], size) : i \in DOMAIN specs})
<1> DEFINE raw == UNION {blockRange(specs[i], size) : i \in DOMAIN specs}
           I == {i \in 1 .. n : blockRange(specs[i], size) # {}}
           f == [i \in I |-> CHOOSE b \in blockRange(specs[i], size) : TRUE]
<1>1. \A i \in I : blockRange(specs[i], size) = {f[i]}
  <2>1. ASSUME NEW i \in I PROVE blockRange(specs[i], size) = {f[i]}
    <3>1. f[i] \in blockRange(specs[i], size)
      OBVIOUS
    <3>2. \A b, c \in blockRange(specs[i], size) : b = c
      BY OneSpec
    <3> QED  BY <3>1, <3>2
  <2> QED  BY <2>1
<1>2. IsFiniteSet(I)
  <2>1. IsFiniteSet(1 .. n) /\ I \in SUBSET (1 .. n)
    BY FS_Interval
  <2> HIDE DEF I
  <2> QED  BY <2>1, FS_Subset
<1>3. f \in Surjection(I, raw)
  <2>1. \A b \in raw : \E i \in I : b = f[i]
    <3>1. \A b \in raw : \E i \in I : b \in blockRange(specs[i], size)
      OBVIOUS
    <3> HIDE DEF raw, I, f
    <3> QED  BY <1>1, <3>1
  <2>2. \A i \in I : f[i] \in raw
    <3>1. \A i \in I : i \in DOMAIN specs
      OBVIOUS
    <3> HIDE DEF I, f
    <3> QED  BY <1>1, <3>1
  <2>3. f \in [I -> raw]
    <3> HIDE DEF raw, I
    <3> QED  BY <2>2
  <2> HIDE DEF raw, I, f
  <2> QED  BY <2>1, <2>3 DEF Surjection
<1> HIDE DEF raw, I, f
<1> QED
  BY <1>2, <1>3, FS_Surjection DEF raw

\* s has the blocks of raw, by start.
IsInOrder(s, raw) ==
    /\ s \in [1 .. Cardinality(raw) -> raw]
    /\ Range(s) = raw /\ \A i, j \in DOMAIN s : i < j => s[i].start <= s[j].start

\* The range that starts last goes behind the others.
LEMMA OrderGoesOn ==
  ASSUME NEW raw, IsFiniteSet(raw), NEW last \in raw,
         \A b \in raw : b.start <= last.start,
         NEW t, IsInOrder(t, raw \ {last})
  PROVE  \E s : IsInOrder(s, raw)
<1> DEFINE n == Cardinality(raw)
           rest == raw \ {last}
           s == [i \in 1 .. n |-> IF i = n THEN last ELSE t[i]]
<1>1. n \in Nat /\ n # 0 /\ Cardinality(rest) = n - 1
  BY FS_CardinalityType, FS_RemoveElement, FS_EmptySet
<1>2. /\ t \in [1 .. n - 1 -> rest] /\ rest = {t[i] : i \in 1 .. n - 1}
      /\ \A i, j \in 1 .. n - 1 : i < j => t[i].start <= t[j].start
  BY <1>1 DEF IsInOrder, Range
<1> HIDE DEF n
<1>3. /\ \A i \in 1 .. n : i = n \/ i \in 1 .. n - 1
      /\ \A i \in 1 .. n - 1 : i \in 1 .. n /\ i # n /\ i < n
      /\ n \in 1 .. n
  BY <1>1
<1>4. s[n] = last /\ \A i \in 1 .. n - 1 : s[i] = t[i] /\ t[i] \in rest
  BY <1>2, <1>3
<1>5. s \in [1 .. n -> raw]
  BY <1>3, <1>4
<1>6. DOMAIN s = 1 .. n
  OBVIOUS
<1> HIDE DEF s
<1>7. raw = {s[i] : i \in 1 .. n}
  <2>1. \A b \in raw : \E i \in 1 .. n : b = s[i]
    BY <1>2, <1>3, <1>4
  <2>2. \A i \in 1 .. n : s[i] \in raw
    BY <1>5
  <2> QED  BY <2>1, <2>2
<1>8. ASSUME NEW i \in 1 .. n, NEW j \in 1 .. n, i < j PROVE s[i].start <= s[j].start
  <2>1. i \in 1 .. n - 1
    BY <1>1, <1>8
  <2>2. CASE j = n
    BY <1>4, <2>1, <2>2
  <2>3. CASE j # n
    BY <1>2, <1>3, <1>4, <1>8, <2>1, <2>3
  <2> QED  BY <2>2, <2>3
<1> QED
  BY <1>5, <1>6, <1>7, <1>8 DEF IsInOrder, Range, n

\* So any finite set of ranges can be put in order.
LEMMA Ordered ==
  ASSUME NEW size \in Nat, NEW raw \in SUBSET Blocks(size), IsFiniteSet(raw)
  PROVE  IsInOrder(inOrder(raw), raw)
<1> DEFINE S == {n \in Nat : \A r \in SUBSET Blocks(size) :
                    IsFiniteSet(r) /\ Cardinality(r) = n => \E s : IsInOrder(s, r)}
<1>1. 0 \in S
  <2>1. ASSUME NEW r \in SUBSET Blocks(size), IsFiniteSet(r), Cardinality(r) = 0
        PROVE  \E s : IsInOrder(s, r)
    <3>1. r = {} /\ 1 .. Cardinality(r) = {}
      BY <2>1, FS_EmptySet
    <3>2. IsInOrder(<<>>, {})
      BY <3>1 DEF IsInOrder, Range
    <3> QED  BY <3>1, <3>2
  <2> QED  BY <2>1
<1>2. ASSUME NEW k \in S PROVE k + 1 \in S
  <2> SUFFICES ASSUME NEW r \in SUBSET Blocks(size), IsFiniteSet(r), Cardinality(r) = k + 1
               PROVE  \E s : IsInOrder(s, r)
    OBVIOUS
  <2>1. r # {} /\ k \in Nat
    BY FS_EmptySet
  <2>2. PICK last \in r : \A b \in r : b.start <= last.start
    <3> DEFINE T == {size - b.start : b \in r}
    <3>1. \A b \in r : b.start \in Nat /\ b.start < size /\ size - b.start \in Nat
      BY DEF Blocks
    <3>2. T \in SUBSET Nat /\ T # {}
      BY <2>1, <3>1
    <3>3. PICK m \in T : \A u \in T : m <= u
      <4> HIDE DEF T
      <4> QED  BY <3>2, FirstIsLeast
    <3>4. PICK last \in r : m = size - last.start
      OBVIOUS
    <3>5. \A b \in r : size - last.start <= size - b.start
      BY <3>3, <3>4
    <3>6. \A b \in r : b.start <= last.start
      BY <3>1, <3>5
    <3> QED  BY <3>6
  <2>3. IsFiniteSet(r \ {last}) /\ Cardinality(r \ {last}) = k
    <3>1. IsFiniteSet(r \ {last}) /\ Cardinality(r \ {last}) = Cardinality(r) - 1
      BY FS_RemoveElement
    <3> QED  BY <2>1, <3>1
  <2>4. PICK t : IsInOrder(t, r \ {last})
    BY <2>3
  <2> HIDE DEF S
  <2> QED  BY <2>2, <2>4, OrderGoesOn
<1> HIDE DEF S
<1>3. S = Nat
  BY <1>1, <1>2, Induction DEF S
<1>4. \E s : IsInOrder(s, raw)
  BY <1>3, FS_CardinalityType DEF S
<1> QED
  BY <1>4 DEF inOrder, IsInOrder

\* f is what ranges computes over the first n ranges in order.
IsMerging(f, s, n) ==
    f = [i \in 0 .. n |-> IF i = 0 THEN <<>> ELSE mergeRange(f[i - 1], s[i])]

\* A merging of n ranges goes on by one.
LEMMA MergingGoesOn ==
  ASSUME NEW s, NEW k \in Nat, NEW g, IsMerging(g, s, k)
  PROVE  \E f : IsMerging(f, s, k + 1)
<1> DEFINE n == k + 1
           f == [i \in 0 .. n |-> IF i = n THEN mergeRange(g[k], s[n]) ELSE g[i]]
<1>1. ASSUME NEW i \in 0 .. n
      PROVE  f[i] = IF i = 0 THEN <<>> ELSE mergeRange(f[i - 1], s[i])
  <2>1. CASE i = n
    <3>1. f[n] = mergeRange(g[k], s[n]) /\ f[k] = g[k] /\ n - 1 = k /\ n # 0
      OBVIOUS
    <3> HIDE DEF f
    <3> QED  BY <2>1, <3>1
  <2>2. CASE i # n
    <3>1. i \in 0 .. k /\ f[i] = g[i] /\ g[0] = <<>>
      BY <2>2 DEF IsMerging
    <3>2. CASE i = 0
      BY <3>1, <3>2
    <3>3. CASE i # 0
      <4>1. i - 1 \in 0 .. n /\ i - 1 # n /\ f[i - 1] = g[i - 1]
        BY <3>1, <3>3
      <4>2. g[i] = mergeRange(g[i - 1], s[i])
        BY <3>1, <3>3 DEF IsMerging
      <4> HIDE DEF f
      <4> QED  BY <3>1, <3>3, <4>1, <4>2
    <3> QED  BY <3>2, <3>3
  <2> QED  BY <2>1, <2>2
<1>2. f = [i \in 0 .. n |-> f[i]]
  OBVIOUS
<1> HIDE DEF f
<1>3. IsMerging(f, s, n)
  BY <1>1, <1>2 DEF IsMerging
<1> QED
  BY <1>3

\* So ranges are merged however many there are.
LEMMA MergingExists ==
  ASSUME NEW s, NEW n \in Nat
  PROVE  \E f : IsMerging(f, s, n)
<1> DEFINE S == {k \in Nat : \E f : IsMerging(f, s, k)}
           f == [i \in 0 .. 0 |-> <<>>]
<1>1. 0 \in S
  <2>1. IsMerging(f, s, 0)
    BY DEF IsMerging
  <2> HIDE DEF f
  <2> QED  BY <2>1
<1>2. \A k \in S : k + 1 \in S
  BY MergingGoesOn
<1> HIDE DEF S
<1>3. S = Nat
  BY <1>1, <1>2, Induction DEF S
<1> QED
  BY <1>3 DEF S

\* The outcome of merging the first i ranges: the same bytes, in ranges that lie
\* apart, of which the last one starts no later than the next that comes.
IsMerged(r, s, i, size) ==
    /\ r \in Seq(Blocks(size)) /\ (i = 0 <=> Len(r) = 0)
    /\ \A n : (\E k \in 1 .. Len(r) : n \in bytesOf(r[k]))
                <=> \E j \in 1 .. i : n \in bytesOf(s[j])
    /\ \A k \in 1 .. Len(r) - 1 : r[k].end + 1 < r[k + 1].start
    /\ i # 0 => r[Len(r)].start <= s[i].start

\* mergeRange adds one range to those merged before.
LEMMA MergeStep ==
  ASSUME NEW size \in Nat, NEW s, NEW i \in Nat, NEW r, IsMerged(r, s, i, size),
         s[i + 1] \in Blocks(size), i # 0 => s[i].start <= s[i + 1].start,
         i # 0 => s[i] \in Blocks(size)
  PROVE  IsMerged(mergeRange(r, s[i + 1]), s, i + 1, size)
<1> DEFINE b == s[i + 1]
           a == mergeRange(r, b)
<1>1. /\ r \in Seq(Blocks(size)) /\ Len(r) \in Nat
      /\ b.start \in Nat /\ b.end \in Nat /\ b.start <= b.end /\ b.end < size
  BY DEF IsMerged, Blocks
<1>2. \A j : j \in 1 .. i + 1 <=> j \in 1 .. i \/ j = i + 1
  OBVIOUS
<1>3. ASSUME NEW n
      PROVE  (\E j \in 1 .. i + 1 : n \in bytesOf(s[j])) <=>
               \/ \E k \in 1 .. Len(r) : n \in bytesOf(r[k])
               \/ n \in bytesOf(b)
  BY <1>2 DEF IsMerged
<1>4. CASE r = <<>>
  <2>1. a = <<b>>
    BY <1>4 DEF mergeRange
  <2>2. a \in Seq(Blocks(size)) /\ Len(a) = 1 /\ a[1] = b
    BY <2>1
  <2>3. Len(r) = 0 /\ 1 .. 0 = {} /\ 1 .. 1 = {1} /\ i + 1 # 0 /\ 1 - 1 = 0
    BY <1>4
  <2> HIDE DEF a, b
  <2>4. \A n : (\E k \in 1 .. Len(a) : n \in bytesOf(a[k]))
                 <=> \E j \in 1 .. i + 1 : n \in bytesOf(s[j])
    BY <1>3, <2>2, <2>3
  <2>5. a[Len(a)].start <= b.start
    BY <1>1, <2>2
  <2> QED
    BY <2>2, <2>3, <2>4, <2>5 DEF IsMerged, a, b
<1>5. CASE r # <<>>
  <2>1. PICK l \in Nat : l = Len(r) /\ l # 0 /\ l \in 1 .. l
    BY <1>1, <1>5
  <2>2. PICK last \in Blocks(size) : last = r[l]
    BY <1>1, <2>1
  <2>3. /\ last.start \in Nat /\ last.end \in Nat
        /\ last.start <= last.end /\ last.end < size
    BY <2>2 DEF Blocks
  <2>4. i # 0 /\ last.start <= b.start
    <3>1. i # 0 /\ last.start <= s[i].start
      BY <2>1, <2>2 DEF IsMerged
    <3>2. s[i].start \in Nat /\ s[i].start <= b.start
      BY <3>1 DEF Blocks
    <3> QED  BY <1>1, <2>3, <3>1, <3>2
  <2>5. \A k \in 1 .. l - 1 : r[k].end + 1 < r[k + 1].start
    BY <2>1 DEF IsMerged
  <2>6. \A n : (\E j \in 1 .. i + 1 : n \in bytesOf(s[j])) <=>
                 \/ \E k \in 1 .. l : n \in bytesOf(r[k])
                 \/ n \in bytesOf(b)
    BY <1>3, <2>1
  <2>7. CASE b.start > last.end + 1
    <3>1. a = Append(r, b)
      BY <1>5, <2>1, <2>2, <2>7 DEF mergeRange
    <3>2. /\ a \in Seq(Blocks(size)) /\ Len(a) = l + 1 /\ a[l + 1] = b
          /\ \A k \in 1 .. l : a[k] = r[k]
      BY <1>1, <2>1, <3>1
    <3> HIDE DEF a, b
    <3>3. \A k : k \in 1 .. l + 1 <=> k \in 1 .. l \/ k = l + 1
      OBVIOUS
    <3>4. \A n : (\E k \in 1 .. l + 1 : n \in bytesOf(a[k]))
                   <=> \E j \in 1 .. i + 1 : n \in bytesOf(s[j])
      BY <2>6, <3>2, <3>3
    <3>5. ASSUME NEW k \in 1 .. l PROVE a[k].end + 1 < a[k + 1].start
      <4>1. CASE k = l
        BY <1>1, <2>1, <2>2, <2>3, <2>7, <3>2, <4>1
      <4>2. CASE k # l
        <5>1. k \in 1 .. l - 1 /\ k + 1 \in 1 .. l
          BY <4>2
        <5> QED  BY <2>5, <3>2, <5>1
      <4> QED  BY <4>1, <4>2
    <3>6. (l + 1) - 1 = l /\ l + 1 # 0 /\ i + 1 # 0
      OBVIOUS
    <3>7. a[l + 1].start <= b.start
      BY <1>1, <3>2
    <3> QED
      BY <3>2, <3>4, <3>5, <3>6, <3>7 DEF IsMerged, a, b
  <2>8. CASE ~(b.start > last.end + 1)
    <3>1. PICK c \in Blocks(size) :
            /\ c = IF b.end > last.end THEN [last EXCEPT !.end = b.end] ELSE last
            /\ c.start = last.start /\ c.end \in Nat
            /\ c.end = IF b.end > last.end THEN b.end ELSE last.end
      <4>1. CASE b.end > last.end
        <5>1. [last EXCEPT !.end = b.end] = [start |-> last.start, end |-> b.end]
          BY <2>2 DEF Blocks
        <5>2. [start |-> last.start, end |-> b.end] \in Blocks(size)
          BY <1>1, <2>3, <4>1 DEF Blocks
        <5> HIDE DEF b
        <5> QED  BY <1>1, <4>1, <5>1, <5>2
      <4>2. CASE ~(b.end > last.end)
        BY <2>2, <2>3, <4>2
      <4> QED  BY <4>1, <4>2
    <3>2. a = [r EXCEPT ![l] = c]
      <4>1. CASE b.end > last.end
        BY <1>5, <2>1, <2>2, <2>8, <3>1, <4>1 DEF mergeRange
      <4>2. CASE ~(b.end > last.end)
        <5>1. a = r /\ c = r[l]
          BY <1>5, <2>1, <2>2, <2>8, <3>1, <4>2 DEF mergeRange
        <5> HIDE DEF a
        <5> QED  BY <1>1, <5>1
      <4> QED  BY <4>1, <4>2
    <3>3. /\ a \in Seq(Blocks(size)) /\ Len(a) = l /\ a[l] = c
          /\ \A k \in 1 .. l : k # l => a[k] = r[k]
      BY <1>1, <2>1, <3>2
    <3> HIDE DEF a, b
    <3>4. ASSUME NEW n
          PROVE  n \in bytesOf(c) <=> n \in bytesOf(last) \/ n \in bytesOf(b)
      <4>1. /\ n \in bytesOf(c) <=> n \in Int /\ last.start <= n /\ n <= c.end
            /\ n \in bytesOf(last) <=> n \in Int /\ last.start <= n /\ n <= last.end
            /\ n \in bytesOf(b) <=> n \in Int /\ b.start <= n /\ n <= b.end
        BY <1>1, <2>3, <3>1 DEF bytesOf
      <4>2. b.start <= last.end + 1
        BY <1>1, <2>3, <2>8
      <4>3. CASE n \notin Int
        BY <4>1, <4>3
      <4>4. CASE n \in Int /\ b.end > last.end
        <5>1. c.end = b.end
          BY <3>1, <4>4
        <5> QED  BY <1>1, <2>3, <2>4, <4>1, <4>2, <4>4, <5>1
      <4>5. CASE n \in Int /\ ~(b.end > last.end)
        <5>1. c.end = last.end
          BY <3>1, <4>5
        <5> QED  BY <1>1, <2>3, <2>4, <4>1, <4>5, <5>1
      <4> QED  BY <4>3, <4>4, <4>5
    <3>5. \A n : (\E k \in 1 .. l : n \in bytesOf(a[k]))
                   <=> \E j \in 1 .. i + 1 : n \in bytesOf(s[j])
      BY <2>1, <2>2, <2>6, <3>3, <3>4
    <3>6. ASSUME NEW k \in 1 .. l - 1 PROVE a[k].end + 1 < a[k + 1].start
      <4>1. k \in 1 .. l /\ k # l /\ k + 1 \in 1 .. l
        OBVIOUS
      <4>2. a[k] = r[k] /\ a[k + 1].start = r[k + 1].start
        BY <2>2, <3>1, <3>3, <4>1
      <4> QED  BY <2>5, <4>2
    <3>7. i + 1 # 0 /\ a[l].start <= b.start
      BY <2>4, <3>1, <3>3
    <3> QED
      BY <2>1, <3>3, <3>5, <3>6, <3>7 DEF IsMerged, a, b
  <2> QED  BY <2>7, <2>8
<1> QED
  BY <1>4, <1>5

\* What all the elements of a header come to.
LEMMA RangesMerged ==
  ASSUME NEW size \in Nat, size > 0, NEW n \in Nat, NEW specs, DOMAIN specs = 1 .. n,
         \A i \in 1 .. n : IsSpec(specs[i])
  PROVE  LET r == ranges(specs, size)
         IN /\ r \in Seq(Blocks(size))
            /\ \A x : (\E k \in 1 .. Len(r) : x \in bytesOf(r[k]))
                        <=> \E i \in 1 .. n : x \in asked(specs[i], size)
            /\ \A k \in 1 .. Len(r) - 1 : r[k].end + 1 < r[k + 1].start
<1> DEFINE raw == UNION {blockRange(specs[i], size) : i \in DOMAIN specs}
           s == inOrder(raw)
           m == Len(s)
           f == CHOOSE f : IsMerging(f, s, m)
<1>1. IsFiniteSet(raw)
  BY FinitelyMany
<1>2. raw \in SUBSET Blocks(size)
  BY OneSpec
<1>3. \A x : (\E b \in raw : x \in bytesOf(b)) <=> \E i \in 1 .. n : x \in asked(specs[i], size)
  <2>1. \A x : \A i \in 1 .. n : x \in asked(specs[i], size) <=>
                                   \E b \in blockRange(specs[i], size) : x \in bytesOf(b)
    BY OneSpec
  <2>2. \A b : b \in raw <=> \E i \in 1 .. n : b \in blockRange(specs[i], size)
    OBVIOUS
  <2> HIDE DEF raw
  <2> QED  BY <2>1, <2>2
<1> HIDE DEF raw
<1>4. IsInOrder(s, raw) /\ Cardinality(raw) \in Nat
  BY <1>1, <1>2, Ordered, FS_CardinalityType
<1> HIDE DEF s
<1>5. /\ m \in Nat /\ DOMAIN s = 1 .. m /\ raw = {s[i] : i \in 1 .. m}
      /\ \A i \in 1 .. m : s[i] \in Blocks(size)
      /\ \A i, j \in 1 .. m : i < j => s[i].start <= s[j].start
  <2>1. DOMAIN s = 1 .. Cardinality(raw) /\ s \in Seq(raw)
    BY <1>4 DEF IsInOrder
  <2>2. m = Cardinality(raw)
    BY <1>4, <2>1
  <2>3. \A i \in DOMAIN s : s[i] \in raw
    BY <1>4 DEF IsInOrder
  <2> QED  BY <1>2, <1>4, <2>1, <2>2, <2>3 DEF IsInOrder, Range
<1>6. IsMerging(f, s, m) /\ ranges(specs, size) = f[m]
  <2>1. IsMerging(f, s, m)
    BY <1>5, MergingExists
  <2>2. ranges(specs, size) = f[m]
    BY DEF ranges, IsMerging, s, raw
  <2> QED  BY <2>1, <2>2
<1> HIDE DEF f, m
<1> DEFINE S == {i \in Nat : i \in 0 .. m => IsMerged(f[i], s, i, size)}
<1>7. 0 \in S
  <2>1. f[0] = <<>> /\ 1 .. 0 = {}
    BY <1>5, <1>6 DEF IsMerging
  <2>2. <<>> \in Seq(Blocks(size)) /\ Len(<<>>) = 0 /\ 1 .. 0 - 1 = {}
    OBVIOUS
  <2>3. IsMerged(<<>>, s, 0, size)
    BY <2>1, <2>2 DEF IsMerged
  <2> QED  BY <2>1, <2>3
<1>8. ASSUME NEW i \in S PROVE i + 1 \in S
  <2> SUFFICES ASSUME i + 1 \in 0 .. m PROVE IsMerged(f[i + 1], s, i + 1, size)
    OBVIOUS
  <2>1. /\ i \in Nat /\ i \in 0 .. m /\ i + 1 # 0 /\ (i + 1) - 1 = i /\ i + 1 \in 1 .. m
        /\ i # 0 => i \in 1 .. m /\ i < i + 1
    BY <1>5
  <2>2. IsMerged(f[i], s, i, size)
    BY <2>1
  <2>3. f[i + 1] = mergeRange(f[i], s[i + 1])
    BY <1>6, <2>1 DEF IsMerging
  <2>4. /\ s[i + 1] \in Blocks(size)
        /\ i # 0 => s[i].start <= s[i + 1].start /\ s[i] \in Blocks(size)
    BY <1>5, <2>1
  <2> HIDE DEF S
  <2> QED  BY <2>1, <2>2, <2>3, <2>4, MergeStep
<1> HIDE DEF S
<1>9. S = Nat
  BY <1>7, <1>8, Induction DEF S
<1>10. m \in S /\ m \in 0 .. m
  BY <1>5, <1>9
<1>11. IsMerged(f[m], s, m, size)
  BY <1>10 DEF S
<1>12. \A x : (\E b \in raw : x \in bytesOf(b)) <=> \E j \in 1 .. m : x \in bytesOf(s[j])
  BY <1>5
<1> QED
  BY <1>3, <1>6, <1>11, <1>12 DEF IsMerged

\* A partial answer carries together exactly the bytes that its request asks for,
\* in ranges apart from one another, and says how many when it is one; 416 is for a
\* request that asks for no byte, and a full answer has the size of the file.
LEMMA RangesAnswered ==
  ASSUME InputInv, input.of = "static"
  PROVE  RangesAreTheBytesAskedFor
<1> DEFINE req == [input.request EXCEPT !.method = "GET"]
           file == input.file
           range == input.request.range
           size == file.size
           blocks == ranges(range, size)
           bytes == UNION {asked(range[i], size) : i \in DOMAIN range}
           a == answer("GET")
<1>1. size \in Nat /\ req.method = "GET" /\ req.range = range
  BY WhoseInput, SameButMethod, StaticInputsAssumption
<1>2. a = ServeHTTP(req, file)
  BY DEF answer
<1>3. range \notin {None, Bad} =>
        /\ DOMAIN range = 1 .. Len(range) /\ Len(range) \in Nat
        /\ \A i \in 1 .. Len(range) : IsSpec(range[i])
  <2> SUFFICES ASSUME range \notin {None, Bad}
               PROVE  /\ DOMAIN range = 1 .. Len(range) /\ Len(range) \in Nat
                      /\ \A i \in 1 .. Len(range) : IsSpec(range[i])
    OBVIOUS
  <2>1. range \in Seq(Range(range)) /\ \A spec \in Range(range) : IsSpec(spec)
    BY WhoseInput, StaticInputsAssumption DEF IsSpec
  <2>2. \A i \in DOMAIN range : range[i] \in Range(range)
    BY DEF Range
  <2> QED  BY <2>1, <2>2
<1> HIDE DEF req, size, range
<1>4. ASSUME range \notin {None, Bad}, size > 0
      PROVE  /\ blocks \in Seq(Blocks(size)) /\ Len(blocks) \in Nat
             /\ \A x : (\E k \in 1 .. Len(blocks) : x \in bytesOf(blocks[k])) <=> x \in bytes
             /\ \A k \in 1 .. Len(blocks) - 1 : blocks[k].end + 1 < blocks[k + 1].start
  <2>1. PICK n \in Nat : /\ n = Len(range) /\ DOMAIN range = 1 .. n
                         /\ \A i \in 1 .. n : IsSpec(range[i])
    BY <1>3, <1>4
  <2>2. \A x : x \in bytes <=> \E i \in 1 .. n : x \in asked(range[i], size)
    BY <2>1
  <2>3. /\ blocks \in Seq(Blocks(size))
        /\ \A x : (\E k \in 1 .. Len(blocks) : x \in bytesOf(blocks[k]))
                    <=> \E i \in 1 .. n : x \in asked(range[i], size)
        /\ \A k \in 1 .. Len(blocks) - 1 : blocks[k].end + 1 < blocks[k + 1].start
    BY <1>1, <1>4, <2>1, RangesMerged
  <2> HIDE DEF blocks, bytes
  <2> QED  BY <2>2, <2>3
<1> HIDE DEF blocks, bytes
\* What comes out of ServeHTTP, as far as it matters.
<1> DEFINE fits ==
             /\ a.status = 206 =>
                  /\ range \notin {None, Bad} /\ size > 0 /\ a.blocks = blocks
                  /\ Len(blocks) = 1 => a.length = Length(blocks[1])
             /\ a.status = 416 => \/ range = Bad
                                  \/ range \notin {None, Bad} /\ size > 0 /\ blocks = <<>>
             /\ a.status = 200 => a.length = size
<1>5. fits
  <2> DEFINE h == setHeader(req, file)
  <2>1. \/ a = Answer(404, None, <<>>, FALSE)
        \/ a = Answer(403, None, <<>>, FALSE)
        \/ a = IF h.more THEN body(h, file) ELSE h
    BY <1>1, <1>2 DEF ServeHTTP
  <2>2. \/ h = Answer(304, None, <<>>, FALSE)
        \/ h = Answer(200, 0, <<>>, FALSE) /\ size = 0
        \/ h = Answer(200, size, <<>>, TRUE)
        \/ /\ h = Answer(416, 0, <<>>, FALSE)
           /\ size > 0 /\ range # None /\ (range = Bad \/ blocks = <<>>)
        \/ /\ h = Answer(206, None, blocks, TRUE)
           /\ size > 0 /\ range \notin {None, Bad} /\ blocks # <<>>
    <3>1. file.size = size /\ ranges(req.range, file.size) = blocks
      BY <1>1 DEF size, blocks
    <3> HIDE DEF file
    <3>2. ASSUME NotModified(req, file) PROVE h = Answer(304, None, <<>>, FALSE)
      BY <3>2 DEF setHeader
    <3>3. ASSUME ~NotModified(req, file), size <= 0
          PROVE  h = Answer(200, 0, <<>>, FALSE) /\ size = 0
      <4>1. ~(size > 0) /\ size = 0
        BY <1>1, <3>3
      <4>2. h = Answer(200, 0, <<>>, FALSE)
        BY <3>1, <3>3, <4>1 DEF setHeader
      <4> QED  BY <4>1, <4>2
    <3>4. ASSUME ~NotModified(req, file), size > 0
          PROVE  \/ h = Answer(200, size, <<>>, TRUE)
                 \/ /\ h = Answer(416, 0, <<>>, FALSE)
                    /\ range # None /\ (range = Bad \/ blocks = <<>>)
                 \/ /\ h = Answer(206, None, blocks, TRUE)
                    /\ range \notin {None, Bad} /\ blocks # <<>>
      <4>1. Full(req, file) = Answer(200, size, <<>>, TRUE)
        BY <1>1, <3>1 DEF Full
      <4>2. ~(size <= 0)
        BY <1>1, <3>4
      <4>3. h = IF range = None THEN Full(req, file)
                ELSE IF req.ifRange.form # "none" /\ ~useRange(req, file) THEN Full(req, file)
                ELSE IF range = Bad \/ blocks = <<>> THEN NotSatisfiable
                ELSE IF Total(blocks) > size THEN Full(req, file)
                ELSE Answer(206, None, blocks, TRUE)
        BY <1>1, <3>1, <3>4, <4>2 DEF setHeader
      <4> HIDE DEF h
      <4> QED  BY <4>1, <4>3 DEF NotSatisfiable
    <3> HIDE DEF h
    <3>5. size <= 0 \/ size > 0
      BY <1>1
    <3> QED  BY <3>2, <3>3, <3>4, <3>5
  <2> HIDE DEF a, h
  <2>3. CASE a = Answer(404, None, <<>>, FALSE) \/ a = Answer(403, None, <<>>, FALSE)
    BY <2>3 DEF Answer
  <2>4. CASE /\ a = IF h.more THEN body(h, file) ELSE h
             /\ \/ h = Answer(304, None, <<>>, FALSE)
                \/ h = Answer(200, 0, <<>>, FALSE) /\ size = 0
                \/ h = Answer(200, size, <<>>, TRUE)
    BY <2>4 DEF Answer, body
  <2>5. CASE /\ a = IF h.more THEN body(h, file) ELSE h
             /\ h = Answer(416, 0, <<>>, FALSE)
             /\ size > 0 /\ range # None /\ (range = Bad \/ blocks = <<>>)
    BY <2>5 DEF Answer
  <2>6. CASE /\ a = IF h.more THEN body(h, file) ELSE h
             /\ h = Answer(206, None, blocks, TRUE)
             /\ size > 0 /\ range \notin {None, Bad} /\ blocks # <<>>
    <3>1. h.more /\ h.blocks = blocks
      BY <2>6 DEF Answer
    <3>2. a = body(h, file)
      BY <2>6, <3>1
    <3>3. CASE Len(blocks) = 1
      <4>1. a = Answer(206, Length(blocks[1]), blocks, FALSE)
        BY <2>6, <3>1, <3>2, <3>3 DEF body
      <4> QED  BY <2>6, <3>3, <4>1 DEF Answer
    <3>4. CASE Len(blocks) # 1
      <4>1. a = Answer(206, None, blocks, FALSE)
        BY <2>6, <3>1, <3>2, <3>4 DEF body
      <4> QED  BY <2>6, <3>4, <4>1 DEF Answer
    <3> QED  BY <3>3, <3>4
  <2>7. CASE a = IF h.more THEN body(h, file) ELSE h
    <3> HIDE DEF fits
    <3> QED  BY <2>2, <2>4, <2>5, <2>6, <2>7, Zenon
  <2> QED  BY <2>1, <2>3, <2>7
<1>6. ASSUME a.status = 206
      PROVE  /\ UNION {a.blocks[i].start .. a.blocks[i].end : i \in DOMAIN a.blocks} = bytes
             /\ \A i \in 1 .. Len(a.blocks) - 1 : a.blocks[i].end + 1 < a.blocks[i + 1].start
             /\ Len(a.blocks) = 1 => a.length = Cardinality(bytes)
  <2>1. /\ a.blocks = blocks
        /\ Len(blocks) = 1 => a.length = Length(blocks[1])
        /\ blocks \in Seq(Blocks(size)) /\ DOMAIN blocks = 1 .. Len(blocks)
        /\ \A x : (\E k \in 1 .. Len(blocks) : x \in bytesOf(blocks[k])) <=> x \in bytes
        /\ \A k \in 1 .. Len(blocks) - 1 : blocks[k].end + 1 < blocks[k + 1].start
    BY <1>4, <1>5, <1>6
  <2> HIDE DEF a
  <2>2. UNION {a.blocks[i].start .. a.blocks[i].end : i \in DOMAIN a.blocks} = bytes
    BY <2>1 DEF bytesOf
  <2>3. ASSUME Len(blocks) = 1 PROVE a.length = Cardinality(bytes)
    <3>1. PICK b \in Blocks(size) : b = blocks[1]
      BY <2>1, <2>3
    <3>2. 1 .. 1 = {1}
      OBVIOUS
    <3>3. bytes = b.start .. b.end
      BY <2>1, <2>3, <3>1, <3>2 DEF bytesOf
    <3>4. b.start \in Int /\ b.end \in Int /\ ~(b.start > b.end)
      BY DEF Blocks
    <3>5. Cardinality(b.start .. b.end) = b.end - b.start + 1
      BY <3>4, FS_Interval
    <3> QED  BY <2>1, <2>3, <3>1, <3>3, <3>5 DEF Length
  <2> QED  BY <2>1, <2>2, <2>3
<1>7. ASSUME a.status = 416 PROVE range = Bad \/ bytes = {}
  <2>1. CASE range = Bad
    BY <2>1
  <2>2. CASE range \notin {None, Bad} /\ size > 0 /\ blocks = <<>>
    <3>1. 1 .. Len(blocks) = {}
      BY <2>2
    <3> QED  BY <1>4, <2>2, <3>1
  <2> HIDE DEF a
  <2> QED  BY <1>5, <1>7, <2>1, <2>2
<1> HIDE DEF a
<1> QED
  BY <1>5, <1>6, <1>7 DEF RangesAreTheBytesAskedFor, a, range, size, bytes, file

\* ServerHandlerStatic.ServeHTTP: a partial answer carries exactly the bytes that its
\* Range header asks for, in ranges apart from one another, 416 says that there are
\* none, and HEAD gets the header that GET would get.
THEOREM RightAnswer == Spec => []AnswerFitsTheRequest
<1>1. InputInv /\ (input.of = "static" => HeadAgreesWithGet) => AnswerFitsTheRequest
  BY RangesAnswered DEF AnswerFitsTheRequest
<1> QED
  BY <1>1, InputInvariant, HeadIsGet, PTL

-----------------------------------------------------------------------------
(* Forward rules.                                                            *)

Fresh(upath) == [path |-> upath, redirect |-> 0, over |-> FALSE]

\* f is what forwardList computes over the first n rules of a list.
IsRun(f, list, upath, n) ==
    f = [i \in 0 .. n |-> IF i = 0 THEN Fresh(upath) ELSE forward(f[i - 1], list[i])]

\* A run over k rules goes on by one.
LEMMA RunGoesOn ==
  ASSUME NEW list, NEW upath, NEW k \in Nat, NEW g, IsRun(g, list, upath, k)
  PROVE  \E f : IsRun(f, list, upath, k + 1)
<1> DEFINE n == k + 1
           f == [i \in 0 .. n |-> IF i = n THEN forward(g[k], list[n]) ELSE g[i]]
<1>1. ASSUME NEW i \in 0 .. n
      PROVE  f[i] = IF i = 0 THEN Fresh(upath) ELSE forward(f[i - 1], list[i])
  <2>1. CASE i = n
    <3>1. f[n] = forward(g[k], list[n]) /\ f[k] = g[k] /\ n - 1 = k /\ n # 0
      OBVIOUS
    <3> HIDE DEF f
    <3> QED  BY <2>1, <3>1
  <2>2. CASE i # n
    <3>1. i \in 0 .. k /\ f[i] = g[i] /\ g[0] = Fresh(upath)
      BY <2>2 DEF IsRun
    <3>2. CASE i = 0
      BY <3>1, <3>2
    <3>3. CASE i # 0
      <4>1. i - 1 \in 0 .. n /\ i - 1 # n /\ f[i - 1] = g[i - 1]
        BY <3>1, <3>3
      <4>2. g[i] = forward(g[i - 1], list[i])
        BY <3>1, <3>3 DEF IsRun
      <4> HIDE DEF f
      <4> QED  BY <3>1, <3>3, <4>1, <4>2
    <3> QED  BY <3>2, <3>3
  <2> QED  BY <2>1, <2>2
<1>2. f = [i \in 0 .. n |-> f[i]]
  OBVIOUS
<1> HIDE DEF f
<1>3. IsRun(f, list, upath, n)
  BY <1>1, <1>2 DEF IsRun
<1> QED
  BY <1>3

\* So a list of rules is run however long it is.
LEMMA RunExists ==
  ASSUME NEW list, NEW upath, NEW n \in Nat
  PROVE  \E f : IsRun(f, list, upath, n)
<1> DEFINE S == {k \in Nat : \E f : IsRun(f, list, upath, k)}
           f == [i \in 0 .. 0 |-> Fresh(upath)]
<1>1. 0 \in S
  <2>1. IsRun(f, list, upath, 0)
    BY DEF IsRun
  <2> HIDE DEF f
  <2> QED  BY <2>1
<1>2. \A k \in S : k + 1 \in S
  BY RunGoesOn
<1> HIDE DEF S
<1>3. S = Nat
  BY <1>1, <1>2, Induction DEF S
<1> QED
  BY <1>3 DEF S

\* What forwardList returns is the end of a run.
LEMMA ForwardRun ==
  ASSUME NEW list, NEW upath, Len(list) \in Nat
  PROVE  \E f : /\ IsRun(f, list, upath, Len(list))
                /\ forwardList(list, upath) = f[Len(list)]
<1> DEFINE f == CHOOSE f : IsRun(f, list, upath, Len(list))
<1>1. IsRun(f, list, upath, Len(list))
  BY RunExists
<1>2. forwardList(list, upath) = f[Len(list)]
  BY DEF forwardList, IsRun, Fresh
<1> QED
  BY <1>1, <1>2

IsRule(rule) ==
    /\ rule.status \in BOOLEAN /\ rule.end \in BOOLEAN
    /\ \A p \in rule.path \cup rule.exclude : p.form \in {"literal", "regex", "invalid"}

\* As long as the list is not over there was no redirect.
GoodState(st) ==
    /\ st = [path |-> st.path, redirect |-> st.redirect, over |-> st.over]
    /\ st.over \in BOOLEAN /\ (~st.over => st.redirect = 0)

\* What a run can be in: a path, and a redirect only when it is over.
LEMMA RunStates ==
  ASSUME NEW list, NEW upath, NEW n \in Nat, NEW f, IsRun(f, list, upath, n),
         \A i \in 1 .. n : IsRule(list[i])
  PROVE  \A i \in 0 .. n : GoodState(f[i])
<1> DEFINE S == {k \in Nat : k \in 0 .. n => GoodState(f[k])}
<1>1. 0 \in S
  BY DEF IsRun, Fresh, GoodState
<1>2. ASSUME NEW k \in S PROVE k + 1 \in S
  <2> SUFFICES ASSUME k + 1 \in 0 .. n PROVE GoodState(f[k + 1])
    OBVIOUS
  <2>1. k \in 0 .. n /\ k + 1 # 0 /\ k + 1 \in 1 .. n
    OBVIOUS
  <2>2. GoodState(f[k])
    BY <2>1
  <2>3. f[k + 1] = forward(f[k], list[k + 1]) /\ IsRule(list[k + 1])
    BY <2>1 DEF IsRun
  <2> HIDE DEF S
  <2>4. ASSUME NEW st, NEW rule, GoodState(st), IsRule(rule)
        PROVE  GoodState(forward(st, rule))
    BY <2>4 DEF GoodState, IsRule, forward
  <2> QED  BY <2>2, <2>3, <2>4
<1> HIDE DEF S
<1>3. S = Nat
  BY <1>1, <1>2, Induction DEF S
<1> QED
  BY <1>3 DEF S

\* A list of two parts: the second takes over where the first ends, unless that
\* is the end of all.
LEMMA TwoLists ==
  ASSUME NEW first, NEW second, NEW upath, NEW R, first \in Seq(R), second \in Seq(R),
         \A rule \in R : IsRule(rule)
  PROVE  LET one == forwardList(first, upath)
         IN forwardList(first \o second, upath) =
              IF one.over THEN one ELSE forwardList(second, one.path)
<1> DEFINE m == Len(first)
           n == Len(second)
           both == first \o second
<1>1. /\ m \in Nat /\ n \in Nat /\ both \in Seq(R) /\ Len(both) = m + n
      /\ \A i \in 1 .. m : both[i] = first[i] /\ IsRule(first[i])
      /\ \A i \in 1 .. n : both[m + i] = second[i]
  OBVIOUS
<1>2. PICK f : IsRun(f, first, upath, m) /\ forwardList(first, upath) = f[m]
  BY <1>1, ForwardRun
<1> DEFINE one == f[m]
<1>3. PICK g : IsRun(g, second, one.path, n) /\ forwardList(second, one.path) = g[n]
  BY <1>1, ForwardRun
<1>4. PICK h : IsRun(h, both, upath, m + n) /\ forwardList(both, upath) = h[m + n]
  <2>1. Len(both) \in Nat /\ Len(both) = m + n
    BY <1>1
  <2> HIDE DEF both, m, n
  <2>2. PICK h : IsRun(h, both, upath, Len(both)) /\ forwardList(both, upath) = h[Len(both)]
    BY <2>1, ForwardRun
  <2> QED  BY <2>1, <2>2
<1> HIDE DEF m, n, both
<1>5. GoodState(one)
  BY <1>1, <1>2, RunStates
<1>6. h[m] = one
  <2> DEFINE S == {k \in Nat : k \in 0 .. m => h[k] = f[k]}
  <2>1. 0 \in S
    BY <1>1, <1>2, <1>4 DEF IsRun
  <2>2. ASSUME NEW k \in S PROVE k + 1 \in S
    <3> SUFFICES ASSUME k + 1 \in 0 .. m PROVE h[k + 1] = f[k + 1]
      OBVIOUS
    <3>1. k \in 0 .. m /\ h[k] = f[k] /\ k + 1 # 0 /\ (k + 1) - 1 = k
          /\ k + 1 \in 1 .. m /\ k + 1 \in 0 .. m + n
      BY <1>1
    <3>2. h[k + 1] = forward(h[k], both[k + 1])
      BY <1>4, <3>1 DEF IsRun
    <3>3. f[k + 1] = forward(f[k], first[k + 1])
      BY <1>2, <3>1 DEF IsRun
    <3> QED  BY <1>1, <3>1, <3>2, <3>3
  <2> HIDE DEF S
  <2>3. S = Nat
    BY <2>1, <2>2, Induction DEF S
  <2>4. m \in S /\ m \in 0 .. m
    BY <1>1, <2>3
  <2> QED  BY <2>4 DEF S
<1>7. h[m + n] = IF one.over THEN one ELSE g[n]
  <2> DEFINE S == {k \in Nat : k \in 0 .. n => h[m + k] = IF one.over THEN one ELSE g[k]}
  <2>1. 0 \in S
    <3>1. g[0] = Fresh(one.path) /\ m + 0 = m
      BY <1>1, <1>3 DEF IsRun
    <3>2. ~one.over => one = Fresh(one.path)
      BY <1>5 DEF GoodState, Fresh
    <3> QED  BY <1>6, <3>1, <3>2
  <2>2. ASSUME NEW k \in S PROVE k + 1 \in S
    <3> SUFFICES ASSUME k + 1 \in 0 .. n
                 PROVE  h[m + (k + 1)] = IF one.over THEN one ELSE g[k + 1]
      OBVIOUS
    <3>1. k \in 0 .. n /\ k + 1 # 0 /\ (k + 1) - 1 = k /\ k + 1 \in 1 .. n
      BY <1>1
    <3>2. h[m + k] = IF one.over THEN one ELSE g[k]
      BY <3>1
    <3>3. m + (k + 1) \in 0 .. m + n /\ m + (k + 1) # 0 /\ (m + (k + 1)) - 1 = m + k
      BY <1>1, <3>1
    <3>4. h[m + (k + 1)] = forward(h[m + k], second[k + 1])
      BY <1>1, <1>4, <3>1, <3>3 DEF IsRun
    <3>5. g[k + 1] = forward(g[k], second[k + 1])
      BY <1>3, <3>1 DEF IsRun
    <3>6. one.over => forward(one, second[k + 1]) = one
      BY DEF forward
    <3> HIDE DEF S
    <3> QED  BY <3>2, <3>4, <3>5, <3>6
  <2> HIDE DEF S
  <2>3. S = Nat
    BY <2>1, <2>2, Induction DEF S
  <2>4. n \in S /\ n \in 0 .. n
    BY <1>1, <2>3
  <2> QED  BY <2>4 DEF S
<1> QED
  BY <1>2, <1>3, <1>4, <1>7 DEF both

\* What one rule does by itself.
LEMMA OneRule ==
  ASSUME NEW first, NEW upath, NEW R, first \in Seq(R), Len(first) = 1, IsRule(first[1])
  PROVE  LET one == forwardList(first, upath)
             rule == first[1]
         IN /\ one.path = IF applies(rule, upath) THEN rule.rePath[upath] ELSE upath
            /\ one.redirect # 0 => applies(rule, upath)
            /\ one.over <=> /\ applies(rule, upath)
                            /\ rule.redirectCode # 0 \/ rule.end
<1> DEFINE rule == first[1]
<1>1. forwardList(first, upath) = forward(Fresh(upath), rule)
  <2>1. Len(first) \in Nat
    OBVIOUS
  <2>2. PICK f : IsRun(f, first, upath, Len(first)) /\ forwardList(first, upath) = f[Len(first)]
    BY <2>1, ForwardRun
  <2> QED  BY <2>2 DEF IsRun
<1> HIDE DEF rule
<1>2. IsRule(rule)
  BY DEF rule
<1>3. Compiles(rule) =>
         (Rewrite(rule, upath).rewried <=> /\ \E p \in rule.path : upath \in p.paths
                                           /\ ~\E p \in rule.exclude : upath \in p.paths)
  BY <1>2 DEF Compiles, Rewrite, Matches, IsRule
<1>4. applies(rule, upath) <=> rule.status /\ Compiles(rule) /\ Rewrite(rule, upath).rewried
  BY <1>3 DEF applies
<1>5. CASE ~applies(rule, upath)
  <2>1. forward(Fresh(upath), rule) = Fresh(upath)
    BY <1>4, <1>5 DEF forward, Fresh
  <2> QED  BY <1>1, <1>5, <2>1 DEF Fresh, rule
<1>6. CASE applies(rule, upath)
  <2>1. Rewrite(rule, upath).path = rule.rePath[upath]
    BY <1>4, <1>6 DEF Rewrite
  <2>2. forward(Fresh(upath), rule) =
          IF rule.redirectCode # 0
          THEN [path |-> rule.rePath[upath], redirect |-> rule.redirectCode, over |-> TRUE]
          ELSE [path |-> rule.rePath[upath], redirect |-> 0, over |-> rule.end]
    <3>1. rule.status /\ Compiles(rule) /\ Rewrite(rule, upath).rewried
      BY <1>4, <1>6
    <3>2. CASE rule.redirectCode # 0
      BY <2>1, <3>1, <3>2 DEF forward, Fresh
    <3>3. CASE rule.redirectCode = 0
      <4>1. forward(Fresh(upath), rule) =
              [Fresh(upath) EXCEPT !.path = rule.rePath[upath], !.over = rule.end]
        BY <2>1, <3>1, <3>3 DEF forward, Fresh
      <4> QED  BY <3>3, <4>1 DEF Fresh
    <3> QED  BY <3>2, <3>3
  <2> QED  BY <1>1, <1>2, <1>6, <2>2 DEF rule, IsRule
<1> QED
  BY <1>5, <1>6

\* The rules of a list act one after another on the path as it is by then, up to a
\* redirect or a rule that ends the list, those of a site before the public ones; and
\* no rule acts that is off, does not compile, does not name the path, or excludes it.
THEOREM ForwardingStops == Spec => []ForwardStops
<1> SUFFICES ASSUME InputInv, input.of = "forward" PROVE ForwardStops
  BY InputInvariant, PTL DEF ForwardStops
<1> DEFINE first == input.first
           second == input.second
           upath == input.upath
           R == Range(first) \cup Range(second)
           merged == ConfigSiteForward(Public([List |-> second]),
                                       [PublicName |-> 1, List |-> first])
<1>1. \A list \in {first, second} : list \in Seq(Range(list)) /\ \A rule \in Range(list) : IsRule(rule)
  BY WhoseInput, ForwardInputsAssumption DEF IsRule
<1>2. first \in Seq(R) /\ second \in Seq(R) /\ \A rule \in R : IsRule(rule)
  BY <1>1
<1>3. merged.List = first \o second
  BY DEF ConfigSiteForward, Public
<1> HIDE DEF R
<1>4. Len(first) = 1 => IsRule(first[1])
  BY <1>2
<1>5. forwardList(first \o second, upath) =
        IF forwardList(first, upath).over THEN forwardList(first, upath)
        ELSE forwardList(second, forwardList(first, upath).path)
  BY <1>2, TwoLists
<1>6. Len(first) = 1 =>
        LET one == forwardList(first, upath)
            rule == first[1]
        IN /\ one.path = IF applies(rule, upath) THEN rule.rePath[upath] ELSE upath
           /\ one.redirect # 0 => applies(rule, upath)
           /\ one.over <=> /\ applies(rule, upath)
                           /\ rule.redirectCode # 0 \/ rule.end
  BY <1>2, <1>4, OneRule
<1> QED
  BY <1>3, <1>5, <1>6 DEF ForwardStops

-----------------------------------------------------------------------------
(* Merging.                                                                  *)

\* What copyStruct makes of every field and of the heap.
LEMMA StructCopied ==
  ASSUME NEW dst, NEW src, NEW heap, NEW own, NEW exclude \in BOOLEAN,
         DOMAIN dst \subseteq DOMAIN Kind, "Header" \in DOMAIN dst
  PROVE  LET m == copyStruct(dst, src, heap, own, exclude)
             entered == src.Header # Nil
         IN /\ DOMAIN m.dst = DOMAIN dst /\ DOMAIN m.heap = DOMAIN heap
            /\ m.dst.Header = IF entered /\ dst.Header = Nil THEN own ELSE dst.Header
            /\ \A f \in DOMAIN dst :
                 /\ Kind[f] = "scalar" =>
                      m.dst[f] = IF configExclude(exclude, f, src[f]) THEN dst[f] ELSE src[f]
                 /\ Kind[f] = "slice" =>
                      m.dst[f] = IF configExclude(exclude, f, src[f]) \/ src[f] = Nil
                                 THEN dst[f] ELSE src[f]
                 /\ Kind[f] = "pointer" => m.dst[f] = copyPointer(f, dst, src, exclude)
            /\ \A a \in DOMAIN heap :
                 m.heap[a] =
                   IF entered /\ dst.Header # Nil /\ dst.Header = a
                   THEN Over(heap[src.Header], heap[a])
                   ELSE IF a = own /\ entered /\ dst.Header = Nil THEN heap[src.Header]
                   ELSE heap[a]
<1> DEFINE plain == copyPlain(dst, src, exclude)
           fields == [f \in DOMAIN dst |->
                        CASE Kind[f] = "map" -> dst[f]
                          [] Kind[f] = "pointer" -> copyPointer(f, dst, src, exclude)
                          [] OTHER -> plain[f]]
           m == copyMaps(fields, src, heap, own)
<1>1. copyStruct(dst, src, heap, own, exclude) = m
  BY DEF copyStruct
<1>2. /\ DOMAIN fields = DOMAIN dst /\ fields.Header = dst.Header
      /\ \A f \in DOMAIN dst :
           /\ Kind[f] = "pointer" => fields[f] = copyPointer(f, dst, src, exclude)
           /\ Kind[f] \in {"scalar", "slice"} => fields[f] = plain[f]
  BY KindAssumption
<1>3. \A f \in DOMAIN dst : Kind[f] = "map" <=> f = "Header"
  BY KindAssumption
<1> HIDE DEF fields
<1> DEFINE maps == {f \in DOMAIN fields : Kind[f] = "map" /\ src[f] # Nil}
           shared == {f \in maps : fields[f] # Nil}
           entered == src.Header # Nil
<1>4. /\ maps = IF entered THEN {"Header"} ELSE {}
      /\ shared = IF entered /\ dst.Header # Nil THEN {"Header"} ELSE {}
      /\ maps \ shared = IF entered /\ dst.Header = Nil THEN {"Header"} ELSE {}
  BY <1>2, <1>3
<1>5. /\ m.dst = [f \in DOMAIN fields |-> IF f \in maps \ shared THEN own ELSE fields[f]]
      /\ m.heap = [a \in DOMAIN heap |->
                     IF \E f \in shared : fields[f] = a
                     THEN Over(heap[src[CHOOSE f \in shared : fields[f] = a]], heap[a])
                     ELSE IF a = own /\ maps # shared
                     THEN heap[src[CHOOSE f \in maps \ shared : TRUE]]
                     ELSE heap[a]]
  BY DEF copyMaps
<1> HIDE DEF maps, shared, m
<1>6. /\ DOMAIN m.dst = DOMAIN dst
      /\ \A f \in DOMAIN dst :
           m.dst[f] = IF f = "Header" /\ entered /\ dst.Header = Nil THEN own ELSE fields[f]
  BY <1>2, <1>4, <1>5
<1>7. ASSUME NEW f \in DOMAIN dst
      PROVE  /\ Kind[f] = "scalar" =>
                  m.dst[f] = IF configExclude(exclude, f, src[f]) THEN dst[f] ELSE src[f]
             /\ Kind[f] = "slice" =>
                  m.dst[f] = IF configExclude(exclude, f, src[f]) \/ src[f] = Nil
                             THEN dst[f] ELSE src[f]
             /\ Kind[f] = "pointer" => m.dst[f] = copyPointer(f, dst, src, exclude)
  <2>1. Kind[f] \in {"scalar", "slice", "pointer"} => m.dst[f] = fields[f]
    BY <1>3, <1>6
  <2> QED  BY <1>2, <2>1 DEF copyPlain
<1>8. ASSUME NEW a \in DOMAIN heap
      PROVE  m.heap[a] = IF entered /\ dst.Header # Nil /\ dst.Header = a
                         THEN Over(heap[src.Header], heap[a])
                         ELSE IF a = own /\ entered /\ dst.Header = Nil THEN heap[src.Header]
                         ELSE heap[a]
  <2>1. CASE entered /\ dst.Header # Nil
    <3>1. shared = {"Header"} /\ maps = shared
      BY <1>4, <2>1
    <3>2. (\E f \in shared : fields[f] = a) <=> dst.Header = a
      BY <1>2, <3>1
    <3>3. dst.Header = a => (CHOOSE f \in shared : fields[f] = a) = "Header"
      BY <1>2, <3>1
    <3> QED  BY <1>5, <2>1, <3>1, <3>2, <3>3
  <2>2. CASE entered /\ dst.Header = Nil
    <3>1. shared = {} /\ maps \ shared = {"Header"} /\ maps # shared
      BY <1>4, <2>2
    <3>2. (CHOOSE f \in maps \ shared : TRUE) = "Header"
      BY <3>1
    <3> QED  BY <1>5, <2>2, <3>1, <3>2
  <2>3. CASE ~entered
    <3>1. shared = {} /\ maps = {}
      BY <1>4, <2>3
    <3> QED  BY <1>5, <2>3, <3>1
  <2> QED  BY <2>1, <2>2, <2>3
<1>9. DOMAIN m.heap = DOMAIN heap
  BY <1>5
<1>10. m.dst.Header = IF entered /\ dst.Header = Nil THEN own ELSE dst.Header
  BY <1>2, <1>6
<1> QED
  BY <1>1, <1>6, <1>7, <1>8, <1>9, <1>10

\* What clone makes of a struct and of the heap.
LEMMA Cloned ==
  ASSUME NEW c, NEW heap, NEW at, at \in DOMAIN heap,
         DOMAIN c \subseteq DOMAIN Kind, "Header" \in DOMAIN c
  PROVE  LET m == clone(c, heap, at)
         IN /\ DOMAIN m.dst = DOMAIN c /\ DOMAIN m.heap = DOMAIN heap
            /\ \A f \in DOMAIN c : Kind[f] # "map" => m.dst[f] = c[f]
            /\ m.dst.Header = IF c.Header = Nil THEN Nil ELSE at
            /\ \A a \in DOMAIN heap :
                 m.heap[a] = IF a = at /\ c.Header # Nil THEN heap[c.Header] ELSE heap[a]
<1> DEFINE maps == {f \in DOMAIN c : Kind[f] = "map" /\ c[f] # Nil}
           m == clone(c, heap, at)
<1>1. \A f \in DOMAIN c : Kind[f] = "map" <=> f = "Header"
  BY KindAssumption
<1>2. maps = IF c.Header = Nil THEN {} ELSE {"Header"}
  BY <1>1
<1>3. /\ m.dst = [f \in DOMAIN c |-> IF f \in maps THEN at ELSE c[f]]
      /\ m.heap = IF maps = {} THEN heap
                  ELSE [heap EXCEPT ![at] = heap[c[CHOOSE f \in maps : TRUE]]]
  BY DEF clone
<1> HIDE DEF maps, m
<1>4. maps # {} => (CHOOSE f \in maps : TRUE) = "Header"
  BY <1>2
<1> QED
  BY <1>1, <1>2, <1>3, <1>4 DEF m

\* The copy of a plain struct over another, and over nothing.
LEMMA PlainCopied ==
  ASSUME NEW dst, NEW src, NEW fields \in SUBSET PlainFields,
         IsStruct(dst, fields), IsStruct(src, fields)
  PROVE  copyPlain(dst, src, With) = [g \in fields |-> over(g, src[g], dst[g])]
<1>1. \A g \in fields : Kind[g] \in {"scalar", "slice"}
  BY DEF PlainFields
<1> QED
  BY <1>1 DEF copyPlain, IsStruct, over, configExclude, With, Zero

\* A plain struct that is copied over the zero one stays as it is.
LEMMA CopiedOverNothing ==
  ASSUME NEW src, NEW fields \in SUBSET PlainFields, IsStruct(src, fields)
  PROVE  copyPlain(ZeroStruct(DOMAIN src), src, With) = src
<1> DEFINE zero == ZeroStruct(DOMAIN src)
<1>1. DOMAIN src = fields /\ src = [g \in fields |-> src[g]]
  BY DEF IsStruct
<1>2. DOMAIN zero = fields /\ \A g \in fields : zero[g] = Zero(Kind[g])
  BY <1>1 DEF ZeroStruct
<1>3. IsStruct(zero, fields)
  BY <1>1, <1>2 DEF ZeroStruct, IsStruct
<1>4. copyPlain(zero, src, With) = [g \in fields |-> over(g, src[g], zero[g])]
  BY <1>3, PlainCopied
<1>5. \A g \in fields : over(g, src[g], zero[g]) = src[g]
  BY <1>2 DEF over
<1> QED
  BY <1>1, <1>4, <1>5

\* What a pointer of the outcome leads to: a pointer over nothing, nothing over a
\* pointer, or field by field what is set over what is not.
pointedOver(fields, s, t) ==
    IF s = Nil THEN t ELSE IF t = Nil THEN s ELSE [g \in fields |-> over(g, s[g], t[g])]

\* A pointer that is copied over another is laid over it.
LEMMA PointerCopied ==
  ASSUME NEW f, Kind[f] = "pointer", NEW dst, NEW src,
         NEW fields \in SUBSET PlainFields,
         dst[f] = Nil \/ IsStruct(dst[f], fields),
         src[f] = Nil \/ IsStruct(src[f], fields)
  PROVE  copyPointer(f, dst, src, With) = pointedOver(fields, src[f], dst[f])
<1>1. configExclude(With, f, src[f]) <=> src[f] = Nil
  BY DEF configExclude, With, Zero
<1>2. CASE src[f] = Nil
  BY <1>1, <1>2 DEF copyPointer, pointedOver
<1>3. CASE src[f] # Nil /\ dst[f] = Nil
  BY <1>1, <1>3, CopiedOverNothing DEF copyPointer, pointedOver
<1>4. CASE src[f] # Nil /\ dst[f] # Nil
  BY <1>1, <1>4, PlainCopied DEF copyPointer, pointedOver
<1> QED
  BY <1>2, <1>3, <1>4

\* A struct and its template are alike where they point.
AlikePointers(origin, template) ==
    \A f \in DOMAIN template : Kind[f] = "pointer" =>
       \E fields \in SUBSET PlainFields :
           \A s \in {origin[f], template[f]} : s = Nil \/ IsStruct(s, fields)

\* A pointer of the outcome.
pointed(f, origin, template) ==
    IF origin[f] = Nil THEN template[f]
    ELSE IF template[f] = Nil THEN origin[f]
    ELSE [g \in DOMAIN origin[f] |-> over(g, origin[f][g], template[f][g])]

\* What ConfigSitePlugin makes of every field and of the heap.
LEMMA PluginCopied ==
  ASSUME NEW origin, NEW template, NEW heap, NEW own \in DOMAIN heap \ {Nil},
         DOMAIN template \subseteq DOMAIN Kind, "Header" \in DOMAIN template,
         AlikePointers(origin, template),
         origin.PublicName = 1, origin.Header # own,
         origin.Header \in DOMAIN heap \cup {Nil}, template.Header \in DOMAIN heap \cup {Nil}
  PROVE  LET m == ConfigSitePlugin(Public(template), origin, heap, own)
         IN /\ DOMAIN m.dst = DOMAIN template /\ DOMAIN m.heap = DOMAIN heap
            /\ \A f \in DOMAIN template :
                 /\ Kind[f] \in {"scalar", "slice"} =>
                      m.dst[f] = over(f, origin[f], template[f])
                 /\ Kind[f] = "pointer" => m.dst[f] = pointed(f, origin, template)
            /\ m.dst.Header = IF origin.Header = Nil /\ template.Header = Nil THEN Nil ELSE own
            /\ m.heap[own] = IF origin.Header = Nil
                             THEN IF template.Header = Nil THEN heap[own]
                                  ELSE heap[template.Header]
                             ELSE IF template.Header = Nil THEN heap[origin.Header]
                             ELSE Over(heap[origin.Header], heap[template.Header])
            /\ \A a \in DOMAIN heap \ {own} : m.heap[a] = heap[a]
<1> DEFINE c == clone(template, heap, own)
           m == copyStruct(c.dst, origin, c.heap, own, With)
<1>1. ConfigSitePlugin(Public(template), origin, heap, own) = m
  BY DEF ConfigSitePlugin, Public
<1>2. /\ DOMAIN c.dst = DOMAIN template /\ DOMAIN c.heap = DOMAIN heap
      /\ \A f \in DOMAIN template : Kind[f] # "map" => c.dst[f] = template[f]
      /\ c.dst.Header = IF template.Header = Nil THEN Nil ELSE own
      /\ \A a \in DOMAIN heap :
           c.heap[a] = IF a = own /\ template.Header # Nil THEN heap[template.Header] ELSE heap[a]
  BY Cloned
<1> HIDE DEF c
<1>3. /\ DOMAIN m.dst = DOMAIN c.dst /\ DOMAIN m.heap = DOMAIN c.heap
      /\ m.dst.Header = IF origin.Header # Nil /\ c.dst.Header = Nil THEN own ELSE c.dst.Header
      /\ \A f \in DOMAIN c.dst :
           /\ Kind[f] = "scalar" =>
                m.dst[f] = IF configExclude(With, f, origin[f]) THEN c.dst[f] ELSE origin[f]
           /\ Kind[f] = "slice" =>
                m.dst[f] = IF configExclude(With, f, origin[f]) \/ origin[f] = Nil
                           THEN c.dst[f] ELSE origin[f]
           /\ Kind[f] = "pointer" => m.dst[f] = copyPointer(f, c.dst, origin, With)
      /\ \A a \in DOMAIN c.heap :
           m.heap[a] =
             IF origin.Header # Nil /\ c.dst.Header # Nil /\ c.dst.Header = a
             THEN Over(c.heap[origin.Header], c.heap[a])
             ELSE IF a = own /\ origin.Header # Nil /\ c.dst.Header = Nil
             THEN c.heap[origin.Header]
             ELSE c.heap[a]
  <2>1. With \in BOOLEAN /\ DOMAIN c.dst \subseteq DOMAIN Kind /\ "Header" \in DOMAIN c.dst
    BY <1>2 DEF With
  <2> QED  BY <2>1, StructCopied
<1> HIDE DEF m
<1>4. ASSUME NEW f \in DOMAIN template, Kind[f] \in {"scalar", "slice"}
      PROVE  m.dst[f] = over(f, origin[f], template[f])
  <2>1. c.dst[f] = template[f]
    BY <1>2, <1>4
  <2>2. CASE Kind[f] = "scalar"
    BY <1>2, <1>3, <2>1, <2>2 DEF over, configExclude, With
  <2>3. CASE Kind[f] = "slice"
    BY <1>2, <1>3, <2>1, <2>3 DEF over, configExclude, With, Zero
  <2> QED
    BY <1>4, <2>2, <2>3
<1>5. ASSUME NEW f \in DOMAIN template, Kind[f] = "pointer"
      PROVE  m.dst[f] = pointed(f, origin, template)
  <2>1. PICK fields \in SUBSET PlainFields :
           \A s \in {origin[f], template[f]} : s = Nil \/ IsStruct(s, fields)
    BY <1>5 DEF AlikePointers
  <2>2. c.dst[f] = template[f] /\ m.dst[f] = copyPointer(f, c.dst, origin, With)
    BY <1>2, <1>3, <1>5
  <2>3. m.dst[f] = pointedOver(fields, origin[f], template[f])
    <3>1. /\ c.dst[f] = Nil \/ IsStruct(c.dst[f], fields)
          /\ origin[f] = Nil \/ IsStruct(origin[f], fields)
      BY <2>1, <2>2
    <3> QED  BY <1>5, <2>2, <3>1, PointerCopied
  <2>4. origin[f] # Nil => DOMAIN origin[f] = fields
    BY <2>1 DEF IsStruct
  <2> QED
    BY <2>3, <2>4 DEF pointed, pointedOver
<1>6. m.dst.Header = IF origin.Header = Nil /\ template.Header = Nil THEN Nil ELSE own
  BY <1>2, <1>3
<1>7. m.heap[own] = IF origin.Header = Nil
                    THEN IF template.Header = Nil THEN heap[own] ELSE heap[template.Header]
                    ELSE IF template.Header = Nil THEN heap[origin.Header]
                    ELSE Over(heap[origin.Header], heap[template.Header])
  BY <1>2, <1>3
<1>8. \A a \in DOMAIN heap \ {own} : m.heap[a] = heap[a]
  BY <1>2, <1>3
<1> QED
  BY <1>1, <1>2, <1>3, <1>4, <1>5, <1>6, <1>7, <1>8

\* The maps there are before a merge.
LEMMA Heap0 ==
  /\ DOMAIN heap0 = {"public", "site", "own", "again"}
  /\ heap0["public"] = [x |-> 1, y |-> 1] /\ heap0["site"] = [x |-> 2]
  BY DEF heap0

\* A map over none and none over a map are that map.
LEMMA OverNone ==
  ASSUME NEW f, f = [k \in DOMAIN f |-> f[k]]
  PROVE  Over(f, <<>>) = f /\ Over(<<>>, f) = f
  BY DEF Over

\* No map over no map is none.
LEMMA OverNoneAtAll == Over(<<>>, <<>>) = <<>>
  BY DEF Over

\* Merging over the same map again changes nothing.
LEMMA OverTwice ==
  ASSUME NEW f, NEW g
  PROVE  Over(Over(f, g), g) = Over(f, g)
  BY DEF Over

\* ConfigSitePlugin keeps the promise PluginMerge: the fields of a site over the
\* template's, the template untouched, and once more changes nothing.
LEMMA PluginMerged ==
  ASSUME NEW origin, NEW template, DOMAIN template \subseteq DOMAIN Kind,
         AreAlike(origin, template)
  PROVE  PluginMerge(origin, template)
<1> DEFINE D == DOMAIN template
           m == ConfigSitePlugin(Public(template), origin, heap0, "own")
           again == ConfigSitePlugin(Public(template), m.dst, m.heap, "again")
<1>1. /\ DOMAIN origin = D /\ {"PublicName", "Addr", "Header"} \subseteq D
      /\ origin.Header \in {Nil, "site"} /\ template.Header \in {Nil, "public"}
      /\ Nil \notin {"public", "site", "own", "again"}
  BY KindAssumption DEF AreAlike, IsStruct
<1>2. CASE origin.PublicName # 1
  <2>1. m = [dst |-> origin, heap |-> heap0]
    BY <1>2 DEF ConfigSitePlugin, Public
  <2>2. again = [dst |-> origin, heap |-> heap0]
    BY <1>2, <2>1 DEF ConfigSitePlugin, Public
  <2> QED
    BY <1>2, <2>1, <2>2 DEF PluginMerge
<1>3. CASE origin.PublicName = 1
  <2>1. AlikePointers(origin, template)
    BY DEF AreAlike, AlikePointers
  <2>2. /\ DOMAIN m.dst = D /\ DOMAIN m.heap = DOMAIN heap0
        /\ \A f \in D :
             /\ Kind[f] \in {"scalar", "slice"} => m.dst[f] = over(f, origin[f], template[f])
             /\ Kind[f] = "pointer" => m.dst[f] = pointed(f, origin, template)
        /\ m.dst.Header = IF origin.Header = Nil /\ template.Header = Nil THEN Nil ELSE "own"
        /\ m.heap["own"] = IF origin.Header = Nil
                           THEN IF template.Header = Nil THEN heap0["own"]
                                ELSE heap0[template.Header]
                           ELSE IF template.Header = Nil THEN heap0[origin.Header]
                           ELSE Over(heap0[origin.Header], heap0[template.Header])
        /\ \A a \in DOMAIN heap0 \ {"own"} : m.heap[a] = heap0[a]
    <3>1. /\ "own" \in DOMAIN heap0 \ {Nil} /\ origin.Header # "own" /\ "Header" \in D
          /\ origin.Header \in DOMAIN heap0 \cup {Nil}
          /\ template.Header \in DOMAIN heap0 \cup {Nil}
      BY <1>1, Heap0
    <3> QED  BY <1>3, <2>1, <3>1, PluginCopied
  <2> HIDE DEF m
  <2>3. \A f \in D : /\ Kind[f] \in {"scalar", "slice", "pointer", "map"}
                     /\ Kind[f] = "map" <=> f = "Header"
    BY KindAssumption
  <2>4. /\ m.heap["public"] = heap0["public"] /\ m.heap["site"] = heap0["site"]
    BY <2>2, Heap0
  <2>5. content(m, "Header") = Over(initially(origin, "Header"), initially(template, "Header"))
    <3>1. /\ Over(heap0["site"], <<>>) = heap0["site"]
          /\ Over(<<>>, heap0["public"]) = heap0["public"]
      BY Heap0, OverNone
    <3> QED
      BY <1>1, <2>2, <3>1, OverNoneAtAll DEF content, initially
  <2>6. ASSUME NEW f \in D, Kind[f] = "pointer"
        PROVE  /\ IF origin[f] = Nil \/ template[f] = Nil
                  THEN m.dst[f] = over(f, origin[f], template[f])
                  ELSE m.dst[f] = [g \in DOMAIN origin[f] |->
                                      over(g, origin[f][g], template[f][g])]
               /\ \E fields \in SUBSET PlainFields :
                    \A s \in {m.dst[f], template[f]} : s = Nil \/ IsStruct(s, fields)
               /\ pointed(f, m.dst, template) = m.dst[f]
    <3>1. PICK fields \in SUBSET PlainFields :
             /\ \A s \in {origin[f], template[f]} : s = Nil \/ IsStruct(s, fields)
             /\ origin[f] # Nil /\ template[f] # Nil =>
                  \A set \in SUBSET fields : mixture(fields, set, origin[f], template[f]) # Nil
      BY <2>6 DEF AreAlike
    <3>2. m.dst[f] = pointed(f, origin, template)
      BY <2>2, <2>6
    <3>3. CASE origin[f] = Nil \/ template[f] = Nil
      <4>1. m.dst[f] = over(f, origin[f], template[f])
        BY <2>6, <3>2, <3>3 DEF pointed, over, Zero
      <4>2. m.dst[f] \in {origin[f], template[f]} /\ (m.dst[f] = Nil => template[f] = Nil)
        BY <3>2, <3>3 DEF pointed
      <4>3. pointed(f, m.dst, template) = m.dst[f]
        <5>1. CASE m.dst[f] = Nil
          BY <4>2, <5>1 DEF pointed
        <5>2. CASE m.dst[f] # Nil /\ template[f] = Nil
          BY <5>2 DEF pointed
        <5>3. CASE m.dst[f] # Nil /\ template[f] # Nil
          <6>1. m.dst[f] = template[f] /\ IsStruct(template[f], fields)
            BY <3>1, <3>2, <3>3, <5>3 DEF pointed
          <6>2. pointed(f, m.dst, template) =
                  [g \in fields |-> over(g, template[f][g], template[f][g])]
            BY <5>3, <6>1 DEF pointed, IsStruct
          <6> QED  BY <6>1, <6>2 DEF over, IsStruct
        <5> QED  BY <5>1, <5>2, <5>3
      <4> QED  BY <3>1, <3>3, <4>1, <4>2, <4>3
    <3>4. CASE origin[f] # Nil /\ template[f] # Nil
      <4> DEFINE P == [g \in fields |-> over(g, origin[f][g], template[f][g])]
                 set == {g \in fields : origin[f][g] # Zero(Kind[g])}
      <4>1. /\ DOMAIN origin[f] = fields /\ DOMAIN template[f] = fields
            /\ m.dst[f] = P
        BY <3>1, <3>2, <3>4 DEF pointed, IsStruct
      <4>2. P = mixture(fields, set, origin[f], template[f])
        BY DEF over, mixture
      <4>3. P # Nil
        <5>1. set \in SUBSET fields
          OBVIOUS
        <5> HIDE DEF P, set
        <5> QED  BY <3>1, <3>4, <4>2, <5>1
      <4>4. DOMAIN P = fields /\ \A g \in fields : over(g, P[g], template[f][g]) = P[g]
        BY DEF over
      <4>5. P = [g \in fields |-> P[g]]
        OBVIOUS
      <4>6. P = [g \in DOMAIN origin[f] |-> over(g, origin[f][g], template[f][g])]
        BY <4>1
      <4> HIDE DEF P, set
      <4>7. pointed(f, m.dst, template) = P
        BY <3>4, <4>1, <4>3, <4>4, <4>5 DEF pointed
      <4>8. IsStruct(P, fields)
        BY <4>4, <4>5 DEF IsStruct
      <4> QED
        BY <3>1, <3>4, <4>1, <4>6, <4>7, <4>8
    <3> QED  BY <3>3, <3>4
  <2>7. fieldwise(m, origin, template)
    <3>1. ASSUME NEW f \in D, Kind[f] = "map"
          PROVE  content(m, f) = Over(initially(origin, f), initially(template, f))
      BY <2>3, <2>5, <3>1
    <3> QED  BY <1>1, <2>2, <2>3, <2>6, <3>1 DEF fieldwise
  <2>8. m.dst.PublicName = 1 /\ m.dst.Header # "again"
    <3>1. Kind["PublicName"] = "scalar"
      BY KindAssumption
    <3> QED  BY <1>1, <1>3, <2>2, <3>1 DEF over, Zero
  <2>9. /\ DOMAIN again.dst = D
        /\ \A f \in D :
             /\ Kind[f] \in {"scalar", "slice"} => again.dst[f] = over(f, m.dst[f], template[f])
             /\ Kind[f] = "pointer" => again.dst[f] = pointed(f, m.dst, template)
        /\ again.dst.Header = IF m.dst.Header = Nil /\ template.Header = Nil THEN Nil
                              ELSE "again"
        /\ again.heap["again"] = IF m.dst.Header = Nil
                                 THEN IF template.Header = Nil THEN m.heap["again"]
                                      ELSE m.heap[template.Header]
                                 ELSE IF template.Header = Nil THEN m.heap[m.dst.Header]
                                 ELSE Over(m.heap[m.dst.Header], m.heap[template.Header])
    <3>1. /\ "again" \in DOMAIN m.heap \ {Nil} /\ "Header" \in D
          /\ m.dst.Header \in DOMAIN m.heap \cup {Nil}
          /\ template.Header \in DOMAIN m.heap \cup {Nil}
      BY <1>1, <2>2, Heap0
    <3>2. AlikePointers(m.dst, template)
      BY <2>6 DEF AlikePointers
    <3> QED  BY <2>8, <3>1, <3>2, PluginCopied
  <2> HIDE DEF again
  <2>10. content(again, "Header") = content(m, "Header")
    <3>1. CASE origin.Header = Nil /\ template.Header = Nil
      BY <2>2, <2>9, <3>1 DEF content
    <3>2. CASE origin.Header # Nil \/ template.Header # Nil
      <4>1. /\ m.dst.Header = "own" /\ again.dst.Header = "again"
            /\ content(m, "Header") = m.heap["own"]
            /\ content(again, "Header") = again.heap["again"]
        BY <1>1, <2>2, <2>9, <3>2 DEF content
      <4>2. CASE template.Header = Nil
        BY <1>1, <2>9, <4>1, <4>2
      <4>3. CASE template.Header # Nil
        <5>1. template.Header = "public"
          BY <1>1, <4>3
        <5>2. again.heap["again"] = Over(m.heap["own"], heap0["public"])
          BY <1>1, <2>4, <2>9, <4>1, <5>1
        <5>3. /\ Over(heap0["public"], heap0["public"]) = heap0["public"]
              /\ \A g : Over(Over(g, heap0["public"]), heap0["public"]) =
                          Over(g, heap0["public"])
          BY Heap0, OverTwice DEF Over
        <5>4. m.heap["own"] \in {heap0["public"], Over(heap0[origin.Header], heap0["public"])}
          BY <1>1, <2>2, <5>1
        <5> QED  BY <4>1, <5>2, <5>3, <5>4
      <4> QED  BY <4>2, <4>3
    <3> QED  BY <3>1, <3>2
  <2>11. ASSUME NEW f \in D, Kind[f] \in {"scalar", "slice"}
         PROVE  again.dst[f] = m.dst[f]
    BY <2>2, <2>9, <2>11 DEF over
  <2> QED
    <3>1. ASSUME NEW f \in DOMAIN m.dst
          PROVE  IF Kind[f] = "map" THEN content(again, f) = content(m, f)
                 ELSE again.dst[f] = m.dst[f]
      <4>1. Kind[f] = "map" => content(again, f) = content(m, f)
        BY <2>2, <2>3, <2>10
      <4>2. Kind[f] = "pointer" => again.dst[f] = m.dst[f]
        BY <2>2, <2>6, <2>9
      <4> QED  BY <2>2, <2>3, <2>11, <4>1, <4>2
    <3> QED  BY <1>3, <2>4, <2>7, <3>1 DEF PluginMerge, m, again
<1> QED
  BY <1>2, <1>3

\* The merges without pointers: what they take, and what their map holds.
LEMMA FlatMerged ==
  ASSUME NEW origin, NEW template, DOMAIN template \subseteq DOMAIN Kind,
         AreAlike(origin, template)
  PROVE  FlatMerge(origin, template)
<1> SUFFICES ASSUME origin.PublicName = 1 PROVE FlatMerge(origin, template)
  BY DEF FlatMerge
<1> DEFINE src == flat(origin)
           dst == flat(template)
           maps == Over(initially(origin, "Header"), initially(template, "Header"))
<1>1. /\ DOMAIN origin = DOMAIN template
      /\ {"PublicName", "Addr", "Header"} \subseteq DOMAIN template
      /\ origin.Header \in {Nil, "site"} /\ template.Header \in {Nil, "public"}
      /\ Nil \notin {"public", "site", "own", "again"}
      /\ Kind["Addr"] = "scalar"
  BY KindAssumption DEF AreAlike, IsStruct
<1>2. /\ DOMAIN dst \subseteq DOMAIN Kind /\ {"Addr", "Header"} \subseteq DOMAIN dst
      /\ dst.Addr = template.Addr /\ dst.Header = template.Header
      /\ src.Addr = origin.Addr /\ src.Header = origin.Header /\ src.PublicName = 1
  BY <1>1 DEF flat
<1> HIDE DEF src, dst
<1>3. maps = IF origin.Header = Nil
             THEN IF template.Header = Nil THEN <<>> ELSE heap0["public"]
             ELSE IF template.Header = Nil THEN heap0["site"]
             ELSE Over(heap0["site"], heap0["public"])
  <2>1. /\ Over(heap0["site"], <<>>) = heap0["site"]
        /\ Over(<<>>, heap0["public"]) = heap0["public"]
    BY Heap0, OverNone
  <2> QED  BY <1>1, <2>1, OverNoneAtAll DEF initially, content
<1>4. ASSUME NEW exclude \in BOOLEAN
      PROVE  LET m == copyStruct(dst, src, heap0, "own", exclude)
             IN /\ m.dst.Addr = IF configExclude(exclude, "Addr", origin.Addr)
                                THEN template.Addr ELSE origin.Addr
                /\ content(m, "Header") = maps
  <2> DEFINE m == copyStruct(dst, src, heap0, "own", exclude)
             entered == src.Header # Nil
  <2>1. /\ m.dst.Header = IF entered /\ dst.Header = Nil THEN "own" ELSE dst.Header
        /\ m.dst.Addr = IF configExclude(exclude, "Addr", src.Addr) THEN dst.Addr ELSE src.Addr
        /\ \A a \in DOMAIN heap0 :
             m.heap[a] = IF entered /\ dst.Header # Nil /\ dst.Header = a
                         THEN Over(heap0[src.Header], heap0[a])
                         ELSE IF a = "own" /\ entered /\ dst.Header = Nil
                         THEN heap0[src.Header]
                         ELSE heap0[a]
    BY <1>1, <1>2, StructCopied
  <2> HIDE DEF m, maps
  <2> QED
    BY <1>1, <1>2, <1>3, <2>1, Heap0 DEF content, m
<1> HIDE DEF maps
<1>5. /\ ConfigSite(Public(dst), src, heap0, "own") = copyStruct(dst, src, heap0, "own", FALSE)
      /\ ConfigConn(Public(dst), src, heap0, "own") = copyStruct(dst, src, heap0, "own", TRUE)
  BY <1>2 DEF ConfigSite, ConfigConn, Merged, Public, With, Without
<1>6. /\ ~configExclude(FALSE, "Addr", origin.Addr)
      /\ configExclude(TRUE, "Addr", origin.Addr) <=> origin.Addr = Zero(Kind["Addr"])
  BY DEF configExclude
<1>7. /\ FALSE \in BOOLEAN /\ TRUE \in BOOLEAN
  OBVIOUS
<1> QED
  BY <1>4, <1>5, <1>6, <1>7 DEF FlatMerge, over, src, dst, maps

-----------------------------------------------------------------------------
(* Loading files.                                                            *)

\* The greatest of some places, and that it is one of them.
LEMMA MaxIs ==
  ASSUME NEW S \in SUBSET Int, NEW i \in S, \A m \in S : m <= i
  PROVE  Max(S) = i
<1>1. \A x \in S : (\A y \in S : x >= y) => x = i
  OBVIOUS
<1>2. \A y \in S : i >= y
  OBVIOUS
<1> QED
  BY <1>1, <1>2 DEF Max

\* A set of places within bounds that is not empty has a greatest one.
LEMMA MaxExists ==
  ASSUME NEW n \in Nat, NEW S \in SUBSET (0 .. n), S # {}
  PROVE  Max(S) \in S /\ \A m \in S : m <= Max(S)
<1> DEFINE T == {n - s : s \in S}
<1>1. T \in SUBSET Nat /\ T # {}
  <2>1. \A s \in S : n - s \in Nat /\ n - s \in T
    OBVIOUS
  <2> QED  BY <2>1
<1>2. PICK t \in T : \A u \in T : t <= u
  <2> HIDE DEF T
  <2> QED  BY <1>1, FirstIsLeast
<1>3. PICK i \in S : t = n - i
  OBVIOUS
<1>4. ASSUME NEW m \in S PROVE m <= i
  <2>1. n - i <= n - m
    BY <1>2, <1>3
  <2>2. n \in Int /\ i \in Int /\ m \in Int
    OBVIOUS
  <2> QED  BY <2>1, <2>2
<1>5. Max(S) = i
  BY <1>4, MaxIs
<1> QED
  BY <1>4, <1>5

\* One site of a file.
loadStep(a, sites, s) ==
    LET identityIndex == placesOf(sites, s.Identity)
    IN IF identityIndex = {} THEN Append(a, s) ELSE [a EXCEPT ![Max(identityIndex)] = s]

\* f is what loadSites computes over the first n sites of a file.
IsLoading(f, sites, incoming, n) ==
    f = [j \in 0 .. n |-> IF j = 0 THEN sites ELSE loadStep(f[j - 1], sites, incoming[j])]

\* A loading of n sites goes on by one.
LEMMA LoadingGoesOn ==
  ASSUME NEW sites, NEW incoming, NEW k \in Nat, NEW g, IsLoading(g, sites, incoming, k)
  PROVE  \E f : IsLoading(f, sites, incoming, k + 1)
<1> DEFINE n == k + 1
           f == [j \in 0 .. n |-> IF j = n THEN loadStep(g[k], sites, incoming[n]) ELSE g[j]]
<1>1. ASSUME NEW j \in 0 .. n
      PROVE  f[j] = IF j = 0 THEN sites ELSE loadStep(f[j - 1], sites, incoming[j])
  <2>1. CASE j = n
    <3>1. f[n] = loadStep(g[k], sites, incoming[n]) /\ f[k] = g[k] /\ n - 1 = k /\ n # 0
      OBVIOUS
    <3> HIDE DEF f
    <3> QED  BY <2>1, <3>1
  <2>2. CASE j # n
    <3>1. j \in 0 .. k /\ f[j] = g[j] /\ g[0] = sites
      BY <2>2 DEF IsLoading
    <3>2. CASE j = 0
      BY <3>1, <3>2
    <3>3. CASE j # 0
      <4>1. j - 1 \in 0 .. n /\ j - 1 # n /\ f[j - 1] = g[j - 1]
        BY <3>1, <3>3
      <4>2. g[j] = loadStep(g[j - 1], sites, incoming[j])
        BY <3>1, <3>3 DEF IsLoading
      <4> HIDE DEF f
      <4> QED  BY <3>1, <3>3, <4>1, <4>2
    <3> QED  BY <3>2, <3>3
  <2> QED  BY <2>1, <2>2
<1>2. f = [j \in 0 .. n |-> f[j]]
  OBVIOUS
<1> HIDE DEF f
<1>3. IsLoading(f, sites, incoming, n)
  BY <1>1, <1>2 DEF IsLoading
<1> QED
  BY <1>3

\* So sites are loaded however many a file has.
LEMMA LoadingExists ==
  ASSUME NEW sites, NEW incoming, NEW n \in Nat
  PROVE  \E f : IsLoading(f, sites, incoming, n)
<1> DEFINE S == {k \in Nat : \E f : IsLoading(f, sites, incoming, k)}
           f == [j \in 0 .. 0 |-> sites]
<1>1. 0 \in S
  <2>1. IsLoading(f, sites, incoming, 0)
    BY DEF IsLoading
  <2> HIDE DEF f
  <2> QED  BY <2>1
<1>2. \A k \in S : k + 1 \in S
  BY LoadingGoesOn
<1> HIDE DEF S
<1>3. S = Nat
  BY <1>1, <1>2, Induction DEF S
<1> QED
  BY <1>3 DEF S

\* What loadSites returns is the end of a loading.
LEMMA Loading ==
  ASSUME NEW sites, NEW incoming, Len(incoming) \in Nat
  PROVE  \E f : /\ IsLoading(f, sites, incoming, Len(incoming))
                /\ loadSites(sites, incoming) = f[Len(incoming)]
<1> DEFINE f == CHOOSE f : IsLoading(f, sites, incoming, Len(incoming))
<1>1. IsLoading(f, sites, incoming, Len(incoming))
  BY LoadingExists
<1>2. loadSites(sites, incoming) = f[Len(incoming)]
  BY DEF loadSites, IsLoading, loadStep
<1> QED
  BY <1>1, <1>2

\* After the first j sites of a file, the last of them that has an identity is in
\* force, or the one that was; in the place that the identity had, if it had one.
LoadInv(a, sites, incoming, j, R) ==
    /\ a \in Seq(R)
    /\ \A id : LET now == placesOf(a, id)
                   had == placesOf(sites, id)
                   come == placesOf(incoming, id) \cap (1 .. j)
               IN /\ now # {} <=> had # {} \/ come # {}
                  /\ now # {} => inForce(a, id) = IF come # {} THEN incoming[Max(come)]
                                                  ELSE inForce(sites, id)
                  /\ had # {} => Max(now) = Max(had)

\* The places of an identity.
LEMMA Places ==
  ASSUME NEW R, NEW a \in Seq(R), NEW id
  PROVE  /\ placesOf(a, id) \in SUBSET (0 .. Len(a)) /\ placesOf(a, id) \in SUBSET Int
         /\ \A i : i \in placesOf(a, id) <=> i \in 1 .. Len(a) /\ a[i].Identity = id
         /\ placesOf(a, id) # {} => /\ Max(placesOf(a, id)) \in placesOf(a, id)
                                    /\ \A i \in placesOf(a, id) : i <= Max(placesOf(a, id))
<1> DEFINE S == placesOf(a, id)
<1>1. Len(a) \in Nat /\ \A i : i \in S <=> i \in 1 .. Len(a) /\ a[i].Identity = id
  BY DEF placesOf
<1> HIDE DEF S
<1>2. S \in SUBSET (0 .. Len(a)) /\ S \in SUBSET Int
  BY <1>1
<1> QED
  BY <1>1, <1>2, MaxExists DEF S

\* Before the first site of a file, what was loaded is what there is.
LEMMA LoadStart ==
  ASSUME NEW R, NEW sites \in Seq(R), NEW incoming
  PROVE  LoadInv(sites, sites, incoming, 0, R)
<1>1. \A id : placesOf(incoming, id) \cap (1 .. 0) = {}
  OBVIOUS
<1> QED
  BY <1>1 DEF LoadInv

\* One site that is loaded takes the last place of its identity, or a new one.
LEMMA LoadStep ==
  ASSUME NEW R, NEW sites \in Seq(R), NEW incoming \in Seq(R), NEW a,
         NEW j \in Nat, j + 1 \in 1 .. Len(incoming), LoadInv(a, sites, incoming, j, R)
  PROVE  LoadInv(loadStep(a, sites, incoming[j + 1]), sites, incoming, j + 1, R)
<1> DEFINE s == incoming[j + 1]
           x == s.Identity
           k == Max(placesOf(sites, x))
           b == loadStep(a, sites, s)
           come(id, n) == placesOf(incoming, id) \cap (1 .. n)
<1>1. a \in Seq(R) /\ s \in R /\ Len(a) \in Nat
  BY DEF LoadInv
\* What has come by the next site.
<1>2. /\ \A id : id # x => come(id, j + 1) = come(id, j)
      /\ come(x, j + 1) # {} /\ Max(come(x, j + 1)) = j + 1
  <2>1. ASSUME NEW id, id # x PROVE come(id, j + 1) = come(id, j)
    <3>1. j + 1 \notin placesOf(incoming, id)
      BY <2>1 DEF placesOf
    <3>2. \A i \in 1 .. j + 1 : i = j + 1 \/ i \in 1 .. j
      OBVIOUS
    <3>3. \A i \in 1 .. j : i \in 1 .. j + 1
      OBVIOUS
    <3> QED  BY <3>1, <3>2, <3>3
  <2>2. /\ come(x, j + 1) \in SUBSET Int /\ j + 1 \in come(x, j + 1)
        /\ \A i \in come(x, j + 1) : i <= j + 1
    BY DEF placesOf
  <2> QED  BY <2>1, <2>2, MaxIs
<1> HIDE DEF come
<1>3. CASE placesOf(sites, x) = {}
  <2>1. b = Append(a, s)
    BY <1>3 DEF loadStep
  <2>2. b \in Seq(R) /\ Len(b) = Len(a) + 1 /\ b[Len(a) + 1] = s
        /\ \A i \in 1 .. Len(a) : b[i] = a[i]
    BY <1>1, <2>1
  <2> HIDE DEF b
  <2>3. ASSUME NEW id, id # x PROVE placesOf(b, id) = placesOf(a, id)
    <3>1. PICK l \in Nat : l = Len(a)
      BY <1>1
    <3>2. \A i : i \in placesOf(b, id) <=> i \in 1 .. l + 1 /\ b[i].Identity = id
      BY <2>2, <3>1, Places
    <3>3. \A i : i \in placesOf(a, id) <=> i \in 1 .. l /\ a[i].Identity = id
      BY <1>1, <3>1, Places
    <3>4. \A i : i \in 1 .. l + 1 <=> i \in 1 .. l \/ i = l + 1
      OBVIOUS
    <3>5. b[l + 1].Identity # id /\ \A i \in 1 .. l : b[i] = a[i]
      BY <2>2, <2>3, <3>1
    <3>6. \A i : i \in placesOf(b, id) <=> i \in placesOf(a, id)
      BY <3>2, <3>3, <3>4, <3>5
    <3> QED  BY <3>6
  <2>4. Max(placesOf(b, x)) = Len(a) + 1 /\ placesOf(b, x) # {}
    <3>1. PICK m \in Nat : m = Len(a) + 1
      BY <1>1
    <3>2. \A i : i \in placesOf(b, x) <=> i \in 1 .. m /\ b[i].Identity = x
      BY <2>2, <3>1, Places
    <3>3. m \in 1 .. m /\ b[m].Identity = x
      BY <1>1, <2>2, <3>1
    <3>4. m \in placesOf(b, x) /\ placesOf(b, x) \in SUBSET Int
      BY <3>2, <3>3
    <3>5. \A i \in placesOf(b, x) : i <= m
      BY <3>2
    <3> QED  BY <3>1, <3>4, <3>5, MaxIs
  <2>5. ASSUME NEW id, id # x, placesOf(a, id) # {} PROVE inForce(b, id) = inForce(a, id)
    <3>1. Max(placesOf(a, id)) \in 1 .. Len(a)
      BY <1>1, <2>5, Places
    <3> QED  BY <2>2, <2>3, <2>5, <3>1 DEF inForce
  <2>6. inForce(b, x) = s
    BY <2>2, <2>4 DEF inForce
  <2>7. ASSUME NEW id
        PROVE  LET now == placesOf(b, id)
                   had == placesOf(sites, id)
               IN /\ now # {} <=> had # {} \/ come(id, j + 1) # {}
                  /\ now # {} => inForce(b, id) = IF come(id, j + 1) # {}
                                                  THEN incoming[Max(come(id, j + 1))]
                                                  ELSE inForce(sites, id)
                  /\ had # {} => Max(now) = Max(had)
    <3>1. CASE id = x
      BY <1>2, <1>3, <2>4, <2>6, <3>1
    <3>2. CASE id # x
      <4>1. placesOf(b, id) = placesOf(a, id) /\ come(id, j + 1) = come(id, j)
            /\ (placesOf(a, id) # {} => inForce(b, id) = inForce(a, id))
        BY <1>2, <2>3, <2>5, <3>2
      <4> HIDE DEF s
      <4> QED  BY <4>1 DEF LoadInv, come
    <3> QED  BY <3>1, <3>2
  <2> QED
    BY <2>2, <2>7 DEF LoadInv, b, come
<1>4. CASE placesOf(sites, x) # {}
  <2>1. b = [a EXCEPT ![k] = s]
    BY <1>4 DEF loadStep
  <2>2. k \in 1 .. Len(a) /\ a[k].Identity = x /\ Max(placesOf(a, x)) = k
        /\ placesOf(a, x) # {}
    <3>1. placesOf(a, x) # {} /\ Max(placesOf(a, x)) = k
      BY <1>4 DEF LoadInv
    <3> QED  BY <1>1, <3>1, Places
  <2> HIDE DEF k
  <2>3. b \in Seq(R) /\ Len(b) = Len(a) /\ b[k] = s
        /\ \A i \in 1 .. Len(a) : i # k => b[i] = a[i]
    BY <1>1, <2>1, <2>2
  <2> HIDE DEF b
  <2>4. ASSUME NEW id PROVE placesOf(b, id) = placesOf(a, id)
    <3>1. \A i : i \in placesOf(b, id) <=> i \in 1 .. Len(a) /\ b[i].Identity = id
      BY <2>3, Places
    <3>2. \A i : i \in placesOf(a, id) <=> i \in 1 .. Len(a) /\ a[i].Identity = id
      BY <1>1, Places
    <3>3. \A i \in 1 .. Len(a) : b[i].Identity = a[i].Identity
      BY <2>2, <2>3
    <3> QED  BY <3>1, <3>2, <3>3
  <2>5. ASSUME NEW id, id # x, placesOf(a, id) # {} PROVE inForce(b, id) = inForce(a, id)
    <3>1. Max(placesOf(a, id)) \in 1 .. Len(a) /\ Max(placesOf(a, id)) # k
      BY <1>1, <2>2, <2>5, Places
    <3> QED  BY <2>3, <2>4, <3>1 DEF inForce
  <2>6. inForce(b, x) = s
    BY <2>2, <2>3, <2>4 DEF inForce
  <2>7. ASSUME NEW id
        PROVE  LET now == placesOf(b, id)
                   had == placesOf(sites, id)
               IN /\ now # {} <=> had # {} \/ come(id, j + 1) # {}
                  /\ now # {} => inForce(b, id) = IF come(id, j + 1) # {}
                                                  THEN incoming[Max(come(id, j + 1))]
                                                  ELSE inForce(sites, id)
                  /\ had # {} => Max(now) = Max(had)
    <3>1. CASE id = x
      BY <1>2, <1>4, <2>2, <2>4, <2>6, <3>1 DEF k
    <3>2. CASE id # x
      <4>1. placesOf(b, id) = placesOf(a, id) /\ come(id, j + 1) = come(id, j)
            /\ (placesOf(a, id) # {} => inForce(b, id) = inForce(a, id))
        BY <1>2, <2>4, <2>5, <3>2
      <4> HIDE DEF s
      <4> QED  BY <4>1 DEF LoadInv, come
    <3> QED  BY <3>1, <3>2
  <2> QED
    BY <2>3, <2>7 DEF LoadInv, b, come
<1> QED
  BY <1>3, <1>4

\* What a file leaves in force.
Loaded(a, sites, incoming, id) ==
    LET had == placesOf(sites, id)
        come == placesOf(incoming, id)
    IN /\ placesOf(a, id) # {} <=> had # {} \/ come # {}
       /\ placesOf(a, id) # {} =>
            inForce(a, id) = IF come # {} THEN inForce(incoming, id) ELSE inForce(sites, id)

\* What a file does to an identity: its last site of that identity comes into force.
LEMMA SitesLoaded ==
  ASSUME NEW R, NEW sites \in Seq(R), NEW incoming \in Seq(R)
  PROVE  /\ loadSites(sites, incoming) \in Seq(R)
         /\ \A id : Loaded(loadSites(sites, incoming), sites, incoming, id)
<1> DEFINE n == Len(incoming)
<1>1. n \in Nat
  OBVIOUS
<1>2. PICK f : IsLoading(f, sites, incoming, n) /\ loadSites(sites, incoming) = f[n]
  BY <1>1, Loading
<1> DEFINE S == {j \in Nat : j \in 0 .. n => LoadInv(f[j], sites, incoming, j, R)}
<1>3. 0 \in S
  BY <1>1, <1>2, LoadStart DEF IsLoading
<1>4. ASSUME NEW j \in S PROVE j + 1 \in S
  <2> SUFFICES ASSUME j + 1 \in 0 .. n
               PROVE  LoadInv(f[j + 1], sites, incoming, j + 1, R)
    OBVIOUS
  <2>1. j \in 0 .. n /\ j + 1 # 0 /\ (j + 1) - 1 = j /\ j + 1 \in 1 .. n
    BY <1>1
  <2>2. LoadInv(f[j], sites, incoming, j, R)
    BY <2>1
  <2>3. f[j + 1] = loadStep(f[j], sites, incoming[j + 1])
    BY <1>2, <2>1 DEF IsLoading
  <2> HIDE DEF S
  <2> QED  BY <2>1, <2>2, <2>3, LoadStep
<1> HIDE DEF S
<1>5. S = Nat
  BY <1>3, <1>4, Induction DEF S
<1>6. n \in S /\ n \in 0 .. n
  BY <1>1, <1>5
<1>7. LoadInv(f[n], sites, incoming, n, R)
  BY <1>6 DEF S
<1>8. \A id : placesOf(incoming, id) \cap (1 .. n) = placesOf(incoming, id)
  BY DEF placesOf
<1> HIDE DEF n
<1> QED
  BY <1>2, <1>7, <1>8 DEF LoadInv, Loaded, inForce

\* f is what ParseFiles computes over the first n files.
IsParsing(f, sites, listens, files, n) ==
    f = [i \in 0 .. n |-> IF i = 0 THEN [ok |-> TRUE, sites |-> sites, listens |-> listens]
                          ELSE loadSubConf(f[i - 1], files[i])]

\* A parsing of n files goes on by one.
LEMMA ParsingGoesOn ==
  ASSUME NEW sites, NEW listens, NEW files, NEW k \in Nat, NEW g,
         IsParsing(g, sites, listens, files, k)
  PROVE  \E f : IsParsing(f, sites, listens, files, k + 1)
<1> DEFINE n == k + 1
           start == [ok |-> TRUE, sites |-> sites, listens |-> listens]
           f == [i \in 0 .. n |-> IF i = n THEN loadSubConf(g[k], files[n]) ELSE g[i]]
<1> HIDE DEF start
<1>1. ASSUME NEW i \in 0 .. n
      PROVE  f[i] = IF i = 0 THEN start ELSE loadSubConf(f[i - 1], files[i])
  <2>1. CASE i = n
    <3>1. f[n] = loadSubConf(g[k], files[n]) /\ f[k] = g[k] /\ n - 1 = k /\ n # 0
      OBVIOUS
    <3> HIDE DEF f
    <3> QED  BY <2>1, <3>1
  <2>2. CASE i # n
    <3>1. i \in 0 .. k /\ f[i] = g[i] /\ g[0] = start
      BY <2>2 DEF IsParsing, start
    <3>2. CASE i = 0
      BY <3>1, <3>2
    <3>3. CASE i # 0
      <4>1. i - 1 \in 0 .. n /\ i - 1 # n /\ f[i - 1] = g[i - 1]
        BY <3>1, <3>3
      <4>2. g[i] = loadSubConf(g[i - 1], files[i])
        BY <3>1, <3>3 DEF IsParsing
      <4> HIDE DEF f
      <4> QED  BY <3>1, <3>3, <4>1, <4>2
    <3> QED  BY <3>2, <3>3
  <2> QED  BY <2>1, <2>2
<1>2. f = [i \in 0 .. n |-> f[i]]
  OBVIOUS
<1> HIDE DEF f
<1>3. IsParsing(f, sites, listens, files, n)
  BY <1>1, <1>2 DEF IsParsing, start
<1> QED
  BY <1>3

\* So files are parsed however many there are.
LEMMA ParsingExists ==
  ASSUME NEW sites, NEW listens, NEW files, NEW n \in Nat
  PROVE  \E f : IsParsing(f, sites, listens, files, n)
<1> DEFINE S == {k \in Nat : \E f : IsParsing(f, sites, listens, files, k)}
           f == [i \in 0 .. 0 |-> [ok |-> TRUE, sites |-> sites, listens |-> listens]]
<1>1. 0 \in S
  <2>1. IsParsing(f, sites, listens, files, 0)
    BY DEF IsParsing
  <2> HIDE DEF f
  <2> QED  BY <2>1
<1>2. \A k \in S : k + 1 \in S
  BY ParsingGoesOn
<1> HIDE DEF S
<1>3. S = Nat
  BY <1>1, <1>2, Induction DEF S
<1> QED
  BY <1>3 DEF S

\* What ParseFiles returns is the end of a parsing.
LEMMA Parsing ==
  ASSUME NEW sites, NEW listens, NEW files, Len(files) \in Nat
  PROVE  \E f : /\ IsParsing(f, sites, listens, files, Len(files))
                /\ ParseFiles(sites, listens, files) = f[Len(files)]
<1> DEFINE f == CHOOSE f : IsParsing(f, sites, listens, files, Len(files))
<1>1. IsParsing(f, sites, listens, files, Len(files))
  BY ParsingExists
<1>2. ParseFiles(sites, listens, files) = f[Len(files)]
  BY DEF ParseFiles, IsParsing
<1> QED
  BY <1>1, <1>2

\* The files up to the i-th that are loaded, and the sites of one; 0 is the main one.
goodUpTo(files, i) == {k \in 1 .. i : \A j \in 1 .. k : ~files[j].bad}
sitesIn(main, files, i) == IF i = 0 THEN main ELSE files[i].sites
namingUpTo(main, files, i, id) ==
    {k \in {0} \cup goodUpTo(files, i) : placesOf(sitesIn(main, files, k), id) # {}}

\* After i files, the sites in force are those of the last file that names them.
IsLast(sites, main, files, i, id) ==
    LET naming == namingUpTo(main, files, i, id)
    IN /\ placesOf(sites, id) # {} <=> naming # {}
       /\ naming # {} =>
            inForce(sites, id) = inForce(sitesIn(main, files, Max(naming)), id)
ParseInv(st, main, files, i, R) ==
    /\ st = [ok |-> st.ok, sites |-> st.sites, listens |-> st.listens]
    /\ st.ok \in BOOLEAN /\ st.sites \in Seq(R)
    /\ st.ok <=> goodUpTo(files, i) = 1 .. i
    /\ \A id : IsLast(st.sites, main, files, i, id)

\* Before the first file, what is in force is what the main file has.
LEMMA ParseStart ==
  ASSUME NEW R, NEW main \in Seq(R), NEW listens, NEW files
  PROVE  ParseInv([ok |-> TRUE, sites |-> main, listens |-> listens], main, files, 0, R)
<1>1. goodUpTo(files, 0) = {} /\ 1 .. 0 = {}
  BY DEF goodUpTo
<1>2. \A id : namingUpTo(main, files, 0, id) = IF placesOf(main, id) # {} THEN {0} ELSE {}
  BY <1>1 DEF namingUpTo, sitesIn
<1>3. Max({0}) = 0
  <2>1. {0} \in SUBSET Int /\ 0 \in {0} /\ \A m \in {0} : m <= 0
    OBVIOUS
  <2> QED  BY <2>1, MaxIs
<1>4. sitesIn(main, files, 0) = main
  BY DEF sitesIn
<1> QED
  BY <1>1, <1>2, <1>3, <1>4 DEF ParseInv, IsLast

\* A file that parses, after others that did, comes into force.
LEMMA GoodFile ==
  ASSUME NEW R, NEW main \in Seq(R), NEW files, NEW i \in Nat, NEW st,
         ParseInv(st, main, files, i, R), st.ok,
         ~files[i + 1].bad, files[i + 1].sites \in Seq(R)
  PROVE  /\ goodUpTo(files, i + 1) = 1 .. i + 1
         /\ \A id : IsLast(loadSites(st.sites, files[i + 1].sites), main, files, i + 1, id)
<1> DEFINE n == i + 1
           incoming == files[n].sites
           sites == loadSites(st.sites, incoming)
<1>1. n \in Nat /\ n \in 1 .. n /\ 1 .. n = (1 .. i) \cup {n} /\ n # 0
      /\ \A k \in {0} \cup 1 .. i : k <= n
  OBVIOUS
<1>2. goodUpTo(files, i) = 1 .. i /\ \A j \in 1 .. i : ~files[j].bad
  <2>1. goodUpTo(files, i) = 1 .. i
    BY DEF ParseInv
  <2>2. \A j \in 1 .. i : j \in 1 .. j
    OBVIOUS
  <2> QED  BY <2>1, <2>2 DEF goodUpTo
<1>3. goodUpTo(files, n) = 1 .. n
  BY <1>1, <1>2 DEF goodUpTo
<1>4. ASSUME NEW id PROVE IsLast(sites, main, files, n, id)
  <2> DEFINE old == namingUpTo(main, files, i, id)
             now == namingUpTo(main, files, n, id)
  <2>1. old \subseteq {0} \cup 1 .. i
    BY <1>2 DEF namingUpTo
  <2>2. sitesIn(main, files, n) = incoming
    BY <1>1 DEF sitesIn
  <2>3. now = old \cup (IF placesOf(incoming, id) # {} THEN {n} ELSE {})
    BY <1>1, <1>2, <1>3, <2>2 DEF namingUpTo
  <2>4. /\ placesOf(st.sites, id) # {} <=> old # {}
        /\ old # {} => inForce(st.sites, id) = inForce(sitesIn(main, files, Max(old)), id)
    BY DEF ParseInv, IsLast
  <2>6. /\ placesOf(sites, id) # {} <=> placesOf(st.sites, id) # {} \/ placesOf(incoming, id) # {}
        /\ placesOf(sites, id) # {} =>
             inForce(sites, id) = IF placesOf(incoming, id) # {} THEN inForce(incoming, id)
                                  ELSE inForce(st.sites, id)
    <3>1. st.sites \in Seq(R) /\ incoming \in Seq(R)
      BY DEF ParseInv
    <3>2. Loaded(sites, st.sites, incoming, id)
      BY <3>1, SitesLoaded
    <3> QED  BY <3>2 DEF Loaded
  <2>7. placesOf(incoming, id) # {} => Max(now) = n
    <3> SUFFICES ASSUME placesOf(incoming, id) # {} PROVE Max(now) = n
      OBVIOUS
    <3> HIDE DEF now, old
    <3>1. now = old \cup {n}
      BY <2>3
    <3>2. now \in SUBSET Int /\ n \in now /\ \A m \in now : m <= n
      BY <1>1, <2>1, <3>1
    <3> HIDE DEF n
    <3> QED  BY <3>2, MaxIs
  <2> HIDE DEF now, old, sites, incoming, n
  <2>8. CASE placesOf(incoming, id) # {}
    <3>1. now # {} /\ placesOf(sites, id) # {} /\ inForce(sites, id) = inForce(incoming, id)
      BY <2>3, <2>6, <2>8
    <3> QED  BY <2>2, <2>7, <2>8, <3>1 DEF now, IsLast
  <2>9. CASE placesOf(incoming, id) = {}
    <3>1. now = old
      BY <2>3, <2>9
    <3> QED  BY <2>4, <2>6, <2>9, <3>1 DEF now, IsLast
  <2> QED  BY <2>8, <2>9
<1> QED
  BY <1>3, <1>4

\* Each file parses, or ends the parsing with those before it in force.
LEMMA ParseStep ==
  ASSUME NEW R, NEW main \in Seq(R), NEW files, NEW i \in Nat, NEW st,
         ParseInv(st, main, files, i, R),
         files[i + 1].bad \in BOOLEAN, files[i + 1].sites \in Seq(R)
  PROVE  ParseInv(loadSubConf(st, files[i + 1]), main, files, i + 1, R)
<1> DEFINE n == i + 1
           after == loadSubConf(st, files[n])
<1>1. st.ok \in BOOLEAN /\ (st.ok <=> goodUpTo(files, i) = 1 .. i) /\ st.sites \in Seq(R)
  BY DEF ParseInv
<1>2. n \in 1 .. n /\ 1 .. n = (1 .. i) \cup {n} /\ n \notin 1 .. i
      /\ \A k \in 1 .. i : 1 .. k \subseteq 1 .. n
  OBVIOUS
<1>3. CASE ~st.ok \/ files[n].bad
  <2>1. after = [ok |-> FALSE, sites |-> st.sites, listens |-> st.listens]
    BY <1>3 DEF loadSubConf, ParseInv
  <2>2. n \notin goodUpTo(files, n)
    <3>1. CASE files[n].bad
      BY <1>2, <3>1 DEF goodUpTo
    <3>2. CASE ~st.ok
      <4>1. PICK k \in 1 .. i : k \notin goodUpTo(files, i)
        BY <1>1, <3>2 DEF goodUpTo
      <4>2. PICK j \in 1 .. k : files[j].bad
        BY <4>1 DEF goodUpTo
      <4>3. j \in 1 .. n
        BY <1>2, <4>1, <4>2
      <4> QED  BY <4>2, <4>3 DEF goodUpTo
    <3> QED  BY <1>3, <3>1, <3>2
  <2>3. goodUpTo(files, n) = goodUpTo(files, i)
    BY <1>2, <2>2 DEF goodUpTo
  <2>4. \A id : namingUpTo(main, files, n, id) = namingUpTo(main, files, i, id)
    BY <2>3 DEF namingUpTo
  <2>5. goodUpTo(files, n) # 1 .. n
    BY <1>2, <2>2
  <2> HIDE DEF after, n
  <2> QED  BY <1>1, <2>1, <2>4, <2>5 DEF ParseInv, IsLast, n, after
<1>4. CASE st.ok /\ ~files[n].bad
  <2> DEFINE sites == loadSites(st.sites, files[n].sites)
             listens == loadListens(st.listens, files[n].listens)
  <2>1. after = [ok |-> TRUE, sites |-> sites, listens |-> listens]
    BY <1>4 DEF loadSubConf
  <2>2. sites \in Seq(R)
    BY <1>1, SitesLoaded
  <2>3. goodUpTo(files, n) = 1 .. n /\ \A id : IsLast(sites, main, files, n, id)
    BY <1>4, GoodFile
  <2> HIDE DEF after, n, sites, listens
  <2> QED  BY <2>1, <2>2, <2>3 DEF ParseInv, n, after
<1> QED
  BY <1>1, <1>3, <1>4

\* What all the files leave.
LEMMA Parsed ==
  ASSUME NEW R, NEW main \in Seq(R), NEW listens, NEW files, Len(files) \in Nat,
         \A i \in 1 .. Len(files) : files[i].bad \in BOOLEAN /\ files[i].sites \in Seq(R)
  PROVE  ParseInv(ParseFiles(main, listens, files), main, files, Len(files), R)
<1> DEFINE n == Len(files)
<1>1. PICK f : IsParsing(f, main, listens, files, n) /\ ParseFiles(main, listens, files) = f[n]
  BY Parsing
<1> DEFINE S == {j \in Nat : j \in 0 .. n => ParseInv(f[j], main, files, j, R)}
<1>2. 0 \in S
  BY <1>1, ParseStart DEF IsParsing
<1>3. ASSUME NEW j \in S PROVE j + 1 \in S
  <2> SUFFICES ASSUME j + 1 \in 0 .. n
               PROVE  ParseInv(f[j + 1], main, files, j + 1, R)
    OBVIOUS
  <2>1. j \in Nat /\ j \in 0 .. n /\ j + 1 # 0 /\ (j + 1) - 1 = j /\ j + 1 \in 1 .. n
    OBVIOUS
  <2>2. ParseInv(f[j], main, files, j, R)
    BY <2>1
  <2>3. f[j + 1] = loadSubConf(f[j], files[j + 1])
    BY <1>1, <2>1 DEF IsParsing
  <2> HIDE DEF S
  <2> QED  BY <2>1, <2>2, <2>3, ParseStep
<1> HIDE DEF S
<1>4. S = Nat
  BY <1>2, <1>3, Induction DEF S
<1>5. n \in S /\ n \in 0 .. n
  BY <1>4
<1> QED
  BY <1>1, <1>5 DEF S

\* The configuration in force after a loading is, identity by identity, the last one
\* that a file that parses gives, completed by its public template without a trace
\* in the template or in what the next update makes of it.
THEOREM LastFileWins == Spec => []LastFileThenTemplate
<1> SUFFICES ASSUME InputInv, input.of = "config" PROVE LastFileThenTemplate
  BY InputInvariant, PTL DEF LastFileThenTemplate
<1>1. input \in ConfigInputs
  BY WhoseInput
<1> DEFINE main == input.sites
           files == input.files
           template == input.template
           R == Range(main) \cup UNION {Range(files[i].sites) : i \in DOMAIN files}
           n == Len(files)
           loaded == ParseFiles(main, <<>>, files)
           good == {i \in DOMAIN files : \A j \in 1 .. i : ~files[j].bad}
           sitesOf(i) == IF i = 0 THEN main ELSE files[i].sites
           identities(sites) == {s.Identity : s \in Range(sites)}
           naming(id) == {i \in {0} \cup good : placesOf(sitesOf(i), id) # {}}
<1>3. n \in Nat /\ DOMAIN files = 1 .. n
  BY <1>1, ConfigInputsAssumption
<1>4. \A i \in 1 .. n : /\ files[i].bad \in BOOLEAN
                        /\ files[i].sites \in Seq(Range(files[i].sites))
  <2>1. \A i \in 1 .. n : files[i] \in Range(files)
    BY <1>3 DEF Range
  <2> QED  BY <1>1, <2>1, ConfigInputsAssumption
<1>5. main \in Seq(R) /\ \A i \in 1 .. n : files[i].sites \in Seq(R)
  <2>1. main \in Seq(Range(main))
    BY <1>1, ConfigInputsAssumption
  <2>2. Range(main) \subseteq R /\ \A i \in 1 .. n : Range(files[i].sites) \subseteq R
    BY <1>3
  <2> HIDE DEF R
  <2> QED  BY <1>4, <2>1, <2>2
<1>6. ParseInv(loaded, main, files, n, R)
  <2> HIDE DEF R
  <2> QED  BY <1>3, <1>4, <1>5, Parsed
<1>7. \A s \in R : AreAlike(s.Plugin, template) /\ DOMAIN template \subseteq DOMAIN Kind
  BY <1>1, ConfigInputsAssumption DEF plugins
<1> HIDE DEF main, files, template, R, loaded
<1>8. good = goodUpTo(files, n)
  BY <1>3 DEF goodUpTo
<1>9. loaded.ok <=> good = DOMAIN files
  BY <1>3, <1>6, <1>8 DEF ParseInv
<1>10. \A i \in {0} \cup good : sitesOf(i) \in Seq(R)
  BY <1>3, <1>5
<1>11. \A sites \in Seq(R) : \A id : id \in identities(sites) <=> placesOf(sites, id) # {}
  BY DEF placesOf, Range
<1>12. loaded.sites \in Seq(R)
  BY <1>6 DEF ParseInv
<1>13. \A id : naming(id) = namingUpTo(main, files, n, id)
  BY <1>8 DEF namingUpTo, sitesIn
<1>14. \A id : placesOf(loaded.sites, id) # {} <=> naming(id) # {}
  <2> HIDE DEF naming
  <2> QED  BY <1>6, <1>13 DEF ParseInv, IsLast
<1>15. identities(loaded.sites) = UNION {identities(sitesOf(i)) : i \in {0} \cup good}
  <2> HIDE DEF identities, good, sitesOf
  <2>1. ASSUME NEW id
        PROVE  id \in identities(loaded.sites) <=>
                 \E i \in {0} \cup good : id \in identities(sitesOf(i))
    BY <1>10, <1>11, <1>12, <1>14
  <2> QED  BY <2>1
<1>16. ASSUME NEW id \in identities(loaded.sites)
       PROVE  LET site == inForce(loaded.sites, id)
              IN /\ site = inForce(sitesOf(Max(naming(id))), id)
                 /\ FlatMerge(site.Plugin, template)
                 /\ PluginMerge(site.Plugin, template)
  <2> DEFINE site == inForce(loaded.sites, id)
  <2>1. placesOf(loaded.sites, id) # {}
    BY <1>11, <1>12
  <2>2. site = inForce(sitesOf(Max(naming(id))), id)
    <3>1. namingUpTo(main, files, n, id) # {}
      BY <1>13, <1>14, <2>1
    <3>2. site = inForce(sitesIn(main, files, Max(namingUpTo(main, files, n, id))), id)
      BY <1>6, <3>1 DEF ParseInv, IsLast
    <3> HIDE DEF naming
    <3> QED  BY <1>13, <3>2 DEF sitesIn
  <2>3. site \in R
    BY <1>12, <2>1, Places DEF inForce
  <2> HIDE DEF site
  <2>4. FlatMerge(site.Plugin, template) /\ PluginMerge(site.Plugin, template)
    BY <1>7, <2>3, FlatMerged, PluginMerged
  <2> QED  BY <2>2, <2>4 DEF site
<1> HIDE DEF identities, good
<1> QED
  BY <1>9, <1>15, <1>16 DEF LastFileThenTemplate, identities, good, loaded,
                               main, files, template

-----------------------------------------------------------------------------
(* Placeholders.                                                             *)

\* The parts of a segment over some characters.
Part(Char) == [isPlaceholder : BOOLEAN, value : Seq(Char)]

\* The text that stands at position a of another.
StandsAt(text, a, w) ==
    /\ a + Len(w) - 1 <= Len(text)
    /\ \A k \in 1 .. Len(w) : text[a + k - 1] = w[k]

\* Where a word occurs, told character by character.
LEMMA OccursWhere ==
  ASSUME NEW Char, NEW lit \in Seq(Char), NEW text \in Seq(Char), NEW i \in Nat \ {0},
         NEW n \in Int
  PROVE  n \in Occurrences(lit, text, i) <=> i <= n /\ StandsAt(text, n, lit)
<1> DEFINE L == Len(lit)
           T == Len(text)
           w == SubSeq(text, n, n + L - 1)
<1>1. L \in Nat /\ T \in Nat
  OBVIOUS
<1>2. CASE i <= n /\ n <= T - L + 1
  <2>1. n \in 1 .. T + 1 /\ n + L - 1 \in Nat /\ n + L - 1 <= T /\ n <= n + L
    BY <1>1, <1>2
  <2>2. w \in Seq(Char) /\ Len(w) = L /\ \A k \in 1 .. L : w[k] = text[n + k - 1]
    <3>1. (n + L - 1) - n + 1 = L
      BY <1>1
    <3>2. CASE n <= n + L - 1
      BY <2>1, <3>1, <3>2, <1>1
    <3>3. CASE ~(n <= n + L - 1)
      BY <2>1, <3>1, <3>3, <1>1
    <3> QED  BY <3>2, <3>3, <1>1
  <2>3. w = lit <=> \A k \in 1 .. L : text[n + k - 1] = lit[k]
    <3>1. lit = [k \in 1 .. L |-> lit[k]]
      OBVIOUS
    <3>2. w = [k \in 1 .. Len(w) |-> w[k]]
      <4> HIDE DEF w
      <4> QED  BY <2>2
    <3> HIDE DEF w
    <3> QED  BY <2>2, <3>1, <3>2
  <2>4. n \in i .. T - L + 1
    BY <1>2, <1>1
  <2> HIDE DEF w
  <2>5. n \in Occurrences(lit, text, i) <=> w = lit
    BY <2>4 DEF Occurrences, w
  <2> QED  BY <2>3, <2>5, <1>2, <1>1 DEF StandsAt
<1>3. CASE ~(i <= n /\ n <= T - L + 1)
  <2>1. n \notin i .. T - L + 1
    BY <1>3, <1>1
  <2>2. ~(i <= n /\ n + L - 1 <= T)
    BY <1>3, <1>1
  <2> QED  BY <2>1, <2>2 DEF Occurrences, StandsAt
<1> QED
  BY <1>2, <1>3

\* A word that stands in a text: what occurs in the word occurs there too.
LEMMA OccursWithin ==
  ASSUME NEW Char, NEW lit \in Seq(Char), NEW text \in Seq(Char), NEW w \in Seq(Char),
         NEW a \in Nat \ {0}, StandsAt(text, a, w),
         NEW n \in Nat \ {0}, n + Len(lit) - 1 <= Len(w)
  PROVE  n \in Occurrences(lit, w, 1) <=> a + n - 1 \in Occurrences(lit, text, a)
<1> DEFINE L == Len(lit)
           W == Len(w)
           m == a + n - 1
<1>1. L \in Nat /\ W \in Nat /\ Len(text) \in Nat /\ m \in Int /\ a <= m
  OBVIOUS
<1>2. \A k \in 1 .. L : /\ n + k - 1 \in 1 .. W
                        /\ a + (n + k - 1) - 1 = m + k - 1
  BY <1>1
<1>3. \A k \in 1 .. L : text[m + k - 1] = w[n + k - 1]
  BY <1>2 DEF StandsAt
<1>4. m + L - 1 <= Len(text) /\ n + L - 1 <= W
  BY <1>1 DEF StandsAt
<1>5. StandsAt(text, m, lit) <=> StandsAt(w, n, lit)
  BY <1>3, <1>4 DEF StandsAt
<1>6. n \in Occurrences(lit, w, 1) <=> 1 <= n /\ StandsAt(w, n, lit)
  BY OccursWhere
<1>7. m \in Occurrences(lit, text, a) <=> a <= m /\ StandsAt(text, m, lit)
  <2> HIDE DEF m
  <2> QED  BY <1>1, OccursWhere
<1> QED
  BY <1>1, <1>5, <1>6, <1>7

\* Where a value and the literal behind it stand in a text, the value is as short as
\* it can be if and only if that is the first occurrence of the literal.
LEMMA ShortestIsFirst ==
  ASSUME NEW Char, NEW lit \in Seq(Char), NEW text \in Seq(Char), NEW v \in Seq(Char),
         NEW a \in Nat \ {0}, StandsAt(text, a, v \o lit)
  PROVE  /\ Occurrences(lit, text, a) # {}
         /\ First(Occurrences(lit, v \o lit, 1)) = Len(v) + 1
              <=> First(Occurrences(lit, text, a)) = a + Len(v)
<1> DEFINE L == Len(lit)
           V == Len(v)
           w == v \o lit
           there == Occurrences(lit, text, a)
           here == Occurrences(lit, w, 1)
<1>1. L \in Nat /\ V \in Nat /\ w \in Seq(Char) /\ Len(w) = V + L
  OBVIOUS
<1>2. \A n \in Nat \ {0} : n <= V + 1 => (n \in here <=> a + n - 1 \in there)
  <2> SUFFICES ASSUME NEW n \in Nat \ {0}, n <= V + 1
               PROVE  n \in here <=> a + n - 1 \in there
    OBVIOUS
  <2>4. n + L - 1 <= Len(w)
    <3> HIDE DEF L, V, w
    <3> QED  BY <1>1
  <2>5. StandsAt(text, a, w)
    OBVIOUS
  <2> HIDE DEF w
  <2> QED  BY <1>1, <2>4, <2>5, OccursWithin
<1>3. V + 1 \in here
  <2>1. ASSUME NEW k \in 1 .. L PROVE w[V + 1 + k - 1] = lit[k]
    <3>1. V + 1 + k - 1 = V + k /\ V + k \in 1 .. V + L /\ ~(V + k <= V) /\ V + k - V = k
      <4> HIDE DEF V, L
      <4> QED  BY <1>1
    <3>2. w[V + k] = lit[k]
      BY <3>1, <1>1
    <3> HIDE DEF w
    <3> QED  BY <3>1, <3>2
  <2>2. StandsAt(w, V + 1, lit)
    BY <2>1, <1>1 DEF StandsAt
  <2> HIDE DEF w
  <2> QED  BY <2>2, <1>1, OccursWhere
<1>4. a + V \in there
  <2>1. a + (V + 1) - 1 = a + V /\ V + 1 \in Nat \ {0} /\ V + 1 <= V + 1
    BY <1>1
  <2> HIDE DEF there, here
  <2> QED  BY <2>1, <1>2, <1>3
<1>5. here \in SUBSET Nat /\ there \in SUBSET Nat
  <2>1. here \subseteq 1 .. Len(w) - L + 1
    BY DEF Occurrences
  <2>2. there \subseteq a .. Len(text) - L + 1
    BY DEF Occurrences
  <2>3. Len(w) - L + 1 \in Int /\ Len(text) - L + 1 \in Int
    BY <1>1
  <2> HIDE DEF w, here, there
  <2> QED  BY <2>1, <2>2, <2>3
<1>6. \A m \in there : a <= m
  BY <1>1 DEF Occurrences
<1> HIDE DEF here, there, w
<1>7. /\ First(here) \in here /\ \A n \in here : First(here) <= n
      /\ First(there) \in there /\ \A n \in there : First(there) <= n
  BY <1>3, <1>4, <1>5, FirstIsLeast
<1>8. First(here) \in Nat \ {0} /\ First(here) <= V + 1
  <2>1. First(here) # 0
    BY <1>7, <1>1 DEF here, Occurrences
  <2> QED  BY <2>1, <1>7, <1>3, <1>5
<1>9. First(there) \in Nat /\ First(there) <= a + V /\ a <= First(there)
  BY <1>7, <1>4, <1>5, <1>6
<1>10. a + First(here) - 1 \in there
  BY <1>2, <1>7, <1>8
<1>11. PICK h \in Nat \ {0} : h = First(here)
  BY <1>8
<1>12. PICK t \in Nat : t = First(there)
  BY <1>9
<1>13. t - a + 1 \in here
  <2> DEFINE n == t - a + 1
  <2>1. n \in Nat \ {0} /\ n <= V + 1 /\ a + n - 1 = t
    <3> HIDE DEF there, here
    <3>1. t <= a + V /\ a <= t
      BY <1>9, <1>12
    <3> QED  BY <3>1, <1>1
  <2> HIDE DEF n, here
  <2>2. n \in here
    BY <2>1, <1>2, <1>7, <1>12
  <2> QED  BY <2>2 DEF n
<1>14. t <= a + h - 1 /\ h <= t - a + 1
  BY <1>7, <1>10, <1>11, <1>12, <1>13
<1>15. t = a + h - 1
  BY <1>14
<1>16. h = V + 1 <=> t = a + V
  <2> HIDE DEF L, V
  <2> QED  BY <1>15, <1>1
<1> QED
  BY <1>4, <1>11, <1>12, <1>16 DEF here, there, w

Unread == [ok |-> TRUE, inside |-> FALSE, parts |-> <<>>, buffer |-> <<>>]
Untaken == [ok |-> TRUE, at |-> 1, params |-> <<>>]
piece(parts, value, i) == IF parts[i].isPlaceholder THEN value[i] ELSE parts[i].value
NoText == <<>>

\* f is what scanned computes over the first n characters of a segment.
IsScan(f, seg, n) ==
    f = [i \in 0 .. n |-> IF i = 0 THEN Unread ELSE scanChar(f[i - 1], seg[i])]

\* It goes on by one.
LEMMA ScanGoesOn ==
  ASSUME NEW seg, NEW k \in Nat, NEW g, IsScan(g, seg, k)
  PROVE  \E f : IsScan(f, seg, k + 1)
<1> DEFINE n == k + 1
           f == [i \in 0 .. n |-> IF i = n THEN scanChar(g[k], seg[n]) ELSE g[i]]
<1>1. ASSUME NEW i \in 0 .. n
      PROVE  f[i] = IF i = 0 THEN Unread ELSE scanChar(f[i - 1], seg[i])
  <2>1. CASE i = n
    <3>1. f[n] = scanChar(g[k], seg[n]) /\ f[k] = g[k] /\ n - 1 = k /\ n # 0
      OBVIOUS
    <3> HIDE DEF f
    <3> QED  BY <2>1, <3>1
  <2>2. CASE i # n
    <3>1. i \in 0 .. k /\ f[i] = g[i] /\ g[0] = Unread
      BY <2>2 DEF IsScan
    <3>2. CASE i = 0
      BY <3>1, <3>2
    <3>3. CASE i # 0
      <4>1. i - 1 \in 0 .. n /\ i - 1 # n /\ f[i - 1] = g[i - 1]
        BY <3>1, <3>3
      <4>2. g[i] = scanChar(g[i - 1], seg[i])
        BY <3>1, <3>3 DEF IsScan
      <4> HIDE DEF f
      <4> QED  BY <3>1, <3>3, <4>1, <4>2
    <3> QED  BY <3>2, <3>3
  <2> QED  BY <2>1, <2>2
<1>2. f = [i \in 0 .. n |-> f[i]]
  OBVIOUS
<1> HIDE DEF f
<1>3. IsScan(f, seg, n)
  BY <1>1, <1>2 DEF IsScan
<1> QED
  BY <1>3

\* So there is one of every length.
LEMMA ScanExists ==
  ASSUME NEW seg, NEW n \in Nat
  PROVE  \E f : IsScan(f, seg, n)
<1> DEFINE S == {k \in Nat : \E f : IsScan(f, seg, k)}
           f == [i \in 0 .. 0 |-> Unread]
<1>1. 0 \in S
  <2>1. IsScan(f, seg, 0)
    BY DEF IsScan
  <2> HIDE DEF f
  <2> QED  BY <2>1
<1>2. \A k \in S : k + 1 \in S
  BY ScanGoesOn
<1> HIDE DEF S
<1>3. S = Nat
  BY <1>1, <1>2, Induction DEF S
<1> QED
  BY <1>3 DEF S

\* What scanned returns is the end of a scan.
LEMMA ScanRun ==
  ASSUME NEW seg, Len(seg) \in Nat
  PROVE  \E f : IsScan(f, seg, Len(seg)) /\ scanned(seg) = f[Len(seg)]
<1> DEFINE f == CHOOSE f : IsScan(f, seg, Len(seg))
<1>1. IsScan(f, seg, Len(seg))
  BY ScanExists
<1>2. scanned(seg) = f[Len(seg)]
  BY DEF scanned, IsScan, Unread
<1> QED
  BY <1>1, <1>2

\* f is what extractParams computes over the first n parts of a segment.
IsTaking(f, parts, text, n) ==
    f = [i \in 0 .. n |-> IF i = 0 THEN Untaken ELSE takePart(parts, text, f[i - 1], i)]

\* It goes on by one.
LEMMA TakingGoesOn ==
  ASSUME NEW parts, NEW text, NEW k \in Nat, NEW g, IsTaking(g, parts, text, k)
  PROVE  \E f : IsTaking(f, parts, text, k + 1)
<1> DEFINE n == k + 1
           f == [i \in 0 .. n |-> IF i = n THEN takePart(parts, text, g[k], n) ELSE g[i]]
<1>1. ASSUME NEW i \in 0 .. n
      PROVE  f[i] = IF i = 0 THEN Untaken ELSE takePart(parts, text, f[i - 1], i)
  <2>1. CASE i = n
    <3>1. f[n] = takePart(parts, text, g[k], n) /\ f[k] = g[k] /\ n - 1 = k /\ n # 0
      OBVIOUS
    <3> HIDE DEF f
    <3> QED  BY <2>1, <3>1
  <2>2. CASE i # n
    <3>1. i \in 0 .. k /\ f[i] = g[i] /\ g[0] = Untaken
      BY <2>2 DEF IsTaking
    <3>2. CASE i = 0
      BY <3>1, <3>2
    <3>3. CASE i # 0
      <4>1. i - 1 \in 0 .. n /\ i - 1 # n /\ f[i - 1] = g[i - 1]
        BY <3>1, <3>3
      <4>2. g[i] = takePart(parts, text, g[i - 1], i)
        BY <3>1, <3>3 DEF IsTaking
      <4> HIDE DEF f
      <4> QED  BY <3>1, <3>3, <4>1, <4>2
    <3> QED  BY <3>2, <3>3
  <2> QED  BY <2>1, <2>2
<1>2. f = [i \in 0 .. n |-> f[i]]
  OBVIOUS
<1> HIDE DEF f
<1>3. IsTaking(f, parts, text, n)
  BY <1>1, <1>2 DEF IsTaking
<1> QED
  BY <1>3

\* So there is one of every length.
LEMMA TakingExists ==
  ASSUME NEW parts, NEW text, NEW n \in Nat
  PROVE  \E f : IsTaking(f, parts, text, n)
<1> DEFINE S == {k \in Nat : \E f : IsTaking(f, parts, text, k)}
           f == [i \in 0 .. 0 |-> Untaken]
<1>1. 0 \in S
  <2>1. IsTaking(f, parts, text, 0)
    BY DEF IsTaking
  <2> HIDE DEF f
  <2> QED  BY <2>1
<1>2. \A k \in S : k + 1 \in S
  BY TakingGoesOn
<1> HIDE DEF S
<1>3. S = Nat
  BY <1>1, <1>2, Induction DEF S
<1> QED
  BY <1>3 DEF S

\* What it returns is the end of it.
LEMMA TakingRun ==
  ASSUME NEW parts, NEW text, Len(parts) \in Nat
  PROVE  \E f : IsTaking(f, parts, text, Len(parts)) /\ taken(parts, text) = f[Len(parts)]
<1> DEFINE f == CHOOSE f : IsTaking(f, parts, text, Len(parts))
<1>1. IsTaking(f, parts, text, Len(parts))
  BY TakingExists
<1>2. taken(parts, text) = f[Len(parts)]
  BY DEF taken, IsTaking, Untaken
<1> QED
  BY <1>1, <1>2

\* f is the text of the first n parts with some values.
IsRendering(f, parts, value, n) ==
    f = [i \in 0 .. n |-> IF i = 0 THEN NoText ELSE f[i - 1] \o piece(parts, value, i)]

\* It goes on by one.
LEMMA RenderingGoesOn ==
  ASSUME NEW parts, NEW value, NEW k \in Nat, NEW g, IsRendering(g, parts, value, k)
  PROVE  \E f : IsRendering(f, parts, value, k + 1)
<1> DEFINE n == k + 1
           f == [i \in 0 .. n |-> IF i = n THEN g[k] \o piece(parts, value, n) ELSE g[i]]
<1>1. ASSUME NEW i \in 0 .. n
      PROVE  f[i] = IF i = 0 THEN NoText ELSE f[i - 1] \o piece(parts, value, i)
  <2>1. CASE i = n
    <3>1. f[n] = g[k] \o piece(parts, value, n) /\ f[k] = g[k] /\ n - 1 = k /\ n # 0
      OBVIOUS
    <3> HIDE DEF f
    <3> QED  BY <2>1, <3>1
  <2>2. CASE i # n
    <3>1. i \in 0 .. k /\ f[i] = g[i] /\ g[0] = NoText
      BY <2>2 DEF IsRendering
    <3>2. CASE i = 0
      BY <3>1, <3>2
    <3>3. CASE i # 0
      <4>1. i - 1 \in 0 .. n /\ i - 1 # n /\ f[i - 1] = g[i - 1]
        BY <3>1, <3>3
      <4>2. g[i] = g[i - 1] \o piece(parts, value, i)
        BY <3>1, <3>3 DEF IsRendering
      <4> HIDE DEF f
      <4> QED  BY <3>1, <3>3, <4>1, <4>2
    <3> QED  BY <3>2, <3>3
  <2> QED  BY <2>1, <2>2
<1>2. f = [i \in 0 .. n |-> f[i]]
  OBVIOUS
<1> HIDE DEF f
<1>3. IsRendering(f, parts, value, n)
  BY <1>1, <1>2 DEF IsRendering
<1> QED
  BY <1>3

\* So there is one of every length.
LEMMA RenderingExists ==
  ASSUME NEW parts, NEW value, NEW n \in Nat
  PROVE  \E f : IsRendering(f, parts, value, n)
<1> DEFINE S == {k \in Nat : \E f : IsRendering(f, parts, value, k)}
           f == [i \in 0 .. 0 |-> NoText]
<1>1. 0 \in S
  <2>1. IsRendering(f, parts, value, 0)
    BY DEF IsRendering
  <2> HIDE DEF f
  <2> QED  BY <2>1
<1>2. \A k \in S : k + 1 \in S
  BY RenderingGoesOn
<1> HIDE DEF S
<1>3. S = Nat
  BY <1>1, <1>2, Induction DEF S
<1> QED
  BY <1>3 DEF S

\* What rendered is, is the end of it.
LEMMA RenderingRun ==
  ASSUME NEW parts, NEW value, Len(parts) \in Nat
  PROVE  \E f : IsRendering(f, parts, value, Len(parts)) /\ rendered(parts, value) = f[Len(parts)]
<1> DEFINE f == CHOOSE f : IsRendering(f, parts, value, Len(parts))
<1>1. IsRendering(f, parts, value, Len(parts))
  BY RenderingExists
<1>2. rendered(parts, value) = f[Len(parts)]
  BY DEF rendered, IsRendering, NoText, piece
<1> QED
  BY <1>1, <1>2

ScanState(Char) ==
    [ok : BOOLEAN, inside : BOOLEAN, parts : Seq(Part(Char)), buffer : Seq(Char)]
NoBraces(seg) == \A i \in 1 .. Len(seg) : seg[i] \notin {"{", "}"}

\* A state of the scan, from its fields.
LEMMA ScanFields ==
  ASSUME NEW Char, NEW ok \in BOOLEAN, NEW inside \in BOOLEAN,
         NEW parts \in Seq(Part(Char)), NEW buffer \in Seq(Char)
  PROVE  [ok |-> ok, inside |-> inside, parts |-> parts, buffer |-> buffer]
           \in ScanState(Char)
  BY DEF ScanState

\* What has been read of a segment are parts of it, and but for braces only text.
LEMMA ScanStep ==
  ASSUME NEW Char, NEW st \in ScanState(Char), NEW char \in Char
  PROVE  /\ scanChar(st, char) \in ScanState(Char)
         /\ char \notin {"{", "}"} => scanChar(st, char).parts = st.parts
<1> DEFINE flushed == IF st.buffer = <<>> THEN st.parts
                      ELSE Append(st.parts, part(FALSE, st.buffer))
<1>1. \A b \in BOOLEAN : Append(st.parts, part(b, st.buffer)) \in Seq(Part(Char))
  <2>1. TAKE b \in BOOLEAN
  <2>2. part(b, st.buffer) \in Part(Char)
    BY DEF ScanState, Part, part
  <2>3. st.parts \in Seq(Part(Char))
    BY DEF ScanState
  <2> QED  BY <2>2, <2>3
<1>2. flushed \in Seq(Part(Char))
  BY <1>1 DEF ScanState
<1>3. <<>> \in Seq(Char) /\ Append(st.buffer, char) \in Seq(Char)
  BY DEF ScanState
<1>4. CASE ~st.ok
  BY <1>4 DEF scanChar
<1>5. CASE st.ok /\ char = "{"
  <2>1. scanChar(st, char) = [ok |-> ~st.inside, inside |-> TRUE, parts |-> flushed,
                              buffer |-> <<>>]
    BY <1>5 DEF scanChar
  <2>2. (~st.inside) \in BOOLEAN /\ TRUE \in BOOLEAN
    OBVIOUS
  <2>3. scanChar(st, char) \in ScanState(Char)
    <3> HIDE DEF flushed
    <3> QED  BY <2>1, <2>2, <1>2, <1>3, ScanFields, Zenon
  <2> QED  BY <2>3, <1>5
<1>6. CASE st.ok /\ char = "}"
  <2>1. scanChar(st, char) = [ok |-> st.inside /\ st.buffer # <<>>, inside |-> FALSE,
                              parts |-> Append(st.parts, part(TRUE, st.buffer)),
                              buffer |-> <<>>]
    BY <1>6 DEF scanChar
  <2>2. (st.inside /\ st.buffer # <<>>) \in BOOLEAN /\ FALSE \in BOOLEAN
    BY DEF ScanState
  <2>3. Append(st.parts, part(TRUE, st.buffer)) \in Seq(Part(Char))
    BY <1>1
  <2>4. scanChar(st, char) \in ScanState(Char)
    BY <2>1, <2>2, <2>3, <1>3, ScanFields, Zenon
  <2> QED  BY <2>4, <1>6
<1>7. CASE st.ok /\ char # "{" /\ char # "}"
  <2>1. scanChar(st, char) = [st EXCEPT !.buffer = Append(st.buffer, char)]
    BY <1>7 DEF scanChar
  <2> QED  BY <2>1, <1>3 DEF ScanState
<1> QED
  BY <1>4, <1>5, <1>6, <1>7

\* A segment that has placeholders has a brace; if it is well formed, no two of them
\* are next to one another.
LEMMA SegmentParts ==
  ASSUME NEW Char, NEW seg \in Seq(Char)
  PROVE  LET parsed == parsePlaceholderSegment(seg)
         IN /\ parsed.parts \in Seq(Part(Char))
            /\ parsed.ok => \A i \in 1 .. Len(parsed.parts) - 1 :
                 ~(parsed.parts[i].isPlaceholder /\ parsed.parts[i + 1].isPlaceholder)
            /\ NoBraces(seg) => \A i \in DOMAIN parsed.parts : ~parsed.parts[i].isPlaceholder
<1> DEFINE N == Len(seg)
<1>1. PICK f : IsScan(f, seg, N) /\ scanned(seg) = f[N]
  BY ScanRun
<1> DEFINE Good(st) == st \in ScanState(Char) /\ (NoBraces(seg) => st.parts = <<>>)
           S == {n \in Nat : n <= N => Good(f[n])}
<1>2. 0 \in S
  <2>1. f[0] = Unread
    BY <1>1 DEF IsScan
  <2>2. <<>> \in Seq(Char) /\ <<>> \in Seq(Part(Char))
    OBVIOUS
  <2>3. Unread \in ScanState(Char)
    BY <2>2, ScanFields DEF Unread
  <2> QED  BY <2>1, <2>3 DEF Unread
<1>3. ASSUME NEW k \in S PROVE k + 1 \in S
  <2> SUFFICES ASSUME k + 1 <= N PROVE Good(f[k + 1])
    OBVIOUS
  <2>1. k \in Nat /\ k <= N /\ k + 1 \in 0 .. N /\ k + 1 # 0 /\ (k + 1) - 1 = k
    OBVIOUS
  <2>2. f[k + 1] = scanChar(f[k], seg[k + 1])
    BY <2>1, <1>1 DEF IsScan
  <2>3. Good(f[k]) /\ seg[k + 1] \in Char /\ k + 1 \in 1 .. Len(seg)
    BY <2>1
  <2>4. NoBraces(seg) => seg[k + 1] \notin {"{", "}"}
    BY <2>3 DEF NoBraces
  <2>5. /\ scanChar(f[k], seg[k + 1]) \in ScanState(Char)
        /\ NoBraces(seg) => scanChar(f[k], seg[k + 1]).parts = f[k].parts
    BY <2>3, <2>4, ScanStep
  <2> QED  BY <2>2, <2>3, <2>5
<1>4. Good(scanned(seg))
  <2> HIDE DEF Good
  <2>1. S = Nat
    <3> HIDE DEF S
    <3>1. S \in SUBSET Nat
      BY DEF S
    <3> QED  BY <3>1, <1>2, <1>3, Induction
  <2>2. N \in S
    BY <2>1
  <2> QED  BY <2>2, <1>1
<1> DEFINE st == scanned(seg)
           parts == IF st.buffer = <<>> THEN st.parts
                    ELSE Append(st.parts, part(FALSE, st.buffer))
           twins == \E i \in 1 .. Len(parts) - 1 :
                        parts[i].isPlaceholder /\ parts[i + 1].isPlaceholder
<1>5. parsePlaceholderSegment(seg) = [ok |-> st.ok /\ ~st.inside /\ ~twins, parts |-> parts]
  BY DEF parsePlaceholderSegment
<1>6. part(FALSE, st.buffer) \in Part(Char) /\ st.parts \in Seq(Part(Char))
  BY <1>4 DEF ScanState, Part, part
<1>7. parts \in Seq(Part(Char))
  <2> DEFINE one == part(FALSE, st.buffer)
  <2>1. one \in Part(Char)
    BY <1>6
  <2>2. Append(st.parts, one) \in Seq(Part(Char))
    <3> HIDE DEF one, st
    <3> QED  BY <2>1, <1>6
  <2> HIDE DEF st
  <2> QED  BY <1>6, <2>2
<1>8. NoBraces(seg) => \A i \in DOMAIN parts : ~parts[i].isPlaceholder
  <2>1. HAVE NoBraces(seg)
  <2>2. st.parts = <<>>
    BY <1>4, <2>1
  <2>3. DOMAIN Append(<<>>, part(FALSE, st.buffer)) = {1}
        /\ Append(<<>>, part(FALSE, st.buffer))[1] = part(FALSE, st.buffer)
    <3> DEFINE one == part(FALSE, st.buffer)
    <3> HIDE DEF one
    <3> QED  OBVIOUS
  <2> HIDE DEF st
  <2> QED  BY <2>2, <2>3 DEF part
<1>9. /\ parsePlaceholderSegment(seg).parts = parts
      /\ parsePlaceholderSegment(seg).ok => ~twins
  <2> DEFINE good == st.ok /\ ~st.inside /\ ~twins
  <2>1. parsePlaceholderSegment(seg) = [ok |-> good, parts |-> parts]
    BY <1>5
  <2>2. good => ~twins
    OBVIOUS
  <2> HIDE DEF good, twins, parts, st
  <2>3. parsePlaceholderSegment(seg).parts = parts
    BY <2>1
  <2>4. parsePlaceholderSegment(seg).ok = good
    BY <2>1
  <2> QED  BY <2>2, <2>3, <2>4
<1> HIDE DEF parts, st
<1> QED
  BY <1>7, <1>8, <1>9

\* The parts are as parsePlaceholderSegment leaves them: a literal follows a
\* placeholder.
AreParts(parts, Char) ==
    /\ parts \in Seq(Part(Char))
    /\ \A i \in 1 .. Len(parts) - 1 :
         ~(parts[i].isPlaceholder /\ parts[i + 1].isPlaceholder)

\* One of the parts.
LEMMA OnePart ==
  ASSUME NEW Char, NEW parts, AreParts(parts, Char), NEW i \in 1 .. Len(parts)
  PROVE  /\ parts[i].isPlaceholder \in BOOLEAN /\ parts[i].value \in Seq(Char)
         /\ Len(parts[i].value) \in Nat
<1>1. parts[i] \in Part(Char)
  BY DEF AreParts
<1>2. parts[i].isPlaceholder \in BOOLEAN /\ parts[i].value \in Seq(Char)
  BY <1>1 DEF Part
<1> QED
  BY <1>2

IsTaken(st) == /\ st = [ok |-> st.ok, at |-> st.at, params |-> st.params]
               /\ st.ok \in BOOLEAN /\ st.at \in Nat \ {0}

\* What takes a placeholder puts under its name.
given(parts, text, i, from, to) ==
    [name \in {parts[i].value} |-> SubSeq(text, from, to - 1)]

\* The places where a placeholder may end.
ends(parts, text, i, from) ==
    IF i = Len(parts) THEN {Len(text) + 1} ELSE Occurrences(parts[i + 1].value, text, from)

canEnd(parts, text, i, from) == ends(parts, text, i, from) # {}

\* They are in the text, not before the place it starts at.
LEMMA EndsWithin ==
  ASSUME NEW Char, NEW parts, AreParts(parts, Char), NEW text \in Seq(Char),
         NEW i \in 1 .. Len(parts), NEW from \in Nat \ {0}, from <= Len(text) + 1,
         ends(parts, text, i, from) # {}
  PROVE  LET to == First(ends(parts, text, i, from))
         IN to \in ends(parts, text, i, from) /\ to \in Nat \ {0} /\ from <= to
            /\ to <= Len(text) + 1
<1> DEFINE E == ends(parts, text, i, from)
           T == Len(text)
<1>1. T \in Nat /\ Len(parts) \in Nat /\ from <= T + 1
  BY DEF AreParts
<1>2. \A n \in E : n \in Nat \ {0} /\ from <= n /\ n <= T + 1
  <2>1. CASE i = Len(parts)
    <3>1. E = {T + 1}
      BY <2>1 DEF ends
    <3> HIDE DEF E, T
    <3> QED  BY <3>1, <1>1
  <2>2. CASE i # Len(parts)
    <3>1. i + 1 \in 1 .. Len(parts)
      BY <2>2, <1>1
    <3> DEFINE L == Len(parts[i + 1].value)
    <3>3. L \in Nat
      BY <3>1, OnePart
    <3>4. E \subseteq from .. T - L + 1
      BY <2>2 DEF ends, Occurrences
    <3> HIDE DEF E, T, L
    <3> QED  BY <3>3, <3>4, <1>1
  <2> QED  BY <2>1, <2>2
<1> HIDE DEF E
<1>3. E \in SUBSET Nat /\ E # {}
  BY <1>2 DEF E
<1>4. First(E) \in E
  BY <1>3, FirstIsLeast
<1> QED
  BY <1>2, <1>4 DEF E

\* One part, taken: after a literal that stands there, or at the first place where a
\* placeholder may end.
LEMMA TakeStep ==
  ASSUME NEW Char, NEW parts, AreParts(parts, Char), NEW text \in Seq(Char),
         NEW i \in 1 .. Len(parts), NEW st, IsTaken(st), st.at <= Len(text) + 1
  PROVE  LET new == takePart(parts, text, st, i)
             lit == parts[i].value
             to == First(ends(parts, text, i, st.at))
         IN /\ IsTaken(new) /\ st.at <= new.at /\ new.at <= Len(text) + 1
            /\ new.ok => st.ok
            /\ ~parts[i].isPlaceholder =>
                 /\ st.ok => (new.ok <=> StandsAt(text, st.at, lit))
                 /\ new.ok => new.at = st.at + Len(lit) /\ new.params = st.params
            /\ parts[i].isPlaceholder =>
                 /\ st.ok => (new.ok <=> canEnd(parts, text, i, st.at))
                 /\ new.ok =>
                      /\ new.at = to
                      /\ new.params = Copied(st.params, given(parts, text, i, st.at, to))
<1> DEFINE new == takePart(parts, text, st, i)
           lit == parts[i].value
           T == Len(text)
           E == ends(parts, text, i, st.at)
           to == First(E)
<1>1. lit \in Seq(Char) /\ Len(lit) \in Nat /\ T \in Nat /\ st.at \in Nat \ {0}
  BY OnePart DEF IsTaken
<1>2. parts[i].isPlaceholder \in BOOLEAN
  BY OnePart
<1>3. CASE ~st.ok
  <2>1. new = st
    BY <1>3 DEF takePart
  <2> HIDE DEF new
  <2> QED  BY <2>1, <1>1, <1>3 DEF new
<1>4. CASE st.ok /\ ~parts[i].isPlaceholder
  <2>1. st.at \in Occurrences(lit, text, st.at) <=> StandsAt(text, st.at, lit)
    <3> HIDE DEF lit
    <3> QED  BY <1>1, OccursWhere
  <2>2. CASE StandsAt(text, st.at, lit)
    <3>1. new = [st EXCEPT !.at = st.at + Len(lit)]
      BY <1>4, <2>1, <2>2 DEF takePart
    <3>2. new.ok = st.ok /\ new.at = st.at + Len(lit) /\ new.params = st.params /\ IsTaken(new)
      <4> HIDE DEF new, lit
      <4> QED  BY <3>1, <1>1 DEF IsTaken
    <3>3. st.at + Len(lit) - 1 <= T
      BY <2>2 DEF StandsAt
    <3>4. st.at <= st.at + Len(lit) /\ st.at + Len(lit) <= T + 1
      <4> HIDE DEF lit, T
      <4> QED  BY <3>3, <1>1
    <3> HIDE DEF new, lit
    <3> QED  BY <3>2, <3>4, <1>4, <2>2 DEF new, lit
  <2>3. CASE ~StandsAt(text, st.at, lit)
    <3>1. new = [st EXCEPT !.ok = FALSE]
      BY <1>4, <2>1, <2>3 DEF takePart
    <3>2. new.ok = FALSE /\ new.at = st.at /\ IsTaken(new)
      <4> HIDE DEF new
      <4> QED  BY <3>1, <1>1 DEF IsTaken
    <3> HIDE DEF new
    <3> QED  BY <3>2, <1>1, <1>4, <2>3 DEF new
  <2> QED  BY <2>2, <2>3
<1>5. CASE st.ok /\ parts[i].isPlaceholder
  <2>1. CASE E = {}
    <3>1. new = [st EXCEPT !.ok = FALSE]
      BY <1>5, <2>1 DEF takePart, ends
    <3>2. new.ok = FALSE /\ new.at = st.at /\ IsTaken(new)
      <4> HIDE DEF new
      <4> QED  BY <3>1, <1>1 DEF IsTaken
    <3> HIDE DEF new
    <3> QED  BY <3>2, <1>1, <1>5, <2>1 DEF new, canEnd
  <2>2. CASE E # {}
    <3> DEFINE p == Copied(st.params, given(parts, text, i, st.at, to))
    <3>1. new = [st EXCEPT !.at = to, !.params = p]
      BY <1>5, <2>2 DEF takePart, ends, given
    <3>2. to \in Nat \ {0} /\ st.at <= to /\ to <= T + 1
      BY <2>2, <1>1, EndsWithin
    <3>3. new.ok = st.ok /\ new.at = to /\ new.params = p /\ IsTaken(new)
      <4> HIDE DEF new, to, p
      <4> QED  BY <3>1, <3>2 DEF IsTaken
    <3> HIDE DEF new, to, p
    <3> QED  BY <3>2, <3>3, <1>5, <2>2 DEF new, to, p, canEnd
  <2> QED  BY <2>1, <2>2
<1> QED
  BY <1>2, <1>3, <1>4, <1>5

\* So for a placeholder alone.
LEMMA PlaceTaken ==
  ASSUME NEW Char, NEW parts, AreParts(parts, Char), NEW text \in Seq(Char),
         NEW i \in 1 .. Len(parts), NEW st, IsTaken(st), st.at <= Len(text) + 1,
         parts[i].isPlaceholder, st.ok,
         NEW new, new = takePart(parts, text, st, i),
         NEW E, E = ends(parts, text, i, st.at)
  PROVE  /\ new.ok <=> canEnd(parts, text, i, st.at)
         /\ new.ok => /\ new.at = First(E)
                      /\ new.params = Copied(st.params, given(parts, text, i, st.at, First(E)))
<1>1. new.ok <=> canEnd(parts, text, i, st.at)
  BY TakeStep
<1>2. ASSUME new.ok
      PROVE  /\ new.at = First(E)
             /\ new.params = Copied(st.params, given(parts, text, i, st.at, First(E)))
  BY <1>2, TakeStep
<1> QED
  BY <1>1, <1>2

\* A text stands somewhere if and only if its halves stand there in a row.
LEMMA StandsInARow ==
  ASSUME NEW Char, NEW text \in Seq(Char), NEW w \in Seq(Char), NEW u \in Seq(Char),
         NEW a \in Nat \ {0}
  PROVE  StandsAt(text, a, w \o u) <=>
           StandsAt(text, a, w) /\ StandsAt(text, a + Len(w), u)
<1> DEFINE W == Len(w)
           U == Len(u)
           wu == w \o u
           T == Len(text)
<1>1. W \in Nat /\ U \in Nat /\ T \in Nat /\ Len(wu) = W + U
  OBVIOUS
<1>2. \A k \in 1 .. W : wu[k] = w[k]
  <2>1. TAKE k \in 1 .. W
  <2> QED  BY <1>1
<1>3. \A k \in 1 .. U : wu[W + k] = u[k]
  <2>1. TAKE k \in 1 .. U
  <2>2. W + k \in 1 .. W + U /\ ~(W + k <= W) /\ W + k - W = k
    <3> HIDE DEF W, U
    <3> QED  BY <1>1
  <2> QED  BY <2>2, <1>1
<1> HIDE DEF wu
<1>4. ASSUME StandsAt(text, a, wu)
      PROVE  StandsAt(text, a, w) /\ StandsAt(text, a + W, u)
  <2>1. a + (W + U) - 1 <= T /\ \A k \in 1 .. W + U : text[a + k - 1] = wu[k]
    BY <1>1, <1>4 DEF StandsAt
  <2> HIDE DEF W, U, T
  <2>2. a + W - 1 <= T /\ (a + W) + U - 1 <= T
    BY <2>1, <1>1
  <2>3. \A k \in 1 .. W : text[a + k - 1] = w[k]
    BY <2>1, <1>1, <1>2
  <2>4. ASSUME NEW k \in 1 .. U PROVE text[(a + W) + k - 1] = u[k]
    <3>1. W + k \in 1 .. W + U /\ a + (W + k) - 1 = (a + W) + k - 1
      BY <1>1
    <3> QED  BY <3>1, <2>1, <1>3
  <2> QED  BY <2>2, <2>3, <2>4 DEF StandsAt, W, U, T
<1>5. ASSUME StandsAt(text, a, w), StandsAt(text, a + W, u)
      PROVE  StandsAt(text, a, wu)
  <2>1. (a + W) + U - 1 <= T /\ \A k \in 1 .. U : text[(a + W) + k - 1] = u[k]
    BY <1>5 DEF StandsAt
  <2>2. \A k \in 1 .. W : text[a + k - 1] = w[k]
    BY <1>5 DEF StandsAt
  <2> HIDE DEF W, U, T
  <2>3. a + (W + U) - 1 <= T
    BY <2>1, <1>1
  <2>4. ASSUME NEW k \in 1 .. W + U PROVE text[a + k - 1] = wu[k]
    <3>1. CASE k <= W
      BY <3>1, <1>1, <1>2, <2>2
    <3>2. CASE ~(k <= W)
      <4>1. k - W \in 1 .. U /\ (a + W) + (k - W) - 1 = a + k - 1 /\ W + (k - W) = k
        BY <3>2, <1>1
      <4> QED  BY <4>1, <1>3, <2>1
    <3> QED  BY <3>1, <3>2
  <2>5. a + Len(wu) - 1 <= Len(text) /\ \A k \in 1 .. Len(wu) : text[a + k - 1] = wu[k]
    BY <2>3, <2>4, <1>1 DEF T
  <2> QED  BY <2>5 DEF StandsAt
<1> QED
  BY <1>4, <1>5 DEF wu

\* A part of a text stands where it was taken.
LEMMA SubTextStands ==
  ASSUME NEW Char, NEW text \in Seq(Char), NEW a \in Nat \ {0}, NEW b \in Nat \ {0},
         a <= b, b <= Len(text) + 1
  PROVE  /\ SubSeq(text, a, b - 1) \in Seq(Char)
         /\ Len(SubSeq(text, a, b - 1)) = b - a
         /\ StandsAt(text, a, SubSeq(text, a, b - 1))
<1> DEFINE w == SubSeq(text, a, b - 1)
<1>1. w \in Seq(Char) /\ Len(w) = b - a /\ \A k \in 1 .. b - a : w[k] = text[a + k - 1]
  <2>1. (b - 1) - a + 1 = b - a /\ b - 1 <= Len(text) /\ b - 1 \in Nat
    OBVIOUS
  <2>2. CASE a <= b - 1
    BY <2>1, <2>2
  <2>3. CASE ~(a <= b - 1)
    BY <2>1, <2>3
  <2> QED  BY <2>2, <2>3
<1> HIDE DEF w
<1>2. a + Len(w) - 1 <= Len(text)
  BY <1>1
<1> QED
  BY <1>1, <1>2 DEF StandsAt, w

\* What stands at the beginning of a text and is as long is the text.
LEMMA WholeText ==
  ASSUME NEW Char, NEW text \in Seq(Char), NEW w \in Seq(Char), Len(w) = Len(text)
  PROVE  StandsAt(text, 1, w) <=> w = text
<1>1. Len(w) \in Nat /\ \A k \in 1 .. Len(w) : 1 + k - 1 = k
  OBVIOUS
<1>2. StandsAt(text, 1, w) <=> \A k \in 1 .. Len(w) : text[k] = w[k]
  BY <1>1 DEF StandsAt
<1>3. w = [k \in 1 .. Len(w) |-> w[k]] /\ text = [k \in 1 .. Len(w) |-> text[k]]
  OBVIOUS
<1> QED
  BY <1>2, <1>3

\* Taking part after part never leaves the text.
LEMMA Takings ==
  ASSUME NEW Char, NEW parts, AreParts(parts, Char), NEW text \in Seq(Char),
         NEW f, IsTaking(f, parts, text, Len(parts))
  PROVE  /\ f[0] = Untaken
         /\ \A n \in 1 .. Len(parts) : f[n] = takePart(parts, text, f[n - 1], n)
         /\ \A n \in 0 .. Len(parts) : IsTaken(f[n]) /\ f[n].at <= Len(text) + 1
<1> DEFINE N == Len(parts)
           Kept(n) == IsTaken(f[n]) /\ f[n].at <= Len(text) + 1
           S == {n \in Nat : n <= N => Kept(n)}
<1>1. N \in Nat
  BY DEF AreParts
<1>2. f[0] = Untaken
  BY <1>1 DEF IsTaking
<1>3. \A n \in 1 .. N : f[n] = takePart(parts, text, f[n - 1], n)
  <2>1. TAKE n \in 1 .. N
  <2>2. n \in 0 .. N /\ n # 0
    BY <1>1
  <2> QED  BY <2>2 DEF IsTaking
<1>4. 0 \in S
  <2>1. Len(text) \in Nat /\ 1 <= Len(text) + 1
    OBVIOUS
  <2>2. Kept(0)
    BY <2>1, <1>2 DEF Untaken, IsTaken
  <2> QED  BY <2>2
<1>5. ASSUME NEW k \in S PROVE k + 1 \in S
  <2> SUFFICES ASSUME k + 1 <= N PROVE Kept(k + 1)
    OBVIOUS
  <2>1. k \in Nat /\ k <= N /\ k + 1 \in 1 .. N /\ (k + 1) - 1 = k
    BY <1>1
  <2>2. Kept(k) /\ f[k + 1] = takePart(parts, text, f[k], k + 1)
    BY <2>1, <1>3
  <2>3. IsTaken(takePart(parts, text, f[k], k + 1))
        /\ takePart(parts, text, f[k], k + 1).at <= Len(text) + 1
    BY <2>1, <2>2, TakeStep
  <2> QED  BY <2>2, <2>3
<1>6. S = Nat
  <2> HIDE DEF S
  <2>1. S \in SUBSET Nat
    BY DEF S
  <2> QED  BY <2>1, <1>4, <1>5, Induction
<1>7. ASSUME NEW n \in 0 .. N PROVE Kept(n)
  <2>1. n \in Nat /\ n <= N /\ n \in S
    BY <1>1, <1>6
  <2> QED  BY <2>1
<1> QED
  BY <1>2, <1>3, <1>7

\* If all of them can be taken, each of them could.
LEMMA AllTaken ==
  ASSUME NEW Char, NEW parts, AreParts(parts, Char), NEW text \in Seq(Char),
         NEW f, IsTaking(f, parts, text, Len(parts)), f[Len(parts)].ok
  PROVE  \A n \in 0 .. Len(parts) : f[n].ok
<1> DEFINE N == Len(parts)
           S == {k \in Nat : k <= N => f[N - k].ok}
<1>1. N \in Nat
  BY DEF AreParts
<1>2. 0 \in S
  BY <1>1
<1>3. ASSUME NEW k \in S PROVE k + 1 \in S
  <2> SUFFICES ASSUME k + 1 <= N PROVE f[N - (k + 1)].ok
    OBVIOUS
  <2> DEFINE n == N - k
  <2>1. k \in Nat /\ k <= N /\ n \in 1 .. N /\ n - 1 = N - (k + 1) /\ n - 1 \in 0 .. N
    BY <1>1
  <2> HIDE DEF n
  <2>2. f[n].ok
    BY <2>1 DEF n
  <2>3. f[n] = takePart(parts, text, f[n - 1], n) /\ IsTaken(f[n - 1])
        /\ f[n - 1].at <= Len(text) + 1
    BY <2>1, Takings
  <2>4. f[n - 1].ok
    <3>1. takePart(parts, text, f[n - 1], n).ok => f[n - 1].ok
      BY <2>1, <2>3, TakeStep
    <3> QED  BY <3>1, <2>2, <2>3
  <2> QED  BY <2>1, <2>4
<1>4. S = Nat
  <2> HIDE DEF S
  <2>1. S \in SUBSET Nat
    BY DEF S
  <2> QED  BY <2>1, <1>2, <1>3, Induction
<1>5. ASSUME NEW n \in 0 .. N PROVE f[n].ok
  <2> DEFINE k == N - n
  <2>1. k \in Nat /\ k <= N /\ N - k = n
    BY <1>1
  <2> HIDE DEF k
  <2>2. k \in S
    <3> HIDE DEF S
    <3> QED  BY <2>1, <1>4
  <2> QED  BY <2>1, <2>2
<1> QED
  BY <1>5

PlacesOf(parts) == {i \in DOMAIN parts : parts[i].isPlaceholder}

\* What has been taken for the placeholders when f is the taking of all parts.
cut(parts, text, f) ==
    [i \in PlacesOf(parts) |-> SubSeq(text, f[i - 1].at, f[i].at - 1)]

\* The taking of all parts, which went well.
Succeeds(f, parts, text, Char) ==
    /\ AreParts(parts, Char) /\ text \in Seq(Char)
    /\ IsTaking(f, parts, text, Len(parts))
    /\ f[Len(parts)].ok

\* A part that has been taken is what stands between two places of the text.
LEMMA CutPiece ==
  ASSUME NEW Char, NEW parts, NEW text, NEW f, Succeeds(f, parts, text, Char),
         NEW i \in 1 .. Len(parts)
  PROVE  LET p == piece(parts, cut(parts, text, f), i)
         IN /\ f[i - 1].at \in Nat \ {0} /\ f[i].at \in Nat \ {0}
            /\ f[i - 1].at <= f[i].at /\ f[i].at <= Len(text) + 1
            /\ p \in Seq(Char) /\ StandsAt(text, f[i - 1].at, p)
            /\ f[i].at = f[i - 1].at + Len(p)
<1> DEFINE v == cut(parts, text, f)
           p == piece(parts, v, i)
           N == Len(parts)
<1> USE DEF Succeeds
<1>1. N \in Nat /\ DOMAIN parts = 1 .. N /\ i - 1 \in 0 .. N /\ i \in 0 .. N
  BY DEF AreParts
<1>2. f[i] = takePart(parts, text, f[i - 1], i) /\ f[i].ok /\ f[i - 1].ok
  BY <1>1, Takings, AllTaken
<1>3. IsTaken(f[i - 1]) /\ f[i - 1].at <= Len(text) + 1
  BY <1>1, Takings
<1>4. f[i - 1].at \in Nat \ {0} /\ f[i].at \in Nat \ {0}
      /\ f[i - 1].at <= f[i].at /\ f[i].at <= Len(text) + 1
  <2>1. /\ IsTaken(takePart(parts, text, f[i - 1], i))
        /\ f[i - 1].at <= takePart(parts, text, f[i - 1], i).at
        /\ takePart(parts, text, f[i - 1], i).at <= Len(text) + 1
    BY <1>3, TakeStep
  <2> QED  BY <2>1, <1>2, <1>3 DEF IsTaken
<1>5. CASE ~parts[i].isPlaceholder
  <2>1. p = parts[i].value
    BY <1>5 DEF piece
  <2>2. p \in Seq(Char)
    BY <2>1, OnePart
  <2>3. /\ f[i - 1].ok => (takePart(parts, text, f[i - 1], i).ok <=>
                             StandsAt(text, f[i - 1].at, parts[i].value))
        /\ takePart(parts, text, f[i - 1], i).ok =>
             takePart(parts, text, f[i - 1], i).at = f[i - 1].at + Len(parts[i].value)
    BY <1>3, <1>5, TakeStep
  <2>4. StandsAt(text, f[i - 1].at, p) /\ f[i].at = f[i - 1].at + Len(p)
    BY <2>1, <2>3, <1>2
  <2> HIDE DEF p
  <2> QED  BY <2>2, <2>4, <1>4 DEF p
<1>6. CASE parts[i].isPlaceholder
  <2>1. p = SubSeq(text, f[i - 1].at, f[i].at - 1)
    BY <1>1, <1>6 DEF piece, cut, PlacesOf
  <2>2. /\ p \in Seq(Char) /\ Len(p) = f[i].at - f[i - 1].at
        /\ StandsAt(text, f[i - 1].at, p)
    <3> DEFINE a == f[i - 1].at
               b == f[i].at
    <3>1. a \in Nat \ {0} /\ b \in Nat \ {0} /\ a <= b /\ b <= Len(text) + 1
          /\ text \in Seq(Char)
      BY <1>4
    <3> HIDE DEF a, b, p
    <3>2. /\ SubSeq(text, a, b - 1) \in Seq(Char)
          /\ Len(SubSeq(text, a, b - 1)) = b - a
          /\ StandsAt(text, a, SubSeq(text, a, b - 1))
      BY <3>1, SubTextStands
    <3> QED  BY <2>1, <3>2 DEF a, b
  <2>3. f[i].at = f[i - 1].at + Len(p)
    <3> HIDE DEF p
    <3> QED  BY <2>2, <1>4
  <2> HIDE DEF p
  <2> QED  BY <2>2, <2>3, <1>4 DEF p
<1> QED
  BY <1>5, <1>6, OnePart

\* One after another, what has been taken and the literals are the text.
LEMMA CutGivesText ==
  ASSUME NEW Char, NEW parts, NEW text, NEW f, Succeeds(f, parts, text, Char),
         f[Len(parts)].at = Len(text) + 1
  PROVE  rendered(parts, cut(parts, text, f)) = text
<1> DEFINE v == cut(parts, text, f)
           N == Len(parts)
           T == Len(text)
<1>1. N \in Nat /\ T \in Nat
  BY DEF Succeeds, AreParts
<1>2. PICK r : IsRendering(r, parts, v, N) /\ rendered(parts, v) = r[N]
  BY <1>1, RenderingRun
<1> HIDE DEF v
<1> DEFINE Good(n) == /\ r[n] \in Seq(Char) /\ Len(r[n]) = f[n].at - 1
                      /\ StandsAt(text, 1, r[n])
           S == {n \in Nat : n <= N => Good(n)}
<1>3. 0 \in S
  <2>1. r[0] = <<>> /\ f[0].at = 1
    BY <1>1, <1>2, Takings DEF IsRendering, NoText, Untaken, Succeeds
  <2>2. <<>> \in Seq(Char) /\ Len(<<>>) = 0 /\ 1 + 0 - 1 <= T
    BY <1>1
  <2>3. StandsAt(text, 1, <<>>)
    BY <2>2 DEF StandsAt
  <2>4. 0 = 1 - 1
    OBVIOUS
  <2>5. Good(0)
    BY <2>1, <2>2, <2>3, <2>4
  <2> HIDE DEF Good
  <2> QED  BY <2>5
<1>4. ASSUME NEW k \in S PROVE k + 1 \in S
  <2> SUFFICES ASSUME k + 1 <= N PROVE Good(k + 1)
    OBVIOUS
  <2> DEFINE n == k + 1
             p == piece(parts, v, n)
  <2>1. k \in Nat /\ k <= N /\ n \in 1 .. N /\ n - 1 = k /\ n \in 0 .. N /\ n # 0
    BY <1>1
  <2>2. Good(k)
    BY <2>1
  <2> HIDE DEF n, Good
  <2>3. r[n] = r[k] \o p
    BY <1>2, <2>1 DEF IsRendering
  <2>4. /\ f[k].at \in Nat \ {0} /\ f[n].at = f[k].at + Len(p)
        /\ p \in Seq(Char) /\ StandsAt(text, f[k].at, p)
    <3>1. n \in 1 .. Len(parts)
      BY <2>1
    <3>2. LET q == piece(parts, cut(parts, text, f), n)
          IN /\ f[n - 1].at \in Nat \ {0} /\ f[n].at \in Nat \ {0}
             /\ f[n - 1].at <= f[n].at /\ f[n].at <= Len(text) + 1
             /\ q \in Seq(Char) /\ StandsAt(text, f[n - 1].at, q)
             /\ f[n].at = f[n - 1].at + Len(q)
      BY <3>1, CutPiece
    <3>3. piece(parts, cut(parts, text, f), n) = p
      BY DEF v
    <3> QED  BY <2>1, <3>2, <3>3
  <2> HIDE DEF p
  <2>5. r[k] \in Seq(Char) /\ Len(r[k]) = f[k].at - 1 /\ StandsAt(text, 1, r[k])
    BY <2>2 DEF Good
  <2>6. 1 + Len(r[k]) = f[k].at
    BY <2>4, <2>5
  <2>7. StandsAt(text, 1, r[k] \o p)
    <3>1. text \in Seq(Char) /\ 1 \in Nat \ {0}
      BY DEF Succeeds
    <3>2. StandsAt(text, 1 + Len(r[k]), p)
      BY <2>4, <2>6
    <3> QED  BY <2>4, <2>5, <3>1, <3>2, StandsInARow
  <2>8. r[k] \o p \in Seq(Char) /\ Len(r[k] \o p) = Len(r[k]) + Len(p) /\ Len(p) \in Nat
    BY <2>4, <2>5
  <2>9. Len(r[n]) = f[n].at - 1
    BY <2>3, <2>4, <2>5, <2>8
  <2> QED  BY <2>3, <2>7, <2>8, <2>9 DEF Good, n
<1>5. Good(N)
  <2> HIDE DEF Good
  <2>1. S = Nat
    <3> HIDE DEF S
    <3>1. S \in SUBSET Nat
      BY DEF S
    <3> QED  BY <3>1, <1>3, <1>4, Induction
  <2> QED  BY <2>1, <1>1
<1>6. Len(r[N]) = T
  BY <1>5, <1>1
<1>7. r[N] = text
  <2>1. text \in Seq(Char)
    BY DEF Succeeds
  <2> QED  BY <1>5, <1>6, <2>1, WholeText
<1> QED
  BY <1>2, <1>7 DEF v

\* No value that is taken reaches past the first place where its literal stands.
LEMMA CutIsShortest ==
  ASSUME NEW Char, NEW parts, NEW text, NEW f, Succeeds(f, parts, text, Char)
  PROVE  shortest(parts, cut(parts, text, f))
<1> DEFINE v == cut(parts, text, f)
           N == Len(parts)
<1>1. N \in Nat /\ DOMAIN parts = 1 .. N /\ AreParts(parts, Char) /\ text \in Seq(Char)
  BY DEF Succeeds, AreParts
<1> SUFFICES ASSUME NEW i \in 1 .. N - 1, parts[i].isPlaceholder
             PROVE  First(Occurrences(parts[i + 1].value, v[i] \o parts[i + 1].value, 1))
                      = Len(v[i]) + 1
  BY DEF shortest
<1> DEFINE lit == parts[i + 1].value
           a == f[i - 1].at
           to == f[i].at
<1>2. i \in 1 .. N /\ i + 1 \in 1 .. N /\ i # N /\ i - 1 \in 0 .. N /\ i \in 0 .. N
  <2> HIDE DEF N
  <2> QED  BY <1>1
<1>3. lit \in Seq(Char)
  BY <1>1, <1>2, OnePart
<1>4. piece(parts, v, i) = v[i]
  BY DEF piece
<1>5. /\ a \in Nat \ {0} /\ to = a + Len(v[i]) /\ to \in Nat \ {0}
      /\ v[i] \in Seq(Char) /\ StandsAt(text, a, v[i])
  <2> HIDE DEF v
  <2> QED  BY <1>2, <1>4, CutPiece DEF v
<1>6. IsTaken(f[i - 1]) /\ a <= Len(text) + 1 /\ f[i] = takePart(parts, text, f[i - 1], i)
      /\ f[i].ok /\ f[i - 1].ok
  BY <1>2, Takings, AllTaken DEF Succeeds
<1>7. /\ ends(parts, text, i, a) # {}
      /\ to = First(ends(parts, text, i, a))
  <2> DEFINE st == f[i - 1]
  <2>1. IsTaken(st) /\ st.at <= Len(text) + 1 /\ i \in 1 .. Len(parts)
    BY <1>2, <1>6
  <2> HIDE DEF st, v, lit
  <2> DEFINE new == takePart(parts, text, st, i)
             E == ends(parts, text, i, st.at)
  <2>2. new = f[i] /\ st.ok
    BY <1>6 DEF st
  <2>3. /\ new.ok <=> canEnd(parts, text, i, st.at)
        /\ new.ok => new.at = First(E)
    <3> HIDE DEF new, E
    <3>1. new = takePart(parts, text, st, i) /\ E = ends(parts, text, i, st.at)
      BY DEF new, E
    <3> QED  BY <1>1, <2>1, <2>2, <3>1, PlaceTaken
  <2>4. E # {}
    BY <2>2, <2>3, <1>6 DEF canEnd
  <2> HIDE DEF new, E
  <2>5. E # {} /\ f[i].at = First(E)
    BY <2>2, <2>3, <2>4, <1>6
  <2> QED  BY <2>5 DEF E, st
<1>8. ends(parts, text, i, a) = Occurrences(lit, text, a)
  BY <1>2 DEF ends
<1>9. to \in Occurrences(lit, text, a)
  <2>1. a \in Nat \ {0} /\ a <= Len(text) + 1 /\ i \in 1 .. Len(parts)
    BY <1>2, <1>5, <1>6
  <2> HIDE DEF a, v, lit, to
  <2>2. First(ends(parts, text, i, a)) \in ends(parts, text, i, a)
    BY <2>1, <1>1, <1>7, EndsWithin
  <2> QED  BY <2>2, <1>7, <1>8
<1> HIDE DEF lit, to, a
<1>10. StandsAt(text, to, lit)
  BY <1>1, <1>3, <1>5, <1>9, OccursWhere
<1> DEFINE w == v[i]
<1> HIDE DEF w, v
<1>11. w \in Seq(Char) /\ StandsAt(text, a, w) /\ to = a + Len(w)
  BY <1>5 DEF w
<1>12. StandsAt(text, a, w \o lit)
  BY <1>1, <1>3, <1>5, <1>10, <1>11, StandsInARow
<1>13. First(Occurrences(lit, w \o lit, 1)) = Len(w) + 1
  <2>1. First(Occurrences(lit, text, a)) = a + Len(w)
    BY <1>7, <1>8, <1>11
  <2>2. First(Occurrences(lit, w \o lit, 1)) = Len(w) + 1
          <=> First(Occurrences(lit, text, a)) = a + Len(w)
    BY <1>1, <1>3, <1>5, <1>11, <1>12, ShortestIsFirst
  <2> QED  BY <2>1, <2>2
<1> QED
  BY <1>13 DEF w, lit, v

\* What is taken is a part of the text.
LEMMA CutIsOfText ==
  ASSUME NEW Char, NEW parts, NEW text, NEW f, Succeeds(f, parts, text, Char)
  PROVE  cut(parts, text, f) \in [PlacesOf(parts) -> SubTexts(text)]
<1> DEFINE T == Len(text)
<1>1. T \in Nat /\ Len(parts) \in Nat /\ DOMAIN parts = 1 .. Len(parts)
  BY DEF Succeeds, AreParts
<1>2. ASSUME NEW i \in PlacesOf(parts)
      PROVE  SubSeq(text, f[i - 1].at, f[i].at - 1) \in SubTexts(text)
  <2> DEFINE a == f[i - 1].at
             b == f[i].at
  <2>1. i \in 1 .. Len(parts)
    BY <1>1 DEF PlacesOf
  <2>2. a \in Nat \ {0} /\ b \in Nat \ {0} /\ a <= b /\ b <= T + 1
    BY <2>1, CutPiece
  <2> HIDE DEF a, b, T
  <2>3. a \in 1 .. T + 1 /\ b - 1 \in 0 .. T
    BY <2>2, <1>1
  <2>4. SubSeq(text, a, b - 1) \in SubTexts(text)
    BY <2>3 DEF SubTexts, T
  <2> QED  BY <2>4 DEF a, b
<1> QED
  BY <1>2 DEF cut

\* Every name has the value of the last placeholder, among the first n parts, that
\* has the name.
HasParams(params, parts, v, n) ==
    LET upTo == {i \in PlacesOf(parts) : i <= n}
    IN /\ DOMAIN params = {parts[i].value : i \in upTo}
       /\ \A i \in upTo : \/ params[parts[i].value] = v[i]
                          \/ \E j \in upTo : j > i /\ parts[j].value = parts[i].value

\* A placeholder more that is put there.
LEMMA ParamsGoOn ==
  ASSUME NEW parts, NEW v, NEW params, NEW n \in Nat, PlacesOf(parts) \subseteq Nat,
         HasParams(params, parts, v, n), n + 1 \in PlacesOf(parts),
         NEW new, new = Copied(params, [name \in {parts[n + 1].value} |-> v[n + 1]])
  PROVE  HasParams(new, parts, v, n + 1)
<1> DEFINE i == n + 1
           name == parts[i].value
           upTo == {k \in PlacesOf(parts) : k <= n}
           then == {k \in PlacesOf(parts) : k <= i}
<1>1. i \in Nat /\ then = upTo \cup {i} /\ i \notin upTo /\ \A k \in upTo : i > k
  BY DEF PlacesOf
<1>2. /\ DOMAIN new = DOMAIN params \cup {name} /\ new[name] = v[i]
      /\ \A k \in DOMAIN params : k # name => new[k] = params[k]
  BY DEF Copied
<1>3. /\ DOMAIN params = {parts[k].value : k \in upTo}
      /\ \A k \in upTo : \/ params[parts[k].value] = v[k]
                         \/ \E j \in upTo : j > k /\ parts[j].value = parts[k].value
  BY DEF HasParams
<1> HIDE DEF upTo, then, i
<1>4. DOMAIN new = {parts[k].value : k \in then}
  BY <1>1, <1>2, <1>3
<1>5. ASSUME NEW k \in then
      PROVE  \/ new[parts[k].value] = v[k]
             \/ \E j \in then : j > k /\ parts[j].value = parts[k].value
  <2>1. CASE k = i
    BY <2>1, <1>2
  <2>2. CASE k # i /\ parts[k].value = name
    <3>1. i \in then /\ i > k
      BY <1>1, <2>2
    <3> QED  BY <2>2, <3>1
  <2>3. CASE k # i /\ parts[k].value # name
    <3>1. k \in upTo /\ parts[k].value \in DOMAIN params
      BY <1>1, <1>3, <2>3
    <3>2. new[parts[k].value] = params[parts[k].value]
      BY <1>2, <2>3, <3>1
    <3>3. upTo \subseteq then
      BY <1>1
    <3> QED  BY <1>3, <3>1, <3>2, <3>3
  <2> QED  BY <2>1, <2>2, <2>3
<1> QED
  BY <1>4, <1>5 DEF HasParams, then, i

\* So the names of a text that is taken have the values that were taken for them.
LEMMA CutIsParams ==
  ASSUME NEW Char, NEW parts, NEW text, NEW f, Succeeds(f, parts, text, Char)
  PROVE  HasParams(f[Len(parts)].params, parts, cut(parts, text, f), Len(parts))
<1> DEFINE v == cut(parts, text, f)
           N == Len(parts)
           S == {n \in Nat : n <= N => HasParams(f[n].params, parts, v, n)}
<1>1. N \in Nat /\ DOMAIN parts = 1 .. N /\ AreParts(parts, Char) /\ text \in Seq(Char)
  BY DEF Succeeds, AreParts
<1>2. PlacesOf(parts) \subseteq 1 .. N /\ PlacesOf(parts) \subseteq Nat
  BY <1>1 DEF PlacesOf
<1>3. 0 \in S
  <2>1. f[0].params = <<>>
    BY Takings DEF Succeeds, Untaken
  <2>2. {i \in PlacesOf(parts) : i <= 0} = {}
    <3> HIDE DEF N
    <3> QED  BY <1>1, <1>2
  <2>3. HasParams(<<>>, parts, v, 0)
    <3> HIDE DEF v
    <3> QED  BY <2>2 DEF HasParams
  <2> HIDE DEF v
  <2> QED  BY <2>1, <2>3
<1>4. ASSUME NEW k \in S PROVE k + 1 \in S
  <2> DEFINE n == k + 1
             st == f[k]
             new == f[n]
  <2> SUFFICES ASSUME n <= N PROVE HasParams(new.params, parts, v, n)
    OBVIOUS
  <2>1. k \in Nat /\ k <= N /\ n \in 1 .. N /\ n - 1 = k /\ k \in 0 .. N /\ n \in 0 .. N
    BY <1>1
  <2>2. HasParams(st.params, parts, v, k)
    BY <2>1
  <2>3. IsTaken(st) /\ st.at <= Len(text) + 1 /\ st.ok /\ new.ok
        /\ new = takePart(parts, text, st, n)
    BY <2>1, Takings, AllTaken DEF Succeeds
  <2>4. CASE ~parts[n].isPlaceholder
    <3>1. new.params = st.params
      <4> HIDE DEF n, st, new
      <4> QED  BY <1>1, <2>1, <2>3, <2>4, TakeStep
    <3>2. {i \in PlacesOf(parts) : i <= n} = {i \in PlacesOf(parts) : i <= k}
      <4>1. n \notin PlacesOf(parts)
        BY <2>4 DEF PlacesOf
      <4>2. \A i \in Nat : i # n => (i <= n <=> i <= k)
        BY <2>1
      <4> HIDE DEF n
      <4> QED  BY <1>2, <4>1, <4>2
    <3> HIDE DEF v, n, st, new
    <3> QED  BY <2>2, <3>1, <3>2 DEF HasParams
  <2>5. CASE parts[n].isPlaceholder
    <3> DEFINE E == ends(parts, text, n, st.at)
    <3>1. /\ new.at = First(E)
          /\ new.params = Copied(st.params, given(parts, text, n, st.at, First(E)))
      <4> HIDE DEF n, st, new
      <4>1. (new.ok <=> canEnd(parts, text, n, st.at))
            /\ (new.ok => /\ new.at = First(E)
                          /\ new.params = Copied(st.params, given(parts, text, n, st.at, First(E))))
        BY <1>1, <2>1, <2>3, <2>5, PlaceTaken
      <4> QED  BY <2>3, <4>1
    <3>2. n \in PlacesOf(parts)
      BY <1>1, <2>1, <2>5 DEF PlacesOf
    <3>3. v[n] = SubSeq(text, st.at, new.at - 1)
      BY <2>1, <3>2 DEF cut
    <3>4. given(parts, text, n, st.at, First(E)) = [name \in {parts[n].value} |-> v[n]]
      <4> HIDE DEF v, n, st, new, E
      <4> QED  BY <3>1, <3>3 DEF given
    <3>5. new.params = Copied(st.params, [name \in {parts[k + 1].value} |-> v[k + 1]])
      BY <3>1, <3>4
    <3> DEFINE p == new.params
               q == st.params
    <3> HIDE DEF v, st, new, E
    <3> QED  BY <1>2, <2>1, <2>2, <3>2, <3>5, ParamsGoOn
  <2> QED  BY <2>4, <2>5
<1>5. S = Nat
  <2> HIDE DEF S
  <2>1. S \in SUBSET Nat
    BY DEF S
  <2> QED  BY <2>1, <1>3, <1>4, Induction
<1>6. N \in S /\ N <= N
  <2> HIDE DEF S
  <2> QED  BY <1>1, <1>5
<1> QED
  BY <1>6

\* Values for the placeholders of a segment, from a text.
AreValues(v, parts, text, Char) ==
    /\ AreParts(parts, Char) /\ text \in Seq(Char)
    /\ v \in [PlacesOf(parts) -> SubTexts(text)]

\* What stands for one part of it.
LEMMA PieceIs ==
  ASSUME NEW Char, NEW parts, NEW text, NEW v, AreValues(v, parts, text, Char),
         NEW i \in 1 .. Len(parts)
  PROVE  /\ piece(parts, v, i) \in Seq(Char) /\ Len(piece(parts, v, i)) \in Nat
         /\ piece(parts, v, i) = IF i \in PlacesOf(parts) THEN v[i] ELSE parts[i].value
<1>1. AreParts(parts, Char) /\ DOMAIN parts = 1 .. Len(parts) /\ text \in Seq(Char)
  BY DEF AreValues, AreParts
<1>2. piece(parts, v, i) = IF i \in PlacesOf(parts) THEN v[i] ELSE parts[i].value
  BY <1>1 DEF piece, PlacesOf
<1>3. ASSUME NEW w \in SubTexts(text) PROVE w \in Seq(Char)
  <2>1. PICK a \in 1 .. Len(text) + 1 : \E b \in 0 .. Len(text) : w = SubSeq(text, a, b)
    BY DEF SubTexts
  <2>2. PICK b \in 0 .. Len(text) : w = SubSeq(text, a, b)
    BY <2>1
  <2>3. Len(text) \in Nat /\ a \in Nat \ {0} /\ b \in Nat /\ b <= Len(text)
    BY <1>1
  <2>4. CASE a <= b
    BY <1>1, <2>2, <2>3, <2>4
  <2>5. CASE ~(a <= b)
    <3>1. w = <<>>
      BY <1>1, <2>2, <2>3, <2>5
    <3> QED  BY <3>1
  <2> QED  BY <2>4, <2>5
<1>4. piece(parts, v, i) \in Seq(Char)
  <2>1. CASE i \in PlacesOf(parts)
    <3>1. v[i] \in SubTexts(text)
      BY <2>1 DEF AreValues
    <3> QED  BY <1>2, <1>3, <2>1, <3>1
  <2>2. CASE i \notin PlacesOf(parts)
    BY <1>1, <1>2, <2>2, OnePart
  <2> QED  BY <2>1, <2>2
<1> QED
  BY <1>2, <1>4

\* A text that the parts give with some values has each of them where those before
\* it end.
LEMMA PiecesStand ==
  ASSUME NEW Char, NEW parts, NEW text, NEW v, AreValues(v, parts, text, Char),
         NEW r, IsRendering(r, parts, v, Len(parts)), r[Len(parts)] = text
  PROVE  /\ Len(r[0]) = 0
         /\ \A n \in 0 .. Len(parts) : Len(r[n]) \in Nat
         /\ \A n \in 1 .. Len(parts) :
              /\ Len(r[n]) = Len(r[n - 1]) + Len(piece(parts, v, n))
              /\ StandsAt(text, Len(r[n - 1]) + 1, piece(parts, v, n))
<1> DEFINE N == Len(parts)
           R == {n \in Nat : n <= N => r[n] \in Seq(Char)}
           S == {k \in Nat : k <= N => StandsAt(text, 1, r[N - k])}
<1>1. N \in Nat /\ text \in Seq(Char)
  BY DEF AreValues, AreParts
<1>2. r[0] = <<>>
  BY <1>1 DEF IsRendering, NoText
<1>3. ASSUME NEW n \in 1 .. N
      PROVE  /\ r[n] = r[n - 1] \o piece(parts, v, n)
             /\ piece(parts, v, n) \in Seq(Char) /\ Len(piece(parts, v, n)) \in Nat
  <2>1. n \in 0 .. N /\ n # 0
    BY <1>1
  <2> QED  BY <2>1, PieceIs DEF IsRendering
<1>4. 0 \in R
  <2>1. <<>> \in Seq(Char)
    OBVIOUS
  <2> QED  BY <1>2, <2>1
<1>5. ASSUME NEW k \in R PROVE k + 1 \in R
  <2> SUFFICES ASSUME k + 1 <= N PROVE r[k + 1] \in Seq(Char)
    OBVIOUS
  <2> DEFINE n == k + 1
             p == piece(parts, v, n)
  <2>1. k \in Nat /\ k <= N /\ n \in 1 .. N /\ n - 1 = k
    BY <1>1
  <2>2. r[k] \in Seq(Char)
    BY <2>1
  <2>3. r[n] = r[k] \o p /\ p \in Seq(Char)
    <3> HIDE DEF n
    <3> QED  BY <1>3, <2>1
  <2> HIDE DEF p, n
  <2>4. r[n] \in Seq(Char)
    BY <2>2, <2>3
  <2> QED  BY <2>4 DEF n
<1>6. R = Nat
  <2> HIDE DEF R
  <2>1. R \in SUBSET Nat
    BY DEF R
  <2> QED  BY <2>1, <1>4, <1>5, Induction
<1>7. ASSUME NEW n \in 0 .. N PROVE r[n] \in Seq(Char) /\ Len(r[n]) \in Nat
  <2>1. n \in Nat /\ n <= N /\ n \in R
    BY <1>1, <1>6
  <2> QED  BY <2>1
<1>8. 0 \in S
  <2>1. N - 0 = N
    BY <1>1
  <2>2. StandsAt(text, 1, r[N])
    BY <1>1, WholeText
  <2> QED  BY <2>1, <2>2
<1>9. ASSUME NEW n \in 1 .. N, StandsAt(text, 1, r[n])
      PROVE  /\ StandsAt(text, 1, r[n - 1])
             /\ Len(r[n]) = Len(r[n - 1]) + Len(piece(parts, v, n))
             /\ StandsAt(text, Len(r[n - 1]) + 1, piece(parts, v, n))
  <2> DEFINE p == piece(parts, v, n)
             q == r[n - 1]
  <2>1. n - 1 \in 0 .. N
    BY <1>1
  <2>2. q \in Seq(Char) /\ Len(q) \in Nat
    BY <1>7, <2>1
  <2>3. p \in Seq(Char) /\ Len(p) \in Nat /\ r[n] = q \o p
    BY <1>3
  <2> HIDE DEF p, q
  <2>4. Len(q \o p) = Len(q) + Len(p)
    BY <2>2, <2>3
  <2>5. StandsAt(text, 1, q) /\ StandsAt(text, 1 + Len(q), p)
    <3>1. 1 \in Nat \ {0} /\ StandsAt(text, 1, q \o p)
      BY <1>9, <2>3
    <3> QED  BY <1>1, <2>2, <2>3, <3>1, StandsInARow
  <2>6. 1 + Len(q) = Len(q) + 1
    BY <2>2
  <2> QED  BY <2>3, <2>4, <2>5, <2>6 DEF p, q
<1>10. ASSUME NEW k \in S PROVE k + 1 \in S
  <2> SUFFICES ASSUME k + 1 <= N PROVE StandsAt(text, 1, r[N - (k + 1)])
    OBVIOUS
  <2> DEFINE n == N - k
  <2>1. k \in Nat /\ k <= N /\ n \in 1 .. N /\ n - 1 = N - (k + 1)
    BY <1>1
  <2>2. StandsAt(text, 1, r[n])
    BY <2>1
  <2> HIDE DEF n
  <2>3. StandsAt(text, 1, r[n - 1])
    BY <1>9, <2>1, <2>2
  <2> QED  BY <2>1, <2>3
<1>11. S = Nat
  <2> HIDE DEF S
  <2>1. S \in SUBSET Nat
    BY DEF S
  <2> QED  BY <2>1, <1>8, <1>10, Induction
<1>12. ASSUME NEW n \in 1 .. N PROVE StandsAt(text, 1, r[n])
  <2> DEFINE k == N - n
  <2>1. k \in Nat /\ k <= N /\ N - k = n
    BY <1>1
  <2> HIDE DEF k
  <2>2. k \in S
    <3> HIDE DEF S
    <3> QED  BY <2>1, <1>11
  <2> QED  BY <2>1, <2>2
<1>13. Len(r[0]) = 0
  BY <1>2
<1> QED
  BY <1>7, <1>9, <1>12, <1>13

\* If some values give the text and are as short as they can be, the text is taken.
LEMMA ValuesAreTaken ==
  ASSUME NEW Char, NEW parts, NEW text, NEW v, AreValues(v, parts, text, Char),
         rendered(parts, v) = text, shortest(parts, v),
         NEW f, IsTaking(f, parts, text, Len(parts))
  PROVE  f[Len(parts)].ok /\ f[Len(parts)].at = Len(text) + 1
<1> DEFINE N == Len(parts)
           T == Len(text)
<1>1. N \in Nat /\ T \in Nat /\ AreParts(parts, Char) /\ text \in Seq(Char)
      /\ DOMAIN parts = 1 .. N
  BY DEF AreValues, AreParts
<1>2. PICK r : IsRendering(r, parts, v, N) /\ rendered(parts, v) = r[N]
  BY <1>1, RenderingRun
<1>3. /\ Len(r[0]) = 0
      /\ \A n \in 0 .. N : Len(r[n]) \in Nat
      /\ \A n \in 1 .. N : /\ Len(r[n]) = Len(r[n - 1]) + Len(piece(parts, v, n))
                           /\ StandsAt(text, Len(r[n - 1]) + 1, piece(parts, v, n))
  BY <1>2, PiecesStand
<1> DEFINE Good(n) == f[n].ok /\ f[n].at = Len(r[n]) + 1
           S == {n \in Nat : n <= N => Good(n)}
<1>4. 0 \in S
  <2>1. f[0].ok /\ f[0].at = 1
    BY <1>1, Takings DEF Untaken
  <2> QED  BY <2>1, <1>3
<1>5. ASSUME NEW k \in S PROVE k + 1 \in S
  <2> DEFINE n == k + 1
             p == piece(parts, v, n)
             st == f[k]
             new == f[n]
             a == Len(r[k]) + 1
  <2> SUFFICES ASSUME n <= N PROVE Good(n)
    OBVIOUS
  <2>1. k \in Nat /\ k <= N /\ n \in 1 .. N /\ n - 1 = k /\ k \in 0 .. N /\ n \in 0 .. N
    BY <1>1
  <2>2. st.ok /\ st.at = a
    BY <2>1
  <2>3. IsTaken(st) /\ st.at <= T + 1 /\ new = takePart(parts, text, st, n)
    BY <1>1, <2>1, Takings
  <2>4. p \in Seq(Char) /\ Len(p) \in Nat
        /\ p = IF n \in PlacesOf(parts) THEN v[n] ELSE parts[n].value
    <3> HIDE DEF n
    <3> QED  BY <2>1, PieceIs
  <2>5. Len(r[n]) = Len(r[k]) + Len(p) /\ StandsAt(text, a, p) /\ Len(r[k]) \in Nat
        /\ a \in Nat \ {0} /\ Len(r[n]) \in Nat
    <3> HIDE DEF n, p
    <3>1. Len(r[k]) \in Nat /\ Len(r[n]) \in Nat
      BY <1>3, <2>1
    <3>2. /\ Len(r[n]) = Len(r[n - 1]) + Len(p)
          /\ StandsAt(text, Len(r[n - 1]) + 1, p)
      BY <1>3, <2>1 DEF p
    <3>3. Len(r[k]) + 1 \in Nat \ {0}
      BY <3>1
    <3> QED  BY <2>1, <3>1, <3>2, <3>3
  <2>6. Len(r[n]) + 1 = a + Len(p)
    <3>1. Len(r[k]) \in Nat /\ Len(p) \in Nat /\ Len(r[n]) = Len(r[k]) + Len(p)
      BY <2>4, <2>5
    <3> HIDE DEF n, p
    <3> QED  BY <3>1
  <2>7. n \in PlacesOf(parts) <=> parts[n].isPlaceholder
    BY <1>1, <2>1 DEF PlacesOf
  <2> SUFFICES new.ok /\ new.at = a + Len(p)
    BY <2>6
  <2>8. CASE ~parts[n].isPlaceholder
    <3>1. p = parts[n].value
      BY <2>4, <2>7, <2>8
    <3> HIDE DEF n, p, st, new, a
    <3>2. /\ new.ok <=> StandsAt(text, a, p)
          /\ new.ok => new.at = a + Len(p)
      BY <1>1, <2>1, <2>2, <2>3, <2>8, <3>1, TakeStep
    <3> QED  BY <3>2, <2>5
  <2>9. CASE parts[n].isPlaceholder
    <3> DEFINE E == ends(parts, text, n, a)
    <3> HIDE DEF n, st, new
    <3>1. (new.ok <=> canEnd(parts, text, n, a)) /\ (new.ok => new.at = First(E))
      <4> HIDE DEF a
      <4>1. (new.ok <=> canEnd(parts, text, n, st.at))
            /\ (new.ok => new.at = First(ends(parts, text, n, st.at)))
        BY <1>1, <2>1, <2>2, <2>3, <2>9, PlaceTaken
      <4> QED  BY <4>1, <2>2
    <3>2. E # {} /\ First(E) = a + Len(p)
      <4>1. CASE n = N
        <5>1. a + Len(p) = T + 1
          BY <1>2, <2>6, <4>1
        <5>2. E = {T + 1}
          BY <4>1 DEF ends
        <5>3. First({T + 1}) \in {T + 1}
          <6>1. {T + 1} \in SUBSET Nat /\ {T + 1} # {}
            BY <1>1
          <6> HIDE DEF T
          <6> QED  BY <6>1, FirstIsLeast
        <5> QED  BY <5>1, <5>2, <5>3
      <4>2. CASE n # N
        <5> DEFINE lit == parts[n + 1].value
        <5>1. n + 1 \in 1 .. N /\ n \in 1 .. N - 1 /\ (n + 1) - 1 = n
          <6> HIDE DEF N
          <6> QED  BY <2>1, <1>1, <4>2
        <5>2. ~parts[n + 1].isPlaceholder /\ lit \in Seq(Char)
          BY <1>1, <2>9, <5>1, OnePart DEF AreParts
        <5>3. piece(parts, v, n + 1) = lit
          BY <5>2 DEF piece
        <5>4. StandsAt(text, Len(r[n]) + 1, lit)
          BY <1>3, <5>1, <5>3
        <5>5. E = Occurrences(lit, text, a)
          BY <4>2 DEF ends
        <5>6. p = v[n]
          BY <2>4, <2>7, <2>9
        <5>7. First(Occurrences(lit, p \o lit, 1)) = Len(p) + 1
          BY <2>9, <5>1, <5>6 DEF shortest
        <5> HIDE DEF p, lit, a, E
        <5>8. StandsAt(text, a, p \o lit)
          BY <1>1, <2>4, <2>5, <2>6, <5>2, <5>4, StandsInARow
        <5>9. a \in Nat \ {0} /\ p \in Seq(Char) /\ lit \in Seq(Char) /\ text \in Seq(Char)
          BY <1>1, <2>4, <2>5, <5>2 DEF AreValues
        <5>10. Occurrences(lit, text, a) # {}
          BY <5>8, <5>9, ShortestIsFirst
        <5>11. First(Occurrences(lit, p \o lit, 1)) = Len(p) + 1
                 <=> First(Occurrences(lit, text, a)) = a + Len(p)
          BY <5>8, <5>9, ShortestIsFirst
        <5> QED  BY <5>5, <5>7, <5>10, <5>11
      <4> QED  BY <4>1, <4>2
    <3>3. canEnd(parts, text, n, a)
      BY <3>2 DEF canEnd
    <3> QED  BY <3>1, <3>2, <3>3
  <2>10. parts[n].isPlaceholder \in BOOLEAN
    <3> HIDE DEF n
    <3> QED  BY <1>1, <2>1, OnePart
  <2> QED  BY <2>8, <2>9, <2>10
<1>6. S = Nat
  <2> HIDE DEF S
  <2>1. S \in SUBSET Nat
    BY DEF S
  <2> QED  BY <2>1, <1>4, <1>5, Induction
<1>7. Good(N)
  <2> HIDE DEF Good
  <2>1. N \in S /\ N <= N
    <3> HIDE DEF S
    <3> QED  BY <1>1, <1>6
  <2> QED  BY <2>1
<1> QED
  BY <1>2, <1>7

\* A text is extracted from exactly when values that are as short as they can be give
\* it, and to the names it yields such values.
LEMMA Extracted ==
  ASSUME NEW Char, NEW parts, AreParts(parts, Char), NEW text \in Seq(Char)
  PROVE  LET ex == extractParams(parts, text)
             values == {v \in [PlacesOf(parts) -> SubTexts(text)] :
                           rendered(parts, v) = text /\ shortest(parts, v)}
         IN /\ ex.ok <=> values # {}
            /\ ex.ok => \E v \in values : HasParams(ex.params, parts, v, Len(parts))
<1> DEFINE N == Len(parts)
           ex == extractParams(parts, text)
           values == {v \in [PlacesOf(parts) -> SubTexts(text)] :
                         rendered(parts, v) = text /\ shortest(parts, v)}
<1>1. N \in Nat
  BY DEF AreParts
<1>2. PICK f : IsTaking(f, parts, text, N) /\ taken(parts, text) = f[N]
  BY <1>1, TakingRun
<1>3. (ex.ok <=> f[N].ok /\ f[N].at = Len(text) + 1) /\ ex.params = f[N].params
  BY <1>2 DEF extractParams
<1>4. ASSUME ex.ok
      PROVE  \E v \in values : HasParams(ex.params, parts, v, N)
  <2> DEFINE v == cut(parts, text, f)
  <2>1. Succeeds(f, parts, text, Char) /\ f[N].at = Len(text) + 1
    BY <1>2, <1>3, <1>4 DEF Succeeds
  <2> HIDE DEF v
  <2>2. /\ v \in [PlacesOf(parts) -> SubTexts(text)]
        /\ rendered(parts, v) = text /\ shortest(parts, v)
        /\ HasParams(f[N].params, parts, v, N)
    BY <2>1, CutIsOfText, CutGivesText, CutIsShortest, CutIsParams DEF v
  <2> QED  BY <2>2, <1>3
<1>5. ASSUME NEW v \in values PROVE ex.ok
  <2>1. AreValues(v, parts, text, Char) /\ rendered(parts, v) = text /\ shortest(parts, v)
    BY DEF AreValues
  <2>2. f[N].ok /\ f[N].at = Len(text) + 1
    BY <2>1, <1>2, ValuesAreTaken
  <2> QED  BY <2>2, <1>3
<1> HIDE DEF ex, values
<1>6. ex.ok => values # {}
  BY <1>4
<1>7. values # {} => ex.ok
  BY <1>5
<1> QED
  BY <1>4, <1>6, <1>7 DEF ex, values

HasBraces(seg) == \E c \in {"{", "}"} : Contains(seg, c)

\* f is what parsePathParams computes over a path of one segment.
IsResult(f, text, seg) ==
    f = [i \in 0 .. Len(<<seg>>) |->
            IF i = 0 THEN <<>>
            ELSE IF \A c \in {"{", "}"} : ~Contains(<<seg>>[i], c) THEN f[i - 1]
            ELSE Copied(f[i - 1], extractParams(parsePlaceholderSegment(<<seg>>[i]).parts,
                                                <<text>>[i]).params)]

\* A path of one segment that has placeholders is extracted from as that segment is.
LEMMA OneSegment ==
  ASSUME NEW text, NEW seg, HasBraces(seg), parsePlaceholderSegment(seg).ok
  PROVE  LET got == parsePathParams(<<text>>, <<seg>>)
             ex == extractParams(parsePlaceholderSegment(seg).parts, text)
         IN (got.ok <=> ex.ok) /\ (ex.ok => got.params = Copied(<<>>, ex.params))
<1> DEFINE got == parsePathParams(<<text>>, <<seg>>)
           ex == extractParams(parsePlaceholderSegment(seg).parts, text)
           f == [i \in 0 .. 1 |-> IF i = 0 THEN <<>> ELSE Copied(<<>>, ex.params)]
           g == CHOOSE h : IsResult(h, text, seg)
<1>1. /\ Len(<<seg>>) = 1 /\ Len(<<text>>) = 1 /\ DOMAIN <<seg>> = {1}
      /\ <<seg>>[1] = seg /\ <<text>>[1] = text
  OBVIOUS
<1>2. ~\A c \in {"{", "}"} : ~Contains(seg, c)
  BY DEF HasBraces
<1>3. \A h : IsResult(h, text, seg) <=>
             h = [i \in 0 .. 1 |-> IF i = 0 THEN <<>> ELSE Copied(h[i - 1], ex.params)]
  <2>1. TAKE h
  <2> DEFINE A(i) == IF i = 0 THEN <<>>
                     ELSE IF \A c \in {"{", "}"} : ~Contains(<<seg>>[i], c) THEN h[i - 1]
                     ELSE Copied(h[i - 1],
                                 extractParams(parsePlaceholderSegment(<<seg>>[i]).parts,
                                               <<text>>[i]).params)
             B(i) == IF i = 0 THEN <<>> ELSE Copied(h[i - 1], ex.params)
  <2>2. ASSUME NEW i \in 0 .. 1 PROVE A(i) = B(i)
    <3>1. i = 0 \/ i = 1
      OBVIOUS
    <3> QED  BY <3>1, <1>1, <1>2
  <2>3. IsResult(h, text, seg) <=> h = [i \in 0 .. Len(<<seg>>) |-> A(i)]
    BY DEF IsResult
  <2> HIDE DEF A
  <2>4. IsResult(h, text, seg) <=> h = [i \in 0 .. 1 |-> A(i)]
    BY <1>1, <2>3
  <2>5. IsResult(h, text, seg) <=> h = [i \in 0 .. 1 |-> B(i)]
    <3> HIDE DEF B
    <3> QED  BY <2>2, <2>4
  <2> QED  BY <2>5
<1>4. IsResult(f, text, seg)
  <2>1. f = [i \in 0 .. 1 |-> IF i = 0 THEN <<>> ELSE Copied(f[i - 1], ex.params)]
    <3> HIDE DEF ex
    <3>1. ASSUME NEW i \in 0 .. 1
          PROVE  f[i] = IF i = 0 THEN <<>> ELSE Copied(f[i - 1], ex.params)
      <4>1. (i = 0 \/ i = 1) /\ 1 - 1 = 0
        OBVIOUS
      <4> QED  BY <4>1
    <3>2. f = [i \in 0 .. 1 |-> f[i]]
      OBVIOUS
    <3> HIDE DEF f
    <3> QED  BY <3>1, <3>2
  <2> HIDE DEF f
  <2> QED  BY <1>3, <2>1
<1>5. IsResult(g, text, seg)
  <2> HIDE DEF f
  <2> QED  BY <1>4
<1>6. g[1] = Copied(<<>>, ex.params)
  <2> HIDE DEF g, ex
  <2>1. g = [i \in 0 .. 1 |-> IF i = 0 THEN <<>> ELSE Copied(g[i - 1], ex.params)]
    BY <1>3, <1>5
  <2>2. 0 \in 0 .. 1 /\ 1 \in 0 .. 1 /\ 1 - 1 = 0 /\ 1 # 0
    OBVIOUS
  <2>3. g[0] = <<>>
    BY <2>1, <2>2
  <2> QED  BY <2>1, <2>2, <2>3
<1>7. CASE ex.ok
  <2>1. got = [ok |-> TRUE, params |-> g[1]]
    <3> HIDE DEF g
    <3>1. got = [ok |-> TRUE, params |-> (CHOOSE h : IsResult(h, text, seg))[1]]
      BY <1>1, <1>2, <1>7 DEF parsePathParams, IsResult
    <3> QED  BY <3>1 DEF g
  <2> HIDE DEF got, g, ex
  <2> QED  BY <2>1, <1>6, <1>7 DEF got, ex
<1>8. CASE ~ex.ok
  <2>1. got = [ok |-> FALSE, params |-> <<>>]
    BY <1>1, <1>2, <1>8 DEF parsePathParams
  <2> HIDE DEF got, ex
  <2> QED  BY <2>1, <1>8 DEF got, ex
<1> QED
  BY <1>7, <1>8

\* A segment is extracted from a text exactly when some values of its names, as short
\* as the literals behind them allow, give the text, and those are what a request gets.
THEOREM ExtractIsInverse == Spec => []ExtractInverts
<1>1. ASSUME InputInv PROVE ExtractInverts
  <2> DEFINE parsed == parsePlaceholderSegment(input.segment)
             parts == parsed.parts
             text == input.text
             seg == input.segment
             places == {i \in DOMAIN parts : parts[i].isPlaceholder}
             got == parsePathParams(<<input.text>>, <<input.segment>>)
             ex == extractParams(parts, text)
             values == {v \in [places -> SubTexts(input.text)] :
                           rendered(parts, v) = input.text /\ shortest(parts, v)}
             Char == Range(seg) \cup Range(text)
             N == Len(parts)
  <2> SUFFICES ASSUME input.of = "segment", parsed.ok, places # {}
               PROVE  /\ got.ok <=> values # {}
                      /\ got.ok => \E v \in values : \A i \in places :
                           \/ got.params[parts[i].value] = v[i]
                           \/ \E j \in places : j > i /\ parts[j].value = parts[i].value
    BY DEF ExtractInverts
  <2>1. seg \in Seq(Range(seg)) /\ text \in Seq(Range(text))
    BY <1>1, WhoseInput, SegmentInputsAssumption
  <2>2. seg \in Seq(Char) /\ text \in Seq(Char)
    <3> DEFINE A == Range(seg)
               B == Range(text)
               s == seg
               t == text
    <3>1. s \in Seq(A) /\ t \in Seq(B) /\ Char = A \cup B
      BY <2>1
    <3> HIDE DEF A, B, s, t, Char
    <3>2. s \in Seq(Char) /\ t \in Seq(Char)
      BY <3>1
    <3> QED  BY <3>2 DEF s, t
  <2> HIDE DEF Char
  <2>3. /\ parts \in Seq(Part(Char))
        /\ \A i \in 1 .. Len(parts) - 1 :
             ~(parts[i].isPlaceholder /\ parts[i + 1].isPlaceholder)
        /\ NoBraces(seg) => places = {}
    BY <2>2, SegmentParts
  <2>4. AreParts(parts, Char)
    BY <2>3 DEF AreParts
  <2>5. HasBraces(seg)
    <3>1. ~NoBraces(seg)
      BY <2>3
    <3> QED  BY <3>1 DEF NoBraces, HasBraces, Contains
  <2>6. /\ got.ok <=> ex.ok
        /\ ex.ok => got.params = Copied(<<>>, ex.params)
    BY <2>5, OneSegment
  <2>7. N \in Nat /\ places = PlacesOf(parts) /\ places \subseteq 1 .. N
    BY <2>4 DEF AreParts, PlacesOf
  <2>8. /\ ex.ok <=> values # {}
        /\ ex.ok => \E v \in values : HasParams(ex.params, parts, v, N)
    BY <2>2, <2>4, Extracted DEF PlacesOf
  <2>9. ASSUME ex.ok
        PROVE  \E v \in values : \A i \in places :
                 \/ got.params[parts[i].value] = v[i]
                 \/ \E j \in places : j > i /\ parts[j].value = parts[i].value
    <3>1. PICK v \in values : HasParams(ex.params, parts, v, N)
      BY <2>8, <2>9
    <3>2. got.params = Copied(<<>>, ex.params)
      BY <2>6, <2>9
    <3> HIDE DEF got, ex, values, parts, N
    <3>3. {i \in PlacesOf(parts) : i <= N} = places
      BY <2>7
    <3> HIDE DEF places
    <3>4. /\ DOMAIN ex.params = {parts[i].value : i \in places}
          /\ \A i \in places : \/ ex.params[parts[i].value] = v[i]
                               \/ \E j \in places : j > i /\ parts[j].value = parts[i].value
      BY <3>1, <3>3 DEF HasParams
    <3>5. \A name \in DOMAIN ex.params : got.params[name] = ex.params[name]
      BY <3>2 DEF Copied
    <3> QED  BY <3>4, <3>5
  <2> HIDE DEF got, ex, values
  <2> QED  BY <2>6, <2>8, <2>9
<1> QED
  BY <1>1, InputInvariant, PTL

=============================================================================
