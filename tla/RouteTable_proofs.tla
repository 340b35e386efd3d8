--------------------------- MODULE RouteTable_proofs ---------------------------
(***************************************************************************)
(* Proofs about RouteTable, for any goroutines, routes, requests and       *)
(* patterns: its types, that the map and the list agree, what a request is *)
(* served from a list nobody removes from, and that the list implements    *)
(* RouteOrder: what a removal does between finding the route and           *)
(* shortening the list is not seen, and every other step of a writer is    *)
(* one registration or removal, or none.                                   *)
(***************************************************************************)
EXTENDS RouteTable, SequenceTheorems, WellFoundedInduction, TLAPS

-----------------------------------------------------------------------------
(* The inductive invariant. *)

\* The route at index i of the list's array.
At(i) == mem[list.array][i]

\* The indices that count: all of the list, but the hole of a removal.
Live == IF mu = Free THEN 1 .. list.len ELSE (1 .. list.len) \ {hole[mu]}

\* A writer has a url of its own routes exactly while it is in a call, and the
\* one that closes a hole is the one that holds mu.
WriterInv(w) ==
    /\ pc[w] = "idle" <=> url[w] = NoUrl
    /\ pc[w] # "idle" => \E route \in RoutesOf[w] : route.url = url[w]
    /\ pc[w] = "add" => handle[w] \in Handlers
    /\ pc[w] = "shift" <=> mu = w

\* A slice is within its array and has routes all along.
SliceInv(slice) ==
    /\ slice.array = NoArray => slice.len = 0
    /\ slice.array # NoArray =>
         /\ slice.len <= Len(mem[slice.array])
         /\ \A i \in 1 .. slice.len : mem[slice.array][i] \in Route

\* One route per url; the hole of a removal has the route that goes, or a copy
\* of the one before it.
ListInv ==
    /\ SliceInv(list)
    /\ \A i, j \in Live : At(i).url = At(j).url => i = j
    /\ mu # Free =>
         /\ hole[mu] \in 1 .. list.len
         /\ \A i \in Live : At(i).url # url[mu]
         /\ \/ At(hole[mu]).url = url[mu]
            \/ hole[mu] > 1 /\ At(hole[mu]) = At(hole[mu] - 1)

\* Only a request that scans has a header, and what it refers to is kept.
RequestInv(r) ==
    /\ at[r] \in {"exact", "copy", "scan"} => path[r] \in Paths
    /\ at[r] = "scan" => next[r] >= 1
    /\ at[r] # "scan" => header[r] = Empty
    /\ at[r] \in {"idle", "exact", "copy"} => first[r] = NoUrl /\ lost[r] = "nothing"
    /\ SliceInv(header[r])

TableInv ==
    /\ TypeOK
    /\ \A w \in Writers : WriterInv(w)
    /\ ListInv
    /\ \A r \in Requests : RequestInv(r)

\* What r compares the path with at index i of its copy of the header.
MatchesAt(r, i) == path[r] \in Matches[mem[header[r].array][i].url]

\* While nothing was removed since a request copied the header, the urls it has
\* before it are those it had then.
ScanInv(r) ==
    (at[r] = "scan" /\ lost[r] = "nothing") =>
        /\ mu = Free
        /\ header[r].array = list.array => header[r].len <= list.len
        /\ \A i \in 1 .. header[r].len : i < next[r] => ~MatchesAt(r, i)
        /\ first[r] = NoUrl => \A i \in 1 .. header[r].len : ~MatchesAt(r, i)
        /\ first[r] # NoUrl =>
             \E k \in 1 .. header[r].len :
                /\ mem[header[r].array][k].url = first[r]
                /\ MatchesAt(r, k)
                /\ \A i \in 1 .. k - 1 : ~MatchesAt(r, i)

OrderInv ==
    /\ \A r \in Requests : ScanInv(r)
    /\ FirstMatchServes

\* The map and the list agree on u when nobody is in a call for it; in a call,
\* the map is ahead of the list, and the caller is alone.
AgreeInv(u) ==
    /\ \A v, w \in Writers : url[v] = u /\ url[w] = u => v = w
    /\ (\A w \in Writers : url[w] # u) =>
         IF rt[u] = NoHandler THEN \A i \in Live : At(i).url # u
         ELSE \E i \in Live : At(i).url = u /\ At(i).handle = rt[u]
    /\ \A w \in Writers : url[w] = u =>
         rt[u] = IF pc[w] = "add" THEN handle[w] ELSE NoHandler

\* What two calls at once leave of a url is excepted until a call for it begins
\* alone, whatever state it finds.
MapInv == \A u \in Urls \ raced : AgreeInv(u)
-----------------------------------------------------------------------------
(* Slices and arrays. *)

\* A slice stands for the first routes of its array.
LEMMA SliceElements ==
    ASSUME TypeOK, NEW slice \in Slice, SliceInv(slice)
    PROVE  /\ Elements(slice) \in Seq(Route)
           /\ Len(Elements(slice)) = slice.len
           /\ DOMAIN Elements(slice) = 1 .. slice.len
           /\ \A i \in 1 .. slice.len : Elements(slice)[i] = mem[slice.array][i]
<1>1. slice.len \in Nat  BY DEF Slice
<1>2. CASE slice.array = NoArray
  <2>1. Elements(slice) = <<>> /\ slice.len = 0  BY <1>2 DEF Elements, SliceInv
  <2> QED  BY <2>1, EmptySeq
<1>3. CASE slice.array # NoArray
  <2>1. \A i \in 1 .. slice.len : mem[slice.array][i] \in Route
    BY <1>3 DEF SliceInv
  <2>2. Elements(slice) = SubSeq(mem[slice.array], 1, slice.len)
    BY <1>3 DEF Elements
  <2>3. /\ Elements(slice) \in Seq(Route)
        /\ Len(Elements(slice)) = slice.len
        /\ \A i \in 1 .. slice.len : Elements(slice)[i] = mem[slice.array][i]
    <3>1. /\ Elements(slice) \in Seq(Route)
          /\ Len(Elements(slice)) = IF 1 <= slice.len THEN slice.len - 1 + 1 ELSE 0
          /\ \A i \in 1 .. slice.len - 1 + 1 :
               Elements(slice)[i] = mem[slice.array][1 + i - 1]
      BY <1>1, <2>1, <2>2, SubSeqProperties
    <3> QED  BY <1>1, <3>1
  <2> QED  BY <2>3, LenProperties
<1> QED  BY <1>2, <1>3

\* The places of a url in the list, and what is found there.
LEMMA Places ==
    ASSUME TypeOK, ListInv
    PROVE  /\ DOMAIN Elements(list) = 1 .. list.len
           /\ \A i \in 1 .. list.len : Elements(list)[i] = At(i) /\ At(i) \in Route
           /\ \A u : IndicesOf(u) = {i \in 1 .. list.len : At(i).url = u}
           /\ list.len \in Nat
           /\ list.len > 0 => list.array \in Arrays
           /\ list.array \in Arrays =>
                /\ mem[list.array] \in Seq(Route \cup {NoRoute})
                /\ Len(mem[list.array]) \in Nat /\ list.len <= Len(mem[list.array])
<1>1. list \in Slice /\ SliceInv(list)  BY DEF TypeOK, ListInv
<1>2. /\ DOMAIN Elements(list) = 1 .. list.len
      /\ \A i \in 1 .. list.len : Elements(list)[i] = At(i)
  BY <1>1, SliceElements DEF At
<1>3. list.len \in Nat /\ list.array \in Arrays \cup {NoArray}  BY <1>1 DEF Slice
<1>4. list.len > 0 => list.array # NoArray  BY <1>1, <1>3 DEF SliceInv
<1>5. \A i \in 1 .. list.len : At(i) \in Route  BY <1>1, <1>3, <1>4 DEF SliceInv, At
<1>6. list.array \in Arrays =>
        /\ mem[list.array] \in Seq(Route \cup {NoRoute})
        /\ Len(mem[list.array]) \in Nat /\ list.len <= Len(mem[list.array])
  BY <1>1, NullAssumption, LenProperties DEF TypeOK, SliceInv
<1> QED  BY <1>2, <1>3, <1>4, <1>5, <1>6 DEF IndicesOf

\* Writing one place of an array.
LEMMA Replaced ==
    ASSUME NEW S, NEW s \in Seq(S), NEW i \in 1 .. Len(s), NEW e \in S
    PROVE  /\ ReplaceAt(s, i, e) \in Seq(S)
           /\ Len(ReplaceAt(s, i, e)) = Len(s)
           /\ ReplaceAt(s, i, e)[i] = e
           /\ \A j \in 1 .. Len(s) : j # i => ReplaceAt(s, i, e)[j] = s[j]
BY ExceptSeq DEF ReplaceAt

\* Arrays that a header refers to are not collected.
LEMMA CollectedEffect ==
    ASSUME NEW S, NEW m \in [Arrays -> Seq(S)], NEW slices
    PROVE  /\ Collected(m, slices) \in [Arrays -> Seq(S)]
           /\ \A slice \in slices : slice.array \in Arrays =>
                Collected(m, slices)[slice.array] = m[slice.array]
<1>1. <<>> \in Seq(S)  BY EmptySeq
<1> QED  BY <1>1 DEF Collected

\* A slice whose array keeps its contents keeps its routes.
LEMMA SliceKept ==
    ASSUME NEW slice \in Slice, SliceInv(slice),
           slice.array \in Arrays => mem'[slice.array] = mem[slice.array]
    PROVE  SliceInv(slice)'
BY DEF SliceInv, Slice

-----------------------------------------------------------------------------
(* What requests do to the table: nothing. *)

\* A step of a request, as the table sees it.
Reading ==
    /\ UNCHANGED <<rt, list, mu, writerVars>>
    /\ list.array \in Arrays => mem'[list.array] = mem[list.array]

\* A step that leaves the table alone keeps what the invariant says of it.
LEMMA ReadingKeeps ==
    ASSUME TableInv, Reading
    PROVE  /\ \A w \in Writers : WriterInv(w)'
           /\ ListInv'
           /\ \A i \in Live : At(i)' = At(i)
           /\ Live' = Live
<1>1. Live' = Live /\ (\A w \in Writers : WriterInv(w)')
  BY DEF TableInv, Reading, writerVars, Live, WriterInv
<1>2. \A i \in 1 .. list.len : At(i)' = At(i)
  BY Places DEF TableInv, Reading, At
<1>3. SliceInv(list)'
  BY SliceKept DEF TableInv, TypeOK, ListInv, Reading, SliceInv
<1>4. list.len \in Nat /\ Live \subseteq 1 .. list.len
  BY DEF TableInv, TypeOK, Slice, Live
<1>5. \A i \in Live : At(i)' = At(i)
  BY <1>2, <1>4
<1>6. \A i, j \in Live' : At(i)'.url = At(j)'.url => i = j
  BY <1>1, <1>5 DEF TableInv, ListInv
<1>7. mu # Free =>
         /\ hole[mu] \in 1 .. list.len
         /\ \A i \in Live : At(i).url # url[mu]
         /\ \/ At(hole[mu]).url = url[mu]
            \/ hole[mu] > 1 /\ At(hole[mu]) = At(hole[mu] - 1)
  BY DEF TableInv, ListInv
<1>8. UNCHANGED <<list, mu, hole, url>>
  BY DEF Reading, writerVars
<1>9. ASSUME mu # Free
      PROVE  \/ At(hole[mu])'.url = url[mu]
             \/ hole[mu] > 1 /\ At(hole[mu])' = At(hole[mu] - 1)'
  <2>1. hole[mu] > 1 => hole[mu] - 1 \in 1 .. list.len
    BY <1>4, <1>7, <1>9
  <2> QED  BY <1>2, <1>7, <1>8, <1>9, <2>1 DEF At
<1>10. mu' # Free =>
         /\ hole'[mu'] \in 1 .. list'.len
         /\ \A i \in Live' : At(i)'.url # url'[mu']
  BY <1>1, <1>5, <1>7, <1>8
<1>11. (mu # Free =>
         /\ hole[mu] \in 1 .. list.len
         /\ \A i \in Live : At(i).url # url[mu]
         /\ \/ At(hole[mu]).url = url[mu]
            \/ hole[mu] > 1 /\ At(hole[mu]) = At(hole[mu] - 1))'
  BY <1>8, <1>9, <1>10 DEF At
<1> QED  BY <1>1, <1>3, <1>5, <1>6, <1>11 DEF ListInv
-----------------------------------------------------------------------------
(* What one step of a request does to the requests. *)

\* A request that does not move, and whose array stays as it is.
Still(q) ==
    /\ at'[q] = at[q] /\ path'[q] = path[q] /\ header'[q] = header[q]
    /\ next'[q] = next[q] /\ served'[q] = served[q]
    /\ first'[q] = first[q] /\ lost'[q] = lost[q]
    /\ header[q].array \in Arrays => mem'[header[q].array] = mem[header[q].array]

\* So does a request that stands still.
LEMMA StillKept ==
    ASSUME TypeOK, NEW q \in Requests, RequestInv(q), Still(q)
    PROVE  /\ RequestInv(q)'
           /\ (ScanInv(q) /\ mu' = mu /\ list' = list) => ScanInv(q)'
<1>1. header[q] \in Slice  BY DEF TypeOK
<1>2. SliceInv(header[q]) /\ SliceInv(header[q])'
  BY <1>1, SliceKept DEF RequestInv, Still
<1>3. RequestInv(q)'
  BY <1>2 DEF RequestInv, Still, SliceInv
<1>4. ASSUME ScanInv(q), mu' = mu, list' = list PROVE ScanInv(q)'
  <2>1. \A i \in 1 .. header[q].len : /\ MatchesAt(q, i)' <=> MatchesAt(q, i)
                                      /\ mem'[header[q].array][i] = mem[header[q].array][i]
    <3>1. CASE header[q].array \in Arrays
      BY <3>1 DEF Still, MatchesAt
    <3>2. CASE header[q].array \notin Arrays
      <4>1. header[q].len = 0  BY <1>1, <1>2, <3>2 DEF Slice, SliceInv
      <4> QED  BY <4>1
    <3> QED  BY <3>1, <3>2
  <2>2. \A k \in 1 .. header[q].len : \A i \in 1 .. k - 1 : i \in 1 .. header[q].len
    BY <1>1 DEF Slice
  <2>3. /\ header'[q] = header[q] /\ at'[q] = at[q] /\ lost'[q] = lost[q]
        /\ first'[q] = first[q] /\ next'[q] = next[q] /\ path'[q] = path[q]
    BY DEF Still
  <2>4. SUFFICES ASSUME at[q] = "scan", lost[q] = "nothing"
                 PROVE  ScanInv(q)'
    BY <2>3 DEF ScanInv
  <2>5. \A i \in 1 .. header[q].len : i < next[q] => ~(MatchesAt(q, i)')
    BY <1>4, <2>1, <2>4 DEF ScanInv
  <2>6. first[q] = NoUrl => \A i \in 1 .. header[q].len : ~(MatchesAt(q, i)')
    BY <1>4, <2>1, <2>4 DEF ScanInv
  <2>7. ASSUME first[q] # NoUrl
        PROVE  \E k \in 1 .. header[q].len :
                 /\ mem'[header[q].array][k].url = first[q]
                 /\ MatchesAt(q, k)'
                 /\ \A i \in 1 .. k - 1 : ~(MatchesAt(q, i)')
    <3>1. PICK k \in 1 .. header[q].len :
            /\ mem[header[q].array][k].url = first[q]
            /\ MatchesAt(q, k) /\ \A i \in 1 .. k - 1 : ~MatchesAt(q, i)
      BY <1>4, <2>4, <2>7 DEF ScanInv
    <3> QED  BY <2>1, <2>2, <3>1
  <2> QED  BY <1>4, <2>3, <2>4, <2>5, <2>6, <2>7 DEF ScanInv
<1> QED  BY <1>3, <1>4
\* When one request moves and the others stand still, its own part is left to
\* show.
LEMMA OneReader ==
    ASSUME TableInv, TypeOK', Reading, NEW r \in Requests, RequestInv(r)',
           \A q \in Requests \ {r} : Still(q)
    PROVE  /\ TableInv'
           /\ (OrderInv /\ ScanInv(r)'
               /\ (at'[r] = "done" /\ lost'[r] = "nothing" => served'[r] = first'[r]))
                => OrderInv'
<1>1. \A q \in Requests : RequestInv(q)'
  BY StillKept DEF TableInv
<1>2. TableInv'
  BY <1>1, ReadingKeeps DEF TableInv
<1>3. ASSUME OrderInv, ScanInv(r)',
             at'[r] = "done" /\ lost'[r] = "nothing" => served'[r] = first'[r]
      PROVE  OrderInv'
  <2>1. mu' = mu /\ list' = list  BY DEF Reading
  <2>2. \A q \in Requests : ScanInv(q)'
    BY <1>3, <2>1, StillKept DEF TableInv, OrderInv
  <2>3. FirstMatchServes'
    BY <1>3 DEF OrderInv, FirstMatchServes, Still
  <2> QED  BY <2>2, <2>3 DEF OrderInv
<1> QED  BY <1>2, <1>3

\* A request is answered: its header goes, and the arrays only it referred to.
LEMMA AnswerStep ==
    ASSUME TableInv, NEW r \in Requests, NEW u \in Urls \cup {NoUrl},
           NEW f \in Urls \cup {NoUrl}, Answer(r, u), first' = [first EXCEPT ![r] = f],
           UNCHANGED <<rt, list, mu, writerVars, lost>>
    PROVE  /\ TableInv' /\ Reading
           /\ (OrderInv /\ (lost[r] = "nothing" => u = f)) => OrderInv'
<1> DEFINE slices == {list} \cup {header[q] : q \in Requests \ {r}}
<1>1. /\ mem' \in [Arrays -> Seq(Route \cup {NoRoute})]
      /\ \A slice \in slices : slice.array \in Arrays => mem'[slice.array] = mem[slice.array]
  <2>1. mem \in [Arrays -> Seq(Route \cup {NoRoute})] /\ mem' = Collected(mem, slices)
    BY DEF TableInv, TypeOK, Answer
  <2> HIDE DEF slices
  <2> QED  BY <2>1, CollectedEffect
<1>2. /\ list.array \in Arrays => mem'[list.array] = mem[list.array]
      /\ \A q \in Requests \ {r} :
           header[q].array \in Arrays => mem'[header[q].array] = mem[header[q].array]
  BY <1>1
<1>3. Reading
  BY <1>2 DEF Reading
<1>4. Empty \in Slice
  BY DEF Empty, Slice
<1>5. TypeOK'
  BY <1>1, <1>4 DEF TableInv, TypeOK, Answer, writerVars
<1>6. /\ at'[r] = "done" /\ header'[r] = Empty /\ served'[r] = u
      /\ first'[r] = f /\ lost'[r] = lost[r]
  BY DEF TableInv, TypeOK, Answer
<1>7. \A q \in Requests \ {r} : Still(q)
  BY <1>2 DEF TableInv, TypeOK, Answer, Still
<1>8. RequestInv(r)'
  BY <1>6 DEF RequestInv, SliceInv, Empty
<1>9. ScanInv(r)'
  BY <1>6 DEF ScanInv
<1> QED  BY <1>3, <1>5, <1>6, <1>7, <1>8, <1>9, OneReader

\* A request arrives or leaves.
LEMMA ServeHTTPStep ==
    ASSUME TableInv, NEW r \in Requests, ServeHTTP(r) \/ Done(r)
    PROVE  TableInv' /\ Reading /\ (OrderInv => OrderInv')
<1>1. TypeOK' /\ Reading
  BY DEF TableInv, TypeOK, ServeHTTP, Done, tableVars, writerVars, Reading
<1>2. \A q \in Requests \ {r} : Still(q)
  BY DEF TableInv, TypeOK, ServeHTTP, Done, tableVars, writerVars, Still
<1>3. header'[r] = Empty /\ at'[r] \in {"exact", "idle"}
  BY DEF TableInv, TypeOK, RequestInv, ServeHTTP, Done
<1>4. RequestInv(r)'
  <2>1. SliceInv(header[r])'
    BY <1>3 DEF SliceInv, Empty
  <2> QED
    BY <1>3, <2>1 DEF TableInv, TypeOK, RequestInv, ServeHTTP, Done
<1> QED
  BY <1>1, <1>2, <1>3, <1>4, OneReader DEF ScanInv

\* A request is served from the map, or goes on to the list.
LEMMA LoadExactStep ==
    ASSUME TableInv, NEW r \in Requests, LoadExact(r)
    PROVE  TableInv' /\ Reading /\ (OrderInv => OrderInv')
<1>1. CASE path[r] \in Exact /\ rt[path[r]] # NoHandler
  <2>1. path[r] \in Urls
    BY <1>1, UrlsAssumption
  <2>2. /\ Answer(r, path[r]) /\ first' = [first EXCEPT ![r] = path[r]]
        /\ UNCHANGED <<rt, list, mu, writerVars, lost>>
    BY <1>1 DEF LoadExact
  <2> QED  BY <2>1, <2>2, AnswerStep
<1>2. CASE ~(path[r] \in Exact /\ rt[path[r]] # NoHandler)
  <2>1. /\ at' = [at EXCEPT ![r] = "copy"] /\ at[r] = "exact"
        /\ UNCHANGED <<mem, path, header, next, served, first, rt, list, mu, writerVars, lost>>
    BY <1>2 DEF LoadExact
  <2>2. TypeOK' /\ Reading
    BY <2>1 DEF TableInv, TypeOK, writerVars, Reading
  <2>3. \A q \in Requests \ {r} : Still(q)
    BY <2>1 DEF TableInv, TypeOK, Still
  <2>4. at'[r] = "copy"
    BY <2>1 DEF TableInv, TypeOK
  <2>5. RequestInv(r)'
    BY <2>1, <2>4 DEF TableInv, RequestInv, SliceInv
  <2> QED
    BY <2>2, <2>3, <2>4, <2>5, OneReader DEF ScanInv
<1> QED  BY <1>1, <1>2
\* A set of naturals that is not empty has a least element.
LEMMA NatRelation == IsWellFoundedOn({ss \in Nat \X Nat : ss[1] < ss[2]}, Nat)
BY NatLessThanWellFounded DEF OpToRel

\* A set of places that is not empty has a least one.
LEMMA Least ==
    ASSUME NEW S \in SUBSET Nat, S # {}
    PROVE  \E m \in S : \A n \in S : m <= n
<1> DEFINE R == {ss \in Nat \X Nat : ss[1] < ss[2]}
<1>1. IsWellFoundedOn(R, Nat)
  BY NatRelation
<1>2. PICK m \in S : \A n \in S : <<n, m>> \notin R
  <2> HIDE DEF R
  <2> QED  BY <1>1, WFMin
<1>3. ASSUME NEW n \in S PROVE m <= n
  <2>1. m \in Nat /\ n \in Nat /\ <<n, m>> \notin R
    BY <1>2
  <2>2. ~(n < m)
    BY <2>1
  <2> QED  BY <2>1, <2>2
<1> QED  BY <1>3

\* The header a request copies is the list as it stands, and the first match in
\* it is what first records.
LEMMA CopyListStep ==
    ASSUME TableInv, NEW r \in Requests, CopyList(r)
    PROVE  TableInv' /\ Reading /\ (OrderInv => OrderInv')
<1> DEFINE C == Candidates(path[r])
<1>1. /\ DOMAIN Elements(list) = 1 .. list.len
      /\ \A i \in 1 .. list.len : Elements(list)[i] = At(i) /\ At(i) \in Route
      /\ list.len \in Nat
  BY Places DEF TableInv
<1>2. C = {i \in 1 .. list.len : path[r] \in Matches[At(i).url]}
  BY <1>1 DEF Candidates
<1>3. /\ at[r] = "copy" /\ mu = Free
      /\ header' = [header EXCEPT ![r] = list] /\ next' = [next EXCEPT ![r] = 1]
      /\ at' = [at EXCEPT ![r] = "scan"]
      /\ UNCHANGED <<rt, list, mem, mu, writerVars, path, served, lost>>
  BY DEF CopyList, tableVars
<1>4. /\ C = {} => first' = first
      /\ C # {} => \E k \in C : /\ \A j \in C : k <= j
                                /\ first' = [first EXCEPT ![r] = At(k).url]
  <2>1. CASE C = {}
    BY <2>1 DEF CopyList
  <2>2. CASE C # {}
    <3>1. \E i \in C : \A j \in C : i <= j
      <4>1. C \in SUBSET Nat  BY <1>1, <1>2
      <4> HIDE DEF C
      <4> QED  BY <2>2, <4>1, Least
    <3>2. PICK k : k = CHOOSE i \in C : \A j \in C : i <= j
      OBVIOUS
    <3>3. k \in C /\ \A j \in C : k <= j
      BY <3>1, <3>2
    <3>4. first' = [first EXCEPT ![r] = Elements(list)[k].url]
      BY <2>2, <3>2 DEF CopyList
    <3>5. Elements(list)[k] = At(k)
      BY <1>1, <1>2, <3>3
    <3> QED  BY <2>2, <3>3, <3>4, <3>5
  <2> QED  BY <2>1, <2>2
<1>5. first[r] = NoUrl /\ lost[r] = "nothing" /\ path[r] \in Paths
  BY <1>3 DEF TableInv, RequestInv
<1>6. \A k \in C : k \in 1 .. list.len /\ At(k).url \in Urls /\ path[r] \in Matches[At(k).url]
  BY <1>1, <1>2 DEF Route
<1> HIDE DEF C
<1>7. TypeOK'
  <2>1. first' \in [Requests -> Urls \cup {NoUrl}]
    BY <1>4, <1>6 DEF TableInv, TypeOK
  <2> QED  BY <1>3, <2>1 DEF TableInv, TypeOK, writerVars
<1>8. Reading
  BY <1>3 DEF Reading
<1>9. \A q \in Requests \ {r} : Still(q)
  BY <1>3, <1>4 DEF TableInv, TypeOK, Still
<1>10. /\ at'[r] = "scan" /\ header'[r] = list /\ next'[r] = 1
       /\ path'[r] = path[r] /\ lost'[r] = lost[r]
  BY <1>3 DEF TableInv, TypeOK
<1>11. RequestInv(r)'
  BY <1>3, <1>5, <1>10 DEF TableInv, ListInv, RequestInv, SliceInv
<1>12. ScanInv(r)'
  <2>0. SUFFICES
          /\ \A i \in 1 .. list.len : i < 1 => ~(MatchesAt(r, i)')
          /\ first'[r] = NoUrl => \A i \in 1 .. list.len : ~(MatchesAt(r, i)')
          /\ first'[r] # NoUrl =>
               \E k \in 1 .. list.len :
                  /\ mem'[list.array][k].url = first'[r]
                  /\ MatchesAt(r, k)'
                  /\ \A i \in 1 .. k - 1 : ~(MatchesAt(r, i)')
    BY <1>1, <1>3, <1>10 DEF ScanInv
  <2>1. \A i : MatchesAt(r, i)' <=> path[r] \in Matches[At(i).url]
    BY <1>3, <1>10 DEF MatchesAt, At
  <2>2. \A i \in 1 .. list.len : i \in C <=> MatchesAt(r, i)'
    BY <1>2, <2>1 DEF C
  <2>3. CASE C = {}
    <3>1. \A i \in 1 .. list.len : ~(MatchesAt(r, i)')
      BY <2>2, <2>3
    <3>2. first'[r] = NoUrl
      BY <1>4, <1>5, <2>3
    <3> QED  BY <2>0, <3>1, <3>2
  <2>4. CASE C # {}
    <3>1. PICK k \in C : /\ \A j \in C : k <= j
                         /\ first' = [first EXCEPT ![r] = At(k).url]
      BY <1>4, <2>4
    <3>2. k \in 1 .. list.len /\ MatchesAt(r, k)' /\ first'[r] = At(k).url
      BY <1>6, <2>2, <3>1 DEF TableInv, TypeOK
    <3>3. \A i \in 1 .. k - 1 : ~(MatchesAt(r, i)')
      BY <1>1, <2>2, <3>1, <3>2
    <3>4. mem'[list.array][k].url = first'[r] /\ first'[r] # NoUrl
      BY <1>3, <1>6, <3>2, NullAssumption DEF At
    <3>5. \A i \in 1 .. list.len : ~(i < 1)
      BY <1>1
    <3> QED  BY <2>0, <3>2, <3>3, <3>4, <3>5
  <2> QED  BY <2>3, <2>4
<1>13. at'[r] # "done"
  BY <1>10
<1> QED
  BY <1>7, <1>8, <1>9, <1>11, <1>12, <1>13, OneReader

\* A request reads one route of its header, and goes on or is answered.
LEMMA ScanStep ==
    ASSUME TableInv, NEW r \in Requests, Scan(r)
    PROVE  TableInv' /\ Reading /\ (OrderInv => OrderInv')
<1>1. /\ at[r] = "scan" /\ next[r] \in 1 .. header[r].len
      /\ header[r].len \in Nat /\ header[r].array # NoArray
      /\ mem[header[r].array][next[r]] \in Route
  BY DEF TableInv, TypeOK, Slice, RequestInv, SliceInv, Scan
<1>2. PICK u \in Urls : u = mem[header[r].array][next[r]].url
  BY <1>1 DEF Route
<1>3. MatchesAt(r, next[r]) <=> path[r] \in Matches[u]
  BY <1>2 DEF MatchesAt
<1>4. CASE path[r] \in Matches[u]
  <2>1. Answer(r, u) /\ UNCHANGED <<rt, list, mu, writerVars, first, lost>>
    BY <1>2, <1>4 DEF Scan
  <2>2. first' = [first EXCEPT ![r] = first[r]] /\ first[r] \in Urls \cup {NoUrl}
    BY <2>1 DEF TableInv, TypeOK
  <2>3. (OrderInv /\ lost[r] = "nothing") => u = first[r]
    <3> SUFFICES ASSUME OrderInv, lost[r] = "nothing" PROVE u = first[r]
      OBVIOUS
    <3>1. /\ \A i \in 1 .. header[r].len : i < next[r] => ~MatchesAt(r, i)
          /\ first[r] = NoUrl => \A i \in 1 .. header[r].len : ~MatchesAt(r, i)
          /\ first[r] # NoUrl =>
               \E k \in 1 .. header[r].len :
                  /\ mem[header[r].array][k].url = first[r]
                  /\ MatchesAt(r, k)
                  /\ \A i \in 1 .. k - 1 : ~MatchesAt(r, i)
      BY <1>1 DEF OrderInv, ScanInv
    <3>2. PICK k \in 1 .. header[r].len :
                  /\ mem[header[r].array][k].url = first[r]
                  /\ MatchesAt(r, k)
                  /\ \A i \in 1 .. k - 1 : ~MatchesAt(r, i)
      BY <1>1, <1>3, <1>4, <3>1
    <3>3. ~(k < next[r])
      BY <3>1, <3>2
    <3>4. ~(next[r] \in 1 .. k - 1)
      BY <1>3, <1>4, <3>2
    <3>5. k = next[r]
      BY <1>1, <3>3, <3>4
    <3> QED  BY <1>2, <3>2, <3>5
  <2>4. TableInv' /\ Reading
    BY <2>1, <2>2, AnswerStep
  <2>5. OrderInv => OrderInv'
    BY <2>1, <2>2, <2>3, AnswerStep
  <2> QED  BY <2>4, <2>5
<1>5. CASE path[r] \notin Matches[u]
  <2>1. /\ next' = [next EXCEPT ![r] = next[r] + 1]
        /\ UNCHANGED <<mem, at, path, header, served, rt, list, mu, writerVars, first, lost>>
    BY <1>2, <1>5 DEF Scan
  <2>2. TypeOK' /\ Reading
    BY <2>1 DEF TableInv, TypeOK, writerVars, Reading
  <2>3. \A q \in Requests \ {r} : Still(q)
    BY <2>1 DEF TableInv, TypeOK, Still
  <2>4. next'[r] = next[r] + 1
    BY <2>1 DEF TableInv, TypeOK
  <2>5. RequestInv(r)'
    BY <1>1, <2>1, <2>4 DEF TableInv, RequestInv, SliceInv
  <2>6. ScanInv(r) => ScanInv(r)'
    <3>1. \A i : MatchesAt(r, i)' <=> MatchesAt(r, i)
      BY <2>1 DEF MatchesAt
    <3>2. \A i \in 1 .. header[r].len : i < next[r] + 1 => i < next[r] \/ i = next[r]
      BY <1>1
    <3>3. ~MatchesAt(r, next[r])
      BY <1>3, <1>5
    <3> QED  BY <1>1, <2>1, <2>4, <3>1, <3>2, <3>3 DEF ScanInv
  <2>7. OrderInv => ScanInv(r)
    BY DEF OrderInv
  <2>8. at'[r] # "done"
    BY <1>1, <2>1
  <2> QED  BY <2>2, <2>3, <2>5, <2>6, <2>7, <2>8, OneReader
<1> QED  BY <1>4, <1>5

\* A request that reached the end of its header found no match in it.
LEMMA NotFoundStep ==
    ASSUME TableInv, NEW r \in Requests, NotFound(r)
    PROVE  TableInv' /\ Reading /\ (OrderInv => OrderInv')
<1>1. /\ at[r] = "scan" /\ next[r] > header[r].len /\ next[r] \in Nat
      /\ header[r].len \in Nat
      /\ Answer(r, NoUrl) /\ UNCHANGED <<rt, list, mu, writerVars, first, lost>>
  BY DEF TableInv, TypeOK, Slice, NotFound
<1>2. first' = [first EXCEPT ![r] = first[r]] /\ first[r] \in Urls \cup {NoUrl}
  BY <1>1 DEF TableInv, TypeOK
<1>3. (OrderInv /\ lost[r] = "nothing") => NoUrl = first[r]
  <2>1. \A i \in 1 .. header[r].len : i < next[r]
    BY <1>1
  <2> QED  BY <1>1, <2>1 DEF OrderInv, ScanInv
<1>4. TableInv' /\ Reading
  BY <1>1, <1>2, AnswerStep
<1>5. OrderInv => OrderInv'
  BY <1>1, <1>2, <1>3, AnswerStep
<1> QED  BY <1>4, <1>5
-----------------------------------------------------------------------------
(* What one step of a writer does to the list, in terms of the indices that  *)
(* count.                                                                    *)

\* The route a writer registers.
RouteOf(w) == [url |-> url[w], handle |-> handle[w]]

\* Only the list's array is written, and it keeps its routes and its length.
InPlace ==
    /\ mem' \in [Arrays -> Seq(Route \cup {NoRoute})]
    /\ \A b \in Arrays : b # list.array => mem'[b] = mem[b]
    /\ list.array \in Arrays =>
         /\ Len(mem'[list.array]) = Len(mem[list.array])
         /\ \A i \in 1 .. Len(mem[list.array]) :
              mem[list.array][i] \in Route => mem'[list.array][i] \in Route

\* What a writer is adding is a route.
LEMMA WriterRoute ==
    ASSUME TableInv, NEW w \in Writers, pc[w] = "add"
    PROVE  RouteOf(w) \in Route /\ url[w] \in Urls
<1>1. url[w] \in Urls /\ handle[w] \in Handlers
  BY NullAssumption DEF TableInv, TypeOK, WriterInv
<1> QED  BY <1>1 DEF RouteOf, Route

\* Writing one place of the list's array, at most one behind the list.
LEMMA WriteInPlace ==
    ASSUME TableInv, list.array \in Arrays,
           NEW i \in 1 .. Len(mem[list.array]), NEW e \in Route,
           mem' = [mem EXCEPT ![list.array] = ReplaceAt(@, i, e)]
    PROVE  /\ InPlace
           /\ mem'[list.array][i] = e
           /\ \A j \in 1 .. Len(mem[list.array]) :
                j # i => mem'[list.array][j] = mem[list.array][j]
<1>1. PICK a \in Arrays, s \in Seq(Route \cup {NoRoute}) :
        /\ a = list.array /\ s = mem[a] /\ i \in 1 .. Len(s)
        /\ mem' = [mem EXCEPT ![a] = ReplaceAt(s, i, e)]
        /\ mem \in [Arrays -> Seq(Route \cup {NoRoute})]
  BY DEF TableInv, TypeOK
<1>2. PICK t : t = ReplaceAt(s, i, e)
  OBVIOUS
<1>3. /\ t \in Seq(Route \cup {NoRoute}) /\ Len(t) = Len(s) /\ t[i] = e
      /\ \A j \in 1 .. Len(s) : j # i => t[j] = s[j]
  <2> DEFINE S == Route \cup {NoRoute}
  <2>1. e \in S /\ s \in Seq(S) /\ i \in 1 .. Len(s)
    BY <1>1
  <2> HIDE DEF S
  <2>2. /\ ReplaceAt(s, i, e) \in Seq(S) /\ Len(ReplaceAt(s, i, e)) = Len(s)
        /\ ReplaceAt(s, i, e)[i] = e
        /\ \A j \in 1 .. Len(s) : j # i => ReplaceAt(s, i, e)[j] = s[j]
    BY <2>1, Replaced
  <2> QED  BY <1>2, <2>2 DEF S
<1>4. mem' = [mem EXCEPT ![a] = t]  BY <1>1, <1>2
<1>5. mem'[a] = t /\ \A b \in Arrays : b # a => mem'[b] = mem[b]
  BY <1>1, <1>4
<1>6. mem' \in [Arrays -> Seq(Route \cup {NoRoute})]
  BY <1>1, <1>3, <1>4
<1> QED  BY <1>1, <1>3, <1>5, <1>6 DEF InPlace

\* The handler of one place changes, and nothing else.
LEMMA ReplaceEffect ==
    ASSUME TableInv, NEW w \in Writers, ReplaceRoute(w)
    PROVE  /\ InPlace /\ list' = list /\ Live' = Live /\ Live = 1 .. list.len
           /\ \E i \in Live :
                /\ At(i).url = url[w] /\ At(i)' = RouteOf(w)
                /\ \A j \in Live : j # i => At(j)' = At(j)
<1>1. PICK i \in IndicesOf(url[w]) :
        mem' = [mem EXCEPT ![list.array] = ReplaceAt(@, i, RouteOf(w))]
  BY DEF ReplaceRoute, RouteOf
<1>2. i \in 1 .. list.len /\ At(i).url = url[w] /\ list.len \in Nat
  BY <1>1, Places DEF TableInv
<1>3. list.array \in Arrays /\ i \in 1 .. Len(mem[list.array])
      /\ \A j \in 1 .. list.len : j \in 1 .. Len(mem[list.array])
  BY <1>2, Places DEF TableInv
<1>4. RouteOf(w) \in Route
  BY WriterRoute DEF ReplaceRoute
<1>5. /\ InPlace
      /\ mem'[list.array][i] = RouteOf(w)
      /\ \A j \in 1 .. Len(mem[list.array]) :
           j # i => mem'[list.array][j] = mem[list.array][j]
  BY <1>1, <1>3, <1>4, WriteInPlace
<1>6. list' = list /\ mu' = mu /\ mu = Free
  BY DEF ReplaceRoute
<1>7. Live = 1 .. list.len /\ Live' = Live
  BY <1>6 DEF Live
<1> QED  BY <1>2, <1>3, <1>5, <1>6, <1>7 DEF At

\* The route behind the hole moves into it, and the hole is one further.
LEMMA ShiftEffect ==
    ASSUME TableInv, NEW w \in Writers, Shift(w)
    PROVE  /\ InPlace /\ list' = list /\ mu' = w /\ mu = w
           /\ \E i \in 1 .. list.len :
                /\ hole[w] = i /\ hole'[w] = i + 1 /\ i + 1 \in 1 .. list.len
                /\ Live = (1 .. list.len) \ {i}
                /\ Live' = (1 .. list.len) \ {i + 1}
                /\ At(i)' = At(i + 1)
                /\ \A j \in 1 .. list.len : j # i => At(j)' = At(j)
<1>0. PICK i \in Nat : i = hole[w]
  BY DEF TableInv, TypeOK
<1>1. /\ pc[w] = "shift" /\ mu = w /\ mu # Free /\ i < list.len
      /\ mem' = [mem EXCEPT ![list.array] = ReplaceAt(@, i, @[i + 1])]
      /\ hole' = [hole EXCEPT ![w] = i + 1]
      /\ UNCHANGED <<list, mu>>
  BY <1>0, NullAssumption DEF TableInv, WriterInv, Shift
<1>2. i \in 1 .. list.len /\ list.len \in Nat
  BY <1>0, <1>1, Places DEF TableInv, ListInv
<1>3. i + 1 \in 1 .. list.len
  BY <1>1, <1>2
<1>4. /\ list.array \in Arrays /\ i \in 1 .. Len(mem[list.array])
      /\ At(i + 1) \in Route
      /\ \A j \in 1 .. list.len : j \in 1 .. Len(mem[list.array])
  BY <1>2, <1>3, Places DEF TableInv
<1>5. hole'[w] = i + 1
  BY <1>1 DEF TableInv, TypeOK
<1>6. mem' = [mem EXCEPT ![list.array] = ReplaceAt(@, i, At(i + 1))]
  BY <1>1 DEF At
<1>7. /\ InPlace
      /\ mem'[list.array][i] = At(i + 1)
      /\ \A j \in 1 .. Len(mem[list.array]) :
           j # i => mem'[list.array][j] = mem[list.array][j]
  BY <1>4, <1>6, WriteInPlace
<1>8. Live = (1 .. list.len) \ {i} /\ Live' = (1 .. list.len) \ {i + 1}
  BY <1>0, <1>1, <1>5 DEF Live
<1>9. At(i)' = At(i + 1) /\ \A j \in 1 .. list.len : j # i => At(j)' = At(j)
  BY <1>1, <1>4, <1>7 DEF At
<1> QED  BY <1>0, <1>1, <1>2, <1>3, <1>5, <1>7, <1>8, <1>9

\* The place of the url leaves those that count.
LEMMA FindHoleEffect ==
    ASSUME TableInv, NEW w \in Writers, FindHole(w)
    PROVE  /\ UNCHANGED <<list, mem>> /\ mu = Free /\ mu' = w
           /\ \E i \in Live :
                /\ hole' = [hole EXCEPT ![w] = i] /\ hole'[w] = i
                /\ At(i).url = url[w]
                /\ Live = 1 .. list.len /\ Live' = Live \ {i}
           /\ \A j : At(j)' = At(j)
<1>1. /\ mu = Free /\ mu' = w /\ mu' # Free /\ UNCHANGED <<list, mem>>
  BY NullAssumption DEF FindHole
<1>2. PICK i \in IndicesOf(url[w]) : hole' = [hole EXCEPT ![w] = i]
  BY DEF FindHole
<1>3. i \in 1 .. list.len /\ At(i).url = url[w]
  BY <1>2, Places DEF TableInv
<1>4. hole'[w] = i
  BY <1>2 DEF TableInv, TypeOK
<1>5. Live = 1 .. list.len /\ Live' = Live \ {i}
  BY <1>1, <1>4 DEF Live
<1> QED  BY <1>1, <1>2, <1>3, <1>4, <1>5 DEF At

\* The hole is the last place, and goes: what counts stays.
LEMMA ShortenEffect ==
    ASSUME TableInv, NEW w \in Writers, Shorten(w)
    PROVE  /\ mem' = mem /\ mu = w /\ mu' = Free
           /\ hole[w] = list.len /\ list.len \in Nat /\ list.len > 0
           /\ list' = [array |-> list.array, len |-> list.len - 1]
           /\ Live = 1 .. list.len - 1 /\ Live' = Live
           /\ \A j : At(j)' = At(j)
<1>1. /\ pc[w] = "shift" /\ mu = w /\ mu # Free /\ hole[w] = list.len
      /\ list' = [list EXCEPT !.len = @ - 1] /\ mu' = Free /\ mem' = mem
  BY NullAssumption DEF TableInv, WriterInv, Shorten
<1>2. hole[w] \in 1 .. list.len /\ list.len \in Nat /\ list.len > 0
  <2>1. hole[w] \in 1 .. list.len /\ list.len \in Nat
    BY <1>1, Places DEF TableInv, ListInv
  <2> QED  BY <2>1
<1>3. list' = [array |-> list.array, len |-> list.len - 1]
  BY <1>1 DEF TableInv, TypeOK, Slice
<1>4. Live = 1 .. list.len - 1 /\ Live' = Live
  BY <1>1, <1>2, <1>3 DEF Live
<1>5. \A j : At(j)' = At(j)
  BY <1>1, <1>3 DEF At
<1> QED  BY <1>1, <1>2, <1>3, <1>4, <1>5
\* A write in place leaves every slice with routes.
LEMMA InPlaceSlice ==
    ASSUME TypeOK, InPlace, NEW slice \in Slice, SliceInv(slice)
    PROVE  SliceInv(slice)'
<1>1. /\ slice.array \in Arrays \cup {NoArray} /\ slice.len \in Nat
      /\ mem \in [Arrays -> Seq(Route \cup {NoRoute})]
  BY DEF Slice, TypeOK
<1>2. CASE slice.array \notin Arrays \/ slice.array # list.array
  BY <1>1, <1>2 DEF SliceInv, InPlace
<1>3. CASE slice.array \in Arrays /\ slice.array = list.array
  <2>1. PICK a \in Arrays, n \in Nat : slice.array = a /\ slice.len = n /\ list.array = a
    BY <1>1, <1>3
  <2>2. PICK s \in Seq(Route \cup {NoRoute}), t \in Seq(Route \cup {NoRoute}) :
          s = mem[a] /\ t = mem'[a]
    BY <1>1, <2>1 DEF InPlace
  <2>3. Len(s) \in Nat
    BY LenProperties
  <2>4. n <= Len(s) /\ \A i \in 1 .. n : s[i] \in Route
    BY <1>3, <2>1, <2>2, NullAssumption DEF SliceInv
  <2>5. Len(t) = Len(s) /\ \A i \in 1 .. Len(s) : s[i] \in Route => t[i] \in Route
    BY <2>1, <2>2 DEF InPlace
  <2>6. \A i \in 1 .. n : i \in 1 .. Len(s)
    BY <2>3, <2>4
  <2>7. n <= Len(t) /\ \A i \in 1 .. n : t[i] \in Route
    BY <2>4, <2>5, <2>6
  <2> QED  BY <2>1, <2>2, <2>7, NullAssumption DEF SliceInv
<1> QED  BY <1>1, <1>2, <1>3

\* A list of functions on 1 .. m is a sequence of length m.
LEMMA FunctionIsSeq ==
    ASSUME NEW S, NEW m \in Nat, NEW f \in [1 .. m -> S]
    PROVE  f \in Seq(S) /\ Len(f) = m
<1>1. f \in Seq(S)
  BY SeqDef
<1>2. DOMAIN f = 1 .. m /\ DOMAIN f = 1 .. Len(f) /\ Len(f) \in Nat
  BY <1>1, LenProperties
<1> QED  BY <1>1, <1>2

\* An append grows the list by one route; what requests refer to stays, except
\* the place behind the list, which a header from before a removal may have.
LEMMA AppendEffect ==
    ASSUME TableInv, NEW w \in Writers, AppendRoute(w)
    PROVE  /\ mem' \in [Arrays -> Seq(Route \cup {NoRoute})]
           /\ list' \in Slice
           /\ SliceInv(list)' /\ \A q \in Requests : SliceInv(header[q])'
           /\ mu = Free /\ mu' = Free /\ IndicesOf(url[w]) = {}
           /\ \E n \in Nat :
                /\ list.len = n /\ list'.len = n + 1
                /\ Live = 1 .. n /\ Live' = 1 .. n + 1
                /\ At(n + 1)' = RouteOf(w) /\ \A j \in 1 .. n : At(j)' = At(j)
           /\ \A q \in Requests :
                /\ header[q].array \in Arrays /\ header[q].array = list'.array
                     => header[q].array = list.array
                /\ (header[q].array \in Arrays
                     /\ (header[q].array = list.array => header[q].len <= list.len))
                     => \A i \in 1 .. header[q].len :
                          mem'[header[q].array][i] = mem[header[q].array][i]
<1>0. PICK n \in Nat : n = list.len
  BY DEF TableInv, TypeOK, Slice
<1>1. /\ pc[w] = "add" /\ mu = Free /\ mu' = mu /\ IndicesOf(url[w]) = {}
      /\ UNCHANGED header
  BY DEF AppendRoute, requestVars
<1>2. /\ n \in Nat
      /\ n > 0 => list.array \in Arrays
      /\ \A i \in 1 .. n : Elements(list)[i] = At(i) /\ At(i) \in Route
      /\ list.array \in Arrays =>
           /\ mem[list.array] \in Seq(Route \cup {NoRoute})
           /\ Len(mem[list.array]) \in Nat /\ n <= Len(mem[list.array])
  BY <1>0, Places DEF TableInv
<1>3. RouteOf(w) \in Route
  BY <1>1, WriterRoute
<1>4. /\ \A q \in Requests :
           /\ header[q] \in Slice /\ SliceInv(header[q])
           /\ header[q].array # NoArray <=> header[q].array \in Arrays
           /\ header[q].len \in Nat
      /\ list \in Slice /\ SliceInv(list) /\ list.array \in Arrays \cup {NoArray}
  BY NullAssumption DEF TableInv, TypeOK, RequestInv, ListInv, Slice
<1>5. CASE /\ n < Capacity
           /\ mem' = [mem EXCEPT ![list.array] = ReplaceAt(@, n + 1, RouteOf(w))]
           /\ list' = [list EXCEPT !.len = n + 1]
  <2>1. list.array \in Arrays /\ n + 1 \in 1 .. Len(mem[list.array])
    BY <1>2, <1>4, <1>5 DEF Capacity
  <2>2. /\ InPlace
        /\ mem'[list.array][n + 1] = RouteOf(w)
        /\ \A j \in 1 .. Len(mem[list.array]) :
             j # n + 1 => mem'[list.array][j] = mem[list.array][j]
    BY <1>3, <1>5, <2>1, WriteInPlace
  <2>3. list' = [array |-> list.array, len |-> n + 1]
    BY <1>4, <1>5 DEF Slice
  <2>4. \A j \in 1 .. n : mem'[list.array][j] = mem[list.array][j]
    BY <1>2, <2>1, <2>2
  <2>5. Live = 1 .. n /\ Live' = 1 .. n + 1
    BY <1>0, <1>1, <2>3 DEF Live
  <2>6. list' \in Slice /\ SliceInv(list)'
    <3>1. \A i \in 1 .. n + 1 : mem'[list.array][i] \in Route
      <4> SUFFICES ASSUME NEW i \in 1 .. n + 1 PROVE mem'[list.array][i] \in Route
        OBVIOUS
      <4>1. i \in 1 .. n \/ i = n + 1
        BY <1>2
      <4> QED  BY <1>2, <1>3, <2>2, <2>4, <4>1 DEF At
    <3>2. n + 1 <= Len(mem'[list.array]) /\ list.array # NoArray
      BY <1>2, <2>1, <2>2, NullAssumption DEF InPlace
    <3>3. list'.array = list.array /\ list'.len = n + 1
      BY <2>3
    <3>4. SliceInv(list)'
      BY <3>1, <3>2, <3>3 DEF SliceInv
    <3> QED  BY <1>2, <2>1, <2>3, <3>4 DEF Slice
  <2>7. ASSUME NEW q \in Requests
        PROVE  /\ SliceInv(header[q])'
               /\ (header[q].array \in Arrays
                     /\ (header[q].array = list.array => header[q].len <= n))
                     => \A i \in 1 .. header[q].len :
                          mem'[header[q].array][i] = mem[header[q].array][i]
    <3>1. PICK slice \in Slice : slice = header[q] /\ SliceInv(slice)
      BY <1>4
    <3>2. SliceInv(slice)'
      BY <2>2, <3>1, InPlaceSlice DEF TableInv
    <3>3. SliceInv(header[q])'
      BY <1>1, <3>1, <3>2 DEF SliceInv
    <3>4. ASSUME slice.array \in Arrays, slice.array = list.array => slice.len <= n,
                 NEW i \in 1 .. slice.len
          PROVE  mem'[slice.array][i] = mem[slice.array][i]
      <4>1. CASE slice.array # list.array
        BY <2>2, <3>4, <4>1 DEF InPlace
      <4>2. CASE slice.array = list.array
        <5>1. slice.len \in Nat /\ slice.len <= n
          BY <3>1, <3>4, <4>2 DEF Slice
        <5>2. i \in 1 .. n
          BY <1>2, <5>1
        <5> QED  BY <2>4, <4>2, <5>2
      <4> QED  BY <4>1, <4>2
    <3> QED  BY <3>1, <3>3, <3>4
  <2>8. At(n + 1)' = RouteOf(w) /\ \A j \in 1 .. n : At(j)' = At(j)
    BY <2>2, <2>3, <2>4 DEF At
  <2>9. list'.array = list.array /\ list'.len = n + 1
    BY <2>3
  <2>10. mem' \in [Arrays -> Seq(Route \cup {NoRoute})]
    BY <2>2 DEF InPlace
  <2>11. \A q \in Requests :
           /\ header[q].array \in Arrays /\ header[q].array = list'.array
                => header[q].array = list.array
           /\ (header[q].array \in Arrays
                /\ (header[q].array = list.array => header[q].len <= n))
                => \A i \in 1 .. header[q].len :
                     mem'[header[q].array][i] = mem[header[q].array][i]
    BY <2>7, <2>9
  <2> QED
    BY <1>0, <1>1, <2>5, <2>6, <2>7, <2>8, <2>9, <2>10, <2>11
<1>6. CASE /\ n = Capacity
           /\ \E a \in Arrays : FreshArray(a)
           /\ \E a \in Arrays : \E grown :
                /\ FreshArray(a)
                /\ grown = [i \in 1 .. (IF n = 0 THEN 1 ELSE 2 * n) |->
                              IF i <= n THEN Elements(list)[i]
                              ELSE IF i = n + 1 THEN RouteOf(w) ELSE NoRoute]
                /\ list' = [array |-> a, len |-> n + 1]
                /\ mem' = Collected([mem EXCEPT ![a] = grown],
                                    {list'} \cup {header[r] : r \in Requests})
  <2>0. PICK a \in Arrays : \E grown :
                /\ FreshArray(a)
                /\ grown = [i \in 1 .. (IF n = 0 THEN 1 ELSE 2 * n) |->
                              IF i <= n THEN Elements(list)[i]
                              ELSE IF i = n + 1 THEN RouteOf(w) ELSE NoRoute]
                /\ list' = [array |-> a, len |-> n + 1]
                /\ mem' = Collected([mem EXCEPT ![a] = grown],
                                    {list'} \cup {header[r] : r \in Requests})
    BY <1>6
  <2>1. PICK grown :
                /\ FreshArray(a)
                /\ grown = [i \in 1 .. (IF n = 0 THEN 1 ELSE 2 * n) |->
                              IF i <= n THEN Elements(list)[i]
                              ELSE IF i = n + 1 THEN RouteOf(w) ELSE NoRoute]
                /\ list' = [array |-> a, len |-> n + 1]
                /\ mem' = Collected([mem EXCEPT ![a] = grown],
                                    {list'} \cup {header[r] : r \in Requests})
    BY <2>0
  <2>2. PICK m \in Nat : m = (IF n = 0 THEN 1 ELSE 2 * n) /\ m >= n + 1
    BY <1>2
  <2>3. /\ grown \in [1 .. m -> Route \cup {NoRoute}]
        /\ \A i \in 1 .. n : i \in 1 .. m /\ grown[i] = At(i)
        /\ n + 1 \in 1 .. m /\ grown[n + 1] = RouteOf(w)
    <3>1. grown = [i \in 1 .. m |-> IF i <= n THEN Elements(list)[i]
                              ELSE IF i = n + 1 THEN RouteOf(w) ELSE NoRoute]
      BY <2>1, <2>2
    <3>2. \A i \in 1 .. m : i <= n => i \in 1 .. n
      BY <1>2
    <3>3. \A i \in 1 .. n : i \in 1 .. m /\ i <= n
      BY <1>2, <2>2
    <3>4. n + 1 \in 1 .. m /\ ~(n + 1 <= n)
      BY <1>2, <2>2
    <3> QED  BY <1>2, <1>3, <3>1, <3>2, <3>3, <3>4
  <2>4. grown \in Seq(Route \cup {NoRoute}) /\ Len(grown) = m
    BY <2>3, FunctionIsSeq
  <2>5. [mem EXCEPT ![a] = grown] \in [Arrays -> Seq(Route \cup {NoRoute})]
    BY <2>4 DEF TableInv, TypeOK
  <2>6. PICK mm : mm = [mem EXCEPT ![a] = grown]
    OBVIOUS
  <2>7. mm[a] = grown /\ \A b \in Arrays : b # a => mm[b] = mem[b]
    BY <2>6 DEF TableInv, TypeOK
  <2>8. /\ mem' \in [Arrays -> Seq(Route \cup {NoRoute})]
        /\ \A slice \in {list'} \cup {header[r] : r \in Requests} :
             slice.array \in Arrays => mem'[slice.array] = mm[slice.array]
    <3> DEFINE S == Route \cup {NoRoute}
               slices == {list'} \cup {header[r] : r \in Requests}
    <3>1. mm \in [Arrays -> Seq(S)] /\ mem' = Collected(mm, slices)
      BY <2>1, <2>5, <2>6
    <3> HIDE DEF S, slices
    <3>2. /\ mem' \in [Arrays -> Seq(S)]
          /\ \A slice \in slices :
               slice.array \in Arrays => mem'[slice.array] = mm[slice.array]
      BY <3>1, CollectedEffect
    <3> QED  BY <3>2 DEF S, slices
  <2>9. mem'[a] = grown
    <3>1. list' \in {list'} \cup {header[r] : r \in Requests} /\ list'.array = a
      BY <2>1
    <3> QED  BY <2>7, <2>8, <3>1
  <2>10. \A q \in Requests : header[q].array \in Arrays =>
            mem'[header[q].array] = mem[header[q].array] /\ header[q].array # a
    BY <2>1, <2>7, <2>8 DEF FreshArray
  <2>11. Live = 1 .. n /\ Live' = 1 .. n + 1
    BY <1>0, <1>1, <2>1 DEF Live
  <2>12. list' \in Slice /\ SliceInv(list)'
    <3>1. \A i \in 1 .. n + 1 : mem'[a][i] \in Route
      <4> SUFFICES ASSUME NEW i \in 1 .. n + 1 PROVE mem'[a][i] \in Route
        OBVIOUS
      <4>1. i \in 1 .. n \/ i = n + 1
        BY <1>2
      <4> QED  BY <1>2, <1>3, <2>3, <2>9, <4>1
    <3> QED  BY <1>2, <2>1, <2>2, <2>4, <2>9, <3>1, NullAssumption DEF SliceInv, Slice
  <2>13. ASSUME NEW q \in Requests PROVE SliceInv(header[q])'
    <3>1. PICK slice \in Slice : slice = header[q] /\ SliceInv(slice)
      BY <1>4
    <3>2. SliceInv(slice)'
      BY <2>10, <3>1, SliceKept
    <3> QED  BY <1>1, <3>1, <3>2 DEF SliceInv
  <2>14. At(n + 1)' = RouteOf(w) /\ \A j \in 1 .. n : At(j)' = At(j)
    BY <2>1, <2>3, <2>9 DEF At
  <2>15. list'.array = a /\ list'.len = n + 1
    BY <2>1
  <2>16. \A q \in Requests :
           /\ header[q].array \in Arrays /\ header[q].array = list'.array
                => header[q].array = list.array
           /\ (header[q].array \in Arrays
                /\ (header[q].array = list.array => header[q].len <= n))
                => \A i \in 1 .. header[q].len :
                     mem'[header[q].array][i] = mem[header[q].array][i]
    BY <2>10, <2>15
  <2>17. mu = Free /\ mu' = Free /\ IndicesOf(url[w]) = {}
    BY <1>1
  <2>18. /\ list.len = n /\ list'.len = n + 1
         /\ Live = 1 .. n /\ Live' = 1 .. n + 1
         /\ At(n + 1)' = RouteOf(w) /\ \A j \in 1 .. n : At(j)' = At(j)
    BY <1>0, <2>11, <2>14, <2>15
  <2> QED
    BY <1>0, <2>8, <2>12, <2>13, <2>16, <2>17, <2>18
<1>7. (/\ n < Capacity
       /\ mem' = [mem EXCEPT ![list.array] = ReplaceAt(@, n + 1, RouteOf(w))]
       /\ list' = [list EXCEPT !.len = n + 1])
      \/ (/\ n = Capacity
          /\ \E a \in Arrays : FreshArray(a)
          /\ \E a \in Arrays : \E grown :
               /\ FreshArray(a)
               /\ grown = [i \in 1 .. (IF n = 0 THEN 1 ELSE 2 * n) |->
                             IF i <= n THEN Elements(list)[i]
                             ELSE IF i = n + 1 THEN RouteOf(w) ELSE NoRoute]
               /\ list' = [array |-> a, len |-> n + 1]
               /\ mem' = Collected([mem EXCEPT ![a] = grown],
                                   {list'} \cup {header[r] : r \in Requests}))
  <2>1. CASE /\ n < Capacity
             /\ mem' = [mem EXCEPT ![list.array] = ReplaceAt(@, n + 1, RouteOf(w))]
             /\ list' = [list EXCEPT !.len = n + 1]
    BY <2>1
  <2>2. CASE ~(/\ n < Capacity
               /\ mem' = [mem EXCEPT ![list.array] = ReplaceAt(@, n + 1, RouteOf(w))]
               /\ list' = [list EXCEPT !.len = n + 1])
    <3>1. PICK a : a = CHOOSE b \in Arrays : FreshArray(b)
      OBVIOUS
    <3>2. /\ n = Capacity /\ \E b \in Arrays : FreshArray(b)
          /\ list' = [array |-> a, len |-> n + 1]
          /\ mem' = Collected([mem EXCEPT ![a] =
                                 [i \in 1 .. (IF n = 0 THEN 1 ELSE 2 * n) |->
                                   IF i <= n THEN Elements(list)[i]
                                   ELSE IF i = n + 1 THEN RouteOf(w) ELSE NoRoute]],
                              {list'} \cup {header[r] : r \in Requests})
      BY <1>0, <2>2, <3>1 DEF AppendRoute, RouteOf
    <3>3. a \in Arrays /\ FreshArray(a)
      BY <3>1, <3>2
    <3> QED  BY <3>2, <3>3
  <2> QED  BY <2>1, <2>2
<1> QED  BY <1>5, <1>6, <1>7
-----------------------------------------------------------------------------
(* What one step of a writer does to the requests. *)

\* A header whose routes keep their urls.
SameUrls(q) ==
    \A i \in 1 .. header[q].len :
        mem'[header[q].array][i].url = mem[header[q].array][i].url

\* A writer leaves the requests as they were, if what they read is still routes.
LEMMA RequestsKept ==
    ASSUME TableInv, UNCHANGED <<at, path, header, next, first>>,
           \A q \in Requests : SliceInv(header[q])',
           \A q \in Requests : at[q] # "scan" => lost'[q] = lost[q]
    PROVE  \A q \in Requests : RequestInv(q)'
<1> SUFFICES ASSUME NEW q \in Requests PROVE RequestInv(q)'
  OBVIOUS
<1>1. RequestInv(q) /\ SliceInv(header[q])'
  BY DEF TableInv
<1>2. /\ at'[q] = at[q] /\ path'[q] = path[q] /\ header'[q] = header[q]
      /\ next'[q] = next[q] /\ first'[q] = first[q]
  OBVIOUS
<1> QED  BY <1>1, <1>2 DEF RequestInv

\* And with the order of what they read, if the urls up to their length are the same.
LEMMA OrderKept ==
    ASSUME TableInv, OrderInv, UNCHANGED <<at, path, header, next, first, served>>,
           \A q \in Requests : at[q] # "scan" => lost'[q] = lost[q],
           \A q \in Requests :
              (at[q] = "scan" /\ lost'[q] = "nothing") =>
                /\ lost[q] = "nothing" /\ mu' = Free
                /\ header[q].array = list'.array => header[q].len <= list'.len
                /\ SameUrls(q)
    PROVE  OrderInv'
<1>1. ASSUME NEW q \in Requests PROVE ScanInv(q)'
  <2>1. /\ at'[q] = at[q] /\ path'[q] = path[q] /\ header'[q] = header[q]
        /\ next'[q] = next[q] /\ first'[q] = first[q]
    OBVIOUS
  <2> SUFFICES ASSUME at[q] = "scan", lost'[q] = "nothing" PROVE ScanInv(q)'
    BY <2>1 DEF ScanInv
  <2>2. /\ lost[q] = "nothing" /\ mu' = Free /\ SameUrls(q)
        /\ header[q].array = list'.array => header[q].len <= list'.len
    OBVIOUS
  <2>3. \A i \in 1 .. header[q].len : MatchesAt(q, i)' <=> MatchesAt(q, i)
    BY <2>1, <2>2 DEF MatchesAt, SameUrls
  <2>4. /\ \A i \in 1 .. header[q].len : i < next[q] => ~MatchesAt(q, i)
        /\ first[q] = NoUrl => \A i \in 1 .. header[q].len : ~MatchesAt(q, i)
        /\ first[q] # NoUrl =>
             \E k \in 1 .. header[q].len :
                /\ mem[header[q].array][k].url = first[q]
                /\ MatchesAt(q, k)
                /\ \A i \in 1 .. k - 1 : ~MatchesAt(q, i)
    BY <2>2 DEF OrderInv, ScanInv
  <2>5. \A i \in 1 .. header[q].len : i < next[q] => ~(MatchesAt(q, i)')
    BY <2>3, <2>4
  <2>6. first[q] = NoUrl => \A i \in 1 .. header[q].len : ~(MatchesAt(q, i)')
    BY <2>3, <2>4
  <2>7. ASSUME first[q] # NoUrl
        PROVE  \E k \in 1 .. header[q].len :
                 /\ mem'[header[q].array][k].url = first[q]
                 /\ MatchesAt(q, k)'
                 /\ \A i \in 1 .. k - 1 : ~(MatchesAt(q, i)')
    <3>1. PICK k \in 1 .. header[q].len :
            /\ mem[header[q].array][k].url = first[q]
            /\ MatchesAt(q, k) /\ \A i \in 1 .. k - 1 : ~MatchesAt(q, i)
      BY <2>4, <2>7
    <3>2. \A i \in 1 .. k - 1 : i \in 1 .. header[q].len
      BY DEF TableInv, TypeOK, Slice
    <3>3. mem'[header[q].array][k].url = first[q]
      BY <2>2, <3>1 DEF SameUrls
    <3> QED  BY <2>3, <3>1, <3>2, <3>3
  <2> QED  BY <2>1, <2>2, <2>5, <2>6, <2>7 DEF ScanInv
<1>2. FirstMatchServes'
  BY DEF OrderInv, FirstMatchServes
<1> QED  BY <1>1, <1>2 DEF OrderInv

\* The headers under a write in place.
LEMMA InPlaceHeaders ==
    ASSUME TableInv, InPlace, UNCHANGED header
    PROVE  \A q \in Requests : SliceInv(header[q])'
<1> SUFFICES ASSUME NEW q \in Requests PROVE SliceInv(header[q])'
  OBVIOUS
<1>1. PICK slice \in Slice : slice = header[q] /\ SliceInv(slice)
  BY DEF TableInv, TypeOK, RequestInv
<1>2. SliceInv(slice)'
  BY <1>1, InPlaceSlice DEF TableInv
<1> QED  BY <1>1, <1>2 DEF SliceInv

\* The writer that returns, and the others.
LEMMA ReturnKeeps ==
    ASSUME TableInv, NEW w \in Writers, Return(w),
           (mu' = mu /\ mu # w) \/ (mu = w /\ mu' = Free)
    PROVE  /\ pc' \in [Writers -> {"idle", "add", "remove", "shift"}]
           /\ url' \in [Writers -> Urls \cup {NoUrl}]
           /\ handle' \in [Writers -> Handlers \cup {NoHandler}]
           /\ hole' \in [Writers -> Nat]
           /\ mu' \in Writers \cup {Free}
           /\ raced' \subseteq Urls
           /\ \A v \in Writers : WriterInv(v)'
           /\ url'[w] = NoUrl
           /\ \A v \in Writers : v # w => /\ url'[v] = url[v] /\ pc'[v] = pc[v]
                                          /\ handle'[v] = handle[v] /\ hole'[v] = hole[v]
<1>1. /\ pc' \in [Writers -> {"idle", "add", "remove", "shift"}]
      /\ url' \in [Writers -> Urls \cup {NoUrl}]
      /\ handle' \in [Writers -> Handlers \cup {NoHandler}]
      /\ hole' \in [Writers -> Nat]
      /\ mu' \in Writers \cup {Free}
      /\ raced' \subseteq Urls
  BY DEF Return, TableInv, TypeOK
<1>2. /\ pc'[w] = "idle" /\ url'[w] = NoUrl
      /\ \A v \in Writers : v # w => /\ url'[v] = url[v] /\ pc'[v] = pc[v]
                                     /\ handle'[v] = handle[v] /\ hole'[v] = hole[v]
  BY DEF Return, TableInv, TypeOK
<1>3. mu' # w
  BY NullAssumption
<1>4. ASSUME NEW v \in Writers, v # w PROVE WriterInv(v)'
  <2>1. mu' = v <=> mu = v
    BY <1>4, NullAssumption
  <2> QED  BY <1>2, <1>4, <2>1 DEF TableInv, WriterInv
<1>5. WriterInv(w)'
  BY <1>2, <1>3 DEF WriterInv
<1> QED  BY <1>1, <1>2, <1>4, <1>5
-----------------------------------------------------------------------------
(* The steps of a writer. *)

\* A call begins with the map: the list waits for mu.
LEMMA BeginStep ==
    ASSUME TableInv, NEW w \in Writers, addHandle(w) \/ removeHandle(w)
    PROVE  TableInv' /\ (OrderInv => OrderInv')
<1>1. PICK route \in RoutesOf[w] :
        /\ pc[w] = "idle" /\ url' = [url EXCEPT ![w] = route.url]
        /\ \/ /\ rt' = [rt EXCEPT ![route.url] = route.handle]
              /\ handle' = [handle EXCEPT ![w] = route.handle]
              /\ pc' = [pc EXCEPT ![w] = "add"]
           \/ /\ rt' = [rt EXCEPT ![route.url] = NoHandler]
              /\ handle' = handle
              /\ pc' = [pc EXCEPT ![w] = "remove"]
        /\ Begin(route.url)
        /\ UNCHANGED <<list, mem, mu, hole, requestVars>>
  BY DEF addHandle, removeHandle
<1>2. route.url \in Urls /\ route.handle \in Handlers /\ route.url # NoUrl
  BY UrlsAssumption, NullAssumption
<1>3. TypeOK'
  <2>1. raced' \subseteq Urls
    BY <1>1, <1>2 DEF TableInv, TypeOK, Begin
  <2> QED  BY <1>1, <1>2, <2>1 DEF TableInv, TypeOK, requestVars, Slice
<1>4. mu # w
  BY <1>1 DEF TableInv, WriterInv
<1>5. \A v \in Writers : WriterInv(v)'
  <2>1. /\ url'[w] = route.url /\ pc'[w] \in {"add", "remove"}
        /\ pc'[w] = "add" => handle'[w] = route.handle
        /\ \A v \in Writers : v # w => /\ url'[v] = url[v] /\ pc'[v] = pc[v]
                                       /\ handle'[v] = handle[v]
    BY <1>1 DEF TableInv, TypeOK
  <2>2. WriterInv(w)'
    BY <1>1, <1>2, <1>4, <2>1 DEF WriterInv
  <2>3. ASSUME NEW v \in Writers, v # w PROVE WriterInv(v)'
    BY <1>1, <2>1, <2>3 DEF TableInv, WriterInv
  <2> QED  BY <2>2, <2>3
<1>6. ListInv'
  <2>1. mu # Free => url'[mu] = url[mu]
    BY <1>1, <1>4 DEF TableInv, TypeOK
  <2> QED  BY <1>1, <2>1 DEF TableInv, ListInv, SliceInv, Live, At
<1>7. \A q \in Requests : Still(q)
  BY <1>1 DEF requestVars, Still
<1>8. \A q \in Requests : RequestInv(q)'
  BY <1>7, StillKept DEF TableInv
<1>9. OrderInv => OrderInv'
  <2> SUFFICES ASSUME OrderInv PROVE OrderInv'
    OBVIOUS
  <2>1. \A q \in Requests : ScanInv(q)'
    BY <1>1, <1>7, StillKept DEF TableInv, OrderInv
  <2>2. FirstMatchServes'
    BY <1>1 DEF OrderInv, FirstMatchServes, requestVars
  <2> QED  BY <2>1, <2>2 DEF OrderInv
<1> QED  BY <1>3, <1>5, <1>6, <1>8, <1>9 DEF TableInv

\* The writers' steps one by one: each keeps the invariant, and the order.
LEMMA ReplaceStep ==
    ASSUME TableInv, NEW w \in Writers, ReplaceRoute(w)
    PROVE  TableInv' /\ (OrderInv => OrderInv')
<1>1. /\ InPlace /\ list' = list /\ Live' = Live /\ Live = 1 .. list.len
      /\ \E i \in Live :
           /\ At(i).url = url[w] /\ At(i)' = RouteOf(w)
           /\ \A j \in Live : j # i => At(j)' = At(j)
  BY ReplaceEffect
<1>2. /\ pc[w] = "add" /\ mu = Free /\ mu' = mu /\ Return(w) /\ mu # w
      /\ UNCHANGED <<rt, list, requestVars>>
  BY NullAssumption DEF ReplaceRoute
<1>3. \A j \in 1 .. list.len : At(j)'.url = At(j).url
  BY <1>1 DEF RouteOf
<1>4. TypeOK' /\ \A v \in Writers : WriterInv(v)'
  <2>1. /\ pc' \in [Writers -> {"idle", "add", "remove", "shift"}]
        /\ url' \in [Writers -> Urls \cup {NoUrl}]
        /\ handle' \in [Writers -> Handlers \cup {NoHandler}]
        /\ hole' \in [Writers -> Nat]
        /\ mu' \in Writers \cup {Free}
        /\ raced' \subseteq Urls
        /\ \A v \in Writers : WriterInv(v)'
    BY <1>2, ReturnKeeps
  <2>2. TypeOK'
    BY <1>1, <1>2, <2>1 DEF TableInv, TypeOK, InPlace, requestVars, Slice
  <2> QED  BY <2>1, <2>2
<1>5. ListInv'
  <2>1. SliceInv(list)'
    <3>1. PICK slice \in Slice : slice = list /\ SliceInv(slice)
      BY DEF TableInv, TypeOK, ListInv
    <3>2. SliceInv(slice)'
      BY <1>1, <3>1, InPlaceSlice DEF TableInv
    <3> QED  BY <1>1, <3>1, <3>2 DEF SliceInv
  <2>2. \A i, j \in Live : At(i)'.url = At(j)'.url => i = j
    BY <1>1, <1>3 DEF TableInv, ListInv
  <2> QED  BY <1>1, <1>2, <2>1, <2>2 DEF ListInv
<1>6. \A q \in Requests : RequestInv(q)'
  BY <1>1, <1>2, InPlaceHeaders, RequestsKept DEF requestVars
<1>7. OrderInv => OrderInv'
  <2> SUFFICES ASSUME OrderInv PROVE OrderInv'
    OBVIOUS
  <2>1. UNCHANGED <<at, path, header, next, first, served, lost>>
    BY <1>2 DEF requestVars
  <2>2. ASSUME NEW q \in Requests, at[q] = "scan", lost[q] = "nothing"
        PROVE  /\ header[q].array = list.array => header[q].len <= list.len
               /\ SameUrls(q)
    <3>1. /\ header[q].array = list.array => header[q].len <= list.len
          /\ header[q] \in Slice /\ SliceInv(header[q]) /\ list \in Slice
      BY <2>2 DEF OrderInv, ScanInv, TableInv, TypeOK, RequestInv
    <3>2. CASE header[q].array = list.array
      <4>1. \A i \in 1 .. header[q].len : i \in 1 .. list.len
        BY <3>1, <3>2 DEF Slice
      <4> QED  BY <1>1, <1>3, <3>1, <3>2, <4>1 DEF SameUrls, At
    <3>3. CASE header[q].array # list.array
      <4>1. header[q].array \in Arrays \/ header[q].len = 0
        BY <3>1 DEF Slice, SliceInv
      <4> QED  BY <1>1, <3>1, <3>3, <4>1 DEF SameUrls, InPlace
    <3> QED  BY <3>2, <3>3
  <2> QED  BY <1>2, <1>1, <2>1, <2>2, OrderKept
<1> QED  BY <1>4, <1>5, <1>6, <1>7 DEF TableInv

LEMMA AppendStep ==
    ASSUME TableInv, NEW w \in Writers, AppendRoute(w)
    PROVE  TableInv' /\ (OrderInv => OrderInv')
<1>1. /\ mem' \in [Arrays -> Seq(Route \cup {NoRoute})]
      /\ list' \in Slice
      /\ SliceInv(list)' /\ \A q \in Requests : SliceInv(header[q])'
      /\ mu = Free /\ mu' = Free /\ IndicesOf(url[w]) = {}
      /\ \A q \in Requests :
           /\ header[q].array \in Arrays /\ header[q].array = list'.array
                => header[q].array = list.array
           /\ (header[q].array \in Arrays
                /\ (header[q].array = list.array => header[q].len <= list.len))
                => \A i \in 1 .. header[q].len :
                     mem'[header[q].array][i] = mem[header[q].array][i]
  BY AppendEffect
<1>2. PICK n \in Nat :
        /\ list.len = n /\ list'.len = n + 1
        /\ Live = 1 .. n /\ Live' = 1 .. n + 1
        /\ At(n + 1)' = RouteOf(w) /\ \A j \in 1 .. n : At(j)' = At(j)
  BY AppendEffect
<1>3. /\ pc[w] = "add" /\ Return(w) /\ mu' = mu /\ mu # w
      /\ UNCHANGED <<rt, requestVars>>
  BY <1>1, NullAssumption DEF AppendRoute
<1>4. TypeOK' /\ \A v \in Writers : WriterInv(v)'
  <2>1. /\ pc' \in [Writers -> {"idle", "add", "remove", "shift"}]
        /\ url' \in [Writers -> Urls \cup {NoUrl}]
        /\ handle' \in [Writers -> Handlers \cup {NoHandler}]
        /\ hole' \in [Writers -> Nat]
        /\ mu' \in Writers \cup {Free}
        /\ raced' \subseteq Urls
        /\ \A v \in Writers : WriterInv(v)'
    BY <1>3, ReturnKeeps
  <2>2. TypeOK'
    BY <1>1, <1>3, <2>1 DEF TableInv, TypeOK, requestVars, Slice
  <2> QED  BY <2>1, <2>2
<1>5. ListInv'
  <2>1. \A i \in 1 .. n : At(i).url # url[w]
    BY <1>1, <1>2, Places DEF TableInv
  <2>2. \A i, j \in 1 .. n : At(i).url = At(j).url => i = j
    BY <1>2 DEF TableInv, ListInv
  <2>3. ASSUME NEW i \in 1 .. n + 1, NEW j \in 1 .. n + 1, At(i)'.url = At(j)'.url
        PROVE  i = j
    <3>1. (i \in 1 .. n \/ i = n + 1) /\ (j \in 1 .. n \/ j = n + 1)
      OBVIOUS
    <3>2. At(n + 1)'.url = url[w]
      BY <1>2 DEF RouteOf
    <3> QED  BY <1>2, <2>1, <2>2, <2>3, <3>1, <3>2
  <2> QED  BY <1>1, <1>2, <2>3 DEF ListInv
<1>6. \A q \in Requests : RequestInv(q)'
  BY <1>1, <1>3, RequestsKept DEF requestVars
<1>7. OrderInv => OrderInv'
  <2> SUFFICES ASSUME OrderInv PROVE OrderInv'
    OBVIOUS
  <2>1. UNCHANGED <<at, path, header, next, first, served, lost>>
    BY <1>3 DEF requestVars
  <2>2. ASSUME NEW q \in Requests, at[q] = "scan", lost[q] = "nothing"
        PROVE  /\ header[q].array = list'.array => header[q].len <= list'.len
               /\ SameUrls(q)
    <3>1. /\ header[q].array = list.array => header[q].len <= n
          /\ header[q] \in Slice /\ SliceInv(header[q])
      BY <1>2, <2>2 DEF OrderInv, ScanInv, TableInv, TypeOK, RequestInv
    <3>2. header[q].len \in Nat /\ (header[q].array \in Arrays \/ header[q].len = 0)
      BY <3>1 DEF Slice, SliceInv
    <3>3. SameUrls(q)
      BY <1>1, <1>2, <3>1, <3>2 DEF SameUrls
    <3>4. header[q].array = list'.array => header[q].len <= n + 1
      BY <1>1, <3>1, <3>2
    <3> QED  BY <1>2, <3>3, <3>4
  <2> QED  BY <1>1, <2>1, <2>2, OrderKept
<1> QED  BY <1>4, <1>5, <1>6, <1>7 DEF TableInv
LEMMA RemoveNothingStep ==
    ASSUME TableInv, NEW w \in Writers, RemoveNothing(w)
    PROVE  TableInv' /\ (OrderInv => OrderInv')
<1>1. /\ mu = Free /\ mu # w /\ Return(w)
      /\ UNCHANGED <<rt, list, mem, mu, requestVars>>
  BY NullAssumption DEF RemoveNothing, tableVars
<1>2. /\ pc' \in [Writers -> {"idle", "add", "remove", "shift"}]
      /\ url' \in [Writers -> Urls \cup {NoUrl}]
      /\ handle' \in [Writers -> Handlers \cup {NoHandler}]
      /\ hole' \in [Writers -> Nat]
      /\ raced' \subseteq Urls
      /\ \A v \in Writers : WriterInv(v)'
  BY <1>1, ReturnKeeps
<1>3. TypeOK'
  BY <1>1, <1>2 DEF TableInv, TypeOK, requestVars, Slice
<1>4. ListInv'
  BY <1>1 DEF TableInv, ListInv, SliceInv, Live, At
<1>5. \A q \in Requests : Still(q)
  BY <1>1 DEF requestVars, Still
<1>6. \A q \in Requests : RequestInv(q)'
  BY <1>5, StillKept DEF TableInv
<1>7. OrderInv => OrderInv'
  <2> SUFFICES ASSUME OrderInv PROVE OrderInv'
    OBVIOUS
  <2>1. \A q \in Requests : ScanInv(q)'
    BY <1>1, <1>5, StillKept DEF TableInv, OrderInv
  <2>2. FirstMatchServes'
    BY <1>1 DEF OrderInv, FirstMatchServes, requestVars
  <2> QED  BY <2>1, <2>2 DEF OrderInv
<1> QED  BY <1>2, <1>3, <1>4, <1>6, <1>7 DEF TableInv

\* From here on every request that scans has lost something.
LEMMA FindHoleStep ==
    ASSUME TableInv, NEW w \in Writers, FindHole(w)
    PROVE  TableInv' /\ (OrderInv => OrderInv')
<1>1. /\ UNCHANGED <<list, mem>> /\ mu = Free /\ mu' = w /\ mu' # Free
      /\ \A j : At(j)' = At(j)
  BY FindHoleEffect, NullAssumption
<1>2. PICK i \in Live :
        /\ hole' = [hole EXCEPT ![w] = i] /\ hole'[w] = i
        /\ At(i).url = url[w]
        /\ Live = 1 .. list.len /\ Live' = Live \ {i}
  BY FindHoleEffect
<1>3. /\ pc[w] = "remove" /\ pc' = [pc EXCEPT ![w] = "shift"]
      /\ UNCHANGED <<rt, url, handle, raced, at, path, header, next, served, first>>
      /\ lost' = [r \in Requests |->
                    IF at[r] # "scan" \/ lost[r] = "first" THEN lost[r]
                    ELSE IF first[r] = url[w] THEN "first" ELSE "another"]
  BY DEF FindHole
<1>4. i \in Nat
  BY <1>2 DEF TableInv, TypeOK, Slice
<1>5. TypeOK'
  <2>1. lost' \in [Requests -> {"nothing", "another", "first"}]
    BY <1>3 DEF TableInv, TypeOK
  <2>2. hole' \in [Writers -> Nat] /\ pc' \in [Writers -> {"idle", "add", "remove", "shift"}]
    BY <1>2, <1>3, <1>4 DEF TableInv, TypeOK
  <2> QED  BY <1>1, <1>3, <2>1, <2>2 DEF TableInv, TypeOK, Slice
<1>6. \A v \in Writers : WriterInv(v)'
  <2> SUFFICES ASSUME NEW v \in Writers PROVE WriterInv(v)'
    OBVIOUS
  <2>1. pc'[w] = "shift" /\ (v # w => pc'[v] = pc[v])
    BY <1>3 DEF TableInv, TypeOK
  <2>2. mu # v /\ WriterInv(v)
    BY <1>1, NullAssumption DEF TableInv
  <2> QED  BY <1>1, <1>3, <2>1, <2>2 DEF WriterInv
<1>7. ListInv'
  <2>1. SliceInv(list)'
    BY <1>1 DEF TableInv, ListInv, SliceInv
  <2>2. \A j, k \in Live : At(j).url = At(k).url => j = k
    BY DEF TableInv, ListInv
  <2>3. \A j \in Live' : At(j).url # url[w]
    BY <1>2, <2>2
  <2>4. /\ \A j, k \in Live' : At(j)'.url = At(k)'.url => j = k
        /\ \A j \in Live' : At(j)'.url # url'[w]
        /\ hole'[w] \in 1 .. list'.len
        /\ At(i)'.url = url'[w]
    BY <1>1, <1>2, <1>3, <2>2, <2>3
  <2>5. (At(hole[mu]).url = url[mu])'
    BY <1>1, <1>2, <2>4 DEF At
  <2> QED  BY <1>1, <2>1, <2>4, <2>5 DEF ListInv
<1>8. \A q \in Requests : SliceInv(header[q])'
  BY <1>1, <1>3 DEF TableInv, RequestInv, SliceInv
<1>9. /\ \A q \in Requests : at[q] # "scan" => lost'[q] = lost[q]
      /\ \A q \in Requests : at[q] = "scan" => lost'[q] # "nothing"
  BY <1>3 DEF TableInv, TypeOK
<1>10. \A q \in Requests : RequestInv(q)'
  BY <1>3, <1>8, <1>9, RequestsKept
<1>11. OrderInv => OrderInv'
  BY <1>3, <1>9, OrderKept
<1> QED  BY <1>5, <1>6, <1>7, <1>10, <1>11 DEF TableInv

\* While mu is held, nobody who scans has lost nothing.
LEMMA HeldStep ==
    ASSUME TableInv, OrderInv, mu # Free,
           UNCHANGED <<at, path, header, next, first, served, lost>>
    PROVE  OrderInv'
<1>1. \A q \in Requests : ~(at[q] = "scan" /\ lost'[q] = "nothing")
  BY DEF OrderInv, ScanInv
<1> QED  BY <1>1, OrderKept

LEMMA ShiftStep ==
    ASSUME TableInv, NEW w \in Writers, Shift(w)
    PROVE  TableInv' /\ (OrderInv => OrderInv')
<1>1. InPlace /\ list' = list /\ mu' = w /\ mu = w /\ w # Free
  BY ShiftEffect, NullAssumption
<1>2. PICK i \in 1 .. list.len :
        /\ hole[w] = i /\ hole'[w] = i + 1 /\ i + 1 \in 1 .. list.len
        /\ Live = (1 .. list.len) \ {i}
        /\ Live' = (1 .. list.len) \ {i + 1}
        /\ At(i)' = At(i + 1)
        /\ \A j \in 1 .. list.len : j # i => At(j)' = At(j)
  BY ShiftEffect
<1>3. /\ hole' = [hole EXCEPT ![w] = hole[w] + 1]
      /\ UNCHANGED <<rt, pc, url, handle, raced, requestVars>>
  BY DEF Shift
<1>4. list.len \in Nat /\ i + 1 # i
  BY DEF TableInv, TypeOK, Slice
<1>5. TypeOK'
  <2>1. hole' \in [Writers -> Nat]
    BY <1>3 DEF TableInv, TypeOK
  <2> QED  BY <1>1, <1>3, <2>1 DEF TableInv, TypeOK, InPlace, requestVars, Slice
<1>6. \A v \in Writers : WriterInv(v)'
  BY <1>1, <1>3 DEF TableInv, WriterInv
<1>7. ListInv'
  <2>1. SliceInv(list)'
    <3>1. PICK slice \in Slice : slice = list /\ SliceInv(slice)
      BY DEF TableInv, TypeOK, ListInv
    <3>2. SliceInv(slice)'
      BY <1>1, <3>1, InPlaceSlice DEF TableInv
    <3> QED  BY <1>1, <3>1, <3>2 DEF SliceInv
  <2>2. /\ \A j, k \in Live : At(j).url = At(k).url => j = k
        /\ \A j \in Live : At(j).url # url[w]
    BY <1>1 DEF TableInv, ListInv
  <2>3. i + 1 \in Live
    BY <1>2, <1>4
  <2>4. ASSUME NEW j \in Live'
        PROVE  \/ j = i /\ At(j)' = At(i + 1)
               \/ j \in Live /\ j # i /\ j # i + 1 /\ At(j)' = At(j)
    BY <1>2, <2>4
  <2>5. \A j, k \in Live' : At(j)'.url = At(k)'.url => j = k
    BY <2>2, <2>3, <2>4
  <2>6. \A j \in Live' : At(j)'.url # url'[w]
    BY <1>3, <2>2, <2>3, <2>4
  <2>7. hole'[w] > 1 /\ (At(hole[mu]) = At(hole[mu] - 1))'
    <3>1. At(i + 1)' = At(i)'
      BY <1>2, <1>4
    <3>2. hole'[mu'] = i + 1 /\ hole'[mu'] - 1 = i /\ i + 1 > 1
      BY <1>1, <1>2
    <3>3. At(i + 1)' = mem'[list'.array][i + 1] /\ At(i)' = mem'[list'.array][i]
      BY DEF At
    <3> QED  BY <1>1, <3>1, <3>2, <3>3 DEF At
  <2>8. hole'[mu'] \in 1 .. list'.len
    BY <1>1, <1>2
  <2> QED  BY <1>1, <2>1, <2>5, <2>6, <2>7, <2>8 DEF ListInv
<1>8. \A q \in Requests : RequestInv(q)'
  BY <1>1, <1>3, InPlaceHeaders, RequestsKept DEF requestVars
<1>9. OrderInv => OrderInv'
  BY <1>1, <1>3, HeldStep DEF requestVars
<1> QED  BY <1>5, <1>6, <1>7, <1>8, <1>9 DEF TableInv

LEMMA ShortenStep ==
    ASSUME TableInv, NEW w \in Writers, Shorten(w)
    PROVE  TableInv' /\ (OrderInv => OrderInv')
<1>1. /\ mem' = mem /\ mu = w /\ mu' = Free /\ mu # Free
      /\ hole[w] = list.len /\ list.len \in Nat /\ list.len > 0
      /\ list' = [array |-> list.array, len |-> list.len - 1]
      /\ Live = 1 .. list.len - 1 /\ Live' = Live
      /\ \A j : At(j)' = At(j)
  BY ShortenEffect, NullAssumption
<1>2. Return(w) /\ UNCHANGED <<rt, requestVars>>
  BY DEF Shorten
<1>3. list'.array = list.array /\ list'.len = list.len - 1 /\ list'.len \in Nat
  BY <1>1
<1>4. TypeOK' /\ \A v \in Writers : WriterInv(v)'
  <2>1. /\ pc' \in [Writers -> {"idle", "add", "remove", "shift"}]
        /\ url' \in [Writers -> Urls \cup {NoUrl}]
        /\ handle' \in [Writers -> Handlers \cup {NoHandler}]
        /\ hole' \in [Writers -> Nat]
        /\ mu' \in Writers \cup {Free}
        /\ raced' \subseteq Urls
        /\ \A v \in Writers : WriterInv(v)'
    BY <1>1, <1>2, ReturnKeeps
  <2>2. list' \in Slice
    BY <1>1, <1>3 DEF TableInv, TypeOK, Slice
  <2>3. TypeOK'
    BY <1>1, <1>2, <2>1, <2>2 DEF TableInv, TypeOK, requestVars, Slice
  <2> QED  BY <2>1, <2>3
<1>5. ListInv'
  <2>1. SliceInv(list)'
    <3>1. list.array \in Arrays /\ list.array # NoArray /\ list.len <= Len(mem[list.array])
      BY <1>1, Places, NullAssumption DEF TableInv
    <3>2. Len(mem[list.array]) \in Nat
      BY <3>1, Places DEF TableInv
    <3>3. \A i \in 1 .. list.len - 1 : mem[list.array][i] \in Route
      <4>1. \A i \in 1 .. list.len - 1 : i \in 1 .. list.len
        BY <1>1
      <4> QED  BY <3>1, <4>1 DEF TableInv, ListInv, SliceInv
    <3>4. list.len - 1 <= Len(mem[list.array])
      BY <1>1, <3>1, <3>2
    <3> QED  BY <1>1, <1>3, <3>1, <3>3, <3>4 DEF SliceInv
  <2>2. \A i, j \in Live' : At(i)'.url = At(j)'.url => i = j
    BY <1>1 DEF TableInv, ListInv
  <2> QED  BY <1>1, <2>1, <2>2 DEF ListInv
<1>6. \A q \in Requests : SliceInv(header[q])'
  BY <1>1, <1>2 DEF TableInv, RequestInv, SliceInv, requestVars
<1>7. \A q \in Requests : RequestInv(q)'
  BY <1>2, <1>6, RequestsKept DEF requestVars
<1>8. OrderInv => OrderInv'
  BY <1>1, <1>2, HeldStep DEF requestVars
<1> QED  BY <1>4, <1>5, <1>7, <1>8 DEF TableInv

-----------------------------------------------------------------------------
(* The invariants. *)

LEMMA TableInit == Init => TableInv /\ OrderInv
<1> SUFFICES ASSUME Init PROVE TableInv /\ OrderInv
  OBVIOUS
<1>1. TypeOK
  <2>1. Empty \in Slice /\ <<>> \in Seq(Route \cup {NoRoute})
    BY EmptySeq DEF Empty, Slice
  <2> QED  BY <2>1 DEF Init, TypeOK
<1>2. \A w \in Writers : WriterInv(w)
  BY NullAssumption DEF Init, WriterInv
<1>3. SliceInv(list) /\ \A r \in Requests : SliceInv(header[r])
  BY DEF Init, SliceInv, Empty
<1>4. Live = {}
  BY DEF Init, Live, Empty
<1>5. ListInv
  BY <1>3, <1>4 DEF Init, ListInv
<1>6. \A r \in Requests : RequestInv(r) /\ ScanInv(r)
  BY <1>3 DEF Init, RequestInv, ScanInv
<1>7. FirstMatchServes
  BY DEF Init, FirstMatchServes
<1> QED  BY <1>1, <1>2, <1>5, <1>6, <1>7 DEF TableInv, OrderInv

\* All steps of requests.
LEMMA ReaderStep ==
    ASSUME TableInv, NEW r \in Requests,
           ServeHTTP(r) \/ LoadExact(r) \/ CopyList(r) \/ Scan(r) \/ NotFound(r) \/ Done(r)
    PROVE  TableInv' /\ Reading /\ (OrderInv => OrderInv')
<1>1. CASE ServeHTTP(r) \/ Done(r)
  BY <1>1, ServeHTTPStep
<1>2. CASE LoadExact(r)
  BY <1>2, LoadExactStep
<1>3. CASE CopyList(r)
  BY <1>3, CopyListStep
<1>4. CASE Scan(r)
  BY <1>4, ScanStep
<1>5. CASE NotFound(r)
  BY <1>5, NotFoundStep
<1> QED  BY <1>1, <1>2, <1>3, <1>4, <1>5

\* A step that changes nothing is a reading of nothing.
LEMMA StutterStep ==
    ASSUME TableInv, UNCHANGED vars
    PROVE  TableInv' /\ Reading /\ (OrderInv => OrderInv')
<1>1. UNCHANGED <<rt, list, mem, mu, writerVars, requestVars>>
  BY DEF vars, tableVars
<1>2. Reading /\ \A q \in Requests : Still(q)
  BY <1>1 DEF Reading, Still, requestVars
<1>3. TypeOK'
  BY <1>1 DEF TableInv, TypeOK, writerVars, requestVars, Slice
<1>4. \A q \in Requests : RequestInv(q)'
  BY <1>2, StillKept DEF TableInv
<1>5. TableInv'
  BY <1>2, <1>3, <1>4, ReadingKeeps DEF TableInv
<1>6. OrderInv => OrderInv'
  <2> SUFFICES ASSUME OrderInv PROVE OrderInv'
    OBVIOUS
  <2>1. \A q \in Requests : ScanInv(q)'
    BY <1>1, <1>2, StillKept DEF TableInv, OrderInv
  <2>2. FirstMatchServes'
    BY <1>1 DEF OrderInv, FirstMatchServes, requestVars
  <2> QED  BY <2>1, <2>2 DEF OrderInv
<1> QED  BY <1>2, <1>5, <1>6

\* All steps.
LEMMA TableStep ==
    ASSUME TableInv, [Next]_vars
    PROVE  TableInv' /\ (OrderInv => OrderInv')
<1>1. ASSUME NEW w \in Writers,
             \/ addHandle(w) \/ ReplaceRoute(w) \/ AppendRoute(w)
             \/ removeHandle(w) \/ RemoveNothing(w) \/ FindHole(w) \/ Shift(w) \/ Shorten(w)
      PROVE  TableInv' /\ (OrderInv => OrderInv')
  BY <1>1, BeginStep, ReplaceStep, AppendStep, RemoveNothingStep, FindHoleStep, ShiftStep,
     ShortenStep
<1>2. ASSUME NEW r \in Requests,
             ServeHTTP(r) \/ LoadExact(r) \/ CopyList(r) \/ Scan(r) \/ NotFound(r) \/ Done(r)
      PROVE  TableInv' /\ (OrderInv => OrderInv')
  BY <1>2, ReaderStep
<1>3. CASE UNCHANGED vars
  BY <1>3, StutterStep
<1> QED  BY <1>1, <1>2, <1>3 DEF Next

\* Both invariants hold in every state of every run of the route table.
THEOREM TableInvariant == Spec => [](TableInv /\ OrderInv)
BY TableInit, TableStep, PTL DEF Spec

\* Every variable keeps its type: no writer leaves its array, and no request reads
\* past the end of one or finds a place without a route.
THEOREM TableTypes == Spec => []TypeOK
<1>1. TableInv => TypeOK
  BY DEF TableInv
<1> QED  BY <1>1, TableInvariant, PTL

\* A request from which nothing was removed is served the first match of the list
\* it copied, or nothing if there was none.
THEOREM FirstMatch == Spec => []FirstMatchServes
<1>1. OrderInv => FirstMatchServes
  BY DEF OrderInv
<1> QED  BY <1>1, TableInvariant, PTL

-----------------------------------------------------------------------------
(* The map and the list. *)

\* The list has the same routes for u before and after a step, wherever they are.
SameFor(u) ==
    /\ \A i \in Live : At(i).url = u => \E j \in Live' : At(j)' = At(i)
    /\ \A j \in Live' : At(j)'.url = u => \E i \in Live : At(i) = At(j)'

\* Nobody enters or leaves a call for u, nor changes what it registers.
SameCalls(u) ==
    \A v \in Writers :
        /\ url'[v] = u <=> url[v] = u
        /\ url[v] = u => (pc'[v] = "add" <=> pc[v] = "add") /\ handle'[v] = handle[v]

\* A step that is not about u.
LEMMA OthersAgree ==
    ASSUME NEW u \in Urls, AgreeInv(u), rt'[u] = rt[u], SameCalls(u), SameFor(u)
    PROVE  AgreeInv(u)'
<1>1. ASSUME \A w \in Writers : url'[w] # u
      PROVE  IF rt[u] = NoHandler THEN \A i \in Live' : At(i)'.url # u
             ELSE \E i \in Live' : At(i)'.url = u /\ At(i)'.handle = rt[u]
  <2>1. IF rt[u] = NoHandler THEN \A i \in Live : At(i).url # u
        ELSE \E i \in Live : At(i).url = u /\ At(i).handle = rt[u]
    BY <1>1 DEF AgreeInv, SameCalls
  <2>2. CASE rt[u] = NoHandler
    BY <2>1, <2>2 DEF SameFor
  <2>3. CASE rt[u] # NoHandler
    BY <2>1, <2>3 DEF SameFor
  <2> QED  BY <2>2, <2>3
<1>2. \A w \in Writers : url'[w] = u =>
        rt[u] = IF pc'[w] = "add" THEN handle'[w] ELSE NoHandler
  BY DEF AgreeInv, SameCalls
<1>3. \A v, w \in Writers : url'[v] = u /\ url'[w] = u => v = w
  BY DEF AgreeInv, SameCalls
<1> QED  BY <1>1, <1>2, <1>3 DEF AgreeInv

\* A call begins with the map, and its url is not compared until it ends: alone,
\* whatever came before, or u is excepted.
LEMMA BeginAgrees ==
    ASSUME TableInv, MapInv, NEW w \in Writers, addHandle(w) \/ removeHandle(w),
           NEW u \in Urls, u \notin raced'
    PROVE  AgreeInv(u)'
<1>1. PICK x \in RoutesOf[w] :
        /\ pc[w] = "idle" /\ url' = [url EXCEPT ![w] = x.url] /\ Begin(x.url)
        /\ \/ /\ rt' = [rt EXCEPT ![x.url] = x.handle]
              /\ handle' = [handle EXCEPT ![w] = x.handle]
              /\ pc' = [pc EXCEPT ![w] = "add"]
           \/ /\ rt' = [rt EXCEPT ![x.url] = NoHandler]
              /\ handle' = handle
              /\ pc' = [pc EXCEPT ![w] = "remove"]
        /\ UNCHANGED <<list, mem, mu, hole>>
  BY DEF addHandle, removeHandle
<1>2. x.url \in Urls /\ x.handle \in Handlers /\ url[w] = NoUrl /\ u # NoUrl
  BY <1>1, UrlsAssumption, NullAssumption DEF TableInv, WriterInv
<1>3. CASE x.url = u
  <2>1. \A v \in Writers : url[v] # u
    BY <1>1, <1>3 DEF Begin
  <2>2. \A v \in Writers : v # w => url'[v] # u
    BY <1>1, <2>1 DEF TableInv, TypeOK
  <2>3. url'[w] = u /\ rt'[u] = IF pc'[w] = "add" THEN handle'[w] ELSE NoHandler
    BY <1>1, <1>2, <1>3 DEF TableInv, TypeOK
  <2> QED  BY <2>2, <2>3 DEF AgreeInv
<1>4. CASE x.url # u
  <2>1. AgreeInv(u)
    BY <1>1, <1>4 DEF MapInv, Begin
  <2>2. rt'[u] = rt[u] /\ SameCalls(u)
    BY <1>1, <1>2, <1>4 DEF TableInv, TypeOK, SameCalls
  <2>3. SameFor(u)
    BY <1>1 DEF SameFor, Live, At
  <2> QED  BY <2>1, <2>2, <2>3, OthersAgree
<1> QED  BY <1>3, <1>4

\* A writer that returns leaves the calls of the others as they are.
LEMMA ReturnCalls ==
    ASSUME TableInv, NEW w \in Writers, Return(w), NEW u \in Urls
    PROVE  /\ url[w] # u => SameCalls(u)
           /\ AgreeInv(u) /\ url[w] = u => \A v \in Writers : url'[v] # u
<1>1. /\ url'[w] = NoUrl /\ u # NoUrl
      /\ \A v \in Writers : v # w => /\ url'[v] = url[v] /\ pc'[v] = pc[v]
                                     /\ handle'[v] = handle[v]
  BY NullAssumption DEF TableInv, TypeOK, Return
<1>2. url[w] # u => SameCalls(u)
  BY <1>1 DEF SameCalls
<1>3. ASSUME AgreeInv(u), url[w] = u, NEW v \in Writers PROVE url'[v] # u
  BY <1>1, <1>3 DEF AgreeInv
<1> QED  BY <1>2, <1>3

\* The list follows the map: a handler that is replaced,
LEMMA ReplaceAgrees ==
    ASSUME TableInv, NEW w \in Writers, ReplaceRoute(w),
           NEW u \in Urls, AgreeInv(u)
    PROVE  AgreeInv(u)'
<1>1. PICK i \in Live :
        /\ At(i).url = url[w] /\ At(i)' = RouteOf(w) /\ Live' = Live
        /\ \A j \in Live : j # i => At(j)' = At(j)
  BY ReplaceEffect
<1>2. pc[w] = "add" /\ Return(w) /\ rt' = rt /\ handle[w] \in Handlers
  BY DEF ReplaceRoute, TableInv, WriterInv
<1>3. CASE url[w] = u
  <2>1. rt'[u] = handle[w] /\ rt'[u] # NoHandler
    BY <1>2, <1>3, NullAssumption DEF AgreeInv
  <2>2. \A v \in Writers : url'[v] # u
    BY <1>2, <1>3, ReturnCalls
  <2>3. i \in Live' /\ At(i)'.url = u /\ At(i)'.handle = rt'[u]
    BY <1>1, <1>3, <2>1 DEF RouteOf
  <2> QED  BY <2>1, <2>2, <2>3 DEF AgreeInv
<1>4. CASE url[w] # u
  <2>1. SameFor(u)
    BY <1>1, <1>4 DEF SameFor, RouteOf
  <2> QED  BY <1>2, <1>4, <2>1, ReturnCalls, OthersAgree
<1> QED  BY <1>3, <1>4

\* and a route that is appended.
LEMMA AppendAgrees ==
    ASSUME TableInv, NEW w \in Writers, AppendRoute(w),
           NEW u \in Urls, AgreeInv(u)
    PROVE  AgreeInv(u)'
<1>1. PICK n \in Nat :
        /\ Live = 1 .. n /\ Live' = 1 .. n + 1
        /\ At(n + 1)' = RouteOf(w) /\ \A j \in 1 .. n : At(j)' = At(j)
  BY AppendEffect
<1>2. pc[w] = "add" /\ Return(w) /\ rt' = rt /\ handle[w] \in Handlers
  BY DEF AppendRoute, TableInv, WriterInv
<1>3. n + 1 \in Live' /\ \A j \in Live' : j \in Live \/ j = n + 1
  BY <1>1
<1>4. CASE url[w] = u
  <2>1. rt'[u] = handle[w] /\ rt'[u] # NoHandler
    BY <1>2, <1>4, NullAssumption DEF AgreeInv
  <2>2. \A v \in Writers : url'[v] # u
    BY <1>2, <1>4, ReturnCalls
  <2>3. At(n + 1)'.url = u /\ At(n + 1)'.handle = rt'[u]
    BY <1>1, <1>4, <2>1 DEF RouteOf
  <2> QED  BY <1>3, <2>1, <2>2, <2>3 DEF AgreeInv
<1>5. CASE url[w] # u
  <2>1. At(n + 1)'.url # u /\ \A j \in Live : j \in Live'
    BY <1>1, <1>5 DEF RouteOf
  <2>2. SameFor(u)
    BY <1>1, <1>3, <2>1 DEF SameFor
  <2> QED  BY <1>2, <1>5, <2>2, ReturnCalls, OthersAgree
<1> QED  BY <1>4, <1>5

\* A removal, whether it finds the url at once, not at all, or after the shifts.
LEMMA RemoveAgrees ==
    ASSUME TableInv, NEW w \in Writers,
           RemoveNothing(w) \/ FindHole(w) \/ Shift(w) \/ Shorten(w),
           NEW u \in Urls, AgreeInv(u)
    PROVE  AgreeInv(u)'
<1>1. CASE RemoveNothing(w)
  <2>1. /\ Return(w) /\ pc[w] = "remove" /\ mu = Free
        /\ UNCHANGED <<rt, list, mem, mu>>
    BY <1>1 DEF RemoveNothing, tableVars
  <2>2. Live = 1 .. list.len /\ Live' = Live /\ \A i : At(i)' = At(i)
    BY <2>1 DEF Live, At
  <2>3. \A i \in Live : At(i).url # url[w]
    BY <1>1, <2>2, Places DEF RemoveNothing, TableInv
  <2>4. CASE url[w] = u
    <3>1. rt'[u] = NoHandler
      BY <2>1, <2>4 DEF AgreeInv
    <3>2. \A v \in Writers : url'[v] # u
      BY <2>1, <2>4, ReturnCalls
    <3> QED  BY <2>2, <2>3, <2>4, <3>1, <3>2 DEF AgreeInv
  <2>5. CASE url[w] # u
    BY <2>1, <2>2, <2>5, ReturnCalls, OthersAgree DEF SameFor
  <2> QED  BY <2>4, <2>5
<1>2. CASE FindHole(w)
  <2>1. PICK i \in Live : /\ At(i).url = url[w] /\ Live' = Live \ {i}
                          /\ \A j : At(j)' = At(j)
    BY <1>2, FindHoleEffect
  <2>2. /\ pc[w] = "remove" /\ pc' = [pc EXCEPT ![w] = "shift"]
        /\ UNCHANGED <<rt, url, handle>>
    BY <1>2 DEF FindHole
  <2>3. \A v \in Writers : pc'[v] = "add" <=> pc[v] = "add"
    BY <2>2 DEF TableInv, TypeOK
  <2>4. CASE url[w] = u
    BY <2>2, <2>3, <2>4 DEF AgreeInv
  <2>5. CASE url[w] # u
    <3>1. SameFor(u) /\ SameCalls(u)
      BY <2>1, <2>2, <2>3, <2>5 DEF SameFor, SameCalls
    <3> QED  BY <2>2, <3>1, OthersAgree
  <2> QED  BY <2>4, <2>5
<1>3. CASE Shift(w)
  <2>1. PICK i \in 1 .. list.len :
                /\ i + 1 \in 1 .. list.len
                /\ Live = (1 .. list.len) \ {i}
                /\ Live' = (1 .. list.len) \ {i + 1}
                /\ At(i)' = At(i + 1)
                /\ \A j \in 1 .. list.len : j # i => At(j)' = At(j)
    BY <1>3, ShiftEffect
  <2>2. i \in Live' /\ i + 1 \in Live
    BY <2>1
  <2>3. /\ \A j \in Live : j = i + 1 \/ (j \in Live' /\ At(j)' = At(j))
        /\ \A j \in Live' : j = i \/ (j \in Live /\ At(j)' = At(j))
    BY <2>1
  <2>4. SameFor(u)
    BY <2>1, <2>2, <2>3 DEF SameFor
  <2>5. UNCHANGED <<rt, pc, url, handle>>
    BY <1>3 DEF Shift
  <2> QED  BY <2>4, <2>5, OthersAgree DEF SameCalls
<1>4. CASE Shorten(w)
  <2>1. mu = w /\ mu # Free /\ Live' = Live /\ \A j : At(j)' = At(j)
    BY <1>4, ShortenEffect, NullAssumption
  <2>2. pc[w] = "shift" /\ Return(w) /\ UNCHANGED rt
    BY <1>4 DEF Shorten
  <2>3. CASE url[w] = u
    <3>1. rt'[u] = NoHandler
      BY <2>2, <2>3 DEF AgreeInv
    <3>2. \A v \in Writers : url'[v] # u
      BY <2>2, <2>3, ReturnCalls
    <3>3. \A i \in Live : At(i).url # u
      BY <2>1, <2>3 DEF TableInv, ListInv
    <3> QED  BY <2>1, <3>1, <3>2, <3>3 DEF AgreeInv
  <2>4. CASE url[w] # u
    BY <2>1, <2>2, <2>4, ReturnCalls, OthersAgree DEF SameFor
  <2> QED  BY <2>3, <2>4
<1> QED  BY <1>1, <1>2, <1>3, <1>4

\* Requests change neither.
LEMMA ReadingAgrees ==
    ASSUME TableInv, Reading, NEW u \in Urls, AgreeInv(u)
    PROVE  AgreeInv(u)'
<1>1. SameFor(u)
  BY ReadingKeeps DEF SameFor
<1>2. rt'[u] = rt[u] /\ SameCalls(u)
  BY DEF Reading, writerVars, SameCalls
<1> QED  BY <1>1, <1>2, OthersAgree

\* All steps keep map and list as one, url by url.
LEMMA MapStep ==
    ASSUME TableInv, MapInv, [Next]_vars
    PROVE  MapInv'
<1> SUFFICES ASSUME NEW u \in Urls, u \notin raced' PROVE AgreeInv(u)'
  BY DEF MapInv
<1>1. ASSUME NEW w \in Writers, addHandle(w) \/ removeHandle(w)
      PROVE  AgreeInv(u)'
  BY <1>1, BeginAgrees
<1>2. ASSUME raced' = raced PROVE AgreeInv(u)
  BY <1>2 DEF MapInv
<1>3. ASSUME NEW w \in Writers,
             \/ ReplaceRoute(w) \/ AppendRoute(w)
             \/ RemoveNothing(w) \/ FindHole(w) \/ Shift(w) \/ Shorten(w)
      PROVE  AgreeInv(u)'
  <2>1. raced' = raced
    BY <1>3 DEF ReplaceRoute, AppendRoute, RemoveNothing, FindHole, Shift, Shorten, Return
  <2> QED  BY <1>2, <1>3, <2>1, ReplaceAgrees, AppendAgrees, RemoveAgrees
<1>4. ASSUME NEW r \in Requests,
             ServeHTTP(r) \/ LoadExact(r) \/ CopyList(r) \/ Scan(r) \/ NotFound(r) \/ Done(r)
      PROVE  AgreeInv(u)'
  <2>1. Reading
    BY <1>4, ReaderStep
  <2> QED  BY <1>2, <2>1, ReadingAgrees DEF Reading, writerVars
<1>5. CASE UNCHANGED vars
  <2>1. Reading
    BY <1>5, StutterStep
  <2> QED  BY <1>2, <2>1, ReadingAgrees DEF Reading, writerVars
<1> QED  BY <1>1, <1>3, <1>4, <1>5 DEF Next

\* For every url but those of which two calls overlapped: in a call for it the map
\* is ahead of the list, and outside they agree.  HandleFunc stores in the map
\* before it locks the list (route.go:116), so the exception is needed; a call that
\* begins alone ends it.
THEOREM MapInvariant == Spec => []MapInv
<1>1. Init => MapInv
  <2> SUFFICES ASSUME Init PROVE MapInv
    OBVIOUS
  <2>1. Live = {}
    BY DEF Init, Live, Empty
  <2>2. \A u \in Urls : rt[u] = NoHandler /\ \A w \in Writers : url[w] # u
    BY NullAssumption DEF Init
  <2> QED  BY <2>1, <2>2, NullAssumption DEF MapInv, AgreeInv
<1> QED  BY <1>1, MapStep, TableInvariant, PTL DEF Spec

\* However many goroutines register and remove the same url, the map and the list
\* agree on it outside the calls for it, and it is at one place or at none, once a
\* call for it began that no other overlapped.
THEOREM MapAndListAgree == Spec => []TablesAgree
<1>1. ASSUME TableInv, MapInv PROVE TablesAgree
  <2> SUFFICES ASSUME NEW u \in Urls \ raced, \A w \in Writers : url[w] # u
               PROVE  IF mu # Free THEN (rt[u] = NoHandler) = (IndicesOf(u) = {})
                      ELSE IF rt[u] = NoHandler THEN IndicesOf(u) = {}
                      ELSE \E i \in IndicesOf(u) :
                             Elements(list)[i].handle = rt[u] /\ IndicesOf(u) = {i}
    BY DEF TablesAgree
  <2>1. /\ IndicesOf(u) = {i \in 1 .. list.len : At(i).url = u}
        /\ \A i \in 1 .. list.len : Elements(list)[i] = At(i)
    BY <1>1, Places DEF TableInv
  <2>2. IF rt[u] = NoHandler THEN \A i \in Live : At(i).url # u
        ELSE \E i \in Live : At(i).url = u /\ At(i).handle = rt[u]
    BY <1>1 DEF MapInv, AgreeInv
  <2>3. Live \subseteq 1 .. list.len /\ \A i, j \in Live : At(i).url = At(j).url => i = j
    BY <1>1 DEF Live, TableInv, ListInv
  <2>4. CASE mu = Free
    <3>1. Live = 1 .. list.len
      BY <2>4 DEF Live
    <3> QED  BY <2>1, <2>2, <2>3, <2>4, <3>1
  <2>5. CASE mu # Free
    <3>1. /\ hole[mu] \in 1 .. list.len
          /\ \/ At(hole[mu]).url = url[mu]
             \/ hole[mu] > 1 /\ At(hole[mu]) = At(hole[mu] - 1)
      BY <1>1, <2>5 DEF TableInv, ListInv
    <3>2. url[mu] # u /\ list.len \in Nat
      BY <1>1, <2>5 DEF TableInv, TypeOK, Slice
    <3>3. Live = (1 .. list.len) \ {hole[mu]}
      BY <2>5 DEF Live
    <3>4. (\A i \in Live : At(i).url # u) => At(hole[mu]).url # u
      <4>1. hole[mu] > 1 => hole[mu] - 1 \in Live
        BY <3>1, <3>2, <3>3
      <4> QED  BY <3>1, <3>2, <4>1
    <3>5. (\A i \in Live : At(i).url # u) => IndicesOf(u) = {}
      BY <2>1, <3>3, <3>4
    <3>6. (\E i \in Live : At(i).url = u) => IndicesOf(u) # {}
      BY <2>1, <2>3
    <3> QED  BY <2>2, <2>5, <3>5, <3>6
  <2> QED  BY <2>4, <2>5
<1> QED  BY <1>1, TableInvariant, MapInvariant, PTL

-----------------------------------------------------------------------------
(* The routes the list stands for. *)

\* What is left of a sequence without one of its elements.
LEMMA Removed ==
    ASSUME NEW S, NEW s \in Seq(S), NEW i \in 1 .. Len(s)
    PROVE  /\ RemoveAt(s, i) \in Seq(S)
           /\ Len(RemoveAt(s, i)) = Len(s) - 1
           /\ \A j \in 1 .. Len(s) - 1 :
                RemoveAt(s, i)[j] = IF j < i THEN s[j] ELSE s[j + 1]
<1>1. PICK n \in Nat : n = Len(s)
  BY LenProperties
<1>2. PICK p, q : p = SubSeq(s, 1, i - 1) /\ q = SubSeq(s, i + 1, Len(s))
  OBVIOUS
<1>3. \A j \in 1 .. n : s[j] \in S
  BY <1>1, ElementOfSeq
<1>4. /\ p \in Seq(S) /\ Len(p) = i - 1
      /\ \A j \in 1 .. i - 1 : p[j] = s[j]
  <2>1. i - 1 \in Int /\ \A j \in 1 .. i - 1 : s[j] \in S
    BY <1>1, <1>3
  <2>2. /\ p \in Seq(S)
        /\ Len(p) = IF 1 <= i - 1 THEN (i - 1) - 1 + 1 ELSE 0
        /\ \A j \in 1 .. (i - 1) - 1 + 1 : p[j] = s[1 + j - 1]
    BY <1>2, <2>1, SubSeqProperties
  <2> QED  BY <1>1, <2>2
<1>5. /\ q \in Seq(S) /\ Len(q) = n - i
      /\ \A j \in 1 .. n - i : q[j] = s[i + j]
  <2>1. i + 1 \in Int /\ n \in Int /\ \A j \in i + 1 .. n : s[j] \in S
    BY <1>1, <1>3
  <2>2. /\ q \in Seq(S)
        /\ Len(q) = IF i + 1 <= n THEN n - (i + 1) + 1 ELSE 0
        /\ \A j \in 1 .. n - (i + 1) + 1 : q[j] = s[(i + 1) + j - 1]
    BY <1>1, <1>2, <2>1, SubSeqProperties
  <2>3. \A j \in 1 .. n - i : (i + 1) + j - 1 = i + j
    BY <1>1
  <2> QED  BY <1>1, <2>2, <2>3
<1>6. /\ p \o q \in Seq(S) /\ Len(p \o q) = n - 1
      /\ \A j \in 1 .. n - 1 : (p \o q)[j] = IF j <= i - 1 THEN p[j] ELSE q[j - (i - 1)]
  <2>1. /\ p \o q \in Seq(S) /\ Len(p \o q) = Len(p) + Len(q)
        /\ \A j \in 1 .. Len(p) + Len(q) :
             (p \o q)[j] = IF j <= Len(p) THEN p[j] ELSE q[j - Len(p)]
    BY <1>4, <1>5, ConcatProperties
  <2>2. Len(p) + Len(q) = n - 1
    BY <1>1, <1>4, <1>5
  <2> QED  BY <1>4, <2>1, <2>2
<1>7. ASSUME NEW j \in 1 .. n - 1
      PROVE  (p \o q)[j] = IF j < i THEN s[j] ELSE s[j + 1]
  <2>1. CASE j < i
    <3>1. j \in 1 .. i - 1 /\ j <= i - 1
      BY <1>1, <2>1
    <3> QED  BY <1>4, <1>6, <2>1, <3>1
  <2>2. CASE ~(j < i)
    <3>1. /\ j - (i - 1) \in 1 .. n - i /\ ~(j <= i - 1)
          /\ i + (j - (i - 1)) = j + 1
      BY <1>1, <2>2
    <3> QED  BY <1>5, <1>6, <2>2, <3>1
  <2> QED  BY <2>1, <2>2
<1> QED  BY <1>1, <1>2, <1>6, <1>7 DEF RemoveAt

\* The list without the hole, place by place.
RoutesAre ==
    /\ routes \in Seq(Route)
    /\ mu = Free =>
         /\ Len(routes) = list.len
         /\ \A j \in 1 .. list.len : routes[j] = At(j)
    /\ mu # Free =>
         /\ Len(routes) = list.len - 1
         /\ \A j \in 1 .. list.len - 1 :
              routes[j] = IF j < hole[mu] THEN At(j) ELSE At(j + 1)

\* The mapped sequence has the routes of the places that count.
LEMMA RoutesByPlace == TableInv => RoutesAre
<1> SUFFICES ASSUME TableInv PROVE RoutesAre
  OBVIOUS
<1>1. PICK s \in Seq(Route), n \in Nat :
        /\ s = Elements(list) /\ n = list.len
        /\ Len(s) = n /\ \A i \in 1 .. n : s[i] = At(i)
  <2>1. list \in Slice /\ SliceInv(list) /\ TypeOK /\ list.len \in Nat
    BY DEF TableInv, ListInv, TypeOK, Slice
  <2> QED  BY <2>1, SliceElements DEF At
<1>2. CASE mu = Free
  BY <1>1, <1>2 DEF RoutesAre, routes
<1>3. CASE mu # Free
  <2>1. PICK i \in 1 .. n : i = hole[mu]
    BY <1>1, <1>3 DEF TableInv, ListInv
  <2>2. /\ RemoveAt(s, i) \in Seq(Route) /\ Len(RemoveAt(s, i)) = n - 1
        /\ \A j \in 1 .. n - 1 : RemoveAt(s, i)[j] = IF j < i THEN s[j] ELSE s[j + 1]
    <3> DEFINE S == Route
    <3>1. s \in Seq(S) /\ i \in 1 .. Len(s)
      BY <1>1
    <3> HIDE DEF S
    <3>2. /\ RemoveAt(s, i) \in Seq(S) /\ Len(RemoveAt(s, i)) = Len(s) - 1
          /\ \A j \in 1 .. Len(s) - 1 :
               RemoveAt(s, i)[j] = IF j < i THEN s[j] ELSE s[j + 1]
      BY <3>1, Removed
    <3> QED  BY <1>1, <3>2 DEF S
  <2>3. routes = RemoveAt(s, i)
    BY <1>1, <1>3, <2>1 DEF routes
  <2>4. \A j \in 1 .. n - 1 : j \in 1 .. n /\ j + 1 \in 1 .. n
    BY <1>1
  <2> QED  BY <1>1, <1>3, <2>1, <2>2, <2>3, <2>4 DEF RoutesAre
<1> QED  BY <1>2, <1>3

\* Two lists with the same routes place by place are the same.
LEMMA SameRoutes ==
    ASSUME RoutesAre, RoutesAre', Len(routes') = Len(routes),
           \A j \in 1 .. Len(routes) : routes'[j] = routes[j]
    PROVE  routes' = routes
<1>1. PICK s \in Seq(Route), t \in Seq(Route) : s = routes /\ t = routes'
  BY DEF RoutesAre, Route
<1>2. Len(s) = Len(t) /\ \A j \in 1 .. Len(s) : s[j] = t[j]
  BY <1>1
<1>3. s = t
  BY <1>2, SeqEqual
<1> QED  BY <1>1, <1>3

-----------------------------------------------------------------------------
(* What each step does to them. *)

\* A registration in place or at the end is one of RouteOrder.
LEMMA ReplaceRegisters ==
    ASSUME TableInv, RoutesAre, RoutesAre', NEW w \in Writers, ReplaceRoute(w)
    PROVE  Order!Register(url[w], handle[w])
<1>1. PICK i \in Live :
        /\ list' = list /\ Live' = Live /\ Live = 1 .. list.len
        /\ At(i).url = url[w] /\ At(i)' = RouteOf(w)
        /\ \A j \in Live : j # i => At(j)' = At(j)
  BY ReplaceEffect
<1>2. mu = Free /\ mu' = Free
  BY DEF ReplaceRoute
<1>3. PICK s \in Seq(Route), t \in Seq(Route), n \in Nat :
        /\ s = routes /\ t = routes' /\ n = list.len /\ Len(s) = n /\ Len(t) = n
        /\ \A j \in 1 .. n : s[j] = At(j) /\ t[j] = At(j)'
  <2>1. list.len \in Nat
    BY DEF TableInv, TypeOK, Slice
  <2> QED  BY <1>1, <1>2, <2>1 DEF RoutesAre, Route
<1>4. DOMAIN s = 1 .. n /\ DOMAIN t = 1 .. n
  BY <1>3, LenProperties
<1>5. Order!PositionsOf(url[w]) = {i}
  <2>1. \A j \in 1 .. n : s[j].url = url[w] <=> j = i
    BY <1>1, <1>3 DEF TableInv, ListInv
  <2> QED  BY <1>1, <1>3, <1>4, <2>1 DEF Order!PositionsOf
<1>6. PICK f : f = [j \in DOMAIN s |->
                      IF j \in {i} THEN [url |-> url[w], handle |-> handle[w]] ELSE s[j]]
  OBVIOUS
<1>7. f \in Seq(Route) /\ Len(f) = n /\ \A j \in 1 .. n : f[j] = t[j]
  <2>1. \A j \in 1 .. n : f[j] = t[j] /\ t[j] \in Route
    BY <1>1, <1>3, <1>4, <1>6, ElementOfSeq DEF RouteOf
  <2>2. f \in [1 .. n -> Route]
    BY <1>4, <1>6, <2>1
  <2>3. f \in Seq(Route) /\ Len(f) = n
    BY <2>2, FunctionIsSeq
  <2> QED  BY <2>1, <2>3
<1>8. f = t
  BY <1>3, <1>7, SeqEqual
<1> QED  BY <1>3, <1>5, <1>6, <1>8 DEF Order!Register

LEMMA AppendRegisters ==
    ASSUME TableInv, RoutesAre, RoutesAre', NEW w \in Writers, AppendRoute(w)
    PROVE  Order!Register(url[w], handle[w])
<1>1. PICK n \in Nat :
        /\ list.len = n /\ list'.len = n + 1
        /\ At(n + 1)' = RouteOf(w) /\ \A j \in 1 .. n : At(j)' = At(j)
  BY AppendEffect
<1>2. mu = Free /\ mu' = Free /\ IndicesOf(url[w]) = {}
  BY AppendEffect
<1>3. RouteOf(w) \in Route
  BY WriterRoute DEF AppendRoute
<1>4. PICK s \in Seq(Route), t \in Seq(Route) :
        /\ s = routes /\ t = routes' /\ Len(s) = n /\ Len(t) = n + 1
        /\ \A j \in 1 .. n : s[j] = At(j)
        /\ \A j \in 1 .. n + 1 : t[j] = At(j)'
  BY <1>1, <1>2 DEF RoutesAre, Route
<1>5. Order!PositionsOf(url[w]) = {}
  <2>1. \A j \in 1 .. n : s[j].url # url[w]
    BY <1>1, <1>2, <1>4, Places DEF TableInv
  <2>2. DOMAIN s = 1 .. n
    BY <1>4, LenProperties
  <2> QED  BY <1>4, <2>1, <2>2 DEF Order!PositionsOf
<1>6. PICK e \in Route, f \in Seq(Route) : e = RouteOf(w) /\ f = Append(s, e)
  BY <1>3, AppendProperties
<1>7. /\ f \in Seq(Route) /\ Len(f) = n + 1
      /\ \A j \in 1 .. n : f[j] = s[j]
      /\ f[n + 1] = e
  BY <1>4, <1>6, AppendProperties
<1>8. \A j \in 1 .. n + 1 : f[j] = t[j]
  <2>1. \A j \in 1 .. n + 1 : j \in 1 .. n \/ j = n + 1
    OBVIOUS
  <2>2. n + 1 \in 1 .. n + 1 /\ \A j \in 1 .. n : j \in 1 .. n + 1
    OBVIOUS
  <2> QED  BY <1>1, <1>4, <1>6, <1>7, <2>1, <2>2
<1>9. f = t
  BY <1>4, <1>7, <1>8, SeqEqual
<1> QED  BY <1>4, <1>5, <1>6, <1>9 DEF Order!Register, RouteOf

\* The route is gone as soon as the hole is found.
LEMMA FindHoleUnregisters ==
    ASSUME TableInv, NEW w \in Writers, FindHole(w)
    PROVE  Order!Unregister(url[w])
<1>1. /\ UNCHANGED <<list, mem>> /\ mu = Free /\ mu' = w /\ w # Free
  BY FindHoleEffect, NullAssumption
<1>2. PICK i \in Live : hole'[w] = i /\ At(i).url = url[w] /\ Live = 1 .. list.len
  BY FindHoleEffect
<1>3. routes = Elements(list) /\ routes' = RemoveAt(routes, i)
  BY <1>1, <1>2 DEF routes, Elements
<1>4. i \in Order!PositionsOf(url[w])
  BY <1>2, <1>3, Places DEF TableInv, Order!PositionsOf
<1> QED  BY <1>3, <1>4 DEF Order!Unregister, RemoveAt, Order!RemoveAt

\* Moving a route into the hole, and giving up the last place, is not seen.
LEMMA ShiftHides ==
    ASSUME TableInv, RoutesAre, RoutesAre', NEW w \in Writers, Shift(w) \/ Shorten(w)
    PROVE  routes' = routes
<1>1. CASE Shift(w)
  <2>1. PICK i \in 1 .. list.len :
          /\ hole[w] = i /\ hole'[w] = i + 1 /\ i + 1 \in 1 .. list.len
          /\ At(i)' = At(i + 1)
          /\ \A j \in 1 .. list.len : j # i => At(j)' = At(j)
    BY <1>1, ShiftEffect
  <2>2. list' = list /\ mu = w /\ mu' = w /\ w # Free
    BY <1>1, ShiftEffect, NullAssumption
  <2>3. PICK n \in Nat : n = list.len
    BY DEF TableInv, TypeOK, Slice
  <2>4. /\ Len(routes) = n - 1 /\ Len(routes') = n - 1
        /\ \A j \in 1 .. n - 1 :
             /\ routes[j] = IF j < i THEN At(j) ELSE At(j + 1)
             /\ routes'[j] = IF j < i + 1 THEN At(j)' ELSE At(j + 1)'
    BY <2>1, <2>2, <2>3 DEF RoutesAre
  <2>5. ASSUME NEW j \in 1 .. n - 1 PROVE routes'[j] = routes[j]
    <3>1. j \in 1 .. n /\ j + 1 \in 1 .. n
      BY <2>3
    <3>2. CASE j < i
      <4>1. j < i + 1 /\ j # i
        BY <2>1, <2>3, <3>2
      <4> QED  BY <2>1, <2>3, <2>4, <3>1, <3>2, <4>1
    <3>3. CASE j = i
      <4>1. ~(j < i) /\ j < i + 1
        BY <2>1, <2>3, <3>3
      <4> QED  BY <2>1, <2>4, <3>3, <4>1
    <3>4. CASE j > i
      <4>1. ~(j < i) /\ ~(j < i + 1) /\ j + 1 # i
        BY <2>1, <2>3, <3>4
      <4> QED  BY <2>1, <2>3, <2>4, <3>1, <4>1
    <3> QED  BY <2>1, <2>3, <3>2, <3>3, <3>4
  <2> QED  BY <2>4, <2>5, SameRoutes
<1>2. CASE Shorten(w)
  <2>1. PICK n \in Nat :
          /\ n = list.len /\ n > 0 /\ hole[w] = n /\ list'.len = n - 1
          /\ mu = w /\ mu # Free /\ mu' = Free
    BY <1>2, ShortenEffect, NullAssumption
  <2>2. \A j : At(j)' = At(j)
    BY <1>2, ShortenEffect
  <2>3. /\ Len(routes) = n - 1 /\ Len(routes') = n - 1
        /\ \A j \in 1 .. n - 1 :
             /\ routes[j] = IF j < n THEN At(j) ELSE At(j + 1)
             /\ routes'[j] = At(j)'
    BY <2>1 DEF RoutesAre
  <2>4. \A j \in 1 .. n - 1 : j < n
    OBVIOUS
  <2> QED  BY <2>2, <2>3, <2>4, SameRoutes
<1> QED  BY <1>1, <1>2

\* A request does not change the routes.
LEMMA ReadingHides ==
    ASSUME TableInv, RoutesAre, RoutesAre', Reading
    PROVE  routes' = routes
<1>1. PICK n \in Nat : n = list.len /\ n = list'.len
  BY DEF TableInv, TypeOK, Slice, Reading
<1>2. UNCHANGED <<mu, hole>>
  BY DEF Reading, writerVars
<1>3. \A i \in Live : At(i)' = At(i)
  BY ReadingKeeps
<1>4. CASE mu = Free
  <2>1. Live = 1 .. n
    BY <1>1, <1>4 DEF Live
  <2> QED  BY <1>1, <1>2, <1>3, <1>4, <2>1, SameRoutes DEF RoutesAre
<1>5. CASE mu # Free
  <2>1. PICK i \in 1 .. n : i = hole[mu] /\ i = hole'[mu'] /\ Live = (1 .. n) \ {i}
    BY <1>1, <1>2, <1>5 DEF TableInv, ListInv, Live
  <2>2. /\ Len(routes) = n - 1 /\ Len(routes') = n - 1
        /\ \A j \in 1 .. n - 1 :
             /\ routes[j] = IF j < i THEN At(j) ELSE At(j + 1)
             /\ routes'[j] = IF j < i THEN At(j)' ELSE At(j + 1)'
    BY <1>1, <1>2, <1>5, <2>1 DEF RoutesAre
  <2>3. \A j \in 1 .. n - 1 : (j < i => j \in Live) /\ (~(j < i) => j + 1 \in Live)
    BY <2>1
  <2> QED  BY <1>3, <2>2, <2>3, SameRoutes
<1> QED  BY <1>4, <1>5

\* Beginning a call, and a removal of what is not there, are not seen.
LEMMA BeginHides ==
    ASSUME TableInv, NEW w \in Writers,
           addHandle(w) \/ removeHandle(w) \/ RemoveNothing(w)
    PROVE  routes' = routes
<1>1. UNCHANGED <<list, mem, mu>> /\ (mu = Free \/ hole' = hole)
  BY DEF addHandle, removeHandle, RemoveNothing, tableVars
<1> QED  BY <1>1 DEF routes, Elements

\* Every step of the table is one of RouteOrder or leaves the sequence.
LEMMA RoutesStep ==
    ASSUME TableInv, TableInv', [Next]_vars
    PROVE  [Order!Next]_routes
<1> USE DEF Order!Next
<1>0. RoutesAre /\ RoutesAre'
  BY RoutesByPlace, PTL
<1>1. ASSUME NEW w \in Writers, ReplaceRoute(w) \/ AppendRoute(w)
      PROVE  Order!Next
  <2>1. Order!Register(url[w], handle[w])
    BY <1>0, <1>1, ReplaceRegisters, AppendRegisters
  <2>2. url[w] \in Urls /\ handle[w] \in Handlers
    BY <1>1, WriterRoute DEF ReplaceRoute, AppendRoute, TableInv, WriterInv
  <2> QED  BY <2>1, <2>2
<1>2. ASSUME NEW w \in Writers, FindHole(w)
      PROVE  Order!Next
  <2>1. Order!Unregister(url[w])
    BY <1>2, FindHoleUnregisters
  <2>2. url[w] \in Urls
    BY <1>2, NullAssumption DEF FindHole, TableInv, TypeOK, WriterInv
  <2> QED  BY <2>1, <2>2
<1>3. ASSUME NEW w \in Writers, Shift(w) \/ Shorten(w)
      PROVE  routes' = routes
  BY <1>0, <1>3, ShiftHides
<1>4. ASSUME NEW w \in Writers, addHandle(w) \/ removeHandle(w) \/ RemoveNothing(w)
      PROVE  routes' = routes
  BY <1>4, BeginHides
<1>5. ASSUME NEW r \in Requests,
             ServeHTTP(r) \/ LoadExact(r) \/ CopyList(r) \/ Scan(r) \/ NotFound(r) \/ Done(r)
      PROVE  routes' = routes
  BY <1>0, <1>5, ReaderStep, ReadingHides
<1>6. CASE UNCHANGED vars
  BY <1>0, <1>6, StutterStep, ReadingHides
<1> HIDE DEF Order!Next
<1> QED  BY <1>1, <1>2, <1>3, <1>4, <1>5, <1>6 DEF Next

\* Registration and removal keep the order of the other routes and one route per
\* url, whatever other goroutines and requests do between the steps of a removal.
THEOREM TableImplements == Spec => ImplementsRouteOrder
<1>1. Init => Order!Init
  <2> SUFFICES ASSUME Init PROVE routes = <<>>
    BY DEF Order!Init
  <2> QED  BY DEF Init, Empty, routes, Elements
<1>2. TableInv /\ TableInv' /\ [Next]_vars => [Order!Next]_routes
  BY RoutesStep
<1> QED  BY <1>1, <1>2, TableInvariant, PTL DEF Spec, ImplementsRouteOrder, Order!Spec
=============================================================================
