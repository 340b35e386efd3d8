------------------------ MODULE SharedTemplate_proofs ------------------------
(***************************************************************************)
(* Proof that DynamicCache implements SharedTemplate: seen through its     *)
(* counts, every step of the cache is a step in the life of one template,  *)
(* or of the two that change places in an entry, or no step at all.        *)
(***************************************************************************)
EXTENDS DynamicCache_proofs

(* Where a template is in its life, said by who holds it instead of by the *)
(* counts: the invariant of the cache makes the two agree.                 *)
Situation(t) ==
    IF Published(t) THEN "open"
    ELSE IF Users(t) # {} THEN "retired"
    ELSE IF Storers(t) # {} THEN "private"
    ELSE "closed"

Agree == stateOf = [t \in Tmpls |-> Situation(t)]

\* The mapped state of a template is its situation.
LEMMA StateIsSituation == OwnerInv => Agree
<1> USE DEF Agree
<1> SUFFICES ASSUME OwnerInv, NEW t \in Tmpls PROVE stateOf[t] = Situation(t)
  BY DEF stateOf
<1>0. PublishedInv(t) /\ RetiredInv(t) /\ PrivateInv(t) /\ ClosedInv(t)
  BY DEF OwnerInv, TmplInv
<1>1. CASE Published(t)
  <2>1. Storers(t) = {}  BY <1>0, <1>1 DEF PrivateInv, Storers
  <2> QED  BY <1>0, <1>1, <2>1 DEF PublishedInv, stateOf, Situation
<1>2. CASE ~Published(t) /\ Users(t) # {}
  BY <1>0, <1>2 DEF RetiredInv, stateOf, Situation
<1>3. CASE ~Published(t) /\ Users(t) = {} /\ Storers(t) # {}
  <2>1. PICK r \in Requests : r \in Storers(t)  BY <1>3 DEF Storers
  <2>2. tmpl[t].closes = 0 /\ ~tmpl[t].destroyed  BY <1>0, <2>1 DEF PrivateInv
  <2> QED  BY <1>3, <2>2 DEF stateOf, Situation
<1>4. CASE ~Published(t) /\ Users(t) = {} /\ Storers(t) = {}
  BY <1>0, <1>4 DEF ClosedInv, stateOf, Situation
<1> QED  BY <1>1, <1>2, <1>3, <1>4

\* The mapped variables before and after a step, by situations and users.
LEMMA Mapped ==
    ASSUME OwnerInv, OwnerInv'
    PROVE  /\ stateOf = [t \in Tmpls |-> stateOf[t]] /\ usersOf = [t \in Tmpls |-> usersOf[t]]
           /\ \A t \in Tmpls : /\ stateOf[t] = Situation(t) /\ stateOf'[t] = Situation(t)'
                               /\ usersOf[t] = Users(t) /\ usersOf'[t] = Users(t)'
           /\ stateOf' = [t \in Tmpls |-> stateOf'[t]]
           /\ usersOf' = [t \in Tmpls |-> usersOf'[t]]
<1>1. Agree  BY StateIsSituation
<1>2. OwnerInv' => Agree'  BY StateIsSituation, PTL
<1>3. usersOf = [t \in Tmpls |-> Users(t)] /\ usersOf' = [t \in Tmpls |-> Users(t)']
  BY DEF usersOf
<1> QED  BY <1>1, <1>2, <1>3 DEF Agree

-----------------------------------------------------------------------------
(* Steps. *)

\* A template whose holders stay keeps its place in the lifecycle.
LEMMA SameSituation ==
    ASSUME NEW t, Users(t)' = Users(t), Storers(t)' = Storers(t),
           Published(t)' <=> Published(t)
    PROVE  Situation(t)' = Situation(t)
BY DEF Situation

\* A step that leaves every template with its holders is a stutter.
LEMMA NobodyMoves ==
    ASSUME OwnerInv, OwnerInv',
           \A t \in Tmpls : /\ Users(t)' = Users(t) /\ Storers(t)' = Storers(t)
                            /\ Published(t)' <=> Published(t)
    PROVE  UNCHANGED Shared!vars
<1>1. \A t \in Tmpls : Situation(t)' = Situation(t)
  BY SameSituation
<1>2. stateOf' = stateOf /\ usersOf' = usersOf
  BY <1>1, Mapped
<1> QED  BY <1>2 DEF Shared!vars

\* A step that concerns one template changes the mapped variables there only.
LEMMA OneMapped ==
    ASSUME OwnerInv, OwnerInv', NEW t \in Tmpls,
           \A x \in Tmpls : x # t =>
             /\ Users(x)' = Users(x) /\ Storers(x)' = Storers(x)
             /\ Published(x)' <=> Published(x)
    PROVE  /\ stateOf[t] = Situation(t) /\ usersOf[t] = Users(t)
           /\ stateOf' = [stateOf EXCEPT ![t] = Situation(t)']
           /\ usersOf' = [usersOf EXCEPT ![t] = Users(t)']
<1>1. \A x \in Tmpls : x # t => Situation(x)' = Situation(x)
  BY SameSituation
<1>2. /\ \A x \in Tmpls : x # t => stateOf'[x] = stateOf[x] /\ usersOf'[x] = usersOf[x]
      /\ stateOf'[t] = Situation(t)' /\ usersOf'[t] = Users(t)'
  BY <1>1, Mapped
<1> QED  BY <1>2, Mapped

\* A hit is the use of an open template.
LEMMA HitShared ==
    ASSUME OwnerInv, OwnerInv', NEW r \in Requests, LookupHit(r) \/ RecheckHit(r)
    PROVE  Shared!Next
<1>1. PICK t \in Tmpls :
      /\ page[r] \in Pages /\ cache[page[r]] # NoEntry /\ cache[page[r]].tmpl = t
      /\ pc[r] \notin Using \cup {"store"}
      /\ pc' = [pc EXCEPT ![r] = "execute"] /\ exec' = [exec EXCEPT ![r] = t]
      /\ UNCHANGED <<cache, entries>>
  BY DEF OwnerInv, TypeOK, RequestInv, Entry, LookupHit, RecheckHit, Hit, TakeHit,
         Run, GoTo, handlerVars, Using
<1>2. /\ \A q \in Requests : q # r => pc'[q] = pc[q] /\ exec'[q] = exec[q]
      /\ pc'[r] \in Using /\ pc'[r] # "store" /\ exec'[r] = t
  BY <1>1 DEF Using, OwnerInv, TypeOK
<1>3. \A x \in Tmpls : /\ Published(x)' <=> Published(x)
                       /\ r \notin Users(x) /\ r \notin Storers(x)
  BY <1>1 DEF Published, InCache, Users, Storers
<1>4. \A x \in Tmpls : Storers(x)' = Storers(x)
  <2> SUFFICES ASSUME NEW x \in Tmpls PROVE Storers(x)' = Storers(x)
    OBVIOUS
  <2>1. Storers(x)' = Storers(x) \ {r}
    BY <1>2, OneMoves
  <2> QED  BY <1>3, <2>1
<1>5. \A x \in Tmpls : x # t => Users(x)' = Users(x)
  BY <1>2, <1>3, OneMoves
<1>6. Users(t)' = Users(t) \cup {r} /\ Published(t)
  BY <1>1, <1>2, OneMoves DEF Published, InCache
<1>7. Situation(t) = "open" /\ Situation(t)' = "open"
  BY <1>3, <1>6 DEF Situation
<1>8. /\ stateOf[t] = "open" /\ usersOf[t] = Users(t)
      /\ stateOf' = [stateOf EXCEPT ![t] = "open"]
      /\ usersOf' = [usersOf EXCEPT ![t] = Users(t) \cup {r}]
  BY <1>3, <1>4, <1>5, <1>6, <1>7, OneMapped
<1>9. Shared!Use(t, r)
  BY <1>8, Mapped DEF Shared!Use
<1> QED  BY <1>9 DEF Shared!Next

\* An open template that the cache gives up is retired, or closed at once.
LEMMA WithdrawShared ==
    ASSUME OwnerInv, NEW t \in Tmpls, Published(t), ~(Published(t)'),
           Users(t)' = Users(t), Storers(t)' = Storers(t)
    PROVE  /\ Situation(t) = "open"
           /\ Situation(t)' = IF Users(t) = {} THEN "closed" ELSE "retired"
<1>1. Storers(t) = {}
  BY DEF OwnerInv, TmplInv, PrivateInv, Storers
<1> QED  BY <1>1 DEF Situation

\* cleanupCacheEntry retires the template of the entry, if there is one.
LEMMA StatFailsShared ==
    ASSUME OwnerInv, OwnerInv', NEW r \in Requests, StatFails(r)
    PROVE  Shared!Next \/ UNCHANGED Shared!vars
<1> DEFINE p == page[r]
<1>1. /\ p \in Pages
      /\ pc[r] = "stat" /\ pc' = [pc EXCEPT ![r] = "idle"]
      /\ exec' = [exec EXCEPT ![r] = NoTmpl]
      /\ cache' = [cache EXCEPT ![p] = NoEntry] /\ entries' = entries
      /\ cache \in [Pages -> Entry \cup {NoEntry}]
  BY DEF OwnerInv, TypeOK, RequestInv, StatFails, cleanupCacheEntry, Finish
<1>2. /\ \A q \in Requests : q # r => pc'[q] = pc[q] /\ exec'[q] = exec[q]
      /\ pc[r] \notin Using \cup {"store"} /\ pc'[r] \notin Using \cup {"store"}
  BY <1>1 DEF Using, OwnerInv, TypeOK
<1>3. \A x : r \notin Users(x) /\ r \notin Storers(x)
  BY <1>2 DEF Users, Storers
<1>4. \A x : Users(x)' = Users(x) /\ Storers(x)' = Storers(x)
  BY <1>2, <1>3, OneMoves
<1>5. CASE cache[p] = NoEntry
  <2>1. \A x : Published(x)' <=> Published(x)
    BY <1>1, <1>5 DEF Published, InCache
  <2> QED  BY <1>4, <2>1, NobodyMoves
<1>6. CASE cache[p] # NoEntry
  <2>1. PICK t \in Tmpls : cache[p].tmpl = t
    BY <1>1, <1>6 DEF Entry
  <2>2. \A q \in Pages : q # p /\ cache[q] # NoEntry => cache[q].tmpl # t
    BY <1>1, <1>6, <2>1 DEF OwnerInv, EntryInv
  <2>3. Published(t) /\ t \notin entries
    BY <1>1, <1>6, <2>1 DEF OwnerInv, EntryInv, Published, InCache
  <2>4. ~(Published(t)')
    BY <1>1, <2>2, <2>3 DEF Published, InCache
  <2>5. \A x \in Tmpls : x # t => (Published(x)' <=> Published(x))
    BY <1>1, <2>1 DEF Published, InCache
  <2>6. /\ Situation(t) = "open"
        /\ Situation(t)' = IF Users(t) = {} THEN "closed" ELSE "retired"
    BY <1>4, <2>3, <2>4, WithdrawShared
  <2>7. /\ stateOf[t] = "open" /\ usersOf[t] = Users(t)
        /\ stateOf' = [stateOf EXCEPT ![t] = IF Users(t) = {} THEN "closed" ELSE "retired"]
        /\ usersOf' = [usersOf EXCEPT ![t] = usersOf[t]]
    BY <1>4, <2>5, <2>6, OneMapped
  <2>8. Shared!Retire(t)
    BY <2>7, Mapped DEF Shared!Retire, Shared!Withdrawn
  <2> QED  BY <2>8 DEF Shared!Next
<1> QED  BY <1>5, <1>6

\* The handler's Close retires the templates it took.
LEMMA CloseEntryShared ==
    ASSUME OwnerInv, OwnerInv', CloseEntry
    PROVE  Shared!Next
<1>1. PICK t \in Tmpls : t \in entries /\ entries' = entries \ {t}
  BY DEF CloseEntry, OwnerInv, TypeOK
<1>2. UNCHANGED <<cache, pc, exec>>
  BY DEF CloseEntry, reqVars
<1>3. ~InCache(t) /\ Published(t)
  BY <1>1 DEF OwnerInv, EntryInv, InCache, Published
<1>4. \A x : Users(x)' = Users(x) /\ Storers(x)' = Storers(x) /\ (InCache(x)' <=> InCache(x))
  BY <1>2 DEF Users, Storers, InCache
<1>5. ~(Published(t)') /\ \A x \in Tmpls : x # t => (Published(x)' <=> Published(x))
  BY <1>1, <1>3, <1>4 DEF Published
<1>6. /\ Situation(t) = "open"
      /\ Situation(t)' = IF Users(t) = {} THEN "closed" ELSE "retired"
  BY <1>3, <1>4, <1>5, WithdrawShared
<1>7. /\ stateOf[t] = "open" /\ usersOf[t] = Users(t)
      /\ stateOf' = [stateOf EXCEPT ![t] = IF Users(t) = {} THEN "closed" ELSE "retired"]
      /\ usersOf' = [usersOf EXCEPT ![t] = usersOf[t]]
  BY <1>4, <1>5, <1>6, OneMapped
<1>8. Shared!Retire(t)
  BY <1>7, Mapped DEF Shared!Retire, Shared!Withdrawn
<1> QED  BY <1>8 DEF Shared!Next

\* A parse makes a template that was closed, or never made, private.
LEMMA ParseShared ==
    ASSUME OwnerInv, OwnerInv', NEW r \in Requests, Parse(r)
    PROVE  Shared!Next
<1>1. PICK t \in Tmpls : FreshTmpl(t) /\ exec' = [exec EXCEPT ![r] = t]
  BY DEF Parse
<1>2. /\ pc[r] = "parse" /\ pc' = [pc EXCEPT ![r] = "store"]
      /\ UNCHANGED <<cache, entries>>
  BY DEF Parse, GoTo, handlerVars
<1>3. /\ \A q \in Requests : q # r => pc'[q] = pc[q] /\ exec'[q] = exec[q]
      /\ pc[r] \notin Using \cup {"store"}
      /\ pc'[r] \notin Using /\ pc'[r] = "store" /\ exec'[r] = t
  BY <1>1, <1>2 DEF Using, OwnerInv, TypeOK
<1>4. \A x : /\ Published(x)' <=> Published(x)
             /\ r \notin Users(x) /\ r \notin Storers(x)
  BY <1>2, <1>3 DEF Published, InCache, Users, Storers
<1>5. \A x : Users(x)' = Users(x)
  <2> SUFFICES ASSUME NEW x PROVE Users(x)' = Users(x)
    OBVIOUS
  <2>1. Users(x)' = Users(x) \ {r}
    BY <1>3, OneMoves
  <2> QED  BY <1>4, <2>1
<1>6. \A x : x # t => Storers(x)' = Storers(x)
  BY <1>3, <1>4, OneMoves
<1>7. ~Published(t) /\ Users(t) = {} /\ Storers(t) = {}
  BY <1>1 DEF FreshTmpl, Users, Storers
<1>8. Storers(t)' # {}
  BY <1>3 DEF Storers
<1>9. Situation(t) = "closed" /\ Situation(t)' = "private"
  BY <1>4, <1>5, <1>7, <1>8 DEF Situation
<1>10. /\ stateOf[t] = "closed" /\ usersOf[t] = Users(t)
       /\ stateOf' = [stateOf EXCEPT ![t] = "private"]
       /\ usersOf' = [usersOf EXCEPT ![t] = usersOf[t]]
  BY <1>4, <1>5, <1>6, <1>9, OneMapped
<1>11. Shared!Make(t)
  BY <1>10, Mapped DEF Shared!Make
<1> QED  BY <1>11 DEF Shared!Next

\* A request that finds the handler closed discards its private template.
LEMMA StoreClosedShared ==
    ASSUME OwnerInv, OwnerInv', NEW r \in Requests, StoreClosed(r)
    PROVE  Shared!Next
<1>1. PICK t \in Tmpls : exec[r] = t
  BY NullAssumption DEF StoreClosed, OwnerInv, TypeOK, RequestInv
<1>2. /\ pc[r] = "store" /\ pc' = [pc EXCEPT ![r] = "idle"]
      /\ exec' = [exec EXCEPT ![r] = NoTmpl]
      /\ UNCHANGED <<cache, entries>>
  BY DEF StoreClosed, Finish, handlerVars
<1>3. /\ \A q \in Requests : q # r => pc'[q] = pc[q] /\ exec'[q] = exec[q]
      /\ pc'[r] \notin Using /\ pc'[r] # "store"
  BY <1>2 DEF Using, OwnerInv, TypeOK
<1>4. \A x : (Published(x)' <=> Published(x)) /\ r \notin Users(x)
  BY <1>2 DEF Published, InCache, Users, Using
<1>5. \A x : Users(x)' = Users(x) /\ Storers(x)' = Storers(x) \ {r}
  BY <1>3, <1>4, OneMoves
<1>6. \A x : x # t => Storers(x)' = Storers(x)
  BY <1>1, <1>5 DEF Storers
<1>7. r \in Storers(t)
  BY <1>1, <1>2 DEF Storers
<1>8. ~Published(t) /\ Users(t) = {} /\ Storers(t) = {r}
  BY <1>7 DEF OwnerInv, TmplInv, PrivateInv
<1>9. Situation(t) = "private" /\ Situation(t)' = "closed"
  BY <1>4, <1>5, <1>8 DEF Situation
<1>10. /\ stateOf[t] = "private" /\ usersOf[t] = Users(t)
       /\ stateOf' = [stateOf EXCEPT ![t] = "closed"]
       /\ usersOf' = [usersOf EXCEPT ![t] = usersOf[t]]
  BY <1>4, <1>5, <1>6, <1>9, OneMapped
<1>11. Shared!Discard(t)
  BY <1>10, Mapped DEF Shared!Discard
<1> QED  BY <1>11 DEF Shared!Next

\* A user leaves; the last one of a retired template closes it.
LEMMA ReleaseShared ==
    ASSUME OwnerInv, OwnerInv', NEW r \in Requests, Release(r)
    PROVE  Shared!Next
<1>1. PICK t \in Tmpls : exec[r] = t
  BY NullAssumption DEF Release, OwnerInv, TypeOK, RequestInv, Using
<1>2. /\ pc[r] = "defers" /\ pc' = [pc EXCEPT ![r] = "idle"]
      /\ exec' = [exec EXCEPT ![r] = NoTmpl]
      /\ UNCHANGED <<cache, entries>>
  BY DEF Release, Finish, handlerVars
<1>3. /\ \A q \in Requests : q # r => pc'[q] = pc[q] /\ exec'[q] = exec[q]
      /\ pc'[r] \notin Using /\ pc'[r] # "store"
  BY <1>2 DEF Using, OwnerInv, TypeOK
<1>4. \A x : (Published(x)' <=> Published(x)) /\ r \notin Storers(x)
  BY <1>2 DEF Published, InCache, Storers
<1>5. \A x : Storers(x)' = Storers(x) /\ Users(x)' = Users(x) \ {r}
  <2> SUFFICES ASSUME NEW x
               PROVE  Storers(x)' = Storers(x) /\ Users(x)' = Users(x) \ {r}
    OBVIOUS
  <2>1. Storers(x)' = Storers(x) \ {r} /\ Users(x)' = Users(x) \ {r}
    BY <1>3, OneMoves
  <2> QED  BY <1>4, <2>1
<1>6. \A x : x # t => Users(x)' = Users(x)
  BY <1>1, <1>5 DEF Users
<1>7. r \in Users(t)
  BY <1>1, <1>2 DEF Users, Using
<1>8. Storers(t) = {}
  BY <1>7 DEF OwnerInv, TmplInv, PrivateInv, Storers
<1>9. /\ stateOf[t] = Situation(t) /\ usersOf[t] = Users(t)
      /\ stateOf' = [stateOf EXCEPT ![t] = Situation(t)']
      /\ usersOf' = [usersOf EXCEPT ![t] = Users(t) \ {r}]
  BY <1>4, <1>5, <1>6, OneMapped
<1>10. Situation(t)' = IF Situation(t) = "retired" /\ Users(t) = {r}
                       THEN "closed" ELSE Situation(t)
  BY <1>4, <1>5, <1>7, <1>8 DEF Situation
<1>11. stateOf' = IF stateOf[t] = "retired" /\ usersOf[t] = {r}
                  THEN [stateOf EXCEPT ![t] = "closed"] ELSE stateOf
  BY <1>9, <1>10, Mapped
<1>12. Shared!Leave(t, r)
  BY <1>7, <1>9, <1>11 DEF Shared!Leave
<1> QED  BY <1>12 DEF Shared!Next

\* Storing opens the request's private template, in the place of the entry's.
LEMMA StoreShared ==
    ASSUME OwnerInv, OwnerInv', NEW r \in Requests, Store(r)
    PROVE  Shared!Next
<1> DEFINE p == page[r]
<1>1. PICK t \in Tmpls : exec[r] = t
  BY NullAssumption DEF Store, OwnerInv, TypeOK, RequestInv
<1>2. /\ p \in Pages
      /\ pc[r] = "store" /\ pc' = [pc EXCEPT ![r] = "execute"]
      /\ exec' = [exec EXCEPT ![r] = t]
      /\ cache' = [cache EXCEPT ![p] = [tmpl |-> t, mtime |-> modeTime[r]]]
      /\ entries' = entries
      /\ cache \in [Pages -> Entry \cup {NoEntry}]
      /\ modeTime[r] \in Nat
  BY <1>1 DEF Store, Run, GoTo, OwnerInv, TypeOK, RequestInv
<1>3. /\ \A q \in Requests : q # r => pc'[q] = pc[q] /\ exec'[q] = exec[q]
      /\ pc'[r] \in Using /\ pc'[r] # "store" /\ exec'[r] = t
  BY <1>2 DEF Using, OwnerInv, TypeOK
<1>4. /\ r \in Storers(t)
      /\ ~Published(t) /\ Users(t) = {} /\ Storers(t) = {r}
  BY <1>1, <1>2 DEF Storers, OwnerInv, TmplInv, PrivateInv
<1>5. [tmpl |-> t, mtime |-> modeTime[r]] # NoEntry
  BY <1>2, NullAssumption DEF Entry
<1>6. /\ \A q \in Pages : q # p => cache'[q] = cache[q]
      /\ cache'[p] # NoEntry /\ cache'[p].tmpl = t
  BY <1>2, <1>5
<1> HIDE DEF p
<1>7. Users(t)' = {r} /\ Published(t)'
  <2>1. Users(t)' = {r}
    BY <1>3, <1>4, OneMoves
  <2> QED  BY <1>2, <1>6, <2>1 DEF Published, InCache
<1>8. Situation(t) = "private" /\ Situation(t)' = "open"
  BY <1>4, <1>7 DEF Situation
<1>9. \A x : x # t => r \notin Users(x) /\ r \notin Storers(x)
  BY <1>1, <1>2 DEF Users, Storers, Using
<1>10. \A x : x # t => Users(x)' = Users(x) /\ Storers(x)' = Storers(x)
  <2> SUFFICES ASSUME NEW x, x # t
               PROVE  Users(x)' = Users(x) /\ Storers(x)' = Storers(x)
    OBVIOUS
  <2>1. Users(x)' = Users(x) \ {r} /\ Storers(x)' = Storers(x) \ {r}
    BY <1>3, OneMoves
  <2> QED  BY <1>9, <2>1
<1>11. CASE cache[p] = NoEntry
  <2>1. \A x \in Tmpls : x # t => (Published(x)' <=> Published(x))
    BY <1>2, <1>6, <1>11 DEF Published, InCache
  <2>2. /\ stateOf[t] = "private"
        /\ stateOf' = [stateOf EXCEPT ![t] = "open"]
        /\ usersOf' = [usersOf EXCEPT ![t] = {r}]
    BY <1>7, <1>8, <1>10, <2>1, OneMapped
  <2>3. Shared!Open(t, r)
    BY <2>2 DEF Shared!Open
  <2> QED  BY <2>3 DEF Shared!Next
<1>12. CASE cache[p] # NoEntry
  <2>1. PICK old \in Tmpls : cache[p].tmpl = old
    BY <1>2, <1>12 DEF Entry
  <2>2. old # t /\ Published(old)
    BY <1>2, <1>4, <1>12, <2>1 DEF Published, InCache
  <2>3. /\ old \notin entries
        /\ \A q \in Pages : q # p /\ cache[q] # NoEntry => cache[q].tmpl # old
    BY <1>2, <1>12, <2>1 DEF OwnerInv, EntryInv
  <2>4. ~(Published(old)')
    BY <1>2, <1>6, <2>2, <2>3 DEF Published, InCache
  <2>5. \A x \in Tmpls : x # t /\ x # old => (Published(x)' <=> Published(x))
    BY <1>2, <1>6, <2>1 DEF Published, InCache
  <2>6. /\ Situation(old) = "open"
        /\ Situation(old)' = IF Users(old) = {} THEN "closed" ELSE "retired"
    BY <1>10, <2>2, <2>4, WithdrawShared
  <2>7. \A x \in Tmpls : x # t /\ x # old => Situation(x)' = Situation(x)
    BY <1>10, <2>5, SameSituation
  <2>8. /\ \A x \in Tmpls : x # t /\ x # old => stateOf'[x] = stateOf[x]
        /\ \A x \in Tmpls : x # t => usersOf'[x] = usersOf[x]
        /\ stateOf[t] = "private" /\ stateOf[old] = "open"
        /\ stateOf'[t] = "open" /\ usersOf'[t] = {r}
        /\ stateOf'[old] = IF usersOf[old] = {} THEN "closed" ELSE "retired"
    BY <1>7, <1>8, <1>10, <2>2, <2>6, <2>7, Mapped
  <2>9. /\ stateOf' = [stateOf EXCEPT ![t] = "open", ![old] = Shared!Withdrawn(old)]
        /\ usersOf' = [usersOf EXCEPT ![t] = {r}]
    BY <2>2, <2>8, Mapped DEF Shared!Withdrawn
  <2>10. Shared!Replace(old, t, r)
    BY <2>8, <2>9 DEF Shared!Replace
  <2> QED  BY <2>10 DEF Shared!Next
<1> QED  BY <1>11, <1>12

\* Every step of the cache maps to a step of the lifecycle, or to none.
LEMMA SharedStep ==
    ASSUME OwnerInv, OwnerInv', [Next]_vars
    PROVE  [Shared!Next]_(Shared!vars)
<1>1. ASSUME NEW r \in Requests, ServeHTTP(r) \/ Step(r)
      PROVE  Shared!Next \/ UNCHANGED Shared!vars
  <2>1. CASE StatFails(r)
    BY <2>1, StatFailsShared
  <2>2. CASE LookupHit(r) \/ RecheckHit(r)
    BY <2>2, HitShared
  <2>3. CASE Parse(r)
    BY <2>3, ParseShared
  <2>4. CASE Store(r)
    BY <2>4, StoreShared
  <2>5. CASE StoreClosed(r)
    BY <2>5, StoreClosedShared
  <2>6. CASE Release(r)
    BY <2>6, ReleaseShared
  <2>7. CASE Execute(r)
    <3>1. /\ pc[r] = "execute" /\ pc' = [pc EXCEPT ![r] = "defers"]
          /\ UNCHANGED <<cache, entries, exec>> /\ pc \in [Requests -> PCs]
      BY <2>7 DEF Execute, GoTo, handlerVars, OwnerInv, TypeOK
    <3>2. \A x : /\ Users(x)' = Users(x) /\ Storers(x)' = Storers(x)
                 /\ Published(x)' <=> Published(x)
      BY <3>1 DEF Users, Storers, Using, Published, InCache
    <3> QED  BY <3>2, NobodyMoves
  <2>8. CASE \/ ServeHTTP(r) \/ Stat(r) \/ StatIsDir(r) \/ LookupMiss(r) \/ OpenFile(r)
             \/ GetPathLock(r) \/ GetPathLockClosed(r) \/ LockPath(r)
             \/ RecheckMiss(r) \/ RecheckClosed(r) \/ ParseFails(r)
    <3>1. /\ \A q \in Requests : q # r => pc'[q] = pc[q] /\ exec'[q] = exec[q]
          /\ pc[r] \notin Using \cup {"store"} /\ pc'[r] \notin Using \cup {"store"}
      BY <2>8 DEF ServeHTTP, Stat, StatIsDir, LookupMiss, OpenFile, GetPathLock,
         GetPathLockClosed, LockPath, RecheckMiss, RecheckClosed, ParseFails, GoTo,
         Finish, Using, OwnerInv, TypeOK
    <3>2. UNCHANGED <<cache, entries>>
      BY <2>8 DEF ServeHTTP, Stat, StatIsDir, LookupMiss, OpenFile, GetPathLock,
         GetPathLockClosed, LockPath, RecheckMiss, RecheckClosed, ParseFails, handlerVars
    <3>3. \A x : /\ Users(x)' = Users(x) /\ Storers(x)' = Storers(x)
                 /\ Published(x)' <=> Published(x)
      BY <3>1, <3>2 DEF Users, Storers, Published, InCache
    <3> QED  BY <3>3, NobodyMoves
  <2> QED
    BY <1>1, <2>1, <2>2, <2>3, <2>4, <2>5, <2>6, <2>7, <2>8 DEF Step
<1>2. CASE UNCHANGED <<cache, entries, pc, exec>>
  <2>1. \A x : /\ Users(x)' = Users(x) /\ Storers(x)' = Storers(x)
               /\ Published(x)' <=> Published(x)
    BY <1>2 DEF Users, Storers, Published, InCache
  <2> QED  BY <2>1, NobodyMoves
<1>3. ASSUME NEW p \in Pages, WriteFile(p) \/ RemoveFile(p)
      PROVE  UNCHANGED <<cache, entries, pc, exec>>
  BY <1>3 DEF WriteFile, RemoveFile, handlerVars, reqVars
<1>4. CASE CloseHandler
  <2>1. /\ entries = {} /\ entries' = {t \in Tmpls : InCache(t)}
        /\ cache' = [p \in Pages |-> NoEntry]
        /\ UNCHANGED <<pc, exec>>
    BY <1>4 DEF OwnerInv, EntryInv, CloseHandler, reqVars
  <2>2. \A x \in Tmpls : /\ Users(x)' = Users(x) /\ Storers(x)' = Storers(x)
                         /\ Published(x)' <=> Published(x)
    BY <2>1 DEF Users, Storers, Published, InCache
  <2> QED  BY <2>2, NobodyMoves
<1>5. CASE CloseEntry
  BY <1>5, CloseEntryShared
<1>6. CASE UNCHANGED vars
  BY <1>2, <1>6 DEF vars, handlerVars, reqVars
<1> QED
  BY <1>1, <1>2, <1>3, <1>4, <1>5, <1>6 DEF Next, ServeHTTPClosed

\* The reference counts of the cache implement the template lifecycle: through
\* them every run of the cache is a run of SharedTemplate.
THEOREM CacheImplements == Spec => ImplementsSharedTemplate
<1>1. Init => Shared!Init
  <2> SUFFICES ASSUME Init PROVE Shared!Init
    OBVIOUS
  <2>1. \A t \in Tmpls : tmpl[t].closes > 0 /\ Users(t) = {}
    BY DEF Init, Users, Using
  <2> QED  BY <2>1 DEF Shared!Init, stateOf, usersOf
<1>2. OwnerInv /\ OwnerInv' /\ [Next]_vars => [Shared!Next]_(Shared!vars)
  BY SharedStep
<1> QED
  BY <1>1, <1>2, OwnerInvariant, PTL DEF Spec, ImplementsSharedTemplate, Shared!Spec
=============================================================================
