----------------------------- MODULE Sessions_proofs -----------------------------
(***************************************************************************)
(* Proofs about Sessions: its types, that a session a request can find is  *)
(* not being freed, and that deferred calls run once and at the end.       *)
(***************************************************************************)
EXTENDS Sessions, FiniteSetTheorems, SequenceTheorems, TLAPS

(* What a worker has read, or was given, by the time it uses it; and an     *)
(* entry that something refers to has a session.                           *)
WorkerHas(w) ==
    /\ pc[w] \in {"seen", "trigger", "expire", "touch", "old", "token", "compare", "retire",
                  "unmap", "free", "mark"} => cur[w] # NoEntry
    /\ pc[w] \in {"get", "seen", "trigger", "expire", "drop", "touch", "set", "old", "token",
                  "compare", "retire", "stamp", "put", "unmap", "mark"} => id[w] # NoId
    /\ pc[w] \in {"old", "token", "compare", "retire", "stamp", "put", "held", "append"} =>
         sess[w] # NoObj

EntriesFull == \A m \in Entries : InUse(m) => session[m] # NoObj

TypeInv == MapTypeOK /\ WorkTypeOK /\ EntriesFull /\ \A w \in Workers : WorkerHas(w)

LEMMA TypeInit == Init => TypeInv
  BY NullAssumption
     DEF Init, TypeInv, MapTypeOK, WorkTypeOK, WorkerHas, EntriesFull, InUse, PCs, Ops

\* A worker that finds no session keeps its types.
LEMMA MissTypes ==
    ASSUME WorkTypeOK, NEW w \in Workers, id[w] \in Ids, Miss(w)
    PROVE  WorkTypeOK' /\ \A v \in Workers : cur'[v] \in {cur[v], NoEntry}
  <1>1. CASE Return(w)  BY <1>1 DEF Return, WorkTypeOK, PCs, Ops
  <1>2. CASE ~Return(w)  BY <1>2 DEF Miss, Forget, GoTo, WorkTypeOK, PCs, Ops
  <1> QED  BY <1>1, <1>2

\* A session that nothing refers to is made new.
LEMMA Allocates ==
    ASSUME NEW w, \E x \in Objs : ~Reachable(x),
           Allocate(w, CHOOSE x \in Objs : ~Reachable(x))
    PROVE  \E o \in Objs : ~Reachable(o) /\ Allocate(w, o)
  <1>1. PICK o : o = CHOOSE x \in Objs : ~Reachable(x)  OBVIOUS
  <1> QED  BY <1>1

\* A new entry, that nothing refers to, is stored for the session.
PutsEntry(w, m) ==
    /\ ~InUse(m)
    /\ ss' = [ss EXCEPT ![id[w]] = m]
    /\ session' = [session EXCEPT ![m] = sess[w]]
    /\ unavailable' = [unavailable EXCEPT ![m] = FALSE]
    /\ old' = [old EXCEPT ![m] = FALSE]

LEMMA Puts ==
    ASSUME NEW w, PutSession(w)
    PROVE  \E m \in Entries : PutsEntry(w, m)
  <1>1. PICK m : m = CHOOSE x \in Entries : ~InUse(x)  OBVIOUS
  <1>2. m \in Entries /\ ~InUse(m)  BY <1>1 DEF PutSession
  <1>3. PutsEntry(w, m)  BY <1>1, <1>2 DEF PutSession, PutsEntry
  <1> QED  BY <1>2, <1>3

\* The map and the workers refer to no other entries than before.
LEMMA FullKept ==
    ASSUME EntriesFull, session' = session,
           \A i \in Ids : ss'[i] \in {ss[i], NoEntry},
           \A w \in Workers : \/ cur'[w] \in {cur[w], NoEntry}
                             \/ \E i \in Ids : cur'[w] = ss[i]
    PROVE  EntriesFull'
  BY NullAssumption DEF EntriesFull, InUse

\* One more "go s.Free()".
LEMMA GoFreed ==
    ASSUME NEW o, goFree(o), spawned \in [Objs -> Nat]
    PROVE  spawned' \in [Objs -> Nat]
  <1>1. spawned' = [x \in Objs |-> IF x = o THEN spawned[x] + 1 ELSE spawned[x]]
    BY DEF goFree
  <1>2. \A x \in Objs : spawned[x] \in Nat /\ spawned[x] + 1 \in Nat  OBVIOUS
  <1> QED  BY <1>1, <1>2

LEMMA TypeStep == TypeInv /\ [Next]_vars => TypeInv'
  <1> SUFFICES ASSUME TypeInv, [Next]_vars PROVE TypeInv'  OBVIOUS
  <1> USE DEF TypeInv, entryVars, sessVars, exitVars, goVars, workVars, GoTo
  <1>1. ASSUME NEW w \in Workers, Call(w) PROVE TypeInv'
    <2>1. MapTypeOK'
      BY <1>1 DEF Call, MapTypeOK, WorkTypeOK, WorkerHas
    <2>2. WorkTypeOK'
      BY <1>1, UsedAssumption
         DEF Call, MapTypeOK, WorkTypeOK, WorkerHas, EntriesFull, InUse, PCs, Ops
    <2>3. EntriesFull'
      BY <1>1 DEF Call, MapTypeOK, WorkTypeOK, WorkerHas, EntriesFull, InUse
    <2>4. (\A v \in Workers : WorkerHas(v))'
      BY <1>1, NullAssumption
         DEF Call, MapTypeOK, WorkTypeOK, WorkerHas, EntriesFull, InUse
    <2> QED  BY <2>1, <2>2, <2>3, <2>4
  <1>2. ASSUME NEW w \in Workers, CallNoCookie(w) PROVE TypeInv'
    <2>1. MapTypeOK'
      BY <1>2 DEF CallNoCookie, MapTypeOK, WorkTypeOK, WorkerHas
    <2>2. WorkTypeOK'
      BY <1>2, UsedAssumption
         DEF CallNoCookie, MapTypeOK, WorkTypeOK, WorkerHas, EntriesFull, InUse, PCs,
             Ops
    <2>3. EntriesFull'
      BY <1>2 DEF CallNoCookie, MapTypeOK, WorkTypeOK, WorkerHas, EntriesFull, InUse
    <2>4. (\A v \in Workers : WorkerHas(v))'
      BY <1>2, NullAssumption
         DEF CallNoCookie, MapTypeOK, WorkTypeOK, WorkerHas, EntriesFull, InUse
    <2> QED  BY <2>1, <2>2, <2>3, <2>4
  <1>3. ASSUME NEW w \in Workers, CallSet(w) PROVE TypeInv'
    <2>1. MapTypeOK'
      BY <1>3 DEF CallSet, MapTypeOK, WorkTypeOK, WorkerHas
    <2>2. WorkTypeOK'
      BY <1>3, UsedAssumption
         DEF CallSet, MapTypeOK, WorkTypeOK, WorkerHas, EntriesFull, InUse, PCs, Ops
    <2>3. EntriesFull'
      BY <1>3 DEF CallSet, MapTypeOK, WorkTypeOK, WorkerHas, EntriesFull, InUse
    <2>4. (\A v \in Workers : WorkerHas(v))'
      BY <1>3, NullAssumption
         DEF CallSet, MapTypeOK, WorkTypeOK, WorkerHas, EntriesFull, InUse
    <2> QED  BY <2>1, <2>2, <2>3, <2>4
  <1>4. ASSUME NEW w \in Workers, DelSession(w) PROVE TypeInv'
    <2>1. MapTypeOK'
      BY <1>4 DEF DelSession, MapTypeOK, WorkTypeOK, WorkerHas
    <2>2. WorkTypeOK'
      BY <1>4, UsedAssumption
         DEF DelSession, MapTypeOK, WorkTypeOK, WorkerHas, EntriesFull, InUse, PCs, Ops
    <2>3. EntriesFull'
      BY <1>4 DEF DelSession, MapTypeOK, WorkTypeOK, WorkerHas, EntriesFull, InUse
    <2>4. (\A v \in Workers : WorkerHas(v))'
      BY <1>4, NullAssumption
         DEF DelSession, MapTypeOK, WorkTypeOK, WorkerHas, EntriesFull, InUse
    <2> QED  BY <2>1, <2>2, <2>3, <2>4
  <1>5. ASSUME NEW w \in Workers, StartRange(w) PROVE TypeInv'
    <2>1. MapTypeOK'
      BY <1>5 DEF StartRange, MapTypeOK, WorkTypeOK, WorkerHas
    <2>2. WorkTypeOK'
      BY <1>5, UsedAssumption
         DEF StartRange, MapTypeOK, WorkTypeOK, WorkerHas, EntriesFull, InUse, PCs, Ops
    <2>3. EntriesFull'
      BY <1>5 DEF StartRange, MapTypeOK, WorkTypeOK, WorkerHas, EntriesFull, InUse
    <2>4. (\A v \in Workers : WorkerHas(v))'
      BY <1>5, NullAssumption
         DEF StartRange, MapTypeOK, WorkTypeOK, WorkerHas, EntriesFull, InUse
    <2> QED  BY <2>1, <2>2, <2>3, <2>4
  <1>6. ASSUME NEW w \in Workers, Defer(w) PROVE TypeInv'
    <2>1. MapTypeOK'
      BY <1>6 DEF Defer, MapTypeOK, WorkTypeOK, WorkerHas
    <2>2. WorkTypeOK'
      BY <1>6, UsedAssumption
         DEF Defer, MapTypeOK, WorkTypeOK, WorkerHas, EntriesFull, InUse, PCs, Ops
    <2>3. EntriesFull'
      BY <1>6 DEF Defer, MapTypeOK, WorkTypeOK, WorkerHas, EntriesFull, InUse
    <2>4. (\A v \in Workers : WorkerHas(v))'
      BY <1>6, NullAssumption
         DEF Defer, MapTypeOK, WorkTypeOK, WorkerHas, EntriesFull, InUse
    <2> QED  BY <2>1, <2>2, <2>3, <2>4
  <1>7. ASSUME NEW w \in Workers, triggerDeadSession(w) PROVE TypeInv'
    <2>1. MapTypeOK'
      BY <1>7 DEF triggerDeadSession, MapTypeOK, WorkTypeOK, WorkerHas
    <2>2. WorkTypeOK'
      BY <1>7, UsedAssumption
         DEF triggerDeadSession, MapTypeOK, WorkTypeOK, WorkerHas, EntriesFull, InUse,
             PCs, Ops
    <2>3. EntriesFull'
      BY <1>7
         DEF triggerDeadSession, MapTypeOK, WorkTypeOK, WorkerHas, EntriesFull, InUse
    <2>4. (\A v \in Workers : WorkerHas(v))'
      BY <1>7, NullAssumption
         DEF triggerDeadSession, MapTypeOK, WorkTypeOK, WorkerHas, EntriesFull, InUse
    <2> QED  BY <2>1, <2>2, <2>3, <2>4
  <1>8. ASSUME NEW w \in Workers, ExpireSession(w) PROVE TypeInv'
    <2>1. MapTypeOK'
      <3>1. spawned' \in [Objs -> Nat]
        BY <1>8, GoFreed DEF ExpireSession, MapTypeOK
      <3> QED  BY <1>8, <3>1 DEF ExpireSession, MapTypeOK
    <2>2. WorkTypeOK'
      BY <1>8, UsedAssumption
         DEF ExpireSession, goFree, Forget, MapTypeOK, WorkTypeOK, WorkerHas,
             EntriesFull, InUse, PCs, Ops
    <2>3. EntriesFull'
      <3>1. session' = session /\ \A i \in Ids : ss'[i] \in {ss[i], NoEntry}
        BY <1>8 DEF ExpireSession, MapTypeOK
      <3>2. \A v \in Workers : cur'[v] \in {cur[v], NoEntry}
        BY <1>8 DEF ExpireSession, Forget, WorkTypeOK
      <3> QED  BY <3>1, <3>2, FullKept
    <2>4. (\A v \in Workers : WorkerHas(v))'
      BY <1>8, NullAssumption
         DEF ExpireSession, goFree, Forget, MapTypeOK, WorkTypeOK, WorkerHas,
             EntriesFull, InUse
    <2> QED  BY <2>1, <2>2, <2>3, <2>4
  <1>9. ASSUME NEW w \in Workers, TouchSession(w) PROVE TypeInv'
    <2>1. MapTypeOK'
      BY <1>9 DEF TouchSession, Hold, MapTypeOK, WorkTypeOK, WorkerHas
    <2>2. WorkTypeOK'
      BY <1>9, UsedAssumption
         DEF TouchSession, Hold, MapTypeOK, WorkTypeOK, WorkerHas, EntriesFull, InUse,
             PCs, Ops
    <2>3. EntriesFull'
      <3>1. session' = session /\ \A i \in Ids : ss'[i] \in {ss[i], NoEntry}
        BY <1>9 DEF TouchSession, MapTypeOK
      <3>2. \A v \in Workers : cur'[v] \in {cur[v], NoEntry}
        BY <1>9 DEF TouchSession, Hold, WorkTypeOK
      <3> QED  BY <3>1, <3>2, FullKept
    <2>4. (\A v \in Workers : WorkerHas(v))'
      BY <1>9, NullAssumption
         DEF TouchSession, Hold, MapTypeOK, WorkTypeOK, WorkerHas, EntriesFull, InUse
    <2> QED  BY <2>1, <2>2, <2>3, <2>4
  <1>10. ASSUME NEW w \in Workers, ReadSetCookie(w) PROVE TypeInv'
    <2>1. MapTypeOK'
      BY <1>10 DEF ReadSetCookie, MapTypeOK, WorkTypeOK, WorkerHas
    <2>2. WorkTypeOK'
      BY <1>10, UsedAssumption
         DEF ReadSetCookie, MapTypeOK, WorkTypeOK, WorkerHas, EntriesFull, InUse, PCs,
             Ops
    <2>3. EntriesFull'
      BY <1>10 DEF ReadSetCookie, MapTypeOK, WorkTypeOK, WorkerHas, EntriesFull, InUse
    <2>4. (\A v \in Workers : WorkerHas(v))'
      BY <1>10, NullAssumption
         DEF ReadSetCookie, MapTypeOK, WorkTypeOK, WorkerHas, EntriesFull, InUse
    <2> QED  BY <2>1, <2>2, <2>3, <2>4
  <1>11. ASSUME NEW w \in Workers, generateRandSessionID(w) PROVE TypeInv'
    <2>1. MapTypeOK'
      BY <1>11 DEF generateRandSessionID, MapTypeOK, WorkTypeOK, WorkerHas
    <2>2. WorkTypeOK'
      BY <1>11, UsedAssumption
         DEF generateRandSessionID, MapTypeOK, WorkTypeOK, WorkerHas, EntriesFull,
             InUse, PCs, Ops
    <2>3. EntriesFull'
      BY <1>11
         DEF generateRandSessionID, MapTypeOK, WorkTypeOK, WorkerHas, EntriesFull, InUse
    <2>4. (\A v \in Workers : WorkerHas(v))'
      BY <1>11, NullAssumption
         DEF generateRandSessionID, MapTypeOK, WorkTypeOK, WorkerHas, EntriesFull, InUse
    <2> QED  BY <2>1, <2>2, <2>3, <2>4
  <1>12. ASSUME NEW w \in Workers, CheckOld(w) PROVE TypeInv'
    <2>1. MapTypeOK'
      BY <1>12 DEF CheckOld, Forget, MapTypeOK, WorkTypeOK, WorkerHas
    <2>2. WorkTypeOK'
      BY <1>12, UsedAssumption
         DEF CheckOld, Forget, MapTypeOK, WorkTypeOK, WorkerHas, EntriesFull, InUse,
             PCs, Ops
    <2>3. EntriesFull'
      <3>1. session' = session /\ \A i \in Ids : ss'[i] \in {ss[i], NoEntry}
        BY <1>12 DEF CheckOld, MapTypeOK
      <3>2. \A v \in Workers : cur'[v] \in {cur[v], NoEntry}
        BY <1>12 DEF CheckOld, Forget, WorkTypeOK
      <3> QED  BY <3>1, <3>2, FullKept
    <2>4. (\A v \in Workers : WorkerHas(v))'
      BY <1>12, NullAssumption
         DEF CheckOld, Forget, MapTypeOK, WorkTypeOK, WorkerHas, EntriesFull, InUse
    <2> QED  BY <2>1, <2>2, <2>3, <2>4
  <1>13. ASSUME NEW w \in Workers, ReadToken(w) PROVE TypeInv'
    <2>1. MapTypeOK'
      BY <1>13 DEF ReadToken, MapTypeOK, WorkTypeOK, WorkerHas
    <2>2. WorkTypeOK'
      BY <1>13, UsedAssumption
         DEF ReadToken, MapTypeOK, WorkTypeOK, WorkerHas, EntriesFull, InUse, PCs, Ops
    <2>3. EntriesFull'
      BY <1>13 DEF ReadToken, MapTypeOK, WorkTypeOK, WorkerHas, EntriesFull, InUse
    <2>4. (\A v \in Workers : WorkerHas(v))'
      BY <1>13, NullAssumption
         DEF ReadToken, MapTypeOK, WorkTypeOK, WorkerHas, EntriesFull, InUse
    <2> QED  BY <2>1, <2>2, <2>3, <2>4
  <1>14. ASSUME NEW w \in Workers, CompareToken(w) PROVE TypeInv'
    <2>1. MapTypeOK'
      BY <1>14 DEF CompareToken, Hold, MapTypeOK, WorkTypeOK, WorkerHas
    <2>2. WorkTypeOK'
      BY <1>14, UsedAssumption
         DEF CompareToken, Hold, MapTypeOK, WorkTypeOK, WorkerHas, EntriesFull, InUse,
             PCs, Ops
    <2>3. EntriesFull'
      <3>1. session' = session /\ \A i \in Ids : ss'[i] \in {ss[i], NoEntry}
        BY <1>14 DEF CompareToken, MapTypeOK
      <3>2. \A v \in Workers : cur'[v] \in {cur[v], NoEntry}
        BY <1>14 DEF CompareToken, Hold, WorkTypeOK
      <3> QED  BY <3>1, <3>2, FullKept
    <2>4. (\A v \in Workers : WorkerHas(v))'
      BY <1>14, NullAssumption
         DEF CompareToken, Hold, MapTypeOK, WorkTypeOK, WorkerHas, EntriesFull, InUse
    <2> QED  BY <2>1, <2>2, <2>3, <2>4
  <1>15. ASSUME NEW w \in Workers, RetireOld(w) PROVE TypeInv'
    <2>1. MapTypeOK'
      <3>1. spawned' \in [Objs -> Nat]
        BY <1>15, GoFreed DEF RetireOld, MapTypeOK
      <3> QED  BY <1>15, <3>1 DEF RetireOld, MapTypeOK
    <2>2. WorkTypeOK'
      BY <1>15, UsedAssumption
         DEF RetireOld, goFree, Forget, MapTypeOK, WorkTypeOK, WorkerHas, EntriesFull,
             InUse, PCs, Ops
    <2>3. EntriesFull'
      <3>1. session' = session /\ \A i \in Ids : ss'[i] \in {ss[i], NoEntry}
        BY <1>15 DEF RetireOld, MapTypeOK
      <3>2. \A v \in Workers : cur'[v] \in {cur[v], NoEntry}
        BY <1>15 DEF RetireOld, Forget, WorkTypeOK
      <3> QED  BY <3>1, <3>2, FullKept
    <2>4. (\A v \in Workers : WorkerHas(v))'
      BY <1>15, NullAssumption
         DEF RetireOld, goFree, Forget, MapTypeOK, WorkTypeOK, WorkerHas, EntriesFull,
             InUse
    <2> QED  BY <2>1, <2>2, <2>3, <2>4
  <1>16. ASSUME NEW w \in Workers, StampToken(w) PROVE TypeInv'
    <2>1. MapTypeOK'
      BY <1>16 DEF StampToken, MapTypeOK, WorkTypeOK, WorkerHas
    <2>2. WorkTypeOK'
      BY <1>16, UsedAssumption
         DEF StampToken, MapTypeOK, WorkTypeOK, WorkerHas, EntriesFull, InUse, PCs, Ops
    <2>3. EntriesFull'
      BY <1>16 DEF StampToken, MapTypeOK, WorkTypeOK, WorkerHas, EntriesFull, InUse
    <2>4. (\A v \in Workers : WorkerHas(v))'
      BY <1>16, NullAssumption
         DEF StampToken, MapTypeOK, WorkTypeOK, WorkerHas, EntriesFull, InUse
    <2> QED  BY <2>1, <2>2, <2>3, <2>4
  <1>17. ASSUME NEW w \in Workers, UnmapId(w) PROVE TypeInv'
    <2>1. MapTypeOK'
      BY <1>17 DEF UnmapId, MapTypeOK, WorkTypeOK, WorkerHas
    <2>2. WorkTypeOK'
      BY <1>17, UsedAssumption
         DEF UnmapId, MapTypeOK, WorkTypeOK, WorkerHas, EntriesFull, InUse, PCs, Ops
    <2>3. EntriesFull'
      <3>1. session' = session /\ \A i \in Ids : ss'[i] \in {ss[i], NoEntry}
        BY <1>17 DEF UnmapId, MapTypeOK
      <3>2. \A v \in Workers : cur'[v] \in {cur[v], NoEntry}
        BY <1>17 DEF UnmapId, WorkTypeOK
      <3> QED  BY <3>1, <3>2, FullKept
    <2>4. (\A v \in Workers : WorkerHas(v))'
      BY <1>17, NullAssumption
         DEF UnmapId, MapTypeOK, WorkTypeOK, WorkerHas, EntriesFull, InUse
    <2> QED  BY <2>1, <2>2, <2>3, <2>4
  <1>18. ASSUME NEW w \in Workers, FreeDeleted(w) PROVE TypeInv'
    <2>1. MapTypeOK'
      <3>1. spawned' \in [Objs -> Nat]
        BY <1>18, GoFreed DEF FreeDeleted, MapTypeOK
      <3> QED  BY <1>18, <3>1 DEF FreeDeleted, MapTypeOK
    <2>2. WorkTypeOK'
      BY <1>18, UsedAssumption
         DEF FreeDeleted, goFree, Return, MapTypeOK, WorkTypeOK, WorkerHas, EntriesFull,
             InUse, PCs, Ops
    <2>3. EntriesFull'
      <3>1. session' = session /\ \A i \in Ids : ss'[i] \in {ss[i], NoEntry}
        BY <1>18 DEF FreeDeleted, MapTypeOK
      <3>2. \A v \in Workers : cur'[v] \in {cur[v], NoEntry}
        BY <1>18 DEF FreeDeleted, Return, WorkTypeOK
      <3> QED  BY <3>1, <3>2, FullKept
    <2>4. (\A v \in Workers : WorkerHas(v))'
      BY <1>18, NullAssumption
         DEF FreeDeleted, goFree, Return, MapTypeOK, WorkTypeOK, WorkerHas, EntriesFull,
             InUse
    <2> QED  BY <2>1, <2>2, <2>3, <2>4
  <1>19. ASSUME NEW w \in Workers, VisitId(w) PROVE TypeInv'
    <2>1. MapTypeOK'
      BY <1>19 DEF VisitId, Takes, MapTypeOK, WorkTypeOK, WorkerHas
    <2>2. WorkTypeOK'
      BY <1>19, UsedAssumption
         DEF VisitId, Takes, MapTypeOK, WorkTypeOK, WorkerHas, EntriesFull, InUse, PCs,
             Ops
    <2>3. EntriesFull'
      BY <1>19 DEF VisitId, Takes, MapTypeOK, WorkTypeOK, WorkerHas, EntriesFull, InUse
    <2>4. (\A v \in Workers : WorkerHas(v))'
      BY <1>19, NullAssumption
         DEF VisitId, Takes, MapTypeOK, WorkTypeOK, WorkerHas, EntriesFull, InUse
    <2> QED  BY <2>1, <2>2, <2>3, <2>4
  <1>20. ASSUME NEW w \in Workers, MarkDead(w) PROVE TypeInv'
    <2>1. MapTypeOK'
      <3>1. spawned' \in [Objs -> Nat]
        BY <1>20, GoFreed DEF MarkDead, MapTypeOK
      <3> QED  BY <1>20, <3>1 DEF MarkDead, MapTypeOK
    <2>2. WorkTypeOK'
      BY <1>20, UsedAssumption
         DEF MarkDead, goFree, Forget, MapTypeOK, WorkTypeOK, WorkerHas, EntriesFull,
             InUse, PCs, Ops
    <2>3. EntriesFull'
      <3>1. session' = session /\ \A i \in Ids : ss'[i] \in {ss[i], NoEntry}
        BY <1>20 DEF MarkDead, MapTypeOK
      <3>2. \A v \in Workers : cur'[v] \in {cur[v], NoEntry}
        BY <1>20 DEF MarkDead, Forget, WorkTypeOK
      <3> QED  BY <3>1, <3>2, FullKept
    <2>4. (\A v \in Workers : WorkerHas(v))'
      BY <1>20, NullAssumption
         DEF MarkDead, goFree, Forget, MapTypeOK, WorkTypeOK, WorkerHas, EntriesFull,
             InUse
    <2> QED  BY <2>1, <2>2, <2>3, <2>4
  <1>21. ASSUME NEW w \in Workers, WipeIds(w) PROVE TypeInv'
    <2>1. MapTypeOK'
      BY <1>21 DEF WipeIds, Return, MapTypeOK, WorkTypeOK, WorkerHas
    <2>2. WorkTypeOK'
      BY <1>21, UsedAssumption
         DEF WipeIds, Return, MapTypeOK, WorkTypeOK, WorkerHas, EntriesFull, InUse, PCs,
             Ops
    <2>3. EntriesFull'
      <3>1. session' = session /\ \A i \in Ids : ss'[i] \in {ss[i], NoEntry}
        BY <1>21 DEF WipeIds, MapTypeOK
      <3>2. \A v \in Workers : cur'[v] \in {cur[v], NoEntry}
        BY <1>21 DEF WipeIds, Return, WorkTypeOK
      <3> QED  BY <3>1, <3>2, FullKept
    <2>4. (\A v \in Workers : WorkerHas(v))'
      BY <1>21, NullAssumption
         DEF WipeIds, Return, MapTypeOK, WorkTypeOK, WorkerHas, EntriesFull, InUse
    <2> QED  BY <2>1, <2>2, <2>3, <2>4
  <1>22. ASSUME NEW w \in Workers, Leave(w) PROVE TypeInv'
    <2>1. MapTypeOK'
      BY <1>22 DEF Leave, Return, MapTypeOK, WorkTypeOK, WorkerHas
    <2>2. WorkTypeOK'
      BY <1>22, UsedAssumption
         DEF Leave, Return, MapTypeOK, WorkTypeOK, WorkerHas, EntriesFull, InUse, PCs,
             Ops
    <2>3. EntriesFull'
      <3>1. session' = session /\ \A i \in Ids : ss'[i] \in {ss[i], NoEntry}
        BY <1>22 DEF Leave, MapTypeOK
      <3>2. \A v \in Workers : cur'[v] \in {cur[v], NoEntry}
        BY <1>22 DEF Leave, Return, WorkTypeOK
      <3> QED  BY <3>1, <3>2, FullKept
    <2>4. (\A v \in Workers : WorkerHas(v))'
      BY <1>22, NullAssumption
         DEF Leave, Return, MapTypeOK, WorkTypeOK, WorkerHas, EntriesFull, InUse
    <2> QED  BY <2>1, <2>2, <2>3, <2>4
  <1>23. ASSUME NEW w \in Workers, AppendCall(w) PROVE TypeInv'
    <2>1. MapTypeOK'
      BY <1>23 DEF AppendCall, MapTypeOK, WorkTypeOK, WorkerHas
    <2>2. WorkTypeOK'
      BY <1>23, UsedAssumption
         DEF AppendCall, MapTypeOK, WorkTypeOK, WorkerHas, EntriesFull, InUse, PCs, Ops
    <2>3. EntriesFull'
      BY <1>23 DEF AppendCall, MapTypeOK, WorkTypeOK, WorkerHas, EntriesFull, InUse
    <2>4. (\A v \in Workers : WorkerHas(v))'
      BY <1>23, NullAssumption
         DEF AppendCall, MapTypeOK, WorkTypeOK, WorkerHas, EntriesFull, InUse
    <2> QED  BY <2>1, <2>2, <2>3, <2>4
  <1>24. ASSUME NEW w \in Workers, GetHas(w) PROVE TypeInv'
    <2>1. MapTypeOK'
      BY <1>24 DEF GetHas, MapTypeOK, WorkTypeOK, WorkerHas
    <2>2. id[w] \in Ids
      BY <1>24 DEF GetHas, WorkTypeOK, WorkerHas
    <2>3. WorkTypeOK'
      <3>1. CASE Miss(w)  BY <2>2, <3>1, MissTypes
      <3>2. CASE ~Miss(w)
        <4>1. ss[id[w]] \in Entries \cup {NoEntry}  BY <2>2 DEF MapTypeOK
        <4>2. /\ pc' = [pc EXCEPT ![w] = "seen"]
              /\ cur' = [cur EXCEPT ![w] = ss[id[w]]]
              /\ UNCHANGED <<op, id, sess, tok, todo, expID>>
          BY <1>24, <3>2 DEF GetHas
        <4> QED  BY <4>1, <4>2 DEF WorkTypeOK, PCs
      <3> QED  BY <3>1, <3>2
    <2>4. EntriesFull'
      BY <1>24, <2>2
         DEF GetHas, Miss, Return, Forget, MapTypeOK, WorkTypeOK, WorkerHas,
             EntriesFull, InUse
    <2>5. (\A v \in Workers : WorkerHas(v))'
      BY <1>24, NullAssumption
         DEF GetHas, Miss, Return, Forget, MapTypeOK, WorkTypeOK, WorkerHas
    <2> QED  BY <2>1, <2>3, <2>4, <2>5
  <1>25. ASSUME NEW w \in Workers, CheckAvailable(w) PROVE TypeInv'
    <2>1. MapTypeOK'
      BY <1>25 DEF CheckAvailable, MapTypeOK, WorkTypeOK, WorkerHas
    <2>2. id[w] \in Ids
      BY <1>25 DEF CheckAvailable, WorkTypeOK, WorkerHas
    <2>3. WorkTypeOK'
      <3>1. CASE Miss(w)  BY <2>2, <3>1, MissTypes
      <3>2. CASE ~Miss(w)
        BY <1>25, <2>2, <3>2 DEF CheckAvailable, MapTypeOK, WorkTypeOK, PCs
      <3> QED  BY <3>1, <3>2
    <2>4. EntriesFull'
      <3>1. session' = session /\ \A i \in Ids : ss'[i] \in {ss[i], NoEntry}
        BY <1>25, <2>2 DEF CheckAvailable, MapTypeOK
      <3>2. \A v \in Workers : cur'[v] \in {cur[v], NoEntry}
        BY <1>25 DEF CheckAvailable, Miss, Return, Forget, WorkTypeOK
      <3> QED  BY <3>1, <3>2, FullKept
    <2>5. (\A v \in Workers : WorkerHas(v))'
      BY <1>25, NullAssumption
         DEF CheckAvailable, Miss, Return, Forget, MapTypeOK, WorkTypeOK, WorkerHas
    <2> QED  BY <2>1, <2>3, <2>4, <2>5
  <1>26. ASSUME NEW w \in Workers, DropId(w) PROVE TypeInv'
    <2>1. MapTypeOK'
      BY <1>26 DEF DropId, MapTypeOK, WorkTypeOK, WorkerHas
    <2>2. id[w] \in Ids
      BY <1>26 DEF DropId, WorkTypeOK, WorkerHas
    <2>3. WorkTypeOK'
      BY <1>26, <2>2, MissTypes DEF DropId
    <2>4. EntriesFull'
      <3>1. session' = session /\ \A i \in Ids : ss'[i] \in {ss[i], NoEntry}
        BY <1>26, <2>2 DEF DropId, MapTypeOK
      <3>2. \A v \in Workers : cur'[v] \in {cur[v], NoEntry}
        BY <1>26 DEF DropId, Miss, Return, Forget, WorkTypeOK
      <3> QED  BY <3>1, <3>2, FullKept
    <2>5. (\A v \in Workers : WorkerHas(v))'
      BY <1>26, NullAssumption
         DEF DropId, Miss, Return, Forget, MapTypeOK, WorkTypeOK, WorkerHas
    <2> QED  BY <2>1, <2>3, <2>4, <2>5
  <1>27. ASSUME NEW w \in Workers, CallNew(w) PROVE TypeInv'
    <2>1. PICK o \in Objs : Allocate(w, o)  BY <1>27, Allocates DEF CallNew
    <2>2. MapTypeOK'
      <3>1. /\ token' \in [Objs -> Ids \cup {NoId}] /\ stored' \in [Objs -> Nat]
            /\ freed' \in [Objs -> BOOLEAN]
        BY <2>1 DEF Allocate, MapTypeOK
      <3> QED  BY <1>27, <3>1 DEF CallNew, MapTypeOK
    <2>3. WorkTypeOK'  BY <1>27, <2>1 DEF CallNew, Allocate, WorkTypeOK, PCs
    <2>4. EntriesFull'  BY <1>27 DEF CallNew, EntriesFull, InUse
    <2>5. (\A v \in Workers : WorkerHas(v))'
      BY <1>27, <2>1, NullAssumption DEF CallNew, Allocate, WorkTypeOK, WorkerHas
    <2> QED  BY <2>2, <2>3, <2>4, <2>5
  <1>28. ASSUME NEW w \in Workers, SetSession(w) PROVE TypeInv'
    <2>1. \/ \E o \in Objs : Allocate(w, o)
          \/ sess[w] # NoObj /\ UNCHANGED <<sess, token, stored, freed, efs, ran>>
      BY <1>28, Allocates DEF SetSession
    <2>2. id[w] \in Ids  BY <1>28 DEF SetSession, WorkTypeOK, WorkerHas
    <2>3. MapTypeOK'
      <3>1. CASE \E o \in Objs : Allocate(w, o)
        BY <1>28, <3>1 DEF SetSession, Allocate, MapTypeOK
      <3>2. CASE UNCHANGED <<sess, token, stored, freed, efs, ran>>
        BY <1>28, <3>2 DEF SetSession, MapTypeOK
      <3> QED  BY <2>1, <3>1, <3>2
    <2>4. sess' \in [Workers -> Objs \cup {NoObj}] /\ sess'[w] # NoObj
          /\ \A v \in Workers \ {w} : sess'[v] = sess[v]
      BY <2>1, NullAssumption DEF Allocate, WorkTypeOK
    <2>5. WorkTypeOK'
      BY <1>28, <2>2, <2>4 DEF SetSession, MapTypeOK, WorkTypeOK, PCs
    <2>6. EntriesFull'
      BY <1>28, <2>2 DEF SetSession, MapTypeOK, WorkTypeOK, EntriesFull, InUse
    <2>7. (\A v \in Workers : WorkerHas(v))'
      BY <1>28, <2>2, <2>4, NullAssumption DEF SetSession, MapTypeOK, WorkTypeOK, WorkerHas
    <2> QED  BY <2>3, <2>5, <2>6, <2>7
  <1>29. ASSUME NEW w \in Workers, PutSession(w) PROVE TypeInv'
    <2>1. PICK m \in Entries : PutsEntry(w, m)  BY <1>29, Puts
    <2>2. id[w] \in Ids /\ sess[w] \in Objs
      BY <1>29 DEF PutSession, WorkTypeOK, WorkerHas
    <2>3. MapTypeOK'  BY <1>29, <2>1, <2>2 DEF PutSession, PutsEntry, MapTypeOK
    <2>4. WorkTypeOK'  BY <1>29, <2>2 DEF PutSession, Hold, WorkTypeOK, PCs, Ops
    <2>5. EntriesFull'
      <3> SUFFICES ASSUME NEW n \in Entries, InUse(n)' PROVE session'[n] # NoObj
        BY DEF EntriesFull
      <3>1. CASE n = m  BY <2>1, <2>2, <3>1, NullAssumption DEF PutsEntry, MapTypeOK
      <3>2. CASE n # m
        <4>1. \A i \in Ids : ss'[i] \in {ss[i], m}  BY <2>1 DEF PutsEntry, MapTypeOK
        <4>2. \A v \in Workers : cur'[v] \in {cur[v], NoEntry}
          BY <1>29 DEF PutSession, Hold, WorkTypeOK
        <4>3. InUse(n)  BY <3>2, <4>1, <4>2, NullAssumption DEF InUse
        <4>4. session'[n] = session[n]  BY <2>1, <3>2 DEF PutsEntry, MapTypeOK
        <4> QED  BY <4>3, <4>4 DEF EntriesFull
      <3> QED  BY <3>1, <3>2
    <2>6. (\A v \in Workers : WorkerHas(v))'
      BY <1>29, <2>2, NullAssumption DEF PutSession, Hold, WorkTypeOK, WorkerHas
    <2> QED  BY <2>3, <2>4, <2>5, <2>6
  <1>30. ASSUME NEW m \in Entries, Elapse(m) PROVE TypeInv'
    BY <1>30 DEF Elapse, MapTypeOK, WorkTypeOK, EntriesFull, InUse, WorkerHas
  <1>31. ASSUME NEW o \in Objs, Free(o) \/ ExitCallFree(o) PROVE TypeInv'
    <2>1. MapTypeOK'
      <3>1. CASE Free(o)  BY <3>1 DEF Free, MapTypeOK
      <3>2. CASE ExitCallFree(o)  BY <3>2 DEF ExitCallFree, MapTypeOK
      <3> QED  BY <1>31, <3>1, <3>2
    <2>2. UNCHANGED <<ss, entryVars, workVars>>  BY <1>31 DEF Free, ExitCallFree
    <2> QED  BY <2>1, <2>2 DEF WorkTypeOK, EntriesFull, InUse, WorkerHas
  <1>32. ASSUME UNCHANGED vars PROVE TypeInv'
    BY <1>32 DEF vars, MapTypeOK, WorkTypeOK, EntriesFull, InUse, WorkerHas
  <1> QED
    BY <1>1, <1>2, <1>3, <1>4, <1>5, <1>6, <1>7, <1>8, <1>9, <1>10, <1>11, <1>12,
       <1>13, <1>14, <1>15, <1>16, <1>17, <1>18, <1>19, <1>20, <1>21, <1>22, <1>23,
       <1>24, <1>25, <1>26, <1>27, <1>28, <1>29, <1>30, <1>31, <1>32
    DEF Next, Start, Step, DrawAgain

\* Every variable but the deferred calls has its type, and a worker that uses the
\* id, the entry or the session it read has one.
THEOREM TypeInvariant == Spec => []TypeInv
  BY TypeInit, TypeStep, PTL DEF Spec

-----------------------------------------------------------------------------
(* Deferred calls are numbered: a call gets the number after all that are  *)
(* waiting or were run, and running them only moves the numbers over.      *)

Numbering(waiting, run) ==
    /\ waiting \in Seq(Nat) /\ run \in Seq(Nat)
    /\ \A i \in DOMAIN waiting : waiting[i] \in 1 .. Len(waiting) + Len(run)
    /\ \A i \in DOMAIN run : run[i] \in 1 .. Len(waiting) + Len(run)
    /\ \A i, j \in DOMAIN waiting : waiting[i] = waiting[j] => i = j
    /\ \A i, j \in DOMAIN run : run[i] = run[j] => i = j
    /\ \A i \in DOMAIN run, j \in DOMAIN waiting : run[i] # waiting[j]

LEMMA NumberingEmpty == Numbering(<<>>, <<>>)
  BY DEF Numbering

LEMMA NumberingAppend ==
    ASSUME NEW s, NEW t, Numbering(s, t)
    PROVE  /\ Numbering(Append(s, Len(s) + Len(t) + 1), t)
           /\ Len(Append(s, Len(s) + Len(t) + 1)) = Len(s) + 1
  <1>1. s \in Seq(Nat) /\ t \in Seq(Nat)  BY DEF Numbering
  <1>2. PICK m \in Nat : m = Len(s) + Len(t) + 1  BY <1>1
  <1>3. PICK u : u = Append(s, m)  OBVIOUS
  <1>4. /\ u \in Seq(Nat) /\ Len(u) = Len(s) + 1
        /\ DOMAIN u = 1 .. Len(s) + 1 /\ u[Len(s) + 1] = m
        /\ \A i \in DOMAIN s : i \in DOMAIN u /\ u[i] = s[i]
        /\ \A i \in DOMAIN u : i \in DOMAIN s \/ i = Len(s) + 1
    BY <1>1, <1>2, <1>3
  <1>5. \A i \in DOMAIN s : s[i] \in Nat /\ s[i] < m  BY <1>1, <1>2 DEF Numbering
  <1>6. \A i \in DOMAIN t : t[i] \in Nat /\ t[i] < m  BY <1>1, <1>2 DEF Numbering
  <1>7. Len(u) + Len(t) = m  BY <1>1, <1>2, <1>4
  <1>8. \A i \in DOMAIN u : u[i] \in 1 .. m  BY <1>1, <1>2, <1>4, <1>5 DEF Numbering
  <1>9. \A i \in DOMAIN t : t[i] \in 1 .. m  BY <1>1, <1>2, <1>6 DEF Numbering
  <1>10. ASSUME NEW i \in DOMAIN u, NEW j \in DOMAIN u, u[i] = u[j] PROVE i = j
    <2>1. CASE i \in DOMAIN s /\ j \in DOMAIN s  BY <2>1, <1>10, <1>4 DEF Numbering
    <2>2. CASE i \in DOMAIN s /\ j = Len(s) + 1
      <3>1. u[i] < m /\ u[j] = m  BY <2>2, <1>4, <1>5
      <3> QED  BY <3>1, <1>10, <1>2
    <2>3. CASE j \in DOMAIN s /\ i = Len(s) + 1
      <3>1. u[j] < m /\ u[i] = m  BY <2>3, <1>4, <1>5
      <3> QED  BY <3>1, <1>10, <1>2
    <2> QED  BY <2>1, <2>2, <2>3, <1>4
  <1>11. ASSUME NEW i \in DOMAIN t, NEW j \in DOMAIN u PROVE t[i] # u[j]
    <2>1. CASE j \in DOMAIN s  BY <2>1, <1>4 DEF Numbering
    <2>2. CASE j = Len(s) + 1
      <3>1. t[i] < m /\ u[j] = m  BY <2>2, <1>4, <1>6
      <3> QED  BY <3>1, <1>2
    <2> QED  BY <2>1, <2>2, <1>4
  <1>12. Numbering(u, t)  BY <1>1, <1>4, <1>7, <1>8, <1>9, <1>10, <1>11 DEF Numbering
  <1> QED  BY <1>2, <1>3, <1>4, <1>12

LEMMA NumberingRun ==
    ASSUME NEW s, NEW t, Numbering(s, t)
    PROVE  /\ Numbering(<<>>, t \o Reverse(s))
           /\ Len(t \o Reverse(s)) = Len(s) + Len(t)
  <1>1. s \in Seq(Nat) /\ t \in Seq(Nat)  BY DEF Numbering
  <1>2. PICK m \in Nat, n \in Nat : m = Len(s) /\ n = Len(t)  BY <1>1
  <1>3. PICK q : q = Reverse(s)  OBVIOUS
  <1>4. q \in Seq(Nat) /\ Len(q) = m /\ \A i \in 1 .. m : q[i] = s[m - i + 1]
    BY <1>1, <1>2, <1>3 DEF Reverse
  <1>5. PICK u : u = t \o q  OBVIOUS
  <1>6. /\ u \in Seq(Nat) /\ Len(u) = m + n /\ DOMAIN u = 1 .. m + n
        /\ \A i \in 1 .. n : u[i] = t[i]
        /\ \A i \in n + 1 .. m + n : u[i] = q[i - n]
    <2>1. u \in Seq(Nat) /\ Len(u) = n + m
      <3>1. t \o q \in Seq(Nat) /\ Len(t \o q) = Len(t) + Len(q)
        BY <1>1, <1>4, ConcatProperties
      <3> QED  BY <3>1, <1>2, <1>4, <1>5
    <2>2. DOMAIN u = 1 .. m + n  BY <2>1, <1>2
    <2>3. \A i \in 1 .. n + m : u[i] = IF i <= n THEN t[i] ELSE q[i - n]
      BY <1>1, <1>2, <1>4, <1>5, ConcatProperties
    <2>4. ASSUME NEW i \in 1 .. n PROVE u[i] = t[i]
      <3>1. i \in 1 .. n + m /\ i <= n  BY <1>2
      <3> QED  BY <3>1, <2>3
    <2>5. ASSUME NEW i \in n + 1 .. m + n PROVE u[i] = q[i - n]
      <3>1. i \in 1 .. n + m /\ ~(i <= n)  BY <1>2
      <3> QED  BY <3>1, <2>3
    <2>6. Len(u) = m + n  BY <2>1, <1>2
    <2> QED  BY <2>1, <2>2, <2>4, <2>5, <2>6
  <1>7. ASSUME NEW i \in n + 1 .. m + n
        PROVE  m - (i - n) + 1 \in 1 .. m /\ u[i] = s[m - (i - n) + 1]
    <2>1. i - n \in 1 .. m /\ m - (i - n) + 1 \in 1 .. m  BY <1>2
    <2>2. u[i] = q[i - n] /\ q[i - n] = s[m - (i - n) + 1]  BY <2>1, <1>4, <1>6
    <2> QED  BY <2>1, <2>2
  <1>8. DOMAIN s = 1 .. m /\ DOMAIN t = 1 .. n  BY <1>1, <1>2
  <1>9. \A i \in DOMAIN u : u[i] \in 1 .. m + n
    <2>0. /\ \A i \in 1 .. m : s[i] \in 1 .. m + n
          /\ \A i \in 1 .. n : t[i] \in 1 .. m + n
      BY <1>2, <1>8 DEF Numbering
    <2>1. \A i \in 1 .. n : u[i] \in 1 .. m + n  BY <1>6, <2>0
    <2>2. \A i \in n + 1 .. m + n : u[i] \in 1 .. m + n  BY <1>7, <2>0
    <2> QED  BY <2>1, <2>2, <1>6, <1>2
  <1>10. \A i, j \in DOMAIN u : u[i] = u[j] => i = j
    <2> SUFFICES ASSUME NEW i \in 1 .. m + n, NEW j \in 1 .. m + n, u[i] = u[j] PROVE i = j
      BY <1>6
    <2>1. CASE i <= n /\ j <= n
      <3>1. i \in 1 .. n /\ j \in 1 .. n  BY <2>1, <1>2
      <3> QED  BY <3>1, <1>6, <1>8 DEF Numbering
    <2>2. CASE i > n /\ j > n
      <3>1. i \in n + 1 .. m + n /\ j \in n + 1 .. m + n  BY <2>2, <1>2
      <3>2. m - (i - n) + 1 \in DOMAIN s /\ m - (j - n) + 1 \in DOMAIN s
        BY <3>1, <1>7, <1>8
      <3>3. s[m - (i - n) + 1] = s[m - (j - n) + 1]  BY <3>1, <1>7
      <3>4. m - (i - n) + 1 = m - (j - n) + 1  BY <3>2, <3>3 DEF Numbering
      <3> QED  BY <3>4, <1>2
    <2>3. CASE i <= n /\ j > n
      <3>1. i \in 1 .. n /\ j \in n + 1 .. m + n  BY <2>3, <1>2
      <3>2. i \in DOMAIN t /\ m - (j - n) + 1 \in DOMAIN s  BY <3>1, <1>7, <1>8
      <3>3. t[i] # s[m - (j - n) + 1]  BY <3>2 DEF Numbering
      <3>4. u[i] = t[i] /\ u[j] = s[m - (j - n) + 1]  BY <3>1, <1>6, <1>7
      <3> QED  BY <3>3, <3>4
    <2>4. CASE i > n /\ j <= n
      <3>1. j \in 1 .. n /\ i \in n + 1 .. m + n  BY <2>4, <1>2
      <3>2. j \in DOMAIN t /\ m - (i - n) + 1 \in DOMAIN s  BY <3>1, <1>7, <1>8
      <3>3. t[j] # s[m - (i - n) + 1]  BY <3>2 DEF Numbering
      <3>4. u[j] = t[j] /\ u[i] = s[m - (i - n) + 1]  BY <3>1, <1>6, <1>7
      <3> QED  BY <3>3, <3>4
    <2> QED  BY <2>1, <2>2, <2>3, <2>4, <1>2
  <1>11. Numbering(<<>>, u)  BY <1>2, <1>6, <1>9, <1>10 DEF Numbering
  <1> QED  BY <1>2, <1>3, <1>5, <1>6, <1>11

Appending(o) == {w \in Workers : pc[w] = "append" /\ sess[w] = o}

CallsInv ==
    /\ efs \in [Objs -> Seq(Nat)] /\ ran \in [Objs -> Seq(Nat)]
    /\ \A o \in Objs :
         /\ Numbering(efs[o], ran[o])
         /\ Len(efs[o]) + Len(ran[o]) + Cardinality(Appending(o)) <= MaxDefers

LEMMA AppendingCounts ==
    \A o : IsFiniteSet(Appending(o)) /\ Cardinality(Appending(o)) \in Nat
  <1>1. \A o : Appending(o) \subseteq Workers  BY DEF Appending
  <1> QED  BY <1>1, FiniteAssumption, FS_Subset, FS_CardinalityType

LEMMA FunctionIsSeq ==
    ASSUME NEW S, NEW n \in Nat, NEW f \in [1 .. n -> S]
    PROVE  f \in Seq(S)
  BY SeqDef

LEMMA CallsMean == CallsInv => /\ CallsRunOnce
                               /\ efs \in [Objs -> Seq(1 .. MaxDefers)]
                               /\ ran \in [Objs -> Seq(1 .. MaxDefers)]
  <1> SUFFICES ASSUME CallsInv
               PROVE  /\ CallsRunOnce
                      /\ \A o \in Objs : /\ efs[o] \in Seq(1 .. MaxDefers)
                                         /\ ran[o] \in Seq(1 .. MaxDefers)
    BY DEF CallsInv
  <1>1. CallsRunOnce  BY DEF CallsInv, CallsRunOnce, Numbering, IsInjective
  <1>2. ASSUME NEW o \in Objs
        PROVE  efs[o] \in Seq(1 .. MaxDefers) /\ ran[o] \in Seq(1 .. MaxDefers)
    <2>1. PICK n \in Nat : n = Len(efs[o]) + Len(ran[o])  BY DEF CallsInv
    <2>2. n <= MaxDefers
      <3>1. PICK m \in Nat : m = Cardinality(Appending(o))  BY AppendingCounts
      <3>2. n + m <= MaxDefers  BY <2>1, <3>1 DEF CallsInv
      <3> QED  BY <3>2, BoundAssumption
    <2>3. 1 .. n \subseteq 1 .. MaxDefers  BY <2>2, BoundAssumption
    <2>4. /\ efs[o] \in Seq(Nat) /\ \A i \in DOMAIN efs[o] : efs[o][i] \in 1 .. n
          /\ ran[o] \in Seq(Nat) /\ \A i \in DOMAIN ran[o] : ran[o][i] \in 1 .. n
      BY <2>1 DEF CallsInv, Numbering
    <2>5. /\ \A i \in 1 .. Len(efs[o]) : efs[o][i] \in 1 .. MaxDefers
          /\ \A i \in 1 .. Len(ran[o]) : ran[o][i] \in 1 .. MaxDefers
      BY <2>3, <2>4
    <2>6. /\ efs[o] = [i \in 1 .. Len(efs[o]) |-> efs[o][i]] /\ Len(efs[o]) \in Nat
          /\ ran[o] = [i \in 1 .. Len(ran[o]) |-> ran[o][i]] /\ Len(ran[o]) \in Nat
      BY <2>4, SeqDef
    <2>7. /\ efs[o] \in [1 .. Len(efs[o]) -> 1 .. MaxDefers]
          /\ ran[o] \in [1 .. Len(ran[o]) -> 1 .. MaxDefers]
      BY <2>5, <2>6
    <2> QED  BY <2>6, <2>7, FunctionIsSeq
  <1> QED  BY <1>1, <1>2

LEMMA CallsInit == Init => CallsInv
  <1> SUFFICES ASSUME Init PROVE CallsInv  OBVIOUS
  <1>1. \A o \in Objs : Appending(o) = {}  BY DEF Init, Appending
  <1>2. Cardinality({}) = 0  BY FS_EmptySet
  <1>3. \A o \in Objs : efs[o] = <<>> /\ ran[o] = <<>>  BY DEF Init
  <1>4. \A o \in Objs : Len(efs[o]) + Len(ran[o]) + Cardinality(Appending(o)) <= MaxDefers
    <2>1. Len(<<>>) = 0  OBVIOUS
    <2>2. ASSUME NEW o \in Objs
          PROVE  Len(efs[o]) = 0 /\ Len(ran[o]) = 0 /\ Cardinality(Appending(o)) = 0
      BY <2>1, <1>1, <1>2, <1>3
    <2>3. ASSUME NEW o \in Objs
          PROVE  Len(efs[o]) + Len(ran[o]) + Cardinality(Appending(o)) <= MaxDefers
      <3>1. 0 + 0 + 0 <= MaxDefers  BY BoundAssumption
      <3> QED  BY <3>1, <2>2
    <2> QED  BY <2>3
  <1>5. efs \in [Objs -> Seq(Nat)] /\ ran \in [Objs -> Seq(Nat)]  BY DEF Init
  <1> QED  BY <1>3, <1>4, <1>5, NumberingEmpty DEF CallsInv

\* Steps of other sessions, and all that neither accept nor run a call.
LEMMA SameCalls ==
    ASSUME CallsInv, NEW o \in Objs, efs'[o] = efs[o], ran'[o] = ran[o],
           Appending(o)' = Appending(o)
    PROVE  /\ Numbering(efs'[o], ran'[o])
           /\ Len(efs'[o]) + Len(ran'[o]) + Cardinality(Appending(o)') <= MaxDefers
  BY DEF CallsInv

\* A new session has accepted no calls.
LEMMA CallsOfNew ==
    ASSUME TypeInv, CallsInv, NEW w \in Workers, NEW o \in Objs, ~Reachable(o),
           Allocate(w, o), pc[w] # "append", pc'[w] # "append",
           \A v \in Workers \ {w} : pc'[v] = pc[v]
    PROVE  CallsInv'
  <1>0. /\ efs \in [Objs -> Seq(Nat)] /\ ran \in [Objs -> Seq(Nat)]
        /\ sess \in [Workers -> Objs \cup {NoObj}]
    BY DEF CallsInv, TypeInv, WorkTypeOK
  <1>1. /\ efs' = [efs EXCEPT ![o] = <<>>] /\ ran' = [ran EXCEPT ![o] = <<>>]
        /\ \A v \in Workers \ {w} : sess'[v] = sess[v]
    BY <1>0 DEF Allocate
  <1>2. \A x \in Objs : Appending(x)' = Appending(x)  BY <1>1 DEF Appending
  <1>3. Appending(o) = {}  BY DEF Reachable, Appending
  <1>4. efs'[o] = <<>> /\ ran'[o] = <<>>  BY <1>0, <1>1
  <1>5. Cardinality(Appending(o)') = 0  BY <1>2, <1>3, FS_EmptySet
  <1>6. Len(efs'[o]) + Len(ran'[o]) + Cardinality(Appending(o)') <= MaxDefers
    <2>1. Len(efs'[o]) = 0 /\ Len(ran'[o]) = 0  BY <1>4
    <2> QED  BY <2>1, <1>5, BoundAssumption
  <1>7. \A x \in Objs \ {o} :
           /\ Numbering(efs'[x], ran'[x])
           /\ Len(efs'[x]) + Len(ran'[x]) + Cardinality(Appending(x)') <= MaxDefers
    BY <1>0, <1>1, <1>2, SameCalls
  <1>8. efs' \in [Objs -> Seq(Nat)] /\ ran' \in [Objs -> Seq(Nat)]  BY <1>0, <1>1
  <1> QED  BY <1>4, <1>6, <1>7, <1>8, NumberingEmpty DEF CallsInv

LEMMA CallsStep == TypeInv /\ CallsInv /\ [Next]_vars => CallsInv'
  <1> SUFFICES ASSUME TypeInv, CallsInv, [Next]_vars PROVE CallsInv'  OBVIOUS
  <1>0. /\ efs \in [Objs -> Seq(Nat)] /\ ran \in [Objs -> Seq(Nat)]
        /\ pc \in [Workers -> PCs] /\ sess \in [Workers -> Objs \cup {NoObj}]
    BY DEF CallsInv, TypeInv, WorkTypeOK
  <1>1. ASSUME UNCHANGED <<efs, ran>>, \A o \in Objs : Appending(o)' = Appending(o)
        PROVE  CallsInv'
    BY <1>1, SameCalls DEF CallsInv
  <1>2. ASSUME UNCHANGED <<efs, ran>>, NEW w \in Workers, pc[w] # "append",
               \A v \in Workers \ {w} : pc'[v] = pc[v] /\ sess'[v] = sess[v],
               pc'[w] # "append"
        PROVE  CallsInv'
    BY <1>1, <1>2 DEF Appending
  <1>3. ASSUME NEW w \in Workers, Defer(w) PROVE CallsInv'
    <2>1. /\ pc[w] = "held" /\ pc' = [pc EXCEPT ![w] = "append"]
          /\ sess[w] \in Objs /\ UNCHANGED <<efs, ran, sess>>
          /\ Accepted(sess[w]) < MaxDefers
      BY <1>3 DEF Defer, GoTo, sessVars, exitVars, TypeInv, WorkTypeOK, WorkerHas
    <2>2. PICK o \in Objs : o = sess[w]  BY <2>1
    <2>3. Appending(o)' = Appending(o) \cup {w} /\ w \notin Appending(o)
      BY <2>1, <2>2, <1>0 DEF Appending
    <2>4. \A x \in Objs \ {o} : Appending(x)' = Appending(x)
      BY <2>1, <2>2, <1>0 DEF Appending
    <2>5. PICK n \in Nat, m \in Nat :
            n = Len(efs[o]) + Len(ran[o]) /\ m = Cardinality(Appending(o))
      BY <1>0, AppendingCounts
    <2>6. Cardinality(Appending(o)') = m + 1
      <3>1. IsFiniteSet(Appending(o))  BY AppendingCounts
      <3>2. Cardinality(Appending(o) \cup {w}) = m + 1
        BY <2>3, <2>5, <3>1, FS_AddElement
      <3> QED  BY <2>3, <3>2
    <2>7. n + m < MaxDefers  BY <2>1, <2>2, <2>5 DEF Accepted, Appending
    <2>8. n + Cardinality(Appending(o)') <= MaxDefers
      <3>1. PICK k : k = Cardinality(Appending(o)')  OBVIOUS
      <3>2. n + k <= MaxDefers  BY <3>1, <2>6, <2>7, BoundAssumption
      <3> QED  BY <3>1, <3>2
    <2>9. Numbering(efs'[o], ran'[o])  BY <2>1 DEF CallsInv
    <2>10. Len(efs'[o]) + Len(ran'[o]) + Cardinality(Appending(o)') <= MaxDefers
      <3>1. efs'[o] = efs[o] /\ ran'[o] = ran[o]  BY <2>1
      <3> QED  BY <3>1, <2>5, <2>8
    <2>11. \A x \in Objs \ {o} :
             /\ Numbering(efs'[x], ran'[x])
             /\ Len(efs'[x]) + Len(ran'[x]) + Cardinality(Appending(x)') <= MaxDefers
      BY <2>1, <2>4, SameCalls
    <2> QED  BY <2>1, <2>9, <2>10, <2>11, <1>0 DEF CallsInv
  <1>4. ASSUME NEW w \in Workers, AppendCall(w) PROVE CallsInv'
    <2>1. /\ pc[w] = "append" /\ pc' = [pc EXCEPT ![w] = "held"] /\ sess[w] \in Objs
          /\ UNCHANGED <<ran, sess>>
      BY <1>4 DEF AppendCall, GoTo, TypeInv, WorkTypeOK, WorkerHas
    <2>2. PICK o \in Objs : o = sess[w]  BY <2>1
    <2>3. efs' = [efs EXCEPT ![o] = Append(efs[o], Len(efs[o]) + Len(ran[o]) + 1)]
      BY <1>4, <2>2, <1>0 DEF AppendCall
    <2>4. Appending(o)' = Appending(o) \ {w} /\ w \in Appending(o)
      BY <2>1, <2>2, <1>0 DEF Appending
    <2>5. \A x \in Objs \ {o} : Appending(x)' = Appending(x)
      BY <2>1, <2>2, <1>0 DEF Appending
    <2>6. efs'[o] = Append(efs[o], Len(efs[o]) + Len(ran[o]) + 1)  BY <2>3, <1>0
    <2>7. Numbering(efs'[o], ran'[o]) /\ Len(efs'[o]) = Len(efs[o]) + 1
      BY <2>1, <2>6, NumberingAppend DEF CallsInv
    <2>8. PICK n \in Nat, r \in Nat, m \in Nat :
            n = Len(efs[o]) /\ r = Len(ran[o]) /\ m = Cardinality(Appending(o))
      BY <1>0, AppendingCounts
    <2>9. Cardinality(Appending(o)') = m - 1
      <3>1. IsFiniteSet(Appending(o))  BY AppendingCounts
      <3>2. Cardinality(Appending(o) \ {w}) = m - 1
        BY <2>4, <2>8, <3>1, FS_RemoveElement
      <3> QED  BY <2>4, <3>2
    <2>10. n + r + m <= MaxDefers  BY <2>8 DEF CallsInv
    <2>11. Len(efs'[o]) + Len(ran'[o]) + Cardinality(Appending(o)') <= MaxDefers
      <3>1. PICK k : k = Cardinality(Appending(o)')  OBVIOUS
      <3>2. Len(efs'[o]) = n + 1 /\ Len(ran'[o]) = r  BY <2>1, <2>7, <2>8
      <3>3. (n + 1) + r + k <= MaxDefers  BY <3>1, <2>9, <2>10, BoundAssumption
      <3> QED  BY <3>1, <3>2, <3>3
    <2>12. \A x \in Objs \ {o} :
             /\ Numbering(efs'[x], ran'[x])
             /\ Len(efs'[x]) + Len(ran'[x]) + Cardinality(Appending(x)') <= MaxDefers
      BY <2>1, <2>3, <2>5, <1>0, SameCalls
    <2>13. efs' \in [Objs -> Seq(Nat)]  BY <2>3, <1>0
    <2> QED  BY <2>1, <2>7, <2>11, <2>12, <2>13, <1>0 DEF CallsInv
  <1>5. ASSUME NEW w \in Workers, SetSession(w) \/ CallNew(w) PROVE CallsInv'
    <2>1. /\ pc[w] # "append" /\ pc'[w] # "append"
          /\ \A v \in Workers \ {w} : pc'[v] = pc[v]
      <3>1. CASE SetSession(w)  BY <1>0, <3>1 DEF SetSession, GoTo
      <3>2. CASE CallNew(w)  BY <1>0, <3>2 DEF CallNew, GoTo
      <3> QED  BY <1>5, <3>1, <3>2
    <2>2. \/ \E o \in Objs : ~Reachable(o) /\ Allocate(w, o)
          \/ UNCHANGED <<efs, ran, sess>>
      <3>1. CASE SetSession(w)  BY <3>1, Allocates DEF SetSession, sessVars, exitVars
      <3>2. CASE CallNew(w)  BY <3>2, Allocates DEF CallNew
      <3> QED  BY <1>5, <3>1, <3>2
    <2>3. CASE \E o \in Objs : ~Reachable(o) /\ Allocate(w, o)
      BY <2>1, <2>3, CallsOfNew
    <2>4. CASE UNCHANGED <<efs, ran, sess>>
      BY <1>2, <2>1, <2>4
    <2> QED  BY <2>2, <2>3, <2>4
  <1>6. ASSUME NEW o \in Objs, ExitCallFree(o) PROVE CallsInv'
    <2>1. /\ ran' = [ran EXCEPT ![o] = ran[o] \o Reverse(efs[o])]
          /\ efs' = [efs EXCEPT ![o] = <<>>] /\ UNCHANGED <<pc, sess>>
      BY <1>6, <1>0 DEF ExitCallFree, workVars
    <2>2. \A x \in Objs : Appending(x)' = Appending(x)  BY <2>1 DEF Appending
    <2>3. efs'[o] = <<>> /\ ran'[o] = ran[o] \o Reverse(efs[o])  BY <2>1, <1>0
    <2>4. Numbering(efs'[o], ran'[o]) /\ Len(ran'[o]) = Len(efs[o]) + Len(ran[o])
      BY <2>3, NumberingRun DEF CallsInv
    <2>5. PICK n \in Nat, m \in Nat :
            n = Len(efs[o]) + Len(ran[o]) /\ m = Cardinality(Appending(o))
      BY <1>0, AppendingCounts
    <2>6. n + m <= MaxDefers  BY <2>5 DEF CallsInv
    <2>7. Len(efs'[o]) + Len(ran'[o]) + Cardinality(Appending(o)') <= MaxDefers
      <3>1. Len(efs'[o]) = 0 /\ Len(ran'[o]) = n  BY <2>3, <2>4, <2>5
      <3>2. Cardinality(Appending(o)') = m  BY <2>2, <2>5
      <3> QED  BY <3>1, <3>2, <2>6
    <2>8. \A x \in Objs \ {o} :
             /\ Numbering(efs'[x], ran'[x])
             /\ Len(efs'[x]) + Len(ran'[x]) + Cardinality(Appending(x)') <= MaxDefers
      BY <2>1, <2>2, <1>0, SameCalls
    <2>9. ran'[o] \in Seq(Nat)  BY <2>4 DEF Numbering
    <2>10. efs' \in [Objs -> Seq(Nat)] /\ ran' \in [Objs -> Seq(Nat)]
      BY <2>1, <2>3, <2>9, <1>0
    <2> QED  BY <2>4, <2>7, <2>8, <2>10 DEF CallsInv
  <1>7. ASSUME NEW o \in Objs, Free(o) PROVE CallsInv'
    BY <1>7, <1>1 DEF Free, workVars, Appending
  <1>8. ASSUME NEW m \in Entries, Elapse(m) PROVE CallsInv'
    BY <1>8, <1>1 DEF Elapse, sessVars, exitVars, workVars, Appending
  <1>9. CASE UNCHANGED vars
    BY <1>9, <1>1 DEF vars, sessVars, exitVars, workVars, Appending
  <1>10. ASSUME NEW w \in Workers, Call(w) PROVE CallsInv'
    BY <1>10, <1>0, <1>2 DEF Call, GoTo, sessVars, exitVars
  <1>11. ASSUME NEW w \in Workers, CallNoCookie(w) PROVE CallsInv'
    BY <1>11, <1>0, <1>2 DEF CallNoCookie, GoTo, sessVars, exitVars
  <1>12. ASSUME NEW w \in Workers, CallSet(w) PROVE CallsInv'
    BY <1>12, <1>0, <1>2 DEF CallSet, GoTo, sessVars, exitVars
  <1>13. ASSUME NEW w \in Workers, DelSession(w) PROVE CallsInv'
    BY <1>13, <1>0, <1>2 DEF DelSession, GoTo, sessVars, exitVars
  <1>14. ASSUME NEW w \in Workers, StartRange(w) PROVE CallsInv'
    BY <1>14, <1>0, <1>2 DEF StartRange, GoTo, sessVars, exitVars
  <1>15. ASSUME NEW w \in Workers, triggerDeadSession(w) PROVE CallsInv'
    BY <1>15, <1>0, <1>2 DEF triggerDeadSession, GoTo, sessVars, exitVars
  <1>16. ASSUME NEW w \in Workers, ExpireSession(w) PROVE CallsInv'
    BY <1>16, <1>0, <1>2 DEF ExpireSession, goFree, Forget, GoTo, sessVars, exitVars
  <1>17. ASSUME NEW w \in Workers, TouchSession(w) PROVE CallsInv'
    BY <1>17, <1>0, <1>2 DEF TouchSession, Hold, GoTo, sessVars, exitVars
  <1>18. ASSUME NEW w \in Workers, ReadSetCookie(w) PROVE CallsInv'
    BY <1>18, <1>0, <1>2 DEF ReadSetCookie, GoTo, sessVars, exitVars
  <1>19. ASSUME NEW w \in Workers, generateRandSessionID(w) PROVE CallsInv'
    BY <1>19, <1>0, <1>2 DEF generateRandSessionID, GoTo, sessVars, exitVars
  <1>20. ASSUME NEW w \in Workers, CheckOld(w) PROVE CallsInv'
    BY <1>20, <1>0, <1>2 DEF CheckOld, Forget, GoTo, sessVars, exitVars
  <1>21. ASSUME NEW w \in Workers, ReadToken(w) PROVE CallsInv'
    BY <1>21, <1>0, <1>2 DEF ReadToken, GoTo, sessVars, exitVars
  <1>22. ASSUME NEW w \in Workers, CompareToken(w) PROVE CallsInv'
    BY <1>22, <1>0, <1>2 DEF CompareToken, Hold, GoTo, sessVars, exitVars
  <1>23. ASSUME NEW w \in Workers, RetireOld(w) PROVE CallsInv'
    BY <1>23, <1>0, <1>2 DEF RetireOld, goFree, Forget, GoTo, sessVars, exitVars
  <1>24. ASSUME NEW w \in Workers, StampToken(w) PROVE CallsInv'
    BY <1>24, <1>0, <1>2 DEF StampToken, GoTo, sessVars, exitVars
  <1>25. ASSUME NEW w \in Workers, UnmapId(w) PROVE CallsInv'
    BY <1>25, <1>0, <1>2 DEF UnmapId, GoTo, sessVars, exitVars
  <1>26. ASSUME NEW w \in Workers, FreeDeleted(w) PROVE CallsInv'
    BY <1>26, <1>0, <1>2 DEF FreeDeleted, goFree, Return, GoTo, sessVars, exitVars
  <1>27. ASSUME NEW w \in Workers, VisitId(w) PROVE CallsInv'
    BY <1>27, <1>0, <1>2 DEF VisitId, Takes, GoTo, sessVars, exitVars
  <1>28. ASSUME NEW w \in Workers, MarkDead(w) PROVE CallsInv'
    BY <1>28, <1>0, <1>2 DEF MarkDead, goFree, Forget, GoTo, sessVars, exitVars
  <1>29. ASSUME NEW w \in Workers, WipeIds(w) PROVE CallsInv'
    BY <1>29, <1>0, <1>2 DEF WipeIds, Return, GoTo, sessVars, exitVars
  <1>30. ASSUME NEW w \in Workers, Leave(w) PROVE CallsInv'
    BY <1>30, <1>0, <1>2 DEF Leave, Return, GoTo, sessVars, exitVars
  <1>31. ASSUME NEW w \in Workers, GetHas(w) PROVE CallsInv'
    BY <1>31, <1>0, <1>2 DEF GetHas, Miss, Return, Forget, GoTo, sessVars, exitVars
  <1>32. ASSUME NEW w \in Workers, CheckAvailable(w) PROVE CallsInv'
    BY <1>32, <1>0, <1>2
       DEF CheckAvailable, Miss, Return, Forget, GoTo, sessVars, exitVars
  <1>33. ASSUME NEW w \in Workers, DropId(w) PROVE CallsInv'
    BY <1>33, <1>0, <1>2 DEF DropId, Miss, Return, Forget, GoTo, sessVars, exitVars
  <1>34. ASSUME NEW w \in Workers, PutSession(w) PROVE CallsInv'
    BY <1>34, <1>0, <1>2 DEF PutSession, Hold, GoTo, sessVars, exitVars
  <1> QED
    BY <1>3, <1>4, <1>5, <1>6, <1>7, <1>8, <1>9, <1>10, <1>11, <1>12, <1>13, <1>14,
       <1>15, <1>16, <1>17, <1>18, <1>19, <1>20, <1>21, <1>22, <1>23, <1>24, <1>25,
       <1>26, <1>27, <1>28, <1>29, <1>30, <1>31, <1>32, <1>33, <1>34
    DEF Next, Start, Step, DrawAgain

\* A call that Defer accepted runs at most once, however many Frees there are.
THEOREM CallsOnce == Spec => []CallsRunOnce
  BY CallsMean, CallsInit, CallsStep, TypeInvariant, PTL DEF Spec

\* Every variable has its type; no session accepts more calls than MaxDefers.
THEOREM TypeCorrect == Spec => []TypeOK
  <1>1. TypeInv /\ CallsInv => TypeOK  BY CallsMean DEF TypeInv, TypeOK
  <1> QED  BY <1>1, CallsInit, CallsStep, TypeInvariant, PTL DEF Spec

-----------------------------------------------------------------------------
(* Who may free a session.  One that was put on the map once has one entry; *)
(* while that is on the map and available, and before it is put there, the  *)
(* session is not being freed; and DelSession has the entry off the map     *)
(* before it frees the session.                                            *)

Quiet(o) == ~freed[o] /\ spawned[o] = 0 /\ freeing[o] = 0 /\ ran[o] = <<>>

EntryOnce ==
    \A m, n \in Entries :
        InUse(m) /\ InUse(n) /\ session[m] = session[n] /\ stored[session[m]] < 2 => m = n

EntryStored == \A m \in Entries : InUse(m) => stored[session[m]] # 0

StoredOnce == \A i, j \in Ids : ss[i] # NoEntry /\ ss[i] = ss[j] => i = j

DeletedIsOff ==
    \A w \in Workers :
        /\ pc[w] = "unmap" => \A j \in Ids : ss[j] = cur[w] => j = id[w]
        /\ pc[w] = "free" => \A j \in Ids : ss[j] # cur[w]

StoredIsQuiet ==
    \A i \in Ids :
        ss[i] # NoEntry /\ ~unavailable[ss[i]] /\ stored[session[ss[i]]] < 2 =>
            Quiet(session[ss[i]])

NewIsQuiet ==
    \A w \in Workers : sess[w] # NoObj /\ stored[sess[w]] = 0 => Quiet(sess[w])

OwnInv == EntryOnce /\ EntryStored /\ StoredOnce /\ DeletedIsOff /\ StoredIsQuiet /\ NewIsQuiet

LEMMA OwnInit == Init => OwnInv
  BY NullAssumption
     DEF Init, OwnInv, EntryOnce, EntryStored, InUse, StoredOnce, DeletedIsOff,
         StoredIsQuiet, NewIsQuiet

\* What a worker may take over from the map: an entry, or the session of one that is
\* in use.
TakesOver(w) ==
    /\ cur'[w] = cur[w] \/ cur'[w] = NoEntry \/ \E i \in Ids : cur'[w] = ss[i]
    /\ sess'[w] = sess[w] \/ sess'[w] = NoObj
         \/ \E m \in Entries : InUse(m) /\ sess'[w] = session[m]

\* Steps that put nothing on the map keep the entries apart.
LEMMA EntriesKept ==
    ASSUME TypeInv, OwnInv, UNCHANGED <<session, stored>>,
           \A i \in Ids : ss'[i] = ss[i] \/ ss'[i] = NoEntry,
           \A w \in Workers : TakesOver(w)
    PROVE  /\ \A m \in Entries : InUse(m)' => InUse(m)
           /\ EntryOnce' /\ EntryStored' /\ StoredOnce'
  <1>1. \A m \in Entries : InUse(m)' => InUse(m)
    BY NullAssumption DEF InUse, TakesOver
  <1>2. EntryOnce'  BY <1>1 DEF OwnInv, EntryOnce
  <1>3. EntryStored'  BY <1>1 DEF OwnInv, EntryStored
  <1>4. StoredOnce'  BY DEF OwnInv, StoredOnce
  <1> QED  BY <1>1, <1>2, <1>3, <1>4

\* A session given to a worker was put on the map, so that it is not a new one.
LEMMA NewKept ==
    ASSUME TypeInv, OwnInv, UNCHANGED stored, \A w \in Workers : TakesOver(w),
           \A o \in Objs : stored[o] = 0 /\ Quiet(o) => Quiet(o)'
    PROVE  NewIsQuiet'
  <1> SUFFICES ASSUME NEW w \in Workers, sess'[w] # NoObj, stored[sess'[w]] = 0
               PROVE  Quiet(sess[w])'
    BY DEF NewIsQuiet
  <1>1. sess'[w] = sess[w]
    BY DEF TakesOver, OwnInv, EntryStored
  <1>2. PICK o \in Objs : o = sess[w]  BY <1>1 DEF TypeInv, WorkTypeOK
  <1>3. Quiet(o)  BY <1>1, <1>2 DEF OwnInv, NewIsQuiet
  <1>4. Quiet(o)'  BY <1>1, <1>2, <1>3
  <1> QED  BY <1>1, <1>2, <1>4 DEF Quiet

\* Steps that neither change the map nor free anything; DelSession aside, none
\* begins a deletion.
LEMMA OwnKept ==
    ASSUME TypeInv, OwnInv,
           UNCHANGED <<ss, session, unavailable, stored, freed, ran, spawned, freeing>>,
           \A w \in Workers : TakesOver(w),
           \A w \in Workers : pc'[w] \in {"unmap", "free"} =>
               pc'[w] = pc[w] /\ cur'[w] = cur[w] /\ id'[w] = id[w]
    PROVE  OwnInv'
  <1>1. EntryOnce' /\ EntryStored' /\ StoredOnce'  BY EntriesKept
  <1>2. NewIsQuiet'  BY NewKept DEF Quiet
  <1>3. StoredIsQuiet'  BY DEF OwnInv, StoredIsQuiet, Quiet
  <1>4. DeletedIsOff'  BY DEF OwnInv, DeletedIsOff
  <1> QED  BY <1>1, <1>2, <1>3, <1>4 DEF OwnInv

\* An entry is made unavailable, and its session is freed.
LEMMA OwnMarked ==
    ASSUME TypeInv, OwnInv, NEW w \in Workers, cur[w] # NoEntry,
           unavailable' = [unavailable EXCEPT ![cur[w]] = TRUE],
           goFree(session[cur[w]]),
           UNCHANGED <<ss, session, stored, freed, ran, freeing, sess>>,
           cur' = [cur EXCEPT ![w] = NoEntry],
           pc'[w] \notin {"unmap", "free"},
           \A v \in Workers \ {w} : pc'[v] = pc[v] /\ id'[v] = id[v]
    PROVE  OwnInv'
  <1>1. PICK m \in Entries : m = cur[w] /\ InUse(m)
    BY DEF TypeInv, WorkTypeOK, InUse
  <1>2. PICK o \in Objs : o = session[m]
    BY <1>1 DEF TypeInv, MapTypeOK, EntriesFull
  <1>3. \A v \in Workers : TakesOver(v)  BY DEF TakesOver, TypeInv, WorkTypeOK
  <1>4. EntryOnce' /\ EntryStored' /\ StoredOnce'  BY <1>3, EntriesKept
  <1>5. \A x \in Objs \ {o} : Quiet(x) => Quiet(x)'
    BY <1>1, <1>2 DEF Quiet, goFree, TypeInv, MapTypeOK
  <1>6. stored[o] # 0  BY <1>1, <1>2 DEF OwnInv, EntryStored
  <1>7. NewIsQuiet'  BY <1>3, <1>5, <1>6, NewKept
  <1>8. StoredIsQuiet'
    <2> SUFFICES ASSUME NEW i \in Ids, ss[i] # NoEntry, ~unavailable'[ss[i]],
                        stored[session[ss[i]]] < 2
                 PROVE  Quiet(session[ss[i]])'
      BY DEF StoredIsQuiet
    <2>1. PICK n \in Entries : n = ss[i] /\ InUse(n)
      BY DEF TypeInv, MapTypeOK, InUse
    <2>2. n # m /\ ~unavailable[n]  BY <1>1, <2>1 DEF TypeInv, MapTypeOK
    <2>3. session[n] # o  BY <1>1, <1>2, <2>1, <2>2 DEF OwnInv, EntryOnce
    <2>4. PICK x \in Objs : x = session[n]  BY <2>1 DEF TypeInv, MapTypeOK, EntriesFull
    <2>5. Quiet(x)  BY <2>1, <2>2, <2>4 DEF OwnInv, StoredIsQuiet
    <2>6. Quiet(x)'  BY <1>5, <2>3, <2>4, <2>5
    <2> QED  BY <2>1, <2>4, <2>6 DEF Quiet
  <1>9. DeletedIsOff'  BY DEF OwnInv, DeletedIsOff, TypeInv, WorkTypeOK
  <1> QED  BY <1>4, <1>7, <1>8, <1>9 DEF OwnInv

\* A new session is known to nothing.
LEMMA OwnAllocated ==
    ASSUME TypeInv, CallsInv, OwnInv, NEW w \in Workers, NEW o \in Objs, ~Reachable(o),
           Allocate(w, o), UNCHANGED <<ss, session, unavailable, spawned, freeing>>,
           \A v \in Workers : cur'[v] = cur[v] \/ \E i \in Ids : cur'[v] = ss[i],
           pc'[w] \notin {"unmap", "free"},
           \A v \in Workers \ {w} : pc'[v] = pc[v] /\ cur'[v] = cur[v] /\ id'[v] = id[v]
    PROVE  OwnInv'
  <1>1. \A m \in Entries : InUse(m)' => InUse(m)
    BY NullAssumption DEF InUse
  <1>2. \A m \in Entries : InUse(m) =>
            session[m] # o /\ session[m] \in Objs /\ stored'[session[m]] = stored[session[m]]
    <2>1. \A m \in Entries : InUse(m) => session[m] # o /\ session[m] \in Objs
      BY DEF Reachable, TypeInv, MapTypeOK, EntriesFull
    <2>2. \A x \in Objs \ {o} : stored'[x] = stored[x]
      BY DEF Allocate, TypeInv, MapTypeOK
    <2> QED  BY <2>1, <2>2
  <1>3. EntryOnce'  BY <1>1, <1>2 DEF OwnInv, EntryOnce
  <1>4. EntryStored'  BY <1>1, <1>2 DEF OwnInv, EntryStored
  <1>5. StoredOnce'  BY DEF OwnInv, StoredOnce
  <1>6. DeletedIsOff'  BY DEF OwnInv, DeletedIsOff
  <1>7. Quiet(o)' /\ \A x \in Objs \ {o} : Quiet(x) => Quiet(x)'
    <2>1. spawned[o] = 0 /\ freeing[o] = 0
      <3>1. spawned[o] \in Nat /\ freeing[o] \in Nat  BY DEF TypeInv, MapTypeOK
      <3>2. ~(spawned[o] + freeing[o] > 0)  BY DEF Reachable
      <3> QED  BY <3>1, <3>2
    <2>2. ran'[o] = <<>> /\ ~freed'[o]
          /\ \A x \in Objs \ {o} : ran'[x] = ran[x] /\ freed'[x] = freed[x]
      BY DEF Allocate, TypeInv, MapTypeOK, CallsInv
    <2> QED  BY <2>1, <2>2 DEF Quiet
  <1>8. StoredIsQuiet'
    <2> SUFFICES ASSUME NEW i \in Ids, ss[i] # NoEntry, ~unavailable[ss[i]],
                        stored'[session[ss[i]]] < 2
                 PROVE  Quiet(session[ss[i]])'
      BY DEF StoredIsQuiet
    <2>1. ss[i] \in Entries /\ InUse(ss[i])  BY DEF TypeInv, MapTypeOK, InUse
    <2>2. PICK x \in Objs \ {o} : x = session[ss[i]]  BY <1>2, <2>1
    <2>3. Quiet(x)  BY <1>2, <2>1, <2>2 DEF OwnInv, StoredIsQuiet
    <2>4. Quiet(x)'  BY <1>7, <2>2, <2>3
    <2> QED  BY <2>2, <2>4 DEF Quiet
  <1>9. NewIsQuiet'
    <2> SUFFICES ASSUME NEW v \in Workers, sess'[v] # NoObj, stored'[sess'[v]] = 0
                 PROVE  Quiet(sess[v])'
      BY DEF NewIsQuiet
    <2>1. CASE v = w
      <3>1. sess'[v] = o  BY <2>1 DEF Allocate, TypeInv, WorkTypeOK
      <3> QED  BY <1>7, <3>1 DEF Quiet
    <2>2. CASE v # w
      <3>1. sess'[v] = sess[v]  BY <2>2 DEF Allocate, TypeInv, WorkTypeOK
      <3>2. PICK x \in Objs \ {o} : x = sess[v]
        BY <3>1 DEF Reachable, TypeInv, WorkTypeOK
      <3>3. stored[x] = 0  BY <3>1, <3>2 DEF Allocate, TypeInv, MapTypeOK
      <3>4. Quiet(x)  BY <3>1, <3>2, <3>3 DEF OwnInv, NewIsQuiet
      <3>5. Quiet(x)'  BY <1>7, <3>2, <3>4
      <3> QED  BY <3>1, <3>2, <3>5 DEF Quiet
    <2> QED  BY <2>1, <2>2
  <1> QED  BY <1>3, <1>4, <1>5, <1>6, <1>8, <1>9 DEF OwnInv

\* The session put on the map gets an entry of its own; if it had one already, it has
\* been put there twice.
LEMMA OwnPut ==
    ASSUME TypeInv, OwnInv, NEW w \in Workers, PutSession(w)
    PROVE  OwnInv'
  <1>1. PICK m \in Entries : PutsEntry(w, m)  BY Puts
  <1>2. PICK o \in Objs, i \in Ids : o = sess[w] /\ i = id[w]
    BY DEF PutSession, TypeInv, WorkTypeOK, WorkerHas
  <1>3. /\ ss' = [ss EXCEPT ![i] = m] /\ session' = [session EXCEPT ![m] = o]
        /\ unavailable' = [unavailable EXCEPT ![m] = FALSE]
        /\ stored' = [stored EXCEPT ![o] = stored[o] + 1]
        /\ UNCHANGED <<freed, ran, spawned, freeing>>
    BY <1>1, <1>2 DEF PutsEntry, PutSession, sessVars, exitVars, goVars, TypeInv, MapTypeOK
  <1>4. /\ cur' = [cur EXCEPT ![w] = NoEntry] /\ sess' = [sess EXCEPT ![w] = o]
        /\ pc' = [pc EXCEPT ![w] = "held"] /\ \A v \in Workers \ {w} : id'[v] = id[v]
    BY <1>2 DEF PutSession, Hold, TypeInv, WorkTypeOK
  <1>5. ~InUse(m)  BY <1>1 DEF PutsEntry
  <1>6. /\ \A n \in Entries \ {m} : InUse(n)' => InUse(n)
        /\ \A n \in Entries \ {m} : session'[n] = session[n]
        /\ session'[m] = o
    BY <1>3, <1>4, NullAssumption DEF InUse, TypeInv, MapTypeOK, WorkTypeOK
  <1>7. /\ \A x \in Objs \ {o} : stored'[x] = stored[x]
        /\ stored[o] \in Nat /\ stored'[o] = stored[o] + 1
    BY <1>3 DEF TypeInv, MapTypeOK
  <1>8. \A n \in Entries \ {m} : InUse(n)' =>
            /\ session'[n] \in Objs /\ stored[session[n]] # 0
            /\ session'[n] = o => ~(stored'[o] < 2)
    <2> SUFFICES ASSUME NEW n \in Entries \ {m}, InUse(n)'
                 PROVE  /\ session'[n] \in Objs /\ stored[session[n]] # 0
                        /\ session'[n] = o => ~(stored'[o] < 2)
      OBVIOUS
    <2>1. InUse(n) /\ session'[n] = session[n]  BY <1>6
    <2>2. session[n] \in Objs  BY <2>1 DEF TypeInv, MapTypeOK, EntriesFull
    <2>3. stored[session[n]] # 0  BY <2>1 DEF OwnInv, EntryStored
    <2>4. session[n] = o => ~(stored'[o] < 2)  BY <1>7, <2>3
    <2> QED  BY <2>1, <2>2, <2>3, <2>4
  <1>9. EntryOnce'
    <2> SUFFICES ASSUME NEW a \in Entries, NEW b \in Entries, InUse(a)', InUse(b)',
                        session'[a] = session'[b], stored'[session'[a]] < 2
                 PROVE  a = b
      BY DEF EntryOnce
    <2>1. CASE a = m \/ b = m  BY <1>6, <1>8, <2>1
    <2>2. CASE a # m /\ b # m
      <3>1. /\ InUse(a) /\ InUse(b) /\ session[a] = session[b] /\ session[a] \in Objs
            /\ session[a] # o
        BY <1>6, <1>8, <2>2
      <3>2. stored[session[a]] < 2  BY <1>6, <1>7, <2>2, <3>1
      <3> QED  BY <3>1, <3>2 DEF OwnInv, EntryOnce
    <2> QED  BY <2>1, <2>2
  <1>10. EntryStored'
    <2> SUFFICES ASSUME NEW n \in Entries, InUse(n)' PROVE stored'[session'[n]] # 0
      BY DEF EntryStored
    <2>1. CASE n = m  BY <1>6, <1>7, <2>1
    <2>2. CASE n # m /\ session[n] = o  BY <1>6, <1>7, <2>2
    <2>3. CASE n # m /\ session[n] # o  BY <1>6, <1>7, <1>8, <2>3
    <2> QED  BY <2>1, <2>2, <2>3
  <1>11. \A j \in Ids : ss[j] # m /\ (j # i => ss'[j] = ss[j]) /\ ss'[i] = m
    BY <1>3, <1>5 DEF InUse, TypeInv, MapTypeOK
  <1>12. StoredOnce'  BY <1>11 DEF OwnInv, StoredOnce
  <1>13. DeletedIsOff'
    <2>1. \A v \in Workers : cur[v] # m  BY <1>5 DEF InUse
    <2> QED
      BY <1>4, <1>11, <2>1 DEF OwnInv, DeletedIsOff, TypeInv, WorkTypeOK
  <1>14. \A x \in Objs : Quiet(x)' <=> Quiet(x)  BY <1>3 DEF Quiet
  <1>15. StoredIsQuiet'
    <2> SUFFICES ASSUME NEW j \in Ids, ss'[j] # NoEntry, ~unavailable'[ss'[j]],
                        stored'[session'[ss'[j]]] < 2
                 PROVE  Quiet(session[ss[j]])'
      BY DEF StoredIsQuiet
    <2>1. CASE j = i
      <3>1. ss'[j] = m /\ session'[m] = o  BY <1>6, <1>11, <2>1
      <3>2. stored[o] = 0  BY <1>7, <3>1
      <3>3. Quiet(o)  BY <1>2, <3>2, NullAssumption DEF OwnInv, NewIsQuiet
      <3>4. Quiet(o)'  BY <1>14, <3>3
      <3> QED  BY <3>1, <3>4 DEF Quiet
    <2>2. CASE j # i
      <3>1. PICK n \in Entries \ {m} : n = ss[j] /\ n = ss'[j]
        BY <1>11, <2>2 DEF TypeInv, MapTypeOK
      <3>2. InUse(n)'  BY <3>1 DEF InUse
      <3>3. /\ session'[n] = session[n] /\ session[n] \in Objs /\ session[n] # o
            /\ stored[session[n]] < 2 /\ ~unavailable[n]
        BY <1>3, <1>6, <1>7, <1>8, <3>1, <3>2 DEF TypeInv, MapTypeOK
      <3>4. PICK x \in Objs : x = session[n]  BY <3>3
      <3>5. Quiet(x)  BY <3>1, <3>3, <3>4, NullAssumption DEF OwnInv, StoredIsQuiet
      <3>6. Quiet(x)'  BY <1>14, <3>5
      <3> QED  BY <3>1, <3>3, <3>4, <3>6 DEF Quiet
    <2> QED  BY <2>1, <2>2
  <1>16. NewIsQuiet'
    <2> SUFFICES ASSUME NEW v \in Workers, sess'[v] # NoObj, stored'[sess'[v]] = 0
                 PROVE  Quiet(sess[v])'
      BY DEF NewIsQuiet
    <2>1. sess'[v] = sess[v] /\ sess[v] \in Objs
      BY <1>2, <1>4 DEF TypeInv, WorkTypeOK
    <2>2. sess[v] # o  BY <1>7, <2>1
    <2>3. stored[sess[v]] = 0  BY <1>7, <2>1, <2>2
    <2>4. PICK x \in Objs : x = sess[v]  BY <2>1
    <2>5. Quiet(x)  BY <2>1, <2>3, <2>4 DEF OwnInv, NewIsQuiet
    <2>6. Quiet(x)'  BY <1>14, <2>5
    <2> QED  BY <2>1, <2>4, <2>6 DEF Quiet
  <1> QED  BY <1>9, <1>10, <1>12, <1>13, <1>15, <1>16 DEF OwnInv

LEMMA OwnStep == TypeInv /\ CallsInv /\ OwnInv /\ [Next]_vars => OwnInv'
  <1> SUFFICES ASSUME TypeInv, CallsInv, OwnInv, [Next]_vars PROVE OwnInv'  OBVIOUS
  <1>0. /\ MapTypeOK /\ WorkTypeOK /\ EntriesFull /\ \A w \in Workers : WorkerHas(w)
        /\ \A m \in Entries : InUse(m) <=>
             (\E i \in Ids : ss[i] = m) \/ \E w \in Workers : cur[w] = m
    BY DEF TypeInv, InUse
  <1> USE DEF entryVars, sessVars, exitVars, goVars, workVars, GoTo
  <1>1. ASSUME NEW w \in Workers, Call(w) PROVE OwnInv'
    <2>1. \A v \in Workers : TakesOver(v)
      BY <1>1, <1>0 DEF TakesOver, Call, WorkTypeOK, WorkerHas
    <2>2. \A v \in Workers : pc'[v] \in {"unmap", "free"} =>
            pc'[v] = pc[v] /\ cur'[v] = cur[v] /\ id'[v] = id[v]
      BY <1>1, <1>0 DEF Call, WorkTypeOK
    <2> QED  BY <1>1, <2>1, <2>2, OwnKept DEF Call
  <1>2. ASSUME NEW w \in Workers, CallNoCookie(w) PROVE OwnInv'
    <2>1. \A v \in Workers : TakesOver(v)
      BY <1>2, <1>0 DEF TakesOver, CallNoCookie, WorkTypeOK, WorkerHas
    <2>2. \A v \in Workers : pc'[v] \in {"unmap", "free"} =>
            pc'[v] = pc[v] /\ cur'[v] = cur[v] /\ id'[v] = id[v]
      BY <1>2, <1>0 DEF CallNoCookie, WorkTypeOK
    <2> QED  BY <1>2, <2>1, <2>2, OwnKept DEF CallNoCookie
  <1>3. ASSUME NEW w \in Workers, CallSet(w) PROVE OwnInv'
    <2>1. \A v \in Workers : TakesOver(v)
      BY <1>3, <1>0 DEF TakesOver, CallSet, WorkTypeOK, WorkerHas
    <2>2. \A v \in Workers : pc'[v] \in {"unmap", "free"} =>
            pc'[v] = pc[v] /\ cur'[v] = cur[v] /\ id'[v] = id[v]
      BY <1>3, <1>0 DEF CallSet, WorkTypeOK
    <2> QED  BY <1>3, <2>1, <2>2, OwnKept DEF CallSet
  <1>4. ASSUME NEW w \in Workers, StartRange(w) PROVE OwnInv'
    <2>1. \A v \in Workers : TakesOver(v)
      BY <1>4, <1>0 DEF TakesOver, StartRange, WorkTypeOK, WorkerHas
    <2>2. \A v \in Workers : pc'[v] \in {"unmap", "free"} =>
            pc'[v] = pc[v] /\ cur'[v] = cur[v] /\ id'[v] = id[v]
      BY <1>4, <1>0 DEF StartRange, WorkTypeOK
    <2> QED  BY <1>4, <2>1, <2>2, OwnKept DEF StartRange
  <1>5. ASSUME NEW w \in Workers, Defer(w) PROVE OwnInv'
    <2>1. \A v \in Workers : TakesOver(v)
      BY <1>5, <1>0 DEF TakesOver, Defer, WorkTypeOK, WorkerHas
    <2>2. \A v \in Workers : pc'[v] \in {"unmap", "free"} =>
            pc'[v] = pc[v] /\ cur'[v] = cur[v] /\ id'[v] = id[v]
      BY <1>5, <1>0 DEF Defer, WorkTypeOK
    <2> QED  BY <1>5, <2>1, <2>2, OwnKept DEF Defer
  <1>6. ASSUME NEW w \in Workers, triggerDeadSession(w) PROVE OwnInv'
    <2>1. \A v \in Workers : TakesOver(v)
      BY <1>6, <1>0 DEF TakesOver, triggerDeadSession, WorkTypeOK, WorkerHas
    <2>2. \A v \in Workers : pc'[v] \in {"unmap", "free"} =>
            pc'[v] = pc[v] /\ cur'[v] = cur[v] /\ id'[v] = id[v]
      BY <1>6, <1>0 DEF triggerDeadSession, WorkTypeOK
    <2> QED  BY <1>6, <2>1, <2>2, OwnKept DEF triggerDeadSession
  <1>7. ASSUME NEW w \in Workers, TouchSession(w) PROVE OwnInv'
    <2>1. \A v \in Workers : TakesOver(v)
      BY <1>7, <1>0 DEF TakesOver, TouchSession, Hold, WorkTypeOK, WorkerHas
    <2>2. \A v \in Workers : pc'[v] \in {"unmap", "free"} =>
            pc'[v] = pc[v] /\ cur'[v] = cur[v] /\ id'[v] = id[v]
      BY <1>7, <1>0 DEF TouchSession, Hold, WorkTypeOK
    <2> QED  BY <1>7, <2>1, <2>2, OwnKept DEF TouchSession
  <1>8. ASSUME NEW w \in Workers, ReadSetCookie(w) PROVE OwnInv'
    <2>1. \A v \in Workers : TakesOver(v)
      BY <1>8, <1>0 DEF TakesOver, ReadSetCookie, WorkTypeOK, WorkerHas
    <2>2. \A v \in Workers : pc'[v] \in {"unmap", "free"} =>
            pc'[v] = pc[v] /\ cur'[v] = cur[v] /\ id'[v] = id[v]
      BY <1>8, <1>0 DEF ReadSetCookie, WorkTypeOK
    <2> QED  BY <1>8, <2>1, <2>2, OwnKept DEF ReadSetCookie
  <1>9. ASSUME NEW w \in Workers, generateRandSessionID(w) PROVE OwnInv'
    <2>1. \A v \in Workers : TakesOver(v)
      BY <1>9, <1>0 DEF TakesOver, generateRandSessionID, WorkTypeOK, WorkerHas
    <2>2. \A v \in Workers : pc'[v] \in {"unmap", "free"} =>
            pc'[v] = pc[v] /\ cur'[v] = cur[v] /\ id'[v] = id[v]
      BY <1>9, <1>0 DEF generateRandSessionID, WorkTypeOK
    <2> QED  BY <1>9, <2>1, <2>2, OwnKept DEF generateRandSessionID
  <1>10. ASSUME NEW w \in Workers, CheckOld(w) PROVE OwnInv'
    <2>1. \A v \in Workers : TakesOver(v)
      BY <1>10, <1>0 DEF TakesOver, CheckOld, Forget, WorkTypeOK, WorkerHas
    <2>2. \A v \in Workers : pc'[v] \in {"unmap", "free"} =>
            pc'[v] = pc[v] /\ cur'[v] = cur[v] /\ id'[v] = id[v]
      BY <1>10, <1>0 DEF CheckOld, Forget, WorkTypeOK
    <2> QED  BY <1>10, <2>1, <2>2, OwnKept DEF CheckOld
  <1>11. ASSUME NEW w \in Workers, ReadToken(w) PROVE OwnInv'
    <2>1. \A v \in Workers : TakesOver(v)
      BY <1>11, <1>0 DEF TakesOver, ReadToken, WorkTypeOK, WorkerHas
    <2>2. \A v \in Workers : pc'[v] \in {"unmap", "free"} =>
            pc'[v] = pc[v] /\ cur'[v] = cur[v] /\ id'[v] = id[v]
      BY <1>11, <1>0 DEF ReadToken, WorkTypeOK
    <2> QED  BY <1>11, <2>1, <2>2, OwnKept DEF ReadToken
  <1>12. ASSUME NEW w \in Workers, CompareToken(w) PROVE OwnInv'
    <2>1. \A v \in Workers : TakesOver(v)
      BY <1>12, <1>0 DEF TakesOver, CompareToken, Hold, WorkTypeOK, WorkerHas
    <2>2. \A v \in Workers : pc'[v] \in {"unmap", "free"} =>
            pc'[v] = pc[v] /\ cur'[v] = cur[v] /\ id'[v] = id[v]
      BY <1>12, <1>0 DEF CompareToken, Hold, WorkTypeOK
    <2> QED  BY <1>12, <2>1, <2>2, OwnKept DEF CompareToken
  <1>13. ASSUME NEW w \in Workers, StampToken(w) PROVE OwnInv'
    <2>1. \A v \in Workers : TakesOver(v)
      BY <1>13, <1>0 DEF TakesOver, StampToken, WorkTypeOK, WorkerHas
    <2>2. \A v \in Workers : pc'[v] \in {"unmap", "free"} =>
            pc'[v] = pc[v] /\ cur'[v] = cur[v] /\ id'[v] = id[v]
      BY <1>13, <1>0 DEF StampToken, WorkTypeOK
    <2> QED  BY <1>13, <2>1, <2>2, OwnKept DEF StampToken
  <1>14. ASSUME NEW w \in Workers, VisitId(w) PROVE OwnInv'
    <2>1. \A v \in Workers : TakesOver(v)
      BY <1>14, <1>0 DEF TakesOver, VisitId, Takes, WorkTypeOK, WorkerHas
    <2>2. \A v \in Workers : pc'[v] \in {"unmap", "free"} =>
            pc'[v] = pc[v] /\ cur'[v] = cur[v] /\ id'[v] = id[v]
      BY <1>14, <1>0 DEF VisitId, Takes, WorkTypeOK
    <2> QED  BY <1>14, <2>1, <2>2, OwnKept DEF VisitId
  <1>15. ASSUME NEW w \in Workers, Leave(w) PROVE OwnInv'
    <2>1. \A v \in Workers : TakesOver(v)
      BY <1>15, <1>0 DEF TakesOver, Leave, Return, WorkTypeOK, WorkerHas
    <2>2. \A v \in Workers : pc'[v] \in {"unmap", "free"} =>
            pc'[v] = pc[v] /\ cur'[v] = cur[v] /\ id'[v] = id[v]
      BY <1>15, <1>0 DEF Leave, Return, WorkTypeOK
    <2> QED  BY <1>15, <2>1, <2>2, OwnKept DEF Leave
  <1>16. ASSUME NEW w \in Workers, AppendCall(w) PROVE OwnInv'
    <2>1. \A v \in Workers : TakesOver(v)
      BY <1>16, <1>0 DEF TakesOver, AppendCall, WorkTypeOK, WorkerHas
    <2>2. \A v \in Workers : pc'[v] \in {"unmap", "free"} =>
            pc'[v] = pc[v] /\ cur'[v] = cur[v] /\ id'[v] = id[v]
      BY <1>16, <1>0 DEF AppendCall, WorkTypeOK
    <2> QED  BY <1>16, <2>1, <2>2, OwnKept DEF AppendCall
  <1>17. ASSUME NEW w \in Workers, GetHas(w) PROVE OwnInv'
    <2>1. \A v \in Workers : TakesOver(v)
      BY <1>17, <1>0 DEF TakesOver, GetHas, Miss, Return, Forget, WorkTypeOK, WorkerHas
    <2>2. \A v \in Workers : pc'[v] \in {"unmap", "free"} =>
            pc'[v] = pc[v] /\ cur'[v] = cur[v] /\ id'[v] = id[v]
      BY <1>17, <1>0 DEF GetHas, Miss, Return, Forget, WorkTypeOK
    <2> QED  BY <1>17, <2>1, <2>2, OwnKept DEF GetHas
  <1>18. ASSUME NEW w \in Workers, CheckAvailable(w) PROVE OwnInv'
    <2>1. \A v \in Workers : TakesOver(v)
      BY <1>18, <1>0
         DEF TakesOver, CheckAvailable, Miss, Return, Forget, WorkTypeOK, WorkerHas
    <2>2. \A v \in Workers : pc'[v] \in {"unmap", "free"} =>
            pc'[v] = pc[v] /\ cur'[v] = cur[v] /\ id'[v] = id[v]
      BY <1>18, <1>0 DEF CheckAvailable, Miss, Return, Forget, WorkTypeOK
    <2> QED  BY <1>18, <2>1, <2>2, OwnKept DEF CheckAvailable
  <1>19. ASSUME NEW w \in Workers, ExpireSession(w) PROVE OwnInv'
    BY <1>19, <1>0, OwnMarked DEF ExpireSession, Forget, WorkTypeOK, WorkerHas
  <1>20. ASSUME NEW w \in Workers, RetireOld(w) PROVE OwnInv'
    BY <1>20, <1>0, OwnMarked DEF RetireOld, Forget, WorkTypeOK, WorkerHas
  <1>21. ASSUME NEW w \in Workers, MarkDead(w) PROVE OwnInv'
    BY <1>21, <1>0, OwnMarked DEF MarkDead, Forget, WorkTypeOK, WorkerHas
  <1>22. ASSUME NEW w \in Workers, DelSession(w) PROVE OwnInv'
    <2>1. \A v \in Workers : TakesOver(v)
      BY <1>22, <1>0 DEF TakesOver, DelSession, WorkTypeOK
    <2>2. EntryOnce' /\ EntryStored' /\ StoredOnce'
      BY <1>22, <2>1, EntriesKept DEF DelSession
    <2>3. NewIsQuiet'  BY <1>22, <2>1, NewKept DEF DelSession, Quiet
    <2>4. StoredIsQuiet'  BY <1>22 DEF DelSession, OwnInv, StoredIsQuiet, Quiet
    <2>5. DeletedIsOff'
      BY <1>22, <1>0 DEF DelSession, OwnInv, DeletedIsOff, StoredOnce, WorkTypeOK
    <2> QED  BY <2>2, <2>3, <2>4, <2>5 DEF OwnInv
  <1>23. ASSUME NEW w \in Workers, DropId(w) PROVE OwnInv'
    <2>1. \A v \in Workers : TakesOver(v)
      BY <1>23, <1>0 DEF TakesOver, DropId, Miss, Return, Forget, WorkTypeOK
    <2>2. \A i \in Ids : ss'[i] = ss[i] \/ ss'[i] = NoEntry
      BY <1>23, <1>0 DEF DropId, MapTypeOK
    <2>3. EntryOnce' /\ EntryStored' /\ StoredOnce'
      BY <1>23, <2>1, <2>2, EntriesKept DEF DropId
    <2>4. NewIsQuiet'  BY <1>23, <2>1, NewKept DEF DropId, Quiet
    <2>5. StoredIsQuiet'
      BY <1>23, <2>2 DEF DropId, OwnInv, StoredIsQuiet, Quiet
    <2>6. DeletedIsOff'
      BY <1>23, <1>0, <2>2, NullAssumption
         DEF DropId, Miss, Return, Forget, OwnInv, DeletedIsOff, MapTypeOK, WorkTypeOK,
             WorkerHas
    <2> QED  BY <2>3, <2>4, <2>5, <2>6 DEF OwnInv
  <1>24. ASSUME NEW w \in Workers, UnmapId(w) PROVE OwnInv'
    <2>1. \A v \in Workers : TakesOver(v)
      BY <1>24, <1>0 DEF TakesOver, UnmapId, WorkTypeOK
    <2>2. \A i \in Ids : ss'[i] = ss[i] \/ ss'[i] = NoEntry
      BY <1>24, <1>0 DEF UnmapId, MapTypeOK
    <2>3. EntryOnce' /\ EntryStored' /\ StoredOnce'
      BY <1>24, <2>1, <2>2, EntriesKept DEF UnmapId
    <2>4. NewIsQuiet'  BY <1>24, <2>1, NewKept DEF UnmapId, Quiet
    <2>5. StoredIsQuiet'
      BY <1>24, <2>2 DEF UnmapId, OwnInv, StoredIsQuiet, Quiet
    <2>6. DeletedIsOff'
      BY <1>24, <1>0, <2>2, NullAssumption
         DEF UnmapId, OwnInv, DeletedIsOff, MapTypeOK, WorkTypeOK, WorkerHas
    <2> QED  BY <2>3, <2>4, <2>5, <2>6 DEF OwnInv
  <1>25. ASSUME NEW w \in Workers, WipeIds(w) PROVE OwnInv'
    <2>1. \A v \in Workers : TakesOver(v)
      BY <1>25, <1>0 DEF TakesOver, WipeIds, Return, WorkTypeOK
    <2>2. \A i \in Ids : ss'[i] = ss[i] \/ ss'[i] = NoEntry
      BY <1>25, <1>0 DEF WipeIds, MapTypeOK
    <2>3. EntryOnce' /\ EntryStored' /\ StoredOnce'
      BY <1>25, <2>1, <2>2, EntriesKept DEF WipeIds
    <2>4. NewIsQuiet'  BY <1>25, <2>1, NewKept DEF WipeIds, Quiet
    <2>5. StoredIsQuiet'
      BY <1>25, <2>2 DEF WipeIds, OwnInv, StoredIsQuiet, Quiet
    <2>6. DeletedIsOff'
      BY <1>25, <1>0, <2>2, NullAssumption
         DEF WipeIds, Return, OwnInv, DeletedIsOff, MapTypeOK, WorkTypeOK, WorkerHas
    <2> QED  BY <2>3, <2>4, <2>5, <2>6 DEF OwnInv
  <1>26. ASSUME NEW w \in Workers, FreeDeleted(w) PROVE OwnInv'
    <2>1. \A v \in Workers : TakesOver(v)
      BY <1>26, <1>0 DEF TakesOver, FreeDeleted, Return, WorkTypeOK
    <2>2. EntryOnce' /\ EntryStored' /\ StoredOnce'
      BY <1>26, <2>1, EntriesKept DEF FreeDeleted
    <2>3. PICK m \in Entries, o \in Objs :
            m = cur[w] /\ InUse(m) /\ o = session[m] /\ stored[o] # 0
      BY <1>26, <1>0 DEF FreeDeleted, MapTypeOK, WorkTypeOK, WorkerHas, EntriesFull, OwnInv,
                         EntryStored
    <2>4. \A x \in Objs \ {o} : Quiet(x) => Quiet(x)'
      BY <1>26, <1>0, <2>3 DEF FreeDeleted, goFree, Quiet, MapTypeOK
    <2>5. NewIsQuiet'  BY <1>26, <2>1, <2>3, <2>4, NewKept DEF FreeDeleted
    <2>6. \A i \in Ids : ss[i] # m  BY <1>26, <2>3 DEF FreeDeleted, OwnInv, DeletedIsOff
    <2>7. StoredIsQuiet'
      <3> SUFFICES ASSUME NEW i \in Ids, ss[i] # NoEntry, ~unavailable[ss[i]],
                          stored[session[ss[i]]] < 2
                   PROVE  Quiet(session[ss[i]])'
        BY <1>26 DEF FreeDeleted, StoredIsQuiet
      <3>1. ss[i] \in Entries /\ InUse(ss[i]) /\ session[ss[i]] \in Objs
        BY <1>0 DEF MapTypeOK, EntriesFull
      <3>2. PICK x \in Objs \ {o} : x = session[ss[i]]
        BY <2>3, <2>6, <3>1 DEF OwnInv, EntryOnce
      <3>3. Quiet(x)  BY <3>2 DEF OwnInv, StoredIsQuiet
      <3>4. Quiet(x)'  BY <2>4, <3>2, <3>3
      <3> QED  BY <1>26, <3>2, <3>4 DEF FreeDeleted, Quiet
    <2>8. DeletedIsOff'
      BY <1>26, <1>0 DEF FreeDeleted, Return, OwnInv, DeletedIsOff, WorkTypeOK
    <2> QED  BY <2>2, <2>5, <2>7, <2>8 DEF OwnInv
  <1>27. ASSUME NEW w \in Workers, CallNew(w) PROVE OwnInv'
    <2>1. PICK o \in Objs : ~Reachable(o) /\ Allocate(w, o)
      BY <1>27, Allocates DEF CallNew
    <2> QED  BY <1>27, <1>0, <2>1, OwnAllocated DEF CallNew, WorkTypeOK
  <1>28. ASSUME NEW w \in Workers, SetSession(w) PROVE OwnInv'
    <2>1. id[w] \in Ids  BY <1>28, <1>0 DEF SetSession, WorkTypeOK, WorkerHas
    <2>2. CASE \E o \in Objs : ~Reachable(o) /\ Allocate(w, o)
      BY <1>28, <1>0, <2>1, <2>2, OwnAllocated DEF SetSession, WorkTypeOK
    <2>3. CASE UNCHANGED <<sess, sessVars>>
      <3>1. \A v \in Workers : TakesOver(v)
        BY <1>28, <1>0, <2>1, <2>3 DEF TakesOver, SetSession, WorkTypeOK
      <3>2. \A v \in Workers : pc'[v] \in {"unmap", "free"} =>
              pc'[v] = pc[v] /\ cur'[v] = cur[v] /\ id'[v] = id[v]
        BY <1>28, <1>0 DEF SetSession, WorkTypeOK
      <3> QED  BY <1>28, <2>3, <3>1, <3>2, OwnKept DEF SetSession
    <2> QED  BY <1>28, <2>2, <2>3, Allocates DEF SetSession
  <1>29. ASSUME NEW w \in Workers, PutSession(w) PROVE OwnInv'
    BY <1>29, OwnPut
  <1>30. ASSUME NEW m \in Entries, Elapse(m) PROVE OwnInv'
    BY <1>30, OwnKept DEF Elapse, TakesOver
  <1>31. ASSUME NEW o \in Objs, Free(o) \/ ExitCallFree(o) PROVE OwnInv'
    <2>1. UNCHANGED <<ss, session, unavailable, stored, pc, id, cur, sess>>
      BY <1>31 DEF Free, ExitCallFree
    <2>2. \A v \in Workers : TakesOver(v)  BY <2>1 DEF TakesOver
    <2>3. EntryOnce' /\ EntryStored' /\ StoredOnce'  BY <2>1, <2>2, EntriesKept
    <2>4. \A x \in Objs : Quiet(x) => Quiet(x)'
      <3>1. CASE Free(o)  BY <1>0, <3>1 DEF Free, Quiet, MapTypeOK
      <3>2. CASE ExitCallFree(o)
        <4>1. \A x \in Objs \ {o} : ran'[x] = ran[x] /\ freeing'[x] = freeing[x]
          BY <1>0, <3>2 DEF ExitCallFree, MapTypeOK
        <4>2. ~Quiet(o)  BY <1>0, <3>2 DEF ExitCallFree, Quiet, MapTypeOK
        <4> QED  BY <3>2, <4>1, <4>2 DEF ExitCallFree, Quiet
      <3> QED  BY <1>31, <3>1, <3>2
    <2>5. NewIsQuiet'  BY <2>1, <2>2, <2>4, NewKept
    <2>6. StoredIsQuiet'
      <3> SUFFICES ASSUME NEW i \in Ids, ss[i] # NoEntry, ~unavailable[ss[i]],
                          stored[session[ss[i]]] < 2
                   PROVE  Quiet(session[ss[i]])'
        BY <2>1 DEF StoredIsQuiet
      <3>1. PICK x \in Objs : x = session[ss[i]]  BY <1>0 DEF MapTypeOK, EntriesFull
      <3>2. Quiet(x)  BY <3>1 DEF OwnInv, StoredIsQuiet
      <3>3. Quiet(x)'  BY <2>4, <3>2
      <3> QED  BY <2>1, <3>1, <3>3 DEF Quiet
    <2>7. DeletedIsOff'  BY <2>1 DEF OwnInv, DeletedIsOff
    <2> QED  BY <2>3, <2>5, <2>6, <2>7 DEF OwnInv
  <1>32. ASSUME UNCHANGED vars PROVE OwnInv'
    BY <1>32, OwnKept DEF vars, TakesOver
  <1> QED
    BY <1>1, <1>2, <1>3, <1>4, <1>5, <1>6, <1>7, <1>8, <1>9, <1>10, <1>11, <1>12,
       <1>13, <1>14, <1>15, <1>16, <1>17, <1>18, <1>19, <1>20, <1>21, <1>22, <1>23,
       <1>24, <1>25, <1>26, <1>27, <1>28, <1>29, <1>30, <1>31, <1>32
    DEF Next, Start, Step, DrawAgain

\* A session that GetSession can find and would return, and that was put on the map
\* once, is not being freed.
THEOREM FoundIsLive == Spec => []FoundSessionIsLive
  <1>1. TypeInv /\ OwnInv => FoundSessionIsLive
    BY DEF TypeInv, MapTypeOK, OwnInv, StoredIsQuiet, Quiet, FoundSessionIsLive, Found
  <1> QED  BY <1>1, OwnInit, OwnStep, CallsInit, CallsStep, TypeInvariant, PTL DEF Spec

\* No call of a session that was put on the map once runs while it can still be got
\* from there.
THEOREM CallsWait == Spec => []NoCallBeforeTheEnd
  <1>1. OwnInv => NoCallBeforeTheEnd
    BY DEF OwnInv, StoredIsQuiet, Quiet, NoCallBeforeTheEnd, Found
  <1> QED  BY <1>1, OwnInit, OwnStep, CallsInit, CallsStep, TypeInvariant, PTL DEF Spec
==================================================================================
