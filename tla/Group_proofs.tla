------------------------------ MODULE Group_proofs ------------------------------
(***************************************************************************)
(* Proofs about Group: its types, that a stopped group has no servers,     *)
(* that a server that was shut down does not serve, and that the servers   *)
(* between two calls are those of the configuration.                       *)
(***************************************************************************)
EXTENDS Group, TLAPS

(* Who holds configMu, and what a call and a server have by the time they   *)
(* use it.                                                                 *)
CallerHas(c) ==
    /\ pc[c] \in HoldPCs <=> configMu = c
    /\ pc[c] \in HoldPCs \cup {"lock"} /\ op[c] # "close" => conf[c] # NoConf
    /\ pc[c] \in {"stop", "drain", "closeListener", "start"} => cur[c] # NoAddr
    /\ pc[c] \in {"stop", "drain", "closeListener"} => old[c] # NoSrv
    /\ pc[c] \in {"sites", "start"} => op[c] # "close"
    /\ pc[c] \in {"dropPool", "dropMan", "notify"} => op[c] = "close"

ServerHas(s) == at[s] = "none" <=> laddr[s] = NoAddr

TypeInv == /\ TypeOK
           /\ \A c \in Callers : CallerHas(c)
           /\ \A s \in Servers : ServerHas(s)

LEMMA TypeInit == Init => TypeInv
  <1> SUFFICES ASSUME Init PROVE TypeInv  OBVIOUS
  <1>1. exit \in Chans  BY ChansAssumption DEF Init
  <1>2. GroupTypeOK  BY <1>1 DEF Init, GroupTypeOK
  <1>3. ServerTypeOK  BY DEF Init, ServerTypeOK
  <1>4. CallTypeOK  BY DEF Init, CallTypeOK, PCs
  <1>5. \A c \in Callers : CallerHas(c)
    BY NullAssumption DEF Init, CallerHas, HoldPCs
  <1>6. \A s \in Servers : ServerHas(s)  BY DEF Init, ServerHas
  <1> QED  BY <1>2, <1>3, <1>4, <1>5, <1>6 DEF TypeInv, TypeOK

LEMMA CallKeepsTypes ==
    ASSUME TypeInv, NEW c \in Callers, Start(c) \/ UpdateConfig(c) \/ Close(c) \/ Step(c)
    PROVE  TypeInv'
  <1> USE DEF TypeInv, TypeOK, groupVars, serverVars, callVars, Is, GoTo
  <1>0. \A f \in Configs, a \in Addrs : f[a] \in Settings \cup {Off}  BY DEF Configs
  <1>1. CASE Start(c)
    <2>1. GroupTypeOK'  BY <1>1 DEF Start, GroupTypeOK, CallTypeOK, CallerHas, HoldPCs
    <2>2. ServerTypeOK'  BY <1>1 DEF Start, ServerTypeOK, CallTypeOK, CallerHas, HoldPCs
    <2>3. CallTypeOK'  BY <1>1, BoundAssumption
        DEF Start, Called, GroupTypeOK, CallTypeOK, CallerHas, PCs, StartPCs, HoldPCs
    <2>4. (\A d \in Callers : CallerHas(d))'
      BY <1>1, NullAssumption DEF Start, GroupTypeOK, CallTypeOK, CallerHas, HoldPCs
    <2>5. (\A s \in Servers : ServerHas(s))'
      BY <1>1 DEF Start, ServerTypeOK, CallTypeOK, ServerHas
    <2> QED  BY <2>1, <2>2, <2>3, <2>4, <2>5
  <1>2. CASE UpdateConfig(c)
    <2>1. GroupTypeOK'  BY <1>2
        DEF UpdateConfig, GroupTypeOK, CallTypeOK, CallerHas, HoldPCs
    <2>2. ServerTypeOK'  BY <1>2
        DEF UpdateConfig, ServerTypeOK, CallTypeOK, CallerHas, HoldPCs
    <2>3. CallTypeOK'  BY <1>2, BoundAssumption
        DEF UpdateConfig, Called, GroupTypeOK, CallTypeOK, CallerHas, PCs, StartPCs, HoldPCs
    <2>4. (\A d \in Callers : CallerHas(d))'
      BY <1>2, NullAssumption
         DEF UpdateConfig, GroupTypeOK, CallTypeOK, CallerHas, HoldPCs
    <2>5. (\A s \in Servers : ServerHas(s))'
      BY <1>2 DEF UpdateConfig, ServerTypeOK, CallTypeOK, ServerHas
    <2> QED  BY <2>1, <2>2, <2>3, <2>4, <2>5
  <1>3. CASE Close(c)
    <2>1. GroupTypeOK'  BY <1>3 DEF Close, GroupTypeOK, CallTypeOK, CallerHas, HoldPCs
    <2>2. ServerTypeOK'  BY <1>3 DEF Close, ServerTypeOK, CallTypeOK, CallerHas, HoldPCs
    <2>3. CallTypeOK'  BY <1>3, BoundAssumption
        DEF Close, Called, GroupTypeOK, CallTypeOK, CallerHas, PCs, StartPCs, HoldPCs
    <2>4. (\A d \in Callers : CallerHas(d))'
      BY <1>3, NullAssumption DEF Close, GroupTypeOK, CallTypeOK, CallerHas, HoldPCs
    <2>5. (\A s \in Servers : ServerHas(s))'
      BY <1>3 DEF Close, ServerTypeOK, CallTypeOK, ServerHas
    <2> QED  BY <2>1, <2>2, <2>3, <2>4, <2>5
  <1>4. CASE InitPool(c)
    <2>1. GroupTypeOK'  BY <1>4
        DEF InitPool, GroupTypeOK, CallTypeOK, CallerHas, HoldPCs
    <2>2. ServerTypeOK'  BY <1>4
        DEF InitPool, ServerTypeOK, CallTypeOK, CallerHas, HoldPCs
    <2>3. CallTypeOK'  BY <1>4
        DEF InitPool, GroupTypeOK, CallTypeOK, CallerHas, PCs, StartPCs, HoldPCs
    <2>4. (\A d \in Callers : CallerHas(d))'
      BY <1>4, NullAssumption DEF InitPool, GroupTypeOK, CallTypeOK, CallerHas, HoldPCs
    <2>5. (\A s \in Servers : ServerHas(s))'
      BY <1>4 DEF InitPool, ServerTypeOK, CallTypeOK, ServerHas
    <2> QED  BY <2>1, <2>2, <2>3, <2>4, <2>5
  <1>5. CASE InitMan(c)
    <2>1. GroupTypeOK'  BY <1>5 DEF InitMan, GroupTypeOK, CallTypeOK, CallerHas, HoldPCs
    <2>2. ServerTypeOK'  BY <1>5
        DEF InitMan, ServerTypeOK, CallTypeOK, CallerHas, HoldPCs
    <2>3. CallTypeOK'  BY <1>5
        DEF InitMan, GroupTypeOK, CallTypeOK, CallerHas, PCs, StartPCs, HoldPCs
    <2>4. (\A d \in Callers : CallerHas(d))'
      BY <1>5, NullAssumption DEF InitMan, GroupTypeOK, CallTypeOK, CallerHas, HoldPCs
    <2>5. (\A s \in Servers : ServerHas(s))'
      BY <1>5 DEF InitMan, ServerTypeOK, CallTypeOK, ServerHas
    <2> QED  BY <2>1, <2>2, <2>3, <2>4, <2>5
  <1>6. CASE MakeExit(c)
    <2>1. GroupTypeOK'  BY <1>6
        DEF MakeExit, GroupTypeOK, CallTypeOK, CallerHas, HoldPCs
    <2>2. ServerTypeOK'  BY <1>6
        DEF MakeExit, ServerTypeOK, CallTypeOK, CallerHas, HoldPCs
    <2>3. CallTypeOK'  BY <1>6
        DEF MakeExit, GroupTypeOK, CallTypeOK, CallerHas, PCs, StartPCs, HoldPCs
    <2>4. (\A d \in Callers : CallerHas(d))'
      BY <1>6, NullAssumption DEF MakeExit, GroupTypeOK, CallTypeOK, CallerHas, HoldPCs
    <2>5. (\A s \in Servers : ServerHas(s))'
      BY <1>6 DEF MakeExit, ServerTypeOK, CallTypeOK, ServerHas
    <2> QED  BY <2>1, <2>2, <2>3, <2>4, <2>5
  <1>7. CASE ReadConfig(c)
    <2>1. GroupTypeOK'  BY <1>7
        DEF ReadConfig, GroupTypeOK, CallTypeOK, CallerHas, HoldPCs
    <2>2. ServerTypeOK'  BY <1>7
        DEF ReadConfig, ServerTypeOK, CallTypeOK, CallerHas, HoldPCs
    <2>3. CallTypeOK'  BY <1>7
        DEF ReadConfig, GroupTypeOK, CallTypeOK, CallerHas, PCs, StartPCs, HoldPCs
    <2>4. (\A d \in Callers : CallerHas(d))'
      BY <1>7, NullAssumption
         DEF ReadConfig, GroupTypeOK, CallTypeOK, CallerHas, HoldPCs
    <2>5. (\A s \in Servers : ServerHas(s))'
      BY <1>7 DEF ReadConfig, ServerTypeOK, CallTypeOK, ServerHas
    <2> QED  BY <2>1, <2>2, <2>3, <2>4, <2>5
  <1>8. CASE Recv(c)
    <2>1. GroupTypeOK'  BY <1>8 DEF Recv, GroupTypeOK, CallTypeOK, CallerHas, HoldPCs
    <2>2. ServerTypeOK'  BY <1>8 DEF Recv, ServerTypeOK, CallTypeOK, CallerHas, HoldPCs
    <2>3. CallTypeOK'  BY <1>8
        DEF Recv, GroupTypeOK, CallTypeOK, CallerHas, PCs, StartPCs, HoldPCs
    <2>4. (\A d \in Callers : CallerHas(d))'
      BY <1>8, NullAssumption DEF Recv, GroupTypeOK, CallTypeOK, CallerHas, HoldPCs
    <2>5. (\A s \in Servers : ServerHas(s))'
      BY <1>8 DEF Recv, ServerTypeOK, CallTypeOK, ServerHas
    <2> QED  BY <2>1, <2>2, <2>3, <2>4, <2>5
  <1>9. CASE Lock(c)
    <2>1. GroupTypeOK'  BY <1>9 DEF Lock, GroupTypeOK, CallTypeOK, CallerHas, HoldPCs
    <2>2. ServerTypeOK'  BY <1>9 DEF Lock, ServerTypeOK, CallTypeOK, CallerHas, HoldPCs
    <2>3. CallTypeOK'  BY <1>9
        DEF Lock, GroupTypeOK, CallTypeOK, CallerHas, PCs, StartPCs, HoldPCs
    <2>4. (\A d \in Callers : CallerHas(d))'
      BY <1>9, NullAssumption DEF Lock, GroupTypeOK, CallTypeOK, CallerHas, HoldPCs
    <2>5. (\A s \in Servers : ServerHas(s))'
      BY <1>9 DEF Lock, ServerTypeOK, CallTypeOK, ServerHas
    <2> QED  BY <2>1, <2>2, <2>3, <2>4, <2>5
  <1>10. CASE SetConfig(c)
    <2>1. GroupTypeOK'  BY <1>10
        DEF SetConfig, Unlock, Return, GroupTypeOK, CallTypeOK, CallerHas, HoldPCs
    <2>2. ServerTypeOK'  BY <1>10
        DEF SetConfig, Unlock, Return, ServerTypeOK, CallTypeOK, CallerHas, HoldPCs
    <2>3. CallTypeOK'  BY <1>10
        DEF SetConfig, Unlock, Return, GroupTypeOK, CallTypeOK, CallerHas, PCs,
            StartPCs, HoldPCs
    <2>4. (\A d \in Callers : CallerHas(d))'
      BY <1>10, NullAssumption
         DEF SetConfig, Unlock, Return, GroupTypeOK, CallTypeOK, CallerHas, HoldPCs
    <2>5. (\A s \in Servers : ServerHas(s))'
      BY <1>10 DEF SetConfig, Unlock, Return, ServerTypeOK, CallTypeOK, ServerHas
    <2> QED  BY <2>1, <2>2, <2>3, <2>4, <2>5
  <1>11. CASE UpdateSites(c)
    <2>1. GroupTypeOK'  BY <1>11
        DEF UpdateSites, GroupTypeOK, CallTypeOK, CallerHas, HoldPCs
    <2>2. ServerTypeOK'  BY <1>11
        DEF UpdateSites, ServerTypeOK, CallTypeOK, CallerHas, HoldPCs
    <2>3. CallTypeOK'  BY <1>11
        DEF UpdateSites, GroupTypeOK, CallTypeOK, CallerHas, PCs, StartPCs, HoldPCs
    <2>4. (\A d \in Callers : CallerHas(d))'
      BY <1>11, NullAssumption
         DEF UpdateSites, GroupTypeOK, CallTypeOK, CallerHas, HoldPCs
    <2>5. (\A s \in Servers : ServerHas(s))'
      BY <1>11 DEF UpdateSites, ServerTypeOK, CallTypeOK, ServerHas
    <2> QED  BY <2>1, <2>2, <2>3, <2>4, <2>5
  <1>12. CASE KeepServer(c)
    <2>1. GroupTypeOK'  BY <1>12
        DEF KeepServer, GroupTypeOK, CallTypeOK, CallerHas, HoldPCs
    <2>2. ServerTypeOK'  BY <1>12
        DEF KeepServer, ServerTypeOK, CallTypeOK, CallerHas, HoldPCs
    <2>3. CallTypeOK'  BY <1>12
        DEF KeepServer, GroupTypeOK, CallTypeOK, CallerHas, PCs, StartPCs, HoldPCs
    <2>4. (\A d \in Callers : CallerHas(d))'
      BY <1>12, NullAssumption
         DEF KeepServer, GroupTypeOK, CallTypeOK, CallerHas, HoldPCs
    <2>5. (\A s \in Servers : ServerHas(s))'
      BY <1>12 DEF KeepServer, ServerTypeOK, CallTypeOK, ServerHas
    <2> QED  BY <2>1, <2>2, <2>3, <2>4, <2>5
  <1>13. CASE listenStop(c)
    <2>1. GroupTypeOK'  BY <1>13
        DEF listenStop, GroupTypeOK, CallTypeOK, CallerHas, HoldPCs
    <2>2. ServerTypeOK'  BY <1>13
        DEF listenStop, ServerTypeOK, CallTypeOK, CallerHas, HoldPCs
    <2>3. CallTypeOK'  BY <1>13
        DEF listenStop, GroupTypeOK, CallTypeOK, CallerHas, PCs, StartPCs, HoldPCs
    <2>4. (\A d \in Callers : CallerHas(d))'
      BY <1>13, NullAssumption
         DEF listenStop, GroupTypeOK, CallTypeOK, CallerHas, HoldPCs
    <2>5. (\A s \in Servers : ServerHas(s))'
      BY <1>13 DEF listenStop, ServerTypeOK, CallTypeOK, ServerHas
    <2> QED  BY <2>1, <2>2, <2>3, <2>4, <2>5
  <1>14. CASE NoServerYet(c)
    <2>1. GroupTypeOK'  BY <1>14
        DEF NoServerYet, GroupTypeOK, CallTypeOK, CallerHas, HoldPCs
    <2>2. ServerTypeOK'  BY <1>14
        DEF NoServerYet, ServerTypeOK, CallTypeOK, CallerHas, HoldPCs
    <2>3. CallTypeOK'  BY <1>14
        DEF NoServerYet, GroupTypeOK, CallTypeOK, CallerHas, PCs, StartPCs, HoldPCs
    <2>4. (\A d \in Callers : CallerHas(d))'
      BY <1>14, NullAssumption
         DEF NoServerYet, GroupTypeOK, CallTypeOK, CallerHas, HoldPCs
    <2>5. (\A s \in Servers : ServerHas(s))'
      BY <1>14 DEF NoServerYet, ServerTypeOK, CallTypeOK, ServerHas
    <2> QED  BY <2>1, <2>2, <2>3, <2>4, <2>5
  <1>15. CASE StopServer(c)
    <2>1. GroupTypeOK'  BY <1>15
        DEF StopServer, GroupTypeOK, CallTypeOK, CallerHas, HoldPCs
    <2>2. ServerTypeOK'  BY <1>15
        DEF StopServer, ServerTypeOK, CallTypeOK, CallerHas, HoldPCs
    <2>3. CallTypeOK'  BY <1>15
        DEF StopServer, GroupTypeOK, CallTypeOK, CallerHas, PCs, StartPCs, HoldPCs
    <2>4. (\A d \in Callers : CallerHas(d))'
      BY <1>15, NullAssumption
         DEF StopServer, GroupTypeOK, CallTypeOK, CallerHas, HoldPCs
    <2>5. (\A s \in Servers : ServerHas(s))'
      BY <1>15 DEF StopServer, ServerTypeOK, CallTypeOK, ServerHas
    <2> QED  BY <2>1, <2>2, <2>3, <2>4, <2>5
  <1>16. CASE Drain(c)
    <2>1. GroupTypeOK'  BY <1>16
        DEF Drain, Stopped, GroupTypeOK, CallTypeOK, CallerHas, HoldPCs
    <2>2. ServerTypeOK'  BY <1>16
        DEF Drain, Stopped, ServerTypeOK, CallTypeOK, CallerHas, HoldPCs
    <2>3. CallTypeOK'  BY <1>16
        DEF Drain, Stopped, GroupTypeOK, CallTypeOK, CallerHas, PCs, StartPCs, HoldPCs
    <2>4. (\A d \in Callers : CallerHas(d))'
      BY <1>16, NullAssumption
         DEF Drain, Stopped, GroupTypeOK, CallTypeOK, CallerHas, HoldPCs
    <2>5. (\A s \in Servers : ServerHas(s))'
      BY <1>16 DEF Drain, Stopped, ServerTypeOK, CallTypeOK, ServerHas
    <2> QED  BY <2>1, <2>2, <2>3, <2>4, <2>5
  <1>17. CASE CloseListener(c)
    <2>1. GroupTypeOK'  BY <1>17
        DEF CloseListener, Stopped, GroupTypeOK, CallTypeOK, CallerHas, HoldPCs
    <2>2. ServerTypeOK'  BY <1>17
        DEF CloseListener, Stopped, ServerTypeOK, CallTypeOK, CallerHas, HoldPCs
    <2>3. CallTypeOK'  BY <1>17
        DEF CloseListener, Stopped, GroupTypeOK, CallTypeOK, CallerHas, PCs, StartPCs,
            HoldPCs
    <2>4. (\A d \in Callers : CallerHas(d))'
      BY <1>17, NullAssumption
         DEF CloseListener, Stopped, GroupTypeOK, CallTypeOK, CallerHas, HoldPCs
    <2>5. (\A s \in Servers : ServerHas(s))'
      BY <1>17 DEF CloseListener, Stopped, ServerTypeOK, CallTypeOK, ServerHas
    <2> QED  BY <2>1, <2>2, <2>3, <2>4, <2>5
  <1>18. CASE listenStart(c)
    <2>s. PICK s : s = CHOOSE t \in Servers : FreshServer(t)  OBVIOUS
    <2>f. (\E t \in Servers : FreshServer(t)) => s \in Servers /\ FreshServer(s)  BY <2>s
    <2>a. /\ \/ UNCHANGED <<srvMan, at, laddr, setting>>
             \/ /\ s \in Servers
                /\ at' = [at EXCEPT ![s] = "listen"]
                /\ laddr' = [laddr EXCEPT ![s] = cur[c]]
                /\ setting' = [setting EXCEPT ![s] = conf[c][cur[c]]]
          /\ cur[c] \in Addrs /\ conf[c] \in Configs
          /\ UNCHANGED <<resolved, status, inShutdown, busy, port>>
      BY <1>18, <2>s, <2>f DEF listenStart, CallTypeOK, CallerHas, HoldPCs
    <2>b. conf[c][cur[c]] \in Settings \cup {Off}  BY <2>a, <1>0
    <2>1. GroupTypeOK'  BY <1>18
        DEF listenStart, GroupTypeOK, CallTypeOK, CallerHas, HoldPCs
    <2>2. ServerTypeOK'  BY <2>a, <2>b DEF ServerTypeOK
    <2>3. CallTypeOK'  BY <1>18
        DEF listenStart, GroupTypeOK, CallTypeOK, CallerHas, PCs, StartPCs, HoldPCs
    <2>4. (\A d \in Callers : CallerHas(d))'
      BY <1>18, NullAssumption
         DEF listenStart, GroupTypeOK, CallTypeOK, CallerHas, HoldPCs
    <2>5. (\A x \in Servers : ServerHas(x))'  BY <2>a, NullAssumption
        DEF ServerTypeOK, ServerHas
    <2> QED  BY <2>1, <2>2, <2>3, <2>4, <2>5
  <1>19. CASE UpdateDone(c)
    <2>1. GroupTypeOK'  BY <1>19
        DEF UpdateDone, Unlock, Return, GroupTypeOK, CallTypeOK, CallerHas, HoldPCs
    <2>2. ServerTypeOK'  BY <1>19
        DEF UpdateDone, Unlock, Return, ServerTypeOK, CallTypeOK, CallerHas, HoldPCs
    <2>3. CallTypeOK'  BY <1>19
        DEF UpdateDone, Unlock, Return, GroupTypeOK, CallTypeOK, CallerHas, PCs,
            StartPCs, HoldPCs
    <2>4. (\A d \in Callers : CallerHas(d))'
      BY <1>19, NullAssumption
         DEF UpdateDone, Unlock, Return, GroupTypeOK, CallTypeOK, CallerHas, HoldPCs
    <2>5. (\A s \in Servers : ServerHas(s))'
      BY <1>19 DEF UpdateDone, Unlock, Return, ServerTypeOK, CallTypeOK, ServerHas
    <2> QED  BY <2>1, <2>2, <2>3, <2>4, <2>5
  <1>20. CASE StopRunning(c)
    <2>1. GroupTypeOK'  BY <1>20
        DEF StopRunning, Unlock, Return, GroupTypeOK, CallTypeOK, CallerHas, HoldPCs
    <2>2. ServerTypeOK'  BY <1>20
        DEF StopRunning, Unlock, Return, ServerTypeOK, CallTypeOK, CallerHas, HoldPCs
    <2>3. CallTypeOK'  BY <1>20
        DEF StopRunning, Unlock, Return, GroupTypeOK, CallTypeOK, CallerHas, PCs,
            StartPCs, HoldPCs
    <2>4. (\A d \in Callers : CallerHas(d))'
      BY <1>20, NullAssumption
         DEF StopRunning, Unlock, Return, GroupTypeOK, CallTypeOK, CallerHas, HoldPCs
    <2>5. (\A s \in Servers : ServerHas(s))'
      BY <1>20 DEF StopRunning, Unlock, Return, ServerTypeOK, CallTypeOK, ServerHas
    <2> QED  BY <2>1, <2>2, <2>3, <2>4, <2>5
  <1>21. CASE VisitServer(c)
    <2>1. GroupTypeOK'  BY <1>21
        DEF VisitServer, GroupTypeOK, CallTypeOK, CallerHas, HoldPCs
    <2>2. ServerTypeOK'  BY <1>21
        DEF VisitServer, ServerTypeOK, CallTypeOK, CallerHas, HoldPCs
    <2>3. CallTypeOK'  BY <1>21
        DEF VisitServer, GroupTypeOK, CallTypeOK, CallerHas, PCs, StartPCs, HoldPCs
    <2>4. (\A d \in Callers : CallerHas(d))'
      BY <1>21, NullAssumption
         DEF VisitServer, GroupTypeOK, CallTypeOK, CallerHas, HoldPCs
    <2>5. (\A s \in Servers : ServerHas(s))'
      BY <1>21 DEF VisitServer, ServerTypeOK, CallTypeOK, ServerHas
    <2> QED  BY <2>1, <2>2, <2>3, <2>4, <2>5
  <1>22. CASE ResetServers(c)
    <2>1. GroupTypeOK'  BY <1>22
        DEF ResetServers, GroupTypeOK, CallTypeOK, CallerHas, HoldPCs
    <2>2. ServerTypeOK'  BY <1>22
        DEF ResetServers, ServerTypeOK, CallTypeOK, CallerHas, HoldPCs
    <2>3. CallTypeOK'  BY <1>22
        DEF ResetServers, GroupTypeOK, CallTypeOK, CallerHas, PCs, StartPCs, HoldPCs
    <2>4. (\A d \in Callers : CallerHas(d))'
      BY <1>22, NullAssumption
         DEF ResetServers, GroupTypeOK, CallTypeOK, CallerHas, HoldPCs
    <2>5. (\A s \in Servers : ServerHas(s))'
      BY <1>22 DEF ResetServers, ServerTypeOK, CallTypeOK, ServerHas
    <2> QED  BY <2>1, <2>2, <2>3, <2>4, <2>5
  <1>23. CASE DropPool(c)
    <2>1. GroupTypeOK'  BY <1>23
        DEF DropPool, GroupTypeOK, CallTypeOK, CallerHas, HoldPCs
    <2>2. ServerTypeOK'  BY <1>23
        DEF DropPool, ServerTypeOK, CallTypeOK, CallerHas, HoldPCs
    <2>3. CallTypeOK'  BY <1>23
        DEF DropPool, GroupTypeOK, CallTypeOK, CallerHas, PCs, StartPCs, HoldPCs
    <2>4. (\A d \in Callers : CallerHas(d))'
      BY <1>23, NullAssumption DEF DropPool, GroupTypeOK, CallTypeOK, CallerHas, HoldPCs
    <2>5. (\A s \in Servers : ServerHas(s))'
      BY <1>23 DEF DropPool, ServerTypeOK, CallTypeOK, ServerHas
    <2> QED  BY <2>1, <2>2, <2>3, <2>4, <2>5
  <1>24. CASE DropMan(c)
    <2>1. GroupTypeOK'  BY <1>24
        DEF DropMan, GroupTypeOK, CallTypeOK, CallerHas, HoldPCs
    <2>2. ServerTypeOK'  BY <1>24
        DEF DropMan, ServerTypeOK, CallTypeOK, CallerHas, HoldPCs
    <2>3. CallTypeOK'  BY <1>24
        DEF DropMan, GroupTypeOK, CallTypeOK, CallerHas, PCs, StartPCs, HoldPCs
    <2>4. (\A d \in Callers : CallerHas(d))'
      BY <1>24, NullAssumption DEF DropMan, GroupTypeOK, CallTypeOK, CallerHas, HoldPCs
    <2>5. (\A s \in Servers : ServerHas(s))'
      BY <1>24 DEF DropMan, ServerTypeOK, CallTypeOK, ServerHas
    <2> QED  BY <2>1, <2>2, <2>3, <2>4, <2>5
  <1>25. CASE Notify(c)
    <2>1. GroupTypeOK'  BY <1>25 DEF Notify, GroupTypeOK, CallTypeOK, CallerHas, HoldPCs
    <2>2. ServerTypeOK'  BY <1>25
        DEF Notify, ServerTypeOK, CallTypeOK, CallerHas, HoldPCs
    <2>3. CallTypeOK'  BY <1>25
        DEF Notify, GroupTypeOK, CallTypeOK, CallerHas, PCs, StartPCs, HoldPCs
    <2>4. (\A d \in Callers : CallerHas(d))'
      BY <1>25, NullAssumption DEF Notify, GroupTypeOK, CallTypeOK, CallerHas, HoldPCs
    <2>5. (\A s \in Servers : ServerHas(s))'
      BY <1>25 DEF Notify, ServerTypeOK, CallTypeOK, ServerHas
    <2> QED  BY <2>1, <2>2, <2>3, <2>4, <2>5
  <1> QED  BY <1>1, <1>2, <1>3, <1>4, <1>5, <1>6, <1>7, <1>8, <1>9, <1>10, <1>11,
      <1>12, <1>13, <1>14, <1>15, <1>16, <1>17, <1>18, <1>19, <1>20, <1>21, <1>22,
      <1>23, <1>24, <1>25 DEF Step

LEMMA ServerKeepsTypes ==
    ASSUME TypeInv, NEW s \in Servers, Go(s) \/ Accept(s) \/ ConnDone(s)
    PROVE  TypeInv'
  <1> USE DEF TypeInv, TypeOK, groupVars, serverVars, callVars, goVars, Runs
  <1>1. CASE Accept(s)
    <2>1. GroupTypeOK'  BY <1>1 DEF Accept, GroupTypeOK
    <2>2. ServerTypeOK'  BY <1>1 DEF Accept, ServerTypeOK, ServerHas
    <2>3. CallTypeOK' /\ (\A c \in Callers : CallerHas(c))'
      BY <1>1 DEF Accept, CallTypeOK, CallerHas
    <2>4. (\A x \in Servers : ServerHas(x))'
      BY <1>1, NullAssumption DEF Accept, ServerTypeOK, ServerHas
    <2> QED  BY <2>1, <2>2, <2>3, <2>4
  <1>2. CASE ConnDone(s)
    <2>1. GroupTypeOK'  BY <1>2 DEF ConnDone, GroupTypeOK
    <2>2. ServerTypeOK'  BY <1>2 DEF ConnDone, ServerTypeOK, ServerHas
    <2>3. CallTypeOK' /\ (\A c \in Callers : CallerHas(c))'
      BY <1>2 DEF ConnDone, CallTypeOK, CallerHas
    <2>4. (\A x \in Servers : ServerHas(x))'
      BY <1>2, NullAssumption DEF ConnDone, ServerTypeOK, ServerHas
    <2> QED  BY <2>1, <2>2, <2>3, <2>4
  <1>3. CASE Listen(s)
    <2>1. GroupTypeOK'  BY <1>3 DEF Listen, GroupTypeOK
    <2>2. ServerTypeOK'  BY <1>3 DEF Listen, ServerTypeOK, ServerHas
    <2>3. CallTypeOK' /\ (\A c \in Callers : CallerHas(c))'
      BY <1>3 DEF Listen, CallTypeOK, CallerHas
    <2>4. (\A x \in Servers : ServerHas(x))'
      BY <1>3, NullAssumption DEF Listen, ServerTypeOK, ServerHas
    <2> QED  BY <2>1, <2>2, <2>3, <2>4
  <1>4. CASE ListenFails(s)
    <2>1. GroupTypeOK'  BY <1>4 DEF ListenFails, GroupTypeOK
    <2>2. ServerTypeOK'  BY <1>4 DEF ListenFails, ServerTypeOK, ServerHas
    <2>3. CallTypeOK' /\ (\A c \in Callers : CallerHas(c))'
      BY <1>4 DEF ListenFails, CallTypeOK, CallerHas
    <2>4. (\A x \in Servers : ServerHas(x))'
      BY <1>4, NullAssumption DEF ListenFails, ServerTypeOK, ServerHas
    <2> QED  BY <2>1, <2>2, <2>3, <2>4
  <1>5. CASE Serve(s)
    <2>1. GroupTypeOK'  BY <1>5 DEF Serve, GroupTypeOK
    <2>2. ServerTypeOK'  BY <1>5 DEF Serve, ServerTypeOK, ServerHas
    <2>3. CallTypeOK' /\ (\A c \in Callers : CallerHas(c))'
      BY <1>5 DEF Serve, CallTypeOK, CallerHas
    <2>4. (\A x \in Servers : ServerHas(x))'
      BY <1>5, NullAssumption DEF Serve, ServerTypeOK, ServerHas
    <2> QED  BY <2>1, <2>2, <2>3, <2>4
  <1>6. CASE Track(s)
    <2>1. GroupTypeOK'  BY <1>6 DEF Track, ServeReturns, GroupTypeOK
    <2>2. ServerTypeOK'  BY <1>6 DEF Track, ServeReturns, ServerTypeOK, ServerHas
    <2>3. CallTypeOK' /\ (\A c \in Callers : CallerHas(c))'
      BY <1>6 DEF Track, ServeReturns, CallTypeOK, CallerHas
    <2>4. (\A x \in Servers : ServerHas(x))'
      BY <1>6, NullAssumption DEF Track, ServeReturns, ServerTypeOK, ServerHas
    <2> QED  BY <2>1, <2>2, <2>3, <2>4
  <1>7. CASE AcceptFails(s)
    <2>1. GroupTypeOK'  BY <1>7 DEF AcceptFails, ServeReturns, GroupTypeOK
    <2>2. ServerTypeOK'  BY <1>7 DEF AcceptFails, ServeReturns, ServerTypeOK, ServerHas
    <2>3. CallTypeOK' /\ (\A c \in Callers : CallerHas(c))'
      BY <1>7 DEF AcceptFails, ServeReturns, CallTypeOK, CallerHas
    <2>4. (\A x \in Servers : ServerHas(x))'
      BY <1>7, NullAssumption DEF AcceptFails, ServeReturns, ServerTypeOK, ServerHas
    <2> QED  BY <2>1, <2>2, <2>3, <2>4
  <1>8. CASE CleanupFinds(s)
    <2>1. GroupTypeOK'  BY <1>8 DEF CleanupFinds, GroupTypeOK
    <2>2. ServerTypeOK'  BY <1>8 DEF CleanupFinds, ServerTypeOK, ServerHas
    <2>3. CallTypeOK' /\ (\A c \in Callers : CallerHas(c))'
      BY <1>8 DEF CleanupFinds, CallTypeOK, CallerHas
    <2>4. (\A x \in Servers : ServerHas(x))'
      BY <1>8, NullAssumption DEF CleanupFinds, ServerTypeOK, ServerHas
    <2> QED  BY <2>1, <2>2, <2>3, <2>4
  <1>9. CASE CleanupMisses(s)
    <2>1. GroupTypeOK'  BY <1>9 DEF CleanupMisses, End, GroupTypeOK
    <2>2. ServerTypeOK'  BY <1>9 DEF CleanupMisses, End, ServerTypeOK, ServerHas
    <2>3. CallTypeOK' /\ (\A c \in Callers : CallerHas(c))'
      BY <1>9 DEF CleanupMisses, End, CallTypeOK, CallerHas
    <2>4. (\A x \in Servers : ServerHas(x))'
      BY <1>9, NullAssumption DEF CleanupMisses, End, ServerTypeOK, ServerHas
    <2> QED  BY <2>1, <2>2, <2>3, <2>4
  <1>10. CASE CleanupDeletes(s)
    <2>1. GroupTypeOK'  BY <1>10 DEF CleanupDeletes, End, GroupTypeOK
    <2>2. ServerTypeOK'  BY <1>10 DEF CleanupDeletes, End, ServerTypeOK, ServerHas
    <2>3. CallTypeOK' /\ (\A c \in Callers : CallerHas(c))'
      BY <1>10 DEF CleanupDeletes, End, CallTypeOK, CallerHas
    <2>4. (\A x \in Servers : ServerHas(x))'
      BY <1>10, NullAssumption DEF CleanupDeletes, End, ServerTypeOK, ServerHas
    <2> QED  BY <2>1, <2>2, <2>3, <2>4
  <1> QED  BY <1>1, <1>2, <1>3, <1>4, <1>5, <1>6, <1>7, <1>8, <1>9, <1>10 DEF Go

\* The invariant about types, with what each step relies on.
THEOREM TypeInvariant == Spec => []TypeInv
  <1>1. TypeInv /\ [Next]_vars => TypeInv'
    <2> SUFFICES ASSUME TypeInv, [Next]_vars PROVE TypeInv'  OBVIOUS
    <2>1. CASE UNCHANGED vars
      BY <2>1
         DEF TypeInv, TypeOK, GroupTypeOK, ServerTypeOK, CallTypeOK, CallerHas,
             ServerHas,
                  vars, groupVars, serverVars, callVars
    <2> QED  BY <2>1, CallKeepsTypes, ServerKeepsTypes DEF Next
  <1> QED  BY <1>1, TypeInit, PTL DEF Spec

\* Every variable has its type: no call uses a server or an address it has not
\* read.
THEOREM TypeCorrect == Spec => []TypeOK
  <1>1. TypeInv => TypeOK  BY DEF TypeInv
  <1> QED  BY <1>1, TypeInvariant, PTL

-----------------------------------------------------------------------------
(* A server that was shut down serves no more.                             *)

ShutDownInv == \A s \in Servers : inShutdown[s] => ~Serving(s)

LEMMA ShutDownStep == TypeInv /\ ShutDownInv /\ [Next]_vars => ShutDownInv'
  <1> SUFFICES ASSUME TypeInv, ShutDownInv, [Next]_vars PROVE ShutDownInv'  OBVIOUS
  <1> USE DEF TypeInv, TypeOK, ServerTypeOK, ShutDownInv, Serving
  <1>1. CASE UNCHANGED <<at, laddr, inShutdown, port>>
    BY <1>1
  <1>2. ASSUME NEW c \in Callers, StopServer(c) PROVE ShutDownInv'
    <2>1. PICK s \in Servers : s = old[c]
      BY <1>2 DEF StopServer, Is, CallTypeOK, CallerHas
    <2>2. UNCHANGED <<at, laddr>>  BY <1>2 DEF StopServer
    <2>3. \A x \in Servers : x # s => inShutdown'[x] = inShutdown[x]
      BY <1>2, <2>1 DEF StopServer
    <2>4. /\ \A a \in Addrs : port'[a] \in {port[a], NoSrv}
          /\ at[s] = "accept" => port'[laddr[s]] # s
      <3>1. at[s] = "accept" => laddr[s] \in Addrs  BY DEF ServerHas
      <3> QED  BY <1>2, <2>1, <3>1, NullAssumption DEF StopServer
    <2>5. \A x \in Servers : at[x] = "accept" => laddr[x] \in Addrs  BY DEF ServerHas
    <2> QED  BY <2>2, <2>3, <2>4, <2>5, NullAssumption
  <1>3. ASSUME NEW c \in Callers, CloseListener(c) PROVE ShutDownInv'
    BY <1>3, NullAssumption DEF CloseListener
  <1>4. ASSUME NEW c \in Callers, listenStart(c) PROVE ShutDownInv'
    <2>1. UNCHANGED <<inShutdown, port>>  BY <1>4 DEF listenStart
    <2>2. PICK s : s = CHOOSE t \in Servers : FreshServer(t)  OBVIOUS
    <2>3. \/ UNCHANGED <<at, laddr>>
          \/ /\ at' = [at EXCEPT ![s] = "listen"]
             /\ laddr' = [laddr EXCEPT ![s] = cur[c]]
      BY <1>4, <2>2 DEF listenStart
    <2> QED  BY <2>1, <2>3
  <1>5. ASSUME NEW s \in Servers, Listen(s) PROVE ShutDownInv'
    BY <1>5, NullAssumption DEF Listen, Runs
  <1>6. ASSUME NEW s \in Servers, ListenFails(s) PROVE ShutDownInv'
    BY <1>6, NullAssumption DEF ListenFails, Runs
  <1>7. ASSUME NEW s \in Servers, Serve(s) PROVE ShutDownInv'
    BY <1>7, NullAssumption DEF Serve, Runs
  <1>8. ASSUME NEW s \in Servers, Track(s) PROVE ShutDownInv'
    <2>1. UNCHANGED <<laddr, inShutdown>>  BY <1>8 DEF Track
    <2>2. CASE ~inShutdown[s]
      BY <1>8, <2>1, <2>2 DEF Track
    <2>3. CASE inShutdown[s]
      <3>1. /\ at' = [at EXCEPT ![s] = "has"]
            /\ \A a \in Addrs : port'[a] \in {port[a], NoSrv}
        BY <1>8, <2>3 DEF Track, ServeReturns
      <3>2. \A x \in Servers : at[x] = "accept" => laddr[x] \in Addrs  BY DEF ServerHas
      <3> QED  BY <2>1, <3>1, <3>2, NullAssumption
    <2> QED  BY <2>2, <2>3
  <1>9. ASSUME NEW s \in Servers, AcceptFails(s) PROVE ShutDownInv'
    BY <1>9, NullAssumption DEF AcceptFails, ServeReturns, Runs
  <1>10. ASSUME NEW s \in Servers, CleanupFinds(s) PROVE ShutDownInv'
    BY <1>10, NullAssumption DEF CleanupFinds, Runs
  <1>11. ASSUME NEW s \in Servers, CleanupMisses(s) PROVE ShutDownInv'
    BY <1>11, NullAssumption DEF CleanupMisses, End, Runs
  <1>12. ASSUME NEW s \in Servers, CleanupDeletes(s) PROVE ShutDownInv'
    BY <1>12, NullAssumption DEF CleanupDeletes, End, Runs
  <1>20. ASSUME NEW c \in Callers, Start(c) \/ UpdateConfig(c) \/ Close(c) \/ Step(c)
         PROVE  ShutDownInv'
    <2>1. \/ StopServer(c) \/ CloseListener(c) \/ listenStart(c)
          \/ UNCHANGED <<at, laddr, inShutdown, port>>
      BY <1>20
         DEF Step, Start, UpdateConfig, Close, InitPool, InitMan, MakeExit, ReadConfig,
             Recv, Lock, SetConfig, UpdateSites, KeepServer, listenStop, NoServerYet,
             Drain, UpdateDone, StopRunning, VisitServer, ResetServers, DropPool,
             DropMan, Notify, serverVars
    <2> QED  BY <2>1, <1>1, <1>2, <1>3, <1>4
  <1>21. ASSUME NEW s \in Servers, Accept(s) \/ ConnDone(s) PROVE ShutDownInv'
    BY <1>21, <1>1 DEF Accept, ConnDone
  <1> QED  BY <1>1, <1>5, <1>6, <1>7, <1>8, <1>9, <1>10, <1>11, <1>12, <1>20, <1>21
      DEF Next, Go, vars, serverVars

\* A server that was shut down accepts nothing, wherever its goroutine was.
THEOREM ShutDownStaysDown == Spec => []ShutDownNeverServes
  <1>1. Init => ShutDownInv  BY DEF Init, ShutDownInv
  <1>2. ShutDownInv => ShutDownNeverServes  BY DEF ShutDownInv, ShutDownNeverServes
  <1> QED  BY <1>1, <1>2, ShutDownStep, TypeInvariant, PTL DEF Spec

-----------------------------------------------------------------------------
(* A stopped group has no servers: an update that is past its look at run  *)
(* is over before a Close can reset it, and the Close that resets it takes *)
(* every registration away before it gives the lock back.                  *)

Emptied == \A a \in Addrs : srvMan[a] = NoSrv

Updating(c) == /\ pc[c] \in {"sites", "servers", "stop", "drain", "closeListener", "start"}
               /\ op[c] # "close"
Closing(c) == /\ pc[c] \in {"servers", "stop", "drain", "closeListener"}
              /\ op[c] = "close"

RunInv ==
    /\ \A c \in Callers : Updating(c) => run
    /\ \A c \in Callers : pc[c] \in {"dropPool", "dropMan", "notify"} => Emptied
    /\ ~run => Emptied \/ \E c \in Callers : Closing(c)

LEMMA RunStep == TypeInv /\ RunInv /\ [Next]_vars => RunInv'
  <1> SUFFICES ASSUME TypeInv, RunInv, [Next]_vars PROVE RunInv'  OBVIOUS
  <1> USE DEF RunInv, Emptied, Updating, Closing
  <1>0. /\ pc \in [Callers -> PCs] /\ op \in [Callers -> {"none", "start", "update", "close"}]
        /\ srvMan \in [Addrs -> Servers \cup {NoSrv}]
        /\ run \in BOOLEAN
        /\ \A c \in Callers : CallerHas(c)
    BY DEF TypeInv, TypeOK, GroupTypeOK, CallTypeOK
  <1>a. \A c \in Callers, d \in Callers : pc[c] \in HoldPCs /\ pc[d] \in HoldPCs => c = d
    BY <1>0 DEF CallerHas
  <1> USE DEF HoldPCs
  <1>b. CASE UNCHANGED <<run, srvMan, pc, op>>
    BY <1>b
  <1>1. ASSUME NEW c \in Callers, Start(c) PROVE RunInv'
    BY <1>1, <1>0, <1>a, NullAssumption DEF Start, Is, GoTo, groupVars, callVars
  <1>2. ASSUME NEW c \in Callers, UpdateConfig(c) PROVE RunInv'
    BY <1>2, <1>0, <1>a, NullAssumption DEF UpdateConfig, Is, GoTo, groupVars, callVars
  <1>3. ASSUME NEW c \in Callers, Close(c) PROVE RunInv'
    BY <1>3, <1>0, <1>a, NullAssumption DEF Close, Is, GoTo, groupVars, callVars
  <1>4. ASSUME NEW c \in Callers, InitPool(c) PROVE RunInv'
    BY <1>4, <1>0, <1>a, NullAssumption DEF InitPool, Is, GoTo, groupVars, callVars
  <1>5. ASSUME NEW c \in Callers, InitMan(c) PROVE RunInv'
    BY <1>5, <1>0, <1>a, NullAssumption DEF InitMan, Is, GoTo, groupVars, callVars
  <1>6. ASSUME NEW c \in Callers, MakeExit(c) PROVE RunInv'
    BY <1>6, <1>0, <1>a, NullAssumption DEF MakeExit, Is, GoTo, groupVars, callVars
  <1>7. ASSUME NEW c \in Callers, ReadConfig(c) PROVE RunInv'
    BY <1>7, <1>0, <1>a, NullAssumption DEF ReadConfig, Is, GoTo, groupVars, callVars
  <1>8. ASSUME NEW c \in Callers, Recv(c) PROVE RunInv'
    BY <1>8, <1>0, <1>a, NullAssumption DEF Recv, Is, GoTo, groupVars, callVars
  <1>9. ASSUME NEW c \in Callers, Lock(c) PROVE RunInv'
    BY <1>9, <1>0, <1>a, NullAssumption DEF Lock, Is, GoTo, groupVars, callVars
  <1>10. ASSUME NEW c \in Callers, SetConfig(c) PROVE RunInv'
    BY <1>10, <1>0, <1>a, NullAssumption
       DEF SetConfig, Unlock, Return, Is, GoTo, groupVars, callVars
  <1>11. ASSUME NEW c \in Callers, UpdateSites(c) PROVE RunInv'
    BY <1>11, <1>0, <1>a, NullAssumption DEF UpdateSites, Is, GoTo, groupVars, callVars
  <1>12. ASSUME NEW c \in Callers, KeepServer(c) PROVE RunInv'
    BY <1>12, <1>0, <1>a, NullAssumption DEF KeepServer, Is, GoTo, groupVars, callVars
  <1>13. ASSUME NEW c \in Callers, listenStop(c) PROVE RunInv'
    BY <1>13, <1>0, <1>a, NullAssumption DEF listenStop, Is, GoTo, groupVars, callVars
  <1>14. ASSUME NEW c \in Callers, NoServerYet(c) PROVE RunInv'
    BY <1>14, <1>0, <1>a, NullAssumption DEF NoServerYet, Is, GoTo, groupVars, callVars
  <1>15. ASSUME NEW c \in Callers, StopServer(c) PROVE RunInv'
    BY <1>15, <1>0, <1>a, NullAssumption DEF StopServer, Is, GoTo, groupVars, callVars
  <1>16. ASSUME NEW c \in Callers, Drain(c) PROVE RunInv'
    BY <1>16, <1>0, <1>a, NullAssumption
       DEF Drain, Stopped, Is, GoTo, groupVars, callVars
  <1>17. ASSUME NEW c \in Callers, CloseListener(c) PROVE RunInv'
    BY <1>17, <1>0, <1>a, NullAssumption
       DEF CloseListener, Stopped, Is, GoTo, groupVars, callVars
  <1>18. ASSUME NEW c \in Callers, listenStart(c) PROVE RunInv'
    BY <1>18, <1>0, <1>a, NullAssumption DEF listenStart, Is, GoTo, groupVars, callVars
  <1>19. ASSUME NEW c \in Callers, UpdateDone(c) PROVE RunInv'
    BY <1>19, <1>0, <1>a, NullAssumption
       DEF UpdateDone, Unlock, Return, Is, GoTo, groupVars, callVars
  <1>20. ASSUME NEW c \in Callers, StopRunning(c) PROVE RunInv'
    BY <1>20, <1>0, <1>a, NullAssumption
       DEF StopRunning, Unlock, Return, Is, GoTo, groupVars, callVars
  <1>21. ASSUME NEW c \in Callers, VisitServer(c) PROVE RunInv'
    BY <1>21, <1>0, <1>a, NullAssumption DEF VisitServer, Is, GoTo, groupVars, callVars
  <1>22. ASSUME NEW c \in Callers, ResetServers(c) PROVE RunInv'
    BY <1>22, <1>0, <1>a, NullAssumption DEF ResetServers, Is, GoTo, groupVars, callVars
  <1>23. ASSUME NEW c \in Callers, DropPool(c) PROVE RunInv'
    BY <1>23, <1>0, <1>a, NullAssumption DEF DropPool, Is, GoTo, groupVars, callVars
  <1>24. ASSUME NEW c \in Callers, DropMan(c) PROVE RunInv'
    BY <1>24, <1>0, <1>a, NullAssumption DEF DropMan, Is, GoTo, groupVars, callVars
  <1>25. ASSUME NEW c \in Callers, Notify(c) PROVE RunInv'
    BY <1>25, <1>0, <1>a, NullAssumption DEF Notify, Is, GoTo, groupVars, callVars
  <1>26. ASSUME NEW s \in Servers, Go(s) \/ Accept(s) \/ ConnDone(s) PROVE RunInv'
    <2>1. UNCHANGED <<run, pc, op>> /\ \A a \in Addrs : srvMan'[a] \in {srvMan[a], NoSrv}
      BY <1>26, <1>0
         DEF Go, Accept, ConnDone, Listen, ListenFails, Serve, Track, AcceptFails,
             CleanupFinds, CleanupMisses, CleanupDeletes, End, goVars, groupVars,
             callVars
    <2> QED  BY <2>1
  <1> QED  BY <1>b, <1>1, <1>2, <1>3, <1>4, <1>5, <1>6, <1>7, <1>8, <1>9, <1>10, <1>11,
      <1>12, <1>13, <1>14, <1>15, <1>16, <1>17, <1>18, <1>19, <1>20, <1>21, <1>22,
      <1>23, <1>24, <1>25, <1>26 DEF Next, Step, vars, groupVars, callVars

\* A group that was closed has no server registered, whatever Start does to run.
THEOREM StoppedIsEmpty == Spec => []StoppedHasNoServers
  <1>1. Init => RunInv  BY DEF Init, RunInv, Emptied, Updating
  <1>2. TypeInv /\ RunInv => StoppedHasNoServers
    <2> SUFFICES ASSUME TypeInv, RunInv, ~run, Settled PROVE Emptied
      BY DEF StoppedHasNoServers, Emptied
    <2>1. \A c \in Callers : pc[c] \notin HoldPCs
      BY NullAssumption DEF TypeInv, CallerHas, Settled
    <2> QED  BY <2>1 DEF RunInv, Closing, HoldPCs
  <1> QED  BY <1>1, <1>2, RunStep, TypeInvariant, PTL DEF Spec

-----------------------------------------------------------------------------
(* Between two calls the registered servers are those of the               *)
(* configuration: an update leaves no address behind that it has not       *)
(* compared, and nobody else registers a server or changes a setting.      *)

\* An update has yet to look at this address.
Pending(a) == \E c \in Callers : Updating(c) /\ (pc[c] = "sites" \/ a \in todo[c])

ConfInv ==
    /\ \A a \in Addrs : srvMan[a] # NoSrv => laddr[srvMan[a]] \in {a, NoAddr}
    /\ \A c \in Callers : Updating(c) =>
          /\ conf[c] = config
          /\ pc[c] \in {"stop", "drain", "closeListener", "start"} => srvMan[cur[c]] = NoSrv
    /\ \A a \in Addrs :
          srvMan[a] # NoSrv => setting[srvMan[a]] = config[a] \/ Pending(a)

LEMMA ConfStep == TypeInv /\ RunInv /\ ConfInv /\ [Next]_vars => ConfInv'
  <1> SUFFICES ASSUME TypeInv, RunInv, ConfInv, [Next]_vars PROVE ConfInv'  OBVIOUS
  <1>0. /\ pc \in [Callers -> PCs] /\ op \in [Callers -> {"none", "start", "update", "close"}]
        /\ conf \in [Callers -> Configs \cup {NoConf}]
        /\ cur \in [Callers -> Addrs \cup {NoAddr}] /\ todo \in [Callers -> SUBSET Addrs]
        /\ old \in [Callers -> Servers \cup {NoSrv}]
        /\ srvMan \in [Addrs -> Servers \cup {NoSrv}]
        /\ at \in [Servers -> {"none", "listen", "serve", "track", "accept", "has", "del"}]
        /\ laddr \in [Servers -> Addrs \cup {NoAddr}]
        /\ setting \in [Servers -> Settings \cup {Off}]
        /\ run \in BOOLEAN
        /\ \A c \in Callers : CallerHas(c)
        /\ \A s \in Servers : ServerHas(s)
    BY DEF TypeInv, TypeOK, GroupTypeOK, ServerTypeOK, CallTypeOK
  <1>a. \A c \in Callers, d \in Callers : pc[c] \in HoldPCs /\ pc[d] \in HoldPCs => c = d
    BY <1>0 DEF CallerHas
  <1> USE DEF ConfInv, Updating, Pending
  <1>b. CASE UNCHANGED <<config, srvMan, laddr, setting, pc, op, conf, todo, cur>>
    BY <1>b
  <1>1. ASSUME NEW c \in Callers, Start(c) PROVE ConfInv'
    BY <1>1, <1>0, <1>a, NullAssumption
       DEF Start, HoldPCs, Is, GoTo, groupVars, serverVars, callVars
  <1>2. ASSUME NEW c \in Callers, UpdateConfig(c) PROVE ConfInv'
    BY <1>2, <1>0, <1>a, NullAssumption
       DEF UpdateConfig, HoldPCs, Is, GoTo, groupVars, serverVars, callVars
  <1>3. ASSUME NEW c \in Callers, Close(c) PROVE ConfInv'
    BY <1>3, <1>0, <1>a, NullAssumption
       DEF Close, HoldPCs, Is, GoTo, groupVars, serverVars, callVars
  <1>4. ASSUME NEW c \in Callers, InitPool(c) PROVE ConfInv'
    BY <1>4, <1>0, <1>a, NullAssumption
       DEF InitPool, HoldPCs, Is, GoTo, groupVars, serverVars, callVars
  <1>5. ASSUME NEW c \in Callers, InitMan(c) PROVE ConfInv'
    BY <1>5, <1>0, <1>a, NullAssumption
       DEF InitMan, HoldPCs, Is, GoTo, groupVars, serverVars, callVars
  <1>6. ASSUME NEW c \in Callers, MakeExit(c) PROVE ConfInv'
    BY <1>6, <1>0, <1>a, NullAssumption
       DEF MakeExit, HoldPCs, Is, GoTo, groupVars, serverVars, callVars
  <1>7. ASSUME NEW c \in Callers, ReadConfig(c) PROVE ConfInv'
    BY <1>7, <1>0, <1>a, NullAssumption
       DEF ReadConfig, HoldPCs, Is, GoTo, groupVars, serverVars, callVars
  <1>8. ASSUME NEW c \in Callers, Recv(c) PROVE ConfInv'
    BY <1>8, <1>0, <1>a, NullAssumption
       DEF Recv, HoldPCs, Is, GoTo, groupVars, serverVars, callVars
  <1>9. ASSUME NEW c \in Callers, Lock(c) PROVE ConfInv'
    BY <1>9, <1>0, <1>a, NullAssumption
       DEF Lock, HoldPCs, Is, GoTo, groupVars, serverVars, callVars
  <1>10. ASSUME NEW c \in Callers, SetConfig(c) PROVE ConfInv'
    <2>1. /\ pc[c] = "locked" /\ op[c] # "close" /\ config' = conf[c]
          /\ UNCHANGED <<srvMan, laddr, setting, todo, cur, run>>
      BY <1>10 DEF SetConfig, Is, serverVars
    <2>2. \A d \in Callers : pc[d] \in HoldPCs => d = c  BY <2>1, <1>a DEF HoldPCs
    <2>3. CASE ~run
      <3>1. pc' \in {[pc EXCEPT ![c] = "recv"], [pc EXCEPT ![c] = "idle"]}
        BY <1>10, <2>3 DEF SetConfig, Unlock, Return, GoTo
      <3>2. Emptied  BY <2>1, <2>2, <2>3 DEF RunInv, Closing, HoldPCs
      <3>3. \A d \in Callers : pc'[d] \notin HoldPCs  BY <3>1, <2>2, <1>0 DEF HoldPCs
      <3> QED  BY <2>1, <3>2, <3>3 DEF Emptied, HoldPCs
    <2>4. CASE run
      <3>1. pc' = [pc EXCEPT ![c] = "sites"] /\ UNCHANGED <<op, conf>>
        BY <1>10, <2>4 DEF SetConfig, GoTo
      <3>2. \A d \in Callers : Updating(d)' => d = c  BY <3>1, <2>2, <1>0 DEF HoldPCs
      <3> QED  BY <2>1, <3>1, <3>2, <1>0
    <2> QED  BY <2>3, <2>4, <1>0
  <1>11. ASSUME NEW c \in Callers, UpdateSites(c) PROVE ConfInv'
    BY <1>11, <1>0, <1>a, NullAssumption
       DEF UpdateSites, HoldPCs, Is, GoTo, groupVars, serverVars, callVars
  <1>12. ASSUME NEW c \in Callers, KeepServer(c) PROVE ConfInv'
    <2>1. pc[c] = "servers" /\ op[c] # "close"  BY <1>12 DEF KeepServer, Is
    <2>2. PICK a \in todo[c] : Unchanged(c, a) /\ todo' = [todo EXCEPT ![c] = @ \ {a}]
      BY <1>12 DEF KeepServer
    <2>3. UNCHANGED <<config, srvMan, laddr, setting, pc, op, conf, cur>>
      BY <1>12 DEF KeepServer, groupVars, serverVars
    <2>4. srvMan[a] # NoSrv => setting[srvMan[a]] = config[a]  BY <2>1, <2>2
        DEF Unchanged
    <2>5. \A x \in Addrs : x # a /\ Pending(x) => Pending(x)'  BY <2>2, <2>3, <1>0
    <2> QED  BY <2>3, <2>4, <2>5
  <1>13. ASSUME NEW c \in Callers, listenStop(c) PROVE ConfInv'
    BY <1>13, <1>0, <1>a, NullAssumption
       DEF listenStop, HoldPCs, Is, GoTo, groupVars, serverVars, callVars
  <1>14. ASSUME NEW c \in Callers, NoServerYet(c) PROVE ConfInv'
    BY <1>14, <1>0, <1>a, NullAssumption
       DEF NoServerYet, HoldPCs, Is, GoTo, groupVars, serverVars, callVars
  <1>15. ASSUME NEW c \in Callers, StopServer(c) PROVE ConfInv'
    BY <1>15, <1>0, <1>a, NullAssumption
       DEF StopServer, HoldPCs, Is, GoTo, groupVars, serverVars, callVars
  <1>16. ASSUME NEW c \in Callers, Drain(c) PROVE ConfInv'
    BY <1>16, <1>0, <1>a, NullAssumption
       DEF Drain, Stopped, HoldPCs, Is, GoTo, groupVars, serverVars, callVars
  <1>17. ASSUME NEW c \in Callers, CloseListener(c) PROVE ConfInv'
    BY <1>17, <1>0, <1>a, NullAssumption
       DEF CloseListener, Stopped, HoldPCs, Is, GoTo, groupVars, serverVars, callVars
  <1>18. ASSUME NEW c \in Callers, listenStart(c) PROVE ConfInv'
    <2>1. /\ pc[c] = "start" /\ op[c] # "close" /\ cur[c] \in Addrs /\ conf[c] = config
          /\ srvMan[cur[c]] = NoSrv
          /\ pc' = [pc EXCEPT ![c] = "servers"]
          /\ todo' = [todo EXCEPT ![c] = @ \ {cur[c]}] /\ cur' = [cur EXCEPT ![c] = NoAddr]
          /\ UNCHANGED <<config, op, conf>>
      BY <1>18, <1>0 DEF listenStart, Is, GoTo, CallerHas, HoldPCs, groupVars
    <2>2. \A d \in Callers : pc[d] \in HoldPCs => d = c  BY <2>1, <1>a DEF HoldPCs
    <2>3. \A d \in Callers : Updating(d)' => d = c  BY <2>1, <2>2, <1>0 DEF HoldPCs
    <2>4. \A x \in Addrs : x # cur[c] /\ Pending(x) => Pending(x)'
      BY <2>1, <2>2, <1>0 DEF HoldPCs
    <2>5. CASE UNCHANGED <<srvMan, laddr, setting>>
      BY <2>1, <2>3, <2>4, <2>5, <1>0
    <2>6. CASE ~UNCHANGED <<srvMan, laddr, setting>>
      <3>1. PICK s : s = CHOOSE t \in Servers : FreshServer(t)  OBVIOUS
      <3>2. /\ \E t \in Servers : FreshServer(t)
            /\ srvMan' = [srvMan EXCEPT ![cur[c]] = s]
            /\ laddr' = [laddr EXCEPT ![s] = cur[c]]
            /\ setting' = [setting EXCEPT ![s] = conf[c][cur[c]]]
        BY <1>18, <2>6, <3>1 DEF listenStart
      <3>3. s \in Servers /\ FreshServer(s)  BY <3>1, <3>2
      <3>4. \A x \in Addrs : srvMan[x] # s  BY <3>3 DEF FreshServer, Registered
      <3>5. \A x \in Addrs : x # cur[c] /\ srvMan'[x] # NoSrv =>
                /\ srvMan'[x] = srvMan[x]
                /\ laddr'[srvMan'[x]] = laddr[srvMan[x]]
                /\ setting'[srvMan'[x]] = setting[srvMan[x]]
        BY <3>2, <3>3, <3>4, <2>1, <1>0
      <3>6. /\ srvMan'[cur[c]] = s /\ laddr'[s] = cur[c]
            /\ setting'[s] = config[cur[c]]
        BY <3>2, <3>3, <2>1, <1>0
      <3>7. \A x \in Addrs : srvMan'[x] # NoSrv => laddr'[srvMan'[x]] \in {x, NoAddr}
        BY <3>5, <3>6
      <3>8. \A d \in Callers : Updating(d)' => conf'[d] = config' /\ pc'[d] = "servers"
        BY <2>1, <2>3, <1>0
      <3>9. \A x \in Addrs : srvMan'[x] # NoSrv => setting'[srvMan'[x]] = config'[x] \/ Pending(x)'
        BY <2>1, <2>4, <3>5, <3>6
      <3> QED  BY <3>7, <3>8, <3>9
    <2> QED  BY <2>5, <2>6
  <1>19. ASSUME NEW c \in Callers, UpdateDone(c) PROVE ConfInv'
    BY <1>19, <1>0, <1>a, NullAssumption
       DEF UpdateDone, Unlock, Return, HoldPCs, Is, GoTo, groupVars, serverVars,
           callVars
  <1>20. ASSUME NEW c \in Callers, StopRunning(c) PROVE ConfInv'
    BY <1>20, <1>0, <1>a, NullAssumption
       DEF StopRunning, Unlock, Return, HoldPCs, Is, GoTo, groupVars, serverVars,
           callVars
  <1>21. ASSUME NEW c \in Callers, VisitServer(c) PROVE ConfInv'
    BY <1>21, <1>0, <1>a, NullAssumption
       DEF VisitServer, HoldPCs, Is, GoTo, groupVars, serverVars, callVars
  <1>22. ASSUME NEW c \in Callers, ResetServers(c) PROVE ConfInv'
    BY <1>22, <1>0, <1>a, NullAssumption
       DEF ResetServers, HoldPCs, Is, GoTo, groupVars, serverVars, callVars
  <1>23. ASSUME NEW c \in Callers, DropPool(c) PROVE ConfInv'
    BY <1>23, <1>0, <1>a, NullAssumption
       DEF DropPool, HoldPCs, Is, GoTo, groupVars, serverVars, callVars
  <1>24. ASSUME NEW c \in Callers, DropMan(c) PROVE ConfInv'
    BY <1>24, <1>0, <1>a, NullAssumption
       DEF DropMan, HoldPCs, Is, GoTo, groupVars, serverVars, callVars
  <1>25. ASSUME NEW c \in Callers, Notify(c) PROVE ConfInv'
    BY <1>25, <1>0, <1>a, NullAssumption
       DEF Notify, HoldPCs, Is, GoTo, groupVars, serverVars, callVars
  <1>26. ASSUME NEW s \in Servers, Accept(s) PROVE ConfInv'
    BY <1>26, <1>0, <1>b, NullAssumption DEF Accept, Runs, goVars, groupVars, callVars
  <1>27. ASSUME NEW s \in Servers, ConnDone(s) PROVE ConfInv'
    BY <1>27, <1>0, <1>b, NullAssumption DEF ConnDone, Runs, goVars, groupVars, callVars
  <1>28. ASSUME NEW s \in Servers, Listen(s) PROVE ConfInv'
    BY <1>28, <1>0, <1>b, NullAssumption DEF Listen, Runs, goVars, groupVars, callVars
  <1>29. ASSUME NEW s \in Servers, ListenFails(s) PROVE ConfInv'
    BY <1>29, <1>0, <1>b, NullAssumption
       DEF ListenFails, Runs, goVars, groupVars, callVars
  <1>30. ASSUME NEW s \in Servers, Serve(s) PROVE ConfInv'
    BY <1>30, <1>0, <1>b, NullAssumption DEF Serve, Runs, goVars, groupVars, callVars
  <1>31. ASSUME NEW s \in Servers, Track(s) PROVE ConfInv'
    BY <1>31, <1>0, <1>b, NullAssumption
       DEF Track, ServeReturns, Runs, goVars, groupVars, callVars
  <1>32. ASSUME NEW s \in Servers, AcceptFails(s) PROVE ConfInv'
    BY <1>32, <1>0, <1>b, NullAssumption
       DEF AcceptFails, ServeReturns, Runs, goVars, groupVars, callVars
  <1>33. ASSUME NEW s \in Servers, CleanupFinds(s) PROVE ConfInv'
    BY <1>33, <1>0, <1>b, NullAssumption
       DEF CleanupFinds, Runs, goVars, groupVars, callVars
  <1>34. ASSUME NEW s \in Servers, CleanupMisses(s) PROVE ConfInv'
    <2>1. /\ UNCHANGED <<config, srvMan, pc, op, conf, todo, cur>>
          /\ laddr' = [laddr EXCEPT ![s] = NoAddr]
          /\ setting' = IF Registered(s) THEN setting ELSE [setting EXCEPT ![s] = Off]
      BY <1>34 DEF CleanupMisses, End, goVars, groupVars, callVars
    <2>2. \A a \in Addrs : srvMan[a] # NoSrv =>
              /\ setting'[srvMan[a]] = setting[srvMan[a]]
              /\ laddr'[srvMan[a]] \in {laddr[srvMan[a]], NoAddr}
      BY <2>1, <1>0 DEF Registered
    <2>3. \A a \in Addrs : Pending(a)' <=> Pending(a)  BY <2>1
    <2>4. \A a \in Addrs : srvMan'[a] # NoSrv => laddr'[srvMan'[a]] \in {a, NoAddr}
      BY <2>1, <2>2
    <2>5. \A a \in Addrs :
            srvMan'[a] # NoSrv => setting'[srvMan'[a]] = config'[a] \/ Pending(a)'
      BY <2>1, <2>2, <2>3
    <2> QED  BY <2>1, <2>4, <2>5
  <1>35. ASSUME NEW s \in Servers, CleanupDeletes(s) PROVE ConfInv'
    <2>1. /\ UNCHANGED <<config, pc, op, conf, todo, cur>>
          /\ srvMan' = [srvMan EXCEPT ![laddr[s]] = NoSrv]
          /\ laddr' = [laddr EXCEPT ![s] = NoAddr]
          /\ setting' = [setting EXCEPT ![s] = Off]
          /\ at[s] = "del"
      BY <1>35 DEF CleanupDeletes, End, Runs, goVars, groupVars, callVars
    <2>2. laddr[s] \in Addrs  BY <2>1, <1>0 DEF ServerHas
    <2>3. \A a \in Addrs : srvMan'[a] # NoSrv =>
              srvMan'[a] = srvMan[a] /\ srvMan[a] # s /\ srvMan[a] \in Servers
      BY <2>1, <2>2, <1>0, NullAssumption
    <2>4. \A a \in Addrs : srvMan'[a] # NoSrv =>
              /\ setting'[srvMan'[a]] = setting[srvMan[a]]
              /\ laddr'[srvMan'[a]] = laddr[srvMan[a]]
      BY <2>1, <2>3, <1>0
    <2>5. \A a \in Addrs : Pending(a)' <=> Pending(a)  BY <2>1
    <2>6. \A a \in Addrs : srvMan'[a] # NoSrv => laddr'[srvMan'[a]] \in {a, NoAddr}
      BY <2>3, <2>4
    <2>7. \A a \in Addrs :
            srvMan'[a] # NoSrv => setting'[srvMan'[a]] = config'[a] \/ Pending(a)'
      BY <2>1, <2>3, <2>4, <2>5
    <2>8. \A a \in Addrs : srvMan[a] = NoSrv => srvMan'[a] = NoSrv  BY <2>1, <1>0
    <2>9. \A c \in Callers : Updating(c)' =>
            /\ conf'[c] = config'
            /\ pc'[c] \in {"stop", "drain", "closeListener", "start"} => srvMan'[cur'[c]] = NoSrv
      BY <2>1, <2>8, <1>0 DEF CallerHas
    <2> QED  BY <2>6, <2>7, <2>9
  <1> QED  BY <1>b, <1>1, <1>2, <1>3, <1>4, <1>5, <1>6, <1>7, <1>8, <1>9, <1>10, <1>11,
      <1>12, <1>13, <1>14, <1>15, <1>16, <1>17, <1>18, <1>19, <1>20, <1>21, <1>22,
      <1>23, <1>24, <1>25, <1>26, <1>27, <1>28, <1>29, <1>30, <1>31, <1>32, <1>33,
      <1>34, <1>35 DEF Next, Step, Go, vars, groupVars, serverVars, callVars

\* Between two calls a registered server has the setting the configuration gives
\* its address, although old servers of the address are still on their way out.
THEOREM RegisteredAsConfigured == Spec => []RegisteredIsConfigured
  <1>1. Init => RunInv /\ ConfInv
    BY DEF Init, RunInv, ConfInv, Emptied, Updating
  <1>2. TypeInv /\ ConfInv => RegisteredIsConfigured
    <2> SUFFICES ASSUME TypeInv, ConfInv, Settled PROVE RegisteredIsConfigured
      BY DEF RegisteredIsConfigured
    <2>1. \A c \in Callers : pc[c] \notin HoldPCs
      BY NullAssumption DEF TypeInv, CallerHas, Settled
    <2>2. \A a \in Addrs : ~Pending(a)  BY <2>1 DEF Pending, Updating, HoldPCs
    <2> QED  BY <2>2 DEF ConfInv, RegisteredIsConfigured
  <1> QED  BY <1>1, <1>2, RunStep, ConfStep, TypeInvariant, PTL DEF Spec

-----------------------------------------------------------------------------
(* Where Serve writes every address back as it was configured, the cleanup *)
(* of a server finds its registration.                                     *)

AliveInv == Canonical = Addrs => RegisteredIsAlive

LEMMA AliveStep == TypeInv /\ AliveInv /\ [Next]_vars => AliveInv'
  <1> SUFFICES ASSUME TypeInv, RegisteredIsAlive, [Next]_vars, Canonical = Addrs
               PROVE  RegisteredIsAlive'
    BY DEF AliveInv
  <1>0. /\ srvMan \in [Addrs -> Servers \cup {NoSrv}]
        /\ at \in [Servers -> {"none", "listen", "serve", "track", "accept", "has", "del"}]
        /\ laddr \in [Servers -> Addrs \cup {NoAddr}]
        /\ \A s \in Servers : ServerHas(s)
    BY DEF TypeInv, TypeOK, GroupTypeOK, ServerTypeOK
  <1> USE DEF RegisteredIsAlive
  <1>1. CASE UNCHANGED <<srvMan, at, laddr>>  BY <1>1
  <1>2. ASSUME NEW c \in Callers, listenStart(c) PROVE RegisteredIsAlive'
    <2>1. CASE UNCHANGED <<srvMan, at, laddr>>  BY <2>1
    <2>2. CASE ~UNCHANGED <<srvMan, at, laddr>>
      <3>1. PICK s : s = CHOOSE t \in Servers : FreshServer(t)  OBVIOUS
      <3>2. /\ \E t \in Servers : FreshServer(t)
            /\ srvMan' = [srvMan EXCEPT ![cur[c]] = s]
            /\ at' = [at EXCEPT ![s] = "listen"]
            /\ laddr' = [laddr EXCEPT ![s] = cur[c]]
        BY <1>2, <2>2, <3>1 DEF listenStart
      <3>3. s \in Servers /\ FreshServer(s)  BY <3>1, <3>2
      <3>4. \A x \in Addrs : srvMan[x] # s  BY <3>3 DEF FreshServer, Registered
      <3> QED  BY <3>2, <3>3, <3>4, <1>0
    <2> QED  BY <2>1, <2>2
  <1>3. ASSUME NEW c \in Callers, listenStop(c) \/ ResetServers(c) PROVE RegisteredIsAlive'
    <2>1. \A a \in Addrs : srvMan'[a] \in {srvMan[a], NoSrv}
      BY <1>3, <1>0 DEF listenStop, ResetServers
    <2>2. UNCHANGED <<at, laddr>>  BY <1>3 DEF listenStop, ResetServers, serverVars
    <2> QED  BY <2>1, <2>2
  <1>4. ASSUME NEW c \in Callers, Start(c) \/ UpdateConfig(c) \/ Close(c) \/ Step(c)
        PROVE  RegisteredIsAlive'
    <2>1. \/ listenStop(c) \/ ResetServers(c) \/ listenStart(c)
          \/ UNCHANGED <<srvMan, at, laddr>>
      BY <1>4
         DEF Step, Start, UpdateConfig, Close, InitPool, InitMan, MakeExit, ReadConfig,
             Recv, Lock, SetConfig, UpdateSites, KeepServer, NoServerYet, StopServer,
             Drain, CloseListener, UpdateDone, StopRunning, VisitServer, DropPool,
             DropMan, Notify, serverVars
    <2> QED  BY <2>1, <1>1, <1>2, <1>3
  <1>5. ASSUME NEW s \in Servers, Accept(s) \/ ConnDone(s) \/ Listen(s) \/ ListenFails(s)
               \/ Serve(s) \/ Track(s) \/ AcceptFails(s) \/ CleanupFinds(s)
        PROVE  RegisteredIsAlive'
    <2>1. /\ UNCHANGED <<srvMan, laddr>>
          /\ at' = at \/ \E where \in {"has", "serve", "track", "accept", "del"} :
                             at' = [at EXCEPT ![s] = where]
      BY <1>5 DEF Accept, ConnDone, Listen, ListenFails, Serve, Track, AcceptFails,
                  CleanupFinds, ServeReturns
    <2> QED  BY <2>1, <1>0
  <1>6. ASSUME NEW s \in Servers, CleanupMisses(s) PROVE RegisteredIsAlive'
    <2>1. /\ UNCHANGED srvMan /\ at[s] = "has" /\ ~Finds(s)
          /\ at' = [at EXCEPT ![s] = "none"] /\ laddr' = [laddr EXCEPT ![s] = NoAddr]
      BY <1>6 DEF CleanupMisses, End, Runs
    <2>2. laddr[s] \in Addrs  BY <2>1, <1>0 DEF ServerHas
    <2>3. srvMan[laddr[s]] # s  BY <2>1, <2>2 DEF Finds
    <2>4. \A a \in Addrs : srvMan[a] # NoSrv => srvMan[a] # s  BY <2>3
    <2> QED  BY <2>1, <2>4, <1>0
  <1>7. ASSUME NEW s \in Servers, CleanupDeletes(s) PROVE RegisteredIsAlive'
    <2>1. /\ srvMan' = [srvMan EXCEPT ![laddr[s]] = NoSrv] /\ at[s] = "del"
          /\ at' = [at EXCEPT ![s] = "none"] /\ laddr' = [laddr EXCEPT ![s] = NoAddr]
      BY <1>7 DEF CleanupDeletes, End, Runs
    <2>2. \A a \in Addrs : srvMan'[a] # NoSrv => srvMan'[a] = srvMan[a] /\ srvMan[a] # s
      BY <2>1, <1>0
    <2> QED  BY <2>1, <2>2, <1>0
  <1> QED  BY <1>1, <1>4, <1>5, <1>6, <1>7 DEF Next, Go, vars, serverVars

\* What is registered is a server that is on its way up, serves, or is about to
\* take the registration off: the addresses are written as the listener has them.
THEOREM RegisteredStaysAlive == Spec => [](Canonical = Addrs => RegisteredIsAlive)
  <1>1. Init => AliveInv  BY DEF Init, AliveInv, RegisteredIsAlive
  <1>2. AliveInv => (Canonical = Addrs => RegisteredIsAlive)  BY DEF AliveInv
  <1> QED  BY <1>1, <1>2, AliveStep, TypeInvariant, PTL DEF Spec
===============================================================================
