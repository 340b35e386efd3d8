-------------------------------- MODULE Group --------------------------------
(***************************************************************************)
(* The group of servers (server/Server.go, server/listener.go): callers of *)
(* Group.Start, UpdateConfig and Close, and one goroutine Group.serve per  *)
(* server, which listens, accepts until its listener is closed, and takes  *)
(* its own registration off srvMan.                                        *)
(*                                                                         *)
(* configMu serialises UpdateConfig and Close; Start runs without it up to *)
(* its own call of UpdateConfig.  One call of vmap.Map, one atomic         *)
(* operation and one critical section of http.Server are each one step.    *)
(* What the sites make of a configuration is not modelled here.            *)
(***************************************************************************)
EXTENDS Integers, FiniteSets

CONSTANTS
    Callers,      \* goroutines that call the exported methods of a Group
    Starters,     \* those that call Start
    Updaters,     \* those that call UpdateConfig
    Closers,      \* those that call Close
    Addrs,        \* the keys of conf.Listen: one port each
    Settings,     \* merged CC and CS of a listener, compared with DeepEqual
    Graceful,     \* those with ShutdownConn
    BadTLS,       \* those ConfigServer refuses
    Canonical,    \* addresses Serve's JoinHostPort writes back unchanged
    Servers,      \* *Server objects, used again once nothing refers to them
    Chans,        \* the channels Start makes
    Faulty,       \* net.Listen and Accept may fail for no reason of ours
    MaxCalls,     \* calls of the exported methods (bound); Off for no bound
    Free, NoConf, NoSrv, NoAddr, NoChan, Off

\* A configuration: Off stands for absent and for Status false.
Configs == [Addrs -> Settings \cup {Off}]

ASSUME CallersAssumption == Starters \cup Updaters \cup Closers \subseteq Callers
ASSUME SettingsAssumption ==
    /\ Graceful \subseteq Settings
    /\ BadTLS \subseteq Settings
    /\ Off \notin Settings
    /\ Canonical \subseteq Addrs
    /\ Faulty \in BOOLEAN
ASSUME ChansAssumption == Chans # {}
ASSUME BoundAssumption == MaxCalls \in Nat \cup {Off}
ASSUME NullAssumption ==
    /\ Free \notin Callers
    /\ NoSrv \notin Servers
    /\ NoAddr \notin Addrs
    /\ NoChan \notin Chans
    /\ NoConf \notin Configs

VARIABLES
    run,          \* T.run
    configMu,     \* who holds T.configMu
    config,       \* T.config
    exit,         \* T.exit
    resources,    \* which of sitePool and siteMan are not nil
    panicked,     \* a nil one was used: the process is gone
    srvMan,       \* T.srvMan
    at,           \* where the goroutine serve(srv) of a server stands
    laddr,        \* the address the server was made for
    resolved,     \* Serve has written the listener's own address into Addr
    setting,      \* cServer and cConn
    status,       \* Server.status
    inShutdown,   \* http.Server.inShutdown: Close or Shutdown was called
    busy,         \* a connection it accepted is in use
    port,         \* which server's socket listens on an address
    pc, op,       \* where a caller stands, and in which call
    conf,         \* the configuration it applies
    todo, cur,    \* addresses left to look at, and the one in hand
    old,          \* the server listenStop is closing
    chan,         \* the channel Start waits on
    calls         \* how many calls have begun, when they are bounded

groupVars == <<run, config, exit, resources, panicked>>
serverVars == <<at, laddr, resolved, setting, status, inShutdown, busy, port>>
callVars == <<op, conf, todo, cur, old, chan, calls>>
vars == <<groupVars, configMu, srvMan, serverVars, pc, callVars>>

StartPCs == {"initPool", "initMan", "makeExit", "readConfig", "recv", "wait"}
HoldPCs == {"locked", "sites", "servers", "stop", "drain", "closeListener",
            "start", "dropPool", "dropMan", "notify"}
PCs == {"idle", "lock"} \cup StartPCs \cup HoldPCs

GroupTypeOK ==
    /\ run \in BOOLEAN
    /\ configMu \in Callers \cup {Free}
    /\ config \in Configs \cup {NoConf}
    /\ exit \in Chans
    /\ resources \subseteq {"sitePool", "siteMan"}
    /\ panicked \in BOOLEAN
    /\ srvMan \in [Addrs -> Servers \cup {NoSrv}]

ServerTypeOK ==
    /\ at \in [Servers -> {"none", "listen", "serve", "track", "accept", "has", "del"}]
    /\ laddr \in [Servers -> Addrs \cup {NoAddr}]
    /\ resolved \in [Servers -> BOOLEAN]
    /\ setting \in [Servers -> Settings \cup {Off}]
    /\ status \in [Servers -> BOOLEAN]
    /\ inShutdown \in [Servers -> BOOLEAN]
    /\ busy \in [Servers -> BOOLEAN]
    /\ port \in [Addrs -> Servers \cup {NoSrv}]

CallTypeOK ==
    /\ pc \in [Callers -> PCs]
    /\ op \in [Callers -> {"none", "start", "update", "close"}]
    /\ conf \in [Callers -> Configs \cup {NoConf}]
    /\ todo \in [Callers -> SUBSET Addrs]
    /\ cur \in [Callers -> Addrs \cup {NoAddr}]
    /\ old \in [Callers -> Servers \cup {NoSrv}]
    /\ chan \in [Callers -> Chans \cup {NoChan}]
    /\ calls \in Nat

TypeOK == GroupTypeOK /\ ServerTypeOK /\ CallTypeOK

Init ==
    /\ run = FALSE
    /\ configMu = Free
    /\ config = NoConf
    /\ exit = CHOOSE ch \in Chans : TRUE
    /\ resources = {"sitePool", "siteMan"}
    /\ panicked = FALSE
    /\ srvMan = [a \in Addrs |-> NoSrv]
    /\ at = [s \in Servers |-> "none"]
    /\ laddr = [s \in Servers |-> NoAddr]
    /\ resolved = [s \in Servers |-> FALSE]
    /\ setting = [s \in Servers |-> Off]
    /\ status = [s \in Servers |-> FALSE]
    /\ inShutdown = [s \in Servers |-> FALSE]
    /\ busy = [s \in Servers |-> FALSE]
    /\ port = [a \in Addrs |-> NoSrv]
    /\ pc = [c \in Callers |-> "idle"]
    /\ op = [c \in Callers |-> "none"]
    /\ conf = [c \in Callers |-> NoConf]
    /\ todo = [c \in Callers |-> {}]
    /\ cur = [c \in Callers |-> NoAddr]
    /\ old = [c \in Callers |-> NoSrv]
    /\ chan = [c \in Callers |-> NoChan]
    /\ calls = 0

-----------------------------------------------------------------------------
\* Where a caller, or the goroutine of a server, stands in a process that lives.
Is(c, where) == ~panicked /\ pc[c] = where
Runs(s, where) == ~panicked /\ at[s] = where

\* A call of an exported method begins.
Called ==
    IF MaxCalls = Off THEN UNCHANGED calls
    ELSE calls < MaxCalls /\ calls' = calls + 1

GoTo(c, where) == pc' = [pc EXCEPT ![c] = where]

\* The caller's call returns, and its locals go.
Return(c) ==
    /\ GoTo(c, "idle")
    /\ op' = [op EXCEPT ![c] = "none"]
    /\ conf' = [conf EXCEPT ![c] = NoConf]
    /\ chan' = [chan EXCEPT ![c] = NoChan]

Registered(s) == \E a \in Addrs : srvMan[a] = s

\* A server no goroutine, caller, registration or connection refers to.
FreshServer(s) == /\ at[s] = "none"
                  /\ ~Registered(s)
                  /\ ~busy[s]
                  /\ \A c \in Callers : old[c] # s

FreshChan(ch) == ch # exit /\ \A c \in Callers : chan[c] # ch

-----------------------------------------------------------------------------
(* Start.  A second Start while the group runs returns an error at once.    *)

Start(c) ==
    /\ c \in Starters
    /\ Is(c, "idle")
    /\ ~run
    /\ Called
    /\ run' = TRUE
    /\ op' = [op EXCEPT ![c] = "start"]
    /\ GoTo(c, "initPool")
    /\ UNCHANGED <<config, exit, resources, panicked, configMu, srvMan, serverVars,
                   conf, todo, cur, old, chan>>

\* initGroupResources: it makes what Close left nil.
InitPool(c) ==
    /\ Is(c, "initPool")
    /\ resources' = resources \cup {"sitePool"}
    /\ GoTo(c, "initMan")
    /\ UNCHANGED <<run, config, exit, panicked, configMu, srvMan, serverVars,
                   callVars>>

InitMan(c) ==
    /\ Is(c, "initMan")
    /\ resources' = resources \cup {"siteMan"}
    /\ GoTo(c, "makeExit")
    /\ UNCHANGED <<run, config, exit, panicked, configMu, srvMan, serverVars,
                   callVars>>

MakeExit(c) ==
    /\ Is(c, "makeExit")
    /\ \E ch \in Chans : FreshChan(ch)
    /\ exit' = CHOOSE ch \in Chans : FreshChan(ch)
    /\ GoTo(c, "readConfig")
    /\ UNCHANGED <<run, config, resources, panicked, configMu, srvMan, serverVars,
                   callVars>>

ReadConfig(c) ==
    /\ Is(c, "readConfig")
    /\ conf' = [conf EXCEPT ![c] = config]
    /\ GoTo(c, IF config = NoConf THEN "recv" ELSE "lock")
    /\ UNCHANGED <<groupVars, configMu, srvMan, serverVars, op, todo, cur, old,
                   chan, calls>>

\* <-T.exit: the channel is read, then waited on.
Recv(c) ==
    /\ Is(c, "recv")
    /\ chan' = [chan EXCEPT ![c] = exit]
    /\ GoTo(c, "wait")
    /\ UNCHANGED <<groupVars, configMu, srvMan, serverVars, op, conf, todo, cur,
                   old, calls>>

-----------------------------------------------------------------------------
(* UpdateConfig, of a caller or of Start.                                   *)

UpdateConfig(c) ==
    /\ c \in Updaters
    /\ Is(c, "idle")
    /\ Called
    /\ op' = [op EXCEPT ![c] = "update"]
    /\ \E f \in Configs : conf' = [conf EXCEPT ![c] = f]
    /\ GoTo(c, "lock")
    /\ UNCHANGED <<groupVars, configMu, srvMan, serverVars, todo, cur, old, chan>>

Lock(c) ==
    /\ Is(c, "lock")
    /\ configMu = Free
    /\ configMu' = c
    /\ GoTo(c, "locked")
    /\ UNCHANGED <<groupVars, srvMan, serverVars, callVars>>

\* Mutant: an early return forgets the lock.
UnlockNothing(c) == Return(c) /\ UNCHANGED configMu

\* UpdateConfig returns: to its caller, or to Start.
Unlock(c) ==
    /\ configMu' = Free
    /\ IF op[c] = "start"
       THEN /\ GoTo(c, "recv")
            /\ conf' = [conf EXCEPT ![c] = NoConf]
            /\ UNCHANGED <<op, chan>>
       ELSE Return(c)

\* Mutant: run is not looked at.
SetConfigAlways(c) ==
    /\ Is(c, "locked")
    /\ op[c] # "close"
    /\ config' = conf[c]
    /\ GoTo(c, "sites")
    /\ UNCHANGED <<configMu, op, conf, chan>>
    /\ UNCHANGED <<run, exit, resources, panicked, srvMan, serverVars, todo, cur,
                   old,
                   calls>>

SetConfig(c) ==
    /\ Is(c, "locked")
    /\ op[c] # "close"
    /\ config' = conf[c]
    /\ \/ ~run /\ Unlock(c)
       \/ run /\ GoTo(c, "sites") /\ UNCHANGED <<configMu, op, conf, chan>>
    /\ UNCHANGED <<run, exit, resources, panicked, srvMan, serverVars, todo, cur,
                   old,
                   calls>>

\* updateConfigSites uses T.sitePool and T.siteMan.  Its errors are logged, and
\* the servers are updated all the same.
UpdateSites(c) ==
    /\ Is(c, "sites")
    /\ IF resources = {"sitePool", "siteMan"}
       THEN /\ GoTo(c, "servers")
            /\ todo' = [todo EXCEPT ![c] = Addrs]
            /\ UNCHANGED panicked
       ELSE panicked' = TRUE /\ UNCHANGED <<pc, todo>>
    /\ UNCHANGED <<run, config, exit, resources, configMu, srvMan, serverVars,
                   op, conf, cur, old, chan, calls>>

\* Mutant: a server that is there is not compared with its configuration.
UnchangedByPresence(c, a) == (srvMan[a] = NoSrv) = (conf[c][a] = Off)

\* updateConfigServers: nothing to do at an address whose server, or absence,
\* is the one configured.  The code visits the absent addresses first; addresses
\* do not depend on each other, so any order stands for its two loops.
Unchanged(c, a) ==
    IF srvMan[a] = NoSrv THEN conf[c][a] = Off ELSE setting[srvMan[a]] = conf[c][a]

KeepServer(c) ==
    /\ Is(c, "servers") /\ op[c] # "close"
    /\ \E a \in todo[c] :
         /\ Unchanged(c, a)
         /\ todo' = [todo EXCEPT ![c] = @ \ {a}]
    /\ UNCHANGED <<groupVars, configMu, srvMan, serverVars, pc, op, conf, cur, old,
                   chan,
                   calls>>

\* listenStop takes the registration off first.  Only a cleanup can come between
\* its GetHas and its Del, and it deletes the same.
listenStop(c) ==
    /\ Is(c, "servers") /\ op[c] # "close"
    /\ \E a \in todo[c] :
         /\ srvMan[a] # NoSrv
         /\ ~Unchanged(c, a)
         /\ srvMan' = [srvMan EXCEPT ![a] = NoSrv]
         /\ cur' = [cur EXCEPT ![c] = a]
         /\ old' = [old EXCEPT ![c] = srvMan[a]]
    /\ GoTo(c, "stop")
    /\ UNCHANGED <<groupVars, configMu, serverVars, op, conf, todo, chan, calls>>

NoServerYet(c) ==
    /\ Is(c, "servers") /\ op[c] # "close"
    /\ \E a \in todo[c] :
         /\ srvMan[a] = NoSrv
         /\ conf[c][a] # Off
         /\ cur' = [cur EXCEPT ![c] = a]
    /\ GoTo(c, "start")
    /\ UNCHANGED <<groupVars, configMu, srvMan, serverVars, op, conf, todo, old,
                   chan, calls>>

\* Mutant: the listener is left to its goroutine.
StopServerListening(c) ==
    LET s == old[c]
        graceful == op[c] # "close" /\ setting[s] \in Graceful
    IN
    /\ Is(c, "stop")
    /\ status' = [status EXCEPT ![s] = FALSE]
    /\ inShutdown' = IF at[s] = "none" THEN inShutdown ELSE [inShutdown EXCEPT ![s] = TRUE]
    /\ busy' = IF graceful THEN busy ELSE [busy EXCEPT ![s] = FALSE]
    /\ GoTo(c, IF graceful THEN "drain" ELSE "closeListener")
    /\ UNCHANGED <<groupVars, configMu, srvMan, at, laddr, resolved, setting, port,
                   callVars>>

\* http.Server.Close or Shutdown: inShutdown is set and the listener Serve
\* tracks is closed; Close also drops the connections.
StopServer(c) ==
    LET s == old[c]
        graceful == op[c] # "close" /\ setting[s] \in Graceful
    IN
    /\ Is(c, "stop")
    /\ status' = [status EXCEPT ![s] = FALSE]
    /\ inShutdown' = IF at[s] = "none" THEN inShutdown ELSE [inShutdown EXCEPT ![s] = TRUE]
    /\ port' = IF at[s] = "accept" /\ port[laddr[s]] = s
               THEN [port EXCEPT ![laddr[s]] = NoSrv] ELSE port
    /\ busy' = IF graceful THEN busy ELSE [busy EXCEPT ![s] = FALSE]
    /\ GoTo(c, IF graceful THEN "drain" ELSE "closeListener")
    /\ UNCHANGED <<groupVars, configMu, srvMan, at, laddr, resolved, setting,
                   callVars>>

\* listenStop, or the visit of Close's Range, is over: a server is to be started
\* at the address, or it is done with.
Stopped(c) ==
    LET restart == op[c] # "close" /\ conf[c][cur[c]] # Off IN
    /\ old' = [old EXCEPT ![c] = NoSrv]
    /\ GoTo(c, IF restart THEN "start" ELSE "servers")
    /\ todo' = IF restart THEN todo ELSE [todo EXCEPT ![c] = @ \ {cur[c]}]
    /\ cur' = IF restart THEN cur ELSE [cur EXCEPT ![c] = NoAddr]

\* Shutdown returns when no connection is in use.
Drain(c) ==
    /\ Is(c, "drain")
    /\ ~busy[old[c]]
    /\ Stopped(c)
    /\ UNCHANGED <<groupVars, configMu, srvMan, serverVars, op, conf, chan, calls>>

\* Server.Close goes on to close its own listener, which Serve may have set
\* by now without http.Server knowing it yet.
CloseListener(c) ==
    LET s == old[c] IN
    /\ Is(c, "closeListener")
    /\ port' = IF at[s] = "track" /\ port[laddr[s]] = s
               THEN [port EXCEPT ![laddr[s]] = NoSrv] ELSE port
    /\ Stopped(c)
    /\ UNCHANGED <<groupVars, configMu, srvMan, at, laddr, resolved, setting,
                   status, inShutdown,
                   busy, op, conf, chan, calls>>

\* listenStart on a new server.  A certificate that does not load is logged,
\* and the address stays without a server.
listenStart(c) ==
    LET a == cur[c]
        s == CHOOSE s \in Servers : FreshServer(s)
    IN
    /\ Is(c, "start")
    /\ IF conf[c][a] \in BadTLS
       THEN UNCHANGED <<srvMan, at, laddr, setting>>
       ELSE /\ \E t \in Servers : FreshServer(t)
            /\ srvMan' = [srvMan EXCEPT ![a] = s]
            /\ at' = [at EXCEPT ![s] = "listen"]
            /\ laddr' = [laddr EXCEPT ![s] = a]
            /\ setting' = [setting EXCEPT ![s] = conf[c][a]]
    /\ todo' = [todo EXCEPT ![c] = @ \ {a}]
    /\ cur' = [cur EXCEPT ![c] = NoAddr]
    /\ GoTo(c, "servers")
    /\ UNCHANGED <<groupVars, configMu, resolved, status, inShutdown, busy, port,
                   op, conf,
                   old, chan, calls>>

UpdateDone(c) ==
    /\ Is(c, "servers") /\ op[c] # "close"
    /\ todo[c] = {}
    /\ Unlock(c)
    /\ UNCHANGED <<groupVars, srvMan, serverVars, todo, cur, old, calls>>

-----------------------------------------------------------------------------
(* Close.                                                                   *)

Close(c) ==
    /\ c \in Closers
    /\ Is(c, "idle")
    /\ Called
    /\ op' = [op EXCEPT ![c] = "close"]
    /\ GoTo(c, "lock")
    /\ UNCHANGED <<groupVars, configMu, srvMan, serverVars, conf, todo, cur, old,
                   chan>>

\* run.Swap(false); a group that does not run is an error.
StopRunning(c) ==
    /\ Is(c, "locked")
    /\ op[c] = "close"
    /\ run' = FALSE
    /\ \/ ~run /\ Unlock(c) /\ UNCHANGED todo
       \/ /\ run
          /\ GoTo(c, "servers")
          /\ todo' = [todo EXCEPT ![c] = Addrs]
          /\ UNCHANGED <<configMu, op, conf, chan>>
    /\ UNCHANGED <<config, exit, resources, panicked, srvMan, serverVars, cur, old,
                   calls>>

\* srvMan.Range
VisitServer(c) ==
    /\ Is(c, "servers")
    /\ op[c] = "close"
    /\ \E a \in todo[c] :
         IF srvMan[a] = NoSrv
         THEN /\ todo' = [todo EXCEPT ![c] = @ \ {a}]
              /\ UNCHANGED <<pc, cur, old>>
         ELSE /\ cur' = [cur EXCEPT ![c] = a]
              /\ old' = [old EXCEPT ![c] = srvMan[a]]
              /\ GoTo(c, "stop")
              /\ UNCHANGED todo
    /\ UNCHANGED <<groupVars, configMu, srvMan, serverVars, op, conf, chan, calls>>

ResetServers(c) ==
    /\ Is(c, "servers")
    /\ op[c] = "close"
    /\ todo[c] = {}
    /\ srvMan' = [a \in Addrs |-> NoSrv]
    /\ GoTo(c, "dropPool")
    /\ UNCHANGED <<groupVars, configMu, serverVars, callVars>>

\* updateSitePoolDel(nil, nil) uses both, and then the pool is closed.
DropPool(c) ==
    /\ Is(c, "dropPool")
    /\ IF resources = {"sitePool"}
       THEN panicked' = TRUE /\ UNCHANGED <<pc, resources>>
       ELSE /\ resources' = resources \ {"sitePool"}
            /\ GoTo(c, "dropMan")
            /\ UNCHANGED panicked
    /\ UNCHANGED <<run, config, exit, configMu, srvMan, serverVars, callVars>>

\* Mutant: the channel is dropped with the rest.
DropManAndExit(c) ==
    /\ Is(c, "dropMan")
    /\ resources' = resources \ {"siteMan"}
    /\ exit' = NoChan
    /\ GoTo(c, "notify")
    /\ UNCHANGED <<run, config, panicked, configMu, srvMan, serverVars, callVars>>

DropMan(c) ==
    /\ Is(c, "dropMan")
    /\ resources' = resources \ {"siteMan"}
    /\ GoTo(c, "notify")
    /\ UNCHANGED <<run, config, exit, panicked, configMu, srvMan, serverVars,
                   callVars>>

\* The send that does not wait: it wakes one Start that waits on the channel
\* by now, or nobody.
Waiting(d) == pc[d] = "wait" /\ chan[d] = exit

Notify(c) ==
    /\ Is(c, "notify")
    /\ configMu' = Free
    /\ \E d \in Callers \cup {Free} :
         LET back == {c, d} \cap Callers IN
         /\ IF d = Free THEN ~ \E e \in Callers : Waiting(e) ELSE Waiting(d)
         /\ pc' = [e \in Callers |-> IF e \in back THEN "idle" ELSE pc[e]]
         /\ op' = [e \in Callers |-> IF e \in back THEN "none" ELSE op[e]]
         /\ chan' = [e \in Callers |-> IF e \in back THEN NoChan ELSE chan[e]]
    /\ UNCHANGED <<groupVars, srvMan, serverVars, conf, todo, cur, old, calls>>

-----------------------------------------------------------------------------
(* The goroutine serve(srv): ListenAndServe, and the deferred cleanup.      *)

goVars == <<groupVars, configMu, pc, callVars>>

\* Every return of http.Server.Serve closes the listener; Serve's deferred
\* call resets the status.
ServeReturns(s) ==
    /\ at' = [at EXCEPT ![s] = "has"]
    /\ status' = [status EXCEPT ![s] = FALSE]
    /\ port' = IF port[laddr[s]] = s THEN [port EXCEPT ![laddr[s]] = NoSrv] ELSE port

\* net.Listen.
Listen(s) ==
    /\ Runs(s, "listen")
    /\ port[laddr[s]] = NoSrv
    /\ port' = [port EXCEPT ![laddr[s]] = s]
    /\ at' = [at EXCEPT ![s] = "serve"]
    /\ UNCHANGED <<goVars, srvMan, laddr, resolved, setting, status, inShutdown,
                   busy>>

\* The port is taken by another of our servers, or by somebody else's.
ListenFails(s) ==
    /\ Runs(s, "listen")
    /\ port[laddr[s]] # NoSrv \/ Faulty
    /\ at' = [at EXCEPT ![s] = "has"]
    /\ UNCHANGED <<goVars, srvMan, laddr, resolved, setting, status, inShutdown,
                   busy, port>>

\* Serve up to the call of http.Server.Serve: T.Addr and T.l are set.  A server
\* has one goroutine, so the CompareAndSwap of status does not fail.
Serve(s) ==
    /\ Runs(s, "serve")
    /\ status' = [status EXCEPT ![s] = TRUE]
    /\ resolved' = [resolved EXCEPT ![s] = TRUE]
    /\ at' = [at EXCEPT ![s] = "track"]
    /\ UNCHANGED <<goVars, srvMan, laddr, setting, inShutdown, busy, port>>

\* Mutant: the listener is taken whether or not the server was shut down.
TrackAlways(s) ==
    /\ Runs(s, "track")
    /\ at' = [at EXCEPT ![s] = "accept"]
    /\ UNCHANGED <<goVars, srvMan, laddr, resolved, setting, status, inShutdown,
                   busy, port>>

\* http.Server takes the listener unless it was shut down meanwhile, and then
\* closes it.
Track(s) ==
    /\ Runs(s, "track")
    /\ IF inShutdown[s] THEN ServeReturns(s)
       ELSE at' = [at EXCEPT ![s] = "accept"] /\ UNCHANGED <<status, port>>
    /\ UNCHANGED <<goVars, srvMan, laddr, resolved, setting, inShutdown, busy>>

\* Only Shutdown cares whether connections are in use.
Accept(s) ==
    /\ Runs(s, "accept")
    /\ setting[s] \in Graceful
    /\ port[laddr[s]] = s
    /\ ~busy[s]
    /\ busy' = [busy EXCEPT ![s] = TRUE]
    /\ UNCHANGED <<goVars, srvMan, at, laddr, resolved, setting, status,
                   inShutdown, port>>

\* The listener was closed, or fails for good.
AcceptFails(s) ==
    /\ Runs(s, "accept")
    /\ port[laddr[s]] # s \/ Faulty
    /\ ServeReturns(s)
    /\ UNCHANGED <<goVars, srvMan, laddr, resolved, setting, inShutdown, busy>>

\* A client is done with its connection (external).
ConnDone(s) ==
    /\ ~panicked
    /\ busy[s]
    /\ busy' = [busy EXCEPT ![s] = FALSE]
    /\ UNCHANGED <<goVars, srvMan, at, laddr, resolved, setting, status,
                   inShutdown, port>>

\* The goroutine is over; a server that is not registered keeps no setting.
End(s, registered) ==
    /\ at' = [at EXCEPT ![s] = "none"]
    /\ laddr' = [laddr EXCEPT ![s] = NoAddr]
    /\ resolved' = [resolved EXCEPT ![s] = FALSE]
    /\ inShutdown' = [inShutdown EXCEPT ![s] = FALSE]
    /\ setting' = IF registered THEN setting ELSE [setting EXCEPT ![s] = Off]
    /\ UNCHANGED <<goVars, status, busy, port>>

\* Mutant: only a server that did not get to Serve looks for itself.
FindsUnresolved(s) == ~resolved[s] /\ srvMan[laddr[s]] = s

\* The deferred cleanup: srvMan.GetHas(srv.Addr).  Serve wrote the resolved
\* address into Addr, which is no key of srvMan unless it is the same.
Finds(s) == /\ resolved[s] => laddr[s] \in Canonical
            /\ srvMan[laddr[s]] = s

CleanupFinds(s) ==
    /\ Runs(s, "has")
    /\ Finds(s)
    /\ at' = [at EXCEPT ![s] = "del"]
    /\ UNCHANGED <<goVars, srvMan, laddr, resolved, setting, status, inShutdown,
                   busy, port>>

CleanupMisses(s) ==
    /\ Runs(s, "has")
    /\ ~Finds(s)
    /\ End(s, Registered(s))
    /\ UNCHANGED srvMan

\* srvMan.Del(srv.Addr), whatever is registered there by now.
CleanupDeletes(s) ==
    /\ Runs(s, "del")
    /\ srvMan' = [srvMan EXCEPT ![laddr[s]] = NoSrv]
    /\ End(s, FALSE)

-----------------------------------------------------------------------------
\* The steps of a call that has begun.
Step(c) ==
    \/ InitPool(c) \/ InitMan(c) \/ MakeExit(c) \/ ReadConfig(c) \/ Recv(c)
    \/ Lock(c) \/ SetConfig(c) \/ UpdateSites(c) \/ KeepServer(c) \/ listenStop(c)
    \/ NoServerYet(c) \/ StopServer(c) \/ Drain(c) \/ CloseListener(c)
    \/ listenStart(c) \/ UpdateDone(c)
    \/ StopRunning(c) \/ VisitServer(c) \/ ResetServers(c)
    \/ DropPool(c) \/ DropMan(c) \/ Notify(c)

\* The steps of serve(srv), the failures nobody owes aside.
Go(s) ==
    \/ Listen(s) \/ ListenFails(s) \/ Serve(s) \/ Track(s) \/ AcceptFails(s)
    \/ CleanupFinds(s) \/ CleanupMisses(s) \/ CleanupDeletes(s)

Next ==
    \/ \E c \in Callers : Start(c) \/ UpdateConfig(c) \/ Close(c) \/ Step(c)
    \/ \E s \in Servers : Go(s) \/ Accept(s) \/ ConnDone(s)

Spec == Init /\ [][Next]_vars

\* The scheduler runs every goroutine.  Nothing obliges a caller to call, a
\* connection to come, or a client to be done with the one it has.
Fairness ==
    /\ \A c \in Callers : WF_vars(Step(c))
    /\ \A s \in Servers : WF_vars(Go(s))

FairSpec == Spec /\ Fairness

-----------------------------------------------------------------------------
(* What the group promises. *)

Serving(s) == at[s] = "accept" /\ port[laddr[s]] = s

\* No caller is between taking configMu and giving it back.
Settled == configMu = Free

\* A group that was closed has no server registered, although Start sets run
\* without the lock and UpdateConfig may have been waiting for it.
StoppedHasNoServers == (~run /\ Settled) => \A a \in Addrs : srvMan[a] = NoSrv

\* A server that was shut down accepts nothing any more, at whatever point of
\* its Listen and Serve the Close reached it.
ShutDownNeverServes ==
    \A s \in Servers : inShutdown[s] /\ ~(\E c \in Callers : old[c] = s) => ~Serving(s)

\* What is registered between two calls is what the configuration asks for,
\* although old servers of the same address are still on their way out.
RegisteredIsConfigured ==
    (run /\ Settled /\ config # NoConf) =>
        \A a \in Addrs : srvMan[a] # NoSrv => setting[srvMan[a]] = config[a]

\* A registration stands for a server that is on its way up, serves, or is about
\* to take the registration off itself.
RegisteredIsAlive ==
    \A a \in Addrs : srvMan[a] # NoSrv => at[srvMan[a]] # "none" /\ laddr[srvMan[a]] = a

\* The cleanup of an old server "does not delete the new registration": a server
\* that accepts connections can be found, so listenStop and Close reach it.
ServingIsRegistered ==
    \A s \in Servers :
        Serving(s) => srvMan[laddr[s]] = s \/ \E c \in Callers : old[c] = s

\* A Start whose group was closed returns: the comments on Start and on the
\* notification of Close.
StartReturns == \A c \in Callers : (pc[c] = "wait" /\ ~run) ~> (pc[c] # "wait")

\* A graceful Shutdown waits for a connection in use.
WaitsForClient(c) == pc[c] = "drain" /\ busy[old[c]]

\* UpdateConfig and Close give configMu back, or come to wait for a client, in a
\* Shutdown that has no timeout (Server.go:940): nothing else keeps the lock for
\* good.
LockIsReleased ==
    (configMu # Free) ~>
        (configMu = Free \/ panicked \/ WaitsForClient(configMu))

\* The goroutine of a server that was shut down, gracefully or at once
\* (Server.go:944), by an update or by Close, comes to its end, and its port is
\* free again, whatever connections stay in use.
StoppedServerEnds ==
    \A s \in Servers :
        inShutdown[s] ~> ((at[s] = "none" /\ \A a \in Addrs : port[a] # s) \/ panicked)
=============================================================================
