----------------------------- MODULE ProxyControl -----------------------------
(***************************************************************************)
(* The launcher's control of the engine (netmonitor-gui/main.go): the      *)
(* handlers of /proxy-engine/start, /proxy-engine/stop,                    *)
(* /applications/launch and /exit, the network state they share            *)
(* (configureTunNetwork, ensureProxyBypassRoute, cleanupTunNetwork) and    *)
(* the Windows routing table it stands for, on top of TunEngine.           *)
(*                                                                         *)
(* net/http runs every request in a goroutine of its own.  The start and   *)
(* stop handlers hold proxyEngineMu; the launch and exit handlers do not,  *)
(* and nothing protects proxyEngineRunning and networkState from them.     *)
(* Overlap says whether a launch or exit request may be in progress        *)
(* together with another request.                                          *)
(***************************************************************************)
EXTENDS TunEngine

CONSTANTS
  Overlap,     \* may a launch or exit request overlap another request
  MaxRequests, \* bound: requests served in one behaviour
  NoPid        \* a request that has started no process

ASSUME ControlAssumption ==
  /\ Overlap \in BOOLEAN
  /\ MaxRequests \in Nat
  /\ MaxRequests <= MaxEpoch
  /\ NoPid \notin Pids

VARIABLES
  proxyEngineMu,      \* the request that holds proxyEngineMu
  proxyEngineRunning,
  networkState,       \* the tunNetworkState and whether there is one
  hostRoutes,         \* host routes in the routing table: <<host, gateway>>
  defaultRoute,       \* is 0.0.0.0/0 routed into the TUN device
  undeleted,          \* what is left by route commands that failed to delete
  live,               \* processes started by launches that still run
  launched,           \* the processes of launchedApps
  exited,             \* os.Exit was called
  requests,           \* requests begun
  pc,                 \* what each request does next: "idle" between requests
  kind,               \* the handler it runs
  proxy,              \* its app.Proxy, or config.Proxies[0].URL
  autostart,          \* a launch that found the engine not running
  gateway,            \* the gateway its configureTunNetwork read
  pid                 \* the process its launch started

routeVars   == <<networkState, hostRoutes, defaultRoute, undeleted>>
processVars == <<live, launched>>
requestVars == <<requests, kind, proxy, autostart, gateway, pid>>
controlVars == <<proxyEngineMu, proxyEngineRunning, routeVars, processVars,
                 exited, pc, requestVars>>
vars        == <<engineVars, controlVars>>

Kinds    == {"start", "stop", "launch", "bridge", "exit"}
Gateways == {"lan", "tun"}

Stages ==
  {"idle", "lockStart", "lockStop", "check", "insert", "start", "starting",
   "enable", "network", "address", "addHost", "addDefault", "store",
   "addBypass", "storeBypass", "undo", "setRunning", "spawn", "bind",
   "register", "stopEngine", "closeApps", "delDefault", "delHosts",
   "clearNetwork", "clearRunning", "osExit"}

(* A proxy stands for its host: two proxies on one host share its route.    *)
NetworkState == [up : BOOLEAN, gateway : Gateways, hosts : SUBSET Proxies]
Nil == [up |-> FALSE, gateway |-> "lan", hosts |-> {}]

(* Of host routes those whose last DELETE failed, and whether the default   *)
(* route has ever outlived its own.  A history: no action depends on it.    *)
Undeleted == [hosts : SUBSET (Proxies \X Gateways), default : BOOLEAN]

ControlTypeOK ==
  /\ proxyEngineMu \in Threads \union {NoThread}
  /\ proxyEngineRunning \in BOOLEAN
  /\ networkState \in NetworkState
  /\ hostRoutes \subseteq Proxies \X Gateways
  /\ defaultRoute \in BOOLEAN
  /\ undeleted \in Undeleted
  /\ live \subseteq Pids
  /\ launched \subseteq Pids
  /\ exited \in BOOLEAN
  /\ requests \in 0..MaxRequests
  /\ pc \in [Threads -> Stages]
  /\ kind \in [Threads -> Kinds]
  /\ proxy \in [Threads -> Proxies \union {NoProxy}]
  /\ autostart \in [Threads -> BOOLEAN]
  /\ gateway \in [Threads -> Gateways]
  /\ pid \in [Threads -> Pids \union {NoPid}]

TypeOK == EngineTypeOK /\ ControlTypeOK

Init ==
  /\ EngineInit
  /\ proxyEngineMu = NoThread
  /\ proxyEngineRunning = FALSE
  /\ networkState = Nil
  /\ hostRoutes = {}
  /\ defaultRoute = FALSE
  /\ undeleted = [hosts |-> {}, default |-> FALSE]
  /\ live = {}
  /\ launched = {}
  /\ exited = FALSE
  /\ requests = 0
  /\ pc = [t \in Threads |-> "idle"]
  /\ kind = [t \in Threads |-> "stop"]
  /\ proxy = [t \in Threads |-> NoProxy]
  /\ autostart = [t \in Threads |-> FALSE]
  /\ gateway = [t \in Threads |-> "lan"]
  /\ pid = [t \in Threads |-> NoPid]

-----------------------------------------------------------------------------
At(t, stg)   == ~exited /\ pc[t] = stg
Goto(t, stg) == pc' = [pc EXCEPT ![t] = stg]
Launching(t) == kind[t] \in {"launch", "bridge"}

(* Mutation of Return: no deferred Unlock.                                  *)
ReturnLocked(t) == Goto(t, "idle") /\ UNCHANGED proxyEngineMu

(* The handler returns; its deferred Unlock runs when it took the mutex.    *)
Return(t) ==
  /\ Goto(t, "idle")
  /\ proxyEngineMu' = IF proxyEngineMu = t THEN NoThread ELSE proxyEngineMu

Locals == <<requests, kind, proxy, autostart, gateway, pid>>
World  == <<proxyEngineRunning, routeVars, processVars, exited>>

FirstStage(k) ==
  IF k = "start" THEN "lockStart"
  ELSE IF k = "stop" THEN "lockStop"
  ELSE IF k = "exit" THEN "closeApps"
  ELSE "check"

(* A request arrives and net/http starts its handler; p is the proxy of the *)
(* application, or the first one of the configuration it loads.             *)
Begin(t, k, p) ==
  /\ At(t, "idle")
  /\ requests < MaxRequests
  /\ Overlap \/ \A u \in Threads :
                  pc[u] = "idle" \/ {k, kind[u]} \subseteq {"start", "stop"}
  /\ requests' = requests + 1
  /\ kind' = [kind EXCEPT ![t] = k]
  /\ proxy' = [proxy EXCEPT ![t] = p]
  /\ autostart' = [autostart EXCEPT ![t] = FALSE]
  /\ pid' = [pid EXCEPT ![t] = NoPid]
  /\ Goto(t, FirstStage(k))
  /\ UNCHANGED <<gateway, proxyEngineMu, World, engineVars>>

(* handleProxyEngineStart takes proxyEngineMu; 409 when already running.    *)
LockStart(t) ==
  /\ At(t, "lockStart")
  /\ proxyEngineMu = NoThread
  /\ IF proxyEngineRunning
       THEN Return(t)
       ELSE Goto(t, "insert") /\ proxyEngineMu' = t
  /\ UNCHANGED <<World, Locals, engineVars>>

(* handleProxyEngineStop takes proxyEngineMu; nothing to do when stopped.   *)
LockStop(t) ==
  /\ At(t, "lockStop")
  /\ proxyEngineMu = NoThread
  /\ IF proxyEngineRunning
       THEN Goto(t, "stopEngine") /\ proxyEngineMu' = t
       ELSE Return(t)
  /\ UNCHANGED <<World, Locals, engineVars>>

(* handleLaunchApplication reads proxyEngineRunning, with no lock.          *)
CheckRunning(t) ==
  /\ At(t, "check")
  /\ \/ proxyEngineRunning /\ Goto(t, "network") /\ UNCHANGED autostart
     \/ /\ ~proxyEngineRunning
        /\ kind[t] = "launch"
        /\ autostart' = [autostart EXCEPT ![t] = TRUE]
        /\ Goto(t, "insert")
     \/ ~proxyEngineRunning /\ kind[t] # "launch" /\ Goto(t, "spawn") /\ UNCHANGED autostart
  /\ UNCHANGED <<requests, kind, proxy, gateway, pid, proxyEngineMu, World, engineVars>>

(* engine.Insert, then engine.StartWithError in the steps of TunEngine.     *)
InsertKey(t) ==
  /\ At(t, "insert")
  /\ Insert(proxy[t])
  /\ Goto(t, "start")
  /\ UNCHANGED <<proxyEngineMu, World, Locals>>

StartEngine(t) ==
  /\ At(t, "start")
  /\ \/ StartSelect(t) /\ Goto(t, "starting") /\ UNCHANGED proxyEngineMu
     \/ StartRefused /\ Return(t)
  /\ UNCHANGED <<World, Locals>>

StartNetstack(t) ==
  /\ At(t, "starting")
  /\ \/ OpenDevice(t) /\ UNCHANGED <<pc, proxyEngineMu>>
     \/ CreateStack(t) /\ Goto(t, "enable") /\ UNCHANGED proxyEngineMu
     \/ (OpenDeviceFails(t) \/ CreateStackFails(t)) /\ Return(t)
  /\ UNCHANGED <<World, Locals>>

(* Mutation of EnableRouting: EnablePIDRouting is not called.               *)
SkipRouting(t) ==
  /\ At(t, "enable")
  /\ Goto(t, IF kind[t] = "start" THEN "setRunning" ELSE "network")
  /\ UNCHANGED <<proxyEngineMu, World, Locals, engineVars>>

(* EnablePIDRouting; only a launch goes on to configure the network.        *)
EnableRouting(t) ==
  /\ At(t, "enable")
  /\ EnablePIDRouting
  /\ Goto(t, IF kind[t] = "start" THEN "setRunning" ELSE "network")
  /\ UNCHANGED <<proxyEngineMu, World, Locals>>

SetRunning(t) ==
  /\ At(t, "setRunning")
  /\ proxyEngineRunning' = TRUE
  /\ IF kind[t] = "start"
       THEN Return(t)
       ELSE Goto(t, "spawn") /\ UNCHANGED proxyEngineMu
  /\ UNCHANGED <<routeVars, processVars, exited, Locals, engineVars>>

-----------------------------------------------------------------------------
(* configureTunNetwork and ensureProxyBypassRoute call each other on        *)
(* whether networkState is nil: one read decides which of them works.       *)
Configured(t) == IF autostart[t] THEN "setRunning" ELSE "spawn"

(* Mutation of NetworkFails: the engine that was started stays.             *)
NetworkFailsOnly(t) == Return(t)

(* A launch that started the engine for itself stops it again.              *)
NetworkFails(t) ==
  IF autostart[t]
    THEN Goto(t, "undo") /\ UNCHANGED proxyEngineMu
    ELSE Return(t)

(* Mutation of ReadNetwork: the network is configured again each time.      *)
ReadNothing(t) ==
  /\ At(t, "network")
  /\ Goto(t, "address")
  /\ UNCHANGED <<proxyEngineMu, World, Locals, engineVars>>

ReadNetwork(t) ==
  /\ At(t, "network")
  /\ Goto(t, IF ~networkState.up THEN "address"
             ELSE IF proxy[t] \in networkState.hosts THEN Configured(t) ELSE "addBypass")
  /\ UNCHANGED <<proxyEngineMu, World, Locals, engineVars>>

(* proxyHost, defaultGateway and the two netsh settings of the adapter.     *)
(* The gateway is that of a default route that has one: the LAN's, or the   *)
(* TUN device's own when the default route into it is already there.        *)
SetAddress(t) ==
  /\ At(t, "address")
  /\ \/ /\ openDevices # {}
        /\ \E g \in IF defaultRoute THEN Gateways ELSE {"lan"} :
             gateway' = [gateway EXCEPT ![t] = g]
        /\ Goto(t, "addHost")
        /\ UNCHANGED proxyEngineMu
     \/ NetworkFails(t) /\ UNCHANGED gateway
  /\ UNCHANGED <<requests, kind, proxy, autostart, pid, World, engineVars>>

(* route ADD of the bypass route r.                                         *)
AddRoute(r) ==
  /\ hostRoutes' = hostRoutes \union {r}
  /\ undeleted' = [undeleted EXCEPT !.hosts = @ \ {r}]

(* route DELETE of each host in H.  Nobody looks at its error: any of them  *)
(* may fail and leave its routes.                                           *)
DeleteRoutesTo(H) ==
  \E failed \in SUBSET H :
    LET kept == {r \in hostRoutes : r[1] \in H => r[1] \in failed}
    IN  /\ hostRoutes' = kept
        /\ undeleted' = [undeleted EXCEPT
                           !.hosts = {r \in kept : r[1] \in failed \/ r \in undeleted.hosts}]

AddHostRoute(t) ==
  /\ At(t, "addHost")
  /\ \/ AddRoute(<<proxy[t], gateway[t]>>) /\ Goto(t, "addDefault") /\ UNCHANGED proxyEngineMu
     \/ NetworkFails(t) /\ UNCHANGED <<hostRoutes, undeleted>>
  /\ UNCHANGED <<networkState, defaultRoute, proxyEngineRunning, processVars, exited>>
  /\ UNCHANGED <<Locals, engineVars>>

AddDefaultRoute(t) ==
  /\ At(t, "addDefault")
  /\ \/ /\ openDevices # {}
        /\ defaultRoute' = TRUE
        /\ Goto(t, "store")
        /\ UNCHANGED <<hostRoutes, undeleted, proxyEngineMu>>
     \/ NetworkFails(t) /\ DeleteRoutesTo({proxy[t]}) /\ UNCHANGED defaultRoute
  /\ UNCHANGED <<networkState, proxyEngineRunning, processVars, exited>>
  /\ UNCHANGED <<Locals, engineVars>>

StoreNetwork(t) ==
  /\ At(t, "store")
  /\ networkState' = [up |-> TRUE, gateway |-> gateway[t], hosts |-> {proxy[t]}]
  /\ Goto(t, Configured(t))
  /\ UNCHANGED <<hostRoutes, defaultRoute, undeleted, proxyEngineRunning, processVars, exited>>
  /\ UNCHANGED <<proxyEngineMu, Locals, engineVars>>

(* Mutation of StoreBypass: the host is not recorded.                       *)
ForgetBypass(t) ==
  /\ At(t, "storeBypass")
  /\ Goto(t, Configured(t))
  /\ UNCHANGED <<proxyEngineMu, World, Locals, engineVars>>

(* A networkState that has become nil is dereferenced: the handler panics   *)
(* and net/http ends the request.                                           *)
AddBypassRoute(t) ==
  /\ At(t, "addBypass")
  /\ \/ /\ networkState.up
        /\ AddRoute(<<proxy[t], networkState.gateway>>)
        /\ Goto(t, "storeBypass")
        /\ UNCHANGED proxyEngineMu
     \/ /\ networkState.up
        /\ NetworkFails(t)
        /\ UNCHANGED <<hostRoutes, undeleted>>
     \/ ~networkState.up /\ Return(t) /\ UNCHANGED <<hostRoutes, undeleted>>
  /\ UNCHANGED <<networkState, defaultRoute, proxyEngineRunning, processVars, exited>>
  /\ UNCHANGED <<Locals, engineVars>>

StoreBypass(t) ==
  /\ At(t, "storeBypass")
  /\ \/ /\ networkState.up
        /\ networkState' = [up |-> TRUE, gateway |-> networkState.gateway,
                           hosts |-> networkState.hosts \union {proxy[t]}]
        /\ Goto(t, Configured(t))
        /\ UNCHANGED proxyEngineMu
     \/ ~networkState.up /\ Return(t) /\ UNCHANGED networkState
  /\ UNCHANGED <<hostRoutes, defaultRoute, undeleted, proxyEngineRunning, processVars, exited>>
  /\ UNCHANGED <<Locals, engineVars>>

(* The default route into the TUN device goes when the last device closes.  *)
StopAndDropRoute ==
  /\ StopEngine
  /\ defaultRoute' = IF openDevices' = {} THEN FALSE ELSE defaultRoute
  /\ UNCHANGED <<networkState, hostRoutes, undeleted>>

(* A launch that could not configure the network stops the engine again.    *)
UndoStart(t) ==
  /\ At(t, "undo")
  /\ StopAndDropRoute
  /\ Return(t)
  /\ UNCHANGED <<proxyEngineRunning, processVars, exited, Locals>>

(* Mutation of Spawn: the error of cmd.Start is not looked at.              *)
SpawnUnchecked(t) ==
  /\ At(t, "spawn")
  /\ \/ \E q \in Pids \ live :
          /\ live' = live \union {q}
          /\ pid' = [pid EXCEPT ![t] = q]
     \/ UNCHANGED <<live, pid>>
  /\ Goto(t, IF kind[t] = "launch" THEN "bind" ELSE "register")
  /\ UNCHANGED <<requests, kind, proxy, autostart, gateway, proxyEngineMu>>
  /\ UNCHANGED <<launched, proxyEngineRunning, routeVars, exited, engineVars>>

-----------------------------------------------------------------------------
(* cmd.Start: a new process with a pid no running process has.              *)
Spawn(t) ==
  /\ At(t, "spawn")
  /\ \/ \E q \in Pids \ live :
          /\ live' = live \union {q}
          /\ pid' = [pid EXCEPT ![t] = q]
          /\ Goto(t, IF kind[t] = "launch" THEN "bind" ELSE "register")
          /\ UNCHANGED proxyEngineMu
     \/ Return(t) /\ UNCHANGED <<live, pid>>
  /\ UNCHANGED <<requests, kind, proxy, autostart, gateway>>
  /\ UNCHANGED <<launched, proxyEngineRunning, routeVars, exited, engineVars>>

(* Mutation of Bind: the error of SetPIDProxy is not looked at.             *)
BindUnchecked(t) ==
  /\ At(t, "bind")
  /\ SetPIDProxy(pid[t], proxy[t]) \/ SetPIDProxyRefused(proxy[t])
  /\ Goto(t, "register")
  /\ UNCHANGED <<proxyEngineMu, World, Locals>>

(* engine.SetPIDProxy; when it fails the process is left running.           *)
Bind(t) ==
  /\ At(t, "bind")
  /\ \/ SetPIDProxy(pid[t], proxy[t]) /\ Goto(t, "register") /\ UNCHANGED proxyEngineMu
     \/ SetPIDProxyRefused(proxy[t]) /\ Return(t)
  /\ UNCHANGED <<World, Locals>>

Register(t) ==
  /\ At(t, "register")
  /\ launched' = launched \union {pid[t]}
  /\ Return(t)
  /\ UNCHANGED <<live, proxyEngineRunning, routeVars, exited, Locals, engineVars>>

(* A launched process ends by itself; its monitor then drops it.            *)
ProcessEnds(q) ==
  /\ ~exited
  /\ q \in live
  /\ live' = live \ {q}
  /\ UNCHANGED <<launched, proxyEngineMu, proxyEngineRunning, routeVars, exited>>
  /\ UNCHANGED <<pc, Locals, engineVars>>

MonitorDrops(q) ==
  /\ ~exited
  /\ q \in launched \ live
  /\ launched' = launched \ {q}
  /\ UNCHANGED <<live, proxyEngineMu, proxyEngineRunning, routeVars, exited>>
  /\ UNCHANGED <<pc, Locals, engineVars>>

-----------------------------------------------------------------------------
(* handleProxyEngineStop and the /exit and /restart handlers.               *)
StopRunning(t) ==
  /\ At(t, "stopEngine")
  /\ StopAndDropRoute
  /\ Goto(t, "closeApps")
  /\ UNCHANGED <<proxyEngineMu, proxyEngineRunning, processVars, exited, Locals>>

(* shutdownLaunchedApplications, the detail of which is in LaunchRegistry:  *)
(* some of the launched processes are closed, a taskkill may fail.          *)
CloseApps(t) ==
  /\ At(t, "closeApps")
  /\ \E closed \in SUBSET launched : live' = live \ closed
  /\ Goto(t, "delDefault")
  /\ UNCHANGED <<launched, proxyEngineMu, proxyEngineRunning, routeVars, exited>>
  /\ UNCHANGED <<Locals, engineVars>>

AfterCleanup(t) == IF kind[t] = "stop" THEN "clearRunning" ELSE "osExit"

(* cleanupTunNetwork: three steps, and nothing when networkState is nil.    *)
(* The error of the first command is discarded like those of the others.    *)
DeleteDefaultRoute(t) ==
  /\ At(t, "delDefault")
  /\ \/ networkState.up /\ defaultRoute' = FALSE /\ Goto(t, "delHosts") /\ UNCHANGED undeleted
     \/ /\ networkState.up
        /\ undeleted' = [undeleted EXCEPT !.default = @ \/ defaultRoute]
        /\ Goto(t, "delHosts")
        /\ UNCHANGED defaultRoute
     \/ ~networkState.up /\ Goto(t, AfterCleanup(t)) /\ UNCHANGED <<defaultRoute, undeleted>>
  /\ UNCHANGED <<networkState, hostRoutes, processVars, proxyEngineRunning, exited>>
  /\ UNCHANGED <<proxyEngineMu, Locals, engineVars>>

DeleteHostRoutes(t) ==
  /\ At(t, "delHosts")
  /\ DeleteRoutesTo(networkState.hosts)
  /\ Goto(t, "clearNetwork")
  /\ UNCHANGED <<networkState, defaultRoute, processVars, proxyEngineRunning, exited>>
  /\ UNCHANGED <<proxyEngineMu, Locals, engineVars>>

ClearNetwork(t) ==
  /\ At(t, "clearNetwork")
  /\ networkState' = Nil
  /\ Goto(t, AfterCleanup(t))
  /\ UNCHANGED <<hostRoutes, defaultRoute, undeleted, processVars, proxyEngineRunning, exited>>
  /\ UNCHANGED <<proxyEngineMu, Locals, engineVars>>

ClearRunning(t) ==
  /\ At(t, "clearRunning")
  /\ proxyEngineRunning' = FALSE
  /\ Return(t)
  /\ UNCHANGED <<processVars, routeVars, exited, Locals, engineVars>>

(* os.Exit ends every goroutine; the TUN device goes with the process.      *)
OsExit(t) ==
  /\ At(t, "osExit")
  /\ exited' = TRUE
  /\ defaultRoute' = FALSE
  /\ Goto(t, "idle")
  /\ UNCHANGED <<networkState, hostRoutes, undeleted, processVars, proxyEngineRunning>>
  /\ UNCHANGED <<proxyEngineMu, Locals, engineVars>>

-----------------------------------------------------------------------------
EngineStep(t) ==
  InsertKey(t) \/ StartEngine(t) \/ StartNetstack(t) \/ EnableRouting(t) \/ SetRunning(t)

NetworkStep(t) ==
  \/ ReadNetwork(t) \/ SetAddress(t) \/ AddHostRoute(t) \/ AddDefaultRoute(t)
  \/ StoreNetwork(t) \/ AddBypassRoute(t) \/ StoreBypass(t) \/ UndoStart(t)

LaunchStep(t) == CheckRunning(t) \/ Spawn(t) \/ Bind(t) \/ Register(t)

CloseStep(t) ==
  \/ StopRunning(t) \/ CloseApps(t) \/ DeleteDefaultRoute(t) \/ DeleteHostRoutes(t)
  \/ ClearNetwork(t) \/ ClearRunning(t) \/ OsExit(t)

LockStep(t) == LockStart(t) \/ LockStop(t)

Step(t) == EngineStep(t) \/ NetworkStep(t) \/ LaunchStep(t) \/ CloseStep(t)

Next ==
  \/ \E t \in Threads, k \in Kinds, p \in Proxies : Begin(t, k, p)
  \/ \E t \in Threads : LockStep(t) \/ Step(t)
  \/ \E q \in Pids : ProcessEnds(q) \/ MonitorDrops(q)

Spec == Init /\ [][Next]_vars

(* The Go scheduler runs every goroutine that can run; sync.Mutex hands the *)
(* lock to a goroutine that has waited, so a waiter gets a mutex that is    *)
(* released again and again.                                                *)
Fairness == \A t \in Threads : SF_vars(Step(t)) /\ SF_vars(LockStep(t))

FairSpec == Spec /\ Fairness

-----------------------------------------------------------------------------
(* The system's traffic goes to the engine: the default route leads into    *)
(* the TUN device and a stack serves it.                                    *)
Diverting == defaultRoute /\ openStacks # {}

(* README.md:12, engine.go netstack, main.go handleLaunchApplication: while *)
(* the system's traffic goes through the tunnel, the tunnel dials by pid,   *)
(* never with the global proxy that netstack() puts there first; unless     *)
(* the default route has outlived its deletion, into a device that a failed *)
(* start left open.                                                         *)
UnrelatedGoDirect == Diverting => tunnelProxy.kind = "router" \/ undeleted.default

AtRest == \A t \in Threads : pc[t] = "idle"

(* README.md:12, main.go handleLaunchApplication: the same where it matters  *)
(* most, when no request is in progress that could still put it right.      *)
UnrelatedGoDirectAtRest == AtRest /\ Diverting => tunnelProxy.kind = "router"

(* README.md:12, engine.go StartWithError and EnablePIDRouting, main.go     *)
(* handlers: whatever requests overlap, start() on an engine that serves or *)
(* routes already is the only way to leave the global proxy with a serving  *)
(* stack once every handler is done.                                        *)
GlobalOnlyByDoubleStart ==
  AtRest /\ tunnelProxy = Global /\ openStacks # {} => doubleStart

(* main.go handleLaunchApplication: a launch about to record its process    *)
(* and answer 204 has it bound to its proxy in the router the tunnel uses.  *)
RegisteringBound ==
  \A t \in Threads :
    pc[t] = "register" /\ kind[t] = "launch" =>
      /\ pidRouter # 0
      /\ tunnelProxy = Router(pidRouter)
      /\ targets[pidRouter][pid[t]] = proxy[t]

(* main.go configureTunNetwork: the bypass route of a proxy leads to the    *)
(* LAN's gateway, never back into the tunnel, unless the default route has  *)
(* outlived its deletion.                                                   *)
NoProxyLoop == \A r \in hostRoutes : r[2] = "lan" \/ undeleted.default

(* main.go networkState: every host route in the routing table is known to  *)
(* networkState, so that cleanupTunNetwork will try to delete it, or to a   *)
(* request that is about to record it, or is one whose deletion failed;     *)
(* only such are left at exit.                                              *)
RoutesTracked ==
  /\ \A r \in hostRoutes \ undeleted.hosts :
       \/ r[1] \in networkState.hosts
       \/ \E t \in Threads :
            proxy[t] = r[1] /\ pc[t] \in {"addDefault", "store", "storeBypass"}
  /\ exited => hostRoutes \subseteq undeleted.hosts

StopInProgress ==
  \E t \in Threads :
    pc[t] \in {"closeApps", "delDefault", "delHosts", "clearNetwork", "clearRunning", "osExit"}

(* main.go proxyEngineRunning: what the status handler and the launch       *)
(* handler read is so. Running: a stack serves and the tunnel dials by the  *)
(* router launches write to. Not running, and nobody at work on it: no      *)
(* stack serves, whatever start failed or was undone, there is no router    *)
(* and no network state, and no route whose deletion did not fail.          *)
RunningIsSo ==
  /\ proxyEngineRunning /\ ~exited /\ ~StopInProgress =>
       /\ stack \in openStacks
       /\ pidRouter # 0
       /\ tunnelProxy = Router(pidRouter)
  /\ ~proxyEngineRunning /\ ~exited /\ AtRest =>
       /\ openStacks = {}
       /\ pidRouter = 0
       /\ networkState = Nil
       /\ hostRoutes \subseteq undeleted.hosts
       /\ defaultRoute => undeleted.default

(* main.go, all handlers: every request is answered, unless os.Exit comes   *)
(* first: no handler waits forever for proxyEngineMu or _engineMu.          *)
RequestsAnswered ==
  \A t \in Threads : pc[t] # "idle" ~> pc[t] = "idle" \/ exited
=============================================================================
