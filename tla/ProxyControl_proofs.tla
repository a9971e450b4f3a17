------------------------ MODULE ProxyControl_proofs ------------------------
(***************************************************************************)
(* Proofs about TunEngine and ProxyControl.  Whatever requests overlap,    *)
(* the engine's own invariants hold, and a stack is left with the global   *)
(* proxy only by a start() on an engine that served or routed already.     *)
(* When launch and exit requests do not overlap another request (start and *)
(* stop requests may overlap each other), unrelated traffic never meets    *)
(* the global proxy, proxyEngineRunning tells the truth and no route is    *)
(* lost whose deletion did not fail, for any number of requests, proxies   *)
(* and processes.                                                          *)
(***************************************************************************)
EXTENDS ProxyControl, TLAPS

-----------------------------------------------------------------------------
(* TunEngine: its type invariant, that no replaced PID router is ever in   *)
(* use and that a serving stack has its device, for any number of callers, *)
(* in any order of calls and failures.                                     *)

(* The inductive invariant. stop() closes what two separate globals name,  *)
(* so StacksHaveDevices needs to know that they name a matching pair, or   *)
(* that one of them is nil and the other does not serve.                   *)
EngineInv ==
  /\ EngineTypeOK
  /\ NoStaleRouter
  /\ StacksHaveDevices
  /\ engineMu = NoThread <=> stage = "free"
  /\ stage # "free" => starts > 0 /\ starts \notin openStacks
  /\ stage = "stack" => device = starts /\ starts \in openDevices
  /\ stage = "free" /\ device \in openStacks => stack = device
  /\ \A s \in openStacks : s <= starts

LEMMA EngineInvInit == EngineInit => EngineInv
<1>1. EngineInit => doubleStart \in BOOLEAN
  BY DEF EngineInit
<1>2. QED
  BY <1>1, EngineAssumption DEF EngineInit, EngineInv, EngineTypeOK, NoStaleRouter,
     StacksHaveDevices, TunnelProxy, Reject, Epoch, NoTargets

LEMMA EngineInvStep == EngineInv /\ [EngineNext]_engineVars => EngineInv'
<1> SUFFICES ASSUME EngineInv, [EngineNext]_engineVars
             PROVE  EngineInv'
  OBVIOUS
<1> USE EngineAssumption DEF EngineInv, EngineTypeOK, NoStaleRouter, StacksHaveDevices,
        Epoch, TunnelProxy, tunnelVars, deviceVars
<1>1. ASSUME NEW p \in Proxies, Insert(p) PROVE EngineInv'
  BY <1>1 DEF Insert
<1>2. ASSUME NEW t \in Threads, StartSelect(t) PROVE EngineInv'
  BY <1>2 DEF StartSelect, Global, Free
<1>3. ASSUME NEW t \in Threads, OpenDevice(t) PROVE EngineInv'
  BY <1>3 DEF OpenDevice
<1>4. ASSUME NEW t \in Threads, StartReturns(t) PROVE EngineInv'
  <2>1. CASE OpenDeviceFails(t)
    BY <2>1 DEF OpenDeviceFails
  <2>2. CASE CreateStack(t)
    BY <2>2 DEF CreateStack
  <2>3. CASE CreateStackFails(t)
    BY <2>3 DEF CreateStackFails
  <2>4. QED BY <1>4, <2>1, <2>2, <2>3 DEF StartReturns
<1>5. CASE EnablePIDRouting
  BY <1>5 DEF EnablePIDRouting, Router
<1>6. ASSUME NEW q \in Pids, NEW p \in Proxies, SetPIDProxy(q, p)
      PROVE  EngineInv'
  BY <1>6 DEF SetPIDProxy
<1>7. CASE StopEngine
  BY <1>7 DEF StopEngine, Free
<1>8. CASE UNCHANGED engineVars
  BY <1>8 DEF engineVars
<1>9. QED
  BY <1>1, <1>2, <1>3, <1>4, <1>5, <1>6, <1>7, <1>8 DEF EngineNext

LEMMA EngineInvariant == EngineSpec => []EngineInv
BY EngineInvInit, EngineInvStep, PTL DEF EngineSpec

(* TunEngine, all operations: the state of the engine stays in its type.   *)
THEOREM EngineTypeCorrect == EngineSpec => []EngineTypeOK
<1>1. EngineInv => EngineTypeOK
  BY DEF EngineInv
<1>2. QED BY <1>1, EngineInvariant, PTL

(* engine.go, netstack and EnablePIDRouting: the tunnel and SetPIDProxy     *)
(* only ever use the newest PID router, in every order of calls.            *)
THEOREM RouterNeverStale == EngineSpec => []NoStaleRouter
<1>1. EngineInv => NoStaleRouter
  BY DEF EngineInv
<1>2. QED BY <1>1, EngineInvariant, PTL

(* engine.go, start and stop: a serving stack always has its device, with   *)
(* half-failed starts, repeated starts and stops in every order.            *)
THEOREM ServingStacksHaveDevices == EngineSpec => []StacksHaveDevices
<1>1. EngineInv => StacksHaveDevices
  BY DEF EngineInv
<1>2. QED BY <1>1, EngineInvariant, PTL

-----------------------------------------------------------------------------
(* ProxyControl.                                                           *)

(* What every request knows of its own parameters, whatever overlaps.      *)
RequestInv ==
  /\ ControlTypeOK
  /\ \A t \in Threads : pc[t] # "idle" => proxy[t] \in Proxies
  /\ \A t \in Threads : pc[t] \in {"bind", "register"} => pid[t] \in Pids
  /\ \A t \in Threads : autostart[t] => kind[t] = "launch"

-----------------------------------------------------------------------------
(* The inductive invariant of serialised launches: at most one request is  *)
(* past its mutex, and for each stage it may be in, what the engine, the   *)
(* network state and the routing table look like.                          *)
Busy(t) == pc[t] \notin {"idle", "lockStart", "lockStop"}

EngineUp ==
  /\ pidRouter # 0
  /\ tunnelProxy = Router(pidRouter)
  /\ openStacks = {stack}

(* Every host route is one whose deletion failed, or leads to a host in H;  *)
(* and none leads into the tunnel as long as the default route can go.      *)
RoutesTo(H) ==
  \A r \in hostRoutes :
    /\ r \in undeleted.hosts \/ r[1] \in H
    /\ r[2] = "lan" \/ undeleted.default

NetworkDown ==
  /\ networkState = Nil
  /\ RoutesTo({})
  /\ defaultRoute => undeleted.default

NetworkUp ==
  /\ networkState.up
  /\ networkState.gateway = "lan" \/ undeleted.default
  /\ RoutesTo(networkState.hosts)
  /\ defaultRoute => tunnelProxy.kind = "router" \/ undeleted.default

NetworkSound == NetworkDown \/ NetworkUp

EngineDown == ~proxyEngineRunning /\ pidRouter = 0 /\ openStacks = {} /\ NetworkDown

Running == proxyEngineRunning /\ EngineUp /\ NetworkSound

Steady == Running \/ EngineDown

(* What a request finds while it configures the network for the first time. *)
Configuring(t) ==
  /\ EngineUp
  /\ networkState = Nil
  /\ autostart[t] <=> ~proxyEngineRunning

StagePhase(t) ==
  /\ pc[t] \in {"insert", "start", "starting", "enable"} =>
       /\ ~proxyEngineRunning /\ pidRouter = 0 /\ NetworkDown
       /\ kind[t] \in {"start", "launch"}
       /\ autostart[t] <=> kind[t] = "launch"
  /\ pc[t] \in {"insert", "start", "starting"} => openStacks = {}
  /\ pc[t] = "enable" => openStacks = {stack}
  /\ pc[t] = "setRunning" =>
       /\ EngineUp
       /\ NetworkSound
       /\ kind[t] \in {"start", "launch"}
       /\ ~proxyEngineRunning
  /\ pc[t] = "undo" => ~proxyEngineRunning /\ openStacks = {stack} /\ NetworkDown
  /\ pc[t] \in {"stopEngine"} => kind[t] = "stop" /\ Running
  /\ pc[t] = "check" => Launching(t) /\ ~autostart[t] /\ Steady

NetworkPhase(t) ==
  /\ pc[t] \in {"network", "address", "addHost", "addDefault", "store", "addBypass", "storeBypass"}
       => Launching(t)
  /\ pc[t] = "network" =>
       (autostart[t] /\ Configuring(t) /\ NetworkDown) \/ (~autostart[t] /\ Running)
  /\ pc[t] \in {"address", "addHost"} => Configuring(t) /\ NetworkDown
  /\ pc[t] \in {"addHost", "addDefault", "store"} => gateway[t] = "lan" \/ undeleted.default
  /\ pc[t] \in {"addDefault", "store"} => Configuring(t) /\ RoutesTo({proxy[t]})
  /\ pc[t] = "addDefault" => (defaultRoute => undeleted.default)
  /\ pc[t] = "addBypass" => ~autostart[t] /\ Running /\ NetworkUp
  /\ pc[t] = "storeBypass" =>
       /\ ~autostart[t]
       /\ proxyEngineRunning
       /\ EngineUp
       /\ networkState.up
       /\ networkState.gateway = "lan" \/ undeleted.default
       /\ RoutesTo(networkState.hosts \union {proxy[t]})
  /\ pc[t] \in {"spawn", "bind", "register"} =>
       Launching(t) /\ Steady /\ (kind[t] = "launch" => Running)
  /\ pc[t] = "bind" => kind[t] = "launch"
  /\ pc[t] = "register" /\ kind[t] = "launch" => targets[pidRouter][pid[t]] = proxy[t]

ClosePhase(t) ==
  /\ pc[t] \in {"closeApps", "delDefault", "delHosts", "clearNetwork"} =>
       /\ kind[t] \in {"stop", "exit"}
       /\ kind[t] = "stop" => pidRouter = 0 /\ openStacks = {} /\ proxyEngineRunning
  /\ pc[t] \in {"closeApps", "delDefault"} => NetworkSound
  /\ pc[t] = "delHosts" => NetworkUp /\ (defaultRoute => undeleted.default)
  /\ pc[t] = "clearNetwork" => RoutesTo({}) /\ (defaultRoute => undeleted.default)
  /\ pc[t] = "clearRunning" =>
       kind[t] = "stop" /\ pidRouter = 0 /\ openStacks = {} /\ NetworkDown
  /\ pc[t] = "osExit" => NetworkDown

Phase(t) == StagePhase(t) /\ NetworkPhase(t) /\ ClosePhase(t)

(* Who may be in progress together: start and stop requests wait for       *)
(* proxyEngineMu, any other request is alone.                              *)
Exclusive ==
  /\ \A t, u \in Threads :
       t # u /\ pc[t] # "idle" /\ kind[t] \notin {"start", "stop"} => pc[u] = "idle"
  /\ \A t \in Threads : Busy(t) /\ kind[t] \in {"start", "stop"} => proxyEngineMu = t
  /\ \A t \in Threads :
       /\ pc[t] = "lockStart" => kind[t] = "start"
       /\ pc[t] = "lockStop" => kind[t] = "stop"
  /\ \A t, u \in Threads : Busy(t) /\ Busy(u) => t = u

SerialInv ==
  /\ Exclusive
  /\ \A t \in Threads : Busy(t) => Phase(t)
  /\ ~exited /\ (\A t \in Threads : ~Busy(t)) => Steady
  /\ exited => NetworkDown /\ \A t \in Threads : ~Busy(t)

ControlInv == ~Overlap => SerialInv
-----------------------------------------------------------------------------
(* Types, and the parameters of a request, whatever overlaps.              *)
LEMMA RequestInvInit == Init => RequestInv
<1> USE ControlAssumption, EngineAssumption DEF Init
<1>1. Init => networkState \in NetworkState
  BY DEF NetworkState, Nil, Gateways
<1>2. Init => /\ pc \in [Threads -> Stages]
              /\ kind \in [Threads -> Kinds]
              /\ gateway \in [Threads -> Gateways]
  BY DEF Stages, Kinds, Gateways
<1>3. Init => /\ proxy \in [Threads -> Proxies \union {NoProxy}]
              /\ pid \in [Threads -> Pids \union {NoPid}]
              /\ autostart \in [Threads -> BOOLEAN]
  OBVIOUS
<1>4. Init => \A t \in Threads : pc[t] = "idle"
  OBVIOUS
<1>5. Init => /\ proxyEngineMu \in Threads \union {NoThread}
              /\ proxyEngineRunning \in BOOLEAN
              /\ defaultRoute \in BOOLEAN
              /\ exited \in BOOLEAN
  OBVIOUS
<1>6. Init => /\ hostRoutes \subseteq Proxies \X Gateways
              /\ live \subseteq Pids
              /\ launched \subseteq Pids
              /\ requests \in 0..MaxRequests
  OBVIOUS
<1>7. Init => undeleted \in Undeleted
  BY DEF Undeleted
<1>8. QED BY <1>1, <1>2, <1>3, <1>4, <1>5, <1>6, <1>7 DEF RequestInv, ControlTypeOK

(* What adding and deleting routes leaves.                                  *)
LEMMA RoutesAdded ==
  ASSUME ControlTypeOK, NEW H, NEW p \in Proxies, NEW g \in Gateways, AddRoute(<<p, g>>)
  PROVE  /\ hostRoutes' \subseteq Proxies \X Gateways /\ undeleted' \in Undeleted
         /\ undeleted'.default = undeleted.default
         /\ RoutesTo(H) /\ (g = "lan" \/ undeleted.default) => RoutesTo(H \union {p})'
<1>1. undeleted' = [hosts |-> undeleted.hosts \ {<<p, g>>}, default |-> undeleted.default]
  BY DEF AddRoute, ControlTypeOK, Undeleted
<1>2. hostRoutes' = hostRoutes \union {<<p, g>>}
  BY DEF AddRoute
<1>3. QED BY <1>1, <1>2 DEF ControlTypeOK, Undeleted, RoutesTo


LEMMA RoutesDeleted ==
  ASSUME ControlTypeOK, NEW H, DeleteRoutesTo(H)
  PROVE  /\ hostRoutes' \subseteq Proxies \X Gateways /\ undeleted' \in Undeleted
         /\ undeleted'.default = undeleted.default
         /\ RoutesTo(H) => RoutesTo({})'
<1>1. PICK failed \in SUBSET H :
        LET kept == {r \in hostRoutes : r[1] \in H => r[1] \in failed}
        IN  /\ hostRoutes' = kept
            /\ undeleted' = [undeleted EXCEPT
                              !.hosts = {r \in kept : r[1] \in failed \/ r \in undeleted.hosts}]
  BY DEF DeleteRoutesTo
<1> DEFINE kept == {r \in hostRoutes : r[1] \in H => r[1] \in failed}
           left == {r \in kept : r[1] \in failed \/ r \in undeleted.hosts}
<1>2. hostRoutes' = kept /\ undeleted' = [hosts |-> left, default |-> undeleted.default]
  BY <1>1 DEF ControlTypeOK, Undeleted
<1>3. kept \subseteq Proxies \X Gateways /\ left \subseteq Proxies \X Gateways
  BY DEF ControlTypeOK
<1>4. undeleted.default \in BOOLEAN
  BY DEF ControlTypeOK, Undeleted
<1>5. RoutesTo(H) => RoutesTo({})'
  BY <1>2 DEF RoutesTo
<1>6. QED BY <1>2, <1>3, <1>4, <1>5 DEF Undeleted

LEMMA RequestInvStep ==
  RequestInv /\ EngineInv /\ [Next]_vars => RequestInv'
<1> SUFFICES ASSUME RequestInv, EngineInv, [Next]_vars PROVE RequestInv'
  OBVIOUS
<1> USE ControlAssumption, EngineAssumption
    DEF RequestInv, ControlTypeOK, At, Goto, Return, Locals, World, routeVars, processVars
<1>1. ASSUME NEW t \in Threads, NEW k \in Kinds, NEW p \in Proxies, Begin(t, k, p)
      PROVE  RequestInv'
  <2>1. FirstStage(k) \in Stages \ {"bind", "register"}
    BY DEF FirstStage, Stages, Kinds
  <2>2. ControlTypeOK'
    BY <1>1, <2>1 DEF Begin
  <2>3. QED BY <1>1, <2>1, <2>2 DEF Begin
<1>2. ASSUME NEW t \in Threads, LockStep(t) PROVE RequestInv'
  BY <1>2 DEF LockStep, LockStart, LockStop, Stages
<1>3. ASSUME NEW t \in Threads, EngineStep(t) PROVE RequestInv'
  <2>1. CASE InsertKey(t)
    BY <2>1, SMTT(30) DEF InsertKey, Stages
  <2>2. CASE StartEngine(t)
    BY <2>2, SMTT(30) DEF StartEngine, Stages
  <2>3. CASE StartNetstack(t)
    BY <2>3, SMTT(30) DEF StartNetstack, Stages
  <2>4. CASE EnableRouting(t)
    BY <2>4, SMTT(30) DEF EnableRouting, Stages
  <2>5. CASE SetRunning(t)
    BY <2>5, SMTT(30) DEF SetRunning, Stages
  <2>6. QED BY <1>3, <2>1, <2>2, <2>3, <2>4, <2>5 DEF EngineStep
<1>4. ASSUME NEW t \in Threads, NetworkStep(t) PROVE RequestInv'
  <2>1. CASE ReadNetwork(t)
    <3>1. Configured(t) \in Stages \ {"bind", "register"}
      BY DEF Configured, Stages
    <3>2. PICK s \in Stages \ {"bind", "register"} :
             pc[t] # "idle" /\ pc' = [pc EXCEPT ![t] = s]
      BY <2>1, <3>1 DEF ReadNetwork, Stages
    <3>3. UNCHANGED <<requests, kind, proxy, autostart, gateway, pid, proxyEngineMu, World>>
      BY <2>1, SMTT(30) DEF ReadNetwork
    <3>4. QED BY <3>2, <3>3
  <2>2. CASE SetAddress(t)
    BY <2>2, SMTT(30) DEF SetAddress, NetworkFails, Stages, Gateways
  <2>3. CASE AddHostRoute(t)
    <3>1. hostRoutes' \subseteq Proxies \X Gateways /\ undeleted' \in Undeleted
      BY <2>3, RoutesAdded DEF AddHostRoute
    <3>2. QED BY <2>3, <3>1, SMTT(30) DEF AddHostRoute, NetworkFails, Stages
  <2>4. CASE AddDefaultRoute(t)
    <3>1. hostRoutes' \subseteq Proxies \X Gateways /\ undeleted' \in Undeleted
      BY <2>4, RoutesDeleted DEF AddDefaultRoute
    <3>2. QED BY <2>4, <3>1, ZenonT(40) DEF AddDefaultRoute, NetworkFails, Stages
  <2>5. CASE StoreNetwork(t)
    BY <2>5, SMTT(30) DEF StoreNetwork, Configured, Stages, NetworkState
  <2>6. CASE AddBypassRoute(t)
    <3>1. networkState.gateway \in Gateways
      BY DEF NetworkState
    <3>2. hostRoutes' \subseteq Proxies \X Gateways /\ undeleted' \in Undeleted
      BY <2>6, <3>1, RoutesAdded DEF AddBypassRoute
    <3>3. QED BY <2>6, <3>2, SMTT(30) DEF AddBypassRoute, NetworkFails, Stages
  <2>7. CASE StoreBypass(t)
    <3>1. networkState \in NetworkState /\ proxy[t] \in Proxies
      BY <2>7, SMTT(30) DEF StoreBypass
    <3>2. \/ networkState' = networkState
          \/ networkState' = [up |-> TRUE, gateway |-> networkState.gateway,
                              hosts |-> networkState.hosts \union {proxy[t]}]
      BY <2>7, SMTT(30) DEF StoreBypass
    <3>3. networkState' \in NetworkState
      <4>1. CASE networkState' = networkState
        BY <3>1, <4>1
      <4>2. CASE networkState' = [up |-> TRUE, gateway |-> networkState.gateway,
                                  hosts |-> networkState.hosts \union {proxy[t]}]
        BY <3>1, <4>2 DEF NetworkState
      <4>3. QED BY <3>2, <4>1, <4>2
    <3>4. QED BY <2>7, <3>3 DEF StoreBypass, Configured, Stages
  <2>8. CASE UndoStart(t)
    BY <2>8, ZenonT(40) DEF UndoStart, StopAndDropRoute, Stages
  <2>9. QED BY <1>4, <2>1, <2>2, <2>3, <2>4, <2>5, <2>6, <2>7, <2>8 DEF NetworkStep
<1>5. ASSUME NEW t \in Threads, LaunchStep(t) PROVE RequestInv'
  <2>1. CASE CheckRunning(t)
    BY <2>1, ZenonT(40) DEF CheckRunning, Stages
  <2>2. CASE Spawn(t)
    BY <2>2, SMTT(30) DEF Spawn, Stages
  <2>3. CASE Bind(t)
    BY <2>3, SMTT(30) DEF Bind, Stages
  <2>4. CASE Register(t)
    BY <2>4, SMTT(30) DEF Register, Stages
  <2>5. QED BY <1>5, <2>1, <2>2, <2>3, <2>4 DEF LaunchStep
<1>6. ASSUME NEW t \in Threads, CloseStep(t) PROVE RequestInv'
  <2>1. CASE StopRunning(t)
    BY <2>1, ZenonT(40) DEF StopRunning, StopAndDropRoute, Stages
  <2>2. CASE CloseApps(t)
    BY <2>2, SMTT(30) DEF CloseApps, Stages
  <2>3. CASE DeleteDefaultRoute(t)
    <3>1. undeleted' \in Undeleted
      BY <2>3 DEF DeleteDefaultRoute, Undeleted
    <3>2. QED BY <2>3, <3>1, ZenonT(40) DEF DeleteDefaultRoute, AfterCleanup, Stages
  <2>4. CASE DeleteHostRoutes(t)
    <3>1. hostRoutes' \subseteq Proxies \X Gateways /\ undeleted' \in Undeleted
      BY <2>4, RoutesDeleted DEF DeleteHostRoutes
    <3>2. QED BY <2>4, <3>1, SMTT(30) DEF DeleteHostRoutes, Stages
  <2>5. CASE ClearNetwork(t)
    BY <2>5, SMTT(30) DEF ClearNetwork, AfterCleanup, Stages, NetworkState, Nil, Gateways
  <2>6. CASE ClearRunning(t)
    BY <2>6, ZenonT(40) DEF ClearRunning, Stages
  <2>7. CASE OsExit(t)
    BY <2>7, ZenonT(40) DEF OsExit, Stages
  <2>8. QED BY <1>6, <2>1, <2>2, <2>3, <2>4, <2>5, <2>6, <2>7 DEF CloseStep
<1>7. ASSUME NEW q \in Pids, ProcessEnds(q) \/ MonitorDrops(q) PROVE RequestInv'
  BY <1>7 DEF ProcessEnds, MonitorDrops
<1>8. CASE UNCHANGED vars
  BY <1>8 DEF vars, controlVars, requestVars
<1>9. QED
  BY <1>1, <1>2, <1>3, <1>4, <1>5, <1>6, <1>7, <1>8 DEF Next, Step

-----------------------------------------------------------------------------
(* Every step of a handler is a step of TunEngine or leaves the engine      *)
(* alone.                                                                   *)
LEMMA EngineStepSimulation ==
  RequestInv /\ [Next]_vars => [EngineNext]_engineVars
<1> SUFFICES ASSUME RequestInv, [Next]_vars PROVE [EngineNext]_engineVars
  OBVIOUS
<1> USE DEF RequestInv, At
<1>1. ASSUME NEW t \in Threads, LockStep(t) PROVE UNCHANGED engineVars
  BY <1>1 DEF LockStep, LockStart, LockStop
<1>2. ASSUME NEW t \in Threads, EngineStep(t) PROVE [EngineNext]_engineVars
  BY <1>2 DEF EngineStep, InsertKey, StartEngine, StartNetstack, EnableRouting,
     SetRunning, EngineNext, StartRefused, StartReturns
<1>3. ASSUME NEW t \in Threads, NetworkStep(t) PROVE [EngineNext]_engineVars
  BY <1>3 DEF NetworkStep, ReadNetwork, SetAddress, AddHostRoute, AddDefaultRoute,
     StoreNetwork, AddBypassRoute, StoreBypass, UndoStart, StopAndDropRoute, EngineNext
<1>4. ASSUME NEW t \in Threads, LaunchStep(t) PROVE [EngineNext]_engineVars
  BY <1>4 DEF LaunchStep, CheckRunning, Spawn, Bind, Register, SetPIDProxyRefused, EngineNext
<1>5. ASSUME NEW t \in Threads, CloseStep(t) PROVE [EngineNext]_engineVars
  BY <1>5 DEF CloseStep, StopRunning, StopAndDropRoute, CloseApps, DeleteDefaultRoute,
     DeleteHostRoutes, ClearNetwork, ClearRunning, OsExit, EngineNext
<1>6. ASSUME NEW q \in Pids, ProcessEnds(q) \/ MonitorDrops(q) PROVE UNCHANGED engineVars
  BY <1>6 DEF ProcessEnds, MonitorDrops
<1>7. ASSUME NEW t \in Threads, NEW k \in Kinds, NEW p \in Proxies, Begin(t, k, p)
      PROVE  UNCHANGED engineVars
  BY <1>7 DEF Begin
<1>8. CASE UNCHANGED vars
  BY <1>8 DEF vars
<1>9. QED
  BY <1>1, <1>2, <1>3, <1>4, <1>5, <1>6, <1>7, <1>8 DEF Next, Step

LEMMA RequestInvariant == Spec => [](RequestInv /\ EngineInv)
<1>1. Init => RequestInv /\ EngineInv
  BY RequestInvInit, EngineInvInit DEF Init
<1>2. RequestInv /\ EngineInv /\ [Next]_vars => (RequestInv /\ EngineInv)'
  BY RequestInvStep, EngineStepSimulation, EngineInvStep
<1>3. QED BY <1>1, <1>2, PTL DEF Spec

(* ProxyControl, all handlers: the state stays in its type, for any number  *)
(* of overlapping requests.                                                 *)
THEOREM ControlTypeCorrect == Spec => []TypeOK
<1>1. RequestInv /\ EngineInv => TypeOK
  BY DEF RequestInv, EngineInv, TypeOK
<1>2. QED BY <1>1, RequestInvariant, PTL

(* main.go handlers over engine.go: every behaviour of the handlers is one  *)
(* of TunEngine, so what is proved of TunEngine holds for them.             *)
LEMMA ControlIsEngine == Spec => EngineSpec
<1>1. Init => EngineInit
  BY DEF Init
<1>2. QED
  BY <1>1, EngineStepSimulation, RequestInvariant, PTL DEF Spec, EngineSpec

-----------------------------------------------------------------------------
(* Requests that overlap: as long as start() has only run on an engine at   *)
(* rest, the router SetPIDProxy writes to is the one the tunnel dials by,   *)
(* and a stack that serves with the global proxy has a handler that is      *)
(* about to call EnablePIDRouting.                                          *)
StartInv ==
  ~doubleStart =>
    /\ pidRouter # 0 => tunnelProxy = Router(pidRouter)
    /\ stage # "free" => pidRouter = 0 /\ openStacks = {}
    /\ openStacks # {} /\ tunnelProxy = Global => \E t \in Threads : pc[t] = "enable"

LEMMA StartInvFrame ==
  ASSUME StartInv, UNCHANGED <<stage, pidRouter, tunnelProxy, doubleStart, openStacks>>,
         \A t \in Threads : pc[t] = "enable" => pc'[t] = "enable"
  PROVE  StartInv'
BY DEF StartInv

LEMMA StartInvEngine ==
  ASSUME RequestInv, EngineInv, StartInv, NEW t \in Threads, EngineStep(t)
  PROVE  StartInv'
<1> USE DEF At, Goto, Return, World, Locals, RequestInv, ControlTypeOK, Free
<1>1. engineMu = NoThread <=> stage = "free"
  BY DEF EngineInv
<1>2. CASE InsertKey(t)
  BY <1>2, StartInvFrame DEF InsertKey, Insert, tunnelVars, deviceVars
<1>3. CASE StartEngine(t)
  <2>1. CASE StartSelect(t)
    BY <1>3, <2>1 DEF StartSelect, StartInv, EngineInv, EngineTypeOK
  <2>2. CASE StartRefused
    BY <1>3, <2>2, StartInvFrame DEF StartEngine, StartRefused, engineVars, tunnelVars, deviceVars
  <2>3. QED BY <1>3, <2>1, <2>2 DEF StartEngine
<1>4. CASE StartNetstack(t)
  <2>1. CASE OpenDevice(t)
    BY <1>4, <2>1 DEF StartNetstack, OpenDevice, StartInv, tunnelVars
  <2>2. CASE OpenDeviceFails(t)
    BY <1>4, <2>2 DEF StartNetstack, OpenDeviceFails, StartInv, tunnelVars
  <2>3. CASE CreateStack(t) /\ Goto(t, "enable")
    BY <1>4, <2>3 DEF CreateStack, StartInv, tunnelVars
  <2>4. CASE CreateStackFails(t)
    BY <1>4, <2>4 DEF StartNetstack, CreateStackFails, StartInv, tunnelVars
  <2>5. QED
    BY <1>4, <2>1, <2>2, <2>3, <2>4 DEF StartNetstack
<1>5. CASE EnableRouting(t)
  <2>1. CASE pidRouter # 0 /\ UNCHANGED tunnelVars
    BY <1>5, <2>1 DEF EnableRouting, EnablePIDRouting, StartInv, Router, Global, tunnelVars, deviceVars
  <2>2. CASE pidRouter = 0
    BY <1>1, <1>5, <2>2 DEF EnableRouting, EnablePIDRouting, StartInv, Router, Global, deviceVars
  <2>3. QED BY <1>5, <2>1, <2>2 DEF EnableRouting, EnablePIDRouting
<1>6. CASE SetRunning(t)
  BY <1>6, StartInvFrame DEF SetRunning, engineVars, tunnelVars, deviceVars
<1>7. QED BY <1>2, <1>3, <1>4, <1>5, <1>6 DEF EngineStep

LEMMA StartInvStep ==
  RequestInv /\ EngineInv /\ StartInv /\ [Next]_vars => StartInv'
<1> SUFFICES ASSUME RequestInv, EngineInv, StartInv, [Next]_vars PROVE StartInv'
  OBVIOUS
<1>1. pc \in [Threads -> Stages]
  BY DEF RequestInv, ControlTypeOK
<1>2. ASSUME NEW t \in Threads, pc[t] # "enable",
             \/ pc' = pc
             \/ \E s \in Stages \union {Configured(t), AfterCleanup(t)} : Goto(t, s),
             UNCHANGED <<stage, pidRouter, tunnelProxy, doubleStart, openStacks>>
      PROVE  StartInv'
  BY <1>1, <1>2, StartInvFrame DEF Goto
<1>3. ASSUME NEW t \in Threads, StopAndDropRoute, pc[t] # "enable",
             \E s \in Stages : Goto(t, s)
      PROVE  StartInv'
  BY <1>1, <1>3 DEF StopAndDropRoute, StopEngine, StartInv, EngineInv, Free, Goto
<1> USE DEF At, Return, engineVars, tunnelVars, deviceVars, Stages
<1>4. ASSUME NEW t \in Threads, NEW k \in Kinds, NEW p \in Proxies, Begin(t, k, p)
      PROVE  StartInv'
  BY <1>2, <1>4 DEF Begin, FirstStage
<1>5. ASSUME NEW t \in Threads, LockStep(t) PROVE StartInv'
  BY <1>2, <1>5 DEF LockStep, LockStart, LockStop
<1>6. ASSUME NEW t \in Threads, EngineStep(t) PROVE StartInv'
  BY <1>6, StartInvEngine
<1>7. ASSUME NEW t \in Threads, NetworkStep(t) PROVE StartInv'
  BY <1>2, <1>3, <1>7, SMTT(30) DEF NetworkStep, ReadNetwork, SetAddress, AddHostRoute, AddDefaultRoute,
     StoreNetwork, AddBypassRoute, StoreBypass, UndoStart, NetworkFails, Configured
<1>8. ASSUME NEW t \in Threads, LaunchStep(t) PROVE StartInv'
  BY <1>2, <1>8 DEF LaunchStep, CheckRunning, Spawn, Bind, Register, SetPIDProxy, SetPIDProxyRefused
<1>9. ASSUME NEW t \in Threads, CloseStep(t) PROVE StartInv'
  BY <1>2, <1>3, <1>9 DEF CloseStep, StopRunning, CloseApps, DeleteDefaultRoute, DeleteHostRoutes,
     ClearNetwork, ClearRunning, OsExit, AfterCleanup
<1>10. ASSUME NEW q \in Pids, ProcessEnds(q) \/ MonitorDrops(q) PROVE StartInv'
  BY <1>10, StartInvFrame DEF ProcessEnds, MonitorDrops
<1>11. CASE UNCHANGED vars
  BY <1>11, StartInvFrame DEF vars, controlVars
<1>12. QED
  BY <1>4, <1>5, <1>6, <1>7, <1>8, <1>9, <1>10, <1>11 DEF Next, Step

(* main.go handlers over engine.go: whatever requests overlap, when all are *)
(* done a serving stack has the global proxy only if a start() ran on an    *)
(* engine that served or routed already.                                    *)
THEOREM GlobalOnlyByDoubleStarts == Spec => []GlobalOnlyByDoubleStart
<1>1. Init => StartInv
  BY DEF Init, EngineInit, StartInv
<1>2. StartInv => GlobalOnlyByDoubleStart
  BY DEF StartInv, GlobalOnlyByDoubleStart, AtRest
<1>3. QED BY <1>1, <1>2, StartInvStep, RequestInvariant, PTL DEF Spec

-----------------------------------------------------------------------------
USE DEF RoutesTo

(* A step of the only request past its mutex, to another stage or back to   *)
(* idle: what is left to show is that stage's phase, or the steady state.   *)
Moves(t, s) == Goto(t, s) /\ UNCHANGED <<kind, exited, proxyEngineMu>> /\ Phase(t)'
Ends(t)     == Goto(t, "idle") /\ UNCHANGED <<kind, exited>> /\ Steady'
WorkStages  == Stages \ {"idle", "lockStart", "lockStop"}

LEMMA BusyStep ==
  ASSUME RequestInv, SerialInv, ~exited,
         NEW t \in Threads, Busy(t),
         Ends(t) \/ \E s \in WorkStages : Moves(t, s)
  PROVE  SerialInv'
<1> USE DEF SerialInv, Exclusive, Busy, Goto, RequestInv, ControlTypeOK
<1>1. PICK s \in Stages \ {"lockStart", "lockStop"} :
        /\ Goto(t, s)
        /\ UNCHANGED <<kind, exited>>
        /\ \/ s # "idle" /\ UNCHANGED proxyEngineMu /\ Phase(t)'
           \/ s = "idle" /\ Steady'
  BY DEF Moves, Ends, WorkStages, Stages
<1>2. \A u \in Threads : u # t => pc'[u] = pc[u] /\ pc[u] \in {"idle", "lockStart", "lockStop"}
  BY <1>1
<1>3. pc'[t] = s
  BY <1>1
<1>4. Exclusive'
  BY <1>1, <1>2, <1>3
<1>5. \A u \in Threads : Busy(u)' => Phase(u)'
  BY <1>1, <1>2, <1>3
<1>6. (\A u \in Threads : ~Busy(u)') => Steady'
  BY <1>1, <1>2, <1>3
<1>7. QED BY <1>1, <1>4, <1>5, <1>6

(* One request starting the engine.                                         *)
LEMMA EngineStepSerial ==
  ASSUME RequestInv, EngineInv, SerialInv, NEW t \in Threads, EngineStep(t)
  PROVE  SerialInv'
<1> USE DEF At, Goto, RequestInv, ControlTypeOK, World, Locals, routeVars, processVars
<1>1. /\ ~exited
      /\ Busy(t)
      /\ Phase(t)
  BY DEF EngineStep, InsertKey, StartEngine, StartNetstack, EnableRouting, SetRunning, SerialInv, Busy
<1> SUFFICES Ends(t) \/ \E s \in WorkStages : Moves(t, s)
  BY <1>1, BusyStep
<1> USE <1>1 DEF Phase, StagePhase, NetworkPhase, ClosePhase, EngineDown, NetworkDown,
            Moves, Ends, WorkStages, Stages, Busy
<1>2. CASE InsertKey(t)
  <2>1. Moves(t, "start")
    BY <1>2 DEF InsertKey, Insert, tunnelVars, deviceVars
  <2>2. QED BY <2>1
<1>3. CASE StartEngine(t)
  <2>1. CASE StartSelect(t) /\ Goto(t, "starting") /\ UNCHANGED proxyEngineMu
    <3>1. Moves(t, "starting")
      BY <1>3, <2>1 DEF StartEngine, StartSelect
    <3>2. QED BY <3>1
  <2>2. CASE StartRefused /\ Return(t)
    BY <1>3, <2>2 DEF StartEngine, StartRefused, Return, Steady, engineVars, tunnelVars, deviceVars
  <2>3. QED BY <1>3, <2>1, <2>2 DEF StartEngine
<1>4. CASE StartNetstack(t)
  <2>1. CASE OpenDevice(t) /\ UNCHANGED <<pc, proxyEngineMu>>
    <3>1. Moves(t, "starting")
      BY <1>4, <2>1 DEF StartNetstack, OpenDevice, tunnelVars
    <3>2. QED BY <3>1
  <2>2. CASE CreateStack(t) /\ Goto(t, "enable") /\ UNCHANGED proxyEngineMu
    <3>1. Moves(t, "enable")
      BY <1>4, <2>2 DEF StartNetstack, CreateStack, tunnelVars
    <3>2. QED BY <3>1
  <2>3. CASE (OpenDeviceFails(t) \/ CreateStackFails(t)) /\ Return(t)
    BY <1>4, <2>3 DEF StartNetstack, OpenDeviceFails, CreateStackFails, Return, Steady, tunnelVars
  <2>4. QED BY <1>4, <2>1, <2>2, <2>3 DEF StartNetstack
<1>5. CASE EnableRouting(t)
  <2>1. EngineUp'
    BY <1>5 DEF EnableRouting, EnablePIDRouting, EngineUp, deviceVars, EngineInv, EngineTypeOK, Epoch
  <2>2. CASE kind[t] = "start"
    <3>1. Moves(t, "setRunning")
      BY <1>5, <2>1, <2>2 DEF EnableRouting, NetworkSound
    <3>2. QED BY <3>1
  <2>3. CASE kind[t] # "start"
    <3>1. Moves(t, "network")
      BY <1>5, <2>1, <2>3 DEF EnableRouting, Configuring, Launching, EngineUp
    <3>2. QED BY <3>1
  <2>4. QED BY <2>2, <2>3
<1>6. CASE SetRunning(t)
  <2>1. Running'
    BY <1>6 DEF SetRunning, Running, EngineUp, NetworkSound, NetworkUp, engineVars,
       tunnelVars, deviceVars
  <2>2. CASE kind[t] = "start"
    BY <1>6, <2>1, <2>2 DEF SetRunning, Return, Steady
  <2>3. CASE kind[t] # "start"
    <3>1. Moves(t, "spawn")
      BY <1>6, <2>1, <2>3 DEF SetRunning, Steady, Launching
    <3>2. QED BY <3>1
  <2>4. QED BY <2>2, <2>3
<1>7. QED BY <1>2, <1>3, <1>4, <1>5, <1>6 DEF EngineStep

(* One request configuring the network, or undoing the start.              *)
LEMMA NetworkStepSerial ==
  ASSUME RequestInv, EngineInv, SerialInv, NEW t \in Threads, NetworkStep(t)
  PROVE  SerialInv'
<1> USE DEF At, Goto, RequestInv, ControlTypeOK, World, Locals, routeVars, processVars
<1>1. /\ ~exited
      /\ Busy(t)
      /\ Phase(t)
      /\ proxy[t] \in Proxies
  BY DEF NetworkStep, ReadNetwork, SetAddress, AddHostRoute, AddDefaultRoute, StoreNetwork,
     AddBypassRoute, StoreBypass, UndoStart, SerialInv, Busy
<1> SUFFICES Ends(t) \/ \E s \in WorkStages : Moves(t, s)
  BY <1>1, BusyStep
<1> USE <1>1 DEF Phase, StagePhase, NetworkPhase, ClosePhase, Moves, Ends, WorkStages, Stages, Busy
<1>2. CASE ReadNetwork(t)
  <2>1. CASE ~networkState.up
    <3>1. Moves(t, "address")
      BY <1>2, <2>1 DEF ReadNetwork, Configuring, Running, NetworkSound, NetworkDown, NetworkUp,
         EngineUp, engineVars, tunnelVars, deviceVars, Launching, Nil
    <3>2. QED BY <3>1
  <2>2. CASE networkState.up /\ proxy[t] \in networkState.hosts
    <3>1. ~autostart[t] /\ Running
      BY <1>2, <2>2 DEF ReadNetwork, NetworkDown, Nil
    <3>2. Moves(t, "spawn")
      BY <1>2, <2>2, <3>1 DEF ReadNetwork, Configured, Running, NetworkSound, NetworkDown, NetworkUp,
         EngineUp, engineVars, tunnelVars, deviceVars, Launching, Steady
    <3>3. QED BY <3>2
  <2>3. CASE networkState.up /\ proxy[t] \notin networkState.hosts
    <3>1. ~autostart[t] /\ Running
      BY <1>2, <2>3 DEF ReadNetwork, NetworkDown, Nil
    <3>2. Moves(t, "addBypass")
      BY <1>2, <2>3, <3>1 DEF ReadNetwork, Running, NetworkSound, NetworkDown, NetworkUp,
         EngineUp, engineVars, tunnelVars, deviceVars, Launching, Nil
    <3>3. QED BY <3>2
  <2>4. QED BY <2>1, <2>2, <2>3
<1>3. ASSUME NetworkFails(t), NetworkDown', Configuring(t), Launching(t),
             UNCHANGED <<kind, exited, proxyEngineRunning, autostart, engineVars>>
      PROVE  Ends(t) \/ Moves(t, "undo")
  <2>1. CASE autostart[t]
    BY <1>3, <2>1 DEF NetworkFails, Configuring, EngineUp, engineVars, deviceVars
  <2>2. CASE ~autostart[t]
    BY <1>3, <2>2 DEF NetworkFails, Return, Configuring, Steady, Running, NetworkSound,
       NetworkDown, EngineUp, engineVars, tunnelVars, deviceVars
  <2>3. QED BY <2>1, <2>2
<1>4. CASE SetAddress(t)
  <2>1. defaultRoute => undeleted.default
    BY <1>4 DEF SetAddress, NetworkDown
  <2>2. CASE NetworkFails(t) /\ UNCHANGED gateway
    BY <1>3, <1>4, <2>2 DEF SetAddress, NetworkDown
  <2>3. CASE ~(NetworkFails(t) /\ UNCHANGED gateway)
    <3>1. Moves(t, "addHost")
      BY <1>4, <2>1, <2>3 DEF SetAddress, NetworkDown, Configuring, EngineUp, Launching,
         engineVars, tunnelVars, deviceVars
    <3>2. QED BY <3>1
  <2>4. QED BY <2>2, <2>3
<1>5. CASE AddHostRoute(t)
  <2>1. CASE NetworkFails(t) /\ UNCHANGED <<hostRoutes, undeleted>>
    BY <1>3, <1>5, <2>1 DEF AddHostRoute, NetworkDown
  <2>2. CASE ~(NetworkFails(t) /\ UNCHANGED <<hostRoutes, undeleted>>)
    <3>1. AddRoute(<<proxy[t], gateway[t]>>) /\ pc[t] = "addHost"
      BY <1>5, <2>2 DEF AddHostRoute
    <3>2. RoutesTo({proxy[t]})' /\ undeleted'.default = undeleted.default
      <4>1. NetworkDown /\ gateway[t] \in Gateways /\ (gateway[t] = "lan" \/ undeleted.default)
        BY <3>1
      <4>2. ControlTypeOK
        OBVIOUS
      <4>3. /\ hostRoutes' = hostRoutes \union {<<proxy[t], gateway[t]>>}
            /\ undeleted' = [hosts |-> undeleted.hosts \ {<<proxy[t], gateway[t]>>},
                             default |-> undeleted.default]
        BY <3>1 DEF AddRoute, Undeleted
      <4>4. RoutesTo({})
        BY <4>1 DEF NetworkDown
      <4>5. proxy' = proxy
        BY <1>5, <2>2 DEF AddHostRoute
      <4>6. QED BY <4>1, <4>3, <4>4, <4>5
    <3>3. UNCHANGED <<networkState, defaultRoute, proxyEngineRunning, kind, proxy, autostart, gateway, exited, engineVars>>
          /\ proxyEngineMu' = proxyEngineMu /\ pc' = [pc EXCEPT ![t] = "addDefault"]
      BY <1>5, <2>2 DEF AddHostRoute
    <3>4. Moves(t, "addDefault")
      BY <3>1, <3>2, <3>3 DEF NetworkDown, Configuring, EngineUp, Launching,
         engineVars, tunnelVars, deviceVars
    <3>5. QED BY <3>4
  <2>3. QED BY <2>1, <2>2
<1>6. CASE AddDefaultRoute(t)
  <2>1. CASE NetworkFails(t) /\ DeleteRoutesTo({proxy[t]}) /\ UNCHANGED defaultRoute
    <3>1. NetworkDown'
      BY <1>6, <2>1, RoutesDeleted DEF AddDefaultRoute, NetworkDown, Configuring
    <3>2. QED BY <1>3, <1>6, <3>1, <2>1 DEF AddDefaultRoute
  <2>2. CASE Goto(t, "store") /\ UNCHANGED <<hostRoutes, undeleted, proxyEngineMu>>
    <3>1. Moves(t, "store")
      BY <1>6, <2>2 DEF AddDefaultRoute, Configuring, EngineUp, Launching,
         engineVars, tunnelVars, deviceVars
    <3>2. QED BY <3>1
  <2>3. QED BY <1>6, <2>1, <2>2 DEF AddDefaultRoute
<1>7. CASE StoreNetwork(t)
  <2>1. /\ networkState' = [up |-> TRUE, gateway |-> gateway[t], hosts |-> {proxy[t]}]
        /\ gateway[t] = "lan" \/ undeleted.default
    BY <1>7 DEF StoreNetwork
  <2>2. (NetworkUp /\ EngineUp)' /\ Launching(t)' /\ (autostart[t] <=> ~proxyEngineRunning)
    BY <1>7, <2>1 DEF StoreNetwork, NetworkUp, Configuring, EngineUp, Launching,
       engineVars, tunnelVars, deviceVars, Router
  <2>3. CASE autostart[t]
    <3>1. kind[t] = "launch"
      BY <2>3
    <3>2. Moves(t, "setRunning")
      BY <1>7, <2>2, <2>3, <3>1 DEF StoreNetwork, Configured, NetworkSound
    <3>3. QED BY <3>2
  <2>4. CASE ~autostart[t]
    <3>1. Moves(t, "spawn")
      BY <1>7, <2>2, <2>4 DEF StoreNetwork, Configured, NetworkSound, Running, Steady
    <3>2. QED BY <3>1
  <2>5. QED BY <2>3, <2>4
<1>8. CASE AddBypassRoute(t)
  <2>1. /\ networkState.up
        /\ ~autostart[t]
        /\ UNCHANGED <<networkState, defaultRoute, proxyEngineRunning, kind, proxy, autostart, engineVars>>
    BY <1>8 DEF AddBypassRoute, NetworkUp
  <2>2. CASE AddRoute(<<proxy[t], networkState.gateway>>) /\ Goto(t, "storeBypass")
             /\ UNCHANGED proxyEngineMu
    <3>1. Running /\ NetworkUp /\ networkState.gateway \in Gateways
      BY <1>8 DEF AddBypassRoute, NetworkState
    <3>2. /\ RoutesTo(networkState.hosts \union {proxy[t]})'
          /\ undeleted'.default = undeleted.default
      BY <2>1, <2>2, <3>1, RoutesAdded, SMTT(20) DEF NetworkUp
    <3>3. Moves(t, "storeBypass")
      BY <1>8, <2>1, <2>2, <3>1, <3>2 DEF AddBypassRoute, Running, NetworkUp, EngineUp, Launching, engineVars,
         tunnelVars, deviceVars
    <3>4. QED BY <3>3
  <2>3. CASE NetworkFails(t) /\ UNCHANGED <<hostRoutes, undeleted>>
    <3>1. Running /\ NetworkUp
      BY <1>8 DEF AddBypassRoute
    <3>2. Running'
      BY <2>1, <2>3, <3>1 DEF Running, NetworkUp, NetworkSound, EngineUp, engineVars,
         tunnelVars, deviceVars
    <3>3. Goto(t, "idle") /\ UNCHANGED exited
      BY <1>8, <2>1, <2>3 DEF NetworkFails, Return, AddBypassRoute
    <3>4. QED BY <2>1, <3>2, <3>3 DEF Steady
  <2>4. QED BY <1>8, <2>1, <2>2, <2>3 DEF AddBypassRoute
<1>9. CASE StoreBypass(t)
  <2>1. networkState' = [up |-> TRUE, gateway |-> networkState.gateway,
                         hosts |-> networkState.hosts \union {proxy[t]}]
    BY <1>9 DEF StoreBypass
  <2>2. /\ Goto(t, "spawn")
        /\ UNCHANGED <<hostRoutes, defaultRoute, undeleted, proxyEngineRunning, proxyEngineMu, kind, proxy,
                       autostart, exited, engineVars>>
    BY <1>9 DEF StoreBypass, Configured
  <2>3. defaultRoute => tunnelProxy.kind = "router"
    BY <1>9 DEF StoreBypass, EngineUp, Router
  <2>4. NetworkUp'
    <3>1. networkState'.up /\ networkState'.gateway = networkState.gateway
             /\ networkState'.hosts = networkState.hosts \union {proxy[t]}
      BY <2>1
    <3>2. QED BY <1>9, <2>2, <2>3, <3>1 DEF StoreBypass, NetworkUp, engineVars, tunnelVars
  <2>5. Running'
    BY <1>9, <2>2, <2>4 DEF StoreBypass, Running, EngineUp, NetworkSound, engineVars,
       tunnelVars, deviceVars
  <2>6. Moves(t, "spawn")
    BY <1>9, <2>2, <2>5 DEF StoreBypass, Steady, Launching
  <2>7. QED BY <2>6
<1>10. CASE UndoStart(t)
  <2>1. EngineDown'
    BY <1>10 DEF UndoStart, StopAndDropRoute, StopEngine, EngineDown, NetworkDown
  <2>2. QED BY <1>10, <2>1 DEF UndoStart, Return, Steady
<1>11. QED BY <1>2, <1>4, <1>5, <1>6, <1>7, <1>8, <1>9, <1>10 DEF NetworkStep

(* One launch, from its first look at the engine to the registration.       *)
LEMMA LaunchStepSerial ==
  ASSUME RequestInv, EngineInv, SerialInv, NEW t \in Threads, LaunchStep(t)
  PROVE  SerialInv'
<1> USE DEF At, Goto, RequestInv, ControlTypeOK, World, Locals, routeVars, processVars
<1>1. /\ ~exited
      /\ Busy(t)
      /\ Phase(t)
      /\ proxy[t] \in Proxies
  BY DEF LaunchStep, CheckRunning, Spawn, Bind, Register, SerialInv, Busy
<1> SUFFICES Ends(t) \/ \E s \in WorkStages : Moves(t, s)
  BY <1>1, BusyStep
<1> USE <1>1 DEF Phase, StagePhase, NetworkPhase, ClosePhase, Moves, Ends, WorkStages, Stages, Busy,
            EngineDown, NetworkDown, NetworkSound, NetworkUp, EngineUp, Running, Launching
<1>2. ASSUME UNCHANGED <<networkState, hostRoutes, defaultRoute, undeleted, proxyEngineRunning, engineVars>>
      PROVE  (Steady => Steady') /\ (Running => Running')
  BY <1>2 DEF Steady, engineVars, tunnelVars, deviceVars
<1>3. CASE CheckRunning(t)
  <2>1. CASE proxyEngineRunning /\ Goto(t, "network") /\ UNCHANGED autostart
    <3>1. Running
      BY <1>3, <2>1 DEF CheckRunning, Steady
    <3>2. Running'
      BY <1>2, <1>3, <3>1 DEF CheckRunning
    <3>3. Moves(t, "network")
      BY <1>3, <2>1, <3>2 DEF CheckRunning
    <3>4. QED BY <3>3
  <2>2. CASE ~proxyEngineRunning /\ Goto(t, "insert")
             /\ autostart' = [autostart EXCEPT ![t] = TRUE] /\ kind[t] = "launch"
    <3>1. EngineDown
      BY <1>3, <2>2 DEF CheckRunning, Steady
    <3>2. EngineDown'
      BY <1>3, <3>1 DEF CheckRunning, engineVars, tunnelVars, deviceVars
    <3>3. pc'[t] = "insert" /\ autostart'[t] /\ kind'[t] = "launch"
      BY <1>3, <2>2 DEF CheckRunning
    <3>4. Phase(t)'
      BY <3>2, <3>3
    <3>5. Moves(t, "insert")
      BY <1>3, <2>2, <3>4 DEF CheckRunning
    <3>6. QED BY <3>5
  <2>3. CASE ~proxyEngineRunning /\ kind[t] # "launch" /\ Goto(t, "spawn") /\ UNCHANGED autostart
    <3>1. Steady'
      BY <1>2, <1>3 DEF CheckRunning
    <3>2. Moves(t, "spawn")
      BY <1>3, <2>3, <3>1 DEF CheckRunning
    <3>3. QED BY <3>2
  <2>4. QED BY <1>3, <2>1, <2>2, <2>3 DEF CheckRunning
<1>4. CASE Spawn(t)
  <2>1. Steady' /\ (kind'[t] = "launch" => Running') /\ UNCHANGED <<kind, exited>>
    BY <1>2, <1>4 DEF Spawn
  <2>2. CASE Return(t)
    BY <2>1, <2>2 DEF Return
  <2>3. CASE Goto(t, IF kind[t] = "launch" THEN "bind" ELSE "register") /\ UNCHANGED proxyEngineMu
    <3>1. CASE kind[t] = "launch"
      <4>1. Moves(t, "bind")
        BY <1>4, <2>1, <2>3, <3>1
      <4>2. QED BY <4>1
    <3>2. CASE kind[t] # "launch"
      <4>1. kind[t] = "bridge"
        BY <1>4, <3>2 DEF Spawn
      <4>2. Moves(t, "register")
        BY <1>4, <2>1, <2>3, <4>1
      <4>3. QED BY <4>2
    <3>3. QED BY <3>1, <3>2
  <2>4. QED BY <1>4, <2>2, <2>3 DEF Spawn
<1>5. CASE Bind(t)
  <2>1. CASE SetPIDProxy(pid[t], proxy[t]) /\ Goto(t, "register") /\ UNCHANGED proxyEngineMu
    <3>1. Running /\ pidRouter \in Epoch /\ pid[t] \in Pids
      BY <1>5 DEF Bind, EngineInv, EngineTypeOK
    <3>2. /\ targets'[pidRouter'][pid'[t]] = proxy'[t]
          /\ UNCHANGED <<pidRouter, tunnelProxy, stack, openStacks, kind>>
      BY <1>5, <2>1, <3>1 DEF Bind, SetPIDProxy, EngineInv, EngineTypeOK, deviceVars
    <3>3. Running'
      BY <1>5, <3>1, <3>2 DEF Bind
    <3>4. Moves(t, "register")
      BY <1>5, <2>1, <3>2, <3>3 DEF Bind, Steady
    <3>5. QED BY <3>4
  <2>2. CASE SetPIDProxyRefused(proxy[t]) /\ Return(t)
    <3>1. Steady'
      BY <1>2, <1>5, <2>2 DEF Bind, SetPIDProxyRefused, Steady
    <3>2. QED BY <1>5, <2>2, <3>1 DEF Bind, Return
  <2>3. QED BY <1>5, <2>1, <2>2 DEF Bind
<1>6. CASE Register(t)
  <2>1. Steady'
    BY <1>2, <1>6 DEF Register
  <2>2. QED BY <1>6, <2>1 DEF Register, Return
<1>7. QED BY <1>3, <1>4, <1>5, <1>6 DEF LaunchStep

(* One request stopping the engine and taking the network back; os.Exit     *)
(* leaves a clean routing table.                                            *)
LEMMA CloseStepSerial ==
  ASSUME RequestInv, EngineInv, SerialInv, NEW t \in Threads, CloseStep(t)
  PROVE  SerialInv'
<1> USE DEF At, Goto, RequestInv, ControlTypeOK, World, Locals, routeVars, processVars
<1>1. /\ ~exited
      /\ Busy(t)
      /\ Phase(t)
  BY DEF CloseStep, StopRunning, CloseApps, DeleteDefaultRoute, DeleteHostRoutes, ClearNetwork,
     ClearRunning, OsExit, SerialInv, Busy
<1> USE <1>1 DEF Phase, StagePhase, NetworkPhase, ClosePhase, Moves, Ends, WorkStages, Stages, Busy
<1>2. CASE OsExit(t)
  <2>1. NetworkDown' /\ exited'
    BY <1>2 DEF OsExit, NetworkDown
  <2>2. \A u \in Threads : ~Busy(u)'
    BY <1>2 DEF OsExit, SerialInv, Exclusive
  <2>3. Exclusive'
    BY <1>2, <2>2 DEF OsExit, SerialInv, Exclusive
  <2>4. QED BY <2>1, <2>2, <2>3 DEF SerialInv
<1>3. ASSUME ~OsExit(t)
      PROVE  Ends(t) \/ \E s \in WorkStages : Moves(t, s)
  <2> USE DEF NetworkDown, NetworkSound, NetworkUp, Nil
  <2>1. CASE StopRunning(t)
    <3>1. NetworkSound'
      BY <2>1 DEF StopRunning, StopAndDropRoute, StopEngine, Running
    <3>2. Moves(t, "closeApps")
      BY <2>1, <3>1 DEF StopRunning, StopAndDropRoute, StopEngine, Running, EngineUp
    <3>3. QED BY <3>2
  <2>2. CASE CloseApps(t)
    <3>1. Moves(t, "delDefault")
      BY <2>2 DEF CloseApps, engineVars, tunnelVars, deviceVars
    <3>2. QED BY <3>1
  <2>3. CASE DeleteDefaultRoute(t)
    <3>1. CASE networkState.up /\ Goto(t, "delHosts")
      <4>1. NetworkUp /\ UNCHANGED <<networkState, hostRoutes, engineVars>>
        BY <2>3, <3>1 DEF DeleteDefaultRoute
      <4>2. /\ undeleted'.hosts = undeleted.hosts
            /\ undeleted.default => undeleted'.default
            /\ defaultRoute' => undeleted'.default
        <5>1. undeleted = [hosts |-> undeleted.hosts, default |-> undeleted.default]
          BY DEF Undeleted
        <5>2. CASE defaultRoute' = FALSE /\ UNCHANGED undeleted
          BY <5>2
        <5>3. CASE UNCHANGED defaultRoute
                   /\ undeleted' = [undeleted EXCEPT !.default = @ \/ defaultRoute]
          BY <5>1, <5>3 DEF Undeleted
        <5>4. QED BY <2>3, <3>1, <5>2, <5>3 DEF DeleteDefaultRoute
      <4>3. NetworkUp'
        BY <4>1, <4>2 DEF engineVars, tunnelVars
      <4>4. Moves(t, "delHosts")
        BY <2>3, <3>1, <4>1, <4>2, <4>3 DEF DeleteDefaultRoute, engineVars, tunnelVars, deviceVars
      <4>5. QED BY <4>4
    <3>2. CASE ~networkState.up /\ UNCHANGED <<defaultRoute, undeleted>> /\ Goto(t, AfterCleanup(t))
      <4>1. NetworkDown'
        BY <2>3, <3>2 DEF DeleteDefaultRoute
      <4>2. CASE kind[t] = "stop"
        <5>1. Moves(t, "clearRunning")
          BY <2>3, <3>2, <4>1, <4>2 DEF DeleteDefaultRoute, AfterCleanup, engineVars, tunnelVars, deviceVars
        <5>2. QED BY <5>1
      <4>3. CASE kind[t] # "stop"
        <5>1. Moves(t, "osExit")
          BY <2>3, <3>2, <4>1, <4>3 DEF DeleteDefaultRoute, AfterCleanup, engineVars, tunnelVars, deviceVars
        <5>2. QED BY <5>1
      <4>4. QED BY <4>2, <4>3
    <3>3. QED BY <2>3, <3>1, <3>2 DEF DeleteDefaultRoute
  <2>4. CASE DeleteHostRoutes(t)
    <3>1. RoutesTo({})' /\ undeleted'.default = undeleted.default
      BY <2>4, RoutesDeleted DEF DeleteHostRoutes
    <3>2. Moves(t, "clearNetwork")
      BY <2>4, <3>1 DEF DeleteHostRoutes, engineVars, tunnelVars, deviceVars
    <3>3. QED BY <3>2
  <2>5. CASE ClearNetwork(t)
    <3>1. NetworkDown'
      BY <2>5 DEF ClearNetwork
    <3>2. CASE kind[t] = "stop"
      <4>1. Moves(t, "clearRunning")
        BY <2>5, <3>1, <3>2 DEF ClearNetwork, AfterCleanup, engineVars, tunnelVars, deviceVars
      <4>2. QED BY <4>1
    <3>3. CASE kind[t] # "stop"
      <4>1. Moves(t, "osExit")
        BY <2>5, <3>1, <3>3 DEF ClearNetwork, AfterCleanup, engineVars, tunnelVars, deviceVars
      <4>2. QED BY <4>1
    <3>4. QED BY <3>2, <3>3
  <2>6. CASE ClearRunning(t)
    <3>1. EngineDown'
      BY <2>6 DEF ClearRunning, EngineDown, engineVars, tunnelVars, deviceVars
    <3>2. QED BY <2>6, <3>1 DEF ClearRunning, Return, Steady
  <2>7. QED BY <1>3, <2>1, <2>2, <2>3, <2>4, <2>5, <2>6 DEF CloseStep
<1>4. QED BY <1>1, <1>2, <1>3, BusyStep

(* A request that gets the mutex, or is answered at once.                   *)
LEMMA LockStepSerial ==
  ASSUME RequestInv, EngineInv, SerialInv, NEW t \in Threads, LockStep(t)
  PROVE  SerialInv'
<1> USE DEF At, Goto, Return, RequestInv, ControlTypeOK, World, Locals, routeVars, processVars
<1>1. /\ ~exited
      /\ pc[t] \in {"lockStart", "lockStop"}
      /\ kind[t] \in {"start", "stop"}
      /\ proxyEngineMu = NoThread
      /\ UNCHANGED <<World, Locals, engineVars>>
  BY DEF LockStep, LockStart, LockStop, SerialInv, Exclusive
<1>2. \A u \in Threads : ~Busy(u)
  BY <1>1, EngineAssumption DEF SerialInv, Exclusive, Busy, Stages
<1>3. Steady
  BY <1>1, <1>2 DEF SerialInv
<1>4. Steady'
  BY <1>1, <1>3 DEF Steady, Running, EngineDown, EngineUp, NetworkSound, NetworkUp, NetworkDown,
     engineVars, tunnelVars, deviceVars
<1>5. CASE Return(t)
  BY <1>1, <1>2, <1>4, <1>5 DEF SerialInv, Exclusive, Busy
<1>6. CASE LockStart(t) /\ ~proxyEngineRunning
  <2>1. Goto(t, "insert") /\ proxyEngineMu' = t /\ kind[t] = "start"
    BY <1>6 DEF LockStart, SerialInv, Exclusive
  <2>2. EngineDown'
    BY <1>1, <1>4, <1>6 DEF Steady, Running
  <2>3. Phase(t)'
    <3>1. ~autostart'[t]
      BY <1>1, <2>1
    <3>2. QED BY <1>1, <2>1, <2>2, <3>1 DEF Phase, StagePhase, NetworkPhase, ClosePhase, EngineDown
  <2>4. QED BY <1>1, <1>2, <2>1, <2>3 DEF SerialInv, Exclusive, Busy
<1>7. CASE LockStop(t) /\ proxyEngineRunning
  <2>1. Goto(t, "stopEngine") /\ proxyEngineMu' = t /\ kind[t] = "stop"
    BY <1>7 DEF LockStop, SerialInv, Exclusive
  <2>2. Running'
    BY <1>1, <1>4, <1>7 DEF Steady, EngineDown
  <2>3. Phase(t)'
    BY <1>1, <2>1, <2>2 DEF Phase, StagePhase, NetworkPhase, ClosePhase
  <2>4. QED BY <1>1, <1>2, <2>1, <2>3 DEF SerialInv, Exclusive, Busy
<1>8. QED BY <1>5, <1>6, <1>7 DEF LockStep, LockStart, LockStop

(* A request arrives: nothing else is in progress, or only start and stop.  *)
LEMMA BeginSerial ==
  ASSUME RequestInv, EngineInv, SerialInv, ~Overlap,
         NEW t \in Threads, NEW k \in Kinds, NEW p \in Proxies, Begin(t, k, p)
  PROVE  SerialInv'
<1> USE DEF At, Goto, Begin, RequestInv, ControlTypeOK, World, routeVars, processVars
<1>1. ~exited /\ ~exited' /\ pc[t] = "idle"
  OBVIOUS
<1>2. \/ \A u \in Threads : pc[u] = "idle"
      \/ k \in {"start", "stop"} /\ \A u \in Threads : pc[u] # "idle" => kind[u] \in {"start", "stop"}
  OBVIOUS
<1>3. UNCHANGED <<networkState, hostRoutes, defaultRoute, proxyEngineRunning, proxyEngineMu, gateway, engineVars>>
  OBVIOUS
<1>4. (Steady => Steady') /\ (Running => Running') /\ (NetworkSound => NetworkSound')
  BY <1>3 DEF Steady, Running, EngineDown, EngineUp, NetworkSound, NetworkUp, NetworkDown,
     engineVars, tunnelVars, deviceVars
<1>5. CASE k \in {"start", "stop"}
  <2>1. pc'[t] \in {"lockStart", "lockStop"} /\ kind'[t] = k
        /\ (pc'[t] = "lockStart" <=> k = "start")
    BY <1>5 DEF FirstStage
  <2>2. \A u \in Threads : u # t => UNCHANGED <<pc[u], kind[u], proxy[u], autostart[u], pid[u]>>
    OBVIOUS
  <2>3. Exclusive'
    BY <1>2, <1>3, <1>5, <2>1, <2>2 DEF SerialInv, Exclusive, Busy
  <2>4. \A u \in Threads : Busy(u)' => u # t /\ Busy(u)
    BY <2>1, <2>2 DEF Busy
  <2>5. ASSUME NEW u \in Threads, Busy(u)' PROVE Phase(u)'
    <3>1. u # t /\ Phase(u)
      BY <2>4, <2>5 DEF SerialInv
    <3>2. UNCHANGED <<pc[u], kind[u], proxy[u], autostart[u], pid[u], gateway>>
      BY <2>2, <3>1
    <3>3. QED
      BY <1>3, <3>1, <3>2 DEF Phase, StagePhase, NetworkPhase, ClosePhase, Steady, Running, EngineDown,
         EngineUp, NetworkSound, NetworkUp, NetworkDown, Launching, Configuring,
         engineVars, tunnelVars, deviceVars
  <2>6. (\A u \in Threads : ~Busy(u)') => Steady'
    BY <1>1, <1>4, <2>2 DEF SerialInv, Busy
  <2>7. QED BY <1>1, <2>3, <2>5, <2>6 DEF SerialInv
<1>6. CASE k \notin {"start", "stop"}
  <2>1. (\A u \in Threads : pc[u] = "idle") /\ Steady
    BY <1>1, <1>2, <1>6 DEF SerialInv, Busy
  <2>2. CASE k = "exit"
    <3>1. pc'[t] = "closeApps" /\ kind'[t] = "exit"
      BY <2>2 DEF FirstStage
    <3>2. NetworkSound' /\ (~proxyEngineRunning' => pidRouter' = 0)
      BY <1>4, <2>1 DEF Steady, Running, EngineDown, NetworkSound
    <3>3. Phase(t)'
      BY <3>1, <3>2 DEF Phase, StagePhase, NetworkPhase, ClosePhase
    <3>4. QED BY <1>1, <2>1, <3>1, <3>3 DEF SerialInv, Exclusive, Busy
  <2>3. CASE k # "exit"
    <3>1. pc'[t] = "check" /\ kind'[t] = k /\ ~autostart'[t] /\ k \in {"launch", "bridge"}
      BY <1>6, <2>3 DEF FirstStage, Kinds
    <3>2. Phase(t)'
      BY <1>4, <2>1, <3>1 DEF Phase, StagePhase, NetworkPhase, ClosePhase, Launching
    <3>3. QED BY <1>1, <2>1, <3>1, <3>2 DEF SerialInv, Exclusive, Busy
  <2>4. QED BY <2>2, <2>3
<1>7. QED BY <1>5, <1>6

-----------------------------------------------------------------------------
LEMMA ControlInvInit == Init => ControlInv
<1> SUFFICES ASSUME Init PROVE SerialInv
  BY DEF ControlInv
<1>1. \A t \in Threads : pc[t] = "idle"
  BY DEF Init
<1>2. EngineDown
  BY DEF Init, EngineInit, EngineDown, NetworkDown
<1>3. ~exited
  BY DEF Init
<1>4. QED BY <1>1, <1>2, <1>3 DEF SerialInv, Exclusive, Busy, Steady

(* What a step that changes none of the handlers' shared state keeps.       *)
LEMMA ControlInvFrame ==
  ASSUME SerialInv,
         UNCHANGED <<pc, kind, proxy, autostart, gateway, pid, proxyEngineMu, proxyEngineRunning,
                     networkState, hostRoutes, defaultRoute, undeleted, exited, engineVars>>
  PROVE  SerialInv'
<1>1. Exclusive'
  BY DEF SerialInv, Exclusive, Busy
<1>2. ASSUME NEW t \in Threads, Busy(t)' PROVE Phase(t)'
  BY <1>2 DEF SerialInv, Busy, Phase, StagePhase, NetworkPhase, ClosePhase, Steady, Running,
     EngineDown, EngineUp, NetworkSound, NetworkUp, NetworkDown, Launching, Configuring,
     engineVars, tunnelVars, deviceVars
<1>3. ~exited' /\ (\A t \in Threads : ~Busy(t)') => Steady'
  BY DEF SerialInv, Busy, Steady, Running, EngineDown, EngineUp, NetworkSound, NetworkUp,
     NetworkDown, engineVars, tunnelVars, deviceVars
<1>4. exited' => NetworkDown' /\ \A t \in Threads : ~Busy(t)'
  BY DEF SerialInv, Busy, NetworkDown
<1>5. QED BY <1>1, <1>2, <1>3, <1>4 DEF SerialInv

LEMMA ControlInvStep ==
  RequestInv /\ EngineInv /\ ControlInv /\ [Next]_vars => ControlInv'
<1> SUFFICES ASSUME RequestInv, EngineInv, SerialInv, ~Overlap, [Next]_vars PROVE SerialInv'
  BY DEF ControlInv
<1>1. ASSUME NEW t \in Threads, NEW k \in Kinds, NEW p \in Proxies, Begin(t, k, p)
      PROVE  SerialInv'
  BY <1>1, BeginSerial
<1>2. ASSUME NEW t \in Threads, LockStep(t) PROVE SerialInv'
  BY <1>2, LockStepSerial
<1>3. ASSUME NEW t \in Threads, EngineStep(t) PROVE SerialInv'
  BY <1>3, EngineStepSerial
<1>4. ASSUME NEW t \in Threads, NetworkStep(t) PROVE SerialInv'
  BY <1>4, NetworkStepSerial
<1>5. ASSUME NEW t \in Threads, LaunchStep(t) PROVE SerialInv'
  BY <1>5, LaunchStepSerial
<1>6. ASSUME NEW t \in Threads, CloseStep(t) PROVE SerialInv'
  BY <1>6, CloseStepSerial
<1>7. ASSUME NEW q \in Pids, ProcessEnds(q) \/ MonitorDrops(q) PROVE SerialInv'
  BY <1>7, ControlInvFrame DEF ProcessEnds, MonitorDrops, Locals, routeVars
<1>8. CASE UNCHANGED vars
  BY <1>8, ControlInvFrame DEF vars, controlVars, requestVars, routeVars
<1>9. QED
  BY <1>1, <1>2, <1>3, <1>4, <1>5, <1>6, <1>7, <1>8 DEF Next, Step

LEMMA ControlInvariant == Spec => [](RequestInv /\ EngineInv /\ ControlInv)
<1>1. Init => ControlInv
  BY ControlInvInit
<1>2. RequestInv /\ EngineInv /\ ControlInv /\ [Next]_vars => ControlInv'
  BY ControlInvStep
<1>3. QED BY <1>1, <1>2, RequestInvariant, PTL DEF Spec

-----------------------------------------------------------------------------
(* What SerialInv says of each moment: nobody at work, or one request and   *)
(* its phase.                                                               *)
LEMMA SerialCases ==
  ASSUME SerialInv
  PROVE  \/ (\A t \in Threads : ~Busy(t)) /\ ~exited /\ Steady
         \/ (\A t \in Threads : ~Busy(t)) /\ exited /\ NetworkDown
         \/ \E t \in Threads : Busy(t) /\ ~exited /\ Phase(t) /\ \A u \in Threads : Busy(u) => u = t
BY DEF SerialInv, Exclusive

LEMMA SerialGoDirect ==
  ASSUME RequestInv, SerialInv PROVE UnrelatedGoDirect
<1> USE DEF UnrelatedGoDirect, Diverting, RequestInv, ControlTypeOK, NetworkDown, NetworkUp, NetworkSound, EngineUp,
            Router, Steady, Running, EngineDown
<1>1. ASSUME NEW t \in Threads, Busy(t), Phase(t) PROVE UnrelatedGoDirect
  BY <1>1 DEF Busy, Stages, Phase, StagePhase, NetworkPhase, ClosePhase, Configuring
<1>2. QED BY <1>1, SerialCases

LEMMA SerialRegistering ==
  ASSUME RequestInv, SerialInv PROVE RegisteringBound
BY DEF RegisteringBound, RequestInv, ControlTypeOK, SerialInv, Busy, Phase, NetworkPhase, Running, EngineUp

LEMMA SerialNoLoop ==
  ASSUME RequestInv, SerialInv PROVE NoProxyLoop
<1> USE DEF NoProxyLoop, RequestInv, ControlTypeOK, NetworkDown, NetworkUp, NetworkSound, Steady, Running, EngineDown
<1>1. ASSUME NEW t \in Threads, Busy(t), Phase(t) PROVE NoProxyLoop
  BY <1>1 DEF Busy, Stages, Phase, StagePhase, NetworkPhase, ClosePhase, Configuring
<1>2. QED BY <1>1, SerialCases

LEMMA SerialTracked ==
  ASSUME RequestInv, SerialInv PROVE RoutesTracked
<1> USE DEF RoutesTracked, RequestInv, ControlTypeOK, NetworkDown, NetworkUp, NetworkSound, Steady, Running, EngineDown
<1>1. ASSUME NEW t \in Threads, Busy(t), ~exited, Phase(t) PROVE RoutesTracked
  <2>1. CASE pc[t] \in {"addDefault", "store"}
    BY <1>1, <2>1 DEF Phase, NetworkPhase
  <2>2. CASE pc[t] = "storeBypass"
    BY <1>1, <2>2 DEF Phase, NetworkPhase
  <2>3. CASE pc[t] \notin {"addDefault", "store", "storeBypass"}
    BY <1>1, <2>3 DEF Busy, Stages, Phase, StagePhase, NetworkPhase, ClosePhase, Configuring
  <2>4. QED BY <2>1, <2>2, <2>3
<1>2. QED BY <1>1, SerialCases

LEMMA SerialRunningIsSo ==
  ASSUME RequestInv, SerialInv PROVE RunningIsSo
<1> USE DEF RunningIsSo, RequestInv, ControlTypeOK, NetworkDown, Steady, Running, EngineDown, EngineUp, Busy
<1>1. ASSUME NEW t \in Threads, Busy(t), Phase(t) PROVE RunningIsSo
  <2>1. ~AtRest
    BY <1>1 DEF AtRest
  <2>2. ASSUME proxyEngineRunning, ~StopInProgress
        PROVE  stack \in openStacks /\ pidRouter # 0 /\ tunnelProxy = Router(pidRouter)
    BY <1>1, <2>2 DEF StopInProgress, Stages, Phase, StagePhase, NetworkPhase, ClosePhase, Configuring
  <2>3. QED BY <2>1, <2>2
<1>2. ASSUME \A t \in Threads : ~Busy(t), exited \/ Steady PROVE RunningIsSo
  BY <1>2
<1>3. QED BY <1>1, <1>2, SerialCases

(* README.md:12: without overlapping launches, traffic that is diverted     *)
(* into the tunnel is always routed by process, for any number of requests. *)
THEOREM UnrelatedAppsGoDirect == Spec => [](~Overlap => UnrelatedGoDirect)
<1>1. RequestInv /\ ControlInv => (~Overlap => UnrelatedGoDirect)
  BY SerialGoDirect DEF ControlInv
<1>2. QED BY <1>1, ControlInvariant, PTL

(* main.go handleLaunchApplication: an application is recorded only when    *)
(* the router in use has its proxy.                                         *)
THEOREM LaunchesAreBound == Spec => [](~Overlap => RegisteringBound)
<1>1. RequestInv /\ ControlInv => (~Overlap => RegisteringBound)
  BY SerialRegistering DEF ControlInv
<1>2. QED BY <1>1, ControlInvariant, PTL

(* main.go configureTunNetwork: the engine's own connections to a proxy     *)
(* never re-enter the tunnel.                                               *)
THEOREM ProxiesDoNotLoop == Spec => [](~Overlap => NoProxyLoop)
<1>1. RequestInv /\ ControlInv => (~Overlap => NoProxyLoop)
  BY SerialNoLoop DEF ControlInv
<1>2. QED BY <1>1, ControlInvariant, PTL

(* main.go cleanupTunNetwork: no host route outlives its record, unless its *)
(* DELETE failed.                                                           *)
THEOREM RoutesAreTracked == Spec => [](~Overlap => RoutesTracked)
<1>1. RequestInv /\ ControlInv => (~Overlap => RoutesTracked)
  BY SerialTracked DEF ControlInv
<1>2. QED BY <1>1, ControlInvariant, PTL

(* main.go proxyEngineRunning: the flag tells the truth of the stack, the   *)
(* router, the network state and the routes whose DELETE did not fail.      *)
THEOREM RunningFlagIsTrue == Spec => [](~Overlap => RunningIsSo)
<1>1. RequestInv /\ ControlInv => (~Overlap => RunningIsSo)
  BY SerialRunningIsSo DEF ControlInv
<1>2. QED BY <1>1, ControlInvariant, PTL
=============================================================================
