------------------------------ MODULE TunEngine ------------------------------
(***************************************************************************)
(* The embedded tun2socks engine (tun2socks/engine/engine.go) and the      *)
(* proxy slot of the global tunnel (tun2socks/tunnel/tunnel.go).           *)
(*                                                                         *)
(* Every exported function of the engine takes _engineMu, so each is one   *)
(* critical section; start() is the exception worth seeing in steps,       *)
(* because what it stores in the tunnel and in the device is visible to    *)
(* the tunnel's connections, which take another lock, while start() still  *)
(* runs.  Devices and stacks are numbered by the start() that made them,   *)
(* 0 is Go's nil; PID routers are numbered in the order of their creation. *)
(***************************************************************************)
EXTENDS Naturals, FiniteSets

CONSTANTS
  Threads,    \* goroutines that call the engine
  Proxies,    \* proxy URLs a caller may hand over
  Supported,  \* those parseProxy accepts
  Pids,       \* process ids
  MaxEpoch,   \* bound: how many times start() and EnablePIDRouting may run
  NoThread,   \* nobody holds _engineMu
  NoProxy     \* no proxy: the nil key, and a pid without a target

ASSUME EngineAssumption ==
  /\ Supported \subseteq Proxies
  /\ NoThread \notin Threads
  /\ NoProxy \notin Proxies
  /\ MaxEpoch \in Nat

VARIABLES
  engineMu,     \* the goroutine that holds _engineMu
  stage,        \* where that goroutine is in netstack(): "free" outside it
  defaultKey,   \* the proxy of _defaultKey
  tunnelProxy,  \* tunnel.T().proxy, what every new connection is dialled with
  pidRouter,    \* _pidRouter
  routers,      \* number of PID routers made so far
  targets,      \* the targets map of each PID router
  doubleStart,  \* history: start() ran on an engine that served or routed
  starts,       \* number of start() that reached the device
  device,       \* _defaultDevice
  stack,        \* _defaultStack
  openDevices,  \* TUN devices that exist
  openStacks    \* stacks that serve

tunnelVars == <<tunnelProxy, pidRouter, routers, targets, doubleStart>>
deviceVars == <<starts, device, stack, openDevices, openStacks>>
engineVars == <<engineMu, stage, defaultKey, tunnelVars, deviceVars>>

Epoch == 0..MaxEpoch

(* What the tunnel dials with: the reject proxy of init(), the global       *)
(* proxy of the key (all traffic), or the PID router number g.              *)
Reject      == [kind |-> "reject", of |-> 0]
Global      == [kind |-> "global", of |-> 0]
Router(g)   == [kind |-> "router", of |-> g]
TunnelProxy == {Reject, Global} \union {Router(g) : g \in Epoch}

NoTargets == [p \in Pids |-> NoProxy]

EngineTypeOK ==
  /\ engineMu \in Threads \union {NoThread}
  /\ stage \in {"free", "device", "stack"}
  /\ defaultKey \in Proxies \union {NoProxy}
  /\ tunnelProxy \in TunnelProxy
  /\ pidRouter \in Epoch
  /\ routers \in Epoch
  /\ targets \in [Epoch -> [Pids -> Proxies \union {NoProxy}]]
  /\ doubleStart \in BOOLEAN
  /\ starts \in Epoch
  /\ device \in Epoch
  /\ stack \in Epoch
  /\ openDevices \subseteq 1..MaxEpoch
  /\ openStacks \subseteq 1..MaxEpoch

EngineInit ==
  /\ engineMu = NoThread
  /\ stage = "free"
  /\ defaultKey = NoProxy
  /\ tunnelProxy = Reject
  /\ pidRouter = 0
  /\ routers = 0
  /\ targets = [g \in Epoch |-> NoTargets]
  /\ doubleStart = FALSE
  /\ starts = 0
  /\ device = 0
  /\ stack = 0
  /\ openDevices = {}
  /\ openStacks = {}

-----------------------------------------------------------------------------
Free == engineMu = NoThread

(* Insert: _defaultKey = k under the lock.                                  *)
Insert(p) ==
  /\ Free
  /\ defaultKey' = p
  /\ UNCHANGED <<engineMu, stage, tunnelVars, deviceVars>>

(* start() up to the point where netstack() refuses the key: no key, or a   *)
(* proxy parseProxy does not know.                                          *)
StartRefused ==
  /\ Free
  /\ defaultKey \notin Supported
  /\ UNCHANGED engineVars

(* start() up to SetProxy: the global proxy becomes the tunnel's proxy      *)
(* before there is a device, and the lock stays held.                       *)
StartSelect(t) ==
  /\ Free
  /\ defaultKey \in Supported
  /\ starts < MaxEpoch
  /\ engineMu' = t
  /\ stage' = "device"
  /\ tunnelProxy' = Global
  /\ starts' = starts + 1
  /\ doubleStart' = (doubleStart \/ pidRouter # 0 \/ openStacks # {})
  /\ UNCHANGED <<defaultKey, pidRouter, routers, targets>>
  /\ UNCHANGED <<device, stack, openDevices, openStacks>>

(* parseDevice opens the TUN device.                                        *)
OpenDevice(t) ==
  /\ engineMu = t
  /\ stage = "device"
  /\ stage' = "stack"
  /\ device' = starts
  /\ openDevices' = openDevices \union {starts}
  /\ UNCHANGED <<engineMu, defaultKey, tunnelVars, starts, stack, openStacks>>

(* parseDevice fails: the assignment has already replaced _defaultDevice    *)
(* by nil, and a device that was there stays open.                          *)
OpenDeviceFails(t) ==
  /\ engineMu = t
  /\ stage = "device"
  /\ engineMu' = NoThread
  /\ stage' = "free"
  /\ device' = 0
  /\ UNCHANGED <<defaultKey, tunnelVars, starts, stack, openDevices, openStacks>>

(* CreateStack succeeds, and start() returns nil.                           *)
CreateStack(t) ==
  /\ engineMu = t
  /\ stage = "stack"
  /\ engineMu' = NoThread
  /\ stage' = "free"
  /\ stack' = starts
  /\ openStacks' = openStacks \union {starts}
  /\ UNCHANGED <<defaultKey, tunnelVars, starts, device, openDevices>>

(* CreateStack fails: _defaultStack becomes nil and the new device stays    *)
(* open.  (The launcher's key has no buffer sizes, so no option fails.)     *)
CreateStackFails(t) ==
  /\ engineMu = t
  /\ stage = "stack"
  /\ engineMu' = NoThread
  /\ stage' = "free"
  /\ stack' = 0
  /\ UNCHANGED <<defaultKey, tunnelVars, starts, device, openDevices, openStacks>>

(* Mutation of EnablePIDRouting: SetProxy only when the tunnel has no router. *)
EnablePIDRoutingOnce ==
  /\ Free
  /\ \/ /\ pidRouter # 0
        /\ UNCHANGED tunnelVars
     \/ /\ pidRouter = 0
        /\ routers < MaxEpoch
        /\ routers' = routers + 1
        /\ pidRouter' = routers'
        /\ tunnelProxy' = IF tunnelProxy.kind = "router" THEN tunnelProxy ELSE Router(routers')
        /\ UNCHANGED <<targets, doubleStart>>
  /\ UNCHANGED <<engineMu, stage, defaultKey, deviceVars>>

(* EnablePIDRouting.  When a router is there already it returns without     *)
(* touching the tunnel's proxy.                                             *)
EnablePIDRouting ==
  /\ Free
  /\ \/ /\ pidRouter # 0
        /\ UNCHANGED tunnelVars
     \/ /\ pidRouter = 0
        /\ routers < MaxEpoch
        /\ routers' = routers + 1
        /\ pidRouter' = routers'
        /\ tunnelProxy' = Router(routers')
        /\ UNCHANGED <<targets, doubleStart>>
  /\ UNCHANGED <<engineMu, stage, defaultKey, deviceVars>>

CanSetPIDProxy(p) == pidRouter # 0 /\ p \in Supported

(* SetPIDProxy, when there is a router and the proxy parses.                *)
SetPIDProxy(pid, p) ==
  /\ Free
  /\ CanSetPIDProxy(p)
  /\ targets' = [targets EXCEPT ![pidRouter][pid] = p]
  /\ UNCHANGED <<engineMu, stage, defaultKey, tunnelProxy, pidRouter, routers, doubleStart, deviceVars>>

(* SetPIDProxy returns an error.                                            *)
SetPIDProxyRefused(p) ==
  /\ Free
  /\ ~CanSetPIDProxy(p)
  /\ UNCHANGED engineVars

(* Mutation of StopEngine: the stack is not closed.                         *)
StopDeviceOnly ==
  /\ Free
  /\ openDevices' = openDevices \ {device}
  /\ pidRouter' = 0
  /\ UNCHANGED <<engineMu, stage, defaultKey, tunnelProxy, routers, targets, doubleStart>>
  /\ UNCHANGED <<starts, device, stack, openStacks>>

(* stop(): closes what the two globals name, leaves them set, and forgets   *)
(* the router; the tunnel keeps dialling with what it has.                  *)
StopEngine ==
  /\ Free
  /\ openDevices' = openDevices \ {device}
  /\ openStacks' = openStacks \ {stack}
  /\ pidRouter' = 0
  /\ UNCHANGED <<engineMu, stage, defaultKey, tunnelProxy, routers, targets, doubleStart>>
  /\ UNCHANGED <<starts, device, stack>>

StartReturns(t) == OpenDeviceFails(t) \/ CreateStack(t) \/ CreateStackFails(t)

EngineNext ==
  \/ \E p \in Proxies : Insert(p)
  \/ \E t \in Threads : StartSelect(t) \/ OpenDevice(t) \/ StartReturns(t)
  \/ EnablePIDRouting
  \/ \E pid \in Pids, p \in Proxies : SetPIDProxy(pid, p)
  \/ StopEngine

EngineSpec == EngineInit /\ [][EngineNext]_engineVars

-----------------------------------------------------------------------------
(* engine.go, netstack and EnablePIDRouting: a connection is never dialled  *)
(* through the targets of a router that a later EnablePIDRouting replaced,  *)
(* and the router SetPIDProxy writes to is the newest one, whatever order   *)
(* start, stop and EnablePIDRouting are called in.                          *)
NoStaleRouter ==
  /\ tunnelProxy.kind = "router" => tunnelProxy.of = routers
  /\ pidRouter \in {0, routers}

(* engine.go, netstack and stop: a stack that serves has its device, in     *)
(* every order of starts, half-failed starts and stops; stop never closes   *)
(* the device of a stack it leaves running.                                 *)
StacksHaveDevices ==
  /\ openStacks \subseteq openDevices
  /\ stage = "free" /\ device # 0 /\ stack # 0 => device = stack
=============================================================================
