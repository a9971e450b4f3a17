--------------------------- MODULE LaunchRegistry ---------------------------
(***************************************************************************)
(* The launched applications of netmonitor-gui/main.go: launchedApps, the  *)
(* local proxy bridges of browsers and VS Code, the monitor goroutine of   *)
(* each launch, the preparation of a Chromium profile before a relaunch,   *)
(* shutdownLaunchedApplications and the UI heartbeat that may call it.     *)
(*                                                                         *)
(* A launch is an instance 1, 2, ...; 0 is "none".  launchedAppsMu is held *)
(* only inside single steps.  Timeouts may fire at any time after they     *)
(* were armed; a process query (PowerShell) and taskkill may fail.  The    *)
(* engine's part of a launch is in ProxyControl.                           *)
(***************************************************************************)
EXTENDS Naturals

CONSTANTS
  Apps,        \* application ids
  Browsers,    \* those isChromiumBrowser accepts
  Code,        \* those isVSCode accepts
  Proxies,     \* proxies an application may be launched with
  Closers,     \* calls of shutdownLaunchedApplications, each made at most once
  MaxLaunches  \* bound: launches in one behaviour

ASSUME RegistryAssumption ==
  /\ Browsers \subseteq Apps
  /\ Code \subseteq Apps
  /\ Browsers \intersect Code = {}
  /\ MaxLaunches \in Nat

Instances == 1..MaxLaunches
None      == 0

VARIABLES
  launch,       \* what the handler of each launch does next
  appOf,        \* its application
  proxyOf,      \* its app.Proxy
  old,          \* the entry it found and is going to remove
  bridge,       \* the bridge of each launch
  cmd,          \* the process cmd.Start made: it and its children
  profileOwner, \* the launch whose process runs the profile of an application
  launchedApps, \* the instance recorded for each application
  monitor,      \* what the monitor goroutine of each launch does next
  closer,       \* what each shutdown does next
  why,          \* its reason
  items,        \* its snapshot of launchedApps
  exited        \* os.Exit was called

launchVars  == <<launch, appOf, proxyOf, old>>
processVars == <<cmd, profileOwner>>
closerVars  == <<closer, why, items, exited>>
vars == <<launchVars, bridge, processVars, launchedApps, monitor, closerVars>>

LaunchStages ==
  {"unused", "query", "lookUp", "closeProfile", "dropOld", "closeOld", "build",
   "start", "waitProfile", "bind", "register", "spawn", "done", "failed"}
MonitorStages == {"none", "wait", "poll", "remove", "close", "done"}
CloserStages  == {"unused", "check", "collect", "graceful", "wait", "force",
                  "closed", "return", "done"}
Reasons       == {"stop", "exit", "heartbeat"}

TypeOK ==
  /\ launch \in [Instances -> LaunchStages]
  /\ appOf \in [Instances -> Apps]
  /\ proxyOf \in [Instances -> Proxies]
  /\ old \in [Instances -> Instances \union {None}]
  /\ bridge \in [Instances -> {"none", "open", "closed"}]
  /\ cmd \in [Instances -> {"none", "alive", "dead"}]
  /\ profileOwner \in [Apps -> Instances \union {None}]
  /\ launchedApps \in [Apps -> Instances \union {None}]
  /\ monitor \in [Instances -> MonitorStages]
  /\ closer \in [Closers -> CloserStages]
  /\ why \in [Closers -> Reasons]
  /\ items \in [Closers -> SUBSET Instances]
  /\ exited \in BOOLEAN

Init ==
  /\ launch = [i \in Instances |-> "unused"]
  /\ appOf \in {[i \in Instances |-> a] : a \in Apps}
  /\ proxyOf \in {[i \in Instances |-> p] : p \in Proxies}
  /\ old = [i \in Instances |-> None]
  /\ bridge = [i \in Instances |-> "none"]
  /\ cmd = [i \in Instances |-> "none"]
  /\ profileOwner = [a \in Apps |-> None]
  /\ launchedApps = [a \in Apps |-> None]
  /\ monitor = [i \in Instances |-> "none"]
  /\ closer = [c \in Closers |-> "unused"]
  /\ why = [c \in Closers |-> "stop"]
  /\ items = [c \in Closers |-> {}]
  /\ exited = FALSE

-----------------------------------------------------------------------------
Bridged(a) == a \in Browsers \union Code

(* chromiumPIDs: processes with the application's profile directory.        *)
ProfilePids(a) == {i \in Instances : appOf[i] = a /\ cmd[i] = "alive"}

At(i, stg)   == ~exited /\ launch[i] = stg
Goto(i, stg) == launch' = [launch EXCEPT ![i] = stg]

(* Processes S end; the profile of one of them is free again.               *)
Kill(S) ==
  /\ cmd' = [i \in Instances |-> IF i \in S /\ cmd[i] = "alive" THEN "dead" ELSE cmd[i]]
  /\ profileOwner' = [a \in Apps |-> IF profileOwner[a] \in S THEN None ELSE profileOwner[a]]

CloseBridge(i) ==
  bridge' = [bridge EXCEPT ![i] = IF @ = "open" THEN "closed" ELSE @]

(* A launch request for application a with proxy p.                         *)
Begin(i, a, p) ==
  /\ At(i, "unused")
  /\ i > 1 => launch[i - 1] # "unused"
  /\ appOf' = [appOf EXCEPT ![i] = a]
  /\ proxyOf' = [proxyOf EXCEPT ![i] = p]
  /\ Goto(i, IF a \in Browsers THEN "query" ELSE IF a \in Code THEN "build" ELSE "start")
  /\ UNCHANGED <<old, bridge, processVars, launchedApps, monitor, closerVars>>

(* ensureChromiumProfileReadyForLaunch asks for the profile's processes.    *)
QueryProfile(i) ==
  /\ At(i, "query")
  /\ \/ ProfilePids(appOf[i]) = {} /\ Goto(i, "build")
     \/ ProfilePids(appOf[i]) # {} /\ Goto(i, "lookUp")
     \/ Goto(i, "failed")
  /\ UNCHANGED <<appOf, proxyOf, old, bridge, processVars, launchedApps, monitor, closerVars>>

(* It reads the entry; one with the same proxy is launched over.            *)
Reusable(i) ==
  LET item == launchedApps[appOf[i]] IN item # None /\ proxyOf[item] = proxyOf[i]

LookUp(i) ==
  /\ At(i, "lookUp")
  /\ \/ Reusable(i) /\ Goto(i, "build") /\ UNCHANGED old
     \/ /\ ~Reusable(i)
        /\ old' = [old EXCEPT ![i] = launchedApps[appOf[i]]]
        /\ Goto(i, "closeProfile")
  /\ UNCHANGED <<appOf, proxyOf, bridge, processVars, launchedApps, monitor, closerVars>>

(* closeChromiumProfileProcesses: all of them end, or it returns an error.  *)
CloseProfile(i) ==
  /\ At(i, "closeProfile")
  /\ \/ Kill(ProfilePids(appOf[i])) /\ Goto(i, IF old[i] = None THEN "build" ELSE "dropOld")
     \/ /\ \E S \in SUBSET ProfilePids(appOf[i]) : Kill(S)
        /\ Goto(i, "failed")
  /\ UNCHANGED <<appOf, proxyOf, old, bridge, launchedApps, monitor, closerVars>>

(* Mutation of Delete: whichever instance is recorded.                      *)
DeleteAny(i) == launchedApps' = [launchedApps EXCEPT ![appOf[i]] = None]

(* removeLaunchedApplication(item), the part under the lock.                *)
Recorded(i) == launchedApps[appOf[i]] = i
Delete(i) ==
  launchedApps' = [launchedApps EXCEPT ![appOf[i]] = IF @ = i THEN None ELSE @]

DropOld(i) ==
  /\ At(i, "dropOld")
  /\ Delete(old[i])
  /\ Goto(i, IF Recorded(old[i]) THEN "closeOld" ELSE "build")
  /\ UNCHANGED <<appOf, proxyOf, old, bridge, processVars, monitor, closerVars>>

(* removeLaunchedApplication(item), the rest.                               *)
CloseOld(i) ==
  /\ At(i, "closeOld")
  /\ CloseBridge(old[i])
  /\ Goto(i, "build")
  /\ UNCHANGED <<appOf, proxyOf, old, processVars, launchedApps, monitor, closerVars>>

(* buildLaunchCommand opens the bridge.                                     *)
Build(i) ==
  /\ At(i, "build")
  /\ \/ bridge' = [bridge EXCEPT ![i] = "open"] /\ Goto(i, "start")
     \/ Goto(i, "failed") /\ UNCHANGED bridge
  /\ UNCHANGED <<appOf, proxyOf, old, processVars, launchedApps, monitor, closerVars>>

(* cmd.Start.  A browser or VS Code takes the profile when it is free; when *)
(* another process has it, that one opens the window and this one will end. *)
(* When cmd.Start fails the handler returns and leaves its bridge open.     *)
Start(i) ==
  /\ At(i, "start")
  /\ \/ /\ cmd' = [cmd EXCEPT ![i] = "alive"]
        /\ profileOwner' = [profileOwner EXCEPT ![appOf[i]] =
                              IF Bridged(appOf[i]) /\ @ = None THEN i ELSE @]
        /\ Goto(i, IF Bridged(appOf[i]) THEN "waitProfile" ELSE "bind")
     \/ Goto(i, "failed") /\ UNCHANGED processVars
  /\ UNCHANGED <<appOf, proxyOf, old, bridge, launchedApps, monitor, closerVars>>

(* Mutation of WaitProfile: the bridge stays open when it gives up.         *)
WaitProfileOnly(i) ==
  /\ At(i, "waitProfile")
  /\ (ProfilePids(appOf[i]) # {} /\ Goto(i, "register")) \/ Goto(i, "failed")
  /\ UNCHANGED <<appOf, proxyOf, old, bridge, processVars, launchedApps, monitor, closerVars>>

(* waitForProfileProcesses: found, or 4 s without a good answer.            *)
WaitProfile(i) ==
  /\ At(i, "waitProfile")
  /\ \/ ProfilePids(appOf[i]) # {} /\ Goto(i, "register") /\ UNCHANGED bridge
     \/ CloseBridge(i) /\ Goto(i, "failed")
  /\ UNCHANGED <<appOf, proxyOf, old, processVars, launchedApps, monitor, closerVars>>

(* engine.SetPIDProxy.                                                      *)
Bind(i) ==
  /\ At(i, "bind")
  /\ Goto(i, "register") \/ Goto(i, "failed")
  /\ UNCHANGED <<appOf, proxyOf, old, bridge, processVars, launchedApps, monitor, closerVars>>

(* Mutation of Register: the bridge of the entry is closed after the entry  *)
(* was replaced.                                                            *)
RegisterFirst(i) ==
  /\ At(i, "register")
  /\ CloseBridge(i)
  /\ launchedApps' = [launchedApps EXCEPT ![appOf[i]] = i]
  /\ Goto(i, "spawn")
  /\ UNCHANGED <<appOf, proxyOf, old, processVars, monitor, closerVars>>

(* Under the lock: the previous instance's bridge is closed and its entry   *)
(* replaced.                                                                *)
Register(i) ==
  /\ At(i, "register")
  /\ LET previous == launchedApps[appOf[i]] IN
       bridge' = [j \in Instances |->
                    IF j = previous /\ bridge[j] = "open" THEN "closed" ELSE bridge[j]]
  /\ launchedApps' = [launchedApps EXCEPT ![appOf[i]] = i]
  /\ Goto(i, "spawn")
  /\ UNCHANGED <<appOf, proxyOf, old, processVars, monitor, closerVars>>

(* Mutation of SpawnMonitor: no monitor for the second process of a profile. *)
SpawnFirstMonitor(i) ==
  /\ At(i, "spawn")
  /\ monitor' = [monitor EXCEPT ![i] =
                   IF Bridged(appOf[i]) /\ profileOwner[appOf[i]] # i THEN @ ELSE "wait"]
  /\ Goto(i, "done")
  /\ UNCHANGED <<appOf, proxyOf, old, bridge, processVars, launchedApps, closerVars>>

(* go monitorLaunchedApplication(instance), and the answer 204.             *)
SpawnMonitor(i) ==
  /\ At(i, "spawn")
  /\ monitor' = [monitor EXCEPT ![i] = "wait"]
  /\ Goto(i, "done")
  /\ UNCHANGED <<appOf, proxyOf, old, bridge, processVars, launchedApps, closerVars>>

-----------------------------------------------------------------------------
Monitoring(i, stg)    == ~exited /\ monitor[i] = stg
MonitorGoto(i, stg)   == monitor' = [monitor EXCEPT ![i] = stg]

(* cmd.Wait returns.                                                        *)
MonitorWait(i) ==
  /\ Monitoring(i, "wait")
  /\ cmd[i] = "dead"
  /\ MonitorGoto(i, IF Bridged(appOf[i]) THEN "poll" ELSE "remove")
  /\ UNCHANGED <<launchVars, bridge, processVars, launchedApps, closerVars>>

(* Mutation of MonitorPoll: the profile must have had no other launch.      *)
MonitorPollAlone(i) ==
  /\ Monitoring(i, "poll")
  /\ \A j \in Instances \ {i} : appOf[j] = appOf[i] => cmd[j] = "none"
  /\ ProfilePids(appOf[i]) = {}
  /\ MonitorGoto(i, "remove")
  /\ UNCHANGED <<launchVars, bridge, processVars, launchedApps, closerVars>>

(* monitorChromiumApplication: a good answer without processes ends the     *)
(* poll, at once when one was seen before, else after 5 s.                  *)
MonitorPoll(i) ==
  /\ Monitoring(i, "poll")
  /\ ProfilePids(appOf[i]) = {}
  /\ MonitorGoto(i, "remove")
  /\ UNCHANGED <<launchVars, bridge, processVars, launchedApps, closerVars>>

(* removeLaunchedApplication by the monitor.                                *)
MonitorRemove(i) ==
  /\ Monitoring(i, "remove")
  /\ Delete(i)
  /\ MonitorGoto(i, IF Recorded(i) THEN "close" ELSE "done")
  /\ UNCHANGED <<launchVars, bridge, processVars, closerVars>>

MonitorClose(i) ==
  /\ Monitoring(i, "close")
  /\ CloseBridge(i)
  /\ MonitorGoto(i, "done")
  /\ UNCHANGED <<launchVars, processVars, launchedApps, closerVars>>

(* A process ends by itself: the user closes it, or it has handed over.     *)
ProcessEnds(i) ==
  /\ cmd[i] = "alive"
  /\ Kill({i})
  /\ UNCHANGED <<launchVars, bridge, launchedApps, monitor, closerVars>>

-----------------------------------------------------------------------------
Closing(c, stg)    == ~exited /\ closer[c] = stg
CloserGoto(c, stg) == closer' = [closer EXCEPT ![c] = stg]
Tracked            == {i \in Instances : \E a \in Apps : launchedApps[a] = i}

(* A stop or exit request, or a heartbeat older than 12 s in                *)
(* watchUIHeartbeat: launches do not count as busy operations.              *)
BeginClose(c, r) ==
  /\ Closing(c, "unused")
  /\ why' = [why EXCEPT ![c] = r]
  /\ CloserGoto(c, IF r = "heartbeat" THEN "check" ELSE "collect")
  /\ UNCHANGED <<items, exited, launchVars, bridge, processVars, launchedApps, monitor>>

(* hasLaunchedApplications: the backend stays when there is one.            *)
CheckLaunched(c) ==
  /\ Closing(c, "check")
  /\ CloserGoto(c, IF Tracked = {} THEN "collect" ELSE "done")
  /\ UNCHANGED <<why, items, exited, launchVars, bridge, processVars, launchedApps, monitor>>

(* Mutation of Collect: the keys of launchedApps, not the entries.          *)
CollectKeys(c) ==
  /\ Closing(c, "collect")
  /\ items' = [items EXCEPT ![c] = {a \in Apps \ Code : launchedApps[a] # None}]
  /\ CloserGoto(c, IF items'[c] = {} THEN "return" ELSE "graceful")
  /\ UNCHANGED <<why, exited, launchVars, bridge, processVars, launchedApps, monitor>>

(* shutdownLaunchedApplications: the first snapshot leaves out VS Code.     *)
Collect(c) ==
  /\ Closing(c, "collect")
  /\ items' = [items EXCEPT ![c] = {i \in Tracked : appOf[i] \notin Code}]
  /\ CloserGoto(c, IF items'[c] = {} THEN "return" ELSE "graceful")
  /\ UNCHANGED <<why, exited, launchVars, bridge, processVars, launchedApps, monitor>>

(* rootApplicationPIDs: one of the profile's processes when there is one.   *)
RootPids(i) ==
  IF Bridged(appOf[i]) /\ ProfilePids(appOf[i]) # {} THEN ProfilePids(appOf[i]) ELSE {i}

(* taskkill: each process closes, sooner or later, or does not.             *)
TaskKill(c) == \E S \in SUBSET UNION {RootPids(i) : i \in items[c]} : Kill(S)

CloseGracefully(c) ==
  /\ Closing(c, "graceful")
  /\ TaskKill(c)
  /\ CloserGoto(c, "wait")
  /\ UNCHANGED <<why, items, exited, launchVars, bridge, launchedApps, monitor>>

(* "all launched applications closed gracefully".                           *)
SeeAllClosed(c) ==
  /\ Closing(c, "wait")
  /\ Tracked = {}
  /\ CloserGoto(c, "closed")
  /\ UNCHANGED <<why, items, exited, launchVars, bridge, processVars, launchedApps, monitor>>

(* 5 s are over: the second snapshot takes every entry.                     *)
GiveUpWaiting(c) ==
  /\ Closing(c, "wait")
  /\ items' = [items EXCEPT ![c] = Tracked]
  /\ CloserGoto(c, "force")
  /\ UNCHANGED <<why, exited, launchVars, bridge, processVars, launchedApps, monitor>>

ForceClose(c) ==
  /\ Closing(c, "force")
  /\ TaskKill(c)
  /\ CloserGoto(c, "return")
  /\ UNCHANGED <<why, items, exited, launchVars, bridge, launchedApps, monitor>>

(* The stop handler goes on serving; the others call os.Exit, and every     *)
(* bridge goes with the process.                                            *)
CloseReturns(c) ==
  /\ ~exited
  /\ closer[c] \in {"closed", "return"}
  /\ CloserGoto(c, "done")
  /\ \/ why[c] = "stop" /\ UNCHANGED <<exited, bridge>>
     \/ /\ why[c] # "stop"
        /\ exited' = TRUE
        /\ bridge' = [i \in Instances |-> IF bridge[i] = "open" THEN "closed" ELSE bridge[i]]
  /\ UNCHANGED <<why, items, launchVars, processVars, launchedApps, monitor>>

-----------------------------------------------------------------------------
PrepareStep(i) == QueryProfile(i) \/ LookUp(i) \/ CloseProfile(i) \/ DropOld(i) \/ CloseOld(i)
LaunchStep(i) ==
  \/ PrepareStep(i)
  \/ Build(i) \/ Start(i) \/ WaitProfile(i) \/ Bind(i) \/ Register(i) \/ SpawnMonitor(i)
MonitorStep(i) == MonitorWait(i) \/ MonitorPoll(i) \/ MonitorRemove(i) \/ MonitorClose(i)
CloseStep(c) ==
  \/ CheckLaunched(c) \/ Collect(c) \/ CloseGracefully(c) \/ SeeAllClosed(c)
  \/ GiveUpWaiting(c) \/ ForceClose(c) \/ CloseReturns(c)

Next ==
  \/ \E i \in Instances :
       \/ \E a \in Apps, p \in Proxies : Begin(i, a, p)
       \/ LaunchStep(i) \/ MonitorStep(i) \/ ProcessEnds(i)
  \/ \E c \in Closers : (\E r \in Reasons : BeginClose(c, r)) \/ CloseStep(c)

Spec == Init /\ [][Next]_vars

(* Goroutines that can run do run; a monitor's query succeeds in the end.   *)
Fairness ==
  /\ \A i \in Instances : WF_vars(LaunchStep(i)) /\ WF_vars(MonitorStep(i))
  /\ \A c \in Closers : WF_vars(CloseStep(c))

FairSpec == Spec /\ Fairness

-----------------------------------------------------------------------------
(* main.go launchedApps: the bridge of a recorded browser or VS Code is     *)
(* open, whoever removes, replaces or shuts down what meanwhile.            *)
TrackedBridgeOpen ==
  \A a \in Apps :
    LET i == launchedApps[a] IN
      ~exited /\ i # None => appOf[i] = a /\ (Bridged(a) => bridge[i] = "open")

(* Who will close an open bridge: its launch, its monitor, or the launch    *)
(* that removed it.  A launch whose cmd.Start failed never does.            *)
Cared(i) ==
  \/ launch[i] \in {"start", "waitProfile", "register"}
  \/ Recorded(i)
  \/ monitor[i] = "close"
  \/ \E j \in Instances : launch[j] = "closeOld" /\ old[j] = i

(* main.go, removeLaunchedApplication and handleLaunchApplication: no open  *)
(* bridge is forgotten, except by a failed cmd.Start.                       *)
NoBridgeLeak ==
  \A i \in Instances :
    bridge[i] = "open" => Cared(i) \/ (launch[i] = "failed" /\ cmd[i] = "none")

(* main.go, monitorLaunchedApplication: every recorded instance has a       *)
(* monitor that has yet to remove it, so no entry is stuck.                 *)
TrackedHasMonitor ==
  \A a \in Apps :
    LET i == launchedApps[a] IN
      i # None => launch[i] = "spawn" \/ monitor[i] \in {"wait", "poll", "remove"}

(* main.go, removeLaunchedApplication: an entry is removed only when the    *)
(* process of its own instance is over, by whichever goroutine.             *)
TrackedWhileAlive ==
  [][ \A a \in Apps :
        launchedApps[a] # None /\ launchedApps'[a] = None => cmd[launchedApps[a]] = "dead" ]_vars

AllEnded == \A i \in Instances : cmd[i] # "alive"

(* main.go, monitors: when every process has ended and none is started,     *)
(* nothing stays recorded, so the heartbeat can end the backend.            *)
EntriesRemoved == AllEnded ~> Tracked = {} \/ ~AllEnded \/ exited

(* main.go:1647: "leaving VS Code running during shutdown".                 *)
CodeLeftRunning ==
  \A c \in Closers : closer[c] = "force" => \A i \in items[c] : appOf[i] \notin Code

(* README.md:12: a browser that was launched and is recorded has the bridge *)
(* to its proxy, the one its command line names.                            *)
RunningBrowserHasBridge ==
  \A a \in Browsers :
    LET i == profileOwner[a] IN
      ~exited /\ i # None /\ launch[i] = "done" /\ launchedApps[a] # None => bridge[i] = "open"
=============================================================================
