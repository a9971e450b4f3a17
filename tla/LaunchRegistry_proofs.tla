----------------------- MODULE LaunchRegistry_proofs -----------------------
(***************************************************************************)
(* Proofs about LaunchRegistry: for any number of applications, launches   *)
(* and shutdowns, in any interleaving, a recorded application has its      *)
(* bridge and its monitor, no bridge is forgotten but by a failed          *)
(* cmd.Start, and no entry is dropped while its process runs.              *)
(***************************************************************************)
EXTENDS LaunchRegistry, TLAPS

Preparing == {"query", "lookUp", "closeProfile", "dropOld", "closeOld"}
Recordable == {"spawn", "done"}

(* What the stage of launch i says of its application, bridge and process.  *)
LaunchPhase(i) ==
  /\ launch[i] \in Preparing => appOf[i] \in Browsers
  /\ launch[i] \in {"build", "waitProfile"} => Bridged(appOf[i])
  /\ launch[i] = "bind" => ~Bridged(appOf[i])
  /\ launch[i] \in Preparing \union {"unused", "build"} => bridge[i] = "none"
  /\ launch[i] \in Preparing \union {"unused", "build", "start"} => cmd[i] = "none"
  /\ launch[i] \in Recordable \union {"waitProfile", "bind", "register"} => cmd[i] # "none"
  /\ launch[i] \in {"start", "waitProfile", "register"} /\ Bridged(appOf[i]) /\ ~exited
       => bridge[i] = "open"
  /\ bridge[i] # "none" => Bridged(appOf[i])

(* The entry a launch found and is about to remove.                         *)
OldPhase(i) ==
  /\ launch[i] \in {"closeProfile", "dropOld", "closeOld"} /\ old[i] # None =>
       launch[old[i]] \in Recordable /\ appOf[old[i]] = appOf[i]
  /\ launch[i] \in {"dropOld", "closeOld"} => old[i] # None /\ cmd[old[i]] = "dead"
  /\ launch[i] = "closeOld" => ~Recorded(old[i])

MonitorPhase(i) ==
  /\ monitor[i] # "none" => launch[i] = "done"
  /\ monitor[i] \in {"poll", "remove", "close"} => cmd[i] = "dead"
  /\ monitor[i] = "close" => ~Recorded(i)

Entry(a) ==
  LET i == launchedApps[a] IN
    i # None =>
      /\ appOf[i] = a
      /\ launch[i] \in Recordable
      /\ Bridged(a) /\ ~exited => bridge[i] = "open"
      /\ launch[i] = "spawn" \/ monitor[i] \in {"wait", "poll", "remove"}

RegistryInv ==
  /\ TypeOK
  /\ \A i \in Instances : LaunchPhase(i) /\ OldPhase(i) /\ MonitorPhase(i)
  /\ \A a \in Apps : Entry(a)
  /\ NoBridgeLeak

-----------------------------------------------------------------------------
LEMMA InstanceNumbers == None \notin Instances /\ Instances \subseteq Nat
BY RegistryAssumption DEF None, Instances

LEMMA RegistryInvInit == Init => RegistryInv
<1> SUFFICES ASSUME Init PROVE RegistryInv
  OBVIOUS
<1> USE DEF Init
<1>1. TypeOK
  BY DEF TypeOK, LaunchStages, MonitorStages, CloserStages, Reasons
<1>2. \A i \in Instances : LaunchPhase(i) /\ OldPhase(i) /\ MonitorPhase(i)
  BY DEF LaunchPhase, OldPhase, MonitorPhase, Preparing, Recordable
<1>3. \A a \in Apps : Entry(a)
  BY DEF Entry
<1>4. NoBridgeLeak
  BY DEF NoBridgeLeak
<1>5. QED BY <1>1, <1>2, <1>3, <1>4 DEF RegistryInv

(* Types are kept by every step.                                            *)
LEMMA RegistryTypeStep == TypeOK /\ [Next]_vars => TypeOK'
<1> SUFFICES ASSUME TypeOK, [Next]_vars PROVE TypeOK'
  OBVIOUS
<1> USE InstanceNumbers, RegistryAssumption
    DEF TypeOK, Goto, launchVars, processVars, closerVars, LaunchStages, MonitorStages, CloserStages
<1>1. ASSUME NEW i \in Instances, NEW a \in Apps, NEW p \in Proxies, Begin(i, a, p) PROVE TypeOK'
  BY <1>1 DEF Begin
<1>2. ASSUME NEW i \in Instances, PrepareStep(i) PROVE TypeOK'
  BY <1>2 DEF PrepareStep, QueryProfile, LookUp, CloseProfile, DropOld, CloseOld, Kill, Delete, CloseBridge
<1>3. ASSUME NEW i \in Instances, LaunchStep(i), ~PrepareStep(i) PROVE TypeOK'
  BY <1>3 DEF LaunchStep, Build, Start, WaitProfile, Bind, Register, SpawnMonitor, CloseBridge
<1>4. ASSUME NEW i \in Instances, MonitorStep(i) \/ ProcessEnds(i) PROVE TypeOK'
  BY <1>4 DEF MonitorStep, MonitorWait, MonitorPoll, MonitorRemove, MonitorClose, MonitorGoto,
     ProcessEnds, Kill, Delete, CloseBridge
<1>5. ASSUME NEW c \in Closers, CloseStep(c) \/ \E r \in Reasons : BeginClose(c, r) PROVE TypeOK'
  <2>1. ASSUME NEW S, Kill(S)
        PROVE  /\ cmd' \in [Instances -> {"none", "alive", "dead"}]
               /\ profileOwner' \in [Apps -> Instances \union {None}]
    BY <2>1 DEF Kill
  <2>2. CASE \/ CheckLaunched(c) \/ Collect(c) \/ SeeAllClosed(c) \/ GiveUpWaiting(c)
             \/ \E r \in Reasons : BeginClose(c, r)
    BY <2>2 DEF BeginClose, CheckLaunched, Collect, SeeAllClosed, GiveUpWaiting, Tracked, CloserGoto
  <2>3. CASE CloseGracefully(c) \/ ForceClose(c)
    <3>1. PICK S : Kill(S)
      BY <2>3 DEF CloseGracefully, ForceClose, TaskKill
    <3>2. UNCHANGED <<launchVars, monitor, bridge, launchedApps>>
          /\ closer' \in [Closers -> CloserStages] /\ UNCHANGED <<why, items, exited>>
      BY <2>3 DEF CloseGracefully, ForceClose, CloserGoto
    <3>3. QED BY <2>1, <3>1, <3>2
  <2>4. CASE CloseReturns(c)
    <3>1. UNCHANGED <<launchVars, processVars, launchedApps, monitor, why, items>>
          /\ closer' \in [Closers -> CloserStages]
      BY <2>4 DEF CloseReturns, CloserGoto
    <3>2. /\ exited' \in BOOLEAN
          /\ \/ bridge' = bridge
             \/ bridge' = [i \in Instances |-> IF bridge[i] = "open" THEN "closed" ELSE bridge[i]]
      BY <2>4 DEF CloseReturns
    <3>3. bridge' \in [Instances -> {"none", "open", "closed"}]
      BY <3>2
    <3>4. QED BY <3>1, <3>2, <3>3
  <2>5. QED BY <1>5, <2>2, <2>3, <2>4 DEF CloseStep
<1>6. CASE UNCHANGED vars
  BY <1>6 DEF vars
<1>7. QED BY <1>1, <1>2, <1>3, <1>4, <1>5, <1>6 DEF Next

Phases == \A i \in Instances : LaunchPhase(i) /\ OldPhase(i) /\ MonitorPhase(i)
Entries == \A a \in Apps : Entry(a)

(* What a launch knows of the entry it removes survives every step that     *)
(* leaves that launch alone: a recorded instance stays past its             *)
(* registration, its process stays over, and it is not recorded again.      *)
LEMMA OldKeeps ==
  ASSUME RegistryInv, NEW j \in Instances, UNCHANGED <<appOf, old[j]>>,
         launch'[j] = launch[j] \/ launch'[j] \notin {"closeProfile", "dropOld", "closeOld"},
         \A k \in Instances : launch[k] \in Recordable =>
           /\ launch'[k] \in Recordable
           /\ cmd[k] = "dead" => cmd'[k] = "dead"
           /\ Recorded(k)' => Recorded(k)
  PROVE  OldPhase(j)'
<1>1. CASE launch'[j] \notin {"closeProfile", "dropOld", "closeOld"}
  BY <1>1 DEF OldPhase
<1>2. CASE launch'[j] = launch[j] /\ launch[j] \in {"closeProfile", "dropOld", "closeOld"}
  <2> DEFINE o == old[j]
  <2>1. o \in Instances \union {None} /\ old'[j] = o
    BY DEF RegistryInv, TypeOK
  <2>2. OldPhase(j)
    BY DEF RegistryInv
  <2>3. CASE o = None
    BY <1>2, <2>1, <2>2, <2>3 DEF OldPhase
  <2>4. CASE o # None
    <3>1. o \in Instances /\ launch[o] \in Recordable /\ appOf[o] = appOf[j]
      BY <1>2, <2>1, <2>2, <2>4 DEF OldPhase
    <3>2. launch'[o] \in Recordable /\ (cmd[o] = "dead" => cmd'[o] = "dead") /\ (Recorded(o)' => Recorded(o))
      BY <3>1
    <3>3. launch[j] \in {"dropOld", "closeOld"} => cmd'[o] = "dead"
      BY <2>2, <3>2 DEF OldPhase
    <3>4. launch[j] = "closeOld" => ~Recorded(o)'
      BY <2>2, <3>2 DEF OldPhase
    <3>5. Recorded(o)' <=> Recorded(old[j])'
      BY <2>1 DEF Recorded
    <3>6. launch'[old'[j]] \in Recordable /\ appOf'[old'[j]] = appOf'[j]
      BY <2>1, <3>1, <3>2
    <3>7. launch'[j] \in {"dropOld", "closeOld"} => old'[j] # None /\ cmd'[old'[j]] = "dead"
      BY <1>2, <2>1, <2>4, <3>3
    <3>8. launch'[j] = "closeOld" => ~Recorded(old[j])'
      BY <1>2, <3>4, <3>5
    <3>9. QED BY <3>6, <3>7, <3>8 DEF OldPhase
  <2>5. QED BY <2>3, <2>4
<1>3. QED BY <1>1, <1>2

(* A step that touches no entry, no recorded launch, and no application,    *)
(* bridge or monitor keeps what is known of the entries.                    *)
LEMMA EntriesKept ==
  ASSUME RegistryInv,
         UNCHANGED <<appOf, bridge, launchedApps, monitor, exited>>,
         \A k \in Instances : launch[k] \in Recordable => launch'[k] = launch[k]
  PROVE  Entries'
<1>1. SUFFICES ASSUME NEW a \in Apps
               PROVE  Entry(a)'
  BY DEF Entries
<1> DEFINE i == launchedApps[a]
<1>2. i \in Instances \union {None} /\ Entry(a)
  BY DEF RegistryInv, TypeOK
<1>3. launchedApps'[a] = i
  OBVIOUS
<1>4. CASE i = None
  BY <1>3, <1>4 DEF Entry
<1>5. CASE i # None
  <2>1. launch[i] \in Recordable /\ i \in Instances
    BY <1>2, <1>5 DEF Entry
  <2>2. launch'[i] = launch[i]
    BY <2>1
  <2>3. QED BY <1>2, <1>3, <2>2 DEF Entry, Bridged
<1>6. QED BY <1>4, <1>5

(* Steps of a launch.                                                       *)
LEMMA LaunchStepInv ==
  ASSUME RegistryInv, TypeOK', NEW i \in Instances, LaunchStep(i)
  PROVE  Phases' /\ Entries' /\ NoBridgeLeak'
<1> USE InstanceNumbers DEF RegistryInv, TypeOK, At, Goto, launchVars, processVars, closerVars
<1>1. CASE QueryProfile(i)
  <2>1. Phases'
    <3>1. \A j \in Instances : LaunchPhase(j)'
      BY <1>1 DEF QueryProfile, LaunchPhase, Preparing, Recordable, Bridged
    <3>2. \A j \in Instances : OldPhase(j)'
      BY <1>1 DEF QueryProfile, LaunchPhase, OldPhase, Recorded, Preparing, Recordable, Entry
    <3>3. \A j \in Instances : MonitorPhase(j)'
      BY <1>1 DEF QueryProfile, LaunchPhase, MonitorPhase, Recorded, Preparing
    <3>4. QED BY <3>1, <3>2, <3>3 DEF Phases
  <2>2. Entries'
    BY <1>1 DEF QueryProfile, Entries, Entry, Recordable
  <2>3. NoBridgeLeak'
    BY <1>1 DEF QueryProfile, NoBridgeLeak, Cared, Recorded
  <2>4. QED BY <2>1, <2>2, <2>3
<1>2. CASE LookUp(i)
  <2>1. Phases'
    <3>1. \A j \in Instances : LaunchPhase(j)'
      BY <1>2 DEF LookUp, Reusable, LaunchPhase, Preparing, Recordable, Bridged
    <3>2. \A j \in Instances : OldPhase(j)'
      <4>1. SUFFICES ASSUME NEW j \in Instances
                     PROVE  OldPhase(j)'
        OBVIOUS
      <4>2. OldPhase(j) /\ LaunchPhase(j) /\ LaunchPhase(i)
        OBVIOUS
      <4>3. \A k \in Instances : launch[k] \in Recordable =>
              launch'[k] \in Recordable /\ cmd'[k] = cmd[k] /\ (Recorded(k)' <=> Recorded(k))
        BY <1>2 DEF LookUp, Reusable, Recordable, Recorded
      <4>4. CASE j = i
        BY <1>2, <4>2, <4>3, <4>4 DEF LookUp, Reusable, OldPhase, LaunchPhase, Recorded, Recordable, Entry
      <4>5. CASE j # i
        <5>1. launch'[j] = launch[j] /\ UNCHANGED <<appOf, old[j]>>
          BY <1>2, <4>5 DEF LookUp, Reusable
        <5>2. QED BY <4>3, <5>1, OldKeeps
      <4>6. QED BY <4>4, <4>5
    <3>3. \A j \in Instances : MonitorPhase(j)'
      BY <1>2 DEF LookUp, Reusable, LaunchPhase, MonitorPhase, Recorded, Preparing
    <3>4. QED BY <3>1, <3>2, <3>3 DEF Phases
  <2>2. Entries'
    <3>1. \A k \in Instances : launch[k] \in Recordable => launch'[k] = launch[k]
      BY <1>2 DEF LookUp, Recordable
    <3>2. UNCHANGED <<appOf, bridge, launchedApps, monitor, exited>>
      BY <1>2 DEF LookUp
    <3>3. QED BY <3>1, <3>2, EntriesKept
  <2>3. NoBridgeLeak'
    BY <1>2 DEF LookUp, NoBridgeLeak, Cared, Recorded
  <2>4. QED BY <2>1, <2>2, <2>3
<1>3. CASE CloseProfile(i)
  <2>1. Phases'
    <3>1. \A j \in Instances : LaunchPhase(j)'
      BY <1>3 DEF CloseProfile, Kill, ProfilePids, LaunchPhase, Preparing, Recordable, Bridged
    <3>2. \A j \in Instances : OldPhase(j)'
      <4>1. /\ UNCHANGED <<appOf, old, launchedApps>>
            /\ launch[i] = "closeProfile"
            /\ \/ launch'[i] = "build" /\ old[i] = None
               \/ launch'[i] = "dropOld" /\ old[i] # None /\ Kill(ProfilePids(appOf[i]))
               \/ launch'[i] = "failed"
            /\ \A j \in Instances : j # i => launch'[j] = launch[j]
        BY <1>3 DEF CloseProfile
      <4>2. \A j \in Instances : cmd[j] = "dead" => cmd'[j] = "dead"
        BY <1>3 DEF CloseProfile, Kill
      <4>3. ASSUME launch'[i] = "dropOld"
            PROVE  /\ old[i] \in Instances
                   /\ launch[old[i]] \in Recordable
                   /\ appOf[old[i]] = appOf[i]
                   /\ cmd'[old[i]] = "dead"
        <5>1. /\ old[i] \in Instances
              /\ launch[old[i]] \in Recordable
              /\ appOf[old[i]] = appOf[i]
          BY <4>1, <4>3 DEF OldPhase
        <5>2. cmd[old[i]] # "none"
          BY <5>1 DEF LaunchPhase
        <5>3. cmd'[old[i]] = "dead"
          <6> DEFINE o == old[i]
          <6>1. cmd[o] = "dead" => cmd'[o] = "dead"
            BY <4>2, <5>1
          <6>2. cmd[o] = "alive" => o \in ProfilePids(appOf[i])
            BY <5>1 DEF ProfilePids
          <6>3. Kill(ProfilePids(appOf[i]))
            BY <4>1, <4>3
          <6>4. cmd[o] = "alive" => cmd'[o] = "dead"
            BY <5>1, <6>2, <6>3 DEF Kill
          <6>5. QED BY <5>1, <5>2, <6>1, <6>4
        <5>4. QED BY <5>1, <5>3
      <4>4. CASE launch'[i] = "dropOld"
        <5>1. OldPhase(i)'
          BY <4>1, <4>3, <4>4 DEF OldPhase, Recordable
        <5>2. QED BY <4>1, <4>2, <4>4, <5>1, OldKeeps DEF Recorded, Recordable
      <4>5. QED BY <4>1, <4>2, <4>4, OldKeeps DEF Recorded, Recordable
    <3>3. \A j \in Instances : MonitorPhase(j)'
      BY <1>3 DEF CloseProfile, Kill, ProfilePids, LaunchPhase, MonitorPhase, Recorded, Preparing
    <3>4. QED BY <3>1, <3>2, <3>3 DEF Phases
  <2>2. Entries'
    BY <1>3 DEF CloseProfile, Entries, Entry, Recordable
  <2>3. NoBridgeLeak'
    BY <1>3 DEF CloseProfile, Kill, NoBridgeLeak, Cared, Recorded
  <2>4. QED BY <2>1, <2>2, <2>3
<1>4. CASE DropOld(i)
  <2>1. Phases'
    <3>1. \A j \in Instances : LaunchPhase(j)'
      BY <1>4 DEF DropOld, Delete, LaunchPhase, Preparing, Recordable, Bridged
    <3>2. \A j \in Instances : OldPhase(j)'
      BY <1>4 DEF DropOld, Delete, LaunchPhase, OldPhase, Recorded, Preparing, Recordable, Entry
    <3>3. \A j \in Instances : MonitorPhase(j)'
      BY <1>4 DEF DropOld, Delete, LaunchPhase, MonitorPhase, Recorded, Preparing
    <3>4. QED BY <3>1, <3>2, <3>3 DEF Phases
  <2>2. Entries'
    BY <1>4 DEF DropOld, Delete, Entries, Entry, Recordable
  <2>3. NoBridgeLeak'
    BY <1>4 DEF DropOld, Delete, NoBridgeLeak, Cared, Recorded, OldPhase
  <2>4. QED BY <2>1, <2>2, <2>3
<1>5. CASE CloseOld(i)
  <2>1. Phases'
    <3>1. \A j \in Instances : LaunchPhase(j)'
      BY <1>5 DEF CloseOld, CloseBridge, LaunchPhase, OldPhase, Preparing, Recordable, Bridged
    <3>2. \A j \in Instances : OldPhase(j)'
      BY <1>5 DEF CloseOld, CloseBridge, LaunchPhase, OldPhase, Recorded, Preparing, Recordable, Entry
    <3>3. \A j \in Instances : MonitorPhase(j)'
      BY <1>5 DEF CloseOld, CloseBridge, LaunchPhase, MonitorPhase, Recorded, Preparing
    <3>4. QED BY <3>1, <3>2, <3>3 DEF Phases
  <2>2. Entries'
    BY <1>5 DEF CloseOld, CloseBridge, Entries, Entry, Recordable, OldPhase, Recorded
  <2>3. NoBridgeLeak'
    BY <1>5 DEF CloseOld, CloseBridge, NoBridgeLeak, Cared, Recorded
  <2>4. QED BY <2>1, <2>2, <2>3
<1>6. CASE Build(i)
  <2>1. Phases'
    <3>1. \A j \in Instances : LaunchPhase(j)'
      BY <1>6 DEF Build, LaunchPhase, Preparing, Recordable, Bridged
    <3>2. \A j \in Instances : OldPhase(j)'
      <4>1. UNCHANGED <<appOf, old, cmd, launchedApps>> /\ launch[i] = "build"
            /\ launch'[i] \in {"start", "failed"}
            /\ \A j \in Instances : j # i => launch'[j] = launch[j]
        BY <1>6 DEF Build
      <4>2. QED BY <4>1, OldKeeps DEF Recorded, Recordable
    <3>3. \A j \in Instances : MonitorPhase(j)'
      BY <1>6 DEF Build, LaunchPhase, MonitorPhase, Recorded, Preparing
    <3>4. QED BY <3>1, <3>2, <3>3 DEF Phases
  <2>2. Entries'
    <3>1. UNCHANGED <<appOf, monitor, launchedApps, exited>> /\ launch[i] = "build"
          /\ \A j \in Instances : j # i => launch'[j] = launch[j] /\ bridge'[j] = bridge[j]
      BY <1>6 DEF Build
    <3>2. \A a \in Apps : launchedApps[a] # None => launchedApps[a] \in Instances \ {i}
      BY <3>1 DEF Entry, Recordable
    <3>3. ASSUME NEW a \in Apps, launchedApps'[a] # None PROVE Entry(a)'
      <4>1. launchedApps[a] \in Instances \ {i} /\ launchedApps'[a] = launchedApps[a] /\ Entry(a)
        BY <3>1, <3>2, <3>3
      <4>2. QED BY <3>1, <4>1 DEF Entry, Bridged
    <3>4. QED BY <3>3 DEF Entries, Entry
  <2>3. NoBridgeLeak'
    BY <1>6 DEF Build, NoBridgeLeak, Cared, Recorded
  <2>4. QED BY <2>1, <2>2, <2>3
<1>7. CASE Start(i)
  <2>1. Phases'
    <3>1. \A j \in Instances : LaunchPhase(j)'
      BY <1>7 DEF Start, LaunchPhase, Preparing, Recordable, Bridged
    <3>2. \A j \in Instances : OldPhase(j)'
      <4>1. UNCHANGED <<appOf, old, launchedApps>> /\ launch[i] = "start"
            /\ launch'[i] \in {"waitProfile", "bind", "failed"}
            /\ \A j \in Instances : j # i => launch'[j] = launch[j] /\ cmd'[j] = cmd[j]
        BY <1>7 DEF Start
      <4>2. QED BY <4>1, OldKeeps DEF Recorded, Recordable
    <3>3. \A j \in Instances : MonitorPhase(j)'
      <4>1. UNCHANGED <<monitor, launchedApps, appOf>> /\ launch[i] = "start"
            /\ \A j \in Instances : j # i => launch'[j] = launch[j] /\ cmd'[j] = cmd[j]
        BY <1>7 DEF Start
      <4>2. \A j \in Instances : MonitorPhase(j)
        OBVIOUS
      <4>3. QED BY <4>1, <4>2 DEF MonitorPhase, Recorded
    <3>4. QED BY <3>1, <3>2, <3>3 DEF Phases
  <2>2. Entries'
    <3>1. \A k \in Instances : launch[k] \in Recordable => launch'[k] = launch[k]
      BY <1>7 DEF Start, Recordable
    <3>2. UNCHANGED <<appOf, bridge, launchedApps, monitor, exited>>
      BY <1>7 DEF Start
    <3>3. QED BY <3>1, <3>2, EntriesKept
  <2>3. NoBridgeLeak'
    <3>1. UNCHANGED <<bridge, appOf, old, launchedApps, monitor>>
      BY <1>7 DEF Start
    <3>2. /\ \A j \in Instances : j # i => launch'[j] = launch[j] /\ cmd'[j] = cmd[j]
          /\ launch[i] = "start"
          /\ \/ launch'[i] = "waitProfile"
             \/ launch'[i] = "bind" /\ ~Bridged(appOf[i])
             \/ launch'[i] = "failed" /\ cmd'[i] = "none"
      BY <1>7 DEF Start, LaunchPhase
    <3>3. \A j \in Instances : j # i /\ Cared(j) => Cared(j)'
      BY <3>1, <3>2 DEF Cared, Recorded
    <3>4. QED BY <3>1, <3>2, <3>3 DEF NoBridgeLeak, Cared, LaunchPhase
  <2>4. QED BY <2>1, <2>2, <2>3
<1>8. CASE WaitProfile(i)
  <2>1. Phases'
    <3>1. \A j \in Instances : LaunchPhase(j)'
      BY <1>8 DEF WaitProfile, CloseBridge, LaunchPhase, Preparing, Recordable, Bridged
    <3>2. \A j \in Instances : OldPhase(j)'
      BY <1>8 DEF WaitProfile, CloseBridge, LaunchPhase, OldPhase, Recorded, Preparing, Recordable, Entry
    <3>3. \A j \in Instances : MonitorPhase(j)'
      BY <1>8 DEF WaitProfile, CloseBridge, LaunchPhase, MonitorPhase, Recorded, Preparing
    <3>4. QED BY <3>1, <3>2, <3>3 DEF Phases
  <2>2. Entries'
    BY <1>8 DEF WaitProfile, CloseBridge, Entries, Entry, Recordable
  <2>3. NoBridgeLeak'
    BY <1>8 DEF WaitProfile, CloseBridge, NoBridgeLeak, Cared, Recorded
  <2>4. QED BY <2>1, <2>2, <2>3
<1>9. CASE Bind(i)
  <2>1. Phases'
    <3>1. \A j \in Instances : LaunchPhase(j)'
      BY <1>9 DEF Bind, LaunchPhase, Preparing, Recordable, Bridged
    <3>2. \A j \in Instances : OldPhase(j)'
      <4>1. SUFFICES ASSUME NEW j \in Instances
                     PROVE  OldPhase(j)'
        OBVIOUS
      <4>2. OldPhase(j) /\ LaunchPhase(j) /\ LaunchPhase(i)
        OBVIOUS
      <4>3. \A k \in Instances : launch[k] \in Recordable =>
              launch'[k] \in Recordable /\ cmd'[k] = cmd[k] /\ (Recorded(k)' <=> Recorded(k))
        BY <1>9 DEF Bind, Recordable, Recorded
      <4>4. CASE j = i
        BY <1>9, <4>2, <4>3, <4>4 DEF Bind, OldPhase, LaunchPhase, Recorded, Recordable, Entry
      <4>5. CASE j # i
        <5>1. launch'[j] = launch[j] /\ UNCHANGED <<appOf, old[j]>>
          BY <1>9, <4>5 DEF Bind
        <5>2. QED BY <4>3, <5>1, OldKeeps
      <4>6. QED BY <4>4, <4>5
    <3>3. \A j \in Instances : MonitorPhase(j)'
      BY <1>9 DEF Bind, LaunchPhase, MonitorPhase, Recorded, Preparing
    <3>4. QED BY <3>1, <3>2, <3>3 DEF Phases
  <2>2. Entries'
    <3>1. \A k \in Instances : launch[k] \in Recordable => launch'[k] = launch[k]
      BY <1>9 DEF Bind, Recordable
    <3>2. UNCHANGED <<appOf, bridge, launchedApps, monitor, exited>>
      BY <1>9 DEF Bind
    <3>3. QED BY <3>1, <3>2, EntriesKept
  <2>3. NoBridgeLeak'
    BY <1>9 DEF Bind, NoBridgeLeak, Cared, Recorded, LaunchPhase
  <2>4. QED BY <2>1, <2>2, <2>3
<1>10. CASE Register(i)
  <2>1. Phases'
    <3>1. \A j \in Instances : LaunchPhase(j)'
      BY <1>10 DEF Register, LaunchPhase, Preparing, Recordable, Bridged, Entry
    <3>2. \A j \in Instances : OldPhase(j)'
      BY <1>10 DEF Register, LaunchPhase, OldPhase, Recorded, Preparing, Recordable, Entry
    <3>3. \A j \in Instances : MonitorPhase(j)'
      BY <1>10 DEF Register, LaunchPhase, MonitorPhase, Recorded, Preparing
    <3>4. QED BY <3>1, <3>2, <3>3 DEF Phases
  <2>2. Entries'
    BY <1>10 DEF Register, Entries, Entry, Recordable, LaunchPhase
  <2>3. NoBridgeLeak'
    BY <1>10 DEF Register, NoBridgeLeak, Cared, Recorded, LaunchPhase, Entry
  <2>4. QED BY <2>1, <2>2, <2>3
<1>11. CASE SpawnMonitor(i)
  <2>1. Phases'
    <3>1. \A j \in Instances : LaunchPhase(j)'
      BY <1>11 DEF SpawnMonitor, LaunchPhase, Preparing, Recordable, Bridged
    <3>2. \A j \in Instances : OldPhase(j)'
      BY <1>11 DEF SpawnMonitor, LaunchPhase, OldPhase, Recorded, Preparing, Recordable, Entry
    <3>3. \A j \in Instances : MonitorPhase(j)'
      BY <1>11 DEF SpawnMonitor, LaunchPhase, MonitorPhase, Recorded, Preparing
    <3>4. QED BY <3>1, <3>2, <3>3 DEF Phases
  <2>2. Entries'
    BY <1>11 DEF SpawnMonitor, Entries, Entry, Recordable
  <2>3. NoBridgeLeak'
    BY <1>11 DEF SpawnMonitor, NoBridgeLeak, Cared, Recorded, MonitorPhase
  <2>4. QED BY <2>1, <2>2, <2>3
<1>12. QED
  BY <1>1, <1>2, <1>3, <1>4, <1>5, <1>6, <1>7, <1>8, <1>9, <1>10, <1>11 DEF LaunchStep, PrepareStep

(* Processes S end.                                                         *)
LEMMA KillInv ==
  ASSUME RegistryInv, NEW S, Kill(S),
         UNCHANGED <<launchVars, bridge, launchedApps, monitor, exited>>
  PROVE  Phases' /\ Entries' /\ NoBridgeLeak'
<1> USE DEF RegistryInv, TypeOK, launchVars
<1>1. \A j \in Instances : (cmd[j] = "dead" => cmd'[j] = "dead") /\ (cmd[j] = "none" <=> cmd'[j] = "none")
  BY DEF Kill
<1>2. \A j \in Instances : LaunchPhase(j)'
  BY <1>1 DEF LaunchPhase, Bridged
<1>3. \A j \in Instances : OldPhase(j)'
  BY <1>1, OldKeeps DEF Recorded
<1>4. \A j \in Instances : MonitorPhase(j)'
  BY <1>1 DEF MonitorPhase, Recorded
<1>5. Entries'
  BY DEF Entries, Entry, Bridged
<1>6. NoBridgeLeak'
  BY <1>1 DEF NoBridgeLeak, Cared, Recorded
<1>7. QED BY <1>2, <1>3, <1>4, <1>5, <1>6 DEF Phases

(* Steps that change nothing the invariant speaks of.                       *)
LEMMA FrameInv ==
  ASSUME RegistryInv, UNCHANGED <<launchVars, bridge, cmd, launchedApps, monitor, exited>>
  PROVE  Phases' /\ Entries' /\ NoBridgeLeak'
BY DEF RegistryInv, launchVars, Phases, LaunchPhase, OldPhase, MonitorPhase, Entries, Entry,
   NoBridgeLeak, Cared, Recorded, Bridged

(* Steps of a monitor.                                                      *)
LEMMA MonitorStepInv ==
  ASSUME RegistryInv, TypeOK', NEW i \in Instances, MonitorStep(i)
  PROVE  Phases' /\ Entries' /\ NoBridgeLeak'
<1> USE InstanceNumbers DEF RegistryInv, TypeOK, Monitoring, MonitorGoto, launchVars, processVars, closerVars
<1>1. \A j \in Instances : LaunchPhase(j)'
  BY DEF MonitorStep, MonitorWait, MonitorPoll, MonitorRemove, MonitorClose, CloseBridge,
     LaunchPhase, MonitorPhase, Bridged, Preparing
<1>2. \A j \in Instances : OldPhase(j)'
  BY DEF MonitorStep, MonitorWait, MonitorPoll, MonitorRemove, MonitorClose, Delete, OldPhase, Recorded
<1>3. \A j \in Instances : MonitorPhase(j)'
  BY DEF MonitorStep, MonitorWait, MonitorPoll, MonitorRemove, MonitorClose, Delete, MonitorPhase, Recorded
<1>4. Entries'
  <2>1. CASE MonitorWait(i) \/ MonitorPoll(i)
    <3>1. /\ UNCHANGED <<launch, appOf, bridge, launchedApps, exited>>
          /\ monitor'[i] \in {"poll", "remove"}
          /\ \A j \in Instances : j # i => monitor'[j] = monitor[j]
      BY <2>1 DEF MonitorWait, MonitorPoll
    <3>2. ASSUME NEW a \in Apps, launchedApps'[a] # None PROVE Entry(a)'
      <4>1. launchedApps[a] \in Instances /\ launchedApps'[a] = launchedApps[a] /\ Entry(a)
        BY <3>1, <3>2
      <4>2. QED BY <3>1, <4>1 DEF Entry, Bridged
    <3>3. QED BY <3>2 DEF Entries, Entry
  <2>2. CASE MonitorRemove(i)
    BY <2>2 DEF MonitorRemove, Delete, Entries, Entry, Bridged
  <2>3. CASE MonitorClose(i)
    BY <2>3 DEF MonitorClose, CloseBridge, MonitorPhase, Entries, Entry, Bridged, Recorded
  <2>4. QED BY <2>1, <2>2, <2>3 DEF MonitorStep
<1>5. NoBridgeLeak'
  BY DEF MonitorStep, MonitorWait, MonitorPoll, MonitorRemove, MonitorClose, Delete, CloseBridge,
     NoBridgeLeak, Cared, Recorded, MonitorPhase
<1>6. QED BY <1>1, <1>2, <1>3, <1>4, <1>5 DEF Phases

(* A launch request arrives.                                                *)
LEMMA BeginInv ==
  ASSUME RegistryInv, TypeOK', NEW i \in Instances, NEW a \in Apps, NEW p \in Proxies, Begin(i, a, p)
  PROVE  Phases' /\ Entries' /\ NoBridgeLeak'
<1> USE InstanceNumbers DEF RegistryInv, TypeOK, At, Goto, Begin, processVars, closerVars
<1>1. \A j \in Instances : LaunchPhase(j)'
  BY RegistryAssumption DEF LaunchPhase, Bridged, Preparing, Recordable
<1>2. \A j \in Instances : OldPhase(j)'
  BY DEF OldPhase, Recorded, Recordable
<1>3. \A j \in Instances : MonitorPhase(j)'
  BY DEF MonitorPhase, Recorded
<1>4. Entries'
  BY DEF Entries, Entry, Recordable, Bridged
<1>5. NoBridgeLeak'
  <2>1. \A j \in Instances : j # i /\ Cared(j) => Cared(j)'
    BY DEF Cared, Recorded
  <2>2. bridge[i] = "none"
    BY DEF LaunchPhase
  <2>3. QED BY <2>1, <2>2 DEF NoBridgeLeak
<1>6. QED BY <1>1, <1>2, <1>3, <1>4, <1>5 DEF Phases

(* os.Exit.                                                                 *)
LEMMA ExitInv ==
  ASSUME RegistryInv, TypeOK', NEW c \in Closers, CloseReturns(c)
  PROVE  Phases' /\ Entries' /\ NoBridgeLeak'
<1>1. CASE why[c] = "stop" /\ UNCHANGED <<exited, bridge>>
  BY <1>1, FrameInv DEF CloseReturns, processVars
<1>2. CASE exited' /\ bridge' = [i \in Instances |-> IF bridge[i] = "open" THEN "closed" ELSE bridge[i]]
  BY <1>2 DEF CloseReturns, RegistryInv, launchVars, processVars, Phases, LaunchPhase, OldPhase, MonitorPhase,
     Entries, Entry, NoBridgeLeak, Recorded, Bridged
<1>3. QED BY <1>1, <1>2 DEF CloseReturns

LEMMA RegistryInvStep == RegistryInv /\ [Next]_vars => RegistryInv'
<1> SUFFICES ASSUME RegistryInv, [Next]_vars PROVE RegistryInv'
  OBVIOUS
<1>1. TypeOK'
  BY RegistryTypeStep DEF RegistryInv
<1> SUFFICES Phases' /\ Entries' /\ NoBridgeLeak'
  BY <1>1 DEF RegistryInv, Phases, Entries
<1>2. ASSUME NEW i \in Instances, NEW a \in Apps, NEW p \in Proxies, Begin(i, a, p)
      PROVE  Phases' /\ Entries' /\ NoBridgeLeak'
  BY <1>1, <1>2, BeginInv
<1>3. ASSUME NEW i \in Instances, LaunchStep(i) PROVE Phases' /\ Entries' /\ NoBridgeLeak'
  BY <1>1, <1>3, LaunchStepInv
<1>4. ASSUME NEW i \in Instances, MonitorStep(i) PROVE Phases' /\ Entries' /\ NoBridgeLeak'
  BY <1>1, <1>4, MonitorStepInv
<1>5. ASSUME NEW i \in Instances, ProcessEnds(i) PROVE Phases' /\ Entries' /\ NoBridgeLeak'
  BY <1>5, KillInv DEF ProcessEnds, closerVars
<1>6. ASSUME NEW c \in Closers, CloseGracefully(c) \/ ForceClose(c)
      PROVE  Phases' /\ Entries' /\ NoBridgeLeak'
  BY <1>6, KillInv DEF CloseGracefully, ForceClose, TaskKill
<1>7. ASSUME NEW c \in Closers, CloseReturns(c) PROVE Phases' /\ Entries' /\ NoBridgeLeak'
  BY <1>1, <1>7, ExitInv
<1>8. ASSUME NEW c \in Closers,
             \/ CheckLaunched(c) \/ Collect(c) \/ SeeAllClosed(c) \/ GiveUpWaiting(c)
             \/ \E r \in Reasons : BeginClose(c, r)
      PROVE  Phases' /\ Entries' /\ NoBridgeLeak'
  BY <1>8, FrameInv DEF CheckLaunched, Collect, SeeAllClosed, GiveUpWaiting, BeginClose, processVars
<1>9. CASE UNCHANGED vars
  BY <1>9, FrameInv DEF vars, processVars, closerVars
<1>10. QED
  BY <1>2, <1>3, <1>4, <1>5, <1>6, <1>7, <1>8, <1>9 DEF Next, CloseStep

LEMMA RegistryInvariant == Spec => []RegistryInv
BY RegistryInvInit, RegistryInvStep, PTL DEF Spec

(* main.go launchedApps and its goroutines: every variable keeps its type.  *)
THEOREM RegistryTypeCorrect == Spec => []TypeOK
<1>1. RegistryInv => TypeOK
  BY DEF RegistryInv
<1>2. QED BY <1>1, RegistryInvariant, PTL

(* main.go launchedApps: the bridge of a recorded application is open.      *)
THEOREM TrackedBridgesAreOpen == Spec => []TrackedBridgeOpen
<1>1. RegistryInv => TrackedBridgeOpen
  BY DEF RegistryInv, TrackedBridgeOpen, Entry
<1>2. QED BY <1>1, RegistryInvariant, PTL

(* main.go removeLaunchedApplication: only a failed cmd.Start loses a bridge. *)
THEOREM BridgesAreNotLeaked == Spec => []NoBridgeLeak
<1>1. RegistryInv => NoBridgeLeak
  BY DEF RegistryInv
<1>2. QED BY <1>1, RegistryInvariant, PTL

(* main.go monitorLaunchedApplication: a recorded application is monitored. *)
THEOREM TrackedAreMonitored == Spec => []TrackedHasMonitor
<1>1. RegistryInv => TrackedHasMonitor
  BY DEF RegistryInv, TrackedHasMonitor, Entry
<1>2. QED BY <1>1, RegistryInvariant, PTL

(* main.go removeLaunchedApplication: an entry goes after its process.      *)
THEOREM EntriesOutliveProcesses == Spec => TrackedWhileAlive
<1>1. ASSUME RegistryInv, [Next]_vars, NEW a \in Apps,
             launchedApps[a] # None, launchedApps'[a] = None
      PROVE  cmd[launchedApps[a]] = "dead"
  <2> DEFINE i == launchedApps[a]
  <2>1. i \in Instances /\ appOf[i] = a
    BY <1>1 DEF RegistryInv, TypeOK, Entry
  <2>2. \/ \E j \in Instances : DropOld(j)
        \/ \E j \in Instances : MonitorRemove(j)
    BY <1>1, InstanceNumbers DEF Next, vars, processVars, closerVars, launchVars, Begin, LaunchStep, PrepareStep,
       QueryProfile, LookUp, CloseProfile, CloseOld, Build, Start, WaitProfile, Bind, Register, SpawnMonitor,
       MonitorStep, MonitorWait, MonitorPoll, MonitorClose, ProcessEnds, CloseStep, BeginClose, CheckLaunched,
       Collect, CloseGracefully, SeeAllClosed, GiveUpWaiting, ForceClose, CloseReturns, RegistryInv, TypeOK
  <2>3. ASSUME NEW j \in Instances, DropOld(j) PROVE cmd[i] = "dead"
    BY <1>1, <2>3, InstanceNumbers DEF DropOld, Delete, At, RegistryInv, TypeOK, OldPhase
  <2>4. ASSUME NEW j \in Instances, MonitorRemove(j) PROVE cmd[i] = "dead"
    BY <1>1, <2>4 DEF MonitorRemove, Delete, Monitoring, RegistryInv, TypeOK, MonitorPhase
  <2>5. QED BY <2>2, <2>3, <2>4
<1>2. RegistryInv /\ [Next]_vars =>
        [ \A a \in Apps :
            launchedApps[a] # None /\ launchedApps'[a] = None => cmd[launchedApps[a]] = "dead" ]_vars
  BY <1>1
<1>3. QED BY <1>2, RegistryInvariant, PTL DEF Spec, TrackedWhileAlive
=============================================================================
