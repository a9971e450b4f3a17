------------------------------ MODULE PidRouter ------------------------------
(***************************************************************************)
(* The routing decision of tun2socks/router/router.go, PIDRouter.pick,     *)
(* with the Windows process table it asks (resolver_windows.go) and the    *)
(* launcher that binds processes (main.go handleLaunchApplication).        *)
(*                                                                         *)
(* pick holds r.mu only for single map reads; processes start, exit and    *)
(* are bound between its steps.  A process remembers the pid of its parent *)
(* for life, also when the parent is gone and, with Reuse, when another    *)
(* process has that pid.  PIDRouter.Delete has no caller.                  *)
(***************************************************************************)
EXTENDS Naturals, FiniteSets

CONSTANTS
  Pids,      \* process ids
  Launcher,  \* the launcher's own
  Proxies,   \* proxies of launched applications
  Conns,     \* connections, each dialled once
  MaxDepth,  \* how far pick walks up: 12 in the code
  Reuse,     \* may the system give a pid again
  Direct,    \* the direct proxy, and a pid without a target
  NoPid      \* no parent: pid 0

ASSUME RouterAssumption ==
  /\ Launcher \in Pids
  /\ NoPid \notin Pids
  /\ Direct \notin Proxies
  /\ MaxDepth \in Nat
  /\ Reuse \in BOOLEAN
  /\ IsFiniteSet(Pids)

VARIABLES
  running,   \* processes
  used,      \* pids given so far
  parent,    \* ParentProcessID of each
  targets,   \* PIDRouter.targets
  rightful,  \* the proxy of the launch a process descends from, or Direct
  lineage,   \* the processes from that launch's first one to it
  stage,     \* what pick does next for each connection
  owner,     \* the process that opened it
  current,   \* currentPID, then the parent that was read
  depth,     \* parents read
  want,      \* the rightful proxy of the owner when it connected
  intact,    \* its lineage was bound then, within reach, and has lived on,
             \* and the system has answered what pick asked
  result     \* the proxy that was picked

procVars == <<running, used, parent, rightful, lineage>>
pickVars == <<stage, owner, current, depth, want, result>>
vars     == <<procVars, targets, pickVars, intact>>

Choices == Proxies \union {Direct}

TypeOK ==
  /\ running \subseteq used
  /\ used \subseteq Pids
  /\ parent \in [Pids -> Pids \union {NoPid}]
  /\ targets \in [Pids -> Choices]
  /\ rightful \in [Pids -> Choices]
  /\ lineage \in [Pids -> SUBSET Pids]
  /\ stage \in [Conns -> {"none", "resolve", "own", "parent", "inherit", "done"}]
  /\ owner \in [Conns -> Pids]
  /\ current \in [Conns -> Pids]
  /\ depth \in [Conns -> 0..MaxDepth]
  /\ want \in [Conns -> Choices]
  /\ intact \in [Conns -> BOOLEAN]
  /\ result \in [Conns -> Choices]

Init ==
  /\ running = {Launcher}
  /\ used = {Launcher}
  /\ parent = [p \in Pids |-> NoPid]
  /\ targets = [p \in Pids |-> Direct]
  /\ rightful = [p \in Pids |-> Direct]
  /\ lineage = [p \in Pids |-> {}]
  /\ stage = [c \in Conns |-> "none"]
  /\ owner = [c \in Conns |-> Launcher]
  /\ current = [c \in Conns |-> Launcher]
  /\ depth = [c \in Conns |-> 0]
  /\ want = [c \in Conns |-> Direct]
  /\ intact = [c \in Conns |-> FALSE]
  /\ result = [c \in Conns |-> Direct]

-----------------------------------------------------------------------------
Fresh(p) == p \notin running /\ (Reuse \/ p \notin used)

NewProcess(p, par, proxy, line) ==
  /\ Fresh(p)
  /\ running' = running \union {p}
  /\ used' = used \union {p}
  /\ parent' = [parent EXCEPT ![p] = par]
  /\ rightful' = [rightful EXCEPT ![p] = proxy]
  /\ lineage' = [lineage EXCEPT ![p] = line]
  /\ UNCHANGED <<targets, pickVars, intact>>

(* cmd.Start of a launch; SetPIDProxy follows in a step of its own.         *)
Launch(p, x) == NewProcess(p, Launcher, x, {p})

(* A process of a launched application, or an unrelated one, starts a child. *)
Fork(q, p) ==
  /\ q \in running
  /\ NewProcess(p, q, rightful[q], IF rightful[q] = Direct THEN {} ELSE lineage[q] \union {p})

(* An unrelated process that was not started by one of those.               *)
StartUnrelated(p) == NewProcess(p, NoPid, Direct, {})

Exit(p) ==
  /\ p \in running \ {Launcher}
  /\ running' = running \ {p}
  /\ intact' = [c \in Conns |-> intact[c] /\ p \notin lineage[owner[c]]]
  /\ UNCHANGED <<used, parent, rightful, lineage, targets, pickVars>>

(* Mutation of Set: the launcher's own pid.                                 *)
SetOwn(p) ==
  /\ lineage[p] = {p}
  /\ targets' = [targets EXCEPT ![Launcher] = rightful[p]]
  /\ UNCHANGED <<procVars, pickVars, intact>>

(* PIDRouter.Set for the process a launch has started; by then it may be    *)
(* gone.                                                                    *)
Set(p) ==
  /\ lineage[p] = {p}
  /\ targets' = [targets EXCEPT ![p] = rightful[p]]
  /\ UNCHANGED <<procVars, pickVars, intact>>

-----------------------------------------------------------------------------
Reachable(p) ==
  /\ \E r \in lineage[p] : lineage[r] = {r} /\ targets[r] # Direct
  /\ lineage[p] \subseteq running
  /\ Cardinality(lineage[p]) <= MaxDepth + 1

(* A process opens a connection; the tunnel calls DialContext or DialUDP.   *)
Connect(c, p) ==
  /\ stage[c] = "none"
  /\ p \in running
  /\ stage' = [stage EXCEPT ![c] = "resolve"]
  /\ owner' = [owner EXCEPT ![c] = p]
  /\ want' = [want EXCEPT ![c] = rightful[p]]
  /\ intact' = [intact EXCEPT ![c] = Reachable(p)]
  /\ UNCHANGED <<procVars, targets, current, depth, result>>

Pick(c, x) ==
  /\ stage' = [stage EXCEPT ![c] = "done"]
  /\ result' = [result EXCEPT ![c] = x]

(* Resolve: the socket's row gives the owner's pid.  Without a row (IPv6    *)
(* has none), or when no process has that pid, the choice is direct.        *)
Resolve(c) ==
  /\ stage[c] = "resolve"
  /\ \/ /\ owner[c] \in running
        /\ current' = [current EXCEPT ![c] = owner[c]]
        /\ stage' = [stage EXCEPT ![c] = "own"]
        /\ UNCHANGED <<result, intact>>
     \/ /\ Pick(c, Direct)
        /\ intact' = [intact EXCEPT ![c] = FALSE]
        /\ UNCHANGED current
  /\ UNCHANGED <<procVars, targets, owner, depth, want>>

(* A read of targets under r.mu; next is where pick goes without a target.  *)
ReadTarget(c) ==
  \/ targets[current[c]] # Direct /\ Pick(c, targets[current[c]])
  \/ /\ targets[current[c]] = Direct
     /\ stage' = [stage EXCEPT ![c] = "parent"]
     /\ UNCHANGED result

LookUpOwner(c) ==
  /\ stage[c] = "own"
  /\ ReadTarget(c)
  /\ UNCHANGED <<procVars, targets, owner, current, depth, want, intact>>

(* Mutations of GivesUp: no bound, and one parent too few.                  *)
GivesUpLate(c) ==
  LET p == current[c] IN p \notin running \/ parent[p] \in {NoPid, p}

GivesUpEarly(c) ==
  LET p == current[c] IN
    depth[c] + 1 = MaxDepth \/ p \notin running \/ parent[p] \in {NoPid, p}

(* parentPID, when it gets its snapshot of the processes that run.          *)
GivesUp(c) ==
  LET p == current[c] IN
    depth[c] = MaxDepth \/ p \notin running \/ parent[p] \in {NoPid, p}

ReadParent(c) ==
  /\ stage[c] = "parent"
  /\ \/ GivesUp(c) /\ Pick(c, Direct) /\ UNCHANGED <<current, depth>>
     \/ /\ ~GivesUp(c)
        /\ current' = [current EXCEPT ![c] = parent[@]]
        /\ depth' = [depth EXCEPT ![c] = @ + 1]
        /\ stage' = [stage EXCEPT ![c] = "inherit"]
        /\ UNCHANGED result
  /\ UNCHANGED <<procVars, targets, owner, want, intact>>

(* parentPID fails by itself: no snapshot, or no first entry in it.         *)
SnapshotFails(c) ==
  /\ stage[c] = "parent"
  /\ depth[c] < MaxDepth
  /\ Pick(c, Direct)
  /\ intact' = [intact EXCEPT ![c] = FALSE]
  /\ UNCHANGED <<procVars, targets, owner, current, depth, want>>

LookUpParent(c) ==
  /\ stage[c] = "inherit"
  /\ ReadTarget(c)
  /\ UNCHANGED <<procVars, targets, owner, current, depth, want, intact>>

-----------------------------------------------------------------------------
PickStep(c) ==
  Resolve(c) \/ LookUpOwner(c) \/ ReadParent(c) \/ SnapshotFails(c) \/ LookUpParent(c)

ProcessStep(p) ==
  \/ \E x \in Proxies : Launch(p, x)
  \/ \E q \in Pids : Fork(q, p)
  \/ StartUnrelated(p)
  \/ Exit(p)
  \/ Set(p)

Next ==
  \/ \E p \in Pids : ProcessStep(p)
  \/ \E c \in Conns : PickStep(c) \/ \E p \in Pids : Connect(c, p)

Spec == Init /\ [][Next]_vars

-----------------------------------------------------------------------------
(* README.md:12, router.go pick: a connection is dialled directly or with   *)
(* the proxy of the launch its process descends from: an unrelated process  *)
(* goes directly and no application gets another one's proxy.               *)
NeverAnothersProxy ==
  \A c \in Conns : stage[c] = "done" => result[c] \in {Direct, want[c]}

(* README.md:19, router.go pick: when the process resolves, no snapshot of  *)
(* the processes fails, and its lineage was bound, is within MaxDepth       *)
(* parents and lives on while pick walks, the connection gets the           *)
(* application's proxy.                                                     *)
LivingTreeIsProxied ==
  \A c \in Conns : stage[c] = "done" /\ intact[c] => result[c] = want[c]

(* README.md:19: "bind that launched process tree to the selected proxy":   *)
(* pick does not give up inside a tree that is bound further up, for a      *)
(* process that runs and is near enough.                                    *)
TreeIsProxied ==
  [][ \A c \in Conns :
        /\ stage[c] = "parent"
        /\ stage'[c] = "done"
        /\ GivesUp(c)
        /\ depth[c] < MaxDepth
        /\ owner[c] \in running
        /\ current[c] \in lineage[owner[c]]
        /\ lineage[current[c]] # {current[c]}
        => \A p \in lineage[owner[c]] : targets[p] = Direct ]_vars
=============================================================================
