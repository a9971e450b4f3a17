-------------------------- MODULE PidRouter_proofs --------------------------
(***************************************************************************)
(* Proofs about PidRouter, for any number of processes and connections and *)
(* any depth: as long as the system gives no pid twice, no process gets    *)
(* the proxy of another launch, and a tree that lives and is bound gets    *)
(* its own.                                                                *)
(***************************************************************************)
EXTENDS PidRouter, FiniteSetTheorems, TLAPS

(* What the process table looks like when no pid is given twice: a target   *)
(* is that of the first process of a launch; the other processes of a       *)
(* launch follow their parents.                                             *)
Descends(p) ==
  /\ lineage[p] = {p}
  \/ /\ parent[p] \in used
     /\ p \notin lineage[parent[p]]
     /\ lineage[parent[p]] # {}
     /\ lineage[p] = lineage[parent[p]] \union {p}
     /\ rightful[p] = rightful[parent[p]]

TableInv ==
  /\ \A p \in Pids : targets[p] # Direct => p \in used /\ lineage[p] = {p} /\ targets[p] = rightful[p]
  /\ \A p \in Pids : p \in used => (rightful[p] # Direct <=> lineage[p] # {})
  /\ \A p \in Pids : p \in used /\ lineage[p] # {} => Descends(p)
  /\ \A p \in Pids : lineage[p] \subseteq used
  /\ \A p \in Pids : p \in used /\ rightful[p] = Direct /\ parent[p] # NoPid =>
       parent[p] \in used /\ rightful[parent[p]] = Direct
  /\ \A p \in Pids : p \in used /\ parent[p] # NoPid => parent[p] \in used
  /\ \A p \in Pids : lineage[p] = {p} => parent[p] = Launcher
  /\ Launcher \in used /\ rightful[Launcher] = Direct

Walking(c) == stage[c] \in {"own", "parent", "inherit"}

(* pick is in the owner's launch or has left it for unrelated processes.    *)
WalkInv(c) ==
  /\ stage[c] # "none" => owner[c] \in used /\ want[c] = rightful[owner[c]]
  /\ Walking(c) => current[c] \in used /\ rightful[current[c]] \in {want[c], Direct}

RouteInv ==
  /\ TypeOK
  /\ TableInv
  /\ \A c \in Conns : WalkInv(c)
  /\ NeverAnothersProxy

ProxyInv == ~Reuse => RouteInv

-----------------------------------------------------------------------------
LEMMA RouterTypeStep == TypeOK /\ [Next]_vars => TypeOK'
<1> SUFFICES ASSUME TypeOK, [Next]_vars PROVE TypeOK'
  OBVIOUS
<1> USE RouterAssumption DEF TypeOK, procVars, pickVars, Choices
<1>1. ASSUME NEW p \in Pids, Exit(p) \/ Set(p) PROVE TypeOK'
  BY <1>1, ZenonT(40) DEF Exit, Set
<1>2. ASSUME NEW p \in Pids, NEW par \in Pids \union {NoPid}, NEW x \in Choices,
             NEW line \in SUBSET Pids, NewProcess(p, par, x, line)
      PROVE  TypeOK'
  BY <1>2 DEF NewProcess
<1>3. ASSUME NEW p \in Pids, ProcessStep(p) PROVE TypeOK'
  <2>1. ASSUME NEW x \in Proxies, Launch(p, x) PROVE TypeOK'
    BY <1>2, <2>1 DEF Launch
  <2>2. ASSUME NEW q \in Pids, Fork(q, p) PROVE TypeOK'
    BY <1>2, <2>2 DEF Fork
  <2>3. CASE StartUnrelated(p)
    BY <1>2, <2>3 DEF StartUnrelated
  <2>4. QED BY <1>1, <1>3, <2>1, <2>2, <2>3 DEF ProcessStep
<1>4. ASSUME NEW c \in Conns, NEW p \in Pids, Connect(c, p) PROVE TypeOK'
  <2>1. Reachable(p) \in BOOLEAN
    BY DEF Reachable
  <2>2. QED BY <1>4, <2>1 DEF Connect
<1>5. ASSUME NEW c \in Conns, PickStep(c) PROVE TypeOK'
  <2>1. CASE Resolve(c)
    BY <2>1 DEF Resolve, Pick
  <2>2. CASE LookUpOwner(c) \/ LookUpParent(c)
    BY <2>2 DEF LookUpOwner, LookUpParent, ReadTarget, Pick
  <2>3. CASE ReadParent(c)
    <3>1. CASE GivesUp(c)
      BY <2>3, <3>1 DEF ReadParent, Pick
    <3>2. CASE ~GivesUp(c)
      <4>1. parent[current[c]] \in Pids /\ depth[c] + 1 \in 0..MaxDepth
        BY <3>2 DEF GivesUp
      <4>2. QED BY <2>3, <3>2, <4>1 DEF ReadParent
    <3>3. QED BY <3>1, <3>2
  <2>4. CASE SnapshotFails(c)
    BY <2>4 DEF SnapshotFails, Pick
  <2>5. QED BY <1>5, <2>1, <2>2, <2>3, <2>4 DEF PickStep
<1>6. CASE UNCHANGED vars
  BY <1>6 DEF vars
<1>7. QED BY <1>3, <1>4, <1>5, <1>6 DEF Next

LEMMA RouterTypeInvariant == Spec => []TypeOK
<1>1. Init => TypeOK
  BY RouterAssumption DEF Init, TypeOK, Choices
<1>2. QED BY <1>1, RouterTypeStep, PTL DEF Spec

(* router.go pick and the process table: every variable keeps its type.     *)
THEOREM RouterTypeCorrect == Spec => []TypeOK
BY RouterTypeInvariant

-----------------------------------------------------------------------------
(* The process table, when no pid is given twice.                           *)
LEMMA TableInvInit == Init => TableInv
BY RouterAssumption DEF Init, TableInv

LEMMA NewProcessTable ==
  ASSUME TypeOK, TableInv, ~Reuse,
         NEW p \in Pids, NEW par \in used \union {NoPid}, NEW x \in Choices, NEW line,
         NewProcess(p, par, x, line),
         \/ x # Direct /\ line = {p} /\ par = Launcher
         \/ x = Direct /\ line = {} /\ (par = NoPid \/ rightful[par] = Direct)
         \/ x # Direct /\ par # NoPid /\ x = rightful[par] /\ line = lineage[par] \union {p}
  PROVE  TableInv'
<1> USE RouterAssumption DEF TypeOK, Choices, NewProcess, Fresh, procVars
<1>1. p \notin used /\ used' = used \union {p} /\ par # p /\ p # Launcher
  BY DEF TableInv
<1>2. UNCHANGED targets /\ \A q \in Pids : q # p =>
        parent'[q] = parent[q] /\ rightful'[q] = rightful[q] /\ lineage'[q] = lineage[q]
  OBVIOUS
<1>3. parent'[p] = par /\ rightful'[p] = x /\ lineage'[p] = line
  OBVIOUS
<1>4. \A q \in Pids : p \notin lineage[q]
  BY <1>1 DEF TableInv
<1>5. \A q \in Pids : targets'[q] # Direct =>
        q \in used' /\ lineage'[q] = {q} /\ targets'[q] = rightful'[q]
  BY <1>1, <1>2 DEF TableInv
<1>6. \A q \in Pids : q \in used' => (rightful'[q] # Direct <=> lineage'[q] # {})
  BY <1>1, <1>2, <1>3 DEF TableInv
<1>7. ASSUME NEW q \in Pids, q \in used', lineage'[q] # {} PROVE Descends(q)'
  <2>1. CASE q = p
    BY <1>1, <1>2, <1>3, <1>4, <1>7, <2>1 DEF Descends, TableInv
  <2>2. CASE q # p
    <3>1. q \in used /\ lineage[q] # {} /\ Descends(q)
      BY <1>1, <1>2, <1>7, <2>2 DEF TableInv
    <3>2. parent[q] \in used => parent[q] # p /\ parent[q] \in Pids
      BY <1>1
    <3>3. QED BY <1>1, <1>2, <2>2, <3>1, <3>2 DEF Descends
  <2>3. QED BY <2>1, <2>2
<1>8. \A q \in Pids : lineage'[q] \subseteq used'
  BY <1>1, <1>2, <1>3 DEF TableInv
<1>9. \A q \in Pids : q \in used' /\ parent'[q] # NoPid => parent'[q] \in used'
  BY <1>1, <1>2, <1>3 DEF TableInv
<1>10. ASSUME NEW q \in Pids, q \in used', rightful'[q] = Direct, parent'[q] # NoPid
       PROVE  parent'[q] \in used' /\ rightful'[parent'[q]] = Direct
  <2>1. CASE q = p
    BY <1>1, <1>2, <1>3, <1>10, <2>1
  <2>2. CASE q # p
    BY <1>1, <1>2, <1>10, <2>2 DEF TableInv
  <2>3. QED BY <2>1, <2>2
<1>11. \A q \in Pids : lineage'[q] = {q} => parent'[q] = Launcher
  BY <1>1, <1>2, <1>3, <1>4 DEF TableInv
<1>12. Launcher \in used' /\ rightful'[Launcher] = Direct
  BY <1>1, <1>2 DEF TableInv
<1>13. QED BY <1>5, <1>6, <1>7, <1>8, <1>9, <1>10, <1>11, <1>12 DEF TableInv

(* Every step keeps the table, and never changes a pid that was given.      *)
Settled ==
  \A p \in Pids : p \in used =>
    p \in used' /\ rightful'[p] = rightful[p] /\ parent'[p] = parent[p] /\ lineage'[p] = lineage[p]

LEMMA NewProcessSettled ==
  ASSUME TypeOK, ~Reuse, NEW p \in Pids, NEW par, NEW x, NEW line, NewProcess(p, par, x, line)
  PROVE  Settled
BY DEF TypeOK, NewProcess, Fresh, Settled

LEMMA TableInvStep ==
  ASSUME TypeOK, TableInv, ~Reuse, [Next]_vars
  PROVE  TableInv' /\ Settled
<1> USE RouterAssumption DEF TypeOK
<1>1. ASSUME UNCHANGED <<used, parent, rightful, lineage, targets>> PROVE TableInv' /\ Settled
  BY <1>1 DEF TableInv, Descends, Settled
<1>2. ASSUME NEW p \in Pids, ProcessStep(p) PROVE TableInv' /\ Settled
  <2>1. ASSUME NEW x \in Proxies, Launch(p, x) PROVE TableInv' /\ Settled
    <3>1. x \in Choices /\ x # Direct /\ Launcher \in used
      BY DEF Choices, TableInv
    <3>2. NewProcess(p, Launcher, x, {p})
      BY <2>1 DEF Launch
    <3>3. QED BY <3>1, <3>2, NewProcessTable, NewProcessSettled
  <2>2. ASSUME NEW q \in Pids, Fork(q, p) PROVE TableInv' /\ Settled
    <3> DEFINE line == IF rightful[q] = Direct THEN {} ELSE lineage[q] \union {p}
    <3>1. q \in used /\ q # NoPid /\ rightful[q] \in Choices
      BY <2>2 DEF Fork
    <3>2. NewProcess(p, q, rightful[q], line)
      BY <2>2 DEF Fork
    <3>3. \/ rightful[q] = Direct /\ line = {}
          \/ rightful[q] # Direct /\ line = lineage[q] \union {p}
      OBVIOUS
    <3> HIDE DEF line
    <3>4. TableInv'
      BY <3>1, <3>2, <3>3, NewProcessTable
    <3>5. QED BY <3>2, <3>4, NewProcessSettled
  <2>3. CASE StartUnrelated(p)
    <3>1. NewProcess(p, NoPid, Direct, {}) /\ Direct \in Choices
      BY <2>3 DEF StartUnrelated, Choices
    <3>2. QED BY <3>1, NewProcessTable, NewProcessSettled
  <2>4. CASE Exit(p)
    BY <1>1, <2>4 DEF Exit
  <2>5. CASE Set(p)
    <3>1. UNCHANGED <<used, parent, rightful, lineage>> /\ lineage[p] = {p}
          /\ targets' = [targets EXCEPT ![p] = rightful[p]]
      BY <2>5 DEF Set, procVars
    <3>2. p \in used
      BY <3>1 DEF TableInv
    <3>3. QED BY <3>1, <3>2, SMTT(60) DEF TableInv, Descends, Settled
  <2>6. QED BY <1>2, <2>1, <2>2, <2>3, <2>4, <2>5 DEF ProcessStep
<1>3. ASSUME NEW c \in Conns, PickStep(c) \/ \E p \in Pids : Connect(c, p)
      PROVE  TableInv' /\ Settled
  BY <1>1, <1>3 DEF PickStep, Connect, Resolve, LookUpOwner, ReadParent, SnapshotFails, LookUpParent, procVars
<1>4. CASE UNCHANGED vars
  BY <1>1, <1>4 DEF vars, procVars
<1>5. QED BY <1>2, <1>3, <1>4 DEF Next

(* A read of a target: what pick may answer with.                           *)
LEMMA TargetIsRightful ==
  ASSUME TypeOK, TableInv, NEW c \in Conns, WalkInv(c), Walking(c), targets[current[c]] # Direct
  PROVE  targets[current[c]] = want[c]
BY DEF TypeOK, TableInv, WalkInv, Walking

(* The parent that pick reads belongs to the same launch or to none.        *)
LEMMA ParentIsRightful ==
  ASSUME TypeOK, TableInv, NEW c \in Conns, WalkInv(c), Walking(c), parent[current[c]] # NoPid
  PROVE  /\ parent[current[c]] \in used
         /\ rightful[parent[current[c]]] \in {want[c], Direct}
BY DEF TypeOK, TableInv, WalkInv, Walking, Descends

Decided(c) == stage[c] = "done" => result[c] \in {Direct, want[c]}

LEMMA WalkStep ==
  ASSUME TypeOK, TypeOK', TableInv, TableInv', Settled, [Next]_vars, NEW c \in Conns, WalkInv(c), Decided(c)
  PROVE  WalkInv(c)' /\ Decided(c)'
<1> USE RouterAssumption DEF TypeOK
<1>1. ASSUME UNCHANGED <<stage[c], owner[c], current[c], want[c], result[c]>>
      PROVE  WalkInv(c)' /\ Decided(c)'
  BY <1>1 DEF WalkInv, Walking, Decided, Settled
<1>2. ASSUME NEW p \in Pids, Connect(c, p) PROVE WalkInv(c)' /\ Decided(c)'
  BY <1>2 DEF Connect, WalkInv, Walking, Decided, procVars
<1>3. CASE Resolve(c)
  BY <1>3 DEF Resolve, Pick, WalkInv, Walking, Decided, procVars
<1>4. CASE LookUpOwner(c) \/ LookUpParent(c)
  <2>1. Walking(c) /\ ReadTarget(c) /\ UNCHANGED <<rightful, used, owner, current, want>>
    BY <1>4 DEF LookUpOwner, LookUpParent, Walking, procVars
  <2>2. targets[current[c]] # Direct => targets[current[c]] = want[c]
    BY <2>1, TargetIsRightful
  <2>3. QED BY <2>1, <2>2 DEF ReadTarget, Pick, WalkInv, Walking, Decided
<1>5. CASE ReadParent(c)
  <2>1. Walking(c) /\ UNCHANGED <<rightful, used, owner, want>>
    BY <1>5 DEF ReadParent, Walking, procVars
  <2>2. CASE GivesUp(c)
    BY <1>5, <2>1, <2>2 DEF ReadParent, Pick, WalkInv, Walking, Decided
  <2>3. CASE ~GivesUp(c)
    <3>1. /\ parent[current[c]] \in used
          /\ rightful[parent[current[c]]] \in {want[c], Direct}
      BY <2>1, <2>3, ParentIsRightful DEF GivesUp
    <3>2. current'[c] = parent[current[c]] /\ stage'[c] = "inherit"
      BY <1>5, <2>3 DEF ReadParent
    <3>3. QED BY <2>1, <3>1, <3>2 DEF WalkInv, Walking, Decided
  <2>4. QED BY <2>2, <2>3
<1>6. CASE SnapshotFails(c)
  BY <1>6 DEF SnapshotFails, Pick, WalkInv, Walking, Decided, procVars
<1>7. ASSUME NEW d \in Conns, d # c, PickStep(d) \/ \E p \in Pids : Connect(d, p)
      PROVE  WalkInv(c)' /\ Decided(c)'
  <2>1. CASE \E p \in Pids : Connect(d, p)
    <3>1. UNCHANGED <<stage[c], owner[c], current[c], want[c], result[c]>>
      BY <1>7, <2>1 DEF Connect
    <3>2. QED BY <1>1, <3>1
  <2>2. CASE Resolve(d)
    <3>1. UNCHANGED <<stage[c], owner[c], current[c], want[c], result[c]>>
      BY <1>7, <2>2 DEF Resolve, Pick
    <3>2. QED BY <1>1, <3>1
  <2>3. CASE LookUpOwner(d) \/ LookUpParent(d)
    <3>1. UNCHANGED <<stage[c], owner[c], current[c], want[c], result[c]>>
      BY <1>7, <2>3 DEF LookUpOwner, LookUpParent, ReadTarget, Pick
    <3>2. QED BY <1>1, <3>1
  <2>4. CASE ReadParent(d)
    <3>1. UNCHANGED <<stage[c], owner[c], current[c], want[c], result[c]>>
      BY <1>7, <2>4 DEF ReadParent, Pick
    <3>2. QED BY <1>1, <3>1
  <2>5. CASE SnapshotFails(d)
    <3>1. UNCHANGED <<stage[c], owner[c], current[c], want[c], result[c]>>
      BY <1>7, <2>5 DEF SnapshotFails, Pick
    <3>2. QED BY <1>1, <3>1
  <2>6. QED BY <1>7, <2>1, <2>2, <2>3, <2>4, <2>5 DEF PickStep
<1>8. ASSUME NEW p \in Pids, ProcessStep(p) PROVE WalkInv(c)' /\ Decided(c)'
  BY <1>1, <1>8 DEF ProcessStep, Launch, Fork, StartUnrelated, NewProcess, Exit, Set, pickVars
<1>9. CASE UNCHANGED vars
  BY <1>1, <1>9 DEF vars, pickVars
<1>10. ASSUME PickStep(c) \/ \E p \in Pids : Connect(c, p) PROVE WalkInv(c)' /\ Decided(c)'
  BY <1>2, <1>3, <1>4, <1>5, <1>10, <1>6 DEF PickStep
<1>11. CASE \E p \in Pids : ProcessStep(p)
  BY <1>8, <1>11
<1>12. CASE \E d \in Conns : PickStep(d) \/ \E p \in Pids : Connect(d, p)
  BY <1>7, <1>10, <1>12
<1>13. QED BY <1>9, <1>11, <1>12 DEF Next

LEMMA RouteInvariant == Spec => [](TypeOK /\ ProxyInv)
<1>1. Init => TypeOK /\ ProxyInv
  <2>1. Init => TypeOK
    BY RouterAssumption DEF Init, TypeOK, Choices
  <2>2. Init => (\A c \in Conns : WalkInv(c)) /\ NeverAnothersProxy
    BY DEF Init, WalkInv, Walking, NeverAnothersProxy
  <2>3. QED BY <2>1, <2>2, TableInvInit DEF ProxyInv, RouteInv
<1>2. TypeOK /\ ProxyInv /\ [Next]_vars => (TypeOK /\ ProxyInv)'
  <2> SUFFICES ASSUME TypeOK, ProxyInv, [Next]_vars, ~Reuse PROVE TypeOK' /\ RouteInv'
    BY RouterTypeStep DEF ProxyInv
  <2>1. TypeOK' /\ TableInv' /\ Settled
    BY RouterTypeStep, TableInvStep DEF ProxyInv, RouteInv
  <2>2. ASSUME NEW c \in Conns PROVE WalkInv(c)' /\ Decided(c)'
    BY <2>1, WalkStep DEF ProxyInv, RouteInv, NeverAnothersProxy, Decided
  <2>3. QED BY <2>1, <2>2 DEF RouteInv, NeverAnothersProxy, Decided
<1>3. QED BY <1>1, <1>2, PTL DEF Spec

(* README.md:12, router.go pick: with no pid given twice, no connection is  *)
(* dialled with the proxy of a launch its process does not descend from.    *)
THEOREM NobodyGetsAnothersProxy == Spec => [](~Reuse => NeverAnothersProxy)
<1>1. ProxyInv => (~Reuse => NeverAnothersProxy)
  BY DEF ProxyInv, RouteInv
<1>2. QED BY <1>1, RouteInvariant, PTL

-----------------------------------------------------------------------------
(* Of a tree that lives and is bound, pick still has the bound process      *)
(* above it, and parents enough to reach it.                                *)
BoundRoot(p) == \E r \in lineage[p] : lineage[r] = {r} /\ targets[r] # Direct

TreeWalk(c) ==
  /\ stage[c] \in {"none", "resolve", "own"} => depth[c] = 0
  /\ intact[c] /\ stage[c] \notin {"none", "done"} =>
       lineage[owner[c]] \subseteq running /\ want[c] # Direct
  /\ intact[c] /\ stage[c] = "resolve" =>
       BoundRoot(owner[c]) /\ Cardinality(lineage[owner[c]]) <= MaxDepth + 1
  /\ intact[c] /\ Walking(c) =>
       /\ lineage[current[c]] \subseteq lineage[owner[c]]
       /\ BoundRoot(current[c])
       /\ Cardinality(lineage[current[c]]) + depth[c] <= MaxDepth + 1
  /\ intact[c] /\ stage[c] = "parent" => lineage[current[c]] # {current[c]}
  /\ intact[c] /\ stage[c] = "done" => result[c] = want[c]

LEMMA LineageFacts ==
  ASSUME TypeOK, TableInv, NEW p \in Pids, p \in used, lineage[p] # {}
  PROVE  /\ p \in lineage[p]
         /\ IsFiniteSet(lineage[p])
         /\ Cardinality(lineage[p]) \in Nat \ {0}
<1>1. p \in lineage[p]
  BY DEF TableInv, Descends
<1>2. IsFiniteSet(lineage[p])
  BY RouterAssumption, FS_Subset DEF TypeOK
<1>3. QED BY <1>1, <1>2, FS_CardinalityType, FS_EmptySet

(* Above a process that is not the first of its tree: one process fewer.    *)
LEMMA ParentFacts ==
  ASSUME TypeOK, TableInv, NEW p \in Pids, p \in used, BoundRoot(p), lineage[p] # {p}
  PROVE  /\ parent[p] \in used
         /\ parent[p] \notin {NoPid, p}
         /\ lineage[parent[p]] \subseteq lineage[p]
         /\ BoundRoot(parent[p])
         /\ Cardinality(lineage[p]) = Cardinality(lineage[parent[p]]) + 1
         /\ Cardinality(lineage[parent[p]]) \in Nat \ {0}
<1> DEFINE q == parent[p]
<1>1. /\ q \in used
      /\ p \notin lineage[q]
      /\ lineage[q] # {}
      /\ lineage[p] = lineage[q] \union {p}
  BY DEF TableInv, Descends, BoundRoot
<1>2. q \in Pids /\ q # NoPid
  BY <1>1, RouterAssumption DEF TypeOK
<1>3. q \in lineage[q] /\ IsFiniteSet(lineage[q]) /\ Cardinality(lineage[q]) \in Nat \ {0}
  BY <1>1, <1>2, LineageFacts
<1>4. Cardinality(lineage[p]) = Cardinality(lineage[q]) + 1
  <2>1. Cardinality(lineage[q] \union {p}) = Cardinality(lineage[q]) + 1
    <3> HIDE DEF q
    <3>1. p \notin lineage[q] /\ IsFiniteSet(lineage[q])
      BY <1>1, <1>3
    <3>2. QED BY <3>1, FS_AddElement
  <2>2. QED BY <1>1, <2>1
<1>5. BoundRoot(q)
  BY <1>1 DEF BoundRoot
<1>6. QED BY <1>1, <1>2, <1>3, <1>4, <1>5

(* Targets of the first process of a tree stay.                             *)
LEMMA BoundStays ==
  ASSUME TypeOK, TableInv, ~Reuse, [Next]_vars, Settled, NEW p \in Pids, p \in used, BoundRoot(p)
  PROVE  BoundRoot(p)'
<1>1. PICK r \in lineage[p] : lineage[r] = {r} /\ targets[r] # Direct
  BY DEF BoundRoot
<1>2. r \in Pids /\ r \in used /\ lineage'[r] = {r} /\ lineage'[p] = lineage[p]
  BY <1>1 DEF TypeOK, TableInv, Settled
<1>3. targets[r] = rightful[r]
  BY <1>1, <1>2 DEF TableInv
<1>4. targets' = targets \/ \E x \in Pids : targets' = [targets EXCEPT ![x] = rightful[x]]
  BY DEF Next, ProcessStep, Launch, Fork, StartUnrelated, NewProcess, Exit, Set, PickStep, Connect, Resolve,
     LookUpOwner, ReadParent, SnapshotFails, LookUpParent, vars
<1>5. targets'[r] # Direct
  BY <1>1, <1>2, <1>3, <1>4 DEF TypeOK
<1>6. QED BY <1>1, <1>2, <1>5 DEF BoundRoot

LEMMA TreeWalkStep ==
  ASSUME TypeOK, TypeOK', TableInv, TableInv', Settled, ~Reuse, [Next]_vars,
         NEW c \in Conns, WalkInv(c), TreeWalk(c)
  PROVE  TreeWalk(c)'
<1> USE RouterAssumption DEF TypeOK
<1>1. \A p \in Pids : p \in used /\ BoundRoot(p) => BoundRoot(p)'
  BY BoundStays
<1>2. stage[c] # "none" => owner[c] \in used /\ lineage'[owner[c]] = lineage[owner[c]]
  BY DEF WalkInv, Settled
<1>3. Walking(c) => current[c] \in used /\ lineage'[current[c]] = lineage[current[c]]
  BY DEF WalkInv, Settled
<1>4. ASSUME UNCHANGED <<stage[c], owner[c], current[c], depth[c], want[c], result[c]>>,
             intact'[c] => intact[c] /\ (stage[c] \notin {"none", "done"} => lineage[owner[c]] \subseteq running')
      PROVE  TreeWalk(c)'
  <2>1. stage[c] = "resolve" /\ BoundRoot(owner[c]) => BoundRoot(owner[c])'
    <3>1. stage[c] = "resolve" /\ BoundRoot(owner[c]) => BoundRoot(owner[c])' /\ owner'[c] = owner[c]
      BY <1>1, <1>2, <1>4 DEF BoundRoot
    <3>2. QED BY <3>1
  <2>2. Walking(c) /\ BoundRoot(current[c]) => BoundRoot(current[c])'
    BY <1>1, <1>3, <1>4 DEF BoundRoot
  <2>3. QED BY <1>2, <1>3, <1>4, <2>1, <2>2 DEF TreeWalk, Walking
<1>5. ASSUME NEW p \in Pids, ProcessStep(p) PROVE TreeWalk(c)'
  <2>1. CASE Exit(p)
    <3>1. /\ UNCHANGED pickVars
          /\ running' = running \ {p}
          /\ intact'[c] = (intact[c] /\ p \notin lineage[owner[c]])
      BY <2>1 DEF Exit
    <3>2. intact'[c] => intact[c] /\ (stage[c] \notin {"none", "done"} => lineage[owner[c]] \subseteq running')
      BY <3>1 DEF TreeWalk
    <3>3. QED BY <1>4, <3>1, <3>2 DEF pickVars
  <2>2. CASE ~Exit(p)
    <3>1. UNCHANGED <<pickVars, intact>> /\ running \subseteq running'
      BY <1>5, <2>2 DEF ProcessStep, Launch, Fork, StartUnrelated, NewProcess, Set, procVars
    <3>2. QED BY <1>4, <3>1 DEF pickVars, TreeWalk
  <2>3. QED BY <2>1, <2>2
<1>6. ASSUME NEW p \in Pids, Connect(c, p) PROVE TreeWalk(c)'
  <2>1. /\ stage'[c] = "resolve" /\ owner'[c] = p /\ want'[c] = rightful[p] /\ intact'[c] = Reachable(p)
        /\ UNCHANGED <<procVars, targets, depth>> /\ p \in used /\ depth[c] = 0
    BY <1>6 DEF Connect, TreeWalk
  <2>2. Reachable(p) => BoundRoot(p) /\ lineage[p] \subseteq running /\ Cardinality(lineage[p]) <= MaxDepth + 1
    BY DEF Reachable, BoundRoot
  <2>3. BoundRoot(p) => rightful[p] # Direct
    BY <2>1 DEF BoundRoot, TableInv
  <2>4. BoundRoot(p) => BoundRoot(owner[c])'
    BY <2>1 DEF BoundRoot, procVars
  <2>5. QED BY <2>1, <2>2, <2>3, <2>4 DEF TreeWalk, Walking, procVars
<1>7. CASE Resolve(c)
  <2>1. UNCHANGED <<procVars, targets, owner, depth, want>> /\ stage[c] = "resolve"
    BY <1>7 DEF Resolve
  <2>2. CASE Pick(c, Direct)
    BY <1>7, <2>1, <2>2 DEF Resolve, Pick, TreeWalk, Walking
  <2>3. CASE ~Pick(c, Direct)
    <3>1. current'[c] = owner[c] /\ stage'[c] = "own" /\ UNCHANGED intact
      BY <1>7, <2>3 DEF Resolve
    <3>2. BoundRoot(owner[c]) => BoundRoot(current[c])'
      BY <2>1, <3>1 DEF BoundRoot, procVars
    <3>3. Cardinality(lineage[owner[c]]) <= MaxDepth + 1 /\ depth[c] = 0 /\ intact[c] =>
            Cardinality(lineage[owner[c]]) + depth[c] <= MaxDepth + 1
      <4>1. intact[c] => Cardinality(lineage[owner[c]]) \in Nat
        BY <1>2, <2>1, LineageFacts DEF TreeWalk, BoundRoot
      <4>2. QED BY <4>1
    <3>4. QED BY <2>1, <3>1, <3>2, <3>3 DEF TreeWalk, Walking, procVars
  <2>4. QED BY <2>2, <2>3
<1>8. CASE LookUpOwner(c) \/ LookUpParent(c)
  <2>1. Walking(c) /\ ReadTarget(c) /\ UNCHANGED <<procVars, targets, owner, current, depth, want, intact>>
        /\ stage[c] # "parent"
    BY <1>8 DEF LookUpOwner, LookUpParent, Walking
  <2>2. CASE targets[current[c]] # Direct
    <3>1. stage'[c] = "done" /\ result'[c] = want[c]
      BY <2>1, <2>2, TargetIsRightful DEF ReadTarget, Pick
    <3>2. QED BY <2>1, <3>1 DEF TreeWalk, Walking
  <2>3. CASE targets[current[c]] = Direct
    <3>1. stage'[c] = "parent"
      BY <2>1, <2>3 DEF ReadTarget
    <3>2. BoundRoot(current[c]) => lineage[current[c]] # {current[c]}
      BY <2>3 DEF BoundRoot
    <3>3. BoundRoot(current[c]) => BoundRoot(current[c])'
      BY <2>1 DEF BoundRoot, procVars
    <3>4. QED BY <2>1, <3>1, <3>2, <3>3 DEF TreeWalk, Walking, procVars
  <2>4. QED BY <2>2, <2>3
<1>9. CASE ReadParent(c)
  <2>1. Walking(c) /\ UNCHANGED <<procVars, targets, owner, want, intact>> /\ stage[c] = "parent"
    BY <1>9 DEF ReadParent, Walking
  <2>2. CASE ~intact[c]
    BY <1>9, <2>1, <2>2 DEF ReadParent, Pick, TreeWalk
  <2>3. CASE intact[c]
    <3> DEFINE p == current[c]
               q == parent[p]
    <3>1. /\ p \in Pids /\ p \in used /\ BoundRoot(p) /\ lineage[p] # {p}
          /\ lineage[p] \subseteq lineage[owner[c]]
          /\ lineage[owner[c]] \subseteq running
          /\ Cardinality(lineage[p]) + depth[c] <= MaxDepth + 1
      BY <1>3, <2>1, <2>3 DEF TreeWalk
    <3>2. /\ q \in used /\ q \notin {NoPid, p} /\ lineage[q] \subseteq lineage[p] /\ BoundRoot(q)
          /\ Cardinality(lineage[p]) = Cardinality(lineage[q]) + 1
          /\ Cardinality(lineage[q]) \in Nat \ {0}
      BY <3>1, ParentFacts
    <3>3. p \in running
      BY <3>1, LineageFacts DEF BoundRoot
    <3>4. depth[c] # MaxDepth /\ Cardinality(lineage[q]) + (depth[c] + 1) <= MaxDepth + 1
      <4>1. depth[c] \in Nat /\ MaxDepth \in Nat
        BY RouterAssumption DEF TypeOK
      <4>2. \A n, m \in Nat : n = m + 1 /\ m # 0 /\ n + depth[c] <= MaxDepth + 1 =>
              depth[c] # MaxDepth /\ m + (depth[c] + 1) <= MaxDepth + 1
        BY <4>1
      <4>3. Cardinality(lineage[p]) \in Nat /\ Cardinality(lineage[q]) \in Nat /\ Cardinality(lineage[q]) # 0
        BY <3>2
      <4>4. QED
        <5> HIDE DEF p, q
        <5>1. QED BY <3>1, <3>2, <4>2, <4>3
    <3>5. ~GivesUp(c)
      BY <3>2, <3>3, <3>4 DEF GivesUp
    <3>6. current'[c] = q /\ depth'[c] = depth[c] + 1 /\ stage'[c] = "inherit"
      BY <1>9, <3>5 DEF ReadParent
    <3>7. BoundRoot(current[c])'
      BY <2>1, <3>2, <3>6 DEF BoundRoot, procVars
    <3>8. lineage'[current'[c]] \subseteq lineage'[owner'[c]] /\ lineage'[owner'[c]] \subseteq running'
      BY <2>1, <3>1, <3>2, <3>6 DEF procVars
    <3>9. Cardinality(lineage'[current'[c]]) + depth'[c] <= MaxDepth + 1
      BY <2>1, <3>4, <3>6 DEF procVars
    <3>10. want'[c] # Direct
      BY <2>1, <2>3 DEF TreeWalk
    <3>11. QED BY <3>6, <3>7, <3>8, <3>9, <3>10 DEF TreeWalk, Walking
  <2>4. QED BY <2>2, <2>3
<1>10. CASE SnapshotFails(c)
  BY <1>10 DEF SnapshotFails, Pick, TreeWalk, Walking
<1>11. ASSUME NEW d \in Conns, d # c, PickStep(d) \/ \E p \in Pids : Connect(d, p)
       PROVE  TreeWalk(c)'
  <2>1. UNCHANGED <<stage[c], owner[c], current[c], depth[c], want[c], result[c], intact[c], running>>
    <3>1. CASE \E p \in Pids : Connect(d, p)
      BY <1>11, <3>1 DEF Connect, procVars
    <3>2. CASE Resolve(d)
      BY <1>11, <3>2 DEF Resolve, Pick, procVars
    <3>3. CASE LookUpOwner(d) \/ LookUpParent(d)
      BY <1>11, <3>3 DEF LookUpOwner, LookUpParent, ReadTarget, Pick, procVars
    <3>4. CASE ReadParent(d)
      BY <1>11, <3>4 DEF ReadParent, Pick, procVars
    <3>5. CASE SnapshotFails(d)
      BY <1>11, <3>5 DEF SnapshotFails, Pick, procVars
    <3>6. QED BY <1>11, <3>1, <3>2, <3>3, <3>4, <3>5 DEF PickStep
  <2>2. QED BY <1>4, <2>1 DEF TreeWalk
<1>12. CASE UNCHANGED vars
  BY <1>4, <1>12 DEF vars, pickVars, procVars, TreeWalk
<1>13. ASSUME PickStep(c) \/ \E p \in Pids : Connect(c, p) PROVE TreeWalk(c)'
  BY <1>6, <1>7, <1>8, <1>9, <1>13, <1>10 DEF PickStep
<1>14. CASE \E p \in Pids : ProcessStep(p)
  BY <1>5, <1>14
<1>15. CASE \E d \in Conns : PickStep(d) \/ \E p \in Pids : Connect(d, p)
  BY <1>11, <1>13, <1>15
<1>16. QED BY <1>12, <1>14, <1>15 DEF Next

TreeInv == ~Reuse => \A c \in Conns : TreeWalk(c)

(* README.md:19, router.go pick: with no pid given twice, a process whose   *)
(* launch was bound, whose lineage lives on and is at most MaxDepth parents *)
(* long gets the proxy of its launch whenever it resolves.                  *)
THEOREM LivingTreesAreProxied == Spec => [](~Reuse => LivingTreeIsProxied)
<1>1. Init => TreeInv
  BY DEF Init, TreeInv, TreeWalk, Walking
<1>2. TypeOK /\ ProxyInv /\ TreeInv /\ [Next]_vars => TreeInv'
  <2> SUFFICES ASSUME TypeOK, ProxyInv, TreeInv, [Next]_vars, ~Reuse, NEW c \in Conns PROVE TreeWalk(c)'
    BY DEF TreeInv
  <2>1. TypeOK' /\ TableInv' /\ Settled
    BY RouterTypeStep, TableInvStep DEF ProxyInv, RouteInv
  <2>2. QED BY <2>1, TreeWalkStep DEF ProxyInv, RouteInv, TreeInv
<1>3. TreeInv => (~Reuse => LivingTreeIsProxied)
  BY DEF TreeInv, TreeWalk, LivingTreeIsProxied
<1>4. QED BY <1>1, <1>2, <1>3, RouteInvariant, PTL DEF Spec
=============================================================================
