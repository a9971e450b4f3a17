--------------------------- MODULE Config_proofs ---------------------------
(***************************************************************************)
(* Proofs about the settings.  Of ConfigStore: with requests one at a       *)
(* time, the files of the settings and of the backup implement Settings,    *)
(* for any number of requests, goroutines and applications, whatever fault  *)
(* occurs.  Of ConfigFields: the page shows what is stored, and only the    *)
(* user changes an application's proxy, for any number of applications,     *)
(* proxies and requests, whatever an older version has left.                *)
(***************************************************************************)
EXTENDS ConfigStore, ConfigFields, SequenceTheorems, WellFoundedInduction, TLAPS

(* main.go handlers of the settings: type correctness.                      *)
THEOREM StoreTypeCorrect == Spec => []TypeOK
<1> USE DEF Stages, StagesOf, Kinds, Files, Whole, Empty, Mixed, At, Goto, Return
<1>1. Init => TypeOK
  BY DEF Init, TypeOK
<1>2. TypeOK /\ [Next]_vars => TypeOK'
  <2> SUFFICES ASSUME TypeOK, [Next]_vars PROVE TypeOK'
    OBVIOUS
  <2> USE DEF TypeOK
  <2>1. ASSUME NEW t \in Threads, NEW k \in Kinds, NEW a \in SUBSET Apps, Begin(t, k, a)
        PROVE  TypeOK'
    BY <2>1 DEF Begin, FirstStage
  <2>2. ASSUME NEW t \in Threads, Load(t) PROVE TypeOK'
    <3>1. file.apps \in SUBSET Apps
      OBVIOUS
    <3>2. Changed(kind[t], arg[t], file.apps) \in SUBSET Apps
      BY <3>1 DEF Changed
    <3>3. QED BY <2>2, <3>2 DEF Load
  <2>3. ASSUME NEW t \in Threads, Open(t) PROVE TypeOK'
    BY <2>3 DEF Open
  <2>4. ASSUME NEW t \in Threads, Truncate(t) PROVE TypeOK'
    BY <2>4 DEF Truncate
  <2>5. ASSUME NEW t \in Threads, Write(t) PROVE TypeOK'
    BY <2>5 DEF Write
  <2>6. ASSUME NEW t \in Threads, Unpack(t) PROVE TypeOK'
    BY <2>6 DEF Unpack
  <2>7. ASSUME NEW t \in Threads, Reload(t) PROVE TypeOK'
    <3>1. file.apps \in SUBSET Apps
      OBVIOUS
    <3>2. QED BY <2>7, <3>1 DEF Reload
  <2>8. ASSUME NEW t \in Threads, Drop(t) PROVE TypeOK'
    BY <2>8 DEF Drop
  <2>9. ASSUME NEW t \in Threads, Rename(t) PROVE TypeOK'
    BY <2>9 DEF Rename
  <2>10. CASE Killed
    BY <2>10 DEF Killed
  <2>11. CASE UNCHANGED vars
    BY <2>11 DEF vars, requestVars
  <2>12. QED BY <2>1, <2>2, <2>3, <2>4, <2>5, <2>6, <2>7, <2>8, <2>9, <2>10, <2>11
               DEF Next, Step
<1>3. QED BY <1>1, <1>2, PTL DEF Spec

-----------------------------------------------------------------------------
(* The inductive invariant of serialised requests: what the request in      *)
(* progress holds is what its effect on the files as they are would be.     *)
Solo(t) == \A u \in Threads \ {t} : pc[u] = "idle"

Intended(t) ==
  IF kind[t] = "import" THEN config[t] \in backup
  ELSE IF kind[t] = "post" THEN config[t] = arg[t]
  ELSE config[t] = Changed(kind[t], arg[t], file.apps)

StoreInv ==
  /\ \A t \in Threads : pc[t] # "idle" => Solo(t)
  /\ \A t \in Threads : pc[t] = "write" => file = Empty
  /\ \A t \in Threads : pc[t] = "rename" => backup = {}
  /\ \A t \in Threads : pc[t] \in {"truncate", "drop"} => Intended(t)
  /\ \A t \in Threads : pc[t] \in {"unpack", "reload"} => file = Whole(config[t])

LEMMA StoreInvStep ==
  ASSUME TypeOK, StoreInv, ~Overlap, [Next]_vars PROVE StoreInv'
<1> USE DEF TypeOK, StoreInv, Solo, Intended, At, Goto, Return
<1>1. ASSUME NEW t \in Threads, NEW k \in Kinds, NEW a \in SUBSET Apps, Begin(t, k, a)
      PROVE  StoreInv'
  BY <1>1 DEF Begin, FirstStage, Kinds
<1>2. ASSUME NEW t \in Threads, Load(t) PROVE StoreInv'
  BY <1>2 DEF Load, StagesOf, Kinds
<1>3. ASSUME NEW t \in Threads, Open(t) PROVE StoreInv'
  BY <1>3 DEF Open, StagesOf, Kinds
<1>4. ASSUME NEW t \in Threads, Truncate(t) PROVE StoreInv'
  BY <1>4 DEF Truncate
<1>5. ASSUME NEW t \in Threads, Write(t) PROVE StoreInv'
  BY <1>5 DEF Write
<1>6. ASSUME NEW t \in Threads, Unpack(t) PROVE StoreInv'
  BY <1>6 DEF Unpack
<1>7. ASSUME NEW t \in Threads, Reload(t) PROVE StoreInv'
  BY <1>7 DEF Reload
<1>8. ASSUME NEW t \in Threads, Drop(t) PROVE StoreInv'
  BY <1>8 DEF Drop
<1>9. ASSUME NEW t \in Threads, Rename(t) PROVE StoreInv'
  BY <1>9 DEF Rename
<1>10. CASE Killed
  BY <1>10 DEF Killed
<1>11. CASE UNCHANGED vars
  BY <1>11 DEF vars, requestVars
<1>12. QED BY <1>1, <1>2, <1>3, <1>4, <1>5, <1>6, <1>7, <1>8, <1>9, <1>10, <1>11 DEF Next, Step

-----------------------------------------------------------------------------
(* What the promise's variables are while only t may be in progress.        *)
Maps(t) ==
  /\ Stored = IF pc[t] = "write" THEN config[t] ELSE file.apps
  /\ BackedUp = IF pc[t] = "rename" THEN {config[t]} ELSE backup
  /\ Pending = IF pc[t] \in {"load", "open", "truncate", "drop"} THEN {t} ELSE {}
  /\ Answering = IF pc[t] \in {"write", "unpack", "reload", "rename"} THEN {t} ELSE {}

LEMMA MapsSolo == \A t \in Threads : Solo(t) => Maps(t)
<1> SUFFICES ASSUME NEW t \in Threads, Solo(t) PROVE Maps(t)
  OBVIOUS
<1>1. Writing = IF pc[t] = "write" THEN {t} ELSE {}
  BY DEF Solo, Writing, At
<1>2. Renaming = IF pc[t] = "rename" THEN {t} ELSE {}
  BY DEF Solo, Renaming, At
<1>3. Pending = IF pc[t] \in {"load", "open", "truncate", "drop"} THEN {t} ELSE {}
  BY DEF Solo, Pending
<1>4. Answering = IF pc[t] \in {"write", "unpack", "reload", "rename"} THEN {t} ELSE {}
  BY DEF Solo, Answering
<1>5. UNION {config[u] : u \in {t}} = config[t]
  OBVIOUS
<1>6. QED BY <1>1, <1>2, <1>3, <1>4, <1>5 DEF Maps, Stored, BackedUp

LEMMA ReplyUnchanged ==
  ASSUME \A t \in Threads : Reply'[t] = Reply[t]
  PROVE  Reply' = Reply
BY DEF Reply

LEMMA ReplyOfOne ==
  ASSUME NEW t \in Threads, NEW r,
         \A u \in Threads \ {t} : UNCHANGED <<pc[u], config[u]>>,
         r = IF t \in Pending' THEN {} ELSE config'[t]
  PROVE  Reply' = [Reply EXCEPT ![t] = r]
BY DEF Reply, Pending

LEMMA PromiseStep ==
  ASSUME TypeOK, TypeOK', StoreInv, StoreInv', ~Overlap, [Next]_vars,
         \A t \in Threads : Solo(t) => Maps(t),
         (\A t \in Threads : Solo(t) => Maps(t))'
  PROVE  [Promise!SettingsNext]_(Promise!settingsVars)
<1> USE DEF At, Goto, Return
<1>1. ASSUME NEW t \in Threads, NEW k \in Kinds, NEW a \in SUBSET Apps, Begin(t, k, a)
      PROVE  Promise!Ask(t, k, a)
  <2>1. pc[t] = "idle" /\ Solo(t) /\ Solo(t)' /\ Maps(t) /\ Maps(t)'
    BY <1>1 DEF Begin, Solo, TypeOK
  <2>2. pc'[t] \in {"load", "open", "truncate"}
    BY <1>1 DEF Begin, FirstStage, TypeOK
  <2>3. Reply' = [Reply EXCEPT ![t] = {}]
    <3>1. t \in Pending'
      BY <2>2 DEF Pending
    <3>2. \A u \in Threads \ {t} : UNCHANGED <<pc[u], config[u]>>
      BY <1>1 DEF Begin, TypeOK
    <3>3. QED BY <3>1, <3>2, ReplyOfOne
  <2>4. QED BY <1>1, <2>1, <2>2, <2>3 DEF Maps, Begin, Promise!Ask, Promise!Outcome
<1>2. ASSUME NEW t \in Threads, pc[t] # "idle", Solo(t)',
             \A u \in Threads \ {t} : UNCHANGED <<pc[u], config[u]>>
      PROVE  /\ Maps(t) /\ Maps(t)'
             /\ Reply' = [Reply EXCEPT ![t] = IF t \in Pending' THEN {} ELSE config'[t]]
             /\ t \in Pending /\ t \in Pending' => UNCHANGED Reply
             /\ t \notin Pending /\ t \notin Pending' /\ config'[t] = config[t] => UNCHANGED Reply
             /\ config'[t] \in SUBSET Apps
  <2>1. Maps(t) /\ Maps(t)'
    BY <1>2 DEF StoreInv
  <2>2. Reply' = [Reply EXCEPT ![t] = IF t \in Pending' THEN {} ELSE config'[t]]
    BY <1>2, ReplyOfOne
  <2>3. t \in Pending /\ t \in Pending' => UNCHANGED Reply
    BY <1>2, ReplyUnchanged DEF Reply, Pending
  <2>4. t \notin Pending /\ t \notin Pending' /\ config'[t] = config[t] => UNCHANGED Reply
    BY <1>2, ReplyUnchanged DEF Reply, Pending
  <2>5. QED BY <2>1, <2>2, <2>3, <2>4 DEF TypeOK
<1>3. ASSUME NEW t \in Threads, Step(t)
      PROVE  /\ Solo(t) /\ Solo(t)' /\ pc[t] # "idle"
             /\ \A u \in Threads \ {t} : UNCHANGED <<pc[u], config[u]>>
  BY <1>3 DEF Step, Load, Open, Truncate, Write, Unpack, Reload, Drop, Rename, StoreInv, Solo, TypeOK
<1> DEFINE Simulated(t) ==
      \/ Promise!TakeEffect(t) \/ Promise!Answer(t) \/ Promise!Refuse(t) \/ Promise!Lose(t)
      \/ UNCHANGED Promise!settingsVars
<1>4. ASSUME NEW t \in Threads, Step(t), pc[t] \in {"load", "open"} PROVE Simulated(t)
  <2>1. Solo(t)' /\ Maps(t) /\ Maps(t)'
    BY <1>2, <1>3, <1>4
  <2>2. CASE Load(t) /\ kind[t] = "get"
    <3>1. /\ pc'[t] = "idle" /\ Promise!Outcome(t, "ok")
          /\ UNCHANGED <<file, backup, kind, arg>> /\ config'[t] = file.apps
      BY <2>2 DEF Load, Changed, TypeOK, Promise!Outcome
    <3>2. t \notin Pending'
      BY <3>1 DEF Pending
    <3>3. Reply' = [Reply EXCEPT ![t] = config'[t]]
      BY <1>2, <1>3, <1>4, <3>2
    <3>4. Promise!TakeEffect(t)
      BY <1>4, <2>1, <2>2, <3>1, <3>3 DEF Maps, Promise!TakeEffect, Promise!Effects
    <3>5. QED BY <3>4
  <2>3. CASE /\ UNCHANGED <<file, backup, kind, arg, outcome>>
             /\ pc'[t] \in {"drop", "truncate"}
    <3>1. t \in Pending /\ t \in Pending'
      BY <1>4, <2>3 DEF Pending
    <3>2. UNCHANGED Reply
      BY <1>2, <1>3, <1>4, <3>1
    <3>3. UNCHANGED Promise!settingsVars
      BY <1>4, <2>1, <2>3, <3>2 DEF Maps, Promise!settingsVars
    <3>4. QED BY <3>3
  <2>4. CASE /\ UNCHANGED <<file, backup, kind, arg>> /\ Promise!Outcome(t, "error")
             /\ pc[t] = "open" /\ pc'[t] = "idle"
    <3>1. t \notin Pending'
      BY <2>4 DEF Pending
    <3>2. Reply' = [Reply EXCEPT ![t] = config'[t]] /\ config'[t] \in SUBSET Apps
      BY <1>2, <1>3, <1>4, <3>1
    <3>3. Promise!Refuse(t)
      BY <1>4, <2>1, <2>4, <3>2 DEF Maps, Promise!Refuse
    <3>4. QED BY <3>3
  <2>5. CASE Load(t) /\ kind[t] # "get"
    BY <2>3, <2>5 DEF Load, TypeOK
  <2>6. CASE Open(t)
    BY <2>3, <2>4, <2>6 DEF Open, TypeOK, Promise!Outcome
  <2>7. QED BY <1>4, <2>2, <2>5, <2>6 DEF Step, Truncate, Write, Unpack, Reload, Drop, Rename
<1>5. ASSUME NEW t \in Threads, Step(t), pc[t] \in {"truncate", "drop"} PROVE Simulated(t)
  <2>1. Solo(t)' /\ Maps(t) /\ Maps(t)' /\ UNCHANGED <<kind, arg, config>>
    BY <1>2, <1>3, <1>5 DEF Step, Load, Open, Truncate, Write, Unpack, Reload, Drop, Rename
  <2>2. CASE pc'[t] = "idle" /\ UNCHANGED <<file, backup>> /\ Promise!Outcome(t, "error")
    <3>1. t \notin Pending'
      BY <2>2 DEF Pending
    <3>2. Reply' = [Reply EXCEPT ![t] = config'[t]] /\ config'[t] \in SUBSET Apps
      BY <1>2, <1>3, <1>5, <3>1
    <3>3. Promise!Refuse(t)
      BY <1>5, <2>1, <2>2, <3>2 DEF Maps, Promise!Refuse
    <3>4. QED BY <3>3
  <2>3. CASE pc[t] = "truncate" /\ pc'[t] = "write" /\ UNCHANGED <<backup, outcome>>
    <3>1. t \notin Pending'
      BY <2>3 DEF Pending
    <3>2. Reply' = [Reply EXCEPT ![t] = config'[t]]
      BY <1>2, <1>3, <1>5, <3>1
    <3>3. kind[t] \in {"post", "add", "remove", "import"} /\ Intended(t)
      BY <2>3 DEF TypeOK, StagesOf, Kinds, StoreInv
    <3>4. Promise!TakeEffect(t)
      BY <2>1, <2>3, <3>2, <3>3 DEF Maps, Intended, Changed, Promise!TakeEffect, Promise!Effects
    <3>5. QED BY <3>4
  <2>4. CASE pc[t] = "drop" /\ pc'[t] = "rename" /\ UNCHANGED <<file, outcome>>
    <3>1. t \notin Pending'
      BY <2>4 DEF Pending
    <3>2. Reply' = [Reply EXCEPT ![t] = config'[t]]
      BY <1>2, <1>3, <1>5, <3>1
    <3>3. kind[t] = "export" /\ config[t] = file.apps
      BY <2>4 DEF TypeOK, StagesOf, Kinds, StoreInv, Intended, Changed
    <3>4. Promise!TakeEffect(t)
      BY <2>1, <2>4, <3>2, <3>3 DEF Maps, Promise!TakeEffect, Promise!Effects
    <3>5. QED BY <3>4
  <2>5. QED BY <1>5, <2>2, <2>3, <2>4
             DEF Step, Load, Open, Truncate, Write, Unpack, Reload, Drop, Rename, TypeOK,
                 Promise!Outcome
<1>6. ASSUME NEW t \in Threads, Step(t), pc[t] \in {"write", "unpack", "reload", "rename"}
      PROVE  Simulated(t)
  <2>1. /\ Solo(t)' /\ Maps(t) /\ Maps(t)' /\ UNCHANGED <<kind, arg>>
        /\ pc'[t] \in {"idle", "unpack", "reload"}
    BY <1>2, <1>3, <1>6
       DEF Step, Load, Open, Truncate, Write, Unpack, Reload, Drop, Rename, TypeOK
  <2>2. config'[t] = config[t]
    BY <1>6 DEF Step, Load, Open, Truncate, Write, Unpack, Reload, Drop, Rename, StoreInv, Whole, TypeOK
  <2>3. UNCHANGED Reply
    BY <1>2, <1>3, <1>6, <2>1, <2>2 DEF Pending
  <2>4. CASE pc[t] = "write"
    <3>1. kind[t] # "export" /\ file = Empty
      BY <2>4 DEF TypeOK, StagesOf, StoreInv
    <3>2. Write(t)
      BY <1>6, <2>4 DEF Step, Load, Open, Truncate, Unpack, Reload, Drop, Rename
    <3>3. \/ file'.apps = config[t] /\ pc'[t] = "idle" /\ Promise!Outcome(t, "ok")
          \/ file'.apps = config[t] /\ pc'[t] = "unpack" /\ UNCHANGED outcome
          \/ Faults /\ file'.apps = {} /\ pc'[t] = "idle" /\ Promise!Outcome(t, "error")
      BY <3>1, <3>2, StoreAssumption DEF Write, Whole, Empty, Promise!Outcome, TypeOK
    <3>4. UNCHANGED backup
      BY <3>2 DEF Write
    <3>5. QED BY <2>1, <2>2, <2>3, <2>4, <3>1, <3>3, <3>4
              DEF Maps, Promise!Answer, Promise!Lose, Promise!settingsVars
  <2>5. CASE pc[t] \in {"unpack", "reload"}
    <3>1. kind[t] = "import"
      BY <2>5 DEF TypeOK, StagesOf, Kinds
    <3>2. /\ UNCHANGED <<file, backup>>
          /\ \/ pc'[t] = "reload" /\ UNCHANGED outcome
             \/ pc'[t] = "idle" /\ Promise!Outcome(t, "ok")
             \/ pc'[t] = "idle" /\ Promise!Outcome(t, "error")
      BY <1>6, <2>5
         DEF Step, Load, Open, Truncate, Write, Unpack, Reload, Drop, Rename, TypeOK,
             Promise!Outcome
    <3>3. QED BY <2>1, <2>2, <2>3, <2>5, <3>1, <3>2
              DEF Maps, Promise!Answer, Promise!settingsVars
  <2>6. CASE pc[t] = "rename"
    <3>1. kind[t] = "export" /\ backup = {}
      BY <2>6 DEF TypeOK, StagesOf, Kinds, StoreInv
    <3>2. Rename(t)
      BY <1>6, <2>6 DEF Step, Load, Open, Truncate, Write, Unpack, Reload, Drop
    <3>3. /\ UNCHANGED file /\ pc'[t] = "idle"
          /\ \/ backup' = {config[t]} /\ Promise!Outcome(t, "ok")
             \/ Faults /\ backup' = {} /\ Promise!Outcome(t, "error")
      BY <3>1, <3>2, StoreAssumption DEF Rename, Promise!Outcome, TypeOK
    <3>4. QED BY <2>1, <2>2, <2>3, <2>6, <3>1, <3>3 DEF Maps, Promise!Answer, Promise!Lose
  <2>7. QED BY <1>6, <2>4, <2>5, <2>6
<1>7. CASE UNCHANGED vars
  BY <1>7 DEF vars, requestVars, Stored, BackedUp, Reply, Pending, Answering, Writing, Renaming,
              Promise!settingsVars
<1>8. CASE Killed /\ \E t \in Threads : pc[t] # "idle"
  <2>1. PICK t \in Threads : pc[t] # "idle"
    BY <1>8
  <2>2. /\ Solo(t)
        /\ Solo(t)'
        /\ \A u \in Threads \ {t} : UNCHANGED <<pc[u], config[u]>>
        /\ UNCHANGED <<file, backup, kind, arg, config>>
        /\ pc'[t] = "idle"
        /\ Promise!Outcome(t, "error")
    <3>1. Solo(t) /\ \A u \in Threads : pc'[u] = "idle"
      BY <1>8, <2>1 DEF Killed, StoreInv
    <3>2. \A u \in Threads : outcome'[u] = IF u = t THEN "error" ELSE outcome[u]
      BY <1>8, <2>1, <3>1 DEF Killed, Solo
    <3>3. Promise!Outcome(t, "error")
      BY <1>8, <3>2 DEF Killed, TypeOK, Promise!Outcome
    <3>4. QED BY <1>8, <3>1, <3>3 DEF Killed, Solo
  <2>3. Maps(t) /\ Maps(t)' /\ Faults
    BY <1>2, <1>8, <2>1, <2>2 DEF Killed
  <2>4. CASE pc[t] \in {"load", "open", "truncate", "drop"}
    <3>1. t \notin Pending'
      BY <2>2 DEF Pending
    <3>2. Reply' = [Reply EXCEPT ![t] = config'[t]] /\ config'[t] \in SUBSET Apps
      BY <1>2, <2>1, <2>2, <3>1
    <3>3. Promise!Refuse(t)
      BY <2>2, <2>3, <2>4, <3>2 DEF Maps, Promise!Refuse
    <3>4. QED BY <3>3 DEF Promise!SettingsNext
  <2>5. CASE pc[t] \in {"unpack", "reload"}
    <3>1. UNCHANGED Reply
      BY <1>2, <2>1, <2>2, <2>5 DEF Pending
    <3>2. kind[t] = "import"
      BY <2>5 DEF TypeOK, StagesOf, Kinds
    <3>3. Promise!Answer(t)
      BY <2>2, <2>3, <2>5, <3>1, <3>2 DEF Maps, Promise!Answer
    <3>4. QED BY <3>3 DEF Promise!SettingsNext
  <2>6. CASE pc[t] \in {"write", "rename"}
    <3>1. UNCHANGED Reply
      BY <1>2, <2>1, <2>2, <2>6 DEF Pending
    <3>2. /\ pc[t] = "write" => kind[t] # "export" /\ file.apps = {}
          /\ pc[t] = "rename" => kind[t] = "export" /\ backup = {}
      BY DEF TypeOK, StagesOf, Kinds, StoreInv, Empty
    <3>3. Promise!Lose(t)
      BY <2>2, <2>3, <2>6, <3>1, <3>2 DEF Maps, Promise!Lose
    <3>4. QED BY <3>3 DEF Promise!SettingsNext
  <2>7. QED BY <2>1, <2>4, <2>5, <2>6 DEF TypeOK, Stages
<1>9. CASE Killed /\ \A t \in Threads : pc[t] = "idle"
  <2>1. UNCHANGED vars
    BY <1>9 DEF Killed, vars, requestVars, TypeOK
  <2>2. QED BY <1>7, <2>1
<1>10. ASSUME NEW t \in Threads, Step(t) PROVE Simulated(t)
  BY <1>3, <1>4, <1>5, <1>6, <1>10 DEF TypeOK, Stages
<1>11. QED
  <2>1. CASE \E t \in Threads : Step(t)
    BY <1>10, <2>1 DEF Promise!SettingsNext
  <2>2. CASE \E t \in Threads, k \in Kinds, a \in SUBSET Apps : Begin(t, k, a)
    BY <1>1, <2>2 DEF Promise!SettingsNext, Kinds, Promise!Kinds
  <2>3. QED BY <1>7, <1>8, <1>9, <2>1, <2>2 DEF Next

(* README.md:22: with requests one at a time the files are settings and a   *)
(* backup that every request reads and changes in one step, and a fault     *)
(* loses only what a request in progress was changing.                      *)
THEOREM SettingsAreKept == ~Overlap => (Spec => ImplementsSettings)
<1> SUFFICES ASSUME ~Overlap PROVE Spec => ImplementsSettings
  OBVIOUS
<1>1. Init => StoreInv /\ Promise!SettingsInit
  <2> SUFFICES ASSUME Init PROVE StoreInv /\ Promise!SettingsInit
    OBVIOUS
  <2>1. StoreInv
    BY DEF Init, StoreInv, Solo
  <2>2. Writing = {} /\ Renaming = {} /\ Pending = {} /\ Answering = {}
    BY DEF Init, Writing, Renaming, Pending, Answering, At
  <2>3. Reply = [t \in Threads |-> {}]
    BY <2>2 DEF Init, Reply
  <2>4. file.apps \in SUBSET Apps
    BY DEF Init, Whole, Empty
  <2>5. QED BY <2>1, <2>2, <2>3, <2>4 DEF Init, Stored, BackedUp, Promise!SettingsInit
<1>2. TypeOK /\ StoreInv /\ [Next]_vars => StoreInv'
  BY StoreInvStep
<1>3. /\ TypeOK /\ TypeOK' /\ StoreInv /\ StoreInv' /\ [Next]_vars
      /\ (\A t \in Threads : Solo(t) => Maps(t))
      /\ (\A t \in Threads : Solo(t) => Maps(t))'
      => [Promise!SettingsNext]_(Promise!settingsVars)
  BY PromiseStep
<1>4. QED BY <1>1, <1>2, <1>3, MapsSolo, StoreTypeCorrect, PTL DEF Spec, ImplementsSettings, Promise!SettingsSpec

-----------------------------------------------------------------------------
(* ConfigFields.  Its loops are recursive functions, which exist because    *)
(* the rounds of a loop can be counted.                                     *)

(* Induction over the natural numbers, for a set.                          *)
LEMMA NatSetInduction ==
  ASSUME NEW T, 0 \in T, \A n \in Nat : n \in T => n + 1 \in T
  PROVE  Nat \subseteq T
<1> SUFFICES ASSUME ~(Nat \subseteq T) PROVE FALSE
  OBVIOUS
<1> DEFINE U == Nat \ T
           R == {ss \in Nat \X Nat : ss[1] < ss[2]}
<1>1. U \subseteq Nat /\ U # {}
  OBVIOUS
<1>2. PICK x \in U : \A y \in U : ~(<<y, x>> \in R)
  <2>1. OpToRel(<, Nat) = R
    BY Zenon DEF OpToRel
  <2> HIDE DEF U, R
  <2>2. IsWellFoundedOn(R, Nat)
    BY <2>1, NatLessThanWellFounded, Zenon
  <2>3. QED BY <1>1, <2>2, WFMin
<1>3. x \in Nat /\ x \notin T /\ x # 0
  BY DEF U
<1>4. x - 1 \in Nat /\ x - 1 < x /\ x = (x - 1) + 1
  BY <1>3
<1>5. x - 1 \in U
  BY <1>3, <1>4
<1>6. <<x - 1, x>> \in R
  BY <1>3, <1>4
<1>7. QED BY <1>2, <1>5, <1>6

(* A loop of N rounds over S that starts with s0: G[n] is its n-th round.   *)
Rounds(S, s0, N, G, f) ==
  f \in [0..N -> S] /\ f[0] = s0 /\ \A n \in 1..N : f[n] = G[n][f[n - 1]]

LEMMA LoopRuns ==
  ASSUME NEW S, NEW s0 \in S, NEW N \in Nat, NEW G \in [1..N -> [S -> S]]
  PROVE  \E f : Rounds(S, s0, N, G, f)
<1> DEFINE T == {m \in Nat : m <= N => \E f : Rounds(S, s0, m, G, f)}
<1>1. 0 \in T
  <2>1. Rounds(S, s0, 0, G, [n \in 0..0 |-> s0])
    BY DEF Rounds
  <2>2. QED BY <2>1
<1>2. ASSUME NEW m \in Nat, m \in T PROVE m + 1 \in T
  <2> SUFFICES ASSUME m + 1 <= N PROVE \E f : Rounds(S, s0, m + 1, G, f)
    OBVIOUS
  <2>1. PICK f : Rounds(S, s0, m, G, f)
    BY <1>2
  <2> DEFINE g == [n \in 0..m + 1 |-> IF n = m + 1 THEN G[m + 1][f[m]] ELSE f[n]]
  <2>2. f \in [0..m -> S] /\ f[0] = s0 /\ \A n \in 1..m : f[n] = G[n][f[n - 1]]
    BY <2>1 DEF Rounds
  <2>3. G[m + 1][f[m]] \in S
    <3>1. m \in 0..m /\ m + 1 \in 1..N
      OBVIOUS
    <3>2. f[m] \in S /\ G[m + 1] \in [S -> S]
      BY <3>1, <2>2
    <3>3. QED BY <3>2
  <2>4. g \in [0..m + 1 -> S] /\ g[0] = s0
    BY <2>2, <2>3
  <2>5. \A n \in 1..m + 1 : g[n] = G[n][g[n - 1]]
    <3> SUFFICES ASSUME NEW n \in 1..m + 1 PROVE g[n] = G[n][g[n - 1]]
      OBVIOUS
    <3>1. n - 1 \in 0..m /\ n - 1 # m + 1 /\ n \in 0..m + 1 /\ n - 1 \in 0..m + 1
      OBVIOUS
    <3>2. g[n - 1] = f[n - 1]
      BY <3>1
    <3>3. CASE n = m + 1
      BY <3>1, <3>2, <3>3
    <3>4. CASE n \in 1..m
      BY <3>1, <3>2, <3>4, <2>2
    <3>5. QED BY <3>3, <3>4
  <2>6. Rounds(S, s0, m + 1, G, g)
    BY <2>4, <2>5 DEF Rounds
  <2>7. QED BY <2>6
<1> HIDE DEF T
<1>3. Nat \subseteq T
  BY <1>1, <1>2, NatSetInduction
<1>4. N \in T
  BY <1>3
<1>5. QED BY <1>4 DEF T

(* Keep.                                                                   *)
KeptBy(s, T, kept) ==
  /\ kept[0] = <<>>
  /\ \A n \in 1..Len(s) : kept[n] = IF s[n] \in T THEN Append(kept[n - 1], s[n]) ELSE kept[n - 1]

LEMMA KeepLoop ==
  ASSUME NEW A, NEW s \in Seq(A), NEW T
  PROVE  \E kept \in [0..Len(s) -> Seq(A)] : KeptBy(s, T, kept) /\ Keep(s, T) = kept[Len(s)]
<1> DEFINE N == Len(s)
           G == [n \in 1..N |-> [r \in Seq(A) |-> IF s[n] \in T THEN Append(r, s[n]) ELSE r]]
           Loop(f) == f = [n \in 0..N |-> IF n = 0 THEN <<>>
                                          ELSE IF s[n] \in T THEN Append(f[n - 1], s[n]) ELSE f[n - 1]]
<1>1. N \in Nat /\ \A n \in 1..N : s[n] \in A
  OBVIOUS
<1>2. G \in [1..N -> [Seq(A) -> Seq(A)]]
  BY <1>1
<1>3. <<>> \in Seq(A)
  OBVIOUS
<1>4. PICK f : Rounds(Seq(A), <<>>, N, G, f)
  <2> HIDE DEF N, G
  <2>1. QED BY <1>1, <1>2, <1>3, LoopRuns
<1>5. f \in [0..N -> Seq(A)] /\ f[0] = <<>>
  BY <1>4 DEF Rounds
<1>6. \A n \in 1..N : f[n] = IF s[n] \in T THEN Append(f[n - 1], s[n]) ELSE f[n - 1]
  <2> SUFFICES ASSUME NEW n \in 1..N
               PROVE  f[n] = IF s[n] \in T THEN Append(f[n - 1], s[n]) ELSE f[n - 1]
    OBVIOUS
  <2>1. f[n] = G[n][f[n - 1]]
    BY <1>4 DEF Rounds
  <2>2. n - 1 \in 0..N
    BY <1>1
  <2>3. f[n - 1] \in Seq(A)
    BY <1>5, <2>2
  <2>4. QED BY <2>1, <2>3
<1> HIDE DEF G
<1> DEFINE After(e, n) == IF n = 0 THEN <<>>
                          ELSE IF s[n] \in T THEN Append(e[n - 1], s[n]) ELSE e[n - 1]
<1>7. Loop(f)
  <2>1. f = [n \in 0..N |-> f[n]]
    BY <1>5
  <2>2. \A n \in 0..N : f[n] = After(f, n)
    <3> SUFFICES ASSUME NEW n \in 0..N PROVE f[n] = After(f, n)
      BY Zenon
    <3>1. CASE n = 0
      BY <3>1, <1>5
    <3>2. CASE n # 0
      <4>1. n \in 1..N
        BY <3>2, <1>1
      <4>2. QED BY <3>2, <4>1, <1>6, Zenon
    <3>3. QED BY <3>1, <3>2
  <2>3. QED BY <2>1, <2>2, Zenon
<1> DEFINE g == CHOOSE e : Loop(e)
<1>8. Loop(g)
  BY <1>7
<1>9. Keep(s, T) = g[N]
  BY DEF Keep
<1> HIDE DEF g
<1>10. g[0] = <<>> /\ \A n \in 1..N : g[n] = IF s[n] \in T THEN Append(g[n - 1], s[n]) ELSE g[n - 1]
  <2>1. \A n \in 0..N : g[n] = After(g, n)
    BY <1>8, Zenon
  <2>2. 0 \in 0..N /\ \A n \in 1..N : n \in 0..N /\ n # 0
    BY <1>1
  <2>3. QED BY <2>1, <2>2
<1>11. g \in [0..N -> Seq(A)]
  <2> DEFINE I == {n \in Nat : n <= N => g[n] \in Seq(A)}
  <2>1. 0 \in I
    BY <1>3, <1>10
  <2>2. ASSUME NEW n \in Nat, n \in I PROVE n + 1 \in I
    <3> SUFFICES ASSUME n + 1 <= N PROVE g[n + 1] \in Seq(A)
      OBVIOUS
    <3>1. n + 1 \in 1..N /\ (n + 1) - 1 = n /\ n <= N
      BY <1>1
    <3>2. g[n] \in Seq(A) /\ s[n + 1] \in A
      BY <2>2, <3>1, <1>1
    <3>3. g[n + 1] = IF s[n + 1] \in T THEN Append(g[n], s[n + 1]) ELSE g[n]
      BY <3>1, <1>10
    <3>4. QED BY <3>2, <3>3
  <2> HIDE DEF I
  <2>3. Nat \subseteq I
    BY <2>1, <2>2, NatSetInduction
  <2>4. \A n \in 0..N : g[n] \in Seq(A)
    BY <2>3, <1>1 DEF I
  <2>5. QED BY <2>4, <1>8
<1>12. QED BY <1>9, <1>10, <1>11 DEF KeptBy

LEMMA KeepProperties ==
  ASSUME NEW A, NEW s \in Seq(A), NEW T
  PROVE  /\ Keep(s, T) \in Seq(A) /\ Len(Keep(s, T)) <= Len(s)
         /\ \E at \in [1..Len(Keep(s, T)) -> 1..Len(s)] :
              /\ \A i, j \in 1..Len(Keep(s, T)) : i < j => at[i] < at[j]
              /\ \A i \in 1..Len(Keep(s, T)) : Keep(s, T)[i] = s[at[i]] /\ s[at[i]] \in T
<1> DEFINE N == Len(s)
<1>1. N \in Nat /\ \A n \in 1..N : s[n] \in A
  OBVIOUS
<1>2. PICK kept \in [0..N -> Seq(A)] : KeptBy(s, T, kept) /\ Keep(s, T) = kept[N]
  BY KeepLoop
<1> DEFINE Picks(k, at, n) ==
      /\ at \in [1..Len(k) -> 1..n]
      /\ \A i, j \in 1..Len(k) : i < j => at[i] < at[j]
      /\ \A i \in 1..Len(k) : k[i] = s[at[i]] /\ s[at[i]] \in T
<1> DEFINE Good(n) == Len(kept[n]) <= n /\ \E at : Picks(kept[n], at, n)
           I == {n \in Nat : n <= N => Good(n)}
<1>3. 0 \in I
  <2>1. kept[0] = <<>>
    BY <1>2 DEF KeptBy
  <2>2. Len(<<>>) = 0 /\ 1..0 = {}
    OBVIOUS
  <2>3. Picks(<<>>, <<>>, 0)
    BY <2>2
  <2>4. QED BY <2>1, <2>2, <2>3
<1>4. ASSUME NEW n \in Nat, n \in I PROVE n + 1 \in I
  <2> SUFFICES ASSUME n + 1 <= N PROVE Good(n + 1)
    <3> HIDE DEF Good
    <3>1. QED OBVIOUS
  <2>1. n <= N /\ n \in 0..N /\ n + 1 \in 1..N /\ (n + 1) - 1 = n
    BY <1>1
  <2>2. PICK at : Picks(kept[n], at, n)
    BY <1>4, <2>1
  <2>3. kept[n] \in Seq(A) /\ Len(kept[n]) \in Nat /\ Len(kept[n]) <= n
    BY <1>4, <2>1, <1>2
  <2>4. kept[n + 1] = IF s[n + 1] \in T THEN Append(kept[n], s[n + 1]) ELSE kept[n]
    BY <2>1, <1>2 DEF KeptBy
  <2> DEFINE k == kept[n]
             L == Len(k)
             e == s[n + 1]
             to == [i \in 1..L + 1 |-> IF i = L + 1 THEN n + 1 ELSE at[i]]
  <2>5. CASE e \notin T
    <3>1. kept[n + 1] = k
      BY <2>4, <2>5
    <3>2. 1..n \subseteq 1..n + 1
      OBVIOUS
    <3>3. Picks(k, at, n + 1)
      BY <2>2, <3>2
    <3>4. Len(k) <= n + 1
      BY <2>3
    <3> HIDE DEF Picks, k
    <3>5. QED BY <3>1, <3>3, <3>4
  <2>6. CASE e \in T
    <3> DEFINE k2 == Append(k, e)
    <3>1. kept[n + 1] = k2
      BY <2>4, <2>6
    <3>2. e \in A
      BY <2>1, <1>1
    <3>3. /\ Len(k2) = L + 1 /\ k2[L + 1] = e
          /\ \A i \in 1..L : k2[i] = k[i]
      BY <2>3, <3>2, AppendProperties
    <3>4. /\ \A i \in 1..L : at[i] \in 1..n /\ at[i] \in Nat /\ at[i] < n + 1
          /\ \A i, j \in 1..L : i < j => at[i] < at[j]
          /\ \A i \in 1..L : k[i] = s[at[i]] /\ s[at[i]] \in T
      BY <2>2
    <3>5. L \in Nat
      BY <2>3
    <3> HIDE DEF k, L, e, k2
    <3>6. to \in [1..L + 1 -> 1..n + 1]
      BY <3>4, <3>5
    <3>7. to[L + 1] = n + 1 /\ \A i \in 1..L : to[i] = at[i]
      BY <3>5
    <3> HIDE DEF to
    <3>8. \A i, j \in 1..L + 1 : i < j => to[i] < to[j]
      <4> SUFFICES ASSUME NEW i \in 1..L + 1, NEW j \in 1..L + 1, i < j PROVE to[i] < to[j]
        OBVIOUS
      <4>1. i \in 1..L
        BY <3>5
      <4>2. CASE j = L + 1
        BY <4>1, <4>2, <3>4, <3>7
      <4>3. CASE j \in 1..L
        BY <4>1, <4>3, <3>4, <3>7
      <4>4. QED BY <4>2, <4>3, <3>5
    <3>9. \A i \in 1..L + 1 : k2[i] = s[to[i]] /\ s[to[i]] \in T
      <4> SUFFICES ASSUME NEW i \in 1..L + 1 PROVE k2[i] = s[to[i]] /\ s[to[i]] \in T
        OBVIOUS
      <4>1. CASE i = L + 1
        BY <4>1, <3>3, <3>7, <2>6 DEF e
      <4>2. CASE i \in 1..L
        BY <4>2, <3>3, <3>4, <3>7
      <4>3. QED BY <4>1, <4>2, <3>5
    <3>10. Picks(k2, to, n + 1)
      BY <3>3, <3>6, <3>8, <3>9
    <3>11. L + 1 <= n + 1
      BY <2>3, <3>5 DEF L, k
    <3> HIDE DEF Picks
    <3>12. QED BY <3>1, <3>3, <3>10, <3>11
  <2>7. QED BY <2>5, <2>6
<1> HIDE DEF I
<1>5. N \in I
  <2>1. Nat \subseteq I
    BY <1>3, <1>4, NatSetInduction
  <2>2. QED BY <2>1, <1>1
<1>6. Len(kept[N]) <= N /\ \E at : Picks(kept[N], at, N)
  BY <1>1, <1>5 DEF I
<1>7. kept[N] \in Seq(A)
  BY <1>1, <1>2
<1>8. QED BY <1>2, <1>6, <1>7

(* A loop that skips nothing.                                              *)
LEMMA KeepAll ==
  ASSUME NEW A, NEW s \in Seq(A), NEW T, \A i \in 1..Len(s) : s[i] \in T
  PROVE  Keep(s, T) = s
<1> DEFINE N == Len(s)
<1>1. N \in Nat /\ \A n \in 1..N : s[n] \in A
  OBVIOUS
<1>2. PICK kept \in [0..N -> Seq(A)] : KeptBy(s, T, kept) /\ Keep(s, T) = kept[N]
  BY KeepLoop
<1> DEFINE I == {n \in Nat : n <= N => Len(kept[n]) = n /\ \A i \in 1..n : kept[n][i] = s[i]}
<1>3. 0 \in I
  BY <1>2 DEF KeptBy
<1>4. ASSUME NEW n \in Nat, n \in I PROVE n + 1 \in I
  <2> SUFFICES ASSUME n + 1 <= N
               PROVE  Len(kept[n + 1]) = n + 1 /\ \A i \in 1..n + 1 : kept[n + 1][i] = s[i]
    OBVIOUS
  <2>1. n <= N /\ n \in 0..N /\ n + 1 \in 1..N /\ (n + 1) - 1 = n
    BY <1>1
  <2>2. kept[n] \in Seq(A) /\ Len(kept[n]) = n /\ \A i \in 1..n : kept[n][i] = s[i]
    BY <1>4, <2>1, <1>2
  <2>3. kept[n + 1] = Append(kept[n], s[n + 1]) /\ s[n + 1] \in A
    BY <2>1, <1>1, <1>2 DEF KeptBy
  <2>4. /\ Len(kept[n + 1]) = n + 1 /\ kept[n + 1][n + 1] = s[n + 1]
        /\ \A i \in 1..n : kept[n + 1][i] = kept[n][i]
    BY <2>2, <2>3, AppendProperties
  <2>5. QED BY <2>2, <2>4
<1> HIDE DEF I
<1>5. N \in I
  <2>1. Nat \subseteq I
    BY <1>3, <1>4, NatSetInduction
  <2>2. QED BY <2>1, <1>1
<1>6. Len(kept[N]) = N /\ \A i \in 1..N : kept[N][i] = s[i]
  BY <1>1, <1>5 DEF I
<1>7. kept[N] \in Seq(A)
  BY <1>1, <1>2
<1>8. kept[N] = s
  BY <1>6, <1>7, SeqEqual
<1>9. QED BY <1>2, <1>8

-----------------------------------------------------------------------------
(* normalizeProxyConfig: the proxies.                                      *)
LEMMA AddProxyType ==
  ASSUME NEW proxies \in Seq(Proxies), NEW item \in Proxies
  PROVE  AddProxy(proxies, item) \in Seq(Proxies)
<1>1. Len(proxies) + 1 \in Nat
  OBVIOUS
<1>2. [id |-> IF item.id = 0 THEN Len(proxies) + 1 ELSE item.id, url |-> item.url] \in Proxies
  BY <1>1 DEF Proxies
<1>3. QED BY <1>2 DEF AddProxy

LEMMA NormalProxiesType ==
  ASSUME NEW c \in Fields
  PROVE  /\ NormalProxies(c) \in Seq(Proxies)
         /\ c.proxies = <<>> /\ c.url = NoUrl => NormalProxies(c) = <<>>
<1> DEFINE s == c.proxies
           N == Len(s)
           G == [n \in 1..N |-> [r \in Seq(Proxies) |-> AddProxy(r, s[n])]]
           After(e, n) == IF n = 0 THEN <<>> ELSE AddProxy(e[n - 1], s[n])
           Loop(f) == f = [n \in 0..N |-> After(f, n)]
<1>1. s \in Seq(Proxies) /\ N \in Nat /\ \A n \in 1..N : s[n] \in Proxies
  BY DEF Fields
<1>2. G \in [1..N -> [Seq(Proxies) -> Seq(Proxies)]]
  BY <1>1, AddProxyType
<1>3. <<>> \in Seq(Proxies)
  OBVIOUS
<1>4. PICK f : Rounds(Seq(Proxies), <<>>, N, G, f)
  <2> HIDE DEF N, G
  <2>1. QED BY <1>1, <1>2, <1>3, LoopRuns
<1>5. f \in [0..N -> Seq(Proxies)] /\ f[0] = <<>>
  BY <1>4 DEF Rounds
<1>6. \A n \in 1..N : f[n] = AddProxy(f[n - 1], s[n])
  <2> SUFFICES ASSUME NEW n \in 1..N PROVE f[n] = AddProxy(f[n - 1], s[n])
    OBVIOUS
  <2>1. f[n] = G[n][f[n - 1]]
    BY <1>4 DEF Rounds
  <2>2. n - 1 \in 0..N
    BY <1>1
  <2>3. f[n - 1] \in Seq(Proxies)
    BY <1>5, <2>2
  <2>4. QED BY <2>1, <2>3
<1> HIDE DEF G
<1>7. Loop(f)
  <2>1. f = [n \in 0..N |-> f[n]]
    BY <1>5
  <2>2. \A n \in 0..N : f[n] = After(f, n)
    <3> SUFFICES ASSUME NEW n \in 0..N PROVE f[n] = After(f, n)
      BY Zenon
    <3>1. CASE n = 0
      BY <3>1, <1>5
    <3>2. CASE n # 0
      <4>1. n \in 1..N
        BY <3>2, <1>1
      <4>2. QED BY <3>2, <4>1, <1>6, Zenon
    <3>3. QED BY <3>1, <3>2
  <2>3. QED BY <2>1, <2>2, Zenon
<1> DEFINE g == CHOOSE e : Loop(e)
<1>8. Loop(g)
  BY <1>7
<1>9. NormalProxies(c) = IF g[N] = <<>> /\ c.url # NoUrl THEN <<[id |-> 1, url |-> c.url]>> ELSE g[N]
  BY DEF NormalProxies
<1> HIDE DEF g
<1>10. g[0] = <<>> /\ \A n \in 1..N : g[n] = AddProxy(g[n - 1], s[n])
  <2>1. \A n \in 0..N : g[n] = After(g, n)
    BY <1>8, Zenon
  <2>2. 0 \in 0..N /\ \A n \in 1..N : n \in 0..N /\ n # 0
    BY <1>1
  <2>3. QED BY <2>1, <2>2
<1>11. g[N] \in Seq(Proxies)
  <2> DEFINE I == {n \in Nat : n <= N => g[n] \in Seq(Proxies)}
  <2>1. 0 \in I
    BY <1>3, <1>10
  <2>2. ASSUME NEW n \in Nat, n \in I PROVE n + 1 \in I
    <3> SUFFICES ASSUME n + 1 <= N PROVE g[n + 1] \in Seq(Proxies)
      OBVIOUS
    <3>1. n + 1 \in 1..N /\ (n + 1) - 1 = n /\ n <= N
      BY <1>1
    <3>2. g[n] \in Seq(Proxies) /\ s[n + 1] \in Proxies
      BY <2>2, <3>1, <1>1
    <3>3. g[n + 1] = AddProxy(g[n], s[n + 1])
      BY <3>1, <1>10
    <3>4. QED BY <3>2, <3>3, AddProxyType
  <2> HIDE DEF I
  <2>3. Nat \subseteq I
    BY <2>1, <2>2, NatSetInduction
  <2>4. QED BY <2>3, <1>1 DEF I
<1>12. [id |-> 1, url |-> c.url] \in Proxies
  BY DEF Fields, Proxies
<1>13. s = <<>> => g[N] = <<>>
  BY <1>10
<1>14. QED BY <1>9, <1>11, <1>12, <1>13

(* normalizeProxyConfig: an application.                                   *)
LEMMA NormalAppProperties ==
  ASSUME NEW app \in Applications, NEW proxies \in Seq(Proxies), NEW fresh \in Nat
  PROVE  /\ NormalApp(app, proxies, fresh) \in Applications
         /\ NormalApp(app, proxies, fresh).id = IF app.id = 0 THEN fresh ELSE app.id
         /\ NormalApp(app, proxies, fresh).named = app.named
         /\ app.proxy # NoUrl => NormalApp(app, proxies, fresh).proxy = app.proxy
         /\ proxies = <<>> /\ app.id # 0 => NormalApp(app, proxies, fresh) = app
         /\ \A fresh2 : app.id # 0 => NormalApp(app, proxies, fresh2) = NormalApp(app, proxies, fresh)
<1> DEFINE named == {i \in DOMAIN proxies : proxies[i].id = app.pid}
           url == IF app.proxy = NoUrl /\ app.pid # 0 /\ named # {}
                  THEN proxies[CHOOSE i \in named : TRUE].url ELSE app.proxy
           pid == IF proxies # <<>> /\ app.pid \notin ProxyIds(proxies) THEN proxies[1].id ELSE app.pid
<1>1. \A i \in DOMAIN proxies : proxies[i].id \in Nat /\ proxies[i].url \in STRING
  <2>1. \A i \in DOMAIN proxies : proxies[i] \in Proxies
    OBVIOUS
  <2>2. QED BY <2>1 DEF Proxies
<1>2. url \in STRING
  BY <1>1 DEF Applications
<1>3. pid \in Nat
  <2>1. proxies # <<>> => 1 \in DOMAIN proxies
    OBVIOUS
  <2>2. QED BY <1>1, <2>1 DEF Applications
<1>4. proxies = <<>> => url = app.proxy /\ pid = app.pid
  OBVIOUS
<1>5. app.proxy # NoUrl => url = app.proxy
  OBVIOUS
<1>6. \A f : NormalApp(app, proxies, f) =
               [app EXCEPT !.id = IF app.id = 0 THEN f ELSE app.id, !.proxy = url, !.pid = pid]
  BY DEF NormalApp
<1> HIDE DEF url, pid
<1>7. app = [id |-> app.id, pid |-> app.pid, proxy |-> app.proxy, named |-> app.named]
  BY DEF Applications
<1>8. \A f : NormalApp(app, proxies, f) =
               [id |-> IF app.id = 0 THEN f ELSE app.id, pid |-> pid, proxy |-> url, named |-> app.named]
  <2> TAKE f
  <2> DEFINE id == IF app.id = 0 THEN f ELSE app.id
  <2>1. NormalApp(app, proxies, f) = [app EXCEPT !.id = id, !.proxy = url, !.pid = pid]
    BY <1>6
  <2> HIDE DEF id
  <2>2. [app EXCEPT !.id = id, !.proxy = url, !.pid = pid]
          = [id |-> id, pid |-> pid, proxy |-> url, named |-> app.named]
    <3> DEFINE r1 == [app EXCEPT !.id = id]
               r2 == [r1 EXCEPT !.proxy = url]
               r3 == [r2 EXCEPT !.pid = pid]
    <3>1. r1 = [id |-> id, pid |-> app.pid, proxy |-> app.proxy, named |-> app.named]
      BY <1>7
    <3> HIDE DEF r1
    <3>2. r2 = [id |-> id, pid |-> app.pid, proxy |-> url, named |-> app.named]
      BY <3>1
    <3> HIDE DEF r2
    <3>3. r3 = [id |-> id, pid |-> pid, proxy |-> url, named |-> app.named]
      BY <3>2
    <3>4. QED BY <3>3 DEF r1, r2
  <2>3. QED BY <2>1, <2>2 DEF id
<1>9. NormalApp(app, proxies, fresh) \in Applications
  BY <1>2, <1>3, <1>8 DEF Applications
<1>10. app.id # 0 => \A f : NormalApp(app, proxies, f) = NormalApp(app, proxies, fresh)
  BY <1>6
<1>11. proxies = <<>> /\ app.id # 0 => NormalApp(app, proxies, fresh) = app
  BY <1>4, <1>7, <1>8
<1>12. QED BY <1>5, <1>8, <1>9, <1>10, <1>11

(* normalizeProxyConfig: the whole.                                        *)
NormalApps(c, from) == [i \in DOMAIN c.apps |-> NormalApp(c.apps[i], NormalProxies(c), from + i)]
NamedOf(apps) == {app \in Range(apps) : app.named}
Device(c) == IF c.device = "none" THEN "default" ELSE c.device

LEMMA NormalizeRecord ==
  ASSUME NEW c \in Fields, NEW from \in Nat
  PROVE  Normalize(c, from) =
           [url |-> c.url, device |-> Device(c), proxies |-> NormalProxies(c),
            apps |-> Keep(NormalApps(c, from), NamedOf(NormalApps(c, from)))]
<1> DEFINE d == Device(c)
           p == NormalProxies(c)
           a == Keep(NormalApps(c, from), NamedOf(NormalApps(c, from)))
           r1 == [c EXCEPT !.device = d]
           r2 == [r1 EXCEPT !.proxies = p]
           r3 == [r2 EXCEPT !.apps = a]
<1>1. Normalize(c, from) = r3
  BY DEF Normalize, NormalApps, NamedOf, Device
<1> HIDE DEF d, p, a
<1>2. r1 = [url |-> c.url, device |-> d, proxies |-> c.proxies, apps |-> c.apps]
  BY DEF Fields
<1> HIDE DEF r1
<1>3. r2 = [url |-> c.url, device |-> d, proxies |-> p, apps |-> c.apps]
  BY <1>2
<1> HIDE DEF r2
<1>4. r3 = [url |-> c.url, device |-> d, proxies |-> p, apps |-> a]
  BY <1>3
<1>5. QED BY <1>1, <1>4 DEF d, p, a

LEMMA NormalAppsType ==
  ASSUME NEW c \in Fields, NEW from \in Nat
  PROVE  /\ NormalApps(c, from) \in Seq(Applications)
         /\ Len(NormalApps(c, from)) = Len(c.apps)
         /\ \A i \in 1..Len(c.apps) :
              /\ c.apps[i] \in Applications
              /\ NormalApps(c, from)[i] = NormalApp(c.apps[i], NormalProxies(c), from + i)
<1>1. c.apps \in Seq(Applications) /\ Len(c.apps) \in Nat /\ DOMAIN c.apps = 1..Len(c.apps)
  BY DEF Fields
<1>2. \A i \in 1..Len(c.apps) : c.apps[i] \in Applications /\ from + i \in Nat
  BY <1>1
<1>3. \A i \in 1..Len(c.apps) : NormalApp(c.apps[i], NormalProxies(c), from + i) \in Applications
  BY <1>2, NormalProxiesType, NormalAppProperties
<1> DEFINE app(i) == NormalApp(c.apps[i], NormalProxies(c), from + i)
<1>4. NormalApps(c, from) = [i \in 1..Len(c.apps) |-> app(i)]
  BY <1>1 DEF NormalApps
<1> HIDE DEF app
<1>5. \A i \in 1..Len(c.apps) : app(i) \in Applications
  BY <1>3 DEF app
<1>6. [i \in 1..Len(c.apps) |-> app(i)] \in Seq(Applications) /\ Len([i \in 1..Len(c.apps) |-> app(i)]) = Len(c.apps)
  BY <1>1, <1>5
<1>7. \A i \in 1..Len(c.apps) : NormalApps(c, from)[i] = app(i)
  BY <1>4
<1>8. QED BY <1>2, <1>4, <1>6, <1>7 DEF app

(* What is left of the applications, and where each one was.               *)
LEMMA NormalizeProperties ==
  ASSUME NEW c \in Fields, NEW from \in Nat
  PROVE  /\ Normalize(c, from) \in Fields
         /\ Normalize(c, from).url = c.url /\ Normalize(c, from).proxies = NormalProxies(c)
         /\ Len(Normalize(c, from).apps) <= Len(c.apps)
         /\ \E at \in [1..Len(Normalize(c, from).apps) -> 1..Len(c.apps)] :
              /\ \A i, j \in 1..Len(Normalize(c, from).apps) : i < j => at[i] < at[j]
              /\ \A i \in 1..Len(Normalize(c, from).apps) :
                   /\ Normalize(c, from).apps[i] = NormalApp(c.apps[at[i]], NormalProxies(c), from + at[i])
                   /\ Normalize(c, from).apps[i].named
<1> DEFINE a == NormalApps(c, from)
           T == NamedOf(a)
           k == Keep(a, T)
<1>1. Normalize(c, from) = [url |-> c.url, device |-> Device(c), proxies |-> NormalProxies(c), apps |-> k]
  BY NormalizeRecord
<1>2. a \in Seq(Applications) /\ Len(a) = Len(c.apps)
  BY NormalAppsType
<1>3. \A i \in 1..Len(c.apps) : a[i] = NormalApp(c.apps[i], NormalProxies(c), from + i)
  BY NormalAppsType
<1>4. \A app \in T : app.named
  BY DEF NamedOf
<1> HIDE DEF a, T
<1>5. /\ k \in Seq(Applications) /\ Len(k) <= Len(c.apps)
      /\ \E at \in [1..Len(k) -> 1..Len(c.apps)] :
           /\ \A i, j \in 1..Len(k) : i < j => at[i] < at[j]
           /\ \A i \in 1..Len(k) : k[i] = a[at[i]] /\ a[at[i]] \in T
  BY <1>2, KeepProperties
<1> HIDE DEF k
<1>6. PICK at \in [1..Len(k) -> 1..Len(c.apps)] :
        /\ \A i, j \in 1..Len(k) : i < j => at[i] < at[j]
        /\ \A i \in 1..Len(k) : k[i] = a[at[i]] /\ a[at[i]] \in T
  BY <1>5
<1>7. \A i \in 1..Len(k) : k[i] = NormalApp(c.apps[at[i]], NormalProxies(c), from + at[i]) /\ k[i].named
  BY <1>3, <1>4, <1>6
<1>8. Normalize(c, from) \in Fields
  <2>1. c.url \in STRING /\ c.device \in Devices
    BY DEF Fields
  <2>2. Device(c) \in Devices
    BY <2>1 DEF Device, Devices
  <2>3. QED BY <1>1, <1>5, <2>1, <2>2, NormalProxiesType DEF Fields
<1>9. Normalize(c, from).apps = k /\ Normalize(c, from).url = c.url /\ Normalize(c, from).proxies = NormalProxies(c)
  BY <1>1
<1>10. QED BY <1>5, <1>6, <1>7, <1>8, <1>9

(* An application that has a name stays at its place.                      *)
LEMMA NormalizeNamed ==
  ASSUME NEW c \in Fields, NEW from \in Nat, \A i \in 1..Len(c.apps) : c.apps[i].named
  PROVE  Normalize(c, from).apps = NormalApps(c, from)
<1> DEFINE a == NormalApps(c, from)
<1>1. a \in Seq(Applications) /\ Len(a) = Len(c.apps)
  BY NormalAppsType
<1>2. \A i \in 1..Len(a) : a[i].named
  <2> SUFFICES ASSUME NEW i \in 1..Len(a) PROVE a[i].named
    OBVIOUS
  <2>1. i \in 1..Len(c.apps) /\ from + i \in Nat
    BY <1>1 DEF Fields
  <2>2. c.apps[i] \in Applications /\ a[i] = NormalApp(c.apps[i], NormalProxies(c), from + i)
    BY <2>1, NormalAppsType
  <2>3. a[i].named = c.apps[i].named
    <3>1. NormalProxies(c) \in Seq(Proxies)
      BY NormalProxiesType
    <3> DEFINE app == c.apps[i]
               proxies == NormalProxies(c)
               fresh == from + i
    <3>2. app \in Applications /\ proxies \in Seq(Proxies) /\ fresh \in Nat /\ a[i] = NormalApp(app, proxies, fresh)
      BY <2>1, <2>2, <3>1
    <3> HIDE DEF a, app, proxies, fresh
    <3>3. a[i].named = app.named
      BY <3>2, NormalAppProperties
    <3>4. QED BY <3>3 DEF app
  <2>4. QED BY <2>1, <2>3
<1> HIDE DEF a
<1>3. \A i \in 1..Len(a) : a[i] \in NamedOf(a)
  BY <1>1, <1>2 DEF NamedOf, Range
<1>4. Keep(a, NamedOf(a)) = a
  BY <1>1, <1>3, KeepAll
<1>5. QED BY <1>4, NormalizeRecord DEF a

(* Without an application that lacks an id the uuids do not matter.        *)
LEMMA NormalizeDrawsNothing ==
  ASSUME NEW c \in Fields, NEW from \in Nat, NEW from2 \in Nat,
         \A i \in 1..Len(c.apps) : c.apps[i].id # 0
  PROVE  Normalize(c, from) = Normalize(c, from2)
<1>1. \A i \in 1..Len(c.apps) : NormalApps(c, from)[i] = NormalApps(c, from2)[i]
  <2> SUFFICES ASSUME NEW i \in 1..Len(c.apps)
               PROVE  NormalApps(c, from)[i] = NormalApps(c, from2)[i]
    OBVIOUS
  <2>1. c.apps[i] \in Applications /\ from + i \in Nat /\ from2 + i \in Nat
    BY NormalAppsType DEF Fields
  <2>2. NormalApp(c.apps[i], NormalProxies(c), from + i) = NormalApp(c.apps[i], NormalProxies(c), from2 + i)
    <3>1. NormalProxies(c) \in Seq(Proxies)
      BY NormalProxiesType
    <3> DEFINE app == c.apps[i]
               proxies == NormalProxies(c)
    <3>2. app \in Applications /\ proxies \in Seq(Proxies) /\ app.id # 0
      BY <2>1, <3>1
    <3> HIDE DEF app, proxies
    <3>3. NormalApp(app, proxies, from2 + i) = NormalApp(app, proxies, from + i)
      BY <2>1, <3>2, NormalAppProperties
    <3>4. QED BY <3>3 DEF app, proxies
  <2>3. QED BY <2>2, NormalAppsType
<1>2. NormalApps(c, from) = NormalApps(c, from2)
  BY <1>1, NormalAppsType, SeqEqual
<1>3. QED BY <1>2, NormalizeRecord

-----------------------------------------------------------------------------
(* The inductive invariant of ConfigFields: uuids are unique, every         *)
(* application of the page has one, and so has every one that was saved;    *)
(* and the page shows the proxies that are stored.                          *)
WellNamed(apps, last) ==
  /\ apps \in Seq(Applications) /\ Len(apps) <= MaxApps
  /\ DistinctIds(apps)
  /\ \A i \in 1..Len(apps) : apps[i].id <= last

HaveIds(apps) == \A i \in 1..Len(apps) : apps[i].id # 0
AllNamed(apps) == \A i \in 1..Len(apps) : apps[i].named

(* What has a proxy in old has it in new.                                  *)
Keeps(old, new) ==
  \A i \in 1..Len(old), j \in 1..Len(new) :
    old[i].id = new[j].id /\ old[i].id # 0 /\ old[i].proxy # NoUrl => new[j].proxy = old[i].proxy

(* So it has, or the proxy is one that the user has entered for it.        *)
KeepsBut(old, new, changes) ==
  \A i \in 1..Len(old), j \in 1..Len(new) :
    old[i].id = new[j].id /\ old[i].id # 0 /\ old[i].proxy # NoUrl =>
      new[j].proxy = old[i].proxy \/ <<old[i].id, new[j].proxy>> \in changes

(* All of new is in old, and has the proxy that it had there.              *)
ComesFrom(new, old) ==
  \A j \in 1..Len(new) : \E i \in 1..Len(old) :
    new[j].id = old[i].id /\ (old[i].proxy # NoUrl => new[j].proxy = old[i].proxy)

(* The invariant: ids are distinct, none is above the last uuid drawn, the  *)
(* page has each proxy chosen in the file but those entered since, and      *)
(* shows what is stored.                                                    *)
FieldsInv ==
  /\ stored \in Fields /\ uuid \in Nat
  /\ WellNamed(stored.apps, uuid) /\ WellNamed(shown, uuid)
  /\ HaveIds(shown) /\ (saved => HaveIds(stored.apps))
  /\ KeepsBut(stored.apps, shown, entered)
  /\ ShownIsStored

LEMMA IdsAndProxies ==
  ASSUME NEW apps \in Seq(Applications), NEW i \in 1..Len(apps)
  PROVE  apps[i] \in Applications /\ apps[i].id \in Nat /\ apps[i].proxy \in STRING
<1>1. apps[i] \in Applications
  OBVIOUS
<1>2. QED BY <1>1 DEF Applications

LEMMA DistinctAt ==
  ASSUME NEW apps \in Seq(Applications), DistinctIds(apps),
         NEW i \in 1..Len(apps), NEW j \in 1..Len(apps), apps[i].id = apps[j].id, apps[i].id # 0
  PROVE  i = j
<1>1. DOMAIN apps = 1..Len(apps)
  OBVIOUS
<1>2. QED BY <1>1 DEF DistinctIds

LEMMA KeepsItself ==
  ASSUME NEW apps \in Seq(Applications), DistinctIds(apps)
  PROVE  Keeps(apps, apps)
BY DistinctAt DEF Keeps

LEMMA KeepsOn ==
  ASSUME NEW old, NEW mid, NEW new, Keeps(old, mid), ComesFrom(new, mid)
  PROVE  Keeps(old, new)
<1> SUFFICES ASSUME NEW i \in 1..Len(old), NEW j \in 1..Len(new),
                    old[i].id = new[j].id, old[i].id # 0, old[i].proxy # NoUrl
             PROVE  new[j].proxy = old[i].proxy
  BY DEF Keeps
<1>1. PICK m \in 1..Len(mid) : new[j].id = mid[m].id /\ (mid[m].proxy # NoUrl => new[j].proxy = mid[m].proxy)
  BY DEF ComesFrom
<1>2. mid[m].proxy = old[i].proxy
  BY <1>1 DEF Keeps
<1>3. QED BY <1>1, <1>2

(* Every element of new is one of mid.                                     *)
LEMMA KeepsButOn ==
  ASSUME NEW old, NEW mid, NEW new, NEW changes, KeepsBut(old, mid, changes),
         \A j \in 1..Len(new) : \E m \in 1..Len(mid) : new[j] = mid[m]
  PROVE  KeepsBut(old, new, changes)
<1> SUFFICES ASSUME NEW i \in 1..Len(old), NEW j \in 1..Len(new),
                    old[i].id = new[j].id, old[i].id # 0, old[i].proxy # NoUrl
             PROVE  new[j].proxy = old[i].proxy \/ <<old[i].id, new[j].proxy>> \in changes
  BY DEF KeepsBut
<1>1. PICK m \in 1..Len(mid) : new[j] = mid[m]
  OBVIOUS
<1>2. mid[m].proxy = old[i].proxy \/ <<old[i].id, mid[m].proxy>> \in changes
  BY <1>1 DEF KeepsBut
<1>3. QED BY <1>1, <1>2

LEMMA KeepsAll ==
  ASSUME NEW old, NEW new, NEW changes, Keeps(old, new)
  PROVE  KeepsBut(old, new, changes)
BY DEF Keeps, KeepsBut

(* normalizeProxyConfig gives every application an id of its own.          *)
LEMMA NormalizeNames ==
  ASSUME NEW c \in Fields, NEW from \in Nat, WellNamed(c.apps, from)
  PROVE  /\ WellNamed(Normalize(c, from).apps, from + Len(c.apps))
         /\ HaveIds(Normalize(c, from).apps) /\ AllNamed(Normalize(c, from).apps)
         /\ Len(Normalize(c, from).apps) <= Len(c.apps)
         /\ Keeps(c.apps, Normalize(c, from).apps)
<1> DEFINE n == Normalize(c, from).apps
           p == NormalProxies(c)
           old == c.apps
<1>1. /\ n \in Seq(Applications) /\ old \in Seq(Applications)
      /\ Len(n) \in Nat /\ Len(old) \in Nat /\ Len(n) <= Len(old)
      /\ p \in Seq(Proxies) /\ MaxApps \in Nat
  BY NormalizeProperties, NormalProxiesType, FieldsAssumption DEF Fields
<1>2. PICK at \in [1..Len(n) -> 1..Len(old)] :
        /\ \A i, j \in 1..Len(n) : i < j => at[i] < at[j]
        /\ \A i \in 1..Len(n) : n[i] = NormalApp(old[at[i]], p, from + at[i]) /\ n[i].named
  BY NormalizeProperties
<1> HIDE DEF n, p
<1>3. /\ Len(old) <= MaxApps /\ DistinctIds(old)
      /\ \A i \in 1..Len(old) : old[i].id <= from
  BY DEF WellNamed
<1> HIDE DEF old
<1>4. ASSUME NEW i \in 1..Len(n)
      PROVE  /\ at[i] \in 1..Len(old) /\ at[i] \in Nat
             /\ n[i].id = IF old[at[i]].id = 0 THEN from + at[i] ELSE old[at[i]].id
             /\ old[at[i]].proxy # NoUrl => n[i].proxy = old[at[i]].proxy
             /\ old[at[i]].id \in Nat /\ old[at[i]].id <= from
  <2>1. at[i] \in 1..Len(old) /\ at[i] \in Nat
    BY <1>2
  <2> DEFINE app == old[at[i]]
             fresh == from + at[i]
  <2>2. app \in Applications /\ fresh \in Nat /\ app.id \in Nat /\ app.id <= from
    BY <2>1, <1>1, <1>3, IdsAndProxies
  <2>3. n[i] = NormalApp(app, p, fresh)
    BY <1>2
  <2> HIDE DEF app, fresh
  <2>4. /\ n[i].id = IF app.id = 0 THEN fresh ELSE app.id
        /\ app.proxy # NoUrl => n[i].proxy = app.proxy
    <3>1. /\ NormalApp(app, p, fresh).id = IF app.id = 0 THEN fresh ELSE app.id
          /\ app.proxy # NoUrl => NormalApp(app, p, fresh).proxy = app.proxy
      BY <2>2, <1>1, NormalAppProperties
    <3>2. QED BY <3>1, <2>3
  <2>5. QED BY <2>1, <2>2, <2>4 DEF app, fresh
<1>5. \A i \in 1..Len(n) : n[i].id # 0 /\ n[i].id <= from + Len(old)
  <2> SUFFICES ASSUME NEW i \in 1..Len(n) PROVE n[i].id # 0 /\ n[i].id <= from + Len(old)
    OBVIOUS
  <2>1. /\ at[i] \in 1..Len(old) /\ old[at[i]].id \in Nat /\ old[at[i]].id <= from
        /\ n[i].id = IF old[at[i]].id = 0 THEN from + at[i] ELSE old[at[i]].id
    BY <1>4
  <2>2. from \in Nat /\ Len(old) \in Nat
    BY <1>1
  <2>3. QED BY <2>1, <2>2
<1>6. ASSUME NEW i \in 1..Len(n), NEW j \in 1..Len(n), n[i].id = n[j].id PROVE i = j
  <2>1. at[i] = at[j]
    <3>1. old[at[i]].id # 0 <=> old[at[j]].id # 0
      BY <1>4, <1>6
    <3>2. CASE old[at[i]].id = 0
      BY <3>1, <3>2, <1>4, <1>6
    <3>3. CASE old[at[i]].id # 0
      <4>1. old[at[i]].id = old[at[j]].id
        BY <3>1, <3>3, <1>4, <1>6
      <4>2. at[i] \in 1..Len(old) /\ at[j] \in 1..Len(old)
        BY <1>4
      <4>3. QED BY <4>1, <4>2, <3>3, <1>1, <1>3, DistinctAt
    <3>4. QED BY <3>2, <3>3
  <2>2. i \in Nat /\ j \in Nat /\ at[i] \in Nat /\ at[j] \in Nat
    BY <1>4
  <2>3. ~(i < j) /\ ~(j < i)
    BY <2>1, <2>2, <1>2
  <2>4. QED BY <2>2, <2>3
<1>7. DistinctIds(n)
  BY <1>1, <1>6 DEF DistinctIds
<1>8. WellNamed(n, from + Len(old))
  BY <1>1, <1>3, <1>5, <1>7 DEF WellNamed
<1>9. Keeps(old, n)
  <2> SUFFICES ASSUME NEW i \in 1..Len(old), NEW j \in 1..Len(n),
                      old[i].id = n[j].id, old[i].id # 0, old[i].proxy # NoUrl
               PROVE  n[j].proxy = old[i].proxy
    BY DEF Keeps
  <2>1. at[j] \in 1..Len(old) /\ old[at[j]].id = old[i].id
    BY <1>3, <1>4
  <2>2. at[j] = i
    BY <2>1, <1>1, <1>3, DistinctAt
  <2>3. QED BY <2>2, <1>4
<1>10. HaveIds(n) /\ AllNamed(n)
  BY <1>2, <1>5 DEF HaveIds, AllNamed
<1>11. QED BY <1>1, <1>8, <1>9, <1>10 DEF n, old

(* One that has ids already keeps them.                                    *)
LEMMA NormalizeAgain ==
  ASSUME NEW c \in Fields, NEW from \in Nat, NEW last \in Nat, WellNamed(c.apps, last), HaveIds(c.apps)
  PROVE  /\ WellNamed(Normalize(c, from).apps, last)
         /\ HaveIds(Normalize(c, from).apps) /\ AllNamed(Normalize(c, from).apps)
         /\ ComesFrom(Normalize(c, from).apps, c.apps)
<1>1. last + Len(c.apps) \in Nat /\ WellNamed(c.apps, last) /\ last \in Nat /\ Len(c.apps) \in Nat
  BY DEF Fields
<1>2. Normalize(c, from) = Normalize(c, last)
  BY NormalizeDrawsNothing DEF HaveIds
<1> DEFINE n == Normalize(c, last).apps
           p == NormalProxies(c)
           old == c.apps
<1>3. WellNamed(n, last + Len(old)) /\ HaveIds(n) /\ AllNamed(n)
  BY NormalizeNames
<1>4. n \in Seq(Applications) /\ old \in Seq(Applications) /\ p \in Seq(Proxies)
  BY NormalizeProperties, NormalProxiesType DEF Fields
<1>5. PICK at \in [1..Len(n) -> 1..Len(old)] :
        \A i \in 1..Len(n) : n[i] = NormalApp(old[at[i]], p, last + at[i])
  BY NormalizeProperties
<1> HIDE DEF n, p
<1>6. \A i \in 1..Len(old) : old[i].id # 0 /\ old[i].id <= last
  BY DEF HaveIds, WellNamed
<1> HIDE DEF old
<1>7. ASSUME NEW i \in 1..Len(n)
      PROVE  /\ at[i] \in 1..Len(old) /\ n[i].id = old[at[i]].id
             /\ old[at[i]].proxy # NoUrl => n[i].proxy = old[at[i]].proxy
  <2>1. at[i] \in 1..Len(old) /\ at[i] \in Nat
    BY <1>5
  <2> DEFINE app == old[at[i]]
             fresh == last + at[i]
  <2>2. app \in Applications /\ fresh \in Nat /\ app.id # 0
    BY <2>1, <1>4, <1>6
  <2>3. n[i] = NormalApp(app, p, fresh)
    BY <1>5
  <2> HIDE DEF app, fresh
  <2>4. /\ NormalApp(app, p, fresh).id = app.id
        /\ app.proxy # NoUrl => NormalApp(app, p, fresh).proxy = app.proxy
    BY <2>2, <1>4, NormalAppProperties
  <2>5. QED BY <2>1, <2>3, <2>4 DEF app
<1>8. ComesFrom(n, old)
  BY <1>7 DEF ComesFrom
<1>9. \A i \in 1..Len(n) : n[i].id <= last
  <2> SUFFICES ASSUME NEW i \in 1..Len(n) PROVE n[i].id <= last
    OBVIOUS
  <2>1. n[i].id = old[at[i]].id /\ at[i] \in 1..Len(old)
    BY <1>7
  <2>2. QED BY <2>1, <1>6
<1>10. WellNamed(n, last)
  BY <1>3, <1>9 DEF WellNamed
<1>11. QED BY <1>2, <1>3, <1>8, <1>10 DEF n, old

(* What is saved is found again at its place, with its proxy.              *)
LEMMA LoadedAgain ==
  ASSUME NEW c \in Fields, NEW from \in Nat, HaveIds(c.apps), AllNamed(c.apps)
  PROVE  LET apps == Normalize(c, from).apps
         IN  /\ apps \in Seq(Applications) /\ Len(apps) = Len(c.apps)
             /\ \A i \in 1..Len(apps) :
                  /\ c.apps[i].id = apps[i].id /\ c.apps[i].id # 0
                  /\ c.apps[i].proxy # NoUrl => apps[i].proxy = c.apps[i].proxy
<1> DEFINE n == Normalize(c, from).apps
           p == NormalProxies(c)
           old == c.apps
<1>1. n = NormalApps(c, from)
  BY NormalizeNamed DEF AllNamed
<1>2. /\ n \in Seq(Applications) /\ Len(n) = Len(old)
      /\ \A i \in 1..Len(old) : old[i] \in Applications /\ n[i] = NormalApp(old[i], p, from + i)
  BY <1>1, NormalAppsType
<1>3. p \in Seq(Proxies) /\ Len(old) \in Nat
  BY NormalProxiesType DEF Fields
<1>4. \A i \in 1..Len(old) : old[i].id # 0
  BY DEF HaveIds
<1> HIDE DEF n, p, old
<1>5. ASSUME NEW i \in 1..Len(n)
      PROVE  /\ old[i].id = n[i].id /\ old[i].id # 0
             /\ old[i].proxy # NoUrl => n[i].proxy = old[i].proxy
  <2> DEFINE app == old[i]
             fresh == from + i
  <2>1. app \in Applications /\ fresh \in Nat /\ app.id # 0 /\ n[i] = NormalApp(app, p, fresh)
    BY <1>2, <1>3, <1>4
  <2> HIDE DEF app, fresh
  <2>2. /\ NormalApp(app, p, fresh).id = app.id
        /\ app.proxy # NoUrl => NormalApp(app, p, fresh).proxy = app.proxy
    BY <2>1, <1>3, NormalAppProperties
  <2>3. QED BY <2>1, <2>2 DEF app
<1>6. QED BY <1>2, <1>5 DEF n, old

(* A configuration without proxies leaves those of the applications alone. *)
LEMMA NoProxiesNoChange ==
  ASSUME NEW c \in Fields, c.url = NoUrl, c.proxies = <<>>, NEW from \in Nat, HaveIds(c.apps)
  PROVE  /\ \A j \in 1..Len(Normalize(c, from).apps) :
              \E i \in 1..Len(c.apps) : Normalize(c, from).apps[j] = c.apps[i]
         /\ AllNamed(c.apps) => Normalize(c, from).apps = c.apps
<1> DEFINE n == Normalize(c, from).apps
           old == c.apps
<1>1. NormalProxies(c) = <<>> /\ <<>> \in Seq(Proxies)
  BY NormalProxiesType
<1>2. old \in Seq(Applications) /\ n \in Seq(Applications) /\ Len(old) \in Nat
  BY NormalizeProperties DEF Fields
<1>3. PICK at \in [1..Len(n) -> 1..Len(old)] :
        \A i \in 1..Len(n) : n[i] = NormalApp(old[at[i]], <<>>, from + at[i])
  BY <1>1, NormalizeProperties
<1>4. \A i \in 1..Len(old) : old[i].id # 0
  BY DEF HaveIds
<1>5. AllNamed(old) => /\ Len(n) = Len(old)
                       /\ \A i \in 1..Len(old) : n[i] = NormalApp(old[i], <<>>, from + i)
  BY <1>1, NormalizeNamed, NormalAppsType DEF AllNamed
<1> HIDE DEF n, old
<1>6. ASSUME NEW i \in 1..Len(old) PROVE NormalApp(old[i], <<>>, from + i) = old[i]
  <2>1. old[i] \in Applications /\ old[i].id # 0 /\ from + i \in Nat
    BY <1>2, <1>4
  <2>2. QED BY <2>1, <1>1, NormalAppProperties
<1>7. \A j \in 1..Len(n) : \E i \in 1..Len(old) : n[j] = old[i]
  <2> SUFFICES ASSUME NEW j \in 1..Len(n) PROVE \E i \in 1..Len(old) : n[j] = old[i]
    OBVIOUS
  <2>1. at[j] \in 1..Len(old)
    BY <1>3
  <2>2. QED BY <2>1, <1>3, <1>6
<1>8. AllNamed(old) => n = old
  <2> SUFFICES ASSUME AllNamed(old) PROVE n = old
    OBVIOUS
  <2>1. Len(n) = Len(old) /\ \A i \in 1..Len(n) : n[i] = old[i]
    BY <1>5, <1>6
  <2>2. QED BY <2>1, <1>2, SeqEqual
<1>9. QED BY <1>7, <1>8 DEF n, old

-----------------------------------------------------------------------------
(* The steps.                                                              *)
LEMMA WellNamedLater ==
  ASSUME NEW apps, NEW m \in Nat, NEW n \in Nat, m <= n, WellNamed(apps, m)
  PROVE  WellNamed(apps, n)
<1>1. apps \in Seq(Applications) /\ \A i \in 1..Len(apps) : apps[i].id <= m
  BY DEF WellNamed
<1>2. \A i \in 1..Len(apps) : apps[i].id <= n
  BY <1>1, IdsAndProxies
<1>3. QED BY <1>2 DEF WellNamed

LEMMA DrawnNumbers ==
  ASSUME uuid \in Nat
  PROVE  /\ MaxApps \in Nat
         /\ Drawn(0) = uuid /\ Drawn(1) = uuid + MaxApps /\ Drawn(2) = uuid + 2 * MaxApps
         /\ Drawn(0) \in Nat /\ Drawn(1) \in Nat /\ Drawn(2) \in Nat
         /\ Draws => uuid' = uuid + 3 * MaxApps /\ uuid' \in Nat
BY FieldsAssumption DEF Drawn, Draws

(* The page is answered what has been saved.                               *)
LEMMA SavedStep ==
  ASSUME stored' \in Fields, uuid' \in Nat, Answer(stored'.apps),
         WellNamed(stored'.apps, uuid'), HaveIds(stored'.apps), AllNamed(stored'.apps)
  PROVE  FieldsInv'
<1> USE DEF Answer
<1>1. Drawn(0)' \in Nat
  <2>1. Drawn(0)' = uuid' + 0 * MaxApps /\ MaxApps \in Nat
    BY FieldsAssumption DEF Drawn
  <2>2. QED BY <2>1
<1>2. LET apps == Loaded'.apps
      IN  /\ apps \in Seq(Applications) /\ Len(apps) = Len(stored'.apps)
          /\ \A i \in 1..Len(apps) :
               /\ stored'.apps[i].id = apps[i].id /\ stored'.apps[i].id # 0
               /\ stored'.apps[i].proxy # NoUrl => apps[i].proxy = stored'.apps[i].proxy
  BY <1>1, LoadedAgain DEF Loaded
<1>3. ShownIsStored'
  BY <1>2 DEF ShownIsStored
<1>4. KeepsBut(stored'.apps, shown', entered')
  BY KeepsItself, KeepsAll DEF WellNamed
<1>5. QED BY <1>3, <1>4 DEF FieldsInv

LEMMA GetStep ==
  ASSUME FieldsInv, Get
  PROVE  FieldsInv' /\ Keeps(stored.apps, stored'.apps)
<1>1. /\ uuid \in Nat /\ stored \in Fields /\ WellNamed(stored.apps, uuid)
      /\ saved => HaveIds(stored.apps)
      /\ Draws /\ shown' = Loaded.apps /\ UNCHANGED <<stored, saved>>
  BY DEF FieldsInv, Get, Answer
<1>2. /\ MaxApps \in Nat /\ uuid' = uuid + 3 * MaxApps /\ uuid' \in Nat /\ Drawn(0)' = uuid'
      /\ Loaded = Normalize(stored, uuid) /\ Loaded' = Normalize(stored, uuid')
  <2>1. Drawn(0)' = uuid' + 0 * MaxApps
    BY DEF Drawn
  <2>2. QED BY <1>1, <2>1, DrawnNumbers DEF Loaded
<1>3. stored.apps \in Seq(Applications) /\ Len(stored.apps) \in Nat /\ Len(stored.apps) <= MaxApps
  BY <1>1 DEF WellNamed
<1>4. /\ WellNamed(Loaded.apps, uuid + Len(stored.apps)) /\ HaveIds(Loaded.apps)
      /\ Keeps(stored.apps, Loaded.apps)
  BY <1>1, <1>2, NormalizeNames
<1>5. WellNamed(shown', uuid') /\ WellNamed(stored.apps, uuid')
  <2>1. uuid <= uuid' /\ uuid + Len(stored.apps) <= uuid' /\ uuid + Len(stored.apps) \in Nat
    BY <1>1, <1>2, <1>3
  <2>2. QED BY <1>1, <1>2, <1>4, <2>1, WellNamedLater
<1>6. ShownIsStored'
  <2> SUFFICES ASSUME saved PROVE ShownIsStored'
    BY <1>1 DEF ShownIsStored
  <2>1. Loaded' = Loaded
    BY <1>1, <1>2, NormalizeDrawsNothing DEF HaveIds
  <2>2. shown' = Loaded'.apps /\ shown' \in Seq(Applications)
    BY <1>1, <1>5, <2>1 DEF WellNamed
  <2>3. \A i \in 1..Len(shown') : shown'[i].id # 0
    BY <1>1, <1>4 DEF HaveIds
  <2>4. QED BY <2>2, <2>3 DEF ShownIsStored
<1>7. Keeps(stored.apps, stored'.apps)
  BY <1>1, <1>3, KeepsItself DEF WellNamed
<1>8. KeepsBut(stored'.apps, shown', entered')
  BY <1>1, <1>4, KeepsAll
<1>9. QED BY <1>1, <1>2, <1>4, <1>5, <1>6, <1>7, <1>8 DEF FieldsInv

(* Applications that are stored from a load on.                            *)
LEMMA ChangedStep ==
  ASSUME FieldsInv, NEW c \in Fields, Draws, Save(c), Answer(Normalize(c, Drawn(1)).apps),
         WellNamed(c.apps, uuid + MaxApps), HaveIds(c.apps), Keeps(stored.apps, c.apps)
  PROVE  FieldsInv' /\ Keeps(stored.apps, stored'.apps)
<1>1. /\ uuid \in Nat /\ MaxApps \in Nat /\ uuid' = uuid + 3 * MaxApps /\ uuid' \in Nat
      /\ Drawn(1) \in Nat /\ Drawn(2) \in Nat
  BY DrawnNumbers DEF FieldsInv
<1>2. stored' = Normalize(c, Drawn(2)) /\ stored' \in Fields
  BY <1>1, NormalizeProperties DEF Save
<1>3. Answer(stored'.apps)
  BY <1>1, <1>2, NormalizeDrawsNothing DEF HaveIds, Answer
<1>4. WellNamed(c.apps, uuid')
  BY <1>1, WellNamedLater
<1>5. /\ WellNamed(stored'.apps, uuid') /\ HaveIds(stored'.apps) /\ AllNamed(stored'.apps)
      /\ ComesFrom(stored'.apps, c.apps)
  BY <1>1, <1>2, <1>4, NormalizeAgain
<1>6. FieldsInv'
  BY <1>1, <1>2, <1>3, <1>5, SavedStep
<1>7. Keeps(stored.apps, stored'.apps)
  BY <1>5, KeepsOn
<1>8. QED BY <1>6, <1>7

(* What a load gives a handler.                                            *)
LEMMA LoadedProperties ==
  ASSUME FieldsInv
  PROVE  /\ uuid \in Nat /\ MaxApps \in Nat /\ Loaded \in Fields
         /\ Loaded.apps \in Seq(Applications) /\ Len(Loaded.apps) <= Len(stored.apps)
         /\ Len(Loaded.apps) \in Nat /\ Len(stored.apps) \in Nat /\ Len(stored.apps) <= MaxApps
         /\ WellNamed(Loaded.apps, uuid + Len(stored.apps)) /\ HaveIds(Loaded.apps)
         /\ Keeps(stored.apps, Loaded.apps)
<1>1. uuid \in Nat /\ stored \in Fields /\ WellNamed(stored.apps, uuid)
  BY DEF FieldsInv
<1>2. MaxApps \in Nat /\ Loaded = Normalize(stored, uuid)
  BY <1>1, DrawnNumbers DEF Loaded
<1>3. Loaded \in Fields /\ Len(Loaded.apps) <= Len(stored.apps)
  BY <1>1, <1>2, NormalizeProperties
<1>4. Loaded.apps \in Seq(Applications) /\ stored.apps \in Seq(Applications)
  BY <1>1, <1>3 DEF Fields
<1>5. Len(stored.apps) <= MaxApps
  BY <1>1 DEF WellNamed
<1>6. /\ WellNamed(Loaded.apps, uuid + Len(stored.apps)) /\ HaveIds(Loaded.apps)
      /\ Keeps(stored.apps, Loaded.apps)
  BY <1>1, <1>2, NormalizeNames
<1>7. QED BY <1>1, <1>2, <1>3, <1>4, <1>5, <1>6

(* POST /proxy-config.                                                     *)
LEMMA PostStep ==
  ASSUME FieldsInv, NEW apps, WellNamed(apps, uuid), HaveIds(apps), Post(apps)
  PROVE  /\ FieldsInv'
         /\ \A j \in 1..Len(stored'.apps) : \E i \in 1..Len(apps) : stored'.apps[j] = apps[i]
<1> DEFINE body == [url |-> NoUrl, device |-> "none", proxies |-> <<>>, apps |-> apps]
           fields == Normalize(body, Drawn(1))
<1>1. Draws /\ Save(fields) /\ Answer(fields.apps)
  BY DEF Post
<1>2. /\ uuid \in Nat /\ MaxApps \in Nat /\ uuid' = uuid + 3 * MaxApps /\ uuid' \in Nat
      /\ Drawn(1) \in Nat /\ Drawn(2) \in Nat
  BY <1>1, DrawnNumbers DEF FieldsInv
<1>3. body \in Fields /\ body.apps = apps /\ body.url = NoUrl /\ body.proxies = <<>>
  BY FieldsAssumption DEF Fields, Devices, WellNamed
<1> HIDE DEF body
<1>4. NormalProxies(body) = <<>>
  BY <1>3, NormalProxiesType
<1>5. fields \in Fields /\ fields.url = NoUrl /\ fields.proxies = <<>>
  BY <1>2, <1>3, <1>4, NormalizeProperties
<1>6. WellNamed(fields.apps, uuid) /\ HaveIds(fields.apps) /\ AllNamed(fields.apps)
  BY <1>2, <1>3, NormalizeAgain
<1>7. \A j \in 1..Len(fields.apps) : \E i \in 1..Len(apps) : fields.apps[j] = apps[i]
  BY <1>2, <1>3, NoProxiesNoChange
<1> HIDE DEF fields
<1>8. stored' = Normalize(fields, Drawn(2)) /\ stored' \in Fields
  BY <1>1, <1>2, <1>5, NormalizeProperties DEF Save
<1>9. stored'.apps = fields.apps
  BY <1>2, <1>5, <1>6, <1>8, NoProxiesNoChange
<1>10. WellNamed(stored'.apps, uuid')
  <2>1. uuid <= uuid'
    BY <1>2
  <2>2. QED BY <2>1, <1>2, <1>6, <1>9, WellNamedLater
<1>11. FieldsInv'
  <2>1. Answer(stored'.apps)
    BY <1>1, <1>9 DEF Answer
  <2>2. QED BY <2>1, <1>2, <1>6, <1>8, <1>9, <1>10, SavedStep
<1>12. QED BY <1>7, <1>9, <1>11

(* The page's order and the page's proxies.                                *)
Rearranges(to, new, old) ==
  /\ Len(new) = Len(old) /\ to \in [1..Len(old) -> 1..Len(old)]
  /\ \A i, j \in 1..Len(old) : to[i] = to[j] => i = j

LEMMA RearrangedShown ==
  ASSUME FieldsInv, NEW apps, apps \in Seq(Applications),
         NEW to, Rearranges(to, apps, shown),
         \A i \in 1..Len(shown) : apps[i].id = shown[to[i]].id
  PROVE  WellNamed(apps, uuid) /\ HaveIds(apps)
<1>1. /\ shown \in Seq(Applications) /\ Len(shown) <= MaxApps /\ DistinctIds(shown)
      /\ \A i \in 1..Len(shown) : shown[i].id <= uuid /\ shown[i].id # 0
  BY DEF FieldsInv, WellNamed, HaveIds
<1>2. /\ Len(apps) = Len(shown) /\ \A i \in 1..Len(shown) : to[i] \in 1..Len(shown)
      /\ \A i, j \in 1..Len(shown) : to[i] = to[j] => i = j
  BY DEF Rearranges
<1>3. \A i \in 1..Len(apps) : apps[i].id <= uuid /\ apps[i].id # 0
  BY <1>1, <1>2
<1>4. ASSUME NEW i \in 1..Len(apps), NEW j \in 1..Len(apps), apps[i].id = apps[j].id PROVE i = j
  <2>1. shown[to[i]].id = shown[to[j]].id /\ shown[to[i]].id # 0 /\ to[i] \in 1..Len(shown) /\ to[j] \in 1..Len(shown)
    BY <1>1, <1>2, <1>4
  <2>2. to[i] = to[j]
    BY <2>1, <1>1, DistinctAt
  <2>3. QED BY <2>2, <1>2
<1>5. DistinctIds(apps)
  <2>1. DOMAIN apps = 1..Len(apps)
    OBVIOUS
  <2>2. QED BY <2>1, <1>4 DEF DistinctIds
<1>6. QED BY <1>1, <1>2, <1>3, <1>5 DEF WellNamed, HaveIds

(* A POST /proxy-config that answers 500.                                  *)
LEMMA NothingStored ==
  ASSUME NEW n \in Nat
  PROVE  /\ NoFields \in Fields /\ NoFields.apps = <<>> /\ Len(<<>>) = 0 /\ 1..0 = {}
         /\ WellNamed(NoFields.apps, n) /\ HaveIds(NoFields.apps)
<1>1. NoFields \in Fields /\ NoFields.apps = <<>> /\ Len(<<>>) = 0 /\ 1..0 = {} /\ DOMAIN <<>> = {}
  BY FieldsAssumption DEF NoFields, Fields, Devices
<1>2. MaxApps \in Nat /\ <<>> \in Seq(Applications)
  BY FieldsAssumption
<1>3. QED BY <1>1, <1>2 DEF WellNamed, HaveIds, DistinctIds

LEMMA FailedSave ==
  ASSUME FieldsInv, Draws, SaveFails
  PROVE  /\ uuid' \in Nat /\ uuid <= uuid' /\ uuid \in Nat
         /\ stored' \in Fields /\ WellNamed(stored'.apps, uuid') /\ (saved' => HaveIds(stored'.apps))
         /\ Keeps(stored.apps, stored'.apps)
         /\ \A apps, changes : KeepsBut(stored.apps, apps, changes) => KeepsBut(stored'.apps, apps, changes)
<1>1. uuid \in Nat /\ uuid' \in Nat /\ uuid <= uuid'
  <2>1. uuid \in Nat
    BY DEF FieldsInv
  <2>2. QED BY <2>1, DrawnNumbers
<1>2. CASE stored' = stored
  <2>1. WellNamed(stored.apps, uuid) /\ stored \in Fields /\ (saved => HaveIds(stored.apps)) /\ saved' = saved
    BY DEF FieldsInv, SaveFails
  <2>2. WellNamed(stored.apps, uuid')
    BY <1>1, <2>1, WellNamedLater
  <2>3. Keeps(stored.apps, stored.apps)
    BY <2>1, KeepsItself DEF WellNamed
  <2>4. QED BY <1>1, <1>2, <2>1, <2>2, <2>3
<1>3. CASE stored' = NoFields
  <2>1. WellNamed(stored'.apps, uuid') /\ HaveIds(stored'.apps) /\ stored' \in Fields /\ 1..Len(stored'.apps) = {}
    BY <1>1, <1>3, NothingStored
  <2>2. QED BY <1>1, <2>1 DEF Keeps, KeepsBut
<1>4. QED BY <1>2, <1>3 DEF SaveFails

LEMMA FailedPost ==
  ASSUME FieldsInv, NEW apps, PostFails(apps), WellNamed(apps, uuid), HaveIds(apps),
         KeepsBut(stored.apps, apps, entered')
  PROVE  FieldsInv' /\ Keeps(stored.apps, stored'.apps)
<1>1. Draws /\ SaveFails /\ shown' = apps /\ unsaved' = TRUE
  BY DEF PostFails
<1>2. /\ uuid' \in Nat /\ uuid <= uuid' /\ uuid \in Nat
      /\ stored' \in Fields /\ WellNamed(stored'.apps, uuid') /\ (saved' => HaveIds(stored'.apps))
      /\ Keeps(stored.apps, stored'.apps) /\ KeepsBut(stored'.apps, shown', entered')
  BY <1>1, FailedSave
<1>3. WellNamed(shown', uuid') /\ HaveIds(shown')
  BY <1>1, <1>2, WellNamedLater
<1>4. ShownIsStored'
  BY <1>1 DEF ShownIsStored
<1>5. QED BY <1>2, <1>3, <1>4 DEF FieldsInv

LEMMA ShownType ==
  ASSUME FieldsInv
  PROVE  shown \in Seq(Applications) /\ DOMAIN shown = 1..Len(shown) /\ Len(shown) \in Nat
<1>1. shown \in Seq(Applications)
  BY DEF FieldsInv, WellNamed
<1>2. QED BY <1>1

LEMMA DoubleClickStep ==
  ASSUME FieldsInv, DoubleClick
  PROVE  FieldsInv' /\ KeepsBut(stored.apps, stored'.apps, entered)
<1>1. Post(shown) /\ shown \in Seq(Applications) /\ Len(shown) \in Nat
  BY ShownType DEF DoubleClick
<1>2. /\ FieldsInv'
      /\ \A j \in 1..Len(stored'.apps) : \E i \in 1..Len(shown) : stored'.apps[j] = shown[i]
  BY <1>1, PostStep DEF FieldsInv
<1>3. QED BY <1>2, KeepsButOn DEF FieldsInv

LEMMA DoubleClickFailsStep ==
  ASSUME FieldsInv, DoubleClickFails
  PROVE  FieldsInv' /\ Keeps(stored.apps, stored'.apps)
<1>1. PostFails(shown) /\ entered' = entered
  BY DEF DoubleClickFails
<1>2. QED BY <1>1, FailedPost DEF FieldsInv

(* What the page holds after the user has entered a proxy.                 *)
LEMMA ChangedShown ==
  ASSUME FieldsInv, NEW k \in DOMAIN shown, NEW proxy \in Urls \union {NoUrl},
         NEW apps, apps = WithProxy(k, proxy)
  PROVE  /\ WellNamed(apps, uuid) /\ HaveIds(apps)
         /\ Len(apps) = Len(shown) /\ apps[k].id = shown[k].id /\ apps[k].proxy = proxy
         /\ \A j \in 1..Len(shown) : j # k => apps[j] = shown[j]
<1>1. /\ shown \in Seq(Applications) /\ DOMAIN shown = 1..Len(shown) /\ Len(shown) \in Nat
      /\ k \in 1..Len(shown) /\ proxy \in STRING
  BY ShownType, FieldsAssumption
<1> DEFINE e == [shown[k] EXCEPT !.proxy = proxy]
<1>2. e \in Applications /\ e.id = shown[k].id /\ e.proxy = proxy
  <2>1. shown[k] \in Applications
    BY <1>1
  <2>2. QED BY <2>1, <1>1 DEF Applications
<1>3. apps = [shown EXCEPT ![k] = e]
  BY DEF WithProxy
<1> HIDE DEF e
<1>4. /\ apps \in Seq(Applications) /\ Len(apps) = Len(shown) /\ apps[k] = e
      /\ \A j \in 1..Len(shown) : j # k => apps[j] = shown[j]
  BY <1>1, <1>2, <1>3
<1> DEFINE to == [j \in 1..Len(shown) |-> j]
<1>5. Rearranges(to, apps, shown) /\ \A i \in 1..Len(shown) : apps[i].id = shown[to[i]].id
  BY <1>2, <1>4 DEF Rearranges
<1> HIDE DEF to
<1>6. WellNamed(apps, uuid) /\ HaveIds(apps)
  BY <1>4, <1>5, RearrangedShown
<1>7. QED BY <1>2, <1>4, <1>6

LEMMA ChangeProxyStep ==
  ASSUME FieldsInv, NEW k \in DOMAIN shown, NEW proxy \in Urls \union {NoUrl}, ChangeProxy(k, proxy)
  PROVE  /\ FieldsInv'
         /\ \A i \in 1..Len(stored.apps), j \in 1..Len(stored'.apps) :
              stored.apps[i].id = stored'.apps[j].id /\ stored.apps[i].id # 0 /\ stored.apps[i].proxy # NoUrl =>
                \/ stored'.apps[j].proxy = stored.apps[i].proxy
                \/ shown[k].id = stored.apps[i].id /\ stored'.apps[j].proxy = proxy
                \/ <<stored.apps[i].id, stored'.apps[j].proxy>> \in entered
<1> DEFINE apps == WithProxy(k, proxy)
<1>1. Post(apps)
  BY DEF ChangeProxy
<1>2. /\ WellNamed(apps, uuid) /\ HaveIds(apps)
      /\ Len(apps) = Len(shown) /\ apps[k].id = shown[k].id /\ apps[k].proxy = proxy
      /\ \A j \in 1..Len(shown) : j # k => apps[j] = shown[j]
  BY ChangedShown
<1> HIDE DEF apps
<1>3. /\ FieldsInv'
      /\ \A j \in 1..Len(stored'.apps) : \E i \in 1..Len(apps) : stored'.apps[j] = apps[i]
  BY <1>1, <1>2, PostStep
<1>4. KeepsBut(stored.apps, shown, entered)
  BY DEF FieldsInv
<1>5. ASSUME NEW i \in 1..Len(stored.apps), NEW j \in 1..Len(stored'.apps),
             stored.apps[i].id = stored'.apps[j].id, stored.apps[i].id # 0, stored.apps[i].proxy # NoUrl
      PROVE  \/ stored'.apps[j].proxy = stored.apps[i].proxy
             \/ shown[k].id = stored.apps[i].id /\ stored'.apps[j].proxy = proxy
             \/ <<stored.apps[i].id, stored'.apps[j].proxy>> \in entered
  <2>1. PICK m \in 1..Len(shown) : stored'.apps[j] = apps[m]
    BY <1>2, <1>3
  <2>2. CASE m = k
    BY <2>1, <2>2, <1>2, <1>5
  <2>3. CASE m # k
    <3>1. stored'.apps[j] = shown[m]
      BY <2>1, <2>3, <1>2
    <3>2. QED BY <3>1, <1>4, <1>5 DEF KeepsBut
  <2>4. QED BY <2>2, <2>3
<1>6. QED BY <1>3, <1>5

LEMMA ChangeProxyFailsStep ==
  ASSUME FieldsInv, NEW k \in DOMAIN shown, NEW proxy \in Urls \union {NoUrl}, ChangeProxyFails(k, proxy)
  PROVE  FieldsInv' /\ Keeps(stored.apps, stored'.apps)
<1> DEFINE apps == WithProxy(k, proxy)
<1>1. /\ PostFails(apps)
      /\ entered' = {change \in entered : change[1] # shown[k].id} \union {<<shown[k].id, proxy>>}
  BY DEF ChangeProxyFails
<1>2. /\ WellNamed(apps, uuid) /\ HaveIds(apps)
      /\ Len(apps) = Len(shown) /\ apps[k].id = shown[k].id /\ apps[k].proxy = proxy
      /\ \A j \in 1..Len(shown) : j # k => apps[j] = shown[j]
  BY ChangedShown
<1> HIDE DEF apps
<1>3. /\ KeepsBut(stored.apps, shown, entered) /\ HaveIds(shown) /\ DistinctIds(shown)
      /\ shown \in Seq(Applications) /\ k \in 1..Len(shown)
  BY ShownType DEF FieldsInv, WellNamed
<1>4. KeepsBut(stored.apps, apps, entered')
  <2> SUFFICES ASSUME NEW i \in 1..Len(stored.apps), NEW j \in 1..Len(apps),
                      stored.apps[i].id = apps[j].id, stored.apps[i].id # 0, stored.apps[i].proxy # NoUrl
               PROVE  \/ apps[j].proxy = stored.apps[i].proxy
                      \/ <<stored.apps[i].id, apps[j].proxy>> \in entered'
    BY DEF KeepsBut
  <2>1. CASE j = k
    BY <2>1, <1>1, <1>2
  <2>2. CASE j # k
    <3>1. apps[j] = shown[j] /\ j \in 1..Len(shown)
      BY <2>2, <1>2
    <3>2. shown[j].id # shown[k].id
      BY <2>2, <3>1, <1>3, DistinctAt
    <3>3. \/ shown[j].proxy = stored.apps[i].proxy
          \/ <<stored.apps[i].id, shown[j].proxy>> \in entered
      BY <3>1, <1>3 DEF KeepsBut
    <3>4. <<stored.apps[i].id, shown[j].proxy>>[1] # shown[k].id
      BY <3>1, <3>2
    <3>5. QED BY <3>1, <3>3, <3>4, <1>1
  <2>3. QED BY <2>1, <2>2
<1>5. QED BY <1>1, <1>2, <1>4, FailedPost

(* Moving one application.                                                 *)
LEMMA ConcatFirst ==
  ASSUME NEW A, NEW a \in Seq(A), NEW b \in Seq(A), NEW x \in 1..Len(a)
  PROVE  (a \o b)[x] = a[x]
OBVIOUS

LEMMA ConcatSecond ==
  ASSUME NEW A, NEW a \in Seq(A), NEW b \in Seq(A), NEW x \in Len(a) + 1..Len(a) + Len(b)
  PROVE  (a \o b)[x] = b[x - Len(a)]
OBVIOUS

(* Where each element was, before the i-th was moved to the j-th place.     *)
Before(n, i, j) ==
  [x \in 1..n |-> IF x = j THEN i
                  ELSE IF x < j THEN (IF x < i THEN x ELSE x + 1)
                  ELSE IF x - 1 < i THEN x - 1 ELSE x]

MovedTo(new, old, i, j) ==
  /\ Rearranges(Before(Len(old), i, j), new, old)
  /\ \A x \in 1..Len(old) : new[x] = old[Before(Len(old), i, j)[x]]

LEMMA MovedElements ==
  ASSUME NEW A, NEW s \in Seq(A), NEW i \in 1..Len(s), NEW j \in 1..Len(s),
         NEW m, m = InsertAt(RemoveAt(s, i), j, s[i])
  PROVE  m \in Seq(A) /\ MovedTo(m, s, i, j)
<1> DEFINE N == Len(s)
           r == RemoveAt(s, i)
           skip(y) == IF y < i THEN y ELSE y + 1
           to == Before(N, i, j)
<1>1. N \in Nat /\ i \in 1..N /\ j \in 1..N /\ \A x \in 1..N : s[x] \in A
  OBVIOUS
<1>2. r \in Seq(A) /\ Len(r) = N - 1 /\ \A y \in 1..N - 1 : r[y] = s[skip(y)]
  <2> DEFINE a == SubSeq(s, 1, i - 1)
             b == SubSeq(s, i + 1, N)
  <2>1. /\ a \in Seq(A) /\ Len(a) = i - 1 /\ \A y \in 1..i - 1 : a[y] = s[y]
        /\ b \in Seq(A) /\ Len(b) = N - i /\ \A y \in 1..N - i : b[y] = s[y + i]
    BY <1>1
  <2>2. r = a \o b
    BY DEF RemoveAt
  <2> HIDE DEF a, b, r
  <2> DEFINE n == i - 1
             k == N - i
  <2>3. n \in Nat /\ k \in Nat /\ Len(a) = n /\ Len(b) = k /\ n + k = N - 1
    BY <1>1, <2>1
  <2> HIDE DEF n, k
  <2>4. /\ r \in Seq(A) /\ Len(r) = n + k
        /\ \A y \in 1..n : r[y] = a[y]
        /\ \A y \in n + 1..n + k : r[y] = b[y - n]
    <3>1. a \in Seq(A) /\ b \in Seq(A)
      BY <2>1, <2>3
    <3>2. /\ n \in Nat /\ k \in Nat /\ Len(a) = n /\ Len(b) = k
      BY <2>1, <2>3
    <3>3. a \o b \in Seq(A) /\ Len(a \o b) = n + k
      <4>1. a \o b \in Seq(A) /\ Len(a \o b) = Len(a) + Len(b)
        BY <3>1
      <4>2. QED BY <4>1, <3>2
    <3>4. ASSUME NEW x \in 1..n PROVE (a \o b)[x] = a[x]
      <4>1. x \in 1..Len(a)
        BY <3>2
      <4>2. QED BY <3>1, <4>1, ConcatFirst
    <3>5. ASSUME NEW x \in n + 1..n + k PROVE (a \o b)[x] = b[x - n]
      <4>1. x \in Len(a) + 1..Len(a) + Len(b)
        BY <3>2
      <4>2. (a \o b)[x] = b[x - Len(a)]
        BY <3>1, <4>1, ConcatSecond
      <4>3. QED BY <4>2, <3>2
    <3>6. QED BY <3>3, <3>4, <3>5, <2>2
  <2>5. \A y \in 1..N - 1 : r[y] = s[skip(y)]
    <3> SUFFICES ASSUME NEW y \in 1..N - 1 PROVE r[y] = s[skip(y)]
      OBVIOUS
    <3>1. CASE y < i
      <4>1. y \in 1..n /\ y \in 1..i - 1
        BY <3>1, <1>1 DEF n
      <4>2. QED BY <4>1, <3>1, <2>1, <2>4
    <3>2. CASE ~(y < i)
      <4>1. y \in n + 1..n + k /\ y - n \in 1..N - i /\ (y - n) + i = y + 1
        BY <3>2, <1>1, <2>3 DEF n
      <4>2. QED BY <4>1, <3>2, <2>1, <2>4
    <3>3. QED BY <3>1, <3>2
  <2>6. QED BY <2>3, <2>4, <2>5
<1> HIDE DEF r
<1>3. /\ m \in Seq(A) /\ Len(m) = N
      /\ \A x \in 1..N : m[x] = IF x = j THEN s[i] ELSE IF x < j THEN r[x] ELSE r[x - 1]
  <2> DEFINE a == SubSeq(r, 1, j - 1)
             b == SubSeq(r, j, N - 1)
             e == <<s[i]>>
  <2>1. /\ a \in Seq(A) /\ Len(a) = j - 1 /\ \A y \in 1..j - 1 : a[y] = r[y]
        /\ b \in Seq(A) /\ Len(b) = N - j /\ \A y \in 1..N - j : b[y] = r[y + j - 1]
    BY <1>1, <1>2
  <2>2. e \in Seq(A) /\ Len(e) = 1 /\ e[1] = s[i]
    BY <1>1
  <2>3. m = (a \o e) \o b
    BY <1>2 DEF InsertAt, r
  <2> HIDE DEF a, b, e
  <2> DEFINE n == j - 1
             k == N - j
             ae == a \o e
  <2>4. n \in Nat /\ k \in Nat /\ j \in Nat /\ Len(a) = n /\ Len(b) = k /\ n + 1 = j /\ j + k = N
    BY <1>1, <2>1
  <2> HIDE DEF n, k, ae
  <2>5. /\ ae \in Seq(A) /\ Len(ae) = n + 1
        /\ \A x \in 1..n : ae[x] = a[x]
        /\ \A x \in n + 1..n + 1 : ae[x] = e[x - n]
    <3>1. a \in Seq(A) /\ e \in Seq(A)
      BY <2>1, <2>2, <2>4
    <3>2. /\ n \in Nat /\ 1 \in Nat /\ Len(a) = n /\ Len(e) = 1
      BY <2>1, <2>2, <2>4
    <3>3. a \o e \in Seq(A) /\ Len(a \o e) = n + 1
      <4>1. a \o e \in Seq(A) /\ Len(a \o e) = Len(a) + Len(e)
        BY <3>1
      <4>2. QED BY <4>1, <3>2
    <3>4. ASSUME NEW x \in 1..n PROVE (a \o e)[x] = a[x]
      <4>1. x \in 1..Len(a)
        BY <3>2
      <4>2. QED BY <3>1, <4>1, ConcatFirst
    <3>5. ASSUME NEW x \in n + 1..n + 1 PROVE (a \o e)[x] = e[x - n]
      <4>1. x \in Len(a) + 1..Len(a) + Len(e)
        BY <3>2
      <4>2. (a \o e)[x] = e[x - Len(a)]
        BY <3>1, <4>1, ConcatSecond
      <4>3. QED BY <4>2, <3>2
    <3>6. QED BY <3>3, <3>4, <3>5, <2>4 DEF ae
  <2>6. /\ m \in Seq(A) /\ Len(m) = j + k
        /\ \A x \in 1..j : m[x] = ae[x]
        /\ \A x \in j + 1..j + k : m[x] = b[x - j]
    <3>1. ae \in Seq(A) /\ b \in Seq(A)
      BY <2>1, <2>4, <2>5
    <3>2. /\ j \in Nat /\ k \in Nat /\ Len(ae) = j /\ Len(b) = k
      BY <2>1, <2>4, <2>5
    <3>3. ae \o b \in Seq(A) /\ Len(ae \o b) = j + k
      <4>1. ae \o b \in Seq(A) /\ Len(ae \o b) = Len(ae) + Len(b)
        BY <3>1
      <4>2. QED BY <4>1, <3>2
    <3>4. ASSUME NEW x \in 1..j PROVE (ae \o b)[x] = ae[x]
      <4>1. x \in 1..Len(ae)
        BY <3>2
      <4>2. QED BY <3>1, <4>1, ConcatFirst
    <3>5. ASSUME NEW x \in j + 1..j + k PROVE (ae \o b)[x] = b[x - j]
      <4>1. x \in Len(ae) + 1..Len(ae) + Len(b)
        BY <3>2
      <4>2. (ae \o b)[x] = b[x - Len(ae)]
        BY <3>1, <4>1, ConcatSecond
      <4>3. QED BY <4>2, <3>2
    <3>6. QED BY <3>3, <3>4, <3>5, <2>3 DEF ae
  <2>7. \A x \in 1..N : m[x] = IF x = j THEN s[i] ELSE IF x < j THEN r[x] ELSE r[x - 1]
    <3> SUFFICES ASSUME NEW x \in 1..N
                 PROVE  m[x] = IF x = j THEN s[i] ELSE IF x < j THEN r[x] ELSE r[x - 1]
      OBVIOUS
    <3>1. CASE x = j
      <4>1. x \in 1..j /\ x \in n + 1..n + 1 /\ x - n = 1
        BY <3>1, <1>1, <2>4
      <4>2. QED BY <4>1, <3>1, <2>2, <2>5, <2>6
    <3>2. CASE x < j
      <4>1. x \in 1..j /\ x \in 1..n /\ x \in 1..j - 1 /\ x # j
        BY <3>2, <1>1, <2>4
      <4>2. m[x] = r[x]
        BY <4>1, <2>1, <2>5, <2>6
      <4>3. QED BY <4>1, <4>2, <3>2
    <3>3. CASE x > j
      <4>1. x \in j + 1..j + k /\ x - j \in 1..N - j /\ (x - j) + j - 1 = x - 1 /\ x # j /\ ~(x < j)
        BY <3>3, <1>1, <2>4
      <4>2. m[x] = r[x - 1]
        BY <4>1, <2>1, <2>6
      <4>3. QED BY <4>1, <4>2
    <3>4. QED BY <3>1, <3>2, <3>3, <1>1
  <2>8. QED BY <2>4, <2>6, <2>7
<1>4. to \in [1..N -> 1..N] /\ \A x, y \in 1..N : to[x] = to[y] => x = y
  BY <1>1 DEF Before
<1>5. \A x \in 1..N : m[x] = s[to[x]]
  <2> SUFFICES ASSUME NEW x \in 1..N PROVE m[x] = s[to[x]]
    OBVIOUS
  <2>1. to[x] = IF x = j THEN i
                ELSE IF x < j THEN (IF x < i THEN x ELSE x + 1)
                ELSE IF x - 1 < i THEN x - 1 ELSE x
    BY DEF Before
  <2>2. m[x] = IF x = j THEN s[i] ELSE IF x < j THEN r[x] ELSE r[x - 1]
    BY <1>3
  <2>3. CASE x = j
    BY <2>1, <2>2, <2>3
  <2>4. CASE x < j
    <3>1. x \in 1..N - 1 /\ x # j
      BY <2>4, <1>1
    <3>2. r[x] = s[IF x < i THEN x ELSE x + 1]
      BY <3>1, <1>2
    <3>3. QED BY <2>1, <2>2, <2>4, <3>1, <3>2
  <2>5. CASE x > j
    <3>1. x - 1 \in 1..N - 1 /\ x # j /\ ~(x < j) /\ (x - 1) + 1 = x
      BY <2>5, <1>1
    <3>2. r[x - 1] = s[IF x - 1 < i THEN x - 1 ELSE x]
      BY <3>1, <1>2
    <3>3. QED BY <2>1, <2>2, <3>1, <3>2
  <2>6. QED BY <2>3, <2>4, <2>5, <1>1
<1> HIDE DEF to
<1>6. Rearranges(to, m, s)
  BY <1>3, <1>4 DEF Rearranges
<1>7. QED BY <1>3, <1>5, <1>6 DEF to, MovedTo

LEMMA MovedShown ==
  ASSUME FieldsInv, NEW i \in DOMAIN shown, NEW j \in DOMAIN shown, NEW apps, apps = Moved(i, j)
  PROVE  /\ WellNamed(apps, uuid) /\ HaveIds(apps)
         /\ \A m \in 1..Len(apps) : \E k \in 1..Len(shown) : apps[m] = shown[k]
<1>1. shown \in Seq(Applications) /\ i \in 1..Len(shown) /\ j \in 1..Len(shown)
  BY ShownType
<1>2. apps = InsertAt(RemoveAt(shown, i), j, shown[i])
  BY DEF Moved
<1> DEFINE to == Before(Len(shown), i, j)
<1>3. apps \in Seq(Applications) /\ MovedTo(apps, shown, i, j)
  BY <1>1, <1>2, MovedElements
<1>4. Rearranges(to, apps, shown) /\ \A x \in 1..Len(shown) : apps[x] = shown[to[x]]
  BY <1>3 DEF MovedTo
<1> HIDE DEF to
<1>5. WellNamed(apps, uuid) /\ HaveIds(apps)
  <2>1. \A x \in 1..Len(shown) : apps[x].id = shown[to[x]].id
    BY <1>4
  <2>2. QED BY <1>3, <1>4, <2>1, RearrangedShown
<1>6. ASSUME NEW m \in 1..Len(apps) PROVE \E k \in 1..Len(shown) : apps[m] = shown[k]
  <2>1. m \in 1..Len(shown) /\ to[m] \in 1..Len(shown)
    BY <1>4 DEF Rearranges
  <2>2. QED BY <1>4, <2>1
<1>7. QED BY <1>5, <1>6

LEMMA MoveStep ==
  ASSUME FieldsInv, NEW i \in DOMAIN shown, NEW j \in DOMAIN shown, Move(i, j)
  PROVE  FieldsInv' /\ KeepsBut(stored.apps, stored'.apps, entered)
<1> DEFINE apps == Moved(i, j)
<1>1. Post(apps)
  BY DEF Move
<1>2. /\ WellNamed(apps, uuid) /\ HaveIds(apps)
      /\ \A m \in 1..Len(apps) : \E k \in 1..Len(shown) : apps[m] = shown[k]
  BY MovedShown
<1> HIDE DEF apps
<1>3. /\ FieldsInv'
      /\ \A m \in 1..Len(stored'.apps) : \E k \in 1..Len(apps) : stored'.apps[m] = apps[k]
  BY <1>1, <1>2, PostStep
<1>4. \A m \in 1..Len(stored'.apps) : \E k \in 1..Len(shown) : stored'.apps[m] = shown[k]
  <2> SUFFICES ASSUME NEW m \in 1..Len(stored'.apps) PROVE \E k \in 1..Len(shown) : stored'.apps[m] = shown[k]
    OBVIOUS
  <2>1. PICK k \in 1..Len(apps) : stored'.apps[m] = apps[k]
    BY <1>3
  <2>2. QED BY <1>2, <2>1
<1>5. QED BY <1>3, <1>4, KeepsButOn DEF FieldsInv

LEMMA MoveFailsStep ==
  ASSUME FieldsInv, NEW i \in DOMAIN shown, NEW j \in DOMAIN shown, MoveFails(i, j)
  PROVE  FieldsInv' /\ Keeps(stored.apps, stored'.apps)
<1> DEFINE apps == Moved(i, j)
<1>1. PostFails(apps) /\ entered' = entered
  BY DEF MoveFails
<1>2. /\ WellNamed(apps, uuid) /\ HaveIds(apps)
      /\ \A m \in 1..Len(apps) : \E k \in 1..Len(shown) : apps[m] = shown[k]
  BY MovedShown
<1> HIDE DEF apps
<1>3. KeepsBut(stored.apps, apps, entered')
  BY <1>1, <1>2, KeepsButOn DEF FieldsInv
<1>4. QED BY <1>1, <1>2, <1>3, FailedPost

(* POST /applications and /applications/choose-exe.                        *)
LEMMA AddStep ==
  ASSUME FieldsInv, AddApplication
  PROVE  FieldsInv' /\ Keeps(stored.apps, stored'.apps)
<1> DEFINE c == [Loaded EXCEPT !.apps = Append(@, Application)]
           old == stored.apps
           in == Loaded.apps
<1>1. Draws /\ Save(c) /\ Answer(Normalize(c, Drawn(1)).apps) /\ Len(old) < MaxApps
  BY DEF AddApplication
<1>2. /\ uuid \in Nat /\ MaxApps \in Nat /\ Loaded \in Fields /\ in \in Seq(Applications)
      /\ Len(in) \in Nat /\ Len(old) \in Nat /\ Len(in) <= Len(old)
      /\ WellNamed(in, uuid + Len(old)) /\ HaveIds(in) /\ Keeps(old, in)
  BY LoadedProperties
<1>3. Application \in Applications /\ Application.id = uuid + MaxApps
  BY <1>2, DrawnNumbers, FieldsAssumption DEF Application, Applications
<1> DEFINE apps == Append(in, Application)
<1>4. c \in Fields /\ c.apps = apps
  <2>1. c = [Loaded EXCEPT !.apps = apps] /\ apps \in Seq(Applications)
    BY <1>2, <1>3
  <2> HIDE DEF c, apps
  <2>2. QED BY <2>1, <1>2 DEF Fields
<1> HIDE DEF c
<1>5. /\ apps \in Seq(Applications) /\ Len(apps) = Len(in) + 1 /\ apps[Len(in) + 1] = Application
      /\ \A i \in 1..Len(in) : apps[i] = in[i]
  BY <1>2, <1>3
<1>6. \A i \in 1..Len(in) : in[i].id \in Nat /\ in[i].id # 0 /\ in[i].id <= uuid + Len(old)
  BY <1>2, IdsAndProxies DEF WellNamed, HaveIds
<1>7. \A i \in 1..Len(old) : old[i].id \in Nat /\ old[i].id <= uuid
  <2>1. WellNamed(old, uuid)
    BY DEF FieldsInv
  <2>2. QED BY <2>1, IdsAndProxies DEF WellNamed
<1> HIDE DEF apps, in, old
<1>8. \A i \in 1..Len(apps) : apps[i].id # 0 /\ apps[i].id <= uuid + MaxApps
  <2> SUFFICES ASSUME NEW i \in 1..Len(apps) PROVE apps[i].id # 0 /\ apps[i].id <= uuid + MaxApps
    OBVIOUS
  <2>1. CASE i = Len(in) + 1
    BY <2>1, <1>1, <1>2, <1>3, <1>5
  <2>2. CASE i \in 1..Len(in)
    BY <2>2, <1>1, <1>2, <1>5, <1>6
  <2>3. QED BY <2>1, <2>2, <1>2, <1>5
<1>9. ASSUME NEW i \in 1..Len(apps), NEW j \in 1..Len(apps), apps[i].id = apps[j].id PROVE i = j
  <2>1. CASE i = Len(in) + 1 /\ j \in 1..Len(in)
    BY <2>1, <1>1, <1>2, <1>3, <1>5, <1>6, <1>9
  <2>2. CASE j = Len(in) + 1 /\ i \in 1..Len(in)
    BY <2>2, <1>1, <1>2, <1>3, <1>5, <1>6, <1>9
  <2>3. CASE i \in 1..Len(in) /\ j \in 1..Len(in)
    <3>1. in[i].id = in[j].id /\ in[i].id # 0 /\ DistinctIds(in)
      BY <2>3, <1>2, <1>5, <1>6, <1>9 DEF WellNamed
    <3>2. QED BY <2>3, <3>1, <1>2, DistinctAt
  <2>4. QED BY <2>1, <2>2, <2>3, <1>2, <1>5
<1>10. DistinctIds(apps)
  <2>1. DOMAIN apps = 1..Len(apps)
    BY <1>5
  <2>2. QED BY <2>1, <1>9 DEF DistinctIds
<1>11. WellNamed(apps, uuid + MaxApps) /\ HaveIds(apps)
  BY <1>1, <1>2, <1>5, <1>8, <1>10 DEF WellNamed, HaveIds
<1>12. Keeps(old, apps)
  <2> SUFFICES ASSUME NEW i \in 1..Len(old), NEW j \in 1..Len(apps),
                      old[i].id = apps[j].id, old[i].id # 0, old[i].proxy # NoUrl
               PROVE  apps[j].proxy = old[i].proxy
    BY DEF Keeps
  <2>1. j # Len(in) + 1
    BY <1>1, <1>2, <1>3, <1>5, <1>7
  <2>2. j \in 1..Len(in) /\ apps[j] = in[j]
    BY <2>1, <1>2, <1>5
  <2>3. QED BY <2>2, <1>2 DEF Keeps
<1>13. QED BY <1>1, <1>4, <1>11, <1>12, ChangedStep DEF old

(* DELETE /applications.                                                   *)
LEMMA RemoveStep ==
  ASSUME FieldsInv, NEW k \in DOMAIN shown, RemoveApplication(k)
  PROVE  FieldsInv' /\ Keeps(stored.apps, stored'.apps)
<1> DEFINE in == Loaded.apps
           T == {app \in Range(in) : app.id # shown[k].id}
           apps == Keep(in, T)
           c == [Loaded EXCEPT !.apps = apps]
<1>1. Draws /\ Save(c) /\ Answer(Normalize(c, Drawn(1)).apps)
  BY DEF RemoveApplication
<1>2. /\ uuid \in Nat /\ MaxApps \in Nat /\ Loaded \in Fields /\ in \in Seq(Applications)
      /\ Len(in) \in Nat /\ Len(in) <= Len(stored.apps) /\ Len(stored.apps) <= MaxApps /\ Len(stored.apps) \in Nat
      /\ WellNamed(in, uuid + Len(stored.apps)) /\ HaveIds(in) /\ Keeps(stored.apps, in)
  BY LoadedProperties
<1> HIDE DEF T
<1>3. apps \in Seq(Applications) /\ Len(apps) <= Len(in)
  BY <1>2, KeepProperties
<1>4. PICK at \in [1..Len(apps) -> 1..Len(in)] :
        /\ \A i, j \in 1..Len(apps) : i < j => at[i] < at[j]
        /\ \A i \in 1..Len(apps) : apps[i] = in[at[i]] /\ in[at[i]] \in T
  <2> DEFINE s == in
  <2>1. s \in Seq(Applications)
    BY <1>2
  <2> HIDE DEF s
  <2>2. \E at \in [1..Len(Keep(s, T)) -> 1..Len(s)] :
          /\ \A i, j \in 1..Len(Keep(s, T)) : i < j => at[i] < at[j]
          /\ \A i \in 1..Len(Keep(s, T)) : Keep(s, T)[i] = s[at[i]] /\ s[at[i]] \in T
    BY <2>1, KeepProperties
  <2>3. QED BY <2>2 DEF s
<1> HIDE DEF apps
<1>5. c \in Fields /\ c.apps = apps
  BY <1>2, <1>3 DEF Fields
<1> HIDE DEF c
<1>6. \A i \in 1..Len(in) : in[i].id \in Nat /\ in[i].id # 0 /\ in[i].id <= uuid + MaxApps
  <2>1. \A i \in 1..Len(in) : in[i].id \in Nat /\ in[i].id # 0 /\ in[i].id <= uuid + Len(stored.apps)
    BY <1>2, IdsAndProxies DEF WellNamed, HaveIds
  <2>2. QED BY <2>1, <1>2
<1> HIDE DEF in
<1>7. \A i \in 1..Len(apps) : at[i] \in 1..Len(in) /\ at[i] \in Nat /\ apps[i] = in[at[i]]
  BY <1>4
<1>8. \A i \in 1..Len(apps) : apps[i].id # 0 /\ apps[i].id <= uuid + MaxApps
  BY <1>6, <1>7
<1>9. ASSUME NEW i \in 1..Len(apps), NEW j \in 1..Len(apps), apps[i].id = apps[j].id PROVE i = j
  <2>1. in[at[i]].id = in[at[j]].id /\ in[at[i]].id # 0 /\ DistinctIds(in)
    BY <1>2, <1>6, <1>7, <1>9 DEF WellNamed
  <2>2. at[i] = at[j]
    BY <2>1, <1>2, <1>7, DistinctAt
  <2>3. ~(i < j) /\ ~(j < i) /\ i \in Nat /\ j \in Nat
    BY <2>2, <1>4, <1>7
  <2>4. QED BY <2>3
<1>10. DistinctIds(apps)
  <2>1. DOMAIN apps = 1..Len(apps)
    BY <1>3
  <2>2. QED BY <2>1, <1>9 DEF DistinctIds
<1>11. WellNamed(apps, uuid + MaxApps) /\ HaveIds(apps)
  <2>1. Len(apps) <= MaxApps
    BY <1>2, <1>3
  <2>2. QED BY <2>1, <1>3, <1>8, <1>10 DEF WellNamed, HaveIds
<1>12. ComesFrom(apps, in)
  BY <1>7 DEF ComesFrom
<1>13. Keeps(stored.apps, apps)
  BY <1>2, <1>12, KeepsOn
<1>14. QED BY <1>1, <1>5, <1>11, <1>13, ChangedStep

(* An addition or a removal that answers 500.                              *)
LEMMA ApplicationsFailStep ==
  ASSUME FieldsInv, ApplicationsFail
  PROVE  FieldsInv' /\ Keeps(stored.apps, stored'.apps)
<1>1. /\ Draws /\ SaveFails /\ unsaved' = (unsaved \/ stored' # stored)
      /\ UNCHANGED <<shown, open, entered>> /\ saved' = saved
  BY DEF ApplicationsFail, SaveFails
<1>2. /\ uuid' \in Nat /\ uuid <= uuid' /\ uuid \in Nat
      /\ stored' \in Fields /\ WellNamed(stored'.apps, uuid') /\ (saved' => HaveIds(stored'.apps))
      /\ Keeps(stored.apps, stored'.apps) /\ KeepsBut(stored'.apps, shown', entered')
  BY <1>1, FailedSave DEF FieldsInv
<1>3. WellNamed(shown', uuid') /\ HaveIds(shown')
  BY <1>1, <1>2, WellNamedLater DEF FieldsInv
<1>4. ShownIsStored'
  <2> SUFFICES ASSUME saved, ~unsaved, stored' = stored PROVE ShownIsStored'
    BY <1>1 DEF ShownIsStored
  <2>1. Drawn(0)' \in Nat /\ Drawn(0) \in Nat
    <3>1. Drawn(0)' = uuid' + 0 * MaxApps /\ MaxApps \in Nat
      BY FieldsAssumption DEF Drawn
    <3>2. QED BY <3>1, <1>2, DrawnNumbers
  <2>2. stored \in Fields /\ \A i \in 1..Len(stored.apps) : stored.apps[i].id # 0
    BY DEF FieldsInv, HaveIds
  <2>3. Normalize(stored, Drawn(0)') = Normalize(stored, Drawn(0))
    BY <2>1, <2>2, NormalizeDrawsNothing
  <2>4. Loaded' = Loaded
    BY <2>3 DEF Loaded
  <2>5. QED BY <1>1, <2>4 DEF FieldsInv, ShownIsStored
<1>5. QED BY <1>1, <1>2, <1>3, <1>4 DEF FieldsInv

LEMMA FieldsInvInit == FieldsInit => FieldsInv
<1> SUFFICES ASSUME FieldsInit PROVE FieldsInv
  OBVIOUS
<1>1. /\ stored \in OldFiles /\ shown = <<>> /\ saved = FALSE /\ uuid = MaxApps
  BY DEF FieldsInit
<1>2. /\ stored \in Fields /\ uuid \in Nat /\ MaxApps \in Nat
      /\ Len(stored.apps) <= MaxApps /\ DistinctIds(stored.apps)
      /\ \A i \in DOMAIN stored.apps : stored.apps[i].id <= MaxApps
  BY <1>1, FieldsAssumption
<1>3. stored.apps \in Seq(Applications) /\ DOMAIN stored.apps = 1..Len(stored.apps)
  BY <1>2 DEF Fields
<1>4. WellNamed(stored.apps, uuid)
  BY <1>1, <1>2, <1>3 DEF WellNamed
<1>5. shown \in Seq(Applications) /\ Len(shown) = 0 /\ DOMAIN shown = {} /\ 1..0 = {}
  BY <1>1
<1>6. WellNamed(shown, uuid) /\ HaveIds(shown) /\ KeepsBut(stored.apps, shown, entered)
  BY <1>2, <1>5 DEF WellNamed, HaveIds, KeepsBut, DistinctIds
<1>7. QED BY <1>1, <1>2, <1>4, <1>6 DEF FieldsInv, ShownIsStored

-----------------------------------------------------------------------------
(* What a step does to the proxies of stored applications: none but a      *)
(* change of the user's.                                                   *)
ProxiesKept ==
  \A i \in DOMAIN stored.apps, j \in DOMAIN stored'.apps :
    LET old == stored.apps[i]
        new == stored'.apps[j]
    IN  (old.id = new.id /\ old.id # 0 /\ old.proxy \notin {NoUrl, new.proxy})
          => \/ \E k \in DOMAIN shown : shown[k].id = old.id /\ ChangeProxy(k, new.proxy)
             \/ <<old.id, new.proxy>> \in entered

LEMMA KeptByKeepsBut ==
  ASSUME FieldsInv, FieldsInv', KeepsBut(stored.apps, stored'.apps, entered) PROVE ProxiesKept
<1>1. DOMAIN stored.apps = 1..Len(stored.apps) /\ DOMAIN stored'.apps = 1..Len(stored'.apps)
  BY DEF FieldsInv, Fields
<1>2. QED BY <1>1 DEF ProxiesKept, KeepsBut

LEMMA KeptByKeeps ==
  ASSUME FieldsInv, FieldsInv', Keeps(stored.apps, stored'.apps) PROVE ProxiesKept
BY KeepsAll, KeptByKeepsBut

LEMMA FieldsStep ==
  ASSUME FieldsInv, [FieldsNext]_fieldVars
  PROVE  FieldsInv' /\ [ProxiesKept]_fieldVars
<1>1. CASE Get
  BY <1>1, GetStep, KeptByKeeps
<1>2. ASSUME NEW k \in DOMAIN shown, NEW proxy \in Urls \union {NoUrl}, ChangeProxy(k, proxy)
      PROVE  FieldsInv' /\ ProxiesKept
  <2>1. /\ FieldsInv'
        /\ \A i \in 1..Len(stored.apps), j \in 1..Len(stored'.apps) :
             stored.apps[i].id = stored'.apps[j].id /\ stored.apps[i].id # 0 /\ stored.apps[i].proxy # NoUrl =>
               \/ stored'.apps[j].proxy = stored.apps[i].proxy
               \/ shown[k].id = stored.apps[i].id /\ stored'.apps[j].proxy = proxy
               \/ <<stored.apps[i].id, stored'.apps[j].proxy>> \in entered
    BY <1>2, ChangeProxyStep
  <2>2. DOMAIN stored.apps = 1..Len(stored.apps) /\ DOMAIN stored'.apps = 1..Len(stored'.apps)
    BY <2>1 DEF FieldsInv, Fields
  <2>3. ASSUME NEW i \in DOMAIN stored.apps, NEW j \in DOMAIN stored'.apps,
               stored.apps[i].id = stored'.apps[j].id, stored.apps[i].id # 0,
               stored.apps[i].proxy \notin {NoUrl, stored'.apps[j].proxy},
               <<stored.apps[i].id, stored'.apps[j].proxy>> \notin entered
        PROVE  \E m \in DOMAIN shown :
                 shown[m].id = stored.apps[i].id /\ ChangeProxy(m, stored'.apps[j].proxy)
    <3>1. shown[k].id = stored.apps[i].id /\ stored'.apps[j].proxy = proxy
      BY <2>1, <2>2, <2>3
    <3>2. ChangeProxy(k, stored'.apps[j].proxy)
      BY <1>2, <3>1
    <3>3. QED BY <3>1, <3>2
  <2>4. QED BY <2>1, <2>3 DEF ProxiesKept
<1>3. ASSUME NEW i \in DOMAIN shown, NEW j \in DOMAIN shown, Move(i, j)
      PROVE  FieldsInv' /\ ProxiesKept
  BY <1>3, MoveStep, KeptByKeepsBut
<1>4. CASE DoubleClick
  BY <1>4, DoubleClickStep, KeptByKeepsBut
<1>5. CASE AddApplication
  BY <1>5, AddStep, KeptByKeeps
<1>6. ASSUME NEW i \in DOMAIN shown, RemoveApplication(i)
      PROVE  FieldsInv' /\ ProxiesKept
  BY <1>6, RemoveStep, KeptByKeeps
<1>7. CASE UNCHANGED fieldVars
  <2>1. FieldsInv'
    <3>1. ShownIsStored'
      BY <1>7 DEF FieldsInv, ShownIsStored, Loaded, Drawn, fieldVars
    <3>2. QED BY <1>7, <3>1 DEF FieldsInv, fieldVars
  <2>2. QED BY <1>7, <2>1
<1>8. ASSUME NEW k \in DOMAIN shown, NEW proxy \in Urls \union {NoUrl}, ChangeProxyFails(k, proxy)
      PROVE  FieldsInv' /\ ProxiesKept
  BY <1>8, ChangeProxyFailsStep, KeptByKeeps
<1>9. ASSUME NEW i \in DOMAIN shown, NEW j \in DOMAIN shown, MoveFails(i, j)
      PROVE  FieldsInv' /\ ProxiesKept
  BY <1>9, MoveFailsStep, KeptByKeeps
<1>10. CASE DoubleClickFails
  BY <1>10, DoubleClickFailsStep, KeptByKeeps
<1>11. CASE ApplicationsFail
  BY <1>11, ApplicationsFailStep, KeptByKeeps
<1>12. QED
  BY <1>1, <1>2, <1>3, <1>4, <1>5, <1>6, <1>7, <1>8, <1>9, <1>10, <1>11 DEF FieldsNext

(* Once the file was saved the page's applications are the stored ones, for *)
(* every number of applications, proxies and requests, unless a save has   *)
(* failed since the page's last answer                                     *)
(* (handleProxyConfig, handleApplications, normalizeProxyConfig).          *)
THEOREM PageShowsTheFile == FieldsSpec => []ShownIsStored
<1>1. FieldsInv => ShownIsStored
  BY DEF FieldsInv
<1>2. QED BY <1>1, FieldsInvInit, FieldsStep, PTL DEF FieldsSpec

(* No load, save, move, addition or removal changes the proxy of an         *)
(* application; only what the user enters for that application does, with  *)
(* the save that follows or, when that fails, with a later one             *)
(* (normalizeProxyConfig).                                                  *)
THEOREM ProxyIsTheUsers == FieldsSpec => ChosenProxyKept
<1>1. FieldsInv /\ [FieldsNext]_fieldVars => [ProxiesKept]_fieldVars
  BY FieldsStep
<1>2. QED BY <1>1, FieldsInvInit, FieldsStep, PTL DEF FieldsSpec, ChosenProxyKept, ProxiesKept
=============================================================================
