------------------------------- MODULE Settings -------------------------------
(***************************************************************************)
(* What the settings of proxy_config.json and their backup promise to the  *)
(* user interface: every request takes effect at one instant between its   *)
(* arrival and its answer, on what the requests before it have left, and   *)
(* what was answered stays.  A request that is answered with an error has  *)
(* had no effect, but an import may have had its own.  A fault may lose    *)
(* only what a request in progress was changing.  ConfigStore implements   *)
(* it when requests do not overlap.                                        *)
(***************************************************************************)
CONSTANTS
  Threads,  \* goroutines that serve requests
  Apps,     \* applications that settings can hold
  Faults    \* may a fault occur

VARIABLES
  stored,    \* the applications that are set
  backup,    \* the backups: none or one set of applications
  pending,   \* requests that have not taken effect
  answering, \* requests that have, and may not be answered yet
  kind,      \* the request
  arg,       \* the applications it names
  reply,     \* the settings it answers with
  outcome    \* how it was answered

settingsVars == <<stored, backup, pending, answering, kind, arg, reply, outcome>>

Kinds == {"get", "post", "add", "remove", "export", "import"}

(* What a request can make of the settings.                                 *)
Effects(k, a) ==
  IF k = "post" THEN {a}
  ELSE IF k = "add" THEN {stored \union a}
  ELSE IF k = "remove" THEN {stored \ a}
  ELSE IF k = "import" THEN backup
  ELSE {stored}

SettingsInit ==
  /\ stored \in SUBSET Apps
  /\ backup = {}
  /\ pending = {}
  /\ answering = {}
  /\ kind = [t \in Threads |-> "get"]
  /\ arg = [t \in Threads |-> {}]
  /\ reply = [t \in Threads |-> {}]
  /\ outcome = [t \in Threads |-> "none"]

Outcome(t, o) == outcome' = [outcome EXCEPT ![t] = o]

Ask(t, k, a) ==
  /\ t \notin pending \union answering
  /\ pending' = pending \union {t}
  /\ kind' = [kind EXCEPT ![t] = k]
  /\ arg' = [arg EXCEPT ![t] = a]
  /\ reply' = [reply EXCEPT ![t] = {}]
  /\ Outcome(t, "none")
  /\ UNCHANGED <<stored, backup, answering>>

TakeEffect(t) ==
  /\ t \in pending
  /\ pending' = pending \ {t}
  /\ \/ answering' = answering /\ Outcome(t, "ok")
     \/ answering' = answering \union {t} /\ UNCHANGED outcome
  /\ stored' \in Effects(kind[t], arg[t])
  /\ backup' = IF kind[t] = "export" THEN {stored} ELSE backup
  /\ reply' = [reply EXCEPT ![t] = stored']
  /\ UNCHANGED <<kind, arg>>

Answer(t) ==
  /\ t \in answering
  /\ answering' = answering \ {t}
  /\ \/ Outcome(t, "ok")
     \/ kind[t] = "import" /\ Outcome(t, "error")
  /\ UNCHANGED <<stored, backup, pending, kind, arg, reply>>

(* A request that has had no effect is answered with an error; what it had  *)
(* in mind is no answer.                                                    *)
Refuse(t) ==
  /\ t \in pending
  /\ pending' = pending \ {t}
  /\ \E s \in SUBSET Apps : reply' = [reply EXCEPT ![t] = s]
  /\ Outcome(t, "error")
  /\ UNCHANGED <<stored, backup, answering, kind, arg>>

(* A fault: the settings, or the backup for an export, are gone.            *)
Lose(t) ==
  /\ Faults
  /\ t \in answering
  /\ answering' = answering \ {t}
  /\ stored' = IF kind[t] = "export" THEN stored ELSE {}
  /\ backup' = IF kind[t] = "export" THEN {} ELSE backup
  /\ Outcome(t, "error")
  /\ UNCHANGED <<pending, kind, arg, reply>>

SettingsNext ==
  \E t \in Threads :
    \/ \E k \in Kinds, a \in SUBSET Apps : Ask(t, k, a)
    \/ TakeEffect(t) \/ Answer(t) \/ Refuse(t) \/ Lose(t)

SettingsSpec == SettingsInit /\ [][SettingsNext]_settingsVars
=============================================================================
