----------------------------- MODULE ConfigStore -----------------------------
(***************************************************************************)
(* proxy_config.json and the backup file, as the handlers of               *)
(* netmonitor-gui/main.go read and write them: loadProxyConfig,            *)
(* saveProxyConfig (os.WriteFile: truncate, then write), exportBackup      *)
(* (remove the old backup, then rename the new one) and importBackup (save *)
(* the configuration, then unpack the profiles).                           *)
(*                                                                         *)
(* No lock is held: every handler loads, changes and saves in steps that   *)
(* another one's may come between.  A configuration is the set of its      *)
(* applications.  Of a backup's profile files only their outcome is        *)
(* modelled: they are all unpacked, or the import fails at one of them.    *)
(***************************************************************************)
CONSTANTS
  Threads,  \* goroutines of net/http that serve requests
  Apps,     \* applications a configuration can hold
  Overlap,  \* may a request begin while another one is in progress
  Faults    \* may a write fail halfway, a rename fail, the program be killed

ASSUME StoreAssumption ==
  /\ Overlap \in BOOLEAN
  /\ Faults \in BOOLEAN

VARIABLES
  file,     \* proxy_config.json
  backup,   \* the backup file; {} when there is none
  pc,       \* what each request does next
  kind,     \* its method and path
  arg,      \* the applications in its body
  config,   \* its local variable config: loaded, then changed
  outcome   \* its answer: "none", "ok" or "error"

requestVars == <<pc, kind, arg, config, outcome>>
vars == <<file, backup, requestVars>>

Kinds  == {"get", "post", "add", "remove", "export", "import"}
Stages == {"idle", "load", "open", "truncate", "write", "unpack", "reload", "drop", "rename"}

(* The stages each handler goes through.                                    *)
StagesOf(k) ==
  IF k = "get" THEN {"load"}
  ELSE IF k = "export" THEN {"load", "drop", "rename"}
  ELSE IF k = "import" THEN {"open", "truncate", "write", "unpack", "reload"}
  ELSE IF k = "post" THEN {"truncate", "write"}
  ELSE {"load", "truncate", "write"}

(* A file is whole JSON, empty (truncated or absent), or one save's text    *)
(* over a longer one's, which json.Unmarshal refuses.                       *)
Whole(S) == [text |-> "whole", apps |-> S]
Empty    == [text |-> "empty", apps |-> {}]
Mixed    == [text |-> "mixed", apps |-> {}]

Files == {Whole(S) : S \in SUBSET Apps} \union {Empty, Mixed}

TypeOK ==
  /\ file \in Files
  /\ backup \in SUBSET SUBSET Apps
  /\ pc \in [Threads -> Stages]
  /\ \A t \in Threads : pc[t] \in StagesOf(kind[t]) \union {"idle"}
  /\ kind \in [Threads -> Kinds]
  /\ arg \in [Threads -> SUBSET Apps]
  /\ config \in [Threads -> SUBSET Apps]
  /\ outcome \in [Threads -> {"none", "ok", "error"}]

Init ==
  /\ file \in {Whole(S) : S \in SUBSET Apps} \union {Empty}
  /\ backup = {}
  /\ pc = [t \in Threads |-> "idle"]
  /\ kind = [t \in Threads |-> "get"]
  /\ arg = [t \in Threads |-> {}]
  /\ config = [t \in Threads |-> {}]
  /\ outcome = [t \in Threads |-> "none"]

-----------------------------------------------------------------------------
At(t, stg)   == pc[t] = stg
Goto(t, stg) == pc' = [pc EXCEPT ![t] = stg] /\ UNCHANGED outcome
Return(t, o) == pc' = [pc EXCEPT ![t] = "idle"] /\ outcome' = [outcome EXCEPT ![t] = o]

FirstStage(k) ==
  IF k = "post" THEN "truncate" ELSE IF k = "import" THEN "open" ELSE "load"

(* A request arrives; a file dialog may come before.  A posted              *)
(* configuration is config at once.                                         *)
Begin(t, k, a) ==
  /\ At(t, "idle")
  /\ Overlap \/ \A u \in Threads : At(u, "idle")
  /\ kind' = [kind EXCEPT ![t] = k]
  /\ arg' = [arg EXCEPT ![t] = a]
  /\ config' = [config EXCEPT ![t] = IF k = "post" THEN a ELSE {}]
  /\ pc' = [pc EXCEPT ![t] = FirstStage(k)]
  /\ outcome' = [outcome EXCEPT ![t] = "none"]
  /\ UNCHANGED <<file, backup>>

(* What POST and DELETE /applications do to the applications.               *)
Changed(k, a, S) ==
  IF k = "add" THEN S \union a ELSE IF k = "remove" THEN S \ a ELSE S

(* Mutation of Load: every request but a get goes on to save.               *)
LoadToSave(t) ==
  /\ At(t, "load")
  /\ config' = [config EXCEPT ![t] = Changed(kind[t], arg[t], file.apps)]
  /\ IF kind[t] = "get" THEN Return(t, "ok") ELSE Goto(t, "truncate")
  /\ UNCHANGED <<file, backup, kind, arg>>

(* loadProxyConfig: a file that is absent or does not parse is an empty     *)
(* configuration.  Then the change; export has its archive in a temporary   *)
(* file next.                                                               *)
Load(t) ==
  /\ At(t, "load")
  /\ config' = [config EXCEPT ![t] = Changed(kind[t], arg[t], file.apps)]
  /\ IF kind[t] = "get"
       THEN Return(t, "ok")
       ELSE Goto(t, IF kind[t] = "export" THEN "drop" ELSE "truncate")
  /\ UNCHANGED <<file, backup, kind, arg>>

(* Mutation of Open: an archive without a configuration is saved as empty.  *)
OpenUnchecked(t) ==
  /\ At(t, "open")
  /\ \E S \in backup \union {{}} : config' = [config EXCEPT ![t] = S]
  /\ Goto(t, "truncate")
  /\ UNCHANGED <<file, backup, kind, arg>>

(* importBackup: the configuration of an archive that opens.                *)
Open(t) ==
  /\ At(t, "open")
  /\ \/ \E S \in backup : config' = [config EXCEPT ![t] = S] /\ Goto(t, "truncate")
     \/ Return(t, "error") /\ UNCHANGED config
  /\ UNCHANGED <<file, backup, kind, arg>>

(* os.WriteFile opens with O_TRUNC, or cannot open.                         *)
Truncate(t) ==
  /\ At(t, "truncate")
  /\ \/ file' = Empty /\ Goto(t, "write")
     \/ Return(t, "error") /\ UNCHANGED file
  /\ UNCHANGED <<backup, kind, arg, config>>

(* ... and writes from the start: over what another save has written since, *)
(* the end of which stays when it was longer.  An import goes on.           *)
Write(t) ==
  /\ At(t, "write")
  /\ \/ /\ \/ file' = Whole(config[t])
           \/ file \notin {Empty, Whole(config[t])} /\ file' = Mixed
        /\ IF kind[t] = "import" THEN Goto(t, "unpack") ELSE Return(t, "ok")
     \/ Faults /\ UNCHANGED file /\ Return(t, "error")
  /\ UNCHANGED <<backup, kind, arg, config>>

(* importBackup, the archive's other entries: profile files.  Any of them   *)
(* may fail it, with the configuration saved already.                       *)
Unpack(t) ==
  /\ At(t, "unpack")
  /\ \/ Goto(t, "reload")
     \/ Return(t, "error")
  /\ UNCHANGED <<file, backup, kind, arg, config>>

(* handleImportBackup answers with the configuration it loads again.        *)
Reload(t) ==
  /\ At(t, "reload")
  /\ config' = [config EXCEPT ![t] = file.apps]
  /\ Return(t, "ok")
  /\ UNCHANGED <<file, backup, kind, arg>>

(* exportBackup removes the file at the path, or cannot.                    *)
Drop(t) ==
  /\ At(t, "drop")
  /\ \/ backup' = {} /\ Goto(t, "rename")
     \/ Return(t, "error") /\ UNCHANGED backup
  /\ UNCHANGED <<file, kind, arg, config>>

(* When os.Rename fails the deferred os.Remove deletes the new backup too.  *)
Rename(t) ==
  /\ At(t, "rename")
  /\ \/ backup' = {config[t]} /\ Return(t, "ok")
     \/ Faults /\ UNCHANGED backup /\ Return(t, "error")
  /\ UNCHANGED <<file, kind, arg, config>>

(* The program is killed and started again; who was waiting for an answer   *)
(* gets an error.                                                           *)
Killed ==
  /\ Faults
  /\ pc' = [t \in Threads |-> "idle"]
  /\ outcome' = [t \in Threads |-> IF At(t, "idle") THEN outcome[t] ELSE "error"]
  /\ UNCHANGED <<file, backup, kind, arg, config>>

-----------------------------------------------------------------------------
Step(t) ==
  \/ Load(t) \/ Open(t) \/ Truncate(t) \/ Write(t) \/ Unpack(t) \/ Reload(t)
  \/ Drop(t) \/ Rename(t)

Next ==
  \/ \E t \in Threads : Step(t) \/ \E k \in Kinds, a \in SUBSET Apps : Begin(t, k, a)
  \/ Killed

Spec == Init /\ [][Next]_vars

-----------------------------------------------------------------------------
(* A save takes effect when it truncates and an export when it removes: one *)
(* that is past that step counts as done, but not yet answered.             *)
Writing   == {t \in Threads : At(t, "write")}
Renaming  == {t \in Threads : At(t, "rename")}
Answering == {t \in Threads : pc[t] \in {"write", "unpack", "reload", "rename"}}
Pending   == {t \in Threads : pc[t] \in {"load", "open", "truncate", "drop"}}

Stored   == IF Writing = {} THEN file.apps ELSE UNION {config[t] : t \in Writing}
BackedUp == IF Renaming = {} THEN backup ELSE {config[t] : t \in Renaming}
Reply    == [t \in Threads |-> IF t \in Pending THEN {} ELSE config[t]]

Promise == INSTANCE Settings WITH
  stored <- Stored, backup <- BackedUp, pending <- Pending,
  answering <- Answering, reply <- Reply

(* README.md:22 and the handlers of main.go: with requests one at a time,   *)
(* the two files behave as settings and a backup that every request reads   *)
(* and changes in one step, and that an error leaves alone, but for an      *)
(* import that fails after its save; a fault loses them only while a save   *)
(* or an export is being answered.                                          *)
ImplementsSettings == Promise!SettingsSpec

(* README.md:22: "Local settings are stored ... in proxy_config.json": when *)
(* no request is in progress, the file can be read.                         *)
SettingsReadable ==
  (\A t \in Threads : At(t, "idle")) => file.text # "mixed"
=============================================================================
