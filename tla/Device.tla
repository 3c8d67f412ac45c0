------------------------------- MODULE Device -------------------------------
(***************************************************************************)
(* One device from power-up to power-up: boot.c's sequence, config.c's     *)
(* record in NVS, the /provision handler that writes it and the factory    *)
(* reset that wipes it.                                                    *)
(*                                                                         *)
(* NVS keeps each key by itself, so config_save and config_factory_reset   *)
(* change the record one key at a time: a loss of power or a failing write *)
(* leaves what was written so far.  The schema version is what config_load *)
(* trusts; config_save writes it last.                                     *)
(*                                                                         *)
(* The description is written, merged and checked as the name is, right   *)
(* after it; the name stands for both.                                     *)
(*                                                                         *)
(* A value of a field is the submission it came with, so that two fields   *)
(* with different values are two halves of different configurations.       *)
(***************************************************************************)
EXTENDS Naturals, Sequences

CONSTANTS
  Posts,      \* submissions of the provisioning form
  Empty,      \* the empty string, and a key that is not in NVS
  Absent,     \* a field the submission leaves out
  None        \* no configuration

ASSUME ValuesAssumption ==
  /\ Empty \notin Posts
  /\ Absent \notin Posts \cup {Empty}
  /\ None \notin [{"ssid", "password", "name"} -> Posts \cup {Empty}]

Fields == <<"ssid", "password", "name">>   \* in config_save's order
FieldNames == {"ssid", "password", "name"}
Configs == [FieldNames -> Posts \cup {Empty}]
Defaults == [f \in FieldNames |-> Empty]

(* provision_post_handler_impl accepts a body with both credentials. *)
Bodies == {b \in [FieldNames -> Posts \cup {Empty, Absent}] :
             /\ b["ssid"] # Absent /\ b["password"] # Absent
             /\ \E p \in Posts : \A f \in FieldNames : b[f] \in {p, Empty, Absent}}

(* The normal branch, in order; a failing step ends it, except the second. *)
Steps == <<"wifi_init", "softap_sta_listener_install", "button_init",
           "camera_init", "ws_init", "health_task_start", "capture_task_start",
           "stream_task_start", "control_task_start">>

VARIABLES
  nvs,      \* the strings in namespace "config"
  schema,   \* its schema_version: "absent", "stale" or "current"
  mode,     \* how far boot_run has come, see TypeOK
  at,       \* steps of the normal branch done
  cfg,      \* boot_run's cfg, then g_active_cfg_storage
  latch,    \* g_boot_button_pressed_at_boot
  job,      \* what is being done to NVS, see Jobs
  loaded,   \* history: the configuration config_load returned
  saved,    \* history: the configuration in force, None after a reset
  cut,      \* history: "reset" when keys were erased under a current schema
            \* version, "save" when others were written, else "no"
  acked     \* history: what the client last answered with 200 had asked for,
            \* None once a key is changed

storage == <<nvs, schema>>
ram == <<mode, at, cfg, latch, job>>
history == <<loaded, saved, cut, acked>>
vars == <<storage, ram, history>>

NoJob == [kind |-> "none"]
Saves == [kind: {"save"}, done: 0..4, config: Configs, body: Bodies]
Erase == [kind |-> "erase"]
Jobs == {NoJob, Erase} \cup Saves

Modes == {"off", "loaded", "softap_start", "provisioning", "starting", "normal",
          "halted"}

TypeOK ==
  /\ nvs \in Configs
  /\ schema \in {"absent", "stale", "current"}
  /\ mode \in Modes
  /\ at \in 0..Len(Steps)
  /\ mode = "starting" => at < Len(Steps)
  /\ mode \in {"off", "loaded"} => at = 0
  /\ cfg \in Configs
  /\ latch \in BOOLEAN
  /\ job \in Jobs
  /\ loaded \in Configs
  /\ {saved, acked} \subseteq Configs \cup {None}
  /\ cut \in {"no", "reset", "save"}

(* A new chip, or one with the record of another firmware version. *)
Init ==
  /\ \/ nvs = Defaults /\ schema = "absent"
     \/ \E p \in Posts : nvs = [f \in FieldNames |-> p] /\ schema = "stale"
  /\ mode = "off"
  /\ at = 0
  /\ cfg = Defaults
  /\ latch = FALSE
  /\ job = NoJob
  /\ loaded = Defaults
  /\ saved = None
  /\ cut = "no"
  /\ acked = None

-----------------------------------------------------------------------------
(* boot_run *)

LoadAnyway == nvs                  \* fault
Stored == IF schema = "current" THEN nvs ELSE Defaults

BootLoads ==
  /\ mode = "off"
  /\ mode' = "loaded"
  /\ cfg' = Stored
  /\ loaded' = Stored
  /\ UNCHANGED <<storage, at, latch, job, saved, cut, acked>>

(* nvs_flash_init or config_load fails: app_main returns. *)
BootLoadFails ==
  /\ mode = "off"
  /\ mode' = "halted"
  /\ UNCHANGED <<storage, at, cfg, latch, job, history>>

Provisioning == cfg["ssid"] = Empty \/ latch

Decide ==
  /\ mode = "loaded"
  /\ mode' = IF Provisioning THEN "softap_start" ELSE "starting"
  /\ UNCHANGED <<storage, at, cfg, latch, job, history>>

(* softap_bring_up fails for good before the form is registered; an error   *)
(* after that is returned by boot_run, but the form is served all the same. *)
SoftapStarts ==
  /\ mode = "softap_start"
  /\ mode' \in {"provisioning", "halted"}
  /\ UNCHANGED <<storage, at, cfg, latch, job, history>>

StepSucceeds ==
  /\ mode = "starting"
  /\ at' = at + 1
  /\ mode' = IF at + 1 = Len(Steps) THEN "normal" ELSE "starting"
  /\ UNCHANGED <<storage, cfg, latch, job, history>>

StepFails ==
  /\ mode = "starting"
  /\ IF Steps[at + 1] = "softap_sta_listener_install"
     THEN at' = at + 1 /\ UNCHANGED mode
     ELSE mode' = "halted" /\ UNCHANGED at
  /\ UNCHANGED <<storage, cfg, latch, job, history>>

-----------------------------------------------------------------------------
(* The button, which lives once button_init is done (Button.tla). *)
ButtonLives == mode \in {"starting", "normal", "halted"} /\ at >= 3

(* A hold from reset on reaches BOOT_LONGPRESS. *)
BootHold ==
  /\ ButtonLives
  /\ ~latch
  /\ latch' = TRUE
  /\ UNCHANGED <<storage, mode, at, cfg, job, history>>

(* A hold reaches RUNTIME_LONGPRESS: boot_factory_reset_and_restart. *)
RuntimeHold ==
  /\ ButtonLives
  /\ job = NoJob
  /\ job' = Erase
  /\ UNCHANGED <<storage, mode, at, cfg, latch, history>>

-----------------------------------------------------------------------------
(* provision_post_handler_impl: what a body asks for over the active cfg. *)
Merged(b) == [f \in FieldNames |-> IF b[f] = Absent THEN cfg[f] ELSE b[f]]

(* Everything in RAM as esp_restart, or a loss of power, leaves it. *)
Restarted ==
  /\ mode' = "off"
  /\ at' = 0
  /\ cfg' = Defaults
  /\ latch' = FALSE
  /\ job' = NoJob
  /\ loaded' = Defaults

PostInPlace ==     \* fault: the handler merges into the active cfg
  /\ mode = "provisioning" /\ job = NoJob
  /\ \E b \in Bodies :
       /\ job' = [kind |-> "save", done |-> 0, config |-> Merged(b), body |-> b]
       /\ cfg' = Merged(b)
  /\ UNCHANGED <<storage, mode, at, latch, history>>

Post ==
  /\ mode = "provisioning"
  /\ job = NoJob
  /\ \E b \in Bodies :
       job' = [kind |-> "save", done |-> 0, config |-> Merged(b), body |-> b]
  /\ UNCHANGED <<storage, mode, at, cfg, latch, history>>

(* A key changes: a configuration under a current schema version no longer *)
(* is the one that was saved.                                              *)
Changed(keys, by) ==
  /\ nvs' = keys
  /\ cut' = IF schema = "current" /\ keys # nvs /\ cut # "save" THEN by ELSE cut
  /\ acked' = None
  /\ UNCHANGED <<schema, saved>>

(* The schema version changes: what is stored is in force, or nothing is. *)
Settle(version, config) ==
  /\ schema' = version
  /\ saved' = config
  /\ cut' = "no"
  /\ acked' = None
  /\ UNCHANGED nvs

SaveSchemaSoon ==  \* fault: the version goes in after the name of the network
  /\ job.kind = "save"
  /\ job.done = 1
  /\ Settle("current", job.config)
  /\ job' = [job EXCEPT !.done = 4]
  /\ UNCHANGED <<mode, at, cfg, latch, loaded>>

(* write_str_field, once for each field *)
SaveField ==
  /\ job.kind = "save"
  /\ job.done < Len(Fields)
  /\ Changed([nvs EXCEPT ![Fields[job.done + 1]] = job.config[Fields[job.done + 1]]],
             "save")
  /\ job' = [job EXCEPT !.done = @ + 1]
  /\ UNCHANGED <<mode, at, cfg, latch, loaded>>

SaveSchema ==
  /\ job.kind = "save"
  /\ job.done = Len(Fields)
  /\ Settle("current", job.config)
  /\ job' = [job EXCEPT !.done = @ + 1]
  /\ UNCHANGED <<mode, at, cfg, latch, loaded>>

(* What the client of a submission asked for: the fields of its body, over  *)
(* the configuration the device booted with.                               *)
Requested(j) ==
  [f \in FieldNames |-> IF j.body[f] = Absent THEN loaded[f] ELSE j.body[f]]

(* nvs_commit succeeds: 200, and esp_restart. *)
SaveDone ==
  /\ job.kind = "save"
  /\ job.done = Len(Fields) + 1
  /\ acked' = Requested(job)
  /\ Restarted
  /\ UNCHANGED <<storage, saved, cut>>

(* nvs_open, a write or nvs_commit fails: 400 "save", and the form waits. *)
SaveFails ==
  /\ job.kind = "save"
  /\ job' = NoJob
  /\ UNCHANGED <<storage, mode, at, cfg, latch, history>>

(* nvs_erase_all, which takes the keys one by one in an order of its own. *)
EraseField ==
  /\ job = Erase
  /\ \E f \in FieldNames :
       /\ nvs[f] # Empty
       /\ Changed([nvs EXCEPT ![f] = Empty], "reset")
  /\ UNCHANGED <<ram, loaded>>

EraseSchema ==
  /\ job = Erase
  /\ schema # "absent"
  /\ Settle("absent", None)
  /\ UNCHANGED <<ram, loaded>>

EraseDone ==
  /\ job = Erase
  /\ nvs = Defaults
  /\ schema = "absent"
  /\ Restarted
  /\ UNCHANGED <<storage, saved, cut, acked>>

(* nvs_open, nvs_erase_all or nvs_commit fails: the callback returns. *)
EraseFails ==
  /\ job = Erase
  /\ job' = NoJob
  /\ UNCHANGED <<storage, mode, at, cfg, latch, history>>

-----------------------------------------------------------------------------
PowerLoss ==
  /\ mode # "off"
  /\ Restarted
  /\ UNCHANGED <<storage, saved, cut, acked>>

Boot == BootLoads \/ BootLoadFails \/ Decide \/ SoftapStarts \/ StepSucceeds \/ StepFails
Button == BootHold \/ RuntimeHold
Save == SaveField \/ SaveSchema \/ SaveDone \/ SaveFails
Wipe == EraseField \/ EraseSchema \/ EraseDone \/ EraseFails

Next == Boot \/ Button \/ Post \/ Save \/ Wipe \/ PowerLoss

Spec == Init /\ [][Next]_vars

-----------------------------------------------------------------------------
InForce == IF saved = None THEN Defaults ELSE saved

(* config_load returns the configuration saved last, or the defaults if    *)
(* there is none: a first provisioning cut short at any write, by a loss   *)
(* of power or a failing NVS, counts for nothing; and a factory reset cut  *)
(* short leaves nothing but parts of the record it was erasing.  Not so    *)
(* when a record with a current schema version was being written over.     *)
LoadsTheRecord ==
  mode = "loaded" =>
    /\ cut = "no" => loaded = InForce
    /\ cut = "reset" => \A f \in FieldNames : loaded[f] \in {InForce[f], Empty}

(* A client answered with 200 gets what it asked for: the next boot loads   *)
(* the fields of its submission, over the configuration the device had     *)
(* booted with, until a later submission or a reset touches a key.  A      *)
(* submission answered with 400, half written perhaps, leaves no trace in  *)
(* the one that follows it.                                                *)
AckSurvives == acked # None /\ mode = "loaded" => loaded = acked

(* The station is started only with a network, and unless a record in      *)
(* force was being written over, with the one saved last and that one's    *)
(* own password, or none: after a factory reset, and on a chip that was    *)
(* never provisioned or whose first provisioning was cut short, the next   *)
(* boot is a provisioning one; a reset cut short may still start the old   *)
(* network, never with another's password.                                 *)
PairKept ==
  mode = "starting" /\ at = 0 =>
    /\ cfg["ssid"] # Empty
    /\ cut # "save" => /\ saved # None /\ cfg["ssid"] = saved["ssid"]
                       /\ cfg["password"] \in {cfg["ssid"], Empty}
=============================================================================
