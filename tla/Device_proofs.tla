---------------------------- MODULE Device_proofs ----------------------------
(***************************************************************************)
(* What holds of the stored configuration for any submissions: the chip    *)
(* boots with what was saved last, whatever was cut short.                 *)
(***************************************************************************)
EXTENDS Device, TLAPS

LEMMA FieldFacts ==
  /\ Len(Fields) = 3
  /\ Fields[1] = "ssid" /\ Fields[2] = "password" /\ Fields[3] = "name"
  /\ Len(Steps) = 9
  /\ Defaults \in Configs
  BY DEF Fields, Steps, Defaults, Configs

LEMMA NoneIsNone == None \notin Configs
  BY ValuesAssumption DEF Configs, FieldNames

(* Every body the handler accepts merges into a configuration. *)
LEMMA MergedTyped ==
  ASSUME cfg \in Configs, NEW b \in Bodies
  PROVE  Merged(b) \in Configs
  BY DEF Merged, Configs, Bodies

LEMMA RequestedTyped ==
  ASSUME loaded \in Configs, NEW j \in Saves
  PROVE  Requested(j) \in Configs
<1>1. j.body \in Bodies
  BY DEF Saves
<1> QED BY <1>1 DEF Requested, Configs, Bodies

LEMMA JobKinds ==
  ASSUME job \in Jobs
  PROVE  /\ job.kind = "save" => job \in Saves
         /\ job.kind = "save" => job # Erase /\ job # NoJob
         /\ job \in {NoJob, Erase} \/ job.kind = "save"
  BY DEF Jobs, Saves, NoJob, Erase

(* The stored strings, boot's view of them and the work in hand stay typed. *)
THEOREM TypeCorrect == Spec => []TypeOK
<1>1. Init => TypeOK
  <2> SUFFICES ASSUME Init PROVE TypeOK
    OBVIOUS
  <2>1. nvs \in Configs
    BY FieldFacts DEF Init, Configs
  <2>2. schema \in {"absent", "stale", "current"}
    BY DEF Init
  <2>3. job \in Jobs
    BY DEF Init, Jobs
  <2>4. {saved, acked} \subseteq Configs \cup {None}
    BY DEF Init
  <2>5. at \in 0..Len(Steps) /\ at = 0 /\ mode = "off" /\ mode \in Modes
    BY FieldFacts DEF Init, Modes
  <2>6. cfg \in Configs /\ loaded \in Configs
    BY FieldFacts DEF Init
  <2>7. latch \in BOOLEAN /\ cut \in {"no", "reset", "save"}
    BY DEF Init
  <2> QED BY <2>1, <2>2, <2>3, <2>4, <2>5, <2>6, <2>7 DEF TypeOK
<1>2. TypeOK /\ [Next]_vars => TypeOK'
  <2> SUFFICES ASSUME TypeOK, [Next]_vars PROVE TypeOK'
    OBVIOUS
  <2> USE FieldFacts
  <2>1. NoJob \in Jobs /\ Erase \in Jobs
    BY DEF Jobs
  <2>2. ASSUME Restarted, nvs' = nvs, schema' = schema, saved' = saved, cut' = cut,
               acked' \in Configs \cup {None}
        PROVE  TypeOK'
    <3>1. /\ mode' = "off" /\ at' = 0 /\ cfg' = Defaults /\ latch' = FALSE
          /\ job' = NoJob /\ loaded' = Defaults
      BY <2>2 DEF Restarted
    <3>2. nvs' \in Configs /\ cfg' \in Configs /\ loaded' \in Configs /\ job' \in Jobs
      BY <3>1, <2>1, <2>2 DEF TypeOK
    <3>3. {saved', acked'} \subseteq Configs \cup {None}
      BY <2>2 DEF TypeOK
    <3>4. at' \in 0..Len(Steps) /\ ~(mode' = "starting")
      BY <3>1
    <3>5. latch' \in BOOLEAN /\ cut' \in {"no", "reset", "save"}
      BY <3>1, <2>2 DEF TypeOK
    <3>6. mode' \in Modes /\ schema' \in {"absent", "stale", "current"}
      BY <3>1, <2>2 DEF TypeOK, Modes
    <3> QED BY <3>1, <3>2, <3>3, <3>4, <3>5, <3>6 DEF TypeOK
  <2>3. CASE BootLoads
    BY <2>3 DEF BootLoads, storage, TypeOK, Stored, Modes
  <2>4. CASE BootLoadFails
    BY <2>4 DEF BootLoadFails, storage, history, TypeOK, Modes
  <2>5. CASE Decide
    BY <2>5 DEF Decide, storage, history, TypeOK, Modes
  <2>6. CASE SoftapStarts
    BY <2>6 DEF SoftapStarts, storage, history, TypeOK, Modes
  <2>7. CASE StepSucceeds
    BY <2>7 DEF StepSucceeds, storage, history, TypeOK, Modes
  <2>8. CASE StepFails
    BY <2>8 DEF StepFails, Steps, storage, history, TypeOK, Modes
  <2>9. CASE BootHold
    BY <2>9 DEF BootHold, storage, history, TypeOK
  <2>10. CASE RuntimeHold
    BY <2>10, <2>1 DEF RuntimeHold, storage, history, TypeOK
  <2>11. CASE Post
    <3>1. PICK b \in Bodies :
            job' = [kind |-> "save", done |-> 0, config |-> Merged(b), body |-> b]
      BY <2>11 DEF Post
    <3>2. Merged(b) \in Configs
      BY MergedTyped DEF TypeOK
    <3>3. job' \in Jobs
      BY <3>1, <3>2 DEF Jobs, Saves
    <3> QED BY <2>11, <3>3 DEF Post, storage, history, TypeOK
  <2>12. CASE SaveField
    <3>1. job \in Saves
      BY <2>12, JobKinds DEF SaveField, TypeOK
    <3>2. job.done + 1 \in 1..3
      BY <2>12, <3>1 DEF SaveField, Saves
    <3>3. Fields[job.done + 1] \in FieldNames
      BY <3>2 DEF FieldNames
    <3>4. job.config \in Configs
      BY <3>1 DEF Saves
    <3>5. nvs' \in Configs
      BY <2>12, <3>3, <3>4 DEF SaveField, Changed, Configs, TypeOK
    <3>6. job' \in Jobs
      BY <2>12, <3>1, <3>2 DEF SaveField, Saves, Jobs
    <3> QED BY <2>12, <3>5, <3>6 DEF SaveField, Changed, TypeOK
  <2>13. CASE SaveSchema
    <3>1. job \in Saves
      BY <2>13, JobKinds DEF SaveSchema, TypeOK
    <3>2. job' \in Jobs /\ job.config \in Configs
      BY <2>13, <3>1 DEF SaveSchema, Saves, Jobs
    <3> QED BY <2>13, <3>2 DEF SaveSchema, Settle, TypeOK
  <2>14. CASE SaveDone
    <3>1. job \in Saves
      BY <2>14, JobKinds DEF SaveDone, TypeOK
    <3>2. Requested(job) \in Configs
      BY <3>1, RequestedTyped DEF TypeOK
    <3> QED BY <2>14, <2>2, <3>2 DEF SaveDone, storage
  <2>15. CASE SaveFails
    BY <2>15, <2>1 DEF SaveFails, storage, history, TypeOK
  <2>16. CASE EraseField
    <3>1. PICK f \in FieldNames : Changed([nvs EXCEPT ![f] = Empty], "reset")
      BY <2>16 DEF EraseField
    <3>2. nvs' \in Configs
      BY <3>1 DEF Changed, Configs, TypeOK
    <3> QED BY <2>16, <3>1, <3>2 DEF EraseField, Changed, ram, TypeOK
  <2>17. CASE EraseSchema
    BY <2>17 DEF EraseSchema, Settle, ram, TypeOK
  <2>18. CASE EraseDone
    BY <2>18, <2>2 DEF EraseDone, storage, TypeOK
  <2>19. CASE EraseFails
    BY <2>19, <2>1 DEF EraseFails, storage, history, TypeOK
  <2>20. CASE PowerLoss
    BY <2>20, <2>2 DEF PowerLoss, storage, TypeOK
  <2>21. CASE UNCHANGED vars
    BY <2>21 DEF vars, storage, ram, history, TypeOK
  <2> QED
    BY <2>3, <2>4, <2>5, <2>6, <2>7, <2>8, <2>9, <2>10, <2>11, <2>12, <2>13,
       <2>14, <2>15, <2>16, <2>17, <2>18, <2>19, <2>20, <2>21
       DEF Next, Boot, Button, Save, Wipe
<1> QED BY <1>1, <1>2, PTL DEF Spec

-----------------------------------------------------------------------------
(* What is in NVS, told by how far the work on it has come.                *)
Pair(c) == c["ssid"] # Empty => c["password"] \in {c["ssid"], Empty}

Written(j) ==
  /\ j.done >= 1 => nvs["ssid"] = j.config["ssid"]
  /\ j.done >= 2 => nvs["password"] = j.config["password"]
  /\ j.done >= 3 => nvs["name"] = j.config["name"]
  /\ j.done = 4 => schema = "current"

(* A current schema version vouches for the strings, unless they are being *)
(* changed under it; a reset changes them only to nothing.                 *)
StorageInv ==
  /\ schema = "current" => saved # None
  /\ schema = "current" /\ cut = "no" => nvs = saved
  /\ schema = "current" /\ cut # "save" => \A f \in FieldNames : nvs[f] \in {saved[f], Empty}
  /\ schema # "current" => saved = None /\ cut = "no"
  /\ acked # None => schema = "current" /\ nvs = acked
  /\ saved # None => Pair(saved)

(* Nothing touches NVS between config_load and the branch it decides.      *)
BootInv ==
  /\ cfg = loaded
  /\ mode \in {"off", "loaded"} => ~latch
  /\ mode \in {"off", "loaded", "softap_start"} => job = NoJob
  /\ mode = "starting" /\ at < 3 => job = NoJob
  /\ mode = "loaded" => loaded = Stored
  /\ mode = "starting" /\ at = 0 => cfg = Stored /\ cfg["ssid"] # Empty

(* What is being saved is what the client asked for. *)
PartialUpdate == job.kind = "save" => job.config = Requested(job)

JobInv ==
  job.kind = "save" =>
    /\ mode = "provisioning"
    /\ Written(job)
    /\ Pair(job.config)
    /\ PartialUpdate

RecordInv == StorageInv /\ BootInv /\ JobInv

LEMMA InitRecord == Init => RecordInv
  BY DEF Init, RecordInv, StorageInv, BootInv, JobInv, NoJob

LEMMA SamePosts ==
  ASSUME NEW c \in Configs, NEW d \in Configs,
         c["ssid"] = d["ssid"], c["password"] = d["password"], c["name"] = d["name"]
  PROVE  c = d
  BY DEF Configs, FieldNames

LEMMA MergedPair ==
  ASSUME cfg \in Configs, NEW b \in Bodies
  PROVE  Pair(Merged(b))
<1>1. PICK p \in Posts : \A f \in FieldNames : b[f] \in {p, Empty, Absent}
  BY DEF Bodies
<1>2. b["ssid"] \in {p, Empty} /\ b["password"] \in {p, Empty}
  BY <1>1 DEF Bodies, FieldNames
<1>3. Merged(b)["ssid"] = b["ssid"] /\ Merged(b)["password"] = b["password"]
  BY <1>2, ValuesAssumption DEF Merged, FieldNames
<1> QED BY <1>2, <1>3 DEF Pair

(* The chip restarts with the storage as it is. *)
LEMMA RestartRecord ==
  ASSUME RecordInv, Restarted, nvs' = nvs, schema' = schema, saved' = saved,
         cut' = cut, acked' # None => schema = "current" /\ nvs = acked'
  PROVE  RecordInv'
<1>1. StorageInv'
  BY DEF RecordInv, StorageInv, Pair
<1>2. BootInv'
  BY DEF Restarted, BootInv
<1>3. JobInv'
  BY DEF Restarted, JobInv, NoJob
<1> QED BY <1>1, <1>2, <1>3 DEF RecordInv

(* boot_run moves on, the storage and the work on it stay as they are. *)
LEMMA BootRecord ==
  ASSUME TypeOK, RecordInv, Boot \/ Button
  PROVE  RecordInv'
<1> USE FieldFacts
<1>1. nvs' = nvs /\ schema' = schema /\ saved' = saved /\ cut' = cut /\ acked' = acked
  BY DEF Boot, Button, BootLoads, BootLoadFails, Decide, SoftapStarts,
         StepSucceeds, StepFails, BootHold, RuntimeHold, storage, history
<1>2. StorageInv'
  BY <1>1 DEF RecordInv, StorageInv, Pair
<1>3. CASE BootLoads
  BY <1>1, <1>2, <1>3 DEF BootLoads, RecordInv, BootInv, JobInv, Stored, NoJob
<1>4. CASE BootLoadFails
  BY <1>1, <1>2, <1>4 DEF BootLoadFails, RecordInv, BootInv, JobInv, NoJob, history
<1>5. CASE Decide
  <2>1. ~latch /\ job = NoJob /\ cfg = Stored /\ cfg = loaded
    BY <1>5 DEF Decide, RecordInv, BootInv
  <2>2. mode' = "starting" => cfg["ssid"] # Empty
    BY <1>5, <2>1 DEF Decide, Provisioning
  <2>3. UNCHANGED <<cfg, loaded, latch, job>> /\ mode' \in {"starting", "softap_start"}
    BY <1>5 DEF Decide, history
  <2>4. BootInv'
    BY <1>1, <2>1, <2>2, <2>3 DEF BootInv, Stored
  <2>5. JobInv'
    BY <2>1, <2>3 DEF JobInv, NoJob
  <2> QED BY <1>2, <2>4, <2>5 DEF RecordInv
<1>6. CASE SoftapStarts
  BY <1>1, <1>2, <1>6 DEF SoftapStarts, RecordInv, BootInv, JobInv, NoJob, history
<1>7. CASE StepSucceeds \/ StepFails
  <2>1. /\ mode = "starting" /\ job.kind # "save"
        /\ UNCHANGED <<cfg, loaded, latch, job>>
        /\ \/ at' = at + 1 /\ mode' \in {"starting", "normal"}
           \/ at' = at /\ mode' = "halted"
    BY <1>7 DEF StepSucceeds, StepFails, history, RecordInv, JobInv
  <2>2. at \in Nat
    BY DEF TypeOK
  <2>3. BootInv'
    BY <2>1, <2>2 DEF RecordInv, BootInv
  <2>4. JobInv'
    BY <2>1 DEF JobInv
  <2> QED BY <1>2, <2>3, <2>4 DEF RecordInv
<1>8. CASE Button
  <2>1. /\ mode \in {"starting", "normal", "halted"} /\ at >= 3
        /\ UNCHANGED <<cfg, loaded, mode, at>>
        /\ job' \in {job, Erase}
    BY <1>8 DEF Button, BootHold, RuntimeHold, ButtonLives, history
  <2>2. job.kind # "save" /\ at \in Nat
    BY <2>1 DEF RecordInv, JobInv, TypeOK
  <2>3. BootInv'
    BY <2>1, <2>2 DEF RecordInv, BootInv
  <2>4. JobInv'
    BY <2>1, <2>2 DEF JobInv, Erase
  <2> QED BY <1>2, <2>3, <2>4 DEF RecordInv
<1> QED BY <1>3, <1>4, <1>5, <1>6, <1>7, <1>8 DEF Boot

LEMMA SaveRecord ==
  ASSUME TypeOK, RecordInv, Post \/ Save
  PROVE  RecordInv'
<1> USE FieldFacts
<1>1. CASE Post
  <2>1. PICK b \in Bodies :
          job' = [kind |-> "save", done |-> 0, config |-> Merged(b), body |-> b]
    BY <1>1 DEF Post
  <2>2. /\ mode = "provisioning"
        /\ UNCHANGED <<nvs, schema, mode, at, cfg, latch, loaded, saved, cut, acked>>
    BY <1>1 DEF Post, storage, history
  <2>3. StorageInv' /\ BootInv'
    BY <2>2 DEF RecordInv, StorageInv, BootInv, Pair, Stored
  <2>4. cfg = loaded /\ cfg \in Configs
    BY DEF RecordInv, BootInv, TypeOK
  <2>5. Pair(job'.config)
    BY <2>1, <2>4, MergedPair
  <2>6. PartialUpdate'
    BY <2>1, <2>2, <2>4 DEF PartialUpdate, Merged, Requested
  <2>7. Written(job)'
    BY <2>1 DEF Written
  <2>8. JobInv'
    BY <2>2, <2>5, <2>6, <2>7 DEF JobInv, Pair
  <2> QED BY <2>3, <2>8 DEF RecordInv
<1>2. ASSUME job.kind = "save"
      PROVE  /\ job \in Saves /\ mode = "provisioning" /\ Written(job)
             /\ Pair(job.config) /\ PartialUpdate /\ job.config \in Configs
             /\ job.done \in 0..4
  BY <1>2, JobKinds DEF RecordInv, JobInv, TypeOK, Saves
<1>3. CASE SaveField
  <2>1. job.kind = "save" /\ job.done < 3
    BY <1>3 DEF SaveField
  <2> DEFINE key == Fields[job.done + 1]
  <2>2. /\ nvs' = [nvs EXCEPT ![key] = job.config[key]]
        /\ cut' = IF schema = "current" /\ nvs' # nvs /\ cut # "save" THEN "save" ELSE cut
        /\ acked' = None
        /\ UNCHANGED <<schema, saved, mode, at, cfg, latch, loaded>>
        /\ job' = [job EXCEPT !.done = @ + 1]
    BY <1>3 DEF SaveField, Changed
  <2>3. job.done \in {0, 1, 2}
    BY <2>1, <1>2
  <2>4. nvs \in Configs
    BY DEF TypeOK
  <2>5. StorageInv'
    BY <2>2 DEF RecordInv, StorageInv, Pair
  <2>6. BootInv'
    BY <2>1, <2>2, <1>2 DEF RecordInv, BootInv
  <2>7. /\ job'.done = job.done + 1
        /\ job'.config = job.config /\ job'.body = job.body /\ job'.kind = "save"
    BY <2>1, <2>2, <1>2 DEF Saves
  <2>8. Written(job)'
    <3>1. CASE job.done = 0
      BY <3>1, <2>1, <2>2, <2>4, <2>7, <1>2 DEF Written, Configs, FieldNames
    <3>2. CASE job.done = 1
      BY <3>2, <2>1, <2>2, <2>4, <2>7, <1>2 DEF Written, Configs, FieldNames
    <3>3. CASE job.done = 2
      BY <3>3, <2>1, <2>2, <2>4, <2>7, <1>2 DEF Written, Configs, FieldNames
    <3> QED BY <2>3, <3>1, <3>2, <3>3
  <2>9. PartialUpdate'
    BY <2>1, <2>2, <2>7, <1>2 DEF PartialUpdate, Requested
  <2>10. JobInv'
    BY <2>1, <2>2, <2>7, <2>8, <2>9, <1>2 DEF JobInv, Pair
  <2> QED BY <2>5, <2>6, <2>10 DEF RecordInv
<1>4. CASE SaveSchema
  <2>1. job.kind = "save" /\ job.done = 3
    BY <1>4 DEF SaveSchema
  <2>2. /\ schema' = "current" /\ saved' = job.config /\ cut' = "no" /\ acked' = None
        /\ job' = [job EXCEPT !.done = @ + 1]
        /\ UNCHANGED <<nvs, mode, at, cfg, latch, loaded>>
    BY <1>4 DEF SaveSchema, Settle
  <2>3. nvs = job.config
    BY <2>1, <1>2, SamePosts DEF Written, TypeOK
  <2>4. job.config # None
    BY <2>1, <1>2, NoneIsNone
  <2>5. StorageInv'
    BY <2>1, <2>2, <2>3, <2>4, <1>2 DEF StorageInv, Pair
  <2>6. BootInv'
    BY <2>1, <2>2, <1>2 DEF RecordInv, BootInv
  <2>7. /\ job'.done = 4
        /\ job'.config = job.config /\ job'.body = job.body /\ job'.kind = "save"
    BY <2>1, <2>2, <1>2 DEF Saves
  <2>8. Written(job)'
    BY <2>2, <2>3, <2>7 DEF Written
  <2>9. PartialUpdate'
    BY <2>1, <2>2, <2>7, <1>2 DEF PartialUpdate, Requested
  <2>10. JobInv'
    BY <2>1, <2>2, <2>7, <2>8, <2>9, <1>2 DEF JobInv, Pair
  <2> QED BY <2>5, <2>6, <2>10 DEF RecordInv
<1>5. CASE SaveDone
  <2>1. job.kind = "save" /\ job.done = 4
    BY <1>5 DEF SaveDone
  <2>2. nvs = job.config /\ schema = "current" /\ job.config = Requested(job)
    BY <2>1, <1>2, SamePosts DEF Written, TypeOK, PartialUpdate
  <2>3. /\ nvs' = nvs /\ schema' = schema /\ saved' = saved /\ cut' = cut
        /\ acked' = Requested(job) /\ Restarted
    BY <1>5 DEF SaveDone, storage
  <2> QED BY <2>2, <2>3, RestartRecord
<1>6. CASE SaveFails
  <2>1. /\ mode = "provisioning" /\ job' = NoJob
        /\ UNCHANGED <<nvs, schema, mode, at, cfg, latch, loaded, saved, cut, acked>>
    BY <1>6, <1>2 DEF SaveFails, storage, history
  <2>2. StorageInv' /\ BootInv'
    BY <2>1 DEF RecordInv, StorageInv, BootInv, Pair, Stored
  <2>3. JobInv'
    BY <2>1 DEF JobInv, NoJob
  <2> QED BY <2>2, <2>3 DEF RecordInv
<1> QED BY <1>1, <1>3, <1>4, <1>5, <1>6 DEF Save

LEMMA WipeRecord ==
  ASSUME TypeOK, RecordInv, Wipe
  PROVE  RecordInv'
<1>1. job = Erase /\ job.kind # "save" /\ job # NoJob
  BY DEF Wipe, EraseField, EraseSchema, EraseDone, EraseFails, Erase, NoJob
<1>2. /\ mode \notin {"off", "loaded", "softap_start"}
      /\ ~(mode = "starting" /\ at < 3)
  BY <1>1 DEF RecordInv, BootInv
<1>3. at \in Nat
  BY DEF TypeOK
<1>4. CASE EraseField
  <2>1. PICK f \in FieldNames :
          /\ nvs' = [nvs EXCEPT ![f] = Empty]
          /\ cut' = IF schema = "current" /\ nvs' # nvs /\ cut # "save" THEN "reset" ELSE cut
          /\ acked' = None
          /\ UNCHANGED <<schema, saved, mode, at, cfg, latch, job, loaded>>
    BY <1>4 DEF EraseField, Changed, ram
  <2>2. StorageInv'
    BY <2>1 DEF RecordInv, StorageInv, Pair
  <2>3. BootInv' /\ JobInv'
    BY <2>1, <1>1, <1>2, <1>3 DEF RecordInv, BootInv, JobInv
  <2> QED BY <2>2, <2>3 DEF RecordInv
<1>5. CASE EraseSchema
  <2>1. /\ schema' = "absent" /\ saved' = None /\ cut' = "no" /\ acked' = None
        /\ UNCHANGED <<nvs, mode, at, cfg, latch, job, loaded>>
    BY <1>5 DEF EraseSchema, Settle, ram
  <2>2. StorageInv'
    BY <2>1 DEF StorageInv
  <2>3. BootInv' /\ JobInv'
    BY <2>1, <1>1, <1>2, <1>3 DEF RecordInv, BootInv, JobInv
  <2> QED BY <2>2, <2>3 DEF RecordInv
<1>6. CASE EraseDone
  <2>1. /\ UNCHANGED <<nvs, schema, saved, cut, acked>> /\ Restarted
    BY <1>6 DEF EraseDone, storage
  <2> QED BY <2>1, RestartRecord DEF RecordInv, StorageInv
<1>7. CASE EraseFails
  <2>1. /\ job' = NoJob
        /\ UNCHANGED <<nvs, schema, mode, at, cfg, latch, loaded, saved, cut, acked>>
    BY <1>7 DEF EraseFails, storage, history
  <2>2. StorageInv' /\ BootInv'
    BY <2>1 DEF RecordInv, StorageInv, BootInv, Pair, Stored
  <2>3. JobInv'
    BY <2>1 DEF JobInv, NoJob
  <2> QED BY <2>2, <2>3 DEF RecordInv
<1> QED BY <1>4, <1>5, <1>6, <1>7 DEF Wipe

LEMMA NextRecord == TypeOK /\ RecordInv /\ [Next]_vars => RecordInv'
<1> SUFFICES ASSUME TypeOK, RecordInv, [Next]_vars PROVE RecordInv'
  OBVIOUS
<1>1. CASE PowerLoss
  <2>1. UNCHANGED <<nvs, schema, saved, cut, acked>> /\ Restarted
    BY <1>1 DEF PowerLoss, storage
  <2> QED BY <2>1, RestartRecord DEF RecordInv, StorageInv
<1>2. CASE UNCHANGED vars
  <2>1. UNCHANGED <<nvs, schema, mode, at, cfg, latch, job, loaded, saved, cut, acked>>
    BY <1>2 DEF vars, storage, ram, history
  <2> QED
    BY <2>1 DEF RecordInv, StorageInv, BootInv, JobInv, Pair, Stored, Written, PartialUpdate, Requested
<1> QED BY <1>1, <1>2, BootRecord, SaveRecord, WipeRecord DEF Next

THEOREM RecordCorrect == Spec => []RecordInv
<1>1. Init => RecordInv
  BY InitRecord
<1>2. TypeOK /\ RecordInv /\ [Next]_vars => RecordInv'
  BY NextRecord
<1> QED BY <1>1, <1>2, TypeCorrect, PTL DEF Spec

(* The chip boots with the configuration saved last, or unprovisioned: a   *)
(* first config_save counts for nothing until it is complete, config.c:169. *)
THEOREM LoadCorrect == Spec => []LoadsTheRecord
<1>1. RecordInv => LoadsTheRecord
  BY DEF RecordInv, StorageInv, BootInv, LoadsTheRecord, InForce, Stored
<1> QED BY <1>1, RecordCorrect, PTL

(* A client answered with 200 gets what it asked for, whatever was refused *)
(* before, softap_handlers.c:409-420.                                      *)
THEOREM AckCorrect == Spec => []AckSurvives
<1>1. RecordInv => AckSurvives
  BY DEF RecordInv, StorageInv, BootInv, AckSurvives, Stored
<1> QED BY <1>1, RecordCorrect, PTL

(* The station starts only with the network saved last and with its own    *)
(* password or none, outside the window in which a record in force is      *)
(* being written over; a chip that was reset, or never provisioned, boots  *)
(* into provisioning.                                                      *)
THEOREM PairCorrect == Spec => []PairKept
<1>1. RecordInv => PairKept
  BY DEF RecordInv, StorageInv, BootInv, PairKept, Stored, Pair, Defaults, FieldNames
<1> QED BY <1>1, RecordCorrect, PTL
=============================================================================
