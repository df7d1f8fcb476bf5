--------------------------- MODULE PlatformProofs ---------------------------
(***************************************************************************)
(* Proofs about the services of the backend, for any requests, addresses,  *)
(* rows and bounds.  Each component has an inductive invariant that its    *)
(* own steps preserve; in MCPlatform a component either takes a step of    *)
(* its own or stands still, and the theorems are about that specification. *)
(***************************************************************************)
EXTENDS MCPlatform, FiniteSetTheorems, SequenceTheorems, TLAPS

-----------------------------------------------------------------------------
(* The firewall: a blocked address without a rule is one whose rule a       *)
(* handler is about to set, or whose row a handler is about to delete.      *)
FirewallInv ==
  /\ rules \in [Modes -> Nat]
  /\ fwPc \in [FwRequests -> {"idle", "count", "block", "insert", "enforce",
                              "blocked", "unblock", "delete"}]
  /\ fwConfig \in [FwRequests -> [mode : Modes, log : BOOLEAN]]
  /\ fwMode \in Modes
  /\ ipRow = "blocked" /\ ~enforceFailed =>
       \/ \E m \in Modes : rules[m] > 0
       \/ \E r \in FwRequests : fwPc[r] \in {"enforce", "delete"}

(* A step of another component leaves the firewall alone.                   *)
LEMMA FirewallSteps ==
  ASSUME [PlatformNext]_platformVars
  PROVE  [FirewallNext]_fwVars
BY DEF PlatformNext, Only, platformVars

(* Every step of firewall.service.ts preserves the invariant.               *)
LEMMA FirewallStep ==
  ASSUME FirewallInv, [FirewallNext]_fwVars
  PROVE  FirewallInv'
<1>1. CASE UNCHANGED fwVars
  BY <1>1 DEF FirewallInv, fwVars
<1>2. ASSUME NEW r \in FwRequests,
             processLogEvent(r) \/ CountAttempt(r) \/ manualBlock(r) \/ blockIp(r) \/ Blocked(r)
      PROVE  FirewallInv'
  <2>1. rules' = rules /\ ipRow' = ipRow /\ enforceFailed' = enforceFailed /\ fwMode' = fwMode
    BY <1>2 DEF processLogEvent, CountAttempt, manualBlock, blockIp, Blocked
  <2>2. fwConfig' \in [FwRequests -> [mode : Modes, log : BOOLEAN]]
    <3>1. \/ fwConfig' = fwConfig
          \/ fwConfig' = [fwConfig EXCEPT ![r] = FwReturned]
          \/ \E l \in BOOLEAN : fwConfig' = [fwConfig EXCEPT ![r] = [mode |-> fwMode, log |-> l]]
      BY <1>2 DEF processLogEvent, CountAttempt, manualBlock, blockIp, Blocked, FwReturns
    <3>2. FwReturned \in [mode : Modes, log : BOOLEAN]
      BY DEF FwReturned, Modes
    <3>3. \A l \in BOOLEAN : [mode |-> fwMode, log |-> l] \in [mode : Modes, log : BOOLEAN]
      BY DEF FirewallInv
    <3> QED BY <3>1, <3>2, <3>3 DEF FirewallInv
  <2>3. PICK to \in {"idle", "count", "block", "insert", "blocked"} :
          fwPc[r] \notin {"enforce", "delete"} /\ fwPc' = [fwPc EXCEPT ![r] = to]
    BY <1>2 DEF processLogEvent, CountAttempt, manualBlock, blockIp, Blocked, FwStep
  <2> QED BY <2>1, <2>2, <2>3 DEF FirewallInv
<1>3. ASSUME NEW r \in FwRequests, InsertBlock(r)
      PROVE  FirewallInv'
  BY <1>3 DEF FirewallInv, InsertBlock, FwStep
<1>4. ASSUME NEW r \in FwRequests, applyEnforcement(r)
      PROVE  FirewallInv'
  <2>1. CASE fwPc' = [fwPc EXCEPT ![r] = "idle"] /\ enforceFailed' = TRUE
    <3>1. FwReturned \in [mode : Modes, log : BOOLEAN]
      BY DEF FwReturned, Modes
    <3>2. fwConfig' \in [FwRequests -> [mode : Modes, log : BOOLEAN]]
      BY <1>4, <3>1 DEF FirewallInv, applyEnforcement, FwStep, FwReturns
    <3>3. rules' \in [Modes -> Nat] /\ fwMode' = fwMode
      BY <1>4, <2>1 DEF FirewallInv, applyEnforcement, FwStep
    <3>4. enforceFailed'
      BY <2>1
    <3> QED BY <2>1, <3>2, <3>3, <3>4 DEF FirewallInv
  <2>2. CASE fwPc' = [fwPc EXCEPT ![r] = "blocked"]
    <3> DEFINE m == fwConfig[r].mode
    <3>1. m \in Modes
      BY DEF FirewallInv
    <3>2. /\ rules' = [rules EXCEPT ![m] = IF m = "fail2ban" THEN 1 ELSE @ + 1]
          /\ fwConfig' = fwConfig /\ fwMode' = fwMode
      BY <1>4, <2>2 DEF applyEnforcement, FwStep, FirewallInv
    <3>3. rules' \in [Modes -> Nat] /\ rules'[m] > 0
      BY <3>1, <3>2 DEF FirewallInv
    <3> QED BY <2>2, <3>1, <3>2, <3>3 DEF FirewallInv
  <2> QED BY <1>4, <2>1, <2>2 DEF applyEnforcement, FwStep
<1>5. ASSUME NEW r \in FwRequests, unblock(r)
      PROVE  FirewallInv'
  BY <1>5 DEF FirewallInv, unblock, removeEnforcement, DeleteRow, FwStep, Modes
<1>6. CASE addWhitelist \/ removeWhitelist \/ BlockExpires \/ updateFirewallConfig
  BY <1>6 DEF FirewallInv, addWhitelist, removeWhitelist, BlockExpires, updateFirewallConfig
<1> QED BY <1>1, <1>2, <1>3, <1>4, <1>5, <1>6 DEF FirewallNext

(* An address firewall.service.ts lists as blocked is dropped by the host   *)
(* once no handler is under way, unless setting the rule failed.            *)
THEOREM BlockedIsEnforcedHolds == PlatformSpec => []BlockedIsEnforced
<1>1. PlatformInit => FirewallInv
  BY DEF PlatformInit, FirewallInit, FirewallInv, Modes, FwReturned
<1>2. FirewallInv /\ [PlatformNext]_platformVars => FirewallInv'
  BY FirewallSteps, FirewallStep
<1>3. FirewallInv => BlockedIsEnforced
  BY DEF FirewallInv, BlockedIsEnforced
<1> QED BY <1>1, <1>2, <1>3, PTL DEF PlatformSpec

-----------------------------------------------------------------------------
(* Recordings: a name is used once, so a file that was unlinked does not    *)
(* come back; a deletion that has come to its row has unlinked the file.    *)
Deletion == [id : 1..recIds, file : RecFiles, step : {"unlink", "row"}]

RecTypes ==
  /\ recIds \in 0..MaxRecRows
  /\ rowFile \in [RecIds -> RecFiles \cup {NoRec}]
  /\ recRows \subseteq 1..recIds /\ expired \subseteq 1..recIds
  /\ begun \subseteq RecFiles /\ disk \subseteq begun
  /\ sessionRec \in begun \cup {NoRec}
  /\ saver \in [{"node", "end"} -> begun \cup {NoRec, "over"}]
  /\ vmPc \in {"start", "recording", "save", "done"}
  /\ vmPc = "start" => VoiceFile \notin begun
  /\ vmPc # "start" => VoiceFile \in begun
  /\ \A i \in 1..recIds : rowFile[i] \in begun

DeletionsTrue ==
  /\ deleting \in [Deleters -> {Idle} \cup Deletion]
  /\ \A d \in Deleters : deleting[d] # Idle => deleting[d].file = rowFile[deleting[d].id]
  /\ \A d \in Deleters : deleting[d].step = "row" => deleting[d].file \notin disk

RecInv == RecTypes /\ DeletionsTrue /\ DeletedRowsFreeFiles

(* A step of another component leaves the recordings alone.                 *)
LEMMA RecSteps ==
  ASSUME [PlatformNext]_platformVars
  PROVE  [RecNext]_recVars
BY DEF PlatformNext, Only, platformVars

(* A row inserted for a recording that was begun keeps the invariant.       *)
LEMMA InsertRecordingStep ==
  ASSUME RecInv, NEW f \in begun, InsertRecording(f),
         UNCHANGED <<begun, disk, deleting, expired>>
  PROVE  /\ recIds' \in 0..MaxRecRows
         /\ rowFile' \in [RecIds -> RecFiles \cup {NoRec}]
         /\ recRows' \subseteq 1..recIds' /\ expired' \subseteq 1..recIds'
         /\ \A i \in 1..recIds' : rowFile'[i] \in begun
         /\ DeletionsTrue' /\ DeletedRowsFreeFiles'
<1>1. /\ recIds \in Nat /\ recIds' = recIds + 1 /\ recIds + 1 \in RecIds
      /\ 1..recIds' = 1..recIds \cup {recIds + 1}
  BY RecordingAssumption DEF RecInv, RecTypes, InsertRecording, RecIds
<1>2. /\ rowFile' = [rowFile EXCEPT ![recIds + 1] = f]
      /\ recRows' = recRows \cup {recIds + 1}
  BY DEF InsertRecording
<1>3. rowFile'[recIds + 1] = f /\ \A i \in 1..recIds : rowFile'[i] = rowFile[i]
  BY <1>1, <1>2, RecordingAssumption DEF RecInv, RecTypes, RecIds
<1>4. recIds' \in 0..MaxRecRows /\ rowFile' \in [RecIds -> RecFiles \cup {NoRec}]
  BY <1>1, <1>2, RecordingAssumption DEF RecInv, RecTypes, RecIds
<1>5. /\ recRows' \subseteq 1..recIds' /\ expired' \subseteq 1..recIds'
      /\ \A i \in 1..recIds' : rowFile'[i] \in begun
  BY <1>1, <1>2, <1>3 DEF RecInv, RecTypes
<1>6. \A d \in Deleters : deleting[d] # Idle => deleting[d].id \in 1..recIds
  BY DEF RecInv, DeletionsTrue, Deletion
<1>7. Deletion \subseteq Deletion'
  BY <1>1 DEF Deletion
<1>8. DeletionsTrue'
  BY <1>3, <1>6, <1>7 DEF RecInv, DeletionsTrue
<1>9. DeletedRowsFreeFiles'
  BY <1>1, <1>2, <1>3 DEF RecInv, DeletedRowsFreeFiles, RecListed
<1> QED BY <1>4, <1>5, <1>8, <1>9

(* The steps of Stasis preserve the invariant of the recordings.            *)
LEMMA RecStasisStep ==
  ASSUME RecInv, RecStasis
  PROVE  RecInv'
<1>1. ASSUME NEW f \in CallFiles, beginNodeRecording(f)
      PROVE  RecInv'
  <2>1. /\ begun' = begun \cup {f} /\ disk' = disk \cup {f} /\ sessionRec' = f
        /\ f \notin begun /\ f \in RecFiles /\ f # VoiceFile
        /\ UNCHANGED <<saver, vmPc, rowFile, recRows, recIds, deleting, expired>>
    BY <1>1, RecordingAssumption DEF beginNodeRecording, RecFiles
  <2>2. RecTypes'
    BY <2>1 DEF RecInv, RecTypes
  <2>3. DeletionsTrue'
    BY <2>1 DEF RecInv, RecTypes, DeletionsTrue, Deletion, Deleters, Idle
  <2>4. DeletedRowsFreeFiles'
    BY <2>1 DEF RecInv, RecTypes, DeletedRowsFreeFiles, RecListed
  <2> QED BY <2>2, <2>3, <2>4 DEF RecInv
<1>2. ASSUME NEW s \in {"node", "end"}, persistSessionRecording(s)
      PROVE  RecInv'
  BY <1>2 DEF RecInv, RecTypes, DeletionsTrue, Deletion, DeletedRowsFreeFiles, RecListed,
              persistSessionRecording
<1>3. ASSUME NEW s \in {"node", "end"}, createInternal(s)
      PROVE  RecInv'
  <2>1. /\ UNCHANGED <<begun, disk, deleting, expired, vmPc>>
        /\ sessionRec' \in begun \cup {NoRec}
        /\ saver' \in [{"node", "end"} -> begun \cup {NoRec, "over"}]
        /\ saver[s] \in begun
    BY <1>3, RecordingAssumption DEF createInternal, RecInv, RecTypes
  <2>2. CASE InsertRecording(saver[s])
    BY <2>1, <2>2, InsertRecordingStep DEF RecInv, RecTypes
  <2>3. CASE UNCHANGED <<rowFile, recRows, recIds>>
    BY <2>1, <2>3 DEF RecInv, RecTypes, DeletionsTrue, Deletion, DeletedRowsFreeFiles, RecListed
  <2> QED BY <1>3, <2>2, <2>3 DEF createInternal
<1>4. CASE RecStasisEnd
  BY <1>4 DEF RecInv, RecTypes, DeletionsTrue, Deletion, DeletedRowsFreeFiles, RecListed, RecStasisEnd
<1>5. CASE RecordVoicemail
  <2>1. /\ begun' = begun \cup {VoiceFile} /\ disk' = disk \cup {VoiceFile}
        /\ vmPc' = "recording" /\ VoiceFile \notin begun /\ VoiceFile \in RecFiles
        /\ UNCHANGED <<sessionRec, saver, rowFile, recRows, recIds, deleting, expired>>
    BY <1>5 DEF RecordVoicemail, RecInv, RecTypes, RecFiles
  <2>2. RecTypes'
    BY <2>1 DEF RecInv, RecTypes
  <2>3. DeletionsTrue'
    BY <2>1 DEF RecInv, RecTypes, DeletionsTrue, Deletion, Deleters, Idle
  <2>4. DeletedRowsFreeFiles'
    BY <2>1 DEF RecInv, RecTypes, DeletedRowsFreeFiles, RecListed
  <2> QED BY <2>2, <2>3, <2>4 DEF RecInv
<1>6. CASE VoicemailFinished
  BY <1>6 DEF RecInv, RecTypes, DeletionsTrue, Deletion, DeletedRowsFreeFiles, RecListed,
              VoicemailFinished
<1>7. CASE persistVoicemailRecording
  <2>1. /\ UNCHANGED <<begun, disk, deleting, expired, saver, sessionRec>>
        /\ vmPc' = "done" /\ VoiceFile \in begun
    BY <1>7 DEF persistVoicemailRecording, RecInv, RecTypes
  <2>2. CASE InsertRecording(VoiceFile)
    BY <2>1, <2>2, InsertRecordingStep DEF RecInv, RecTypes
  <2>3. CASE UNCHANGED <<rowFile, recRows, recIds>>
    BY <2>1, <2>3 DEF RecInv, RecTypes, DeletionsTrue, Deletion, DeletedRowsFreeFiles, RecListed
  <2> QED BY <1>7, <2>2, <2>3 DEF persistVoicemailRecording
<1> QED BY <1>1, <1>2, <1>3, <1>4, <1>5, <1>6, <1>7 DEF RecStasis

(* Deletions, by a user or by the retention job, preserve it.               *)
LEMMA RecBackendStep ==
  ASSUME RecInv, RecBackend
  PROVE  RecInv'
<1>1. ASSUME NEW d \in Deleters, NEW i \in 1..recIds,
             deleting' = [deleting EXCEPT ![d] = [id |-> i, file |-> rowFile[i], step |-> "unlink"]],
             expired' \subseteq expired,
             UNCHANGED <<sessionRec, disk, saver, vmPc, begun, rowFile, recRows, recIds>>
      PROVE  RecInv'
  <2>1. rowFile[i] \in RecFiles
    BY DEF RecInv, RecTypes
  <2>2. RecTypes' /\ DeletedRowsFreeFiles'
    BY <1>1 DEF RecInv, RecTypes, DeletedRowsFreeFiles, RecListed
  <2>3. [id |-> i, file |-> rowFile[i], step |-> "unlink"] \in Deletion
    BY <2>1 DEF Deletion
  <2>4. deleting' \in [Deleters -> {Idle} \cup Deletion] /\ Deletion' = Deletion
    BY <1>1, <2>3 DEF RecInv, DeletionsTrue, Deletion
  <2>5. DeletionsTrue'
    BY <1>1, <2>4 DEF RecInv, DeletionsTrue
  <2> QED BY <2>2, <2>5 DEF RecInv
<1>2. ASSUME NEW i \in RecIds, removeRequested(i) \/ PruneNext(i)
      PROVE  RecInv'
  <2>1. i \in 1..recIds
    BY <1>2 DEF RecInv, RecTypes, removeRequested, PruneNext, RecListed
  <2> QED BY <1>1, <1>2, <2>1 DEF removeRequested, PruneNext, Deleters
<1>3. ASSUME NEW d \in Deleters, deleteRecordingFile(d)
      PROVE  RecInv'
  <2>1. /\ UNCHANGED <<sessionRec, saver, vmPc, begun, rowFile, recRows, recIds, expired>>
        /\ disk' \subseteq disk /\ deleting[d] \in Deletion
    BY <1>3 DEF deleteRecordingFile, RecInv, DeletionsTrue, Idle
  <2>2. RecTypes' /\ DeletedRowsFreeFiles'
    BY <2>1 DEF RecInv, RecTypes, DeletedRowsFreeFiles, RecListed
  <2>3. CASE deleting' = [deleting EXCEPT ![d] = Idle]
    BY <2>1, <2>2, <2>3 DEF RecInv, DeletionsTrue, Deletion, Idle
  <2>4. CASE /\ disk' = disk \ {deleting[d].file}
             /\ deleting' = [deleting EXCEPT ![d].step = "row"]
    <3> DEFINE e == [deleting[d] EXCEPT !.step = "row"]
    <3>1. e \in Deletion /\ e.file = deleting[d].file /\ e.id = deleting[d].id
      BY <2>1 DEF Deletion
    <3>2. deleting' = [deleting EXCEPT ![d] = e]
      BY <2>4
    <3> HIDE DEF e
    <3>3. deleting[d] # Idle
      BY <1>3 DEF deleteRecordingFile, Idle
    <3>4. e.file = rowFile[e.id] /\ e.file \notin disk'
      BY <2>4, <3>1, <3>3 DEF RecInv, DeletionsTrue
    <3>5. deleting' \in [Deleters -> {Idle} \cup Deletion] /\ Deletion' = Deletion
      BY <2>1, <3>1, <3>2 DEF RecInv, DeletionsTrue, Deletion
    <3> QED BY <2>1, <2>2, <3>2, <3>4, <3>5 DEF RecInv, DeletionsTrue
  <2> QED BY <1>3, <2>2, <2>3, <2>4 DEF deleteRecordingFile, RecInv
<1>4. ASSUME NEW d \in Deleters, deleteRow(d)
      PROVE  RecInv'
  <2>1. /\ UNCHANGED <<sessionRec, disk, saver, vmPc, begun, rowFile, recIds, expired>>
        /\ recRows' = recRows \ {deleting[d].id}
        /\ deleting' = [deleting EXCEPT ![d] = Idle] /\ deleting[d] # Idle
    BY <1>4 DEF deleteRow, Idle
  <2>2. rowFile[deleting[d].id] \notin disk
    BY <1>4, <2>1 DEF deleteRow, RecInv, DeletionsTrue
  <2>3. RecTypes'
    BY <2>1 DEF RecInv, RecTypes
  <2>4. DeletionsTrue'
    BY <2>1 DEF RecInv, DeletionsTrue, Deletion, Idle
  <2>5. DeletedRowsFreeFiles'
    BY <2>1, <2>2 DEF RecInv, DeletedRowsFreeFiles, RecListed
  <2> QED BY <2>3, <2>4, <2>5 DEF RecInv
<1>5. CASE handleCron
  BY <1>5 DEF RecInv, RecTypes, DeletionsTrue, Deletion, DeletedRowsFreeFiles, RecListed, handleCron
<1>6. CASE RecBackendRestarts
  BY <1>6 DEF RecInv, RecTypes, DeletionsTrue, Deletion, DeletedRowsFreeFiles, RecListed,
              RecBackendRestarts, Idle
<1> QED BY <1>2, <1>3, <1>4, <1>5, <1>6 DEF RecBackend
-----------------------------------------------------------------------------
(* Audio files: what the request has converted is there while the row is    *)
(* being processed, and a removal that will unlink conversions has read a   *)
(* row that was ready.                                                      *)
Made ==
  [pc \in {"ulaw", "preview", "finish"} |->
     IF pc = "ulaw" THEN {"converted"}
     ELSE IF pc = "preview" THEN {"converted", "ulaw"} ELSE {"converted", "ulaw", "preview"}]

AudioInv ==
  /\ audioRow \in {"none", "processing", "ready", "failed", "deleted"}
  /\ audioPc \in {"idle", "save", "converted", "ulaw", "preview", "finish", "fail", "ended"}
  /\ removal \in [pc : {"idle", "usage", "unlink", "delete"},
                  paths : SUBSET {"original", "converted", "preview"}]
  /\ removal.paths \subseteq {"original"} \/ audioRow \in {"ready", "deleted"}
  /\ audioPc \in {"idle", "save"} => audioRow = "none"
  /\ removal.pc # "idle" => audioRow # "none"
  /\ audioRow = "ready" => audioPc = "ended"
  /\ audioPc \in DOMAIN Made /\ audioRow # "deleted" => Made[audioPc] \subseteq audioFiles
  /\ audioPc \in {"converted", "ulaw", "preview", "finish", "fail"}
       => audioRow \in {"processing", "deleted"}
  /\ ReadyIsPlayable

(* A step of another component leaves the audio files alone.                *)
LEMMA AudioSteps ==
  ASSUME [PlatformNext]_platformVars
  PROVE  [AudioNext]_auVars
BY DEF PlatformNext, Only, platformVars

(* Every step of audio.service.ts preserves the invariant.                  *)
LEMMA AudioStep ==
  ASSUME AudioInv, [AudioNext]_auVars
  PROVE  AudioInv'
<1>1. CASE UNCHANGED auVars
  BY <1>1 DEF AudioInv, auVars, ReadyIsPlayable, Made
<1>2. CASE upload \/ createTts \/ SaveAudio
  BY <1>2 DEF AudioInv, upload, createTts, SaveAudio, ReadyIsPlayable, Made, OnlyMaking
<1>3. ASSUME NEW out \in {"converted", "ulaw", "preview"}, Convert(out)
      PROVE  AudioInv'
  <2>1. /\ UNCHANGED <<removal, audioRow>> /\ audioPc = out
        /\ audioFiles \subseteq audioFiles'
        /\ \/ audioPc' = "fail"
           \/ audioPc' = Conversions[out] /\ audioFiles' = audioFiles \cup {out}
    BY <1>3 DEF Convert, OnlyMaking
  <2>2. CASE out = "converted"
    BY <2>1, <2>2 DEF AudioInv, ReadyIsPlayable, Made, Conversions
  <2>3. CASE out = "ulaw"
    BY <2>1, <2>3 DEF AudioInv, ReadyIsPlayable, Made, Conversions
  <2>4. CASE out = "preview"
    BY <2>1, <2>4 DEF AudioInv, ReadyIsPlayable, Made, Conversions
  <2> QED BY <2>2, <2>3, <2>4
<1>4. ASSUME audioPc \in {"finish", "fail"}, processAudio,
             ~(Convert("converted") \/ Convert("ulaw") \/ Convert("preview"))
      PROVE  AudioInv'
  <2>1. /\ UNCHANGED <<removal, audioFiles>> /\ audioPc' = "ended"
        /\ audioRow' = IF audioRow = "deleted" THEN "deleted"
                       ELSE IF audioPc = "finish" THEN "ready" ELSE "failed"
    BY <1>4 DEF processAudio, OnlyMaking
  <2>2. CASE audioRow = "deleted"
    BY <2>1, <2>2 DEF AudioInv, ReadyIsPlayable, Made
  <2>3. CASE audioRow = "processing" /\ audioPc = "finish"
    BY <2>1, <2>3 DEF AudioInv, ReadyIsPlayable, Made
  <2>4. CASE audioRow = "processing" /\ audioPc = "fail"
    BY <2>1, <2>4 DEF AudioInv, ReadyIsPlayable, Made
  <2> QED BY <1>4, <2>2, <2>3, <2>4 DEF AudioInv
<1>5. CASE removeAudio
  BY <1>5 DEF AudioInv, removeAudio, ReadyIsPlayable, Made
<1>6. CASE CheckUsage
  BY <1>6 DEF AudioInv, CheckUsage, ReadyIsPlayable, Made, NoRemoval
<1>7. CASE removeIfExists
  BY <1>7 DEF AudioInv, removeIfExists, ReadyIsPlayable, Made
<1>8. CASE DeleteAudio
  BY <1>8 DEF AudioInv, DeleteAudio, ReadyIsPlayable, Made, NoRemoval
<1>9. CASE FlowUsesAudio \/ previewTts \/ previewEvent
  BY <1>9 DEF AudioInv, FlowUsesAudio, previewTts, previewEvent, ReadyIsPlayable, Made
<1> QED
  BY <1>1, <1>2, <1>3, <1>4, <1>5, <1>6, <1>7, <1>8, <1>9 DEF AudioNext, processAudio, Convert

-----------------------------------------------------------------------------
(* Backups: until a restore has touched the history, a backup whose job has *)
(* found its row or failed has an archive only with a row that is not a     *)
(* failed one, and a deletion that has come to the row has unlinked.        *)
BackupJobs == {"idle", "start", "dump", "tar", "finish", "save", "catch", "mark", "retain",
               "ended", "lost"}

BackupInv ==
  ~dbRestored =>
    /\ history \in [Backups -> RowStatuses]
    /\ job \in [Backups -> BackupJobs]
    /\ archive \in [Backups -> BOOLEAN]
    /\ deletion \in [Removers -> [pc : {"none", "unlink", "row"}, of : Backups \cup {0}]]
    /\ \A b \in Backups \ overlooked :
         /\ job[b] = "mark" => ~archive[b]
         /\ job[b] \in {"save", "retain", "ended"} /\ history[b] = "none" => ~archive[b]
         /\ job[b] \in {"retain", "ended"} /\ history[b] = "failed" => ~archive[b]
         /\ job[b] \in {"save", "retain", "ended"} =>
              \A d \in Removers : deletion[d].pc = "row" /\ deletion[d].of = b => ~archive[b]

(* A step of another component leaves the backups alone.                    *)
LEMMA BackupSteps ==
  ASSUME [PlatformNext]_platformVars
  PROVE  [BackupNext]_bkVars
BY DEF PlatformNext, Only, platformVars

(* Every step of backup.service.ts preserves the invariant.                 *)
LEMMA BackupStep ==
  ASSUME BackupInv, [BackupNext]_bkVars
  PROVE  BackupInv'
<1>1. CASE UNCHANGED bkVars
  BY <1>1 DEF BackupInv, bkVars
<1> USE DEF BackupInv, BackupJobs, RowStatuses, RestoreUnchanged, DeletionUnchanged, NotDeleting
<1>2. ASSUME NEW b \in Backups, manualBackup(b) \/ handleScheduleTick(b)
      PROVE  BackupInv'
  BY <1>2 DEF manualBackup, handleScheduleTick, createBackup, Newest
<1>3. ASSUME NEW b \in Backups, StartBackup(b) \/ runDatabaseDump(b) \/ runTarCommand(b)
      PROVE  BackupInv'
  <2>1. CASE StartBackup(b)
    BY <2>1 DEF StartBackup
  <2>2. CASE runDatabaseDump(b)
    BY <2>2 DEF runDatabaseDump
  <2>3. CASE runTarCommand(b)
    BY <2>3 DEF runTarCommand
  <2> QED BY <1>3, <2>1, <2>2, <2>3
<1>4. ASSUME NEW b \in Backups, BackupStepFails(b)
      PROVE  BackupInv'
  <2>1. /\ job[b] \in {"dump", "tar"} /\ job' = [job EXCEPT ![b] = "catch"]
        /\ UNCHANGED <<history, deletion, overlooked, dbRestored>>
    BY <1>4 DEF BackupStepFails
  <2>2. ~dbRestored => archive' \in [Backups -> BOOLEAN]
    BY <1>4 DEF BackupStepFails
  <2>3. \A c \in Backups : c # b => archive'[c] = archive[c] \/ dbRestored
    BY <1>4 DEF BackupStepFails
  <2> QED BY <2>1, <2>2, <2>3
<1>5. ASSUME NEW b \in Backups, updateHistoryComplete(b)
      PROVE  BackupInv'
  <2>1. CASE BackupListed(b)
    <3>1. /\ job' = [job EXCEPT ![b] = "save"]
          /\ UNCHANGED <<history, archive, deletion, dbRestored>>
          /\ overlooked \subseteq overlooked'
      BY <1>5, <2>1 DEF updateHistoryComplete
    <3>2. b \notin overlooked' => ~\E d \in Removers : deletion[d] = [pc |-> "row", of |-> b]
      BY <1>5, <2>1 DEF updateHistoryComplete
    <3>3. ~dbRestored /\ b \notin overlooked' =>
            \A d \in Removers : ~(deletion[d].pc = "row" /\ deletion[d].of = b)
      BY <3>2
    <3> QED BY <2>1, <3>1, <3>3 DEF BackupListed
  <2>2. CASE ~BackupListed(b)
    BY <1>5, <2>2 DEF updateHistoryComplete
  <2> QED BY <2>1, <2>2
<1>6. ASSUME NEW b \in Backups, SaveComplete(b)
      PROVE  BackupInv'
  BY <1>6 DEF SaveComplete, BackupListed
<1>7. ASSUME NEW b \in Backups, BackupFailed(b)
      PROVE  BackupInv'
  BY <1>7 DEF BackupFailed, safeUnlink
<1>8. ASSUME NEW b \in Backups, MarkFailed(b) \/ enforceRetention(b)
      PROVE  BackupInv'
  BY <1>8 DEF MarkFailed, enforceRetention
<1>9. ASSUME NEW d \in Removers, NEW b \in Backups, deleteBackup(d, b)
      PROVE  BackupInv'
  BY <1>9 DEF deleteBackup
<1>10. ASSUME NEW d \in Removers, UnlinkArchive(d)
       PROVE  BackupInv'
  <2>1. /\ deletion' = [deletion EXCEPT ![d].pc = "row"]
        /\ UNCHANGED <<history, job, dbRestored>> /\ safeUnlink(deletion[d].of)
    BY <1>10 DEF UnlinkArchive
  <2> QED BY <2>1 DEF safeUnlink
<1>11. ASSUME NEW d \in Removers, DeleteHistoryRow(d)
       PROVE  BackupInv'
  <2>1. /\ deletion[d].pc = "row" /\ deletion' = [deletion EXCEPT ![d] = NotDeleting]
        /\ history' = history \/ history' = [history EXCEPT ![deletion[d].of] = "none"]
        /\ UNCHANGED <<job, archive, overlooked, dbRestored>>
    BY <1>11 DEF DeleteHistoryRow
  <2> QED BY <2>1
<1>12. ASSUME NEW b \in Backups, restoreBackup(b)
       PROVE  BackupInv'
  BY <1>12 DEF restoreBackup, JobsUnchanged
<1>13. CASE NextMinute \/ RetentionStops
  BY <1>13 DEF NextMinute, RetentionStops
<1>14. CASE runDatabaseRestore
  <2>1. dbRestored'
    BY <1>14 DEF runDatabaseRestore
  <2> QED BY <2>1
<1>15. CASE \/ CheckVolumes \/ restartAffectedServices \/ RestoreFailed
            \/ restoreVolume("recordings", "audio") \/ restoreVolume("audio", "restart")
  BY <1>15 DEF CheckVolumes, restartAffectedServices, RestoreFailed, restoreVolume, JobsUnchanged
<1>16. CASE BackendCrashes
  BY <1>16 DEF BackendCrashes
<1> QED
  BY <1>1, <1>2, <1>3, <1>4, <1>5, <1>6, <1>7, <1>8, <1>9, <1>10, <1>11, <1>12, <1>13, <1>14,
     <1>15, <1>16 DEF BackupNext

(* What the database says of recordings, audio files and backups is so of   *)
(* the files, but for the archives NoStrayArchive leaves out: for any       *)
(* recordings, rows and backups.                                            *)
THEOREM RowsMatchFilesHolds == PlatformSpec => []RowsMatchFiles
<1> DEFINE Inv == RecInv /\ AudioInv /\ BackupInv
<1>1. PlatformInit => Inv
  <2>1. ASSUME RecInit PROVE RecInv
    BY <2>1, RecordingAssumption
    DEF RecInit, RecInv, RecTypes, DeletionsTrue, Deletion, DeletedRowsFreeFiles, RecIds, Idle
  <2>2. ASSUME AudioInit PROVE AudioInv
    BY <2>2 DEF AudioInit, AudioInv, NoRemoval, ReadyIsPlayable, Made
  <2>3. ASSUME BackupInit PROVE BackupInv
    BY <2>3 DEF BackupInit, BackupInv, BackupJobs, RowStatuses, NotDeleting
  <2> QED BY <2>1, <2>2, <2>3 DEF PlatformInit
<1>2. Inv /\ [PlatformNext]_platformVars => Inv'
  <2>1. RecInv /\ UNCHANGED recVars => RecInv'
    BY DEF RecInv, RecTypes, DeletionsTrue, Deletion, DeletedRowsFreeFiles, RecListed, recVars
  <2> QED BY <2>1, RecSteps, RecStasisStep, RecBackendStep, AudioSteps, AudioStep,
             BackupSteps, BackupStep DEF RecNext
<1>3. Inv => RowsMatchFiles
  BY DEF RecInv, AudioInv, BackupInv, RowsMatchFiles, NoStrayArchive
<1> QED BY <1>1, <1>2, <1>3, PTL DEF PlatformSpec
-----------------------------------------------------------------------------
(* The VPN's peers: an address being revoked, or revoked, is one no request *)
(* is about to add to WireGuard, unless the revocation met its createPeer.  *)
PeerStep == [pc : {"none", "save", "add", "conf", "forget", "mark", "unlink"},
             ip : HostNumbers \cup {NoPeer}]

Leaving(i) ==
  peerRow[i] = "revoked" \/ \E r \in VpnRequests : peerReq[r].pc \in {"forget", "mark"} /\ peerReq[r].ip = i

PeerInv ==
  /\ peerRow \in [HostNumbers -> {"free", "active", "revoked"}]
  /\ peerReq \in [VpnRequests -> PeerStep]
  /\ \A r \in VpnRequests : peerReq[r].pc # "none" => peerReq[r].ip \in HostNumbers
  /\ \A r \in VpnRequests :
       peerReq[r].pc \in {"add", "forget", "mark"} => peerRow[peerReq[r].ip] # "free"
  /\ \A i \in HostNumbers : Leaving(i) /\ i \notin earlyRevoke =>
       \A r \in VpnRequests : peerReq[r].pc = "add" => peerReq[r].ip # i
  /\ \A r \in VpnRequests :
       peerReq[r].pc = "mark" /\ peerReq[r].ip \notin earlyRevoke => peerReq[r].ip \notin livePeers
  /\ RevokedPeersGone

(* The relay: while tasks have not overlapped, what the one under way has   *)
(* done so far is so, and the state file says that it is not finished.      *)
RelayTaskSteps ==
  [activate : {"none", "clear", "start", "route", "state", "sync"},
   deactivate : {"none", "unroute", "stop", "state", "sync"}]

RelayFlags == [active : BOOLEAN, transitioning : BOOLEAN, error : BOOLEAN]

RelayTruth ==
  ~relayState.error /\ ~relayState.transitioning =>
     IF relayState.active THEN relayRun /\ relayRoute ELSE ~relayRun

RelayInv ==
  /\ relayTasks \in RelayTaskSteps
  /\ relayState \in RelayFlags
  /\ ~relayMixed =>
       /\ relayTasks.activate = "none" \/ relayTasks.deactivate = "none"
       /\ relayTasks.activate \in {"clear", "start", "route", "state"}
            \/ relayTasks.deactivate \in {"unroute", "stop", "state"} => relayState.transitioning
       /\ relayTasks.activate = "route" => relayRun
       /\ relayTasks.activate \in {"state", "sync"} => relayRun /\ relayRoute
       /\ relayTasks.deactivate \in {"state", "sync"} => ~relayRun
       /\ relayTasks.activate \in {"none", "sync"} /\ relayTasks.deactivate \in {"none", "sync"}
            => RelayTruth

(* A step of another component leaves the VPN alone.                        *)
LEMMA VpnSteps ==
  ASSUME [PlatformNext]_platformVars
  PROVE  [VpnNext]_vpnVars
BY DEF PlatformNext, Only, platformVars, VpnNext

(* A request about a peer, taking one step, preserves the invariant.        *)
LEMMA PeerRequestStep ==
  ASSUME PeerInv, NEW r \in VpnRequests,
         \/ createPeer(r) \/ SavePeer(r) \/ addLivePeer(r) \/ writePeerConfig(r)
         \/ \E i \in HostNumbers : revokePeer(r, i)
         \/ removeLivePeer(r) \/ MarkRevoked(r) \/ removePeerConfig(r)
  PROVE  PeerInv'
<1>1. NoReq \in PeerStep /\ NoReq.pc = "none"
  BY DEF NoReq, PeerStep
<1>2. CASE createPeer(r)
  BY <1>2 DEF PeerInv, PeerStep, Leaving, RevokedPeersGone, createPeer, PeerGoto, nextAvailableIp
<1>3. CASE SavePeer(r)
  <2> DEFINE i == peerReq[r].ip
  <2>1. i \in HostNumbers /\ UNCHANGED <<livePeers, earlyRevoke>>
    BY <1>3 DEF SavePeer, PeerInv
  <2>2. CASE peerRow[i] = "free"
    BY <1>3, <2>1, <2>2 DEF PeerInv, PeerStep, Leaving, RevokedPeersGone, SavePeer, PeerGoto
  <2>3. CASE peerRow[i] # "free"
    BY <1>1, <1>3, <2>1, <2>3 DEF PeerInv, Leaving, RevokedPeersGone, SavePeer, PeerReturns
  <2> QED BY <2>2, <2>3
<1>4. CASE addLivePeer(r)
  <2>1. CASE PeerReturns(r) /\ livePeers' = livePeers
    BY <1>1, <1>4, <2>1 DEF PeerInv, Leaving, RevokedPeersGone, addLivePeer, PeerReturns
  <2>2. CASE PeerGoto(r, "conf", peerReq[r].ip) /\ livePeers' = livePeers \cup {peerReq[r].ip}
    BY <1>4, <2>2 DEF PeerInv, PeerStep, Leaving, RevokedPeersGone, addLivePeer, PeerGoto
  <2> QED BY <1>4, <2>1, <2>2 DEF addLivePeer
<1>5. CASE writePeerConfig(r) \/ removePeerConfig(r)
  BY <1>1, <1>5 DEF PeerInv, Leaving, RevokedPeersGone, writePeerConfig, removePeerConfig, PeerReturns
<1>6. ASSUME NEW i \in HostNumbers, revokePeer(r, i)
      PROVE  PeerInv'
  <2>1. /\ PeerGoto(r, "forget", i) /\ peerReq[r].pc = "none" /\ peerRow[i] = "active"
        /\ UNCHANGED <<peerRow, livePeers>> /\ earlyRevoke \subseteq earlyRevoke'
    BY <1>6 DEF revokePeer
  <2>2. i \notin earlyRevoke' => \A q \in VpnRequests : peerReq[q].pc = "add" => peerReq[q].ip # i
    BY <1>6 DEF revokePeer, PeerInv, PeerStep
  <2>3. peerReq' \in [VpnRequests -> PeerStep]
    BY <2>1 DEF PeerInv, PeerGoto, PeerStep
  <2>4. /\ peerReq'[r].pc = "forget" /\ peerReq'[r].ip = i
        /\ \A q \in VpnRequests : q # r => peerReq'[q] = peerReq[q]
    BY <2>1 DEF PeerInv, PeerGoto
  <2> QED BY <2>1, <2>2, <2>3, <2>4 DEF PeerInv, Leaving, RevokedPeersGone
<1>7. CASE removeLivePeer(r)
  <2>1. CASE PeerReturns(r) /\ livePeers' = livePeers
    BY <1>1, <1>7, <2>1 DEF PeerInv, Leaving, RevokedPeersGone, removeLivePeer, PeerReturns
  <2>2. CASE PeerGoto(r, "mark", peerReq[r].ip) /\ livePeers' = livePeers \ {peerReq[r].ip}
    BY <1>7, <2>2 DEF PeerInv, PeerStep, Leaving, RevokedPeersGone, removeLivePeer, PeerGoto
  <2> QED BY <1>7, <2>1, <2>2 DEF removeLivePeer
<1>8. CASE MarkRevoked(r)
  BY <1>8 DEF PeerInv, PeerStep, Leaving, RevokedPeersGone, MarkRevoked, PeerGoto
<1> QED BY <1>2, <1>3, <1>4, <1>5, <1>6, <1>7, <1>8

(* Every step of the VPN service preserves the invariant of the peers.      *)
LEMMA PeersStep ==
  ASSUME PeerInv, [VpnNext]_vpnVars
  PROVE  PeerInv'
<1>1. CASE UNCHANGED peerVars
  BY <1>1 DEF PeerInv, Leaving, RevokedPeersGone, peerVars
<1>2. CASE PeerNext
  <2>1. CASE removeVpn \/ VpnStarts
    BY <2>1 DEF PeerInv, Leaving, RevokedPeersGone, removeVpn, VpnStarts
  <2> QED BY <1>2, <2>1, PeerRequestStep DEF PeerNext
<1>3. CASE VpnBackendStops
  BY <1>3 DEF PeerInv, PeerStep, Leaving, RevokedPeersGone, VpnBackendStops, NoReq
<1>4. CASE createRelayConfig \/ RelayNext
  BY <1>1, <1>4 DEF createRelayConfig, RelayNext
<1> QED BY <1>1, <1>2, <1>3, <1>4 DEF VpnNext, vpnVars

(* Every step of the VPN service preserves the invariant of the relay.      *)
LEMMA RelayStep ==
  ASSUME RelayInv, [VpnNext]_vpnVars
  PROVE  RelayInv'
<1>1. CASE UNCHANGED relayVars
  BY <1>1 DEF RelayInv, RelayTruth, relayVars
<1>2. CASE activateRelayTunnel
  BY <1>2 DEF RelayInv, RelayTaskSteps, RelayFlags, RelayTruth, activateRelayTunnel, StartTask,
              writeRelayState
<1>3. CASE deactivateRelayTunnel
  BY <1>3 DEF RelayInv, RelayTaskSteps, RelayFlags, RelayTruth, deactivateRelayTunnel, StartTask,
              writeRelayState
<1>4. CASE runActivateBackground
  <2>1. CASE ClearRelay("activate", "clear", "start")
    BY <2>1 DEF RelayInv, RelayTaskSteps, RelayTruth, ClearRelay, OnStep
  <2>2. CASE StartRelay
    BY <2>2 DEF RelayInv, RelayTaskSteps, RelayTruth, StartRelay, OnStep
  <2>3. CASE SettleRelay("activate", TRUE)
    BY <2>3 DEF RelayInv, RelayTaskSteps, RelayFlags, RelayTruth, SettleRelay, OnStep, writeRelayState
  <2>4. CASE AnnounceRelay("activate")
    BY <2>4 DEF RelayInv, RelayTaskSteps, RelayTruth, AnnounceRelay, OnStep
  <2> QED BY <1>4, <2>1, <2>2, <2>3, <2>4 DEF runActivateBackground
<1>5. CASE runDeactivateBackground
  <2>1. CASE ClearRelay("deactivate", "stop", "state")
    BY <2>1 DEF RelayInv, RelayTaskSteps, RelayTruth, ClearRelay, OnStep
  <2>2. CASE SettleRelay("deactivate", FALSE)
    BY <2>2 DEF RelayInv, RelayTaskSteps, RelayFlags, RelayTruth, SettleRelay, OnStep, writeRelayState
  <2>3. CASE AnnounceRelay("deactivate")
    BY <2>3 DEF RelayInv, RelayTaskSteps, RelayTruth, AnnounceRelay, OnStep
  <2> QED BY <1>5, <2>1, <2>2, <2>3 DEF runDeactivateBackground
<1>6. CASE RouteRelay
  BY <1>6 DEF RelayInv, RelayTaskSteps, RelayTruth, RouteRelay, OnStep
<1>7. CASE RelayTaskFails
  BY <1>7 DEF RelayInv, RelayTaskSteps, RelayFlags, RelayTruth, RelayTaskFails, writeRelayState
<1>8. CASE VpnBackendStops
  BY <1>8 DEF RelayInv, RelayTaskSteps, RelayTruth, VpnBackendStops
<1>9. CASE PeerNext \/ createRelayConfig
  BY <1>1, <1>9 DEF PeerNext, createRelayConfig
<1> QED
  BY <1>1, <1>2, <1>3, <1>4, <1>5, <1>6, <1>7, <1>8, <1>9 DEF VpnNext, RelayNext, vpnVars

(* vpn.service.ts and WireGuard agree: a revoked peer has lost its access   *)
(* and the relay is what its settled state file says.                       *)
THEOREM VpnStateTrueHolds == PlatformSpec => []VpnStateTrue
<1> DEFINE Inv == PeerInv /\ RelayInv
<1>1. PlatformInit => Inv
  <2>1. ASSUME VpnInit PROVE PeerInv
    BY <2>1 DEF VpnInit, PeerInv, PeerStep, Leaving, RevokedPeersGone, NoReq
  <2>2. ASSUME VpnInit PROVE RelayInv
    BY <2>2 DEF VpnInit, RelayInv, RelayTaskSteps, RelayFlags, RelayTruth
  <2> QED BY <2>1, <2>2 DEF PlatformInit
<1>2. Inv /\ [PlatformNext]_platformVars => Inv'
  BY VpnSteps, PeersStep, RelayStep
<1>3. Inv => VpnStateTrue
  BY DEF PeerInv, RelayInv, RelayTaskSteps, RelayTruth, VpnStateTrue, RelayStateTrue
<1> QED BY <1>1, <1>2, <1>3, PTL DEF PlatformSpec
-----------------------------------------------------------------------------
(* The directory: unless two requests met over an operator's PIN, the texts *)
(* match the hash whenever no request has replaced it and not yet stored    *)
(* its text, and a request that is about to store one has the PIN that is   *)
(* in the row, if the row is still there.                                   *)
StaffRow == [pin : Pins, contact : Contacts \cup {NoContact}]
SavingRequest == [pc : {"save", "plain", "keep"}, id : Staff, row : StaffRow, set : BOOLEAN]
CleaningRequest == [pc : {"redis"}, id : Staff]

StaffTypes ==
  /\ staff \in [Staff -> StaffRow \cup {Vacant}]
  /\ plainPin \in [Staff -> Pins \cup {NoPin}]
  /\ runtimePins \in [Staff -> Pins \cup {NoPin}]
  /\ staffReq \in [DeskRequests -> SavingRequest \cup CleaningRequest \cup {Free}]
  /\ pinCached \in {"unknown", "yes", "no"}

PinColumnKnown ==
  /\ pinCached = "yes" => pinColumn
  /\ pinCached = "no" => ~pinColumn
  /\ ~pinColumn => \A o \in Staff : plainPin[o] = NoPin
  /\ \A o \in Staff : staff[o] = Vacant => plainPin[o] = NoPin

TextsMatch(o, p) == plainPin[o] \in {NoPin, p} /\ runtimePins[o] \in {NoPin, p}

PinsTrue(o) ==
  /\ \A r1, r2 \in Setting(o) : r1 = r2
  /\ (\A r \in Setting(o) : staffReq[r].pc = "save") /\ staff[o] # Vacant
       => TextsMatch(o, staff[o].pin)
  /\ \A r \in Setting(o) :
       /\ (staffReq[r].pc # "save" \/ ~staffReq[r].set) /\ staff[o] # Vacant
            => staff[o].pin = staffReq[r].row.pin
       /\ staffReq[r].pc = "save" /\ ~staffReq[r].set => TextsMatch(o, staffReq[r].row.pin)
       /\ staffReq[r].pc = "keep" => plainPin[o] \in {NoPin, staffReq[r].row.pin}

DirectoryInv ==
  StaffTypes /\ PinColumnKnown /\ \A o \in Staff \ pinsMixed : PinsTrue(o)

(* A step of another component leaves the operators alone, and so do the    *)
(* requests about queues and settings, but for the removal of an operator.  *)
LEMMA StaffSteps ==
  ASSUME [PlatformNext]_platformVars
  PROVE  \/ UNCHANGED staffVars
         \/ \E r \in DeskRequests :
              \/ createOperator(r) \/ updateOperator(r) \/ SaveOperator(r)
              \/ storePlainPinIfSupported(r) \/ KeepPin(r) \/ getPin(r) \/ cleanupRedis(r)
              \/ removeOperator(r)
         \/ OperatorLogsIn \/ createContact \/ removeContact \/ runSqlMigrations
<1>1. CASE UNCHANGED deskVars
  BY <1>1 DEF deskVars
<1>2. CASE OperatorNext
  BY <1>2 DEF OperatorNext
<1>3. CASE QueueDeskNext
  BY <1>3 DEF QueueDeskNext
<1>4. CASE SettingNext
  BY <1>4 DEF SettingNext
<1> QED BY <1>1, <1>2, <1>3, <1>4 DEF PlatformNext, Only, platformVars

(* The requests about an operator's PIN, and what they carry.               *)
LEMMA SettingMember ==
  ASSUME StaffTypes, NEW o \in Staff, NEW r \in Setting(o)
  PROVE  /\ r \in DeskRequests /\ staffReq[r] \in SavingRequest
         /\ staffReq[r].id = o
  BY DEF StaffTypes, Setting, SavingRequest, CleaningRequest, Free

(* An operator a step does not touch keeps its texts.                       *)
LEMMA PinsElsewhere ==
  ASSUME StaffTypes, NEW o \in Staff, PinsTrue(o), NEW r \in DeskRequests, NEW q,
         staffReq' = [staffReq EXCEPT ![r] = q],
         r \notin Setting(o), ~(q.pc \in {"save", "plain", "keep"} /\ q.id = o),
         staff'[o] = staff[o], plainPin'[o] = plainPin[o], runtimePins'[o] = runtimePins[o]
  PROVE  PinsTrue(o)'
<1>1. Setting(o)' = Setting(o)
  BY DEF Setting, StaffTypes
<1>2. \A s \in Setting(o) : staffReq'[s] = staffReq[s]
  BY DEF Setting, StaffTypes
<1> QED BY <1>1, <1>2 DEF PinsTrue, TextsMatch

(* Types, when a request goes on to q.                                      *)
LEMMA StaffGotoType ==
  ASSUME StaffTypes, NEW r \in DeskRequests,
         NEW q \in SavingRequest \cup CleaningRequest \cup {Free}, StaffGoto(r, q)
  PROVE  /\ staffReq' \in [DeskRequests -> SavingRequest \cup CleaningRequest \cup {Free}]
         /\ staffReq'[r] = q /\ \A s \in DeskRequests : s # r => staffReq'[s] = staffReq[s]
         /\ staffReq' = [staffReq EXCEPT ![r] = q]
BY DEF StaffTypes, StaffGoto

(* create and update begin.                                                 *)
LEMMA BeginSaveStep ==
  ASSUME DirectoryInv, NEW r \in DeskRequests, NEW o \in Staff, NEW row0 \in StaffRow,
         NEW set \in BOOLEAN, BeginSave(r, o, row0, set),
         set \/ (staff[o] # Vacant /\ row0.pin = staff[o].pin)
  PROVE  DirectoryInv'
<1> DEFINE q == [pc |-> "save", id |-> o, row |-> row0, set |-> set]
<1>1. /\ StaffGoto(r, q) /\ staffReq[r] = Free
      /\ pinsMixed' = IF Setting(o) # {} THEN pinsMixed \cup {o} ELSE pinsMixed
      /\ UNCHANGED <<staff, plainPin, pinColumn, pinCached, runtimePins>>
  BY DEF BeginSave
<1>2. q \in SavingRequest /\ q.pc = "save" /\ q.id = o /\ q.row = row0 /\ q.set = set
  BY DEF SavingRequest
<1> HIDE DEF q
<1>3. StaffTypes
  BY DEF DirectoryInv
<1>4. /\ staffReq' \in [DeskRequests -> SavingRequest \cup CleaningRequest \cup {Free}]
      /\ staffReq'[r] = q /\ \A s \in DeskRequests : s # r => staffReq'[s] = staffReq[s]
      /\ staffReq' = [staffReq EXCEPT ![r] = q]
  BY <1>1, <1>2, <1>3, StaffGotoType
<1>5. StaffTypes' /\ PinColumnKnown'
  BY <1>1, <1>4 DEF DirectoryInv, StaffTypes, PinColumnKnown
<1>6. ASSUME NEW p \in Staff \ pinsMixed'
      PROVE  PinsTrue(p)'
  <2>1. p \notin pinsMixed /\ PinsTrue(p)
    BY <1>1, <1>6 DEF DirectoryInv
  <2>2. CASE p # o
    <3>1. r \notin Setting(p)
      BY <1>1 DEF Setting, Free
    <3> QED BY <1>1, <1>2, <1>3, <1>4, <2>1, <2>2, <3>1, PinsElsewhere
  <2>3. CASE p = o
    <3>1. Setting(o) = {}
      BY <1>1, <1>6, <2>3
    <3>2. Setting(o)' = {r}
      BY <1>2, <1>4, <3>1 DEF Setting
    <3>3. staff[o] # Vacant => TextsMatch(o, staff[o].pin)
      BY <2>1, <2>3, <3>1 DEF PinsTrue
    <3> QED BY <1>1, <1>2, <1>4, <2>3, <3>2, <3>3 DEF PinsTrue, TextsMatch
  <2> QED BY <2>2, <2>3
<1> QED BY <1>5, <1>6 DEF DirectoryInv

(* The row is written, or refused.                                          *)
LEMMA SaveOperatorStep ==
  ASSUME DirectoryInv, NEW r \in DeskRequests, SaveOperator(r)
  PROVE  DirectoryInv'
<1>1. StaffTypes
  BY DEF DirectoryInv
<1>0. PICK q \in SavingRequest : q = staffReq[r]
  BY <1>1 DEF SaveOperator, StaffTypes, CleaningRequest, Free
<1> DEFINE o == q.id
<1>2. q.pc = "save" /\ o \in Staff /\ q.row \in StaffRow
  BY <1>0 DEF SaveOperator, SavingRequest
<1>3. UNCHANGED <<plainPin, pinColumn, pinCached, runtimePins, pinsMixed>>
  BY DEF SaveOperator
<1>4. r \in Setting(o)
  BY <1>0, <1>2 DEF Setting
<1>5. \A p \in Staff : p # o => r \notin Setting(p)
  BY <1>0 DEF Setting
<1>6. q.row # Vacant
  BY <1>2, PinAssumption DEF StaffRow, Vacant, NoPin
<1>7. PICK next \in SavingRequest \cup {Free} :
        /\ StaffGoto(r, next)
        /\ \/ staff' = staff /\ next = Free
           \/ staff' = [staff EXCEPT ![o] = q.row] /\ next = Free /\ ~q.set
           \/ staff' = [staff EXCEPT ![o] = q.row] /\ next = [q EXCEPT !.pc = "plain"] /\ q.set
  <2>1. [q EXCEPT !.pc = "plain"] \in SavingRequest
    BY <1>2 DEF SavingRequest
  <2> QED BY <1>0, <2>1 DEF SaveOperator
<1>8. /\ staffReq' \in [DeskRequests -> SavingRequest \cup CleaningRequest \cup {Free}]
      /\ staffReq'[r] = next /\ \A s \in DeskRequests : s # r => staffReq'[s] = staffReq[s]
      /\ staffReq' = [staffReq EXCEPT ![r] = next]
  BY <1>1, <1>7, StaffGotoType
<1>9. next = Free \/ (next.id = o /\ next.pc = "plain" /\ next.row = q.row)
  BY <1>2, <1>7 DEF SavingRequest
<1> HIDE DEF o
<1>10. StaffTypes' /\ PinColumnKnown'
  BY <1>2, <1>3, <1>6, <1>7, <1>8 DEF DirectoryInv, StaffTypes, PinColumnKnown
<1>11. ASSUME NEW p \in Staff \ pinsMixed'
       PROVE  PinsTrue(p)'
  <2>1. p \notin pinsMixed /\ PinsTrue(p)
    BY <1>3, <1>11 DEF DirectoryInv
  <2>2. CASE p # o
    <3>1. staff'[p] = staff[p]
      BY <1>1, <1>7, <2>2 DEF StaffTypes
    <3>2. ~(next.pc \in {"save", "plain", "keep"} /\ next.id = p)
      BY <1>9, <2>2 DEF Free
    <3> QED BY <1>1, <1>3, <1>5, <1>8, <2>1, <2>2, <3>1, <3>2, PinsElsewhere
  <2>3. CASE p = o
    <3>1. Setting(o) = {r}
      BY <1>4, <2>1, <2>3 DEF PinsTrue
    <3>2. \A s \in DeskRequests : s # r => s \notin Setting(o)'
      BY <1>8, <3>1 DEF Setting
    <3>3. CASE next = Free
      <4>1. Setting(o)' = {}
        BY <1>8, <3>2, <3>3 DEF Setting, Free
      <4>2. CASE staff' = staff
        BY <1>0, <1>2, <1>3, <2>1, <2>3, <3>1, <4>1, <4>2 DEF PinsTrue, TextsMatch
      <4>3. CASE staff' = [staff EXCEPT ![o] = q.row] /\ ~q.set
        <5>1. staff'[o] = q.row
          BY <1>1, <1>2, <4>3 DEF StaffTypes
        <5>2. TextsMatch(o, q.row.pin)
          BY <1>0, <1>2, <2>1, <2>3, <3>1, <4>3 DEF PinsTrue
        <5> QED BY <1>3, <2>3, <4>1, <5>1, <5>2 DEF PinsTrue, TextsMatch
      <4>4. next # [q EXCEPT !.pc = "plain"]
        <5>1. [q EXCEPT !.pc = "plain"].pc = "plain" /\ Free.pc = "idle"
          BY <1>2 DEF SavingRequest, Free
        <5> QED BY <3>3, <5>1
      <4> QED BY <1>7, <4>2, <4>3, <4>4
    <3>4. CASE next # Free
      <4>1. /\ staff'[o] = q.row /\ next.id = o /\ next.pc = "plain" /\ next.row = q.row
        BY <1>1, <1>2, <1>7, <1>9, <3>4 DEF StaffTypes
      <4>2. Setting(o)' = {r}
        BY <1>8, <3>2, <4>1 DEF Setting
      <4> QED BY <1>8, <2>3, <4>1, <4>2 DEF PinsTrue
    <3> QED BY <3>3, <3>4
  <2> QED BY <2>2, <2>3
<1> QED BY <1>10, <1>11 DEF DirectoryInv
(* The text is stored in the column.                                        *)
LEMMA StorePlainPinStep ==
  ASSUME DirectoryInv, NEW r \in DeskRequests, storePlainPinIfSupported(r)
  PROVE  DirectoryInv'
<1>1. StaffTypes /\ PinColumnKnown
  BY DEF DirectoryInv
<1>2. PICK q \in SavingRequest : q = staffReq[r]
  BY <1>1 DEF storePlainPinIfSupported, StaffTypes, CleaningRequest, Free
<1> DEFINE o == q.id
<1> DEFINE next == [q EXCEPT !.pc = "keep"]
<1>3. q.pc = "plain" /\ o \in Staff /\ q.row \in StaffRow /\ q.row.pin \in Pins
  BY <1>2 DEF storePlainPinIfSupported, SavingRequest, StaffRow
<1>4. next \in SavingRequest /\ next.pc = "keep" /\ next.id = o /\ next.row = q.row
  BY DEF SavingRequest
<1>5. UNCHANGED <<staff, pinColumn, runtimePins, pinsMixed>> /\ StaffGoto(r, next)
  BY <1>2 DEF storePlainPinIfSupported
<1>6. /\ plainPin' = IF hasPinColumn /\ staff[o] # Vacant
                     THEN [plainPin EXCEPT ![o] = q.row.pin] ELSE plainPin
      /\ pinCached' = IF hasPinColumn THEN "yes" ELSE "no"
  BY <1>2 DEF storePlainPinIfSupported
<1>7. hasPinColumn <=> pinColumn
  BY <1>1 DEF hasPinColumn, PinColumnKnown, StaffTypes
<1>8. r \in Setting(o) /\ \A p \in Staff : p # o => r \notin Setting(p)
  BY <1>2, <1>3 DEF Setting
<1> HIDE DEF o, next
<1>9. /\ staffReq' \in [DeskRequests -> SavingRequest \cup CleaningRequest \cup {Free}]
      /\ staffReq'[r] = next /\ \A s \in DeskRequests : s # r => staffReq'[s] = staffReq[s]
      /\ staffReq' = [staffReq EXCEPT ![r] = next]
  BY <1>1, <1>4, <1>5, StaffGotoType
<1>10. StaffTypes' /\ PinColumnKnown'
  <2>1. StaffTypes'
    BY <1>1, <1>3, <1>5, <1>6, <1>9 DEF StaffTypes
  <2>2. (pinCached' = "yes" => pinColumn') /\ (pinCached' = "no" => ~pinColumn')
    BY <1>5, <1>6, <1>7
  <2>3. ~pinColumn' => \A p \in Staff : plainPin'[p] = NoPin
    BY <1>1, <1>5, <1>6, <1>7 DEF PinColumnKnown
  <2>4. \A p \in Staff : staff'[p] = Vacant => plainPin'[p] = NoPin
    BY <1>1, <1>3, <1>5, <1>6 DEF PinColumnKnown, StaffTypes
  <2> QED BY <2>1, <2>2, <2>3, <2>4 DEF PinColumnKnown
<1>11. plainPin'[o] \in {NoPin, q.row.pin}
  BY <1>1, <1>3, <1>6, <1>7 DEF PinColumnKnown, StaffTypes
<1>12. ASSUME NEW p \in Staff \ pinsMixed'
       PROVE  PinsTrue(p)'
  <2>1. p \notin pinsMixed /\ PinsTrue(p)
    BY <1>5, <1>12 DEF DirectoryInv
  <2>2. CASE p # o
    <3>1. plainPin'[p] = plainPin[p]
      BY <1>1, <1>6, <2>2 DEF StaffTypes
    <3> QED BY <1>1, <1>4, <1>5, <1>8, <1>9, <2>1, <2>2, <3>1, PinsElsewhere
  <2>3. CASE p = o
    <3>1. Setting(o) = {r}
      BY <1>8, <2>1, <2>3 DEF PinsTrue
    <3>2. Setting(o)' = {r}
      BY <1>3, <1>4, <1>9, <3>1 DEF Setting
    <3>3. staff[o] # Vacant => staff[o].pin = q.row.pin
      BY <1>2, <1>3, <2>1, <2>3, <3>1 DEF PinsTrue
    <3> QED BY <1>4, <1>5, <1>9, <1>11, <2>3, <3>2, <3>3 DEF PinsTrue
  <2> QED BY <2>2, <2>3
<1> QED BY <1>10, <1>12 DEF DirectoryInv

(* The text is kept in the process.                                         *)
LEMMA KeepPinStep ==
  ASSUME DirectoryInv, NEW r \in DeskRequests, KeepPin(r)
  PROVE  DirectoryInv'
<1>1. StaffTypes
  BY DEF DirectoryInv
<1>2. PICK q \in SavingRequest : q = staffReq[r]
  BY <1>1 DEF KeepPin, StaffTypes, CleaningRequest, Free
<1> DEFINE o == q.id
<1>3. q.pc = "keep" /\ o \in Staff /\ q.row.pin \in Pins
  BY <1>2 DEF KeepPin, SavingRequest, StaffRow
<1>4. /\ UNCHANGED <<staff, plainPin, pinColumn, pinCached, pinsMixed>> /\ StaffGoto(r, Free)
      /\ runtimePins' = [runtimePins EXCEPT ![o] = q.row.pin]
  BY <1>2 DEF KeepPin
<1>5. r \in Setting(o) /\ \A p \in Staff : p # o => r \notin Setting(p)
  BY <1>2, <1>3 DEF Setting
<1> HIDE DEF o
<1>6. /\ staffReq' \in [DeskRequests -> SavingRequest \cup CleaningRequest \cup {Free}]
      /\ staffReq'[r] = Free /\ \A s \in DeskRequests : s # r => staffReq'[s] = staffReq[s]
      /\ staffReq' = [staffReq EXCEPT ![r] = Free]
  BY <1>1, <1>4, StaffGotoType
<1>7. StaffTypes' /\ PinColumnKnown'
  BY <1>3, <1>4, <1>6 DEF DirectoryInv, StaffTypes, PinColumnKnown
<1>8. ASSUME NEW p \in Staff \ pinsMixed'
      PROVE  PinsTrue(p)'
  <2>1. p \notin pinsMixed /\ PinsTrue(p)
    BY <1>4, <1>8 DEF DirectoryInv
  <2>2. CASE p # o
    <3>1. runtimePins'[p] = runtimePins[p] /\ Free.pc = "idle"
      BY <1>1, <1>4, <2>2 DEF StaffTypes, Free
    <3> QED BY <1>1, <1>4, <1>5, <1>6, <2>1, <2>2, <3>1, PinsElsewhere
  <2>3. CASE p = o
    <3>1. Setting(o) = {r}
      BY <1>5, <2>1, <2>3 DEF PinsTrue
    <3>2. Setting(o)' = {}
      BY <1>6, <3>1 DEF Setting, Free
    <3>3. /\ staff[o] # Vacant => staff[o].pin = q.row.pin
          /\ plainPin[o] \in {NoPin, q.row.pin}
      BY <1>2, <1>3, <2>1, <2>3, <3>1 DEF PinsTrue
    <3>4. runtimePins'[o] = q.row.pin
      BY <1>1, <1>3, <1>4 DEF StaffTypes
    <3> QED BY <1>4, <2>3, <3>2, <3>3, <3>4 DEF PinsTrue, TextsMatch
  <2> QED BY <2>2, <2>3
<1> QED BY <1>7, <1>8 DEF DirectoryInv

(* A text is read from the column, to be kept in the process.               *)
LEMMA GetPinStep ==
  ASSUME DirectoryInv, NEW r \in DeskRequests, getPin(r)
  PROVE  DirectoryInv'
<1>1. StaffTypes
  BY DEF DirectoryInv
<1>2. PICK o \in Hired :
        /\ staffReq[r] = Free /\ pinColumn /\ plainPin[o] # NoPin
        /\ StaffGoto(r, [pc |-> "keep", id |-> o, row |-> [staff[o] EXCEPT !.pin = plainPin[o]],
                         set |-> FALSE])
        /\ pinCached' = "yes"
        /\ pinsMixed' = IF Setting(o) # {} THEN pinsMixed \cup {o} ELSE pinsMixed
        /\ UNCHANGED <<staff, plainPin, pinColumn, pinAdds, runtimePins, contactRows, loggedIn>>
  BY DEF getPin
<1>3. PICK row0 : row0 = [staff[o] EXCEPT !.pin = plainPin[o]]
  OBVIOUS
<1> DEFINE q == [pc |-> "keep", id |-> o, row |-> row0, set |-> FALSE]
<1>4. o \in Staff /\ staff[o] \in StaffRow
  BY <1>1, <1>2 DEF Hired, StaffTypes
<1>5. row0 \in StaffRow /\ row0.pin = plainPin[o]
  BY <1>1, <1>2, <1>3, <1>4 DEF StaffRow, StaffTypes
<1>6. q \in SavingRequest /\ q.pc = "keep" /\ q.id = o /\ q.row = row0
  BY <1>4, <1>5 DEF SavingRequest
<1>7. StaffGoto(r, q)
  BY <1>2, <1>3
<1> HIDE DEF q
<1>8. /\ staffReq' \in [DeskRequests -> SavingRequest \cup CleaningRequest \cup {Free}]
      /\ staffReq'[r] = q /\ \A s \in DeskRequests : s # r => staffReq'[s] = staffReq[s]
      /\ staffReq' = [staffReq EXCEPT ![r] = q]
  BY <1>1, <1>6, <1>7, StaffGotoType
<1>9. StaffTypes' /\ PinColumnKnown'
  BY <1>2, <1>8 DEF DirectoryInv, StaffTypes, PinColumnKnown
<1>10. ASSUME NEW p \in Staff \ pinsMixed'
       PROVE  PinsTrue(p)'
  <2>1. p \notin pinsMixed /\ PinsTrue(p)
    BY <1>2, <1>10 DEF DirectoryInv
  <2>2. CASE p # o
    <3>1. r \notin Setting(p)
      BY <1>2 DEF Setting, Free
    <3> QED BY <1>1, <1>2, <1>6, <1>8, <2>1, <2>2, <3>1, PinsElsewhere
  <2>3. CASE p = o
    <3>1. Setting(o) = {}
      BY <1>2, <1>10, <2>3
    <3>2. Setting(o)' = {r}
      BY <1>6, <1>8, <3>1 DEF Setting
    <3>3. staff[o] # Vacant /\ TextsMatch(o, staff[o].pin)
      BY <1>2, <2>1, <2>3, <3>1 DEF PinsTrue, Hired
    <3>4. staff[o].pin = row0.pin
      BY <1>2, <1>5, <3>3 DEF TextsMatch
    <3> QED BY <1>2, <1>5, <1>6, <1>8, <2>3, <3>2, <3>4 DEF PinsTrue
  <2> QED BY <2>2, <2>3
<1> QED BY <1>9, <1>10 DEF DirectoryInv

(* An operator is removed: its row and its text in the column go at once.   *)
LEMMA RemoveOperatorStep ==
  ASSUME DirectoryInv, NEW r \in DeskRequests, removeOperator(r)
  PROVE  DirectoryInv'
<1>1. StaffTypes
  BY DEF DirectoryInv
<1>2. PICK o \in Hired :
        /\ staffReq[r] = Free
        /\ staff' = [staff EXCEPT ![o] = Vacant] /\ plainPin' = [plainPin EXCEPT ![o] = NoPin]
        /\ StaffGoto(r, [pc |-> "redis", id |-> o])
        /\ UNCHANGED <<pinColumn, pinCached, runtimePins, pinsMixed>>
  BY DEF removeOperator
<1> DEFINE q == [pc |-> "redis", id |-> o]
<1>3. o \in Staff
  BY <1>2 DEF Hired
<1>4. q \in CleaningRequest /\ q.pc = "redis"
  BY <1>3 DEF CleaningRequest
<1> HIDE DEF q
<1>5. /\ staffReq' \in [DeskRequests -> SavingRequest \cup CleaningRequest \cup {Free}]
      /\ staffReq'[r] = q /\ \A s \in DeskRequests : s # r => staffReq'[s] = staffReq[s]
      /\ staffReq' = [staffReq EXCEPT ![r] = q]
  BY <1>1, <1>2, <1>4, StaffGotoType DEF q
<1>6. /\ staff'[o] = Vacant /\ plainPin'[o] = NoPin
      /\ \A p \in Staff : p # o => staff'[p] = staff[p] /\ plainPin'[p] = plainPin[p]
  BY <1>1, <1>2, <1>3 DEF StaffTypes
<1>7. StaffTypes' /\ PinColumnKnown'
  <2>1. StaffTypes'
    BY <1>1, <1>2, <1>3, <1>5 DEF StaffTypes
  <2> QED BY <1>2, <1>6, <2>1 DEF DirectoryInv, PinColumnKnown
<1>8. ASSUME NEW p \in Staff \ pinsMixed'
      PROVE  PinsTrue(p)'
  <2>1. p \notin pinsMixed /\ PinsTrue(p)
    BY <1>2, <1>8 DEF DirectoryInv
  <2>2. r \notin Setting(p)
    BY <1>2 DEF Setting, Free
  <2>3. CASE p # o
    BY <1>1, <1>2, <1>4, <1>5, <1>6, <2>1, <2>2, <2>3, PinsElsewhere
  <2>4. CASE p = o
    <3>1. Setting(o)' = Setting(o)
      BY <1>4, <1>5, <2>2, <2>4 DEF Setting
    <3>2. \A s \in Setting(o) : staffReq'[s] = staffReq[s]
      BY <1>5, <2>2, <2>4 DEF Setting
    <3> QED BY <1>2, <1>6, <2>1, <2>4, <3>1, <3>2 DEF PinsTrue, TextsMatch
  <2> QED BY <2>3, <2>4
<1> QED BY <1>7, <1>8 DEF DirectoryInv

(* The removal ends: the text kept by the process goes.                     *)
LEMMA CleanupStep ==
  ASSUME DirectoryInv, NEW r \in DeskRequests, cleanupRedis(r)
  PROVE  DirectoryInv'
<1>1. StaffTypes
  BY DEF DirectoryInv
<1>2. PICK o \in Staff : o = staffReq[r].id
  BY <1>1 DEF cleanupRedis, StaffTypes, SavingRequest, CleaningRequest, Free
<1>3. /\ runtimePins' = [runtimePins EXCEPT ![o] = NoPin] /\ StaffGoto(r, Free)
      /\ staffReq[r].pc = "redis"
      /\ UNCHANGED <<staff, plainPin, pinColumn, pinCached, pinsMixed>>
  BY <1>2 DEF cleanupRedis
<1>4. /\ staffReq' \in [DeskRequests -> SavingRequest \cup CleaningRequest \cup {Free}]
      /\ staffReq'[r] = Free /\ \A s \in DeskRequests : s # r => staffReq'[s] = staffReq[s]
      /\ staffReq' = [staffReq EXCEPT ![r] = Free]
  BY <1>1, <1>3, StaffGotoType
<1>5. \A p \in Staff : r \notin Setting(p) /\ Setting(p)' = Setting(p)
  BY <1>3, <1>4 DEF Setting, Free
<1>6. \A p \in Staff : \A s \in Setting(p) : staffReq'[s] = staffReq[s]
  BY <1>4, <1>5 DEF Setting
<1>7. \A p \in Staff : runtimePins'[p] \in {NoPin, runtimePins[p]}
  BY <1>1, <1>3 DEF StaffTypes
<1>8. StaffTypes' /\ PinColumnKnown'
  BY <1>3, <1>4 DEF DirectoryInv, StaffTypes, PinColumnKnown
<1>9. \A p \in Staff : PinsTrue(p) => PinsTrue(p)'
  BY <1>3, <1>5, <1>6, <1>7 DEF PinsTrue, TextsMatch
<1> QED BY <1>3, <1>8, <1>9 DEF DirectoryInv

(* Every step preserves the invariant of the directory.                     *)
LEMMA DirectoryStep ==
  ASSUME DirectoryInv, [PlatformNext]_platformVars
  PROVE  DirectoryInv'
<1>1. StaffTypes
  BY DEF DirectoryInv
<1>2. CASE UNCHANGED <<staff, plainPin, pinColumn, pinCached, runtimePins, staffReq, pinsMixed>>
  BY <1>2 DEF DirectoryInv, StaffTypes, PinColumnKnown, PinsTrue, TextsMatch, Setting
<1>3. ASSUME NEW r \in DeskRequests, createOperator(r)
      PROVE  DirectoryInv'
  <2>1. PICK o \in Staff \ Hired, p \in Pins, c \in Contacts \cup {NoContact} :
          BeginSave(r, o, [pin |-> p, contact |-> c], TRUE)
    BY <1>3 DEF createOperator
  <2>2. [pin |-> p, contact |-> c] \in StaffRow
    BY DEF StaffRow
  <2> QED BY <2>1, <2>2, BeginSaveStep
<1>4. ASSUME NEW r \in DeskRequests, updateOperator(r)
      PROVE  DirectoryInv'
  <2>1. PICK o \in Hired :
          \/ \E p \in Pins : BeginSave(r, o, [staff[o] EXCEPT !.pin = p], TRUE)
          \/ \E c \in Contacts \cup {NoContact} : BeginSave(r, o, [staff[o] EXCEPT !.contact = c], FALSE)
    BY <1>4 DEF updateOperator
  <2>2. o \in Staff /\ staff[o] # Vacant /\ staff[o] \in StaffRow
    BY <1>1 DEF Hired, StaffTypes
  <2>3. ASSUME NEW p \in Pins, BeginSave(r, o, [staff[o] EXCEPT !.pin = p], TRUE)
        PROVE  DirectoryInv'
    <3>1. PICK row0 \in StaffRow : row0 = [staff[o] EXCEPT !.pin = p]
      BY <2>2 DEF StaffRow
    <3> QED BY <2>2, <2>3, <3>1, BeginSaveStep
  <2>4. ASSUME NEW c \in Contacts \cup {NoContact},
               BeginSave(r, o, [staff[o] EXCEPT !.contact = c], FALSE)
        PROVE  DirectoryInv'
    <3>0. /\ [staff[o] EXCEPT !.contact = c] \in StaffRow
          /\ [staff[o] EXCEPT !.contact = c].pin = staff[o].pin
      BY <2>2 DEF StaffRow
    <3>1. PICK row0 \in StaffRow : row0 = [staff[o] EXCEPT !.contact = c] /\ row0.pin = staff[o].pin
      BY <3>0
    <3> QED BY <2>2, <2>4, <3>1, BeginSaveStep
  <2> QED BY <2>1, <2>3, <2>4
<1>5. CASE OperatorLogsIn \/ createContact
  BY <1>2, <1>5 DEF OperatorLogsIn, createContact
<1>6. CASE removeContact
  <2>1. /\ UNCHANGED <<plainPin, pinColumn, pinCached, runtimePins, staffReq, pinsMixed>>
        /\ staff' \in [Staff -> StaffRow \cup {Vacant}]
        /\ \A o \in Staff : staff[o] = Vacant => staff'[o] = Vacant
        /\ \A o \in Staff : staff[o] # Vacant => staff'[o] # Vacant /\ staff'[o].pin = staff[o].pin
    <3>1. PICK c \in contactRows :
            /\ staff' = [o \in Staff |-> IF o \in Hired /\ staff[o].contact = c
                                         THEN [staff[o] EXCEPT !.contact = NoContact] ELSE staff[o]]
            /\ UNCHANGED <<plainPin, pinColumn, pinCached, runtimePins, staffReq, pinsMixed>>
      BY <1>6 DEF removeContact
    <3>2. ASSUME NEW o \in Staff
          PROVE  /\ staff[o] = Vacant => staff'[o] = Vacant
                 /\ staff[o] # Vacant => /\ staff'[o] \in StaffRow
                                         /\ staff'[o].pin = staff[o].pin
      <4>1. CASE staff[o] = Vacant
        BY <3>1, <4>1 DEF Hired
      <4>2. CASE staff[o] # Vacant
        BY <1>1, <3>1, <4>2 DEF StaffTypes, StaffRow
      <4> QED BY <4>1, <4>2
    <3>3. Vacant \notin StaffRow
      BY PinAssumption DEF StaffRow, Vacant, NoPin
    <3>4. staff' \in [Staff -> StaffRow \cup {Vacant}]
      BY <3>1, <3>2
    <3> QED BY <3>1, <3>2, <3>3, <3>4
  <2>2. StaffTypes' /\ PinColumnKnown'
    BY <2>1 DEF DirectoryInv, StaffTypes, PinColumnKnown
  <2>3. \A o \in Staff : Setting(o)' = Setting(o)
    BY <2>1 DEF Setting
  <2>4. ASSUME NEW o \in Staff, PinsTrue(o)
        PROVE  PinsTrue(o)'
    <3>1. (staff'[o] # Vacant <=> staff[o] # Vacant) /\ (staff[o] # Vacant => staff'[o].pin = staff[o].pin)
      BY <2>1
    <3> QED BY <2>1, <2>3, <2>4, <3>1 DEF PinsTrue, TextsMatch
  <2> QED BY <2>1, <2>2, <2>4 DEF DirectoryInv
<1>7. CASE runSqlMigrations
  <2>1. /\ \A o \in Staff : plainPin'[o] = NoPin /\ runtimePins'[o] = NoPin
        /\ plainPin' \in [Staff -> Pins \cup {NoPin}] /\ runtimePins' \in [Staff -> Pins \cup {NoPin}]
        /\ staff' = staff /\ pinCached' = "unknown" /\ staffReq' = [r \in DeskRequests |-> Free]
    BY <1>7 DEF runSqlMigrations
  <2>2. \A o \in Staff : Setting(o)' = {}
    BY <2>1 DEF Setting, Free
  <2>3. StaffTypes' /\ PinColumnKnown'
    BY <1>1, <2>1 DEF StaffTypes, PinColumnKnown
  <2> QED BY <2>1, <2>2, <2>3 DEF DirectoryInv, PinsTrue, TextsMatch
<1>8. CASE UNCHANGED staffVars
  BY <1>2, <1>8 DEF staffVars
<1> QED BY <1>3, <1>4, <1>5, <1>6, <1>7, <1>8, StaffSteps, SaveOperatorStep, StorePlainPinStep,
           KeepPinStep, GetPinStep, RemoveOperatorStep, CleanupStep

(* The PIN operators.service.ts shows is one the operator can log in with,  *)
(* unless two requests dealt with the operator's PIN at a time.             *)
THEOREM ShownPinWorksHolds == PlatformSpec => []ShownPinWorks
<1>1. PlatformInit => DirectoryInv
  <2> SUFFICES ASSUME DeskInit PROVE DirectoryInv
    BY DEF PlatformInit
  <2>1. staff \in [Staff -> StaffRow \cup {Vacant}]
    <3>1. (CHOOSE p \in Pins : TRUE) \in Pins
      BY PinAssumption
    <3> QED BY <3>1 DEF DeskInit, StaffRow
  <2>2. StaffTypes /\ PinColumnKnown
    BY <2>1 DEF DeskInit, StaffTypes, PinColumnKnown
  <2>3. \A o \in Staff : Setting(o) = {}
    BY DEF DeskInit, Setting, Free
  <2>4. \A o \in Staff : PinsTrue(o)
    BY <2>3 DEF DeskInit, PinsTrue, TextsMatch
  <2> QED BY <2>2, <2>4 DEF DirectoryInv
<1>2. DirectoryInv /\ [PlatformNext]_platformVars => DirectoryInv'
  BY DirectoryStep
<1>3. DirectoryInv => ShownPinWorks
  BY DEF DirectoryInv, ShownPinWorks, PinsTrue, TextsMatch, Hired
<1> QED BY <1>1, <1>2, <1>3, PTL DEF PlatformSpec
-----------------------------------------------------------------------------
(* Campaigns before they are dialed: without a row there are no contacts,   *)
(* and an upload inserts no row that is there, so a row is one contact.     *)
CampaignRequest ==
  {AtRest} \cup [pc : {"edit"}, with : normalizePayload]
    \cup [pc : {"auto", "autowrite", "schedule", "delete"}]
    \cup [pc : {"import"}, rows : SUBSET PhoneNumbers]

CampaignInv ==
  /\ cmpReq \in [CampaignAdmins -> CampaignRequest]
  /\ cmp = [status |-> cmp.status, flow |-> cmp.flow, trunk |-> cmp.trunk, due |-> cmp.due,
            total |-> cmp.total]
  /\ ~Stored => cmp = NoCampaign /\ phones = {}
  /\ \A r \in CampaignAdmins : cmpReq[r].pc = "import" =>
       \A n \in cmpReq[r].rows : <<n, r>> \notin phones
  /\ TotalsTrue

(* A step of another component leaves the campaigns' desk alone.            *)
LEMMA CampaignDeskSteps ==
  ASSUME [PlatformNext]_platformVars
  PROVE  [CampaignDeskNext]_campaignDeskVars
BY DEF PlatformNext, Only, platformVars

(* A request goes on to q, neither being an upload, the contacts and their  *)
(* number staying as they are.                                              *)
LEMMA CampaignGotoStep ==
  ASSUME CampaignInv, NEW r \in CampaignAdmins, NEW q \in CampaignRequest, CampaignGoto(r, q),
         cmpReq[r].pc # "import", q.pc # "import", UNCHANGED <<phones, uploadCut>>,
         cmp' = [status |-> cmp'.status, flow |-> cmp'.flow, trunk |-> cmp'.trunk,
                 due |-> cmp'.due, total |-> cmp'.total],
         cmp'.total = cmp.total, Stored' <=> Stored, ~Stored => cmp' = cmp
  PROVE  CampaignInv'
<1>1. /\ cmpReq' \in [CampaignAdmins -> CampaignRequest] /\ cmpReq'[r] = q
      /\ \A s \in CampaignAdmins : s # r => cmpReq'[s] = cmpReq[s]
  BY DEF CampaignInv, CampaignGoto
<1>2. (\A s \in CampaignAdmins : cmpReq'[s].pc # "import")
        => \A s \in CampaignAdmins : cmpReq[s].pc # "import"
  BY <1>1
<1>3. TotalsTrue'
  BY <1>2 DEF CampaignInv, TotalsTrue, ContactCount
<1>4. ~Stored' => cmp' = NoCampaign /\ phones' = {}
  BY DEF CampaignInv
<1>5. \A s \in CampaignAdmins : cmpReq'[s].pc = "import" =>
        \A n \in cmpReq'[s].rows : <<n, s>> \notin phones'
  BY <1>1 DEF CampaignInv
<1> QED BY <1>1, <1>3, <1>4, <1>5 DEF CampaignInv

(* Every step of campaigns.service.ts preserves the invariant.              *)
LEMMA CampaignDeskStep ==
  ASSUME CampaignInv, [CampaignDeskNext]_campaignDeskVars
  PROVE  CampaignInv'
<1> USE DEF Stored
<1>1. CASE UNCHANGED campaignDeskVars
  BY <1>1 DEF CampaignInv, campaignDeskVars, TotalsTrue, ContactCount
<1>2. AtRest \in CampaignRequest /\ AtRest.pc = "rest"
  BY DEF AtRest, CampaignRequest
<1>3. Cardinality({}) = 0
  BY FS_EmptySet
<1>4. CASE createCampaign
  <2>1. PICK p \in normalizePayload :
          cmp' = [status |-> "draft", flow |-> p.flow, trunk |-> p.trunk, due |-> p.due, total |-> 0]
    BY <1>4 DEF createCampaign
  <2>2. phones' = {} /\ cmpReq' = cmpReq
    BY <1>4 DEF createCampaign, CampaignInv
  <2>3. cmp'.total = 0 /\ cmp'.status = "draft"
    BY <2>1
  <2> QED BY <1>3, <2>1, <2>2, <2>3 DEF CampaignInv, TotalsTrue, ContactCount
<1>5. CASE CampaignMoves
  <2>1. /\ UNCHANGED <<phones, cmpReq, uploadCut>> /\ Stored
        /\ cmp'.status # "none" /\ cmp'.total = cmp.total
        /\ cmp' = [status |-> cmp'.status, flow |-> cmp'.flow, trunk |-> cmp'.trunk,
                   due |-> cmp'.due, total |-> cmp'.total]
    <3>1. Stored
      BY <1>5 DEF CampaignMoves, CampaignInv, NoCampaign
    <3>2. PICK s, f, t, d :
            /\ cmp' = [status |-> s, flow |-> f, trunk |-> t, due |-> d, total |-> cmp.total]
            /\ s # "none"
      BY <1>5, <3>1 DEF CampaignMoves, CampaignInv
    <3> QED BY <1>5, <3>1, <3>2 DEF CampaignMoves
  <2> QED BY <2>1 DEF CampaignInv, TotalsTrue, ContactCount
<1>6. ASSUME NEW r \in CampaignAdmins, updateCampaign(r)
      PROVE  CampaignInv'
  <2>1. PICK p \in normalizePayload :
          /\ cmpReq[r] = AtRest /\ CampaignGoto(r, [pc |-> "edit", with |-> p])
          /\ UNCHANGED <<cmp, phones, uploadCut>>
    BY <1>6 DEF updateCampaign
  <2>2. [pc |-> "edit", with |-> p] \in CampaignRequest
    BY DEF CampaignRequest
  <2> QED BY <1>2, <2>1, <2>2, CampaignGotoStep DEF CampaignInv
<1>7. ASSUME NEW r \in CampaignAdmins, WriteEdit(r)
      PROVE  CampaignInv'
  <2>1. cmpReq[r].pc # "import" /\ [pc |-> "auto"] \in CampaignRequest
    BY <1>7 DEF WriteEdit, CampaignRequest
  <2>2. PICK p : cmp' = IF Stored THEN [cmp EXCEPT !.flow = p.flow, !.trunk = p.trunk, !.due = p.due]
                        ELSE cmp
    BY <1>7 DEF WriteEdit
  <2>3. /\ cmp' = [status |-> cmp'.status, flow |-> cmp'.flow, trunk |-> cmp'.trunk,
                   due |-> cmp'.due, total |-> cmp'.total]
        /\ cmp'.total = cmp.total /\ cmp'.status = cmp.status /\ (~Stored => cmp' = cmp)
    <3>1. CASE ~Stored
      BY <2>2, <3>1 DEF CampaignInv
    <3>2. CASE Stored
      <4>1. cmp' = [status |-> cmp.status, flow |-> p.flow, trunk |-> p.trunk, due |-> p.due,
                    total |-> cmp.total]
        BY <2>2, <3>2 DEF CampaignInv
      <4> QED BY <3>2, <4>1
    <3> QED BY <3>1, <3>2
  <2>4. CampaignGoto(r, [pc |-> "auto"]) /\ UNCHANGED <<phones, uploadCut>>
    BY <1>7 DEF WriteEdit
  <2> QED BY <2>1, <2>3, <2>4, CampaignGotoStep
<1>8. ASSUME NEW r \in CampaignAdmins, tryAutoSchedule(r) \/ scheduleCampaign(r)
      PROVE  CampaignInv'
  <2>1. PICK q \in {AtRest, [pc |-> "autowrite"], [pc |-> "schedule"]} : CampaignGoto(r, q)
    BY <1>8 DEF tryAutoSchedule, scheduleCampaign
  <2>2. q \in CampaignRequest /\ q.pc # "import" /\ cmpReq[r].pc # "import"
    BY <1>2, <1>8 DEF tryAutoSchedule, scheduleCampaign, CampaignRequest
  <2>3. UNCHANGED <<phones, uploadCut>>
    BY <1>8 DEF tryAutoSchedule, scheduleCampaign
  <2>4. cmp' = cmp \/ (Stored /\ cmp' = [cmp EXCEPT !.status = "scheduled"])
    BY <1>8 DEF tryAutoSchedule, scheduleCampaign
  <2>5. /\ cmp' = [status |-> cmp'.status, flow |-> cmp'.flow, trunk |-> cmp'.trunk,
                   due |-> cmp'.due, total |-> cmp'.total]
        /\ cmp'.total = cmp.total /\ (Stored' <=> Stored) /\ (~Stored => cmp' = cmp)
    <3>1. CASE cmp' = cmp
      BY <3>1 DEF CampaignInv
    <3>2. CASE Stored /\ cmp' = [cmp EXCEPT !.status = "scheduled"]
      <4>1. cmp' = [status |-> "scheduled", flow |-> cmp.flow, trunk |-> cmp.trunk, due |-> cmp.due,
                    total |-> cmp.total]
        BY <3>2 DEF CampaignInv
      <4> QED BY <3>2, <4>1
    <3> QED BY <2>4, <3>1, <3>2
  <2> QED BY <2>1, <2>2, <2>3, <2>5, CampaignGotoStep
<1>9. ASSUME NEW r \in CampaignAdmins, removeCampaign(r)
      PROVE  CampaignInv'
  <2>1. CASE CampaignGoto(r, [pc |-> "delete"]) /\ cmpReq[r] = AtRest
    <3>1. [pc |-> "delete"] \in CampaignRequest
      BY DEF CampaignRequest
    <3>2. UNCHANGED <<cmp, phones, uploadCut>>
      BY <1>2, <1>9, <2>1 DEF removeCampaign
    <3> QED BY <1>2, <2>1, <3>1, <3>2, CampaignGotoStep DEF CampaignInv
  <2>2. CASE cmpReq[r].pc = "delete"
    <3>1. cmp' = NoCampaign /\ phones' = {} /\ CampaignGoto(r, AtRest)
      BY <1>2, <1>9, <2>2 DEF removeCampaign
    <3>2. cmpReq' \in [CampaignAdmins -> CampaignRequest]
      BY <1>2, <3>1 DEF CampaignGoto, CampaignInv
    <3> QED BY <1>3, <3>1, <3>2 DEF CampaignInv, NoCampaign, TotalsTrue, ContactCount
  <2> QED BY <1>9, <2>1, <2>2 DEF removeCampaign
<1>10. ASSUME NEW r \in CampaignAdmins, uploadContacts(r)
       PROVE  CampaignInv'
  <2>1. PICK file \in SUBSET PhoneNumbers :
          /\ CampaignGoto(r, [pc |-> "import", rows |-> {n \in file : \A c \in phones : c[1] # n}])
          /\ UNCHANGED <<cmp, phones, uploadCut>>
    BY <1>10 DEF uploadContacts
  <2>2. PICK q \in CampaignRequest :
          /\ q = [pc |-> "import", rows |-> {n \in file : \A c \in phones : c[1] # n}]
          /\ q.pc = "import" /\ \A n \in q.rows : <<n, r>> \notin phones
    <3>1. PICK new \in SUBSET PhoneNumbers : new = {n \in file : \A c \in phones : c[1] # n}
      OBVIOUS
    <3>2. \A n \in new : <<n, r>> \notin phones
      <4> SUFFICES ASSUME NEW n \in new, <<n, r>> \in phones
                   PROVE  FALSE
        OBVIOUS
      <4>1. <<n, r>>[1] # n
        BY <3>1
      <4> QED BY <4>1
    <3>3. /\ [pc |-> "import", rows |-> new] \in CampaignRequest
          /\ [pc |-> "import", rows |-> new].pc = "import"
          /\ [pc |-> "import", rows |-> new].rows = new
      BY DEF CampaignRequest
    <3> QED BY <3>1, <3>2, <3>3
  <2>3. /\ cmpReq' \in [CampaignAdmins -> CampaignRequest] /\ cmpReq'[r] = q
        /\ \A s \in CampaignAdmins : s # r => cmpReq'[s] = cmpReq[s]
    BY <2>1, <2>2 DEF CampaignInv, CampaignGoto
  <2>4. TotalsTrue'
    BY <2>2, <2>3 DEF TotalsTrue
  <2> QED BY <2>1, <2>2, <2>3, <2>4 DEF CampaignInv
<1>11. ASSUME NEW r \in CampaignAdmins, ImportRow(r)
       PROVE  CampaignInv'
  <2>1. CASE ~Stored
    <3>1. CampaignGoto(r, AtRest) /\ UNCHANGED <<cmp, phones, uploadCut>>
      BY <1>11, <2>1 DEF ImportRow
    <3>2. cmpReq' \in [CampaignAdmins -> CampaignRequest] /\ cmpReq'[r] = AtRest
          /\ \A s \in CampaignAdmins : s # r => cmpReq'[s] = cmpReq[s]
      BY <1>2, <3>1 DEF CampaignGoto, CampaignInv
    <3>3. cmp'.total = 0 /\ phones' = {}
      BY <2>1, <3>1 DEF CampaignInv, NoCampaign
    <3>4. TotalsTrue'
      BY <1>3, <3>3 DEF TotalsTrue, ContactCount
    <3> QED BY <1>2, <3>1, <3>2, <3>4 DEF CampaignInv
  <2>2. CASE Stored
    <3>1. PICK n \in cmpReq[r].rows :
            /\ phones' = phones \cup {<<n, r>>}
            /\ CampaignGoto(r, [cmpReq[r] EXCEPT !.rows = @ \ {n}])
      BY <1>11, <2>2 DEF ImportRow
    <3>2. cmpReq[r] \in [pc : {"import"}, rows : SUBSET PhoneNumbers]
      BY <1>11, <1>2 DEF ImportRow, CampaignInv, CampaignRequest, AtRest
    <3>3. PICK q \in [pc : {"import"}, rows : SUBSET PhoneNumbers] :
            q = [cmpReq[r] EXCEPT !.rows = @ \ {n}] /\ q.rows = cmpReq[r].rows \ {n}
      <4>1. /\ [cmpReq[r] EXCEPT !.rows = @ \ {n}] \in [pc : {"import"}, rows : SUBSET PhoneNumbers]
            /\ [cmpReq[r] EXCEPT !.rows = @ \ {n}].rows = cmpReq[r].rows \ {n}
        BY <3>2
      <4> QED BY <4>1
    <3>4. /\ cmpReq' \in [CampaignAdmins -> CampaignRequest] /\ cmpReq'[r] = q
          /\ \A s \in CampaignAdmins : s # r => cmpReq'[s] = cmpReq[s]
      BY <3>1, <3>3 DEF CampaignGoto, CampaignInv, CampaignRequest
    <3>5. TotalsTrue' /\ cmp' = cmp
      BY <1>11, <3>3, <3>4 DEF ImportRow, TotalsTrue
    <3>6. \A s \in CampaignAdmins : cmpReq'[s].pc = "import" =>
            \A m \in cmpReq'[s].rows : <<m, s>> \notin phones'
      BY <1>11, <3>1, <3>3, <3>4 DEF ImportRow, CampaignInv
    <3> QED BY <2>2, <3>4, <3>5, <3>6 DEF CampaignInv
  <2> QED BY <2>1, <2>2
<1>12. ASSUME NEW r \in CampaignAdmins, CountContacts(r)
       PROVE  CampaignInv'
  <2>1. /\ CampaignGoto(r, AtRest) /\ UNCHANGED <<phones, uploadCut>>
        /\ cmp' = IF Stored THEN [cmp EXCEPT !.total = ContactCount] ELSE cmp
    BY <1>12 DEF CountContacts
  <2>2. /\ cmpReq' \in [CampaignAdmins -> CampaignRequest] /\ cmpReq'[r] = AtRest
        /\ \A s \in CampaignAdmins : s # r => cmpReq'[s] = cmpReq[s]
    BY <1>2, <2>1 DEF CampaignGoto, CampaignInv
  <2>3. CASE ~Stored
    <3>1. cmp' = cmp
      BY <2>1, <2>3
    <3>2. cmp'.total = 0 /\ phones' = {}
      BY <2>1, <2>3, <3>1 DEF CampaignInv, NoCampaign
    <3>3. TotalsTrue'
      BY <1>3, <3>2 DEF TotalsTrue, ContactCount
    <3> QED BY <1>2, <2>1, <2>2, <3>1, <3>3 DEF CampaignInv
  <2>4. CASE Stored
    <3>1. cmp' = [status |-> cmp.status, flow |-> cmp.flow, trunk |-> cmp.trunk, due |-> cmp.due,
                  total |-> ContactCount]
      BY <2>1, <2>4 DEF CampaignInv
    <3>2. ContactCount' = ContactCount
      BY <2>1 DEF ContactCount
    <3> HIDE DEF ContactCount
    <3> QED BY <1>2, <2>1, <2>2, <2>4, <3>1, <3>2 DEF CampaignInv, TotalsTrue
  <2> QED BY <2>3, <2>4
<1>13. ASSUME NEW r \in CampaignAdmins, RequestCut(r)
       PROVE  CampaignInv'
  <2>1. CampaignGoto(r, AtRest) /\ UNCHANGED <<cmp, phones>>
    BY <1>13 DEF RequestCut
  <2>2. /\ cmpReq' \in [CampaignAdmins -> CampaignRequest] /\ cmpReq'[r] = AtRest
        /\ \A s \in CampaignAdmins : s # r => cmpReq'[s] = cmpReq[s]
    BY <1>2, <2>1 DEF CampaignGoto, CampaignInv
  <2>3. ~uploadCut' => ~uploadCut /\ cmpReq[r].pc # "import"
    BY <1>13 DEF RequestCut
  <2>4. TotalsTrue'
    BY <2>1, <2>2, <2>3 DEF CampaignInv, TotalsTrue, ContactCount
  <2> QED BY <1>2, <2>1, <2>2, <2>4 DEF CampaignInv
<1> QED
  BY <1>1, <1>4, <1>5, <1>6, <1>7, <1>8, <1>9, <1>10, <1>11, <1>12, <1>13 DEF CampaignDeskNext

(* The number of contacts a campaign shows is the number of its rows, once  *)
(* no upload is under way and unless one was cut off.                       *)
THEOREM TotalsTrueHolds == PlatformSpec => []TotalsTrue
<1>1. PlatformInit => CampaignInv
  <2>1. Cardinality({}) = 0
    BY FS_EmptySet
  <2> QED BY <2>1 DEF PlatformInit, CampaignDeskInit, CampaignInv, CampaignRequest, AtRest,
                      NoCampaign, Stored, TotalsTrue, ContactCount
<1>2. CampaignInv /\ [PlatformNext]_platformVars => CampaignInv'
  BY CampaignDeskSteps, CampaignDeskStep
<1>3. CampaignInv => TotalsTrue
  BY DEF CampaignInv
<1> QED BY <1>1, <1>2, <1>3, PTL DEF PlatformSpec
-----------------------------------------------------------------------------
(* Call quality: what is under way are entries of calls, the stream numbers *)
(* its entries apart, and a row stands for exactly the entries merged into  *)
(* it: its score is the score of one of them and no better than any.        *)
QualityEntry == [id : Nat, call : QualityCalls, jitter : Nat, loss : Nat]
MergedOf(c) == {y \in merged : y.call = c}

QualityTypes ==
  /\ reports \in Nat /\ delivered \in Nat
  /\ accumulator \in [QualityCalls -> {NoReport} \cup [jitter : Nat, loss : Nat]]
  /\ adding \subseteq QualityEntry /\ merged \subseteq QualityEntry
  /\ reading \in Seq(QualityEntry)
  /\ DOMAIN quality = QualityCalls

StreamNumbered ==
  /\ IsFiniteSet(entries)
  /\ \A x \in entries : x.seq \in Nat /\ x.of \in QualityEntry
  /\ \A x, y \in entries : x.seq = y.seq => x = y

(* The row stands for the entries M.                                        *)
RowOf(row, M) ==
  /\ M = {} => row = NoReport
  /\ M # {} =>
       /\ row = [jitter |-> row.jitter, loss |-> row.loss, mos |-> row.mos, grade |-> Grade(row.mos)]
       /\ row.jitter \in Nat /\ row.loss \in Nat /\ row.mos \in Int
       /\ \E x \in M : row.mos = computeMos(x)
       /\ \A x \in M : row.jitter >= x.jitter /\ row.loss >= x.loss /\ row.mos <= computeMos(x)

QualityInv ==
  QualityTypes /\ StreamNumbered /\ \A c \in QualityCalls : RowOf(quality[c], MergedOf(c))

(* The elements of S with a lower key than x.                               *)
Lower(S, key, x) == {y \in S : key[y] < key[x]}

(* Of finitely many elements with different keys, some element has any given *)
(* number of others below it.                                               *)
LEMMA RankOccupied ==
  ASSUME NEW S, IsFiniteSet(S), NEW key \in [S -> Int],
         \A x, y \in S : key[x] = key[y] => x = y,
         NEW k \in 0..(Cardinality(S) - 1)
  PROVE  \E x \in S : Cardinality(Lower(S, key, x)) = k
<1> DEFINE Below(x) == {y \in S : key[y] < key[x]}
           n == Cardinality(S)
           rank == [x \in S |-> Cardinality(Below(x))]
<1>1. n \in Nat
  BY FS_CardinalityType
<1>2. ASSUME NEW x \in S
      PROVE  /\ IsFiniteSet(Below(x)) /\ Cardinality(Below(x)) \in Int
             /\ Cardinality(Below(x)) \in 0..(n - 1)
  <2>1. Below(x) \in SUBSET S /\ Below(x) # S
    OBVIOUS
  <2>2. IsFiniteSet(Below(x)) /\ Cardinality(Below(x)) <= n /\ Cardinality(Below(x)) # n
    BY <2>1, FS_Subset
  <2>3. Cardinality(Below(x)) \in Nat
    BY <2>2, FS_CardinalityType
  <2> QED BY <1>1, <2>2, <2>3
<1>3. ASSUME NEW x \in S, NEW y \in S, key[x] < key[y]
      PROVE  Cardinality(Below(x)) < Cardinality(Below(y))
  <2>1. Below(x) \in SUBSET Below(y) /\ x \in Below(y) /\ x \notin Below(x)
    BY <1>3
  <2>2. /\ Cardinality(Below(x)) <= Cardinality(Below(y))
        /\ Cardinality(Below(x)) # Cardinality(Below(y))
    BY <1>2, <2>1, FS_Subset
  <2>3. Cardinality(Below(x)) \in Int /\ Cardinality(Below(y)) \in Int
    BY <1>2, Zenon
  <2> HIDE DEF Below
  <2> QED BY <2>2, <2>3
<1>4. rank \in Injection(S, 0..(n - 1))
  <2>1. rank \in [S -> 0..(n - 1)]
    BY <1>2
  <2>2. ASSUME NEW x \in S, NEW y \in S, x # y
        PROVE  rank[x] # rank[y]
    <3>1. key[x] < key[y] \/ key[y] < key[x]
      BY <2>2
    <3>2. Cardinality(Below(x)) \in Int /\ Cardinality(Below(y)) \in Int
      BY <1>2, Zenon
    <3>3. \/ Cardinality(Below(x)) < Cardinality(Below(y))
          \/ Cardinality(Below(y)) < Cardinality(Below(x))
      BY <1>3, <3>1
    <3>4. rank[x] = Cardinality(Below(x)) /\ rank[y] = Cardinality(Below(y))
      OBVIOUS
    <3> HIDE DEF Below, rank
    <3> QED BY <3>2, <3>3, <3>4
  <2> HIDE DEF rank, n
  <2> QED BY <2>1, <2>2 DEF Injection, IsInjective
<1>5. IsFiniteSet(0..(n - 1)) /\ Cardinality(0..(n - 1)) = n
  BY <1>1, FS_Interval
<1>6. rank \in Surjection(S, 0..(n - 1))
  BY <1>4, <1>5, FS_Injection
<1>7. PICK x \in S : rank[x] = k
  BY <1>6 DEF Surjection
<1> QED BY <1>7 DEF Lower

(* A finite set of numbers has a greatest element.                          *)
LEMMA FiniteMax ==
  ASSUME NEW S, S \in SUBSET Int, IsFiniteSet(S), S # {}
  PROVE  Max(S) \in S /\ \A y \in S : Max(S) >= y
<1>1. Cardinality(S) \in Nat /\ Cardinality(S) # 0
  BY FS_CardinalityType, FS_EmptySet
<1>2. PICK key \in [S -> Int] : \A x \in S : key[x] = -x
  <2>1. [x \in S |-> -x] \in [S -> Int]
    OBVIOUS
  <2> QED BY <2>1
<1>3. 0 \in 0..(Cardinality(S) - 1)
  BY <1>1
<1>4. \A x, y \in S : key[x] = key[y] => x = y
  BY <1>2
<1>5. PICK x \in S : Cardinality(Lower(S, key, x)) = 0
  BY <1>2, <1>3, <1>4, RankOccupied
<1>6. Lower(S, key, x) \in SUBSET S
  BY DEF Lower
<1>7. Lower(S, key, x) = {}
  BY <1>5, <1>6, FS_Subset, FS_EmptySet
<1>8. \A y \in S : x >= y
  BY <1>2, <1>7 DEF Lower
<1> QED BY <1>8 DEF Max

(* The greater of two numbers.                                              *)
LEMMA GreaterOfTwo ==
  ASSUME NEW a \in Int, NEW b \in Int
  PROVE  Max({a, b}) \in {a, b} /\ Max({a, b}) >= a /\ Max({a, b}) >= b
<1>1. \E x \in {a, b} : \A y \in {a, b} : x >= y
  OBVIOUS
<1> QED BY <1>1 DEF Max

(* The lesser of two numbers.                                               *)
LEMMA LesserOfTwo ==
  ASSUME NEW a \in Int, NEW b \in Int
  PROVE  Min({a, b}) \in {a, b} /\ Min({a, b}) <= a /\ Min({a, b}) <= b
<1>1. \E x \in {a, b} : \A y \in {a, b} : x =< y
  OBVIOUS
<1> QED BY <1>1 DEF Min

(* computeMos is a whole number of hundredths.                              *)
LEMMA MosType ==
  ASSUME NEW e, e.jitter \in Nat, e.loss \in Nat
  PROVE  computeMos(e) \in Int
<1> DEFINE r == 932 - 2 * e.jitter - 25 * e.loss
           score == 100 + (35 * r + (7 * r * (r - 600) * (1000 - r)) \div 100000) \div 100
<1>1. r \in Int
  OBVIOUS
<1> HIDE DEF r
<1>2. 7 * r * (r - 600) * (1000 - r) \in Int
  BY <1>1
<1>3. PICK z \in Int : z = (7 * r * (r - 600) * (1000 - r)) \div 100000
  BY <1>2
<1>4. score \in Int
  BY <1>1, <1>3
<1> HIDE DEF score
<1>5. \A x \in Int : Min({500, x}) \in {500, x}
  <2>1. PICK y \in Int : y = 500
    OBVIOUS
  <2>2. \A x \in Int : Min({y, x}) \in {y, x}
    BY LesserOfTwo, Zenon
  <2> QED BY <2>1, <2>2
<1>6. PICK m \in Int : m = Min({500, score})
  BY <1>4, <1>5
<1>7. Max({100, m}) \in Int
  <2>1. 100 \in Int
    OBVIOUS
  <2>2. Max({100, m}) \in {100, m}
    BY <2>1, GreaterOfTwo, Zenon
  <2> QED BY <2>2
<1>8. computeMos(e) = IF r <= 0 THEN 100 ELSE IF r >= 1000 THEN 500 ELSE Max({100, Min({500, score})})
  BY DEF computeMos, r, score
<1> QED BY <1>6, <1>7, <1>8
(* A step of another component leaves call quality alone.                   *)
LEMMA QualitySteps ==
  ASSUME [PlatformNext]_platformVars
  PROVE  [QualityNext]_qualityVars
BY DEF PlatformNext, Only, platformVars

(* Merging an entry into the row of the entries M makes it the row of M and *)
(* the entry.                                                               *)
LEMMA UpsertMerges ==
  ASSUME NEW M \in SUBSET QualityEntry, NEW e \in QualityEntry, NEW row, RowOf(row, M)
  PROVE  RowOf(upsertQuality(row, e), M \cup {e})
<1>1. /\ e.jitter \in Nat /\ e.loss \in Nat
      /\ \A x \in M : x.jitter \in Nat /\ x.loss \in Nat
  BY DEF QualityEntry
<1>2. PICK m \in Int : m = computeMos(e)
  BY <1>1, MosType
<1>3. \A x \in M : computeMos(x) \in Int
  BY <1>1, MosType
<1>4. CASE row = NoReport
  <2>1. M = {}
    <3>1. NoReport.jitter \notin Nat
      BY DEF NoReport
    <3> QED BY <1>4, <3>1 DEF RowOf
  <2>2. upsertQuality(row, e) = [jitter |-> e.jitter, loss |-> e.loss, mos |-> m, grade |-> Grade(m)]
    BY <1>2, <1>4 DEF upsertQuality
  <2>3. PICK new : new = upsertQuality(row, e)
    OBVIOUS
  <2>4. new.jitter = e.jitter /\ new.loss = e.loss /\ new.mos = m /\ new.grade = Grade(m)
    BY <2>2, <2>3
  <2>5. new = [jitter |-> new.jitter, loss |-> new.loss, mos |-> new.mos, grade |-> Grade(new.mos)]
    BY <2>2, <2>3, <2>4
  <2>6. RowOf(new, {e})
    BY <1>1, <1>2, <2>4, <2>5 DEF RowOf
  <2> QED BY <2>1, <2>3, <2>6
<1>5. CASE row # NoReport
  <2>1. M # {}
    BY <1>5 DEF RowOf
  <2>2. /\ row = [jitter |-> row.jitter, loss |-> row.loss, mos |-> row.mos, grade |-> Grade(row.mos)]
        /\ row.jitter \in Nat /\ row.loss \in Nat /\ row.mos \in Int
        /\ \E x \in M : row.mos = computeMos(x)
        /\ \A x \in M : row.jitter >= x.jitter /\ row.loss >= x.loss /\ row.mos <= computeMos(x)
    BY <2>1 DEF RowOf
  <2>3. CASE m < row.mos \/ e.jitter > row.jitter \/ e.loss > row.loss
    <3>1. PICK j \in Nat : j = Max({row.jitter, e.jitter}) /\ j >= row.jitter /\ j >= e.jitter
      <4>1. row.jitter \in Int /\ e.jitter \in Int
        BY <1>1, <2>2
      <4>2. /\ Max({row.jitter, e.jitter}) \in {row.jitter, e.jitter}
            /\ Max({row.jitter, e.jitter}) >= row.jitter /\ Max({row.jitter, e.jitter}) >= e.jitter
        BY <4>1, GreaterOfTwo
      <4> QED BY <1>1, <2>2, <4>2
    <3>2. PICK l \in Nat : l = Max({row.loss, e.loss}) /\ l >= row.loss /\ l >= e.loss
      <4>1. row.loss \in Int /\ e.loss \in Int
        BY <1>1, <2>2
      <4>2. /\ Max({row.loss, e.loss}) \in {row.loss, e.loss}
            /\ Max({row.loss, e.loss}) >= row.loss /\ Max({row.loss, e.loss}) >= e.loss
        BY <4>1, GreaterOfTwo
      <4> QED BY <1>1, <2>2, <4>2
    <3>3. PICK s \in Int : s = Min({row.mos, m}) /\ s \in {row.mos, m} /\ s <= row.mos /\ s <= m
      <4>1. /\ Min({row.mos, m}) \in {row.mos, m}
            /\ Min({row.mos, m}) <= row.mos /\ Min({row.mos, m}) <= m
        BY <2>2, LesserOfTwo
      <4> QED BY <2>2, <4>1
    <3>4. upsertQuality(row, e) = [jitter |-> j, loss |-> l, mos |-> s, grade |-> Grade(s)]
      BY <1>2, <1>5, <2>3, <3>1, <3>2, <3>3 DEF upsertQuality
    <3>5. PICK new : new = upsertQuality(row, e)
      OBVIOUS
    <3>6. new.jitter = j /\ new.loss = l /\ new.mos = s
      BY <3>4, <3>5
    <3>7. new = [jitter |-> new.jitter, loss |-> new.loss, mos |-> new.mos, grade |-> Grade(new.mos)]
      BY <3>4, <3>5, <3>6
    <3>8. \E x \in M \cup {e} : s = computeMos(x)
      BY <1>2, <2>2, <3>3
    <3>9. \A x \in M \cup {e} : j >= x.jitter /\ l >= x.loss /\ s <= computeMos(x)
      BY <1>1, <1>2, <1>3, <2>2, <3>1, <3>2, <3>3
    <3> QED BY <3>1, <3>2, <3>3, <3>5, <3>6, <3>7, <3>8, <3>9 DEF RowOf
  <2>4. CASE ~(m < row.mos \/ e.jitter > row.jitter \/ e.loss > row.loss)
    <3>1. upsertQuality(row, e) = row
      BY <1>2, <1>5, <2>4 DEF upsertQuality
    <3>2. \A x \in M \cup {e} : row.jitter >= x.jitter /\ row.loss >= x.loss /\ row.mos <= computeMos(x)
      BY <1>1, <1>2, <2>2, <2>4
    <3> QED BY <2>2, <3>1, <3>2 DEF RowOf
  <2> QED BY <2>3, <2>4
<1> QED BY <1>4, <1>5
(* XADD numbers the entry above all that the stream holds, and XTRIM only   *)
(* takes entries away.                                                      *)
LEMMA AddEntryStep ==
  ASSUME QualityTypes, StreamNumbered, NEW e \in adding, AddEntry(e)
  PROVE  StreamNumbered'
<1> DEFINE seqs == {x.seq : x \in entries}
<1>1. seqs \in SUBSET Int /\ IsFiniteSet(seqs)
  <2>1. seqs \in SUBSET Int
    BY DEF StreamNumbered
  <2>2. [x \in entries |-> x.seq] \in Surjection(entries, seqs)
    BY DEF Surjection
  <2>3. IsFiniteSet(entries)
    BY DEF StreamNumbered
  <2> HIDE DEF seqs
  <2>4. IsFiniteSet(seqs)
    BY <2>2, <2>3, FS_Surjection
  <2> QED BY <2>1, <2>4
<1>2. PICK last \in Int : last = Max(seqs \cup {delivered}) /\ last >= delivered /\ \A x \in entries : last >= x.seq
  <2>1. delivered \in Int
    BY DEF QualityTypes
  <2>2. PICK S : S = seqs \cup {delivered}
    OBVIOUS
  <2>3. IsFiniteSet(S)
    BY <1>1, <2>2, FS_AddElement
  <2>4. S \in SUBSET Int /\ S # {}
    BY <1>1, <2>1, <2>2
  <2>5. Max(S) \in S /\ \A y \in S : Max(S) >= y
    BY <2>3, <2>4, FiniteMax
  <2>6. \A x \in entries : x.seq \in S
    BY <2>2
  <2>7. delivered \in S
    BY <2>2
  <2> QED BY <2>2, <2>4, <2>5, <2>6, <2>7
<1>3. last \in Nat
  BY <1>2 DEF QualityTypes
<1>4. PICK new : new = [seq |-> last + 1, of |-> e]
  OBVIOUS
<1>5. new.seq = last + 1 /\ new.of = e
  BY <1>4
<1>6. entries' \subseteq entries \cup {new}
  BY <1>2, <1>4 DEF AddEntry
<1>7. IsFiniteSet(entries \cup {new})
  BY FS_AddElement DEF StreamNumbered
<1>8. IsFiniteSet(entries')
  BY <1>6, <1>7, FS_Subset
<1>9. \A x \in entries \cup {new} : x.seq \in Nat /\ x.of \in QualityEntry
  BY <1>3, <1>5 DEF StreamNumbered, QualityTypes
<1>10. \A x, y \in entries \cup {new} : x.seq = y.seq => x = y
  <2>1. \A x \in entries : x.seq \in Nat /\ x.seq # new.seq
    BY <1>2, <1>3, <1>5 DEF StreamNumbered
  <2> QED BY <2>1 DEF StreamNumbered
<1> QED BY <1>6, <1>8, <1>9, <1>10 DEF StreamNumbered

(* A batch holds entries of the stream, in the order of their numbers: each *)
(* place of it is taken, since the numbers differ.                          *)
LEMMA ReadBatchStep ==
  ASSUME QualityTypes, StreamNumbered, ReadBatch
  PROVE  reading' \in Seq(QualityEntry) /\ delivered' \in Nat
<1>1. PICK n \in 1..BatchSize, got \in SUBSET entries :
        /\ Cardinality(got) = n
        /\ reading' = [i \in 1..n |-> (CHOOSE x \in got : Cardinality({y \in got : y.seq < x.seq}) = i - 1).of]
        /\ delivered' = Max({x.seq : x \in got})
  <2>1. PICK n \in 1..BatchSize :
          LET new == {x \in entries : x.seq > delivered}
              got == {x \in new : Cardinality({y \in new : y.seq < x.seq}) < n}
          IN /\ Cardinality(got) = n
             /\ reading' = [i \in 1..n |->
                              (CHOOSE x \in got : Cardinality({y \in got : y.seq < x.seq}) = i - 1).of]
             /\ delivered' = Max({x.seq : x \in got})
    BY DEF ReadBatch
  <2>2. PICK new \in SUBSET entries : new = {x \in entries : x.seq > delivered}
    OBVIOUS
  <2>3. PICK got \in SUBSET new : got = {x \in new : Cardinality({y \in new : y.seq < x.seq}) < n}
    OBVIOUS
  <2>4. got \in SUBSET entries
    BY <2>2, <2>3
  <2> QED BY <2>1, <2>2, <2>3, <2>4
<1>2. n \in Nat /\ n >= 1
  BY QualityAssumption
<1>3. IsFiniteSet(got) /\ \A x \in got : x.seq \in Nat /\ x.of \in QualityEntry
  BY FS_Subset DEF StreamNumbered
<1>4. PICK key \in [got -> Int] : \A x \in got : key[x] = x.seq
  <2>1. [x \in got |-> x.seq] \in [got -> Int]
    BY <1>3
  <2> QED BY <2>1
<1>5. \A x, y \in got : key[x] = key[y] => x = y
  BY <1>4 DEF StreamNumbered
<1>6. \A x \in got : Lower(got, key, x) = {y \in got : y.seq < x.seq}
  BY <1>4 DEF Lower
<1>7. ASSUME NEW i \in 1..n
      PROVE  (CHOOSE x \in got : Cardinality({y \in got : y.seq < x.seq}) = i - 1) \in got
  <2>1. i - 1 \in 0..(Cardinality(got) - 1)
    BY <1>1, <1>2
  <2>2. \E x \in got : Cardinality(Lower(got, key, x)) = i - 1
    BY <1>3, <1>4, <1>5, <2>1, RankOccupied
  <2>3. \E x \in got : Cardinality({y \in got : y.seq < x.seq}) = i - 1
    BY <1>6, <2>2
  <2> QED BY <2>3
<1>8. reading' \in [1..n -> QualityEntry]
  BY <1>1, <1>3, <1>7
<1>9. reading' \in Seq(QualityEntry)
  BY <1>2, <1>8
<1>10. delivered' \in Nat
  <2>1. PICK S : S = {x.seq : x \in got}
    OBVIOUS
  <2>2. S \in SUBSET Int /\ S \subseteq Nat
    BY <1>3, <2>1
  <2>3. key \in Surjection(got, S)
    BY <1>4, <2>1, <2>2 DEF Surjection
  <2>4. IsFiniteSet(S)
    BY <1>3, <2>3, FS_Surjection
  <2>5. got # {}
    BY <1>1, <1>2, FS_EmptySet
  <2>6. S # {}
    BY <2>1, <2>5
  <2>7. Max(S) \in S
    BY <2>2, <2>4, <2>6, FiniteMax
  <2> QED BY <1>1, <2>1, <2>2, <2>7
<1> QED BY <1>9, <1>10

(* Every step from the reports to the row preserves the invariant.          *)
LEMMA QualityStep ==
  ASSUME QualityInv, [QualityNext]_qualityVars
  PROVE  QualityInv'
<1>1. QualityTypes /\ StreamNumbered /\ \A c \in QualityCalls : RowOf(quality[c], MergedOf(c))
  BY DEF QualityInv
<1>2. ASSUME UNCHANGED <<entries, quality, merged>>, QualityTypes'
      PROVE  QualityInv'
  BY <1>1, <1>2 DEF QualityInv, StreamNumbered, MergedOf
<1>3. CASE \/ UNCHANGED qualityVars \/ startSipTrafficMonitor \/ SocketLost \/ StasisRestarts
           \/ ReportSkipped \/ QualityStarts \/ QualityStops \/ ProcessFails
  <2>1. UNCHANGED <<entries, quality, merged>>
    BY <1>3 DEF qualityVars, startSipTrafficMonitor, SocketLost, StasisRestarts, ReportSkipped,
                QualityStarts, QualityStops, ProcessFails
  <2>2. reports' \in Nat /\ UNCHANGED delivered /\ adding' \subseteq adding
    BY <1>1, <1>3 DEF qualityVars, startSipTrafficMonitor, SocketLost, StasisRestarts, ReportSkipped,
                      QualityStarts, QualityStops, ProcessFails, QualityTypes
  <2>3. accumulator' \in [QualityCalls -> {NoReport} \cup [jitter : Nat, loss : Nat]]
    BY <1>1, <1>3 DEF qualityVars, startSipTrafficMonitor, SocketLost, StasisRestarts, ReportSkipped,
                      QualityStarts, QualityStops, ProcessFails, QualityTypes
  <2>4. reading' = reading \/ reading' = <<>>
    BY <1>3 DEF qualityVars, startSipTrafficMonitor, SocketLost, StasisRestarts, ReportSkipped,
                QualityStarts, QualityStops, ProcessFails
  <2>5. reading' \in Seq(QualityEntry)
    <3>1. reading \in Seq(QualityEntry)
      BY <1>1 DEF QualityTypes
    <3>2. <<>> \in Seq(QualityEntry)
      OBVIOUS
    <3> QED BY <2>4, <3>1, <3>2
  <2> QED BY <1>1, <1>2, <2>1, <2>2, <2>3, <2>5 DEF QualityTypes
<1>4. ASSUME NEW c \in QualityCalls, handleAmiRtcpEvent(c)
      PROVE  QualityInv'
  <2>1. PICK j \in Nat, l \in Nat :
          LET d == [jitter |-> j, loss |-> l]
              w == worseDirection(accumulator[c], d)
          IN IF accumulator[c] = NoReport
             THEN accumulator' = [accumulator EXCEPT ![c] = d] /\ UNCHANGED adding
             ELSE /\ accumulator' = [accumulator EXCEPT ![c] = NoReport]
                  /\ adding' = adding \cup {[id |-> reports', call |-> c, jitter |-> w.jitter, loss |-> w.loss]}
    BY <1>4, QualityAssumption DEF handleAmiRtcpEvent
  <2>2. reports' \in Nat /\ UNCHANGED <<entries, quality, merged, delivered, reading>>
    BY <1>1, <1>4 DEF handleAmiRtcpEvent, QualityTypes
  <2>3. CASE accumulator[c] = NoReport
    BY <1>1, <1>2, <2>1, <2>2, <2>3 DEF QualityTypes
  <2>4. CASE accumulator[c] # NoReport
    <3>1. accumulator[c].jitter \in Nat /\ accumulator[c].loss \in Nat
      <4>1. accumulator[c] \in {NoReport} \cup [jitter : Nat, loss : Nat]
        BY <1>1 DEF QualityTypes
      <4>2. accumulator[c] \in [jitter : Nat, loss : Nat]
        BY <2>4, <4>1
      <4> QED BY <4>2
    <3>2. PICK wj \in Nat : wj = Max({accumulator[c].jitter, j})
      <4>1. accumulator[c].jitter \in Int /\ j \in Int
        BY <3>1
      <4>2. Max({accumulator[c].jitter, j}) \in {accumulator[c].jitter, j}
        BY <4>1, GreaterOfTwo
      <4> QED BY <3>1, <4>2
    <3>3. PICK wl \in Nat : wl = Max({accumulator[c].loss, l})
      <4>1. accumulator[c].loss \in Int /\ l \in Int
        BY <3>1
      <4>2. Max({accumulator[c].loss, l}) \in {accumulator[c].loss, l}
        BY <4>1, GreaterOfTwo
      <4> QED BY <3>1, <4>2
    <3>4. worseDirection(accumulator[c], [jitter |-> j, loss |-> l]) = [jitter |-> wj, loss |-> wl]
      BY <3>2, <3>3 DEF worseDirection
    <3>5. /\ accumulator' = [accumulator EXCEPT ![c] = NoReport]
          /\ adding' = adding \cup {[id |-> reports', call |-> c, jitter |-> wj, loss |-> wl]}
      BY <2>1, <2>4, <3>4
    <3>6. [id |-> reports', call |-> c, jitter |-> wj, loss |-> wl] \in QualityEntry
      BY <2>2 DEF QualityEntry
    <3> QED BY <1>1, <1>2, <2>2, <3>5, <3>6 DEF QualityTypes
  <2> QED BY <2>3, <2>4
<1>5. ASSUME NEW c \in QualityCalls, ChannelEnds(c)
      PROVE  QualityInv'
  BY <1>1, <1>2, <1>5 DEF ChannelEnds, QualityTypes
<1>6. ASSUME NEW e \in adding, AddEntry(e)
      PROVE  QualityInv'
  <2>1. StreamNumbered'
    BY <1>1, <1>6, AddEntryStep
  <2>2. QualityTypes' /\ UNCHANGED <<quality, merged>>
    BY <1>1, <1>6 DEF AddEntry, QualityTypes
  <2> QED BY <1>1, <2>1, <2>2 DEF QualityInv, MergedOf
<1>7. ASSUME NEW e \in adding, AddFails(e)
      PROVE  QualityInv'
  BY <1>1, <1>2, <1>7 DEF AddFails, QualityTypes
<1>8. CASE ReadBatch
  <2>1. reading' \in Seq(QualityEntry) /\ delivered' \in Nat
    BY <1>1, <1>8, ReadBatchStep
  <2>2. UNCHANGED <<accumulator, adding, entries, quality, merged, reports>>
    BY <1>8 DEF ReadBatch
  <2> QED BY <1>1, <1>2, <2>1, <2>2 DEF QualityTypes
<1>9. CASE processStreamMessage
  <2>1. Head(reading) \in QualityEntry /\ Tail(reading) \in Seq(QualityEntry)
    BY <1>1, <1>9 DEF processStreamMessage, QualityTypes
  <2>2. PICK e \in QualityEntry : e = Head(reading)
    BY <2>1
  <2>3. /\ quality' = [quality EXCEPT ![e.call] = upsertQuality(@, e)]
        /\ merged' = merged \cup {e} /\ reading' = Tail(reading)
        /\ UNCHANGED <<accumulator, adding, entries, delivered, reports>>
    BY <1>9, <2>2 DEF processStreamMessage
  <2>4. QualityTypes' /\ StreamNumbered'
    BY <1>1, <2>1, <2>3 DEF QualityTypes, StreamNumbered
  <2>5. e.call \in QualityCalls
    BY DEF QualityEntry
  <2>6. ASSUME NEW c \in QualityCalls
        PROVE  RowOf(quality'[c], MergedOf(c)')
    <3>1. CASE c = e.call
      <4>1. quality'[c] = upsertQuality(quality[c], e)
        BY <1>1, <2>3, <3>1 DEF QualityTypes
      <4>2. MergedOf(c)' = MergedOf(c) \cup {e}
        BY <2>3, <3>1 DEF MergedOf
      <4>3. MergedOf(c) \in SUBSET QualityEntry
        BY <1>1 DEF MergedOf, QualityTypes
      <4> QED BY <1>1, <4>1, <4>2, <4>3, UpsertMerges
    <3>2. CASE c # e.call
      <4>1. quality'[c] = quality[c]
        BY <1>1, <2>3, <3>2 DEF QualityTypes
      <4>2. MergedOf(c)' = MergedOf(c)
        BY <2>3, <3>2 DEF MergedOf
      <4> QED BY <1>1, <4>1, <4>2
    <3> QED BY <3>1, <3>2
  <2> QED BY <2>4, <2>6 DEF QualityInv
<1> QED BY <1>3, <1>4, <1>5, <1>6, <1>7, <1>8, <1>9 DEF QualityNext

(* A call's row is as bad as the worst of the reports merged into it, in    *)
(* each value, and its grade is that of the worst score.                    *)
THEOREM QualityKeepsWorstHolds == PlatformSpec => []QualityKeepsWorst
<1>1. PlatformInit => QualityInv
  <2> SUFFICES ASSUME PlatformInit
               PROVE  QualityInv
    OBVIOUS
  <2>1. QualityInit
    BY DEF PlatformInit
  <2>2. QualityTypes
    BY <2>1 DEF QualityInit, QualityTypes
  <2>3. StreamNumbered
    BY <2>1, FS_EmptySet DEF QualityInit, StreamNumbered
  <2>4. \A c \in QualityCalls : MergedOf(c) = {} /\ quality[c] = NoReport
    BY <2>1 DEF QualityInit, MergedOf
  <2> QED BY <2>2, <2>3, <2>4 DEF QualityInv, RowOf
<1>2. QualityInv /\ [PlatformNext]_platformVars => QualityInv'
  BY QualitySteps, QualityStep
<1>3. QualityInv => QualityKeepsWorst
  <2> SUFFICES ASSUME QualityInv, NEW e \in merged
               PROVE  LET row == quality[e.call]
                      IN /\ row # NoReport
                         /\ row.jitter >= e.jitter /\ row.loss >= e.loss /\ row.mos <= computeMos(e)
                         /\ row.grade = Grade(Min({computeMos(x) : x \in {y \in merged : y.call = e.call}}))
    BY DEF QualityKeepsWorst
  <2>1. e.call \in QualityCalls /\ e \in MergedOf(e.call)
    BY DEF QualityInv, QualityTypes, QualityEntry, MergedOf
  <2>2. PICK row, M : row = quality[e.call] /\ M = MergedOf(e.call) /\ RowOf(row, M) /\ M # {}
    BY <2>1 DEF QualityInv
  <2>3. /\ row.jitter \in Nat /\ row.mos \in Int /\ row.grade = Grade(row.mos)
        /\ \E x \in M : row.mos = computeMos(x)
        /\ \A x \in M : row.jitter >= x.jitter /\ row.loss >= x.loss /\ row.mos <= computeMos(x)
    <3>1. row = [jitter |-> row.jitter, loss |-> row.loss, mos |-> row.mos, grade |-> Grade(row.mos)]
      BY <2>2 DEF RowOf
    <3>2. row.grade = Grade(row.mos)
      BY <3>1
    <3> QED BY <2>2, <3>2 DEF RowOf
  <2>4. row # NoReport
    <3>1. NoReport.jitter \notin Nat
      BY DEF NoReport
    <3> QED BY <2>3, <3>1
  <2>5. \A x \in M : computeMos(x) \in Int
    <3>1. M \subseteq QualityEntry
      BY <2>2 DEF QualityInv, QualityTypes, MergedOf
    <3> QED BY <3>1, MosType DEF QualityEntry
  <2>6. PICK S : S = {computeMos(x) : x \in M}
    OBVIOUS
  <2>7. S \subseteq Int /\ row.mos \in S /\ \A y \in S : row.mos <= y
    BY <2>3, <2>5, <2>6
  <2>8. Min(S) = row.mos
    <3>1. \E x \in S : \A y \in S : x =< y
      BY <2>7
    <3>2. Min(S) \in S /\ \A y \in S : Min(S) =< y
      BY <3>1 DEF Min
    <3>3. PICK m \in Int : m = Min(S)
      BY <2>7, <3>2
    <3>4. row.mos <= m /\ m <= row.mos
      BY <2>7, <3>2, <3>3
    <3> QED BY <2>3, <3>3, <3>4
  <2>9. {computeMos(x) : x \in {y \in merged : y.call = e.call}} = S
    BY <2>2, <2>6 DEF MergedOf
  <2> QED BY <2>1, <2>2, <2>3, <2>4, <2>8, <2>9
<1> QED BY <1>1, <1>2, <1>3, PTL DEF PlatformSpec
-----------------------------------------------------------------------------
(* The Asterisk configuration: while requests do not overlap, at most one    *)
(* actor is busy, what it has read is what the tables still hold, and a      *)
(* file whose step it has passed is right.                                   *)
ExtKinds == {"none", "plain", "vpn"}
TrunkParts == {"endpoint", "aor", "auth", "reg"}

StepNames ==
  {"save", "findExts", "acl", "unlink", "ext", "relay", "findRoutes", "listExts",
   "routes", "trunks", "reloadPjsip", "reloadResPjsip", "reloadDialplan"}

SipSaves ==
  {NoSave} \cup ({"ext"} \X SipNumbers \X ExtKinds)
    \cup ({"route"} \X SipNumbers \X {"did", "none"})
    \cup ({"trunk"} \X {""} \X TrunkRows)

SipTypes ==
  /\ extRows \in [SipNumbers -> ExtKinds] /\ routeRows \subseteq SipNumbers
  /\ trunkRow \in TrunkRows \cup {"none"}
  /\ sipFiles \in [acl : SUBSET SipNumbers, ext : [SipNumbers -> ExtKinds],
                   relay : SUBSET SipNumbers, trunks : SUBSET TrunkParts,
                   dial : SUBSET SipNumbers, dids : SUBSET SipNumbers]
  /\ loaded \in [pjsip : {"current", "stale", "refused"},
                 dialplan : {"current", "stale", "refused"}]
  /\ sipTodo \in [Actors -> Seq(StepNames)]
  /\ sipSnap \in [Actors -> [save : SipSaves, exts : [SipNumbers -> ExtKinds],
                             users : SUBSET SipNumbers, dids : SUBSET SipNumbers]]
  /\ overlapped \in BOOLEAN

\* The steps of s from the ith on.
Rest(s, i) == SubSeq(s, i, Len(s))

\* The rows of extensions are in their files, and the dialplan is right.
ExtFilesTrue ==
  /\ sipFiles.acl = VpnOnly(extRows) /\ sipFiles.ext = extRows
  /\ sipFiles.relay = Usernames(extRows)
DialFilesTrue == sipFiles.dial = Usernames(extRows) /\ sipFiles.dids = routeRows
TrunksTrue == sipFiles.trunks = buildTrunksConfig(trunkRow)

AllTrue ==
  /\ ExtFilesTrue /\ DialFilesTrue /\ TrunksTrue
  /\ loaded.pjsip # "stale" /\ loaded.dialplan # "stale"

\* What holds when the ith of ExtSteps is next.
ExtReached(i, k) ==
  /\ i > 1 => k.exts = extRows
  /\ i > 2 => VpnOnly(extRows) \subseteq sipFiles.acl
  /\ i > 3 => sipFiles.acl = VpnOnly(extRows)
  /\ i > 4 => sipFiles.ext = extRows
  /\ i > 5 => sipFiles.relay = Usernames(extRows)
  /\ i > 6 => k.dids = routeRows
  /\ i > 7 => k.users = Usernames(extRows)
  /\ i > 8 => DialFilesTrue
  /\ i > 9 => loaded.pjsip # "stale"
  /\ i > 10 => loaded.dialplan # "stale"

RouteReached(i, k) ==
  /\ ExtFilesTrue /\ TrunksTrue /\ loaded.pjsip # "stale"
  /\ i > 1 => k.dids = routeRows
  /\ i > 2 => k.users = Usernames(extRows)
  /\ i > 3 => DialFilesTrue

TrunkReached(i) ==
  /\ ExtFilesTrue /\ DialFilesTrue /\ loaded.dialplan # "stale"
  /\ i > 1 => TrunksTrue

BootReached(i, k) == (i > 1 => TrunksTrue) /\ ExtReached(i - 4, k)

\* How far the busy actor is.
SipProgress(a) ==
  \/ a = Boot /\ \E i \in 1..17 : sipTodo[a] = Rest(BootSteps, i) /\ BootReached(i, sipSnap[a])
  \/ /\ a \in Admins
     /\ \/ /\ AllTrue
           /\ \/ sipTodo[a] = <<"save">> \o ExtSteps /\ sipSnap[a].save[1] = "ext"
              \/ sipTodo[a] = <<"save">> \o RouteSteps /\ sipSnap[a].save[1] = "route"
              \/ sipTodo[a] = <<"save">> \o TrunkSteps /\ sipSnap[a].save[1] = "trunk"
        \/ /\ TrunksTrue
           /\ \E i \in 1..10 : sipTodo[a] = Rest(ExtSteps, i) /\ ExtReached(i, sipSnap[a])
        \/ \E i \in 1..4 : sipTodo[a] = Rest(RouteSteps, i) /\ RouteReached(i, sipSnap[a])
        \/ \E i \in 1..2 : sipTodo[a] = Rest(TrunkSteps, i) /\ TrunkReached(i)

SipInv ==
  /\ SipTypes
  /\ ~overlapped =>
       /\ \A a, b \in Actors : sipTodo[a] # <<>> /\ sipTodo[b] # <<>> => a = b
       /\ \A a \in Actors : sipTodo[a] # <<>> => SipProgress(a)
       /\ SipQuiet => AllTrue

(* A step of another component leaves the Asterisk configuration alone.      *)
LEMMA SipSteps ==
  ASSUME [PlatformNext]_platformVars
  PROVE  [SipNext]_sipVars
BY DEF PlatformNext, Only, platformVars

(* The next of the steps that remain, and those after it.                    *)
LEMMA RestStep ==
  ASSUME NEW s \in Seq(StepNames), NEW i \in 1..Len(s)
  PROVE  /\ Rest(s, i) # <<>> /\ Head(Rest(s, i)) = s[i]
         /\ Tail(Rest(s, i)) = Rest(s, i + 1)
         /\ Len(Rest(s, i)) = Len(s) - i + 1
         /\ (i = Len(s)) => Rest(s, i + 1) = <<>>
         /\ i < Len(s) => Rest(s, i + 1) # <<>>
<1>1. Len(s) \in Nat /\ i \in Nat
  OBVIOUS
<1>2. Rest(s, i) \in Seq(StepNames) /\ Len(Rest(s, i)) = Len(s) - i + 1
  BY <1>1 DEF Rest
<1>3. Rest(s, i + 1) \in Seq(StepNames) /\ Len(Rest(s, i + 1)) = Len(s) - i
  BY <1>1 DEF Rest
<1>4. Rest(s, i) # <<>> /\ Head(Rest(s, i)) = s[i]
  BY <1>1, <1>2 DEF Rest
<1>5. Tail(Rest(s, i)) = Rest(s, i + 1)
  <2>1. /\ Tail(Rest(s, i)) \in Seq(StepNames)
        /\ Len(Tail(Rest(s, i))) = Len(s) - i
    BY <1>2, <1>4
  <2>2. \A j \in 1..(Len(s) - i) : Tail(Rest(s, i))[j] = s[i + j]
    BY <1>1, <1>2, <1>4 DEF Rest
  <2>3. \A j \in 1..(Len(s) - i) : Rest(s, i + 1)[j] = s[i + j]
    BY <1>1 DEF Rest
  <2>4. PICK u, v : u = Tail(Rest(s, i)) /\ v = Rest(s, i + 1)
    OBVIOUS
  <2>5. u \in Seq(StepNames) /\ v \in Seq(StepNames) /\ Len(u) = Len(v) /\ \A j \in 1..Len(u) : u[j] = v[j]
    BY <1>1, <1>3, <2>1, <2>2, <2>3, <2>4
  <2> QED BY <2>4, <2>5, SeqEqual, Zenon
<1> QED BY <1>2, <1>3, <1>4, <1>5

(* The same for the steps that remain of n.                                  *)
LEMMA RestOfMany ==
  ASSUME NEW s \in Seq(StepNames), NEW n \in Nat, Len(s) = n, NEW i \in 1..n,
         NEW t, t = Rest(s, i)
  PROVE  /\ Head(t) = s[i] /\ Tail(t) = Rest(s, i + 1)
         /\ Len(t) = 1 <=> i = n
         /\ Rest(s, i + 1) = <<>> <=> i = n
<1>1. i \in 1..Len(s)
  OBVIOUS
<1>2. /\ Head(t) = s[i] /\ Tail(t) = Rest(s, i + 1)
      /\ Len(t) = Len(s) - i + 1
      /\ i = Len(s) => Rest(s, i + 1) = <<>>
      /\ i < Len(s) => Rest(s, i + 1) # <<>>
  BY <1>1, RestStep
<1>3. Len(t) = 1 <=> i = n
  BY <1>2
<1>4. PICK u : u = Rest(s, i + 1) /\ (u = <<>> <=> i = n)
  BY <1>2
<1> QED BY <1>2, <1>3, <1>4, Zenon

(* The steps of the start, one by one.                                       *)
LEMMA BootList ==
  /\ BootSteps \in Seq(StepNames) /\ Len(BootSteps) = 17
  /\ BootSteps[1] = "trunks" /\ BootSteps[2] = "reloadPjsip"
  /\ BootSteps[3] = "findExts" /\ BootSteps[4] = "relay"
  /\ \A i \in 1..10 : BootSteps[i + 4] = ExtSteps[i]
  /\ BootSteps[15] = "findRoutes" /\ BootSteps[16] = "listExts"
  /\ BootSteps[17] = "routes"
<1> DEFINE s == <<"trunks", "reloadPjsip", "findExts", "relay">>
           t == <<"findRoutes", "listExts", "routes">>
<1>1. /\ s \in Seq(StepNames) /\ Len(s) = 4
      /\ t \in Seq(StepNames) /\ Len(t) = 3
  BY DEF StepNames
<1>2. ExtSteps \in Seq(StepNames) /\ Len(ExtSteps) = 10
  BY DEF ExtSteps, StepNames
<1>3. PICK u : u = s \o ExtSteps
  OBVIOUS
<1>4. /\ u \in Seq(StepNames) /\ Len(u) = 14
      /\ \A i \in 1..4 : u[i] = s[i]
      /\ \A i \in 1..10 : u[i + 4] = ExtSteps[i]
  <2> HIDE DEF s
  <2>1. /\ u \in Seq(StepNames) /\ Len(u) = Len(s) + Len(ExtSteps)
        /\ \A i \in 1..Len(s) + Len(ExtSteps) :
             u[i] = IF i <= Len(s) THEN s[i] ELSE ExtSteps[i - Len(s)]
    BY <1>1, <1>2, <1>3, ConcatProperties, Zenon
  <2>2. /\ \A i \in 1..4 : u[i] = s[i]
        /\ \A i \in 5..14 : u[i] = ExtSteps[i - 4]
    BY <1>1, <1>2, <2>1
  <2>3. ASSUME NEW j \in 1..10 PROVE u[j + 4] = ExtSteps[j]
    <3>1. j + 4 \in 5..14 /\ j + 4 - 4 = j
      OBVIOUS
    <3> QED BY <2>2, <3>1
  <2> QED BY <1>1, <1>2, <2>1, <2>2, <2>3
<1>5. PICK v : v = u \o t
  OBVIOUS
<1>6. /\ v \in Seq(StepNames) /\ Len(v) = 17
      /\ \A i \in 1..14 : v[i] = u[i]
      /\ \A i \in 15..17 : v[i] = t[i - 14]
  <2> HIDE DEF t
  <2>1. /\ v \in Seq(StepNames) /\ Len(v) = Len(u) + Len(t)
        /\ \A i \in 1..Len(u) + Len(t) : v[i] = IF i <= Len(u) THEN u[i] ELSE t[i - Len(u)]
    BY <1>1, <1>4, <1>5, ConcatProperties, ZenonT(40)
  <2> QED BY <1>1, <1>4, <2>1
<1>7. BootSteps = v
  BY <1>3, <1>5 DEF BootSteps
<1>8. /\ s[1] = "trunks" /\ s[2] = "reloadPjsip" /\ s[3] = "findExts" /\ s[4] = "relay"
      /\ t[1] = "findRoutes" /\ t[2] = "listExts" /\ t[3] = "routes"
  OBVIOUS
<1> HIDE DEF s, t
<1>9. \A i \in 1..10 : BootSteps[i + 4] = ExtSteps[i]
  <2> SUFFICES ASSUME NEW j \in 1..10
               PROVE  BootSteps[j + 4] = ExtSteps[j]
    OBVIOUS
  <2>1. j + 4 \in 1..14
    OBVIOUS
  <2>2. BootSteps[j + 4] = u[j + 4]
    BY <1>6, <1>7, <2>1
  <2> QED BY <1>4, <2>2
<1>10. BootSteps[15] = t[1] /\ BootSteps[16] = t[2] /\ BootSteps[17] = t[3]
  <2>1. 15 - 14 = 1 /\ 16 - 14 = 2 /\ 17 - 14 = 3
    OBVIOUS
  <2> QED BY <1>6, <1>7, <2>1
<1>11. \A i \in 1..4 : BootSteps[i] = s[i]
  BY <1>4, <1>6, <1>7
<1> QED BY <1>6, <1>7, <1>8, <1>9, <1>10, <1>11

(* The steps of a request follow its save.                                   *)
LEMMA SaveFirst ==
  ASSUME NEW s \in Seq(StepNames)
  PROVE  /\ <<"save">> \o s # <<>> /\ Head(<<"save">> \o s) = "save"
         /\ Tail(<<"save">> \o s) = s /\ Rest(s, 1) = s
         /\ Len(<<"save">> \o s) = Len(s) + 1
<1>1. /\ <<"save">> \o s \in Seq(StepNames) /\ Len(<<"save">> \o s) = Len(s) + 1
      /\ \A i \in 1..Len(s) + 1 : (<<"save">> \o s)[i] = IF i <= 1 THEN "save" ELSE s[i - 1]
  <2>1. <<"save">> \in Seq(StepNames) /\ Len(<<"save">>) = 1 /\ <<"save">>[1] = "save"
    BY DEF StepNames
  <2> QED BY <2>1, ConcatProperties
<1>2. PICK u : u = <<"save">> \o s
  OBVIOUS
<1>3. u # <<>> /\ Head(u) = "save"
  BY <1>1, <1>2
<1>4. Tail(u) \in Seq(StepNames) /\ Len(Tail(u)) = Len(s) /\ \A i \in 1..Len(s) : Tail(u)[i] = s[i]
  BY <1>1, <1>2, <1>3
<1>5. Tail(u) = s
  BY <1>4, SeqEqual, Zenon
<1>6. Rest(s, 1) = s
  BY SubSeqFull DEF Rest
<1> QED BY <1>1, <1>2, <1>3, <1>5, <1>6

\* A step of actor a: its next await.
StepOf(a) ==
  \/ SaveRow(a) \/ ReadRows(a) \/ syncVpnAclFiles(a)
  \/ writeExtensionsConfig(a) \/ writeInboundRoutesConfig(a)
  \/ writeTrunksConfig(a) \/ reloadResPjsip(a) \/ reloadDialplan(a)

(* The sections of a trunk's file.                                           *)
LEMMA TrunkPartsType ==
  ASSUME SipTypes
  PROVE  buildTrunksConfig(trunkRow) \in SUBSET TrunkParts
BY SipAssumption DEF SipTypes, buildTrunksConfig, TrunkParts

(* The awaits that remain are steps.                                         *)
LEMMA AwaitTypes ==
  ASSUME SipTypes, NEW a \in Actors, NEW s, Await(a, s)
  PROVE  sipTodo' \in [Actors -> Seq(StepNames)]
<1>1. Tail(sipTodo[a]) \in Seq(StepNames)
  BY DEF SipTypes, Await
<1> QED BY <1>1 DEF SipTypes, Await

(* What writing a file and returning change.                                 *)
LEMMA WroteTypes ==
  ASSUME SipTypes, NEW a \in Actors, NEW module \in {"pjsip", "dialplan"}, NEW f,
         f \in [acl : SUBSET SipNumbers, ext : [SipNumbers -> ExtKinds],
                relay : SUBSET SipNumbers, trunks : SUBSET TrunkParts,
                dial : SUBSET SipNumbers, dids : SUBSET SipNumbers],
         WroteFiles(a, module, f), NEW s, Await(a, s)
  PROVE  SipTypes'
<1>1. NothingRead(NoSave) \in [save : SipSaves, exts : [SipNumbers -> ExtKinds],
                               users : SUBSET SipNumbers, dids : SUBSET SipNumbers]
  BY DEF NothingRead, NoRows, SipSaves, ExtKinds
<1>2. sipSnap' \in [Actors -> [save : SipSaves, exts : [SipNumbers -> ExtKinds],
                               users : SUBSET SipNumbers, dids : SUBSET SipNumbers]]
  BY <1>1 DEF SipTypes, WroteFiles, Returns
<1>3. loaded' \in [pjsip : {"current", "stale", "refused"},
                   dialplan : {"current", "stale", "refused"}]
  BY DEF SipTypes, WroteFiles
<1>4. sipTodo' \in [Actors -> Seq(StepNames)]
  BY AwaitTypes
<1> QED BY <1>2, <1>3, <1>4 DEF SipTypes, WroteFiles

(* The row a request saves has its table's type.                             *)
LEMMA SaveRowTypes ==
  ASSUME SipTypes, NEW a \in Actors, SaveRow(a)
  PROVE  SipTypes'
<1>1. PICK k \in SipSaves : k = sipSnap[a].save
  BY DEF SipTypes
<1>2. /\ k[1] = "ext" => k[2] \in SipNumbers /\ k[3] \in ExtKinds
      /\ k[1] = "route" => k[2] \in SipNumbers
      /\ k[1] = "trunk" => k[3] \in TrunkRows
  <2>1. NoSave[1] \notin {"ext", "route", "trunk"}
    BY DEF NoSave
  <2>2. \A x \in {"ext"} \X SipNumbers \X ExtKinds :
          x[1] = "ext" /\ x[2] \in SipNumbers /\ x[3] \in ExtKinds
    OBVIOUS
  <2>3. \A x \in {"route"} \X SipNumbers \X {"did", "none"} :
          x[1] = "route" /\ x[2] \in SipNumbers
    OBVIOUS
  <2>4. \A x \in {"trunk"} \X {""} \X TrunkRows : x[1] = "trunk" /\ x[3] \in TrunkRows
    OBVIOUS
  <2> HIDE DEF NoSave
  <2> QED BY <2>1, <2>2, <2>3, <2>4 DEF SipSaves
<1>3. extRows' \in [SipNumbers -> ExtKinds] /\ routeRows' \subseteq SipNumbers
      /\ trunkRow' \in TrunkRows \cup {"none"}
  BY <1>1, <1>2 DEF SipTypes, SaveRow
<1>4. sipTodo' \in [Actors -> Seq(StepNames)]
  BY AwaitTypes DEF SaveRow
<1>5. sipSnap' = [sipSnap EXCEPT ![a].save = NoSave] /\ UNCHANGED <<sipFiles, loaded, overlapped>>
  BY DEF SaveRow
<1>6. NoSave \in SipSaves
  BY DEF SipSaves
<1>7. sipSnap' \in [Actors -> [save : SipSaves, exts : [SipNumbers -> ExtKinds],
                               users : SUBSET SipNumbers, dids : SUBSET SipNumbers]]
  <2>1. [sipSnap[a] EXCEPT !.save = NoSave]
          \in [save : SipSaves, exts : [SipNumbers -> ExtKinds],
              users : SUBSET SipNumbers, dids : SUBSET SipNumbers]
    BY <1>6, ZenonT(40) DEF SipTypes
  <2>2. sipSnap' = [sipSnap EXCEPT ![a] = [sipSnap[a] EXCEPT !.save = NoSave]]
    BY <1>5 DEF SipTypes
  <2> QED BY <2>1, <2>2 DEF SipTypes
<1> QED BY <1>3, <1>4, <1>5, <1>7 DEF SipTypes

(* Every step keeps the types.                                               *)
LEMMA SipTypesStep ==
  ASSUME SipTypes, SipNext
  PROVE  SipTypes'
<1> DEFINE Snaps == [save : SipSaves, exts : [SipNumbers -> ExtKinds],
                     users : SUBSET SipNumbers, dids : SUBSET SipNumbers]
           Files == [acl : SUBSET SipNumbers, ext : [SipNumbers -> ExtKinds],
                     relay : SUBSET SipNumbers, trunks : SUBSET TrunkParts,
                     dial : SUBSET SipNumbers, dids : SUBSET SipNumbers]
<1>1. \A k \in SipSaves : NothingRead(k) \in Snaps
  BY DEF NothingRead, NoRows, ExtKinds
<1>2. NoSave \in SipSaves
  BY DEF SipSaves
<1>3. /\ ExtSteps \in Seq(StepNames) /\ RouteSteps \in Seq(StepNames)
      /\ TrunkSteps \in Seq(StepNames)
  BY DEF ExtSteps, RouteSteps, TrunkSteps, StepNames
<1>4. /\ VpnOnly(extRows) \subseteq SipNumbers /\ Usernames(extRows) \subseteq SipNumbers
      /\ \A a \in Actors : /\ VpnOnly(sipSnap[a].exts) \subseteq SipNumbers
                           /\ Usernames(sipSnap[a].exts) \subseteq SipNumbers
  BY DEF VpnOnly, Usernames
<1>5. ASSUME NEW a \in Admins, NEW k \in SipSaves,
             NEW s \in Seq(StepNames), WriteAccepted(a, k, s),
             UNCHANGED <<extRows, routeRows, trunkRow, sipFiles, loaded>>
      PROVE  SipTypes'
  <2>1. <<"save">> \o s \in Seq(StepNames)
    BY ConcatProperties DEF StepNames
  <2>2. a \in Actors
    BY DEF Actors
  <2>3. /\ sipTodo' = [sipTodo EXCEPT ![a] = <<"save">> \o s]
        /\ sipSnap' = [sipSnap EXCEPT ![a] = NothingRead(k)] /\ overlapped' \in BOOLEAN
    BY <1>5 DEF WriteAccepted
  <2>4. sipTodo' \in [Actors -> Seq(StepNames)]
    BY <2>1, <2>2, <2>3 DEF SipTypes
  <2>5. sipSnap' \in [Actors -> Snaps]
    BY <1>1, <2>2, <2>3 DEF SipTypes
  <2> QED BY <1>5, <2>3, <2>4, <2>5 DEF SipTypes
<1>6. CASE SipRequest
  <2>1. ASSUME NEW a \in Admins, NEW n \in SipNumbers, NEW kind \in ExtKinds, ExtensionSaved(a, n, kind)
        PROVE  SipTypes'
    <3>1. <<"ext", n, kind>> \in SipSaves
      BY DEF SipSaves
    <3> QED BY <1>3, <1>5, <2>1, <3>1 DEF ExtensionSaved
  <2>2. ASSUME NEW a \in Admins, NEW n \in SipNumbers, NEW add \in BOOLEAN, RouteSaved(a, n, add)
        PROVE  SipTypes'
    <3>1. \A x \in {"did", "none"} : <<"route", n, x>> \in SipSaves
      BY DEF SipSaves
    <3>2. PICK x \in {"did", "none"} : x = IF add THEN "did" ELSE "none"
      OBVIOUS
    <3>3. WriteAccepted(a, <<"route", n, x>>, RouteSteps)
      BY <2>2, <3>2 DEF RouteSaved
    <3> QED BY <1>3, <1>5, <2>2, <3>1, <3>3 DEF RouteSaved
  <2>3. ASSUME NEW a \in Admins, NEW row \in TrunkRows, TrunkSaved(a, row)
        PROVE  SipTypes'
    <3>1. <<"trunk", "", row>> \in SipSaves
      BY DEF SipSaves
    <3> QED BY <1>3, <1>5, <2>3, <3>1 DEF TrunkSaved
  <2> QED BY <1>6, <2>1, <2>2, <2>3 DEF SipRequest, ExtKinds
<1>7. ASSUME NEW a \in Actors, ReadRows(a)
      PROVE  SipTypes'
  <2>1. sipTodo' \in [Actors -> Seq(StepNames)]
    BY <1>7, AwaitTypes DEF ReadRows
  <2>2. sipSnap' \in [Actors -> Snaps]
    <3>1. PICK s \in Snaps : s = sipSnap[a]
      BY DEF SipTypes
    <3>2. extRows \in [SipNumbers -> ExtKinds] /\ Usernames(extRows) \in SUBSET SipNumbers
      BY <1>4 DEF SipTypes
    <3>3. routeRows \in SUBSET SipNumbers
      BY DEF SipTypes
    <3>4. [s EXCEPT !.exts = extRows] \in Snaps
      BY <3>2
    <3>5. [s EXCEPT !.users = Usernames(extRows)] \in Snaps
      BY <3>2
    <3>6. [s EXCEPT !.dids = routeRows] \in Snaps
      BY <3>3
    <3>7. PICK k \in Snaps : sipSnap' = [sipSnap EXCEPT ![a] = k]
      BY <1>7, <3>1, <3>4, <3>5, <3>6 DEF SipTypes, ReadRows
    <3> QED BY <3>7 DEF SipTypes
  <2> QED BY <1>7, <2>1, <2>2 DEF SipTypes, ReadRows
<1>8. ASSUME NEW a \in Actors, syncVpnAclFiles(a)
      PROVE  SipTypes'
  <2>1. [sipFiles EXCEPT !.acl = @ \cup VpnOnly(sipSnap[a].exts)] \in Files
    BY <1>4 DEF SipTypes
  <2>2. [sipFiles EXCEPT !.acl = @ \cap VpnOnly(sipSnap[a].exts)] \in Files
    BY <1>4 DEF SipTypes
  <2> QED BY <1>8, <2>1, <2>2, WroteTypes DEF syncVpnAclFiles
<1>9. ASSUME NEW a \in Actors, writeExtensionsConfig(a)
      PROVE  SipTypes'
  <2>1. [sipFiles EXCEPT !.ext = buildExtensionsConfig(sipSnap[a].exts)] \in Files
    BY DEF SipTypes, buildExtensionsConfig
  <2>2. [sipFiles EXCEPT !.relay = Usernames(sipSnap[a].exts)] \in Files
    BY <1>4 DEF SipTypes
  <2> QED BY <1>9, <2>1, <2>2, WroteTypes DEF writeExtensionsConfig
<1>10. ASSUME NEW a \in Actors, writeInboundRoutesConfig(a)
       PROVE  SipTypes'
  <2>1. buildInboundRoutesConfig(sipFiles, sipSnap[a].dids, sipSnap[a].users) \in Files
    BY DEF SipTypes, buildInboundRoutesConfig
  <2> QED BY <1>10, <2>1, WroteTypes DEF writeInboundRoutesConfig
<1>11. ASSUME NEW a \in Actors, writeTrunksConfig(a)
       PROVE  SipTypes'
  <2>1. [sipFiles EXCEPT !.trunks = buildTrunksConfig(trunkRow)] \in Files
    BY TrunkPartsType DEF SipTypes
  <2> QED BY <1>11, <2>1, WroteTypes DEF writeTrunksConfig
<1>12. ASSUME NEW a \in Actors, reloadResPjsip(a) \/ reloadDialplan(a)
       PROVE  SipTypes'
  <2>1. sipTodo' \in [Actors -> Seq(StepNames)]
    BY <1>12, AwaitTypes DEF reloadResPjsip, reloadDialplan
  <2>2. sipSnap' \in [Actors -> Snaps]
    BY <1>1, <1>2, <1>12 DEF SipTypes, reloadResPjsip, reloadDialplan, Returns
  <2>3. loaded' \in [pjsip : {"current", "stale", "refused"},
                     dialplan : {"current", "stale", "refused"}]
    BY <1>12 DEF SipTypes, reloadResPjsip, reloadDialplan
  <2> QED BY <1>12, <2>1, <2>2, <2>3 DEF SipTypes, reloadResPjsip, reloadDialplan
<1>13. CASE BackendRestarts
  <2>1. sipTodo' \in [Actors -> Seq(StepNames)]
    BY <1>13, BootList DEF BackendRestarts
  <2>2. sipSnap' \in [Actors -> Snaps]
    BY <1>1, <1>2, <1>13 DEF BackendRestarts
  <2> QED BY <1>13, <2>1, <2>2 DEF SipTypes, BackendRestarts
<1> QED BY <1>6, <1>7, <1>8, <1>9, <1>10, <1>11, <1>12, <1>13, SaveRowTypes DEF SipNext, SipStep

(* What each kind of await does.                                             *)
LEMMA StepEffect ==
  ASSUME SipTypes, NEW a \in Actors, StepOf(a), NEW s, s = Head(sipTodo[a]), s # "save"
  PROVE  /\ sipTodo' = [sipTodo EXCEPT ![a] = Tail(@)]
         /\ UNCHANGED <<extRows, routeRows, trunkRow, overlapped>>
         /\ s \in {"findExts", "listExts", "findRoutes"} => UNCHANGED <<sipFiles, loaded>>
         /\ s = "findExts" => sipSnap' = [sipSnap EXCEPT ![a].exts = extRows]
         /\ s = "listExts" => sipSnap' = [sipSnap EXCEPT ![a].users = Usernames(extRows)]
         /\ s = "findRoutes" => sipSnap' = [sipSnap EXCEPT ![a].dids = routeRows]
         /\ s \notin {"findExts", "listExts", "findRoutes"} => Returns(a)
         /\ s = "acl" => sipFiles' = [sipFiles EXCEPT !.acl = @ \cup VpnOnly(sipSnap[a].exts)]
         /\ s = "unlink" => sipFiles' = [sipFiles EXCEPT !.acl = @ \cap VpnOnly(sipSnap[a].exts)]
         /\ s = "ext" => sipFiles' = [sipFiles EXCEPT !.ext = sipSnap[a].exts]
         /\ s = "relay" => sipFiles' = [sipFiles EXCEPT !.relay = Usernames(sipSnap[a].exts)]
         /\ s = "routes" => sipFiles' = [sipFiles EXCEPT !.dial = sipSnap[a].users,
                                                        !.dids = sipSnap[a].dids]
         /\ s = "routes" => loaded'.pjsip = loaded.pjsip
         /\ s = "routes" /\ sipFiles' = sipFiles => loaded' = loaded
         /\ s # "trunks" => sipFiles'.trunks = sipFiles.trunks
         /\ s = "trunks" => sipFiles' = [sipFiles EXCEPT !.trunks = buildTrunksConfig(trunkRow)]
         /\ s \in {"acl", "unlink", "ext", "relay", "trunks"} => loaded'.dialplan = loaded.dialplan
         /\ s \in {"reloadPjsip", "reloadResPjsip"} =>
              /\ sipFiles' = sipFiles /\ loaded'.pjsip # "stale"
              /\ loaded'.dialplan = loaded.dialplan
         /\ s = "reloadDialplan" =>
              /\ sipFiles' = sipFiles /\ loaded'.dialplan # "stale"
              /\ loaded'.pjsip = loaded.pjsip
<1>1. CASE SaveRow(a)
  BY <1>1 DEF SaveRow, Await
<1>2. CASE ReadRows(a)
  <2>1. s \in {"findExts", "listExts", "findRoutes"}
    BY <1>2 DEF ReadRows, Await
  <2> QED BY <1>2, <2>1 DEF ReadRows, Await
<1>3. CASE syncVpnAclFiles(a)
  <2>1. s \in {"acl", "unlink"}
    BY <1>3 DEF syncVpnAclFiles, Await
  <2>2. /\ sipTodo' = [sipTodo EXCEPT ![a] = Tail(@)] /\ Returns(a)
        /\ UNCHANGED <<extRows, routeRows, trunkRow, overlapped>>
    BY <1>3 DEF syncVpnAclFiles, Await, WroteFiles
  <2>3. /\ s = "acl" => sipFiles' = [sipFiles EXCEPT !.acl = @ \cup VpnOnly(sipSnap[a].exts)]
        /\ s = "unlink" => sipFiles' = [sipFiles EXCEPT !.acl = @ \cap VpnOnly(sipSnap[a].exts)]
    BY <1>3 DEF syncVpnAclFiles, Await, WroteFiles
  <2>4. loaded'.dialplan = loaded.dialplan
    BY <1>3 DEF syncVpnAclFiles, WroteFiles, SipTypes
  <2>5. sipFiles'.trunks = sipFiles.trunks
    BY <2>1, <2>3 DEF SipTypes
  <2> QED BY <2>1, <2>2, <2>3, <2>4, <2>5
<1>4. CASE writeExtensionsConfig(a)
  <2>1. s \in {"ext", "relay"}
    BY <1>4 DEF writeExtensionsConfig, Await
  <2>2. /\ sipTodo' = [sipTodo EXCEPT ![a] = Tail(@)] /\ Returns(a)
        /\ UNCHANGED <<extRows, routeRows, trunkRow, overlapped>>
    BY <1>4 DEF writeExtensionsConfig, Await, WroteFiles
  <2>3. /\ s = "ext" => sipFiles' = [sipFiles EXCEPT !.ext = sipSnap[a].exts]
        /\ s = "relay" => sipFiles' = [sipFiles EXCEPT !.relay = Usernames(sipSnap[a].exts)]
    BY <1>4 DEF writeExtensionsConfig, Await, WroteFiles, buildExtensionsConfig
  <2>4. loaded'.dialplan = loaded.dialplan
    BY <1>4 DEF writeExtensionsConfig, WroteFiles, SipTypes
  <2>5. sipFiles'.trunks = sipFiles.trunks
    BY <2>1, <2>3 DEF SipTypes
  <2> QED BY <2>1, <2>2, <2>3, <2>4, <2>5
<1>5. CASE writeInboundRoutesConfig(a)
  <2>1. s = "routes"
    BY <1>5 DEF writeInboundRoutesConfig, Await
  <2>2. /\ sipTodo' = [sipTodo EXCEPT ![a] = Tail(@)] /\ Returns(a)
        /\ UNCHANGED <<extRows, routeRows, trunkRow, overlapped>>
    BY <1>5 DEF writeInboundRoutesConfig, Await, WroteFiles
  <2>3. sipFiles' = [sipFiles EXCEPT !.dial = sipSnap[a].users, !.dids = sipSnap[a].dids]
    BY <1>5 DEF writeInboundRoutesConfig, WroteFiles, buildInboundRoutesConfig
  <2>4. loaded'.pjsip = loaded.pjsip /\ (sipFiles' = sipFiles => loaded' = loaded)
    BY <1>5 DEF writeInboundRoutesConfig, WroteFiles, SipTypes
  <2>5. sipFiles'.trunks = sipFiles.trunks
    BY <2>3 DEF SipTypes
  <2> QED BY <2>1, <2>2, <2>3, <2>4, <2>5
<1>6. CASE writeTrunksConfig(a)
  <2>1. s = "trunks"
    BY <1>6 DEF writeTrunksConfig, Await
  <2>2. /\ sipTodo' = [sipTodo EXCEPT ![a] = Tail(@)] /\ Returns(a)
        /\ UNCHANGED <<extRows, routeRows, trunkRow, overlapped>>
        /\ sipFiles' = [sipFiles EXCEPT !.trunks = buildTrunksConfig(trunkRow)]
    BY <1>6 DEF writeTrunksConfig, Await, WroteFiles
  <2>3. loaded'.dialplan = loaded.dialplan
    BY <1>6 DEF writeTrunksConfig, WroteFiles, SipTypes
  <2> QED BY <2>1, <2>2, <2>3
<1>7. CASE reloadResPjsip(a)
  <2>1. s \in {"reloadPjsip", "reloadResPjsip"}
    BY <1>7 DEF reloadResPjsip, Await
  <2>2. loaded'.pjsip # "stale" /\ loaded'.dialplan = loaded.dialplan
    BY <1>7 DEF reloadResPjsip, SipTypes
  <2> QED BY <1>7, <2>1, <2>2 DEF reloadResPjsip, Await
<1>8. CASE reloadDialplan(a)
  <2>1. s = "reloadDialplan"
    BY <1>8 DEF reloadDialplan, Await
  <2>2. loaded'.dialplan # "stale" /\ loaded'.pjsip = loaded.pjsip
    BY <1>8 DEF reloadDialplan, SipTypes
  <2> QED BY <1>8, <2>1, <2>2 DEF reloadDialplan, Await
<1> QED BY <1>1, <1>2, <1>3, <1>4, <1>5, <1>6, <1>7, <1>8 DEF StepOf

(* The steps that write an extension's files, from the ith to the next.      *)
LEMMA ExtMove ==
  ASSUME SipTypes, NEW a \in Actors, StepOf(a), NEW i \in 1..10,
         Head(sipTodo[a]) = ExtSteps[i], ExtReached(i, sipSnap[a]),
         i = 10 \/ Len(sipTodo[a]) # 1
  PROVE  /\ Len(sipTodo[a]) # 1 => ExtReached(i + 1, sipSnap[a])'
         /\ i = 10 /\ Len(sipTodo[a]) = 1 /\ TrunksTrue => AllTrue'
         /\ TrunksTrue => TrunksTrue'
<1> DEFINE s == ExtSteps[i]
<1>1. s \notin {"save", "trunks", "reloadResPjsip"}
  BY DEF ExtSteps
<1>2. UNCHANGED <<extRows, routeRows, trunkRow>>
  BY <1>1, StepEffect
<1>3. TrunksTrue => TrunksTrue'
  BY <1>1, <1>2, StepEffect DEF TrunksTrue
<1>4. ASSUME s \notin {"findExts", "listExts", "findRoutes"}, Len(sipTodo[a]) # 1
      PROVE  sipSnap'[a] = sipSnap[a]
  BY <1>1, <1>4, StepEffect DEF Returns
<1>5. CASE i = 1
  <2>1. s = "findExts"
    BY <1>5 DEF ExtSteps
  <2>2. sipSnap' = [sipSnap EXCEPT ![a].exts = extRows] /\ UNCHANGED <<sipFiles, loaded>>
    BY <2>1, StepEffect
  <2>3. /\ sipSnap'[a].exts = extRows
        /\ sipSnap'[a].users = sipSnap[a].users
        /\ sipSnap'[a].dids = sipSnap[a].dids
    BY <2>2 DEF SipTypes
  <2>4. ExtReached(2, sipSnap[a])'
    BY <1>5, <1>2, <2>2, <2>3 DEF ExtReached, DialFilesTrue, Usernames, VpnOnly
  <2> QED BY <1>3, <1>5, <2>4
<1>6. CASE i = 2
  <2>1. s = "acl"
    BY <1>6 DEF ExtSteps
  <2>2. sipFiles' = [sipFiles EXCEPT !.acl = @ \cup VpnOnly(sipSnap[a].exts)]
    BY <2>1, StepEffect
  <2>3. /\ sipFiles'.acl = sipFiles.acl \cup VpnOnly(sipSnap[a].exts)
        /\ sipFiles'.ext = sipFiles.ext
        /\ sipFiles'.relay = sipFiles.relay
        /\ sipFiles'.dial = sipFiles.dial
        /\ sipFiles'.dids = sipFiles.dids
    BY <2>2 DEF SipTypes
  <2>4. ExtReached(3, sipSnap[a])'
    BY <1>2, <1>4, <1>6, <2>1, <2>3 DEF ExtReached, DialFilesTrue, Usernames, VpnOnly
  <2> QED BY <1>3, <1>6, <2>4
<1>7. CASE i = 3
  <2>1. s = "unlink"
    BY <1>7 DEF ExtSteps
  <2>2. sipFiles' = [sipFiles EXCEPT !.acl = @ \cap VpnOnly(sipSnap[a].exts)]
    BY <2>1, StepEffect
  <2>3. /\ sipFiles'.acl = sipFiles.acl \cap VpnOnly(sipSnap[a].exts)
        /\ sipFiles'.ext = sipFiles.ext
        /\ sipFiles'.relay = sipFiles.relay
        /\ sipFiles'.dial = sipFiles.dial
        /\ sipFiles'.dids = sipFiles.dids
    BY <2>2 DEF SipTypes
  <2>4. ExtReached(4, sipSnap[a])'
    BY <1>2, <1>4, <1>7, <2>1, <2>3 DEF ExtReached, DialFilesTrue, Usernames, VpnOnly
  <2> QED BY <1>3, <1>7, <2>4
<1>8. CASE i = 4
  <2>1. s = "ext"
    BY <1>8 DEF ExtSteps
  <2>2. sipFiles' = [sipFiles EXCEPT !.ext = sipSnap[a].exts]
    BY <2>1, StepEffect
  <2>3. /\ sipFiles'.ext = sipSnap[a].exts
        /\ sipFiles'.acl = sipFiles.acl
        /\ sipFiles'.relay = sipFiles.relay
        /\ sipFiles'.dial = sipFiles.dial
        /\ sipFiles'.dids = sipFiles.dids
    BY <2>2 DEF SipTypes
  <2>4. ExtReached(5, sipSnap[a])'
    BY <1>2, <1>4, <1>8, <2>1, <2>3 DEF ExtReached, DialFilesTrue, Usernames, VpnOnly
  <2> QED BY <1>3, <1>8, <2>4
<1>9. CASE i = 5
  <2>1. s = "relay"
    BY <1>9 DEF ExtSteps
  <2>2. sipFiles' = [sipFiles EXCEPT !.relay = Usernames(sipSnap[a].exts)]
    BY <2>1, StepEffect
  <2>3. /\ sipFiles'.relay = Usernames(sipSnap[a].exts)
        /\ sipFiles'.acl = sipFiles.acl
        /\ sipFiles'.ext = sipFiles.ext
        /\ sipFiles'.dial = sipFiles.dial
        /\ sipFiles'.dids = sipFiles.dids
    BY <2>2 DEF SipTypes
  <2>4. ExtReached(6, sipSnap[a])'
    BY <1>2, <1>4, <1>9, <2>1, <2>3 DEF ExtReached, DialFilesTrue, Usernames, VpnOnly
  <2> QED BY <1>3, <1>9, <2>4
<1>10. CASE i = 6
  <2>1. s = "findRoutes"
    BY <1>10 DEF ExtSteps
  <2>2. sipSnap' = [sipSnap EXCEPT ![a].dids = routeRows] /\ UNCHANGED <<sipFiles, loaded>>
    BY <2>1, StepEffect
  <2>3. /\ sipSnap'[a].dids = routeRows
        /\ sipSnap'[a].exts = sipSnap[a].exts
        /\ sipSnap'[a].users = sipSnap[a].users
    BY <2>2 DEF SipTypes
  <2>4. ExtReached(7, sipSnap[a])'
    BY <1>10, <1>2, <2>2, <2>3 DEF ExtReached, DialFilesTrue, Usernames, VpnOnly
  <2> QED BY <1>3, <1>10, <2>4
<1>11. CASE i = 7
  <2>1. s = "listExts"
    BY <1>11 DEF ExtSteps
  <2>2. sipSnap' = [sipSnap EXCEPT ![a].users = Usernames(extRows)] /\ UNCHANGED <<sipFiles, loaded>>
    BY <2>1, StepEffect
  <2>3. /\ sipSnap'[a].users = Usernames(extRows)
        /\ sipSnap'[a].exts = sipSnap[a].exts
        /\ sipSnap'[a].dids = sipSnap[a].dids
    BY <2>2 DEF SipTypes
  <2>4. ExtReached(8, sipSnap[a])'
    BY <1>11, <1>2, <2>2, <2>3 DEF ExtReached, DialFilesTrue, Usernames, VpnOnly
  <2> QED BY <1>3, <1>11, <2>4
<1>12. CASE i = 8
  <2>1. s = "routes"
    BY <1>12 DEF ExtSteps
  <2>2. sipFiles' = [sipFiles EXCEPT !.dial = sipSnap[a].users, !.dids = sipSnap[a].dids]
    BY <2>1, StepEffect
  <2>3. /\ sipFiles'.dial = sipSnap[a].users
        /\ sipFiles'.dids = sipSnap[a].dids
        /\ sipFiles'.acl = sipFiles.acl
        /\ sipFiles'.ext = sipFiles.ext
        /\ sipFiles'.relay = sipFiles.relay
    BY <2>2 DEF SipTypes
  <2>4. ExtReached(9, sipSnap[a])'
    BY <1>2, <1>4, <1>12, <2>1, <2>3 DEF ExtReached, DialFilesTrue, Usernames, VpnOnly
  <2> QED BY <1>3, <1>12, <2>4
<1>13. CASE i = 9
  <2>1. s = "reloadPjsip"
    BY <1>13 DEF ExtSteps
  <2>2. sipFiles' = sipFiles /\ loaded'.pjsip # "stale"
    BY <2>1, StepEffect
  <2>3. ExtReached(10, sipSnap[a])'
    BY <1>2, <1>4, <1>13, <2>1, <2>2 DEF ExtReached, DialFilesTrue, Usernames, VpnOnly
  <2> QED BY <1>3, <1>13, <2>3
<1>14. CASE i = 10
  <2>1. s = "reloadDialplan"
    BY <1>14 DEF ExtSteps
  <2>2. sipFiles' = sipFiles /\ loaded'.dialplan # "stale" /\ loaded'.pjsip = loaded.pjsip
    BY <2>1, StepEffect
  <2>3. Len(sipTodo[a]) # 1 => ExtReached(11, sipSnap[a])'
    BY <1>2, <1>4, <1>14, <2>1, <2>2 DEF ExtReached, DialFilesTrue, Usernames, VpnOnly
  <2>4. TrunksTrue => AllTrue'
    BY <1>2, <1>3, <1>14, <2>2 DEF ExtReached, AllTrue, ExtFilesTrue, DialFilesTrue, Usernames, VpnOnly
  <2> QED BY <1>3, <1>14, <2>3, <2>4
<1> QED BY <1>5, <1>6, <1>7, <1>8, <1>9, <1>10, <1>11, <1>12, <1>13, <1>14

(* The steps of an inbound route's request.                                  *)
LEMMA RouteMove ==
  ASSUME SipTypes, NEW a \in Actors, StepOf(a), NEW i \in 1..4,
         Head(sipTodo[a]) = RouteSteps[i], RouteReached(i, sipSnap[a]),
         Len(sipTodo[a]) = 1 <=> i = 4
  PROVE  /\ i # 4 => RouteReached(i + 1, sipSnap[a])'
         /\ i = 4 => AllTrue'
<1>1. UNCHANGED <<extRows, routeRows, trunkRow>>
  <2>1. RouteSteps[i] \in {"findRoutes", "listExts", "routes", "reloadDialplan"}
    BY DEF RouteSteps
  <2>2. PICK s : s = RouteSteps[i]
    OBVIOUS
  <2> QED BY <2>1, <2>2, StepEffect
<1>2. CASE i = 1
  <2>1. /\ sipSnap' = [sipSnap EXCEPT ![a].dids = routeRows]
        /\ UNCHANGED <<sipFiles, loaded>>
    BY <1>2, StepEffect DEF RouteSteps
  <2>2. sipSnap'[a].dids = routeRows
    BY <2>1 DEF SipTypes
  <2> QED BY <1>1, <1>2, <2>1, <2>2
          DEF RouteReached, ExtFilesTrue, TrunksTrue, VpnOnly, Usernames
<1>3. CASE i = 2
  <2>1. /\ sipSnap' = [sipSnap EXCEPT ![a].users = Usernames(extRows)]
        /\ UNCHANGED <<sipFiles, loaded>>
    BY <1>3, StepEffect DEF RouteSteps
  <2>2. sipSnap'[a].users = Usernames(extRows) /\ sipSnap'[a].dids = sipSnap[a].dids
    BY <2>1 DEF SipTypes
  <2> QED BY <1>1, <1>3, <2>1, <2>2
          DEF RouteReached, ExtFilesTrue, TrunksTrue, VpnOnly, Usernames
<1>4. CASE i = 3
  <2>1. /\ sipFiles' = [sipFiles EXCEPT !.dial = sipSnap[a].users, !.dids = sipSnap[a].dids]
        /\ loaded'.pjsip = loaded.pjsip /\ Returns(a)
    BY <1>4, StepEffect DEF RouteSteps
  <2>2. sipSnap'[a] = sipSnap[a]
    BY <1>4, <2>1 DEF Returns
  <2>3. /\ sipFiles'.dial = sipSnap[a].users /\ sipFiles'.dids = sipSnap[a].dids
        /\ sipFiles'.acl = sipFiles.acl /\ sipFiles'.ext = sipFiles.ext
        /\ sipFiles'.relay = sipFiles.relay /\ sipFiles'.trunks = sipFiles.trunks
    BY <2>1 DEF SipTypes
  <2> QED BY <1>1, <1>4, <2>1, <2>2, <2>3
          DEF RouteReached, ExtFilesTrue, DialFilesTrue, TrunksTrue, VpnOnly, Usernames
<1>5. CASE i = 4
  <2>1. /\ sipFiles' = sipFiles /\ loaded'.dialplan # "stale"
        /\ loaded'.pjsip = loaded.pjsip
    BY <1>5, StepEffect DEF RouteSteps
  <2> QED BY <1>1, <1>5, <2>1
          DEF AllTrue, RouteReached, ExtFilesTrue, DialFilesTrue, TrunksTrue, VpnOnly, Usernames
<1> QED BY <1>2, <1>3, <1>4, <1>5

(* The steps of a trunk's request.                                           *)
LEMMA TrunkMove ==
  ASSUME SipTypes, NEW a \in Actors, StepOf(a), NEW i \in 1..2,
         Head(sipTodo[a]) = TrunkSteps[i], TrunkReached(i)
  PROVE  /\ i = 1 => TrunkReached(i + 1)'
         /\ i = 2 => AllTrue'
<1>1. UNCHANGED <<extRows, routeRows, trunkRow>> /\ loaded'.dialplan = loaded.dialplan
  <2>1. TrunkSteps[i] \in {"trunks", "reloadResPjsip"}
    BY DEF TrunkSteps
  <2>2. PICK s : s = TrunkSteps[i]
    OBVIOUS
  <2> QED BY <2>1, <2>2, StepEffect
<1>2. CASE i = 1
  <2>1. sipFiles' = [sipFiles EXCEPT !.trunks = buildTrunksConfig(trunkRow)]
    BY <1>2, StepEffect DEF TrunkSteps
  <2>2. /\ sipFiles'.dial = sipFiles.dial /\ sipFiles'.dids = sipFiles.dids
        /\ sipFiles'.acl = sipFiles.acl /\ sipFiles'.ext = sipFiles.ext
        /\ sipFiles'.relay = sipFiles.relay /\ sipFiles'.trunks = buildTrunksConfig(trunkRow)
    BY <2>1 DEF SipTypes
  <2> QED BY <1>1, <1>2, <2>2
          DEF TrunkReached, ExtFilesTrue, DialFilesTrue, TrunksTrue, VpnOnly, Usernames
<1>3. CASE i = 2
  <2>1. sipFiles' = sipFiles /\ loaded'.pjsip # "stale"
    BY <1>3, StepEffect DEF TrunkSteps
  <2> QED BY <1>1, <1>3, <2>1
          DEF AllTrue, TrunkReached, ExtFilesTrue, DialFilesTrue, TrunksTrue, VpnOnly, Usernames
<1> QED BY <1>2, <1>3

(* The steps of the start: the trunks, a first reload and the relay's file,  *)
(* those of an extension, and the dialplan again.                            *)
LEMMA BootMove ==
  ASSUME SipTypes, StepOf(Boot), NEW i \in 1..17,
         Head(sipTodo[Boot]) = BootSteps[i], BootReached(i, sipSnap[Boot]),
         Len(sipTodo[Boot]) = 1 <=> i = 17
  PROVE  /\ i # 17 => BootReached(i + 1, sipSnap[Boot])'
         /\ i = 17 => AllTrue'
<1>1. Boot \in Actors
  BY DEF Actors
<1>2. CASE i = 1
  <2>1. BootSteps[i] = "trunks"
    BY <1>2, BootList
  <2>2. /\ sipFiles' = [sipFiles EXCEPT !.trunks = buildTrunksConfig(trunkRow)]
        /\ trunkRow' = trunkRow
    BY <1>1, <2>1, StepEffect
  <2>3. TrunksTrue'
    BY <2>2 DEF TrunksTrue, SipTypes
  <2> QED BY <1>2, <2>3 DEF BootReached, ExtReached
<1>3. CASE i \in {2, 3, 4}
  <2>1. BootSteps[i] \in {"reloadPjsip", "findExts", "relay"}
    BY <1>3, BootList
  <2>2. sipFiles'.trunks = sipFiles.trunks /\ trunkRow' = trunkRow
    BY <1>1, <2>1, StepEffect
  <2> QED BY <1>3, <2>2 DEF BootReached, ExtReached, TrunksTrue
<1>4. CASE i \in 5..14
  <2>1. PICK j \in 1..10 : j = i - 4
    BY <1>4
  <2>2. BootSteps[i] = ExtSteps[j]
    <3>1. i = j + 4
      BY <2>1
    <3> QED BY <3>1, BootList
  <2>3. ExtReached(j, sipSnap[Boot]) /\ TrunksTrue
    BY <1>4, <2>1 DEF BootReached
  <2>4. ExtReached(j + 1, sipSnap[Boot])' /\ TrunksTrue'
    BY <1>1, <1>4, <2>2, <2>3, ExtMove
  <2>5. j + 1 = (i + 1) - 4
    BY <2>1
  <2> QED BY <1>4, <2>4, <2>5 DEF BootReached
<1>5. CASE i \in {15, 16, 17}
  <2> DEFINE k == sipSnap[Boot]
  <2>1. /\ TrunksTrue /\ k.exts = extRows /\ ExtFilesTrue
        /\ k.dids = routeRows /\ k.users = Usernames(extRows) /\ DialFilesTrue
        /\ loaded.pjsip # "stale" /\ loaded.dialplan # "stale"
    BY <1>5 DEF BootReached, ExtReached, ExtFilesTrue
  <2>2. BootSteps[i] = (IF i = 15 THEN "findRoutes" ELSE IF i = 16 THEN "listExts" ELSE "routes")
    BY <1>5, BootList
  <2>3. UNCHANGED <<extRows, routeRows, trunkRow>>
    BY <1>1, <2>2, StepEffect
  <2>4. UNCHANGED <<sipFiles, loaded>>
    <3>1. CASE i # 17
      BY <1>1, <1>5, <2>2, <3>1, StepEffect
    <3>2. CASE i = 17
      <4>1. Head(sipTodo[Boot]) = "routes"
        BY <2>2, <3>2
      <4>2. /\ sipFiles' = [sipFiles EXCEPT !.dial = k.users, !.dids = k.dids]
            /\ sipFiles' = sipFiles => loaded' = loaded
        BY <1>1, <4>1, StepEffect
      <4>3. sipFiles' = sipFiles
        BY <2>1, <4>2 DEF SipTypes, DialFilesTrue
      <4> QED BY <4>2, <4>3
    <3> QED BY <3>1, <3>2
  <2>5. i # 17 => /\ k'.exts = k.exts /\ k'.dids = routeRows
                  /\ k'.users = Usernames(extRows)
    <3>1. CASE i = 15
      <4>1. sipSnap' = [sipSnap EXCEPT ![Boot].dids = routeRows]
        BY <1>1, <2>2, <3>1, StepEffect
      <4> QED BY <1>1, <2>1, <4>1 DEF SipTypes
    <3>2. CASE i = 16
      <4>1. Head(sipTodo[Boot]) = "listExts"
        BY <2>2, <3>2
      <4>2. sipSnap' = [sipSnap EXCEPT ![Boot].users = Usernames(extRows)]
        BY <1>1, <4>1, StepEffect
      <4> QED BY <1>1, <2>1, <4>2 DEF SipTypes
    <3> QED BY <1>5, <3>1, <3>2
  <2>6. AllTrue'
    BY <2>1, <2>3, <2>4 DEF AllTrue, ExtFilesTrue, DialFilesTrue, TrunksTrue, Usernames, VpnOnly
  <2>7. i # 17 => BootReached(i + 1, k)'
    BY <1>5, <2>1, <2>3, <2>4, <2>5, <2>6
       DEF BootReached, ExtReached, AllTrue, ExtFilesTrue, Usernames
  <2> QED BY <2>6, <2>7
<1> QED BY <1>2, <1>3, <1>4, <1>5

(* The actor that is busy goes on, or is done and everything is right.       *)
LEMMA ActorMove ==
  ASSUME SipInv, ~overlapped, NEW a \in Actors, StepOf(a)
  PROVE  /\ sipTodo' = [sipTodo EXCEPT ![a] = Tail(@)] /\ sipTodo[a] # <<>>
         /\ IF sipTodo'[a] = <<>> THEN AllTrue' ELSE SipProgress(a)'
<1>1. /\ sipTodo' = [sipTodo EXCEPT ![a] = Tail(@)] /\ sipTodo[a] # <<>>
      /\ sipTodo'[a] = Tail(sipTodo[a])
  <2>1. sipTodo' = [sipTodo EXCEPT ![a] = Tail(@)] /\ sipTodo[a] # <<>>
    BY DEF StepOf, SaveRow, ReadRows, syncVpnAclFiles, writeExtensionsConfig,
           writeInboundRoutesConfig, writeTrunksConfig, reloadResPjsip, reloadDialplan, Await
  <2> QED BY <2>1 DEF SipInv, SipTypes
<1>2. SipTypes /\ SipProgress(a)
  BY <1>1 DEF SipInv
<1>3. /\ ExtSteps \in Seq(StepNames) /\ Len(ExtSteps) = 10
      /\ RouteSteps \in Seq(StepNames) /\ Len(RouteSteps) = 4
      /\ TrunkSteps \in Seq(StepNames) /\ Len(TrunkSteps) = 2
  BY DEF ExtSteps, RouteSteps, TrunkSteps, StepNames
<1>4. ASSUME NEW i \in 1..17, a = Boot, sipTodo[a] = Rest(BootSteps, i), BootReached(i, sipSnap[a])
      PROVE  IF sipTodo'[a] = <<>> THEN AllTrue' ELSE SipProgress(a)'
  <2>1. /\ Head(sipTodo[a]) = BootSteps[i] /\ Tail(sipTodo[a]) = Rest(BootSteps, i + 1)
        /\ Len(sipTodo[a]) = 1 <=> i = 17
        /\ Rest(BootSteps, i + 1) = <<>> <=> i = 17
    <3>1. PICK n \in Nat : n = 17
      OBVIOUS
    <3>2. BootSteps \in Seq(StepNames) /\ Len(BootSteps) = n /\ i \in 1..n
      BY BootList, <3>1
    <3>3. Head(sipTodo[a]) = BootSteps[i]
      BY <1>4, <3>2, RestOfMany
    <3>4. Tail(sipTodo[a]) = Rest(BootSteps, i + 1)
      BY <1>4, <3>2, RestOfMany
    <3>5. Len(sipTodo[a]) = 1 <=> i = n
      BY <1>4, <3>2, RestOfMany
    <3>6. Rest(BootSteps, i + 1) = <<>> <=> i = n
      BY <1>4, <3>2, RestOfMany
    <3> QED BY <3>1, <3>3, <3>4, <3>5, <3>6
  <2>2. /\ Head(sipTodo[a]) = BootSteps[i] /\ sipTodo'[a] = Rest(BootSteps, i + 1)
        /\ Len(sipTodo[a]) = 1 <=> i = 17
        /\ sipTodo'[a] = <<>> <=> i = 17
    BY <1>1, <2>1
  <2>3. /\ i # 17 => BootReached(i + 1, sipSnap[a])'
        /\ i = 17 => AllTrue'
    BY <1>2, <1>4, <2>2, BootMove
  <2>4. i # 17 => i + 1 \in 1..17
    OBVIOUS
  <2> QED BY <1>4, <2>2, <2>3, <2>4 DEF SipProgress
<1>5. ASSUME NEW i \in 1..10, a \in Admins, TrunksTrue, sipTodo[a] = Rest(ExtSteps, i),
             ExtReached(i, sipSnap[a])
      PROVE  IF sipTodo'[a] = <<>> THEN AllTrue' ELSE SipProgress(a)'
  <2>1. /\ Head(sipTodo[a]) = ExtSteps[i] /\ Tail(sipTodo[a]) = Rest(ExtSteps, i + 1)
        /\ Len(sipTodo[a]) = 1 <=> i = 10
        /\ Rest(ExtSteps, i + 1) = <<>> <=> i = 10
    <3>1. PICK n \in Nat : n = 10
      OBVIOUS
    <3>2. ExtSteps \in Seq(StepNames) /\ Len(ExtSteps) = n /\ i \in 1..n
      BY <1>3, <3>1
    <3>3. Head(sipTodo[a]) = ExtSteps[i]
      BY <1>5, <3>2, RestOfMany
    <3>4. Tail(sipTodo[a]) = Rest(ExtSteps, i + 1)
      BY <1>5, <3>2, RestOfMany
    <3>5. Len(sipTodo[a]) = 1 <=> i = n
      BY <1>5, <3>2, RestOfMany
    <3>6. Rest(ExtSteps, i + 1) = <<>> <=> i = n
      BY <1>5, <3>2, RestOfMany
    <3> QED BY <3>1, <3>3, <3>4, <3>5, <3>6
  <2>2. /\ Head(sipTodo[a]) = ExtSteps[i] /\ sipTodo'[a] = Rest(ExtSteps, i + 1)
        /\ Len(sipTodo[a]) = 1 <=> i = 10
        /\ sipTodo'[a] = <<>> <=> i = 10
    BY <1>1, <2>1
  <2>3. /\ i # 10 => ExtReached(i + 1, sipSnap[a])'
        /\ i = 10 => AllTrue'
        /\ TrunksTrue'
    BY <1>2, <1>5, <2>2, ExtMove
  <2>4. i # 10 => i + 1 \in 1..10
    OBVIOUS
  <2> QED BY <1>5, <2>2, <2>3, <2>4 DEF SipProgress
<1>6. ASSUME NEW i \in 1..4, a \in Admins, sipTodo[a] = Rest(RouteSteps, i),
             RouteReached(i, sipSnap[a])
      PROVE  IF sipTodo'[a] = <<>> THEN AllTrue' ELSE SipProgress(a)'
  <2>1. /\ Head(sipTodo[a]) = RouteSteps[i] /\ Tail(sipTodo[a]) = Rest(RouteSteps, i + 1)
        /\ Len(sipTodo[a]) = 1 <=> i = 4
        /\ Rest(RouteSteps, i + 1) = <<>> <=> i = 4
    <3>1. PICK n \in Nat : n = 4
      OBVIOUS
    <3>2. RouteSteps \in Seq(StepNames) /\ Len(RouteSteps) = n /\ i \in 1..n
      BY <1>3, <3>1
    <3>3. Head(sipTodo[a]) = RouteSteps[i]
      BY <1>6, <3>2, RestOfMany
    <3>4. Tail(sipTodo[a]) = Rest(RouteSteps, i + 1)
      BY <1>6, <3>2, RestOfMany
    <3>5. Len(sipTodo[a]) = 1 <=> i = n
      BY <1>6, <3>2, RestOfMany
    <3>6. Rest(RouteSteps, i + 1) = <<>> <=> i = n
      BY <1>6, <3>2, RestOfMany
    <3> QED BY <3>1, <3>3, <3>4, <3>5, <3>6
  <2>2. /\ Head(sipTodo[a]) = RouteSteps[i] /\ sipTodo'[a] = Rest(RouteSteps, i + 1)
        /\ Len(sipTodo[a]) = 1 <=> i = 4
        /\ sipTodo'[a] = <<>> <=> i = 4
    BY <1>1, <2>1
  <2>3. /\ i # 4 => RouteReached(i + 1, sipSnap[a])'
        /\ i = 4 => AllTrue'
    BY <1>2, <1>6, <2>2, RouteMove
  <2>4. i # 4 => i + 1 \in 1..4
    OBVIOUS
  <2> QED BY <1>6, <2>2, <2>3, <2>4 DEF SipProgress
<1>7. ASSUME NEW i \in 1..2, a \in Admins, sipTodo[a] = Rest(TrunkSteps, i), TrunkReached(i)
      PROVE  IF sipTodo'[a] = <<>> THEN AllTrue' ELSE SipProgress(a)'
  <2>1. /\ Head(sipTodo[a]) = TrunkSteps[i] /\ Tail(sipTodo[a]) = Rest(TrunkSteps, i + 1)
        /\ Len(sipTodo[a]) = 1 <=> i = 2
        /\ Rest(TrunkSteps, i + 1) = <<>> <=> i = 2
    <3>1. PICK n \in Nat : n = 2
      OBVIOUS
    <3>2. TrunkSteps \in Seq(StepNames) /\ Len(TrunkSteps) = n /\ i \in 1..n
      BY <1>3, <3>1
    <3>3. Head(sipTodo[a]) = TrunkSteps[i]
      BY <1>7, <3>2, RestOfMany
    <3>4. Tail(sipTodo[a]) = Rest(TrunkSteps, i + 1)
      BY <1>7, <3>2, RestOfMany
    <3>5. Len(sipTodo[a]) = 1 <=> i = n
      BY <1>7, <3>2, RestOfMany
    <3>6. Rest(TrunkSteps, i + 1) = <<>> <=> i = n
      BY <1>7, <3>2, RestOfMany
    <3> QED BY <3>1, <3>3, <3>4, <3>5, <3>6
  <2>2. /\ Head(sipTodo[a]) = TrunkSteps[i] /\ sipTodo'[a] = Rest(TrunkSteps, i + 1)
        /\ Len(sipTodo[a]) = 1 <=> i = 2
        /\ sipTodo'[a] = <<>> <=> i = 2
    BY <1>1, <2>1
  <2>3. /\ i = 1 => TrunkReached(i + 1)'
        /\ i = 2 => AllTrue'
    BY <1>2, <1>7, <2>2, TrunkMove
  <2>4. i # 2 => i + 1 \in 1..2
    OBVIOUS
  <2> QED BY <1>7, <2>2, <2>3, <2>4 DEF SipProgress
<1>8. ASSUME a \in Admins, AllTrue, NEW t \in {ExtSteps, RouteSteps, TrunkSteps},
             sipTodo[a] = <<"save">> \o t,
             \/ t = ExtSteps /\ sipSnap[a].save[1] = "ext"
             \/ t = RouteSteps /\ sipSnap[a].save[1] = "route"
             \/ t = TrunkSteps /\ sipSnap[a].save[1] = "trunk"
      PROVE  IF sipTodo'[a] = <<>> THEN AllTrue' ELSE SipProgress(a)'
  <2>1. t \in Seq(StepNames)
    BY <1>3
  <2>2. Head(sipTodo[a]) = "save" /\ sipTodo'[a] = t /\ Rest(t, 1) = t
    BY <1>1, <1>8, <2>1, SaveFirst
  <2>3. t # <<>>
    BY DEF ExtSteps, RouteSteps, TrunkSteps
  <2>4. SaveRow(a)
    BY <2>2 DEF StepOf, ReadRows, syncVpnAclFiles, writeExtensionsConfig,
                writeInboundRoutesConfig, writeTrunksConfig, reloadResPjsip, reloadDialplan, Await
  <2>5. CASE t = ExtSteps
    <3>1. sipSnap[a].save[1] = "ext"
      BY <1>8, <2>5 DEF ExtSteps, RouteSteps, TrunkSteps
    <3>2. UNCHANGED <<routeRows, trunkRow, sipFiles, loaded>>
      BY <2>4, <3>1 DEF SaveRow
    <3>3. TrunksTrue' /\ ExtReached(1, sipSnap[a])'
      BY <1>8, <3>2 DEF AllTrue, TrunksTrue, ExtReached
    <3> QED BY <1>8, <2>2, <2>3, <2>5, <3>3 DEF SipProgress
  <2>6. CASE t = RouteSteps
    <3>1. sipSnap[a].save[1] = "route"
      BY <1>8, <2>6 DEF ExtSteps, RouteSteps, TrunkSteps
    <3>2. UNCHANGED <<extRows, trunkRow, sipFiles, loaded>>
      BY <2>4, <3>1 DEF SaveRow
    <3>3. RouteReached(1, sipSnap[a])'
      BY <1>8, <3>2 DEF AllTrue, ExtFilesTrue, TrunksTrue, RouteReached, VpnOnly, Usernames
    <3> QED BY <1>8, <2>2, <2>3, <2>6, <3>3 DEF SipProgress
  <2>7. CASE t = TrunkSteps
    <3>1. sipSnap[a].save[1] = "trunk"
      BY <1>8, <2>7 DEF ExtSteps, RouteSteps, TrunkSteps
    <3>2. UNCHANGED <<extRows, routeRows, sipFiles, loaded>>
      BY <2>4, <3>1 DEF SaveRow
    <3>3. TrunkReached(1)'
      BY <1>8, <3>2 DEF AllTrue, ExtFilesTrue, DialFilesTrue, TrunkReached, VpnOnly, Usernames
    <3> QED BY <1>8, <2>2, <2>3, <2>7, <3>3 DEF SipProgress
  <2> QED BY <2>5, <2>6, <2>7
<1> QED BY <1>1, <1>2, <1>4, <1>5, <1>6, <1>7, <1>8 DEF SipProgress

(* Every step preserves the invariant.                                       *)
LEMMA SipInvStep ==
  ASSUME SipInv, [SipNext]_sipVars
  PROVE  SipInv'
<1>1. CASE UNCHANGED sipVars
  <2>1. UNCHANGED <<extRows, routeRows, trunkRow, sipFiles, loaded, sipTodo, sipSnap, overlapped>>
    BY <1>1 DEF sipVars
  <2>2. SipTypes'
    BY <2>1 DEF SipInv, SipTypes
  <2>3. (AllTrue' <=> AllTrue) /\ (TrunksTrue' <=> TrunksTrue)
    BY <2>1 DEF AllTrue, ExtFilesTrue, DialFilesTrue, TrunksTrue, VpnOnly, Usernames
  <2>4. \A a \in Actors, i \in Int :
          /\ ExtReached(i, sipSnap[a])' <=> ExtReached(i, sipSnap[a])
          /\ RouteReached(i, sipSnap[a])' <=> RouteReached(i, sipSnap[a])
          /\ TrunkReached(i)' <=> TrunkReached(i)
    BY <2>1 DEF ExtReached, RouteReached, TrunkReached, ExtFilesTrue, DialFilesTrue, TrunksTrue,
                VpnOnly, Usernames
  <2>5. \A a \in Actors, i \in 1..17 : BootReached(i, sipSnap[a])' <=> BootReached(i, sipSnap[a])
    BY <2>3, <2>4 DEF BootReached
  <2>6. \A a \in Actors : SipProgress(a)' <=> SipProgress(a)
    <3> SUFFICES ASSUME NEW a \in Actors
                 PROVE  SipProgress(a)' <=> SipProgress(a)
      OBVIOUS
    <3>1. sipTodo'[a] = sipTodo[a] /\ sipSnap'[a] = sipSnap[a]
      BY <2>1
    <3>2. (\E i \in 1..17 : sipTodo'[a] = Rest(BootSteps, i) /\ BootReached(i, sipSnap[a])')
            <=> \E i \in 1..17 : sipTodo[a] = Rest(BootSteps, i) /\ BootReached(i, sipSnap[a])
      BY <2>5, <3>1
    <3>3. (\E i \in 1..10 : sipTodo'[a] = Rest(ExtSteps, i) /\ ExtReached(i, sipSnap[a])')
            <=> \E i \in 1..10 : sipTodo[a] = Rest(ExtSteps, i) /\ ExtReached(i, sipSnap[a])
      BY <2>4, <3>1
    <3>4. (\E i \in 1..4 : sipTodo'[a] = Rest(RouteSteps, i) /\ RouteReached(i, sipSnap[a])')
            <=> \E i \in 1..4 : sipTodo[a] = Rest(RouteSteps, i) /\ RouteReached(i, sipSnap[a])
      BY <2>4, <3>1
    <3>5. (\E i \in 1..2 : sipTodo'[a] = Rest(TrunkSteps, i) /\ TrunkReached(i)')
            <=> \E i \in 1..2 : sipTodo[a] = Rest(TrunkSteps, i) /\ TrunkReached(i)
      BY <2>4, <3>1
    <3> QED BY <2>3, <3>1, <3>2, <3>3, <3>4, <3>5 DEF SipProgress
  <2> QED BY <2>1, <2>2, <2>3, <2>6 DEF SipInv, SipQuiet
<1>2. CASE SipNext
  <2>1. SipTypes'
    BY <1>2, SipTypesStep DEF SipInv
  <2>2. ASSUME NEW a \in Admins, NEW k \in SipSaves,
               NEW t \in {ExtSteps, RouteSteps, TrunkSteps}, WriteAccepted(a, k, t),
               UNCHANGED <<extRows, routeRows, trunkRow, sipFiles, loaded>>,
               \/ t = ExtSteps /\ k[1] = "ext"
               \/ t = RouteSteps /\ k[1] = "route"
               \/ t = TrunkSteps /\ k[1] = "trunk"
        PROVE  SipInv'
    <3>1. SUFFICES ASSUME ~overlapped'
                   PROVE  /\ \A b, c \in Actors : sipTodo'[b] # <<>> /\ sipTodo'[c] # <<>> => b = c
                          /\ \A b \in Actors : sipTodo'[b] # <<>> => SipProgress(b)'
                          /\ SipQuiet' => AllTrue'
      BY <2>1 DEF SipInv
    <3>2. /\ \A b \in Actors : sipTodo[b] = <<>>
          /\ ~overlapped /\ a \in Actors
          /\ sipTodo' = [sipTodo EXCEPT ![a] = <<"save">> \o t]
          /\ sipSnap' = [sipSnap EXCEPT ![a] = NothingRead(k)]
      BY <2>2, <3>1 DEF WriteAccepted, Actors
    <3>3. AllTrue
      BY <3>2 DEF SipInv, SipQuiet
    <3>4. AllTrue'
      BY <2>2, <3>3 DEF AllTrue, ExtFilesTrue, DialFilesTrue, TrunksTrue, VpnOnly, Usernames
    <3>5. /\ sipTodo'[a] = <<"save">> \o t /\ sipSnap'[a].save = k
          /\ \A b \in Actors : b # a => sipTodo'[b] = <<>>
      BY <3>2 DEF SipInv, SipTypes, NothingRead
    <3>6. SipProgress(a)'
      BY <2>2, <3>4, <3>5 DEF SipProgress
    <3> QED BY <3>4, <3>5, <3>6
  <2>3. CASE SipRequest
    <3>1. ASSUME NEW a \in Admins, NEW n \in SipNumbers, NEW kind \in ExtKinds, ExtensionSaved(a, n, kind)
          PROVE  SipInv'
      <4>1. <<"ext", n, kind>> \in SipSaves /\ <<"ext", n, kind>>[1] = "ext"
        BY DEF SipSaves
      <4> QED BY <2>2, <3>1, <4>1 DEF ExtensionSaved
    <3>2. ASSUME NEW a \in Admins, NEW n \in SipNumbers, NEW add \in BOOLEAN, RouteSaved(a, n, add)
          PROVE  SipInv'
      <4>1. PICK x \in {"did", "none"} : x = IF add THEN "did" ELSE "none"
        OBVIOUS
      <4>2. <<"route", n, x>> \in SipSaves /\ <<"route", n, x>>[1] = "route"
        BY DEF SipSaves
      <4>3. WriteAccepted(a, <<"route", n, x>>, RouteSteps)
        BY <3>2, <4>1 DEF RouteSaved
      <4> QED BY <2>2, <3>2, <4>2, <4>3 DEF RouteSaved
    <3>3. ASSUME NEW a \in Admins, NEW row \in TrunkRows, TrunkSaved(a, row)
          PROVE  SipInv'
      <4>1. <<"trunk", "", row>> \in SipSaves /\ <<"trunk", "", row>>[1] = "trunk"
        BY DEF SipSaves
      <4> QED BY <2>2, <3>3, <4>1 DEF TrunkSaved
    <3> QED BY <2>3, <3>1, <3>2, <3>3 DEF SipRequest, ExtKinds
  <2>4. ASSUME NEW a \in Actors, StepOf(a)
        PROVE  SipInv'
    <3>1. overlapped' = overlapped
      BY <2>4 DEF StepOf, SaveRow, ReadRows, syncVpnAclFiles, writeExtensionsConfig,
                  writeInboundRoutesConfig, writeTrunksConfig, reloadResPjsip, reloadDialplan,
                  WroteFiles
    <3>2. SUFFICES ASSUME ~overlapped
                   PROVE  /\ \A b, c \in Actors : sipTodo'[b] # <<>> /\ sipTodo'[c] # <<>> => b = c
                          /\ \A b \in Actors : sipTodo'[b] # <<>> => SipProgress(b)'
                          /\ SipQuiet' => AllTrue'
      BY <2>1, <3>1 DEF SipInv
    <3>3. /\ sipTodo' = [sipTodo EXCEPT ![a] = Tail(@)] /\ sipTodo[a] # <<>>
          /\ IF sipTodo'[a] = <<>> THEN AllTrue' ELSE SipProgress(a)'
      BY <2>4, <3>2, ActorMove
    <3>4. \A b \in Actors : b # a => sipTodo'[b] = <<>>
      BY <3>2, <3>3 DEF SipInv, SipTypes
    <3> QED BY <3>3, <3>4 DEF SipQuiet
  <2>5. CASE BackendRestarts
    <3>1. sipTodo' = [a \in Actors |-> IF a = Boot THEN BootSteps ELSE <<>>] /\ Boot \in Actors
      BY <2>5 DEF BackendRestarts, Actors
    <3>2. sipTodo'[Boot] = BootSteps /\ \A a \in Actors : a # Boot => sipTodo'[a] = <<>>
      BY <3>1
    <3>3. BootSteps = Rest(BootSteps, 1) /\ BootSteps # <<>>
      BY BootList, SaveFirst
    <3>4. BootReached(1, sipSnap[Boot])'
      BY DEF BootReached, ExtReached
    <3>5. SipProgress(Boot)'
      BY <3>2, <3>3, <3>4 DEF SipProgress
    <3> QED BY <2>1, <3>1, <3>2, <3>3, <3>5 DEF SipInv, SipQuiet
  <2> QED BY <1>2, <2>3, <2>4, <2>5 DEF SipNext, SipStep, StepOf
<1> QED BY <1>1, <1>2

(* With no request under way, and none overlapping another since the start,  *)
(* the files Asterisk reads are the ones the tables generate, whatever the   *)
(* requests were and wherever the process stopped before.                    *)
THEOREM FilesFollowRowsHolds == PlatformSpec => []FilesFollowRows
<1>1. PlatformInit => SipInv
  <2> SUFFICES ASSUME SipInit
               PROVE  SipInv
    BY DEF PlatformInit
  <2>1. SipTypes
    <3>1. NothingRead(NoSave) \in [save : SipSaves, exts : [SipNumbers -> ExtKinds],
                                   users : SUBSET SipNumbers, dids : SUBSET SipNumbers]
      BY DEF NothingRead, NoRows, SipSaves, ExtKinds
    <3>2. sipTodo \in [Actors -> Seq(StepNames)]
      BY BootList DEF SipInit
    <3>3. sipSnap \in [Actors -> [save : SipSaves, exts : [SipNumbers -> ExtKinds],
                                  users : SUBSET SipNumbers, dids : SUBSET SipNumbers]]
      BY <3>1 DEF SipInit
    <3>4. NoRows \in [SipNumbers -> ExtKinds]
      BY DEF NoRows, ExtKinds
    <3> QED BY <3>2, <3>3, <3>4 DEF SipInit, SipTypes
  <2>2. sipTodo = [a \in Actors |-> IF a = Boot THEN BootSteps ELSE <<>>] /\ Boot \in Actors
    BY DEF SipInit, Actors
  <2>3. sipTodo[Boot] = BootSteps /\ \A a \in Actors : a # Boot => sipTodo[a] = <<>>
    BY <2>2
  <2>4. BootSteps = Rest(BootSteps, 1) /\ BootSteps # <<>>
    BY BootList, SaveFirst
  <2>5. SipProgress(Boot)
    BY <2>3, <2>4 DEF SipProgress, BootReached, ExtReached
  <2> QED BY <2>1, <2>2, <2>3, <2>4, <2>5 DEF SipInv, SipQuiet
<1>2. SipInv /\ [PlatformNext]_platformVars => SipInv'
  BY SipSteps, SipInvStep
<1>3. SipInv => FilesFollowRows
  <2> SUFFICES ASSUME SipTypes, AllTrue
               PROVE  /\ sipFiles = [acl |-> VpnOnly(extRows),
                                     ext |-> buildExtensionsConfig(extRows),
                                     relay |-> Usernames(extRows),
                                     trunks |-> buildTrunksConfig(trunkRow),
                                     dial |-> Usernames(extRows), dids |-> routeRows]
                      /\ loaded.pjsip # "stale" /\ loaded.dialplan # "stale"
    BY DEF SipInv, FilesFollowRows
  <2> QED BY DEF SipTypes, AllTrue, ExtFilesTrue, DialFilesTrue, TrunksTrue, buildExtensionsConfig
<1> QED BY <1>1, <1>2, <1>3, PTL DEF PlatformSpec
-----------------------------------------------------------------------------
(* Flow storage: a flow that is there has a current version, the root's is   *)
(* its newest, and a submenu is there only with its root.                    *)
StoredNodes ==
  [body : {p.body : p \in Payloads} \cup {"none"}, layout : Nat, handles : BOOLEAN]
Snapshot == [owner : {"none"} \cup StoredFlows, nodes : StoredNodes, sub : StoredNodes]
Version == [nodes : StoredNodes, snapshot : Snapshot]

\* Versions and their current ones, of the flows that are there.
Sound(vs, cur) ==
  /\ vs \in [StoredFlows -> Seq(Version)] /\ cur \in [StoredFlows -> Nat]
  /\ \A f \in StoredFlows : Present(f) => cur[f] \in 1..Len(vs[f])
  /\ cur["root"] = Len(vs["root"])

StoreInv ==
  /\ flowRow \in [StoredFlows -> {"absent", "present", "deleted"}]
  /\ Sound(versions, currentVersionId)
  /\ \A f \in StoredFlows : ~Present(f) => versions[f] = <<>> /\ currentVersionId[f] = 0
  /\ Present("sub") => Present("root")

\* ws has the versions of vs, the newest perhaps rewritten, and maybe more.
Continues(vs, ws) ==
  \A f \in StoredFlows :
    /\ Len(vs[f]) <= Len(ws[f])
    /\ \A v \in 1..Len(vs[f]) : v < Len(vs[f]) => ws[f][v] = vs[f][v]

SameNumbers(vs, ws) == \A g \in StoredFlows : Len(ws[g]) = Len(vs[g])

OneMore(vs, ws, f) ==
  /\ Len(ws[f]) = Len(vs[f]) + 1
  /\ \A g \in StoredFlows : g # f => ws[g] = vs[g]

(* A step of another component leaves the flows alone.                       *)
LEMMA StoreSteps ==
  ASSUME [PlatformNext]_platformVars
  PROVE  [FlowStoreNext]_storeVars
BY DEF PlatformNext, Only, platformVars

(* Rewriting the newest version of a flow.                                   *)
LEMMA ReplacedVersion ==
  ASSUME NEW vs \in [StoredFlows -> Seq(Version)], NEW f \in StoredFlows,
         NEW v, v = Len(vs[f]), v # 0, NEW s \in Snapshot,
         NEW ws, ws = replaceVersionSnapshot(vs, f, v, s)
  PROVE  /\ ws \in [StoredFlows -> Seq(Version)] /\ Continues(vs, ws)
         /\ SameNumbers(vs, ws)
<1> DEFINE e == [nodes |-> s.nodes, snapshot |-> s]
<1>1. e \in Version
  BY DEF Snapshot, Version
<1>2. v \in 1..Len(vs[f]) /\ vs[f] \in Seq(Version)
  OBVIOUS
<1>3. ws = [vs EXCEPT ![f] = [vs[f] EXCEPT ![v] = e]]
  BY DEF replaceVersionSnapshot
<1> HIDE DEF e
<1>4. PICK t : t = [vs[f] EXCEPT ![v] = e]
  OBVIOUS
<1>5. t \in Seq(Version) /\ Len(t) = Len(vs[f])
  BY <1>1, <1>2, <1>4, ExceptSeq
<1>6. \A i \in 1..Len(vs[f]) : i # v => t[i] = vs[f][i]
  BY <1>2, <1>4
<1>7. ws[f] = t /\ \A g \in StoredFlows : g # f => ws[g] = vs[g]
  BY <1>3, <1>4
<1>8. ws \in [StoredFlows -> Seq(Version)]
  BY <1>3, <1>4, <1>5
<1>9. \A g \in StoredFlows : Len(vs[g]) \in Nat
  OBVIOUS
<1>10. \A g \in StoredFlows : Len(ws[g]) = Len(vs[g])
  BY <1>5, <1>7
<1>11. \A g \in StoredFlows : \A i \in 1..Len(vs[g]) : i < Len(vs[g]) => ws[g][i] = vs[g][i]
  BY <1>6, <1>7
<1>12. Continues(vs, ws)
  BY <1>9, <1>10, <1>11 DEF Continues
<1> QED BY <1>8, <1>10, <1>12 DEF SameNumbers

(* Adding a version to a flow.                                               *)
LEMMA AddedVersion ==
  ASSUME NEW vs \in [StoredFlows -> Seq(Version)], NEW f \in StoredFlows,
         NEW s \in Snapshot, NEW nodes \in StoredNodes,
         NEW ws, ws = createStoredVersion(vs, f, s, nodes)
  PROVE  /\ ws \in [StoredFlows -> Seq(Version)] /\ Continues(vs, ws)
         /\ OneMore(vs, ws, f)
<1> DEFINE e == [nodes |-> nodes, snapshot |-> s]
<1>1. e \in Version
  BY DEF Version
<1>2. ws = [vs EXCEPT ![f] = Append(vs[f], e)]
  BY DEF createStoredVersion
<1> HIDE DEF e
<1>3. PICK t : t = Append(vs[f], e)
  OBVIOUS
<1>4. /\ t \in Seq(Version) /\ Len(t) = Len(vs[f]) + 1
      /\ \A i \in 1..Len(vs[f]) : t[i] = vs[f][i]
  BY <1>1, <1>3
<1>5. ws[f] = t /\ \A g \in StoredFlows : g # f => ws[g] = vs[g]
  BY <1>2, <1>3
<1>6. ws \in [StoredFlows -> Seq(Version)]
  BY <1>2, <1>3, <1>4
<1>7. \A g \in StoredFlows : Len(vs[g]) \in Nat
  OBVIOUS
<1>8. \A g \in StoredFlows : Len(vs[g]) <= Len(ws[g])
  BY <1>4, <1>5, <1>7
<1>9. \A g \in StoredFlows : \A i \in 1..Len(vs[g]) : ws[g][i] = vs[g][i]
  BY <1>4, <1>5
<1>10. Continues(vs, ws)
  BY <1>8, <1>9 DEF Continues
<1>11. Len(ws[f]) = Len(vs[f]) + 1
  BY <1>4, <1>5
<1> QED BY <1>5, <1>6, <1>10, <1>11 DEF OneMore

(* Each rewriting or addition keeps what the one before it kept.             *)
LEMMA ContinuesOn ==
  ASSUME NEW us \in [StoredFlows -> Seq(Version)], NEW vs \in [StoredFlows -> Seq(Version)],
         NEW ws \in [StoredFlows -> Seq(Version)], Continues(us, vs), Continues(vs, ws)
  PROVE  Continues(us, ws)
<1>1. \A f \in StoredFlows : Len(us[f]) \in Nat /\ Len(vs[f]) \in Nat /\ Len(ws[f]) \in Nat
  OBVIOUS
<1> QED BY <1>1 DEF Continues

(* The snapshots the services build.                                         *)
LEMMA SnapshotTypes ==
  ASSUME NEW vs, NEW cur, Sound(vs, cur)
  PROVE  /\ \A f \in StoredFlows : SubflowSnapshots(vs, cur, f) \in StoredNodes
         /\ Present("root") => buildFullTreeSnapshot(vs, cur) \in Snapshot
<1>1. ASSUME NEW f \in StoredFlows, Present(f)
      PROVE  Rows(vs, cur, f) \in StoredNodes
  <2>1. cur[f] \in 1..Len(vs[f]) /\ vs[f] \in Seq(Version)
    BY <1>1 DEF Sound
  <2>2. vs[f][cur[f]] \in Version
    BY <2>1
  <2> QED BY <2>2 DEF Rows, Version
<1>2. NoSub \in StoredNodes
  BY DEF NoSub, StoredNodes
<1>3. \A f \in StoredFlows : SubflowSnapshots(vs, cur, f) \in StoredNodes
  BY <1>1, <1>2 DEF SubflowSnapshots, StoredFlows
<1>4. "root" \in StoredFlows
  BY DEF StoredFlows
<1> QED BY <1>1, <1>3, <1>4 DEF buildFullTreeSnapshot, Snapshot

(* The snapshot of a save.                                                   *)
LEMMA SavedSnapshotTypes ==
  ASSUME StoreInv, NEW f \in StoredFlows, NEW p \in Payloads
  PROVE  buildSnapshotForSave(f, p) \in Snapshot /\ p \in StoredNodes
<1>1. p \in StoredNodes
  BY PayloadAssumption DEF StoredNodes
<1>2. SubflowSnapshots(versions, currentVersionId, f) \in StoredNodes
  BY SnapshotTypes DEF StoreInv
<1> QED BY <1>1, <1>2 DEF buildSnapshotForSave, Snapshot

(* A save rewrites the newest version or adds one, which is then current.    *)
LEMMA SaveFlowSound ==
  ASSUME NEW vs, NEW cur, Sound(vs, cur), NEW f \in StoredFlows, Present(f),
         NEW s \in Snapshot, NEW last, last = Latest(vs, f),
         NEW r \in SaveFlow(f, s, last, last, vs, cur)
  PROVE  /\ Sound(r.versions, r.current) /\ Continues(vs, r.versions)
         /\ \A g \in StoredFlows : g # f =>
              r.versions[g] = vs[g] /\ r.current[g] = cur[g]
<1>1. /\ vs \in [StoredFlows -> Seq(Version)] /\ cur \in [StoredFlows -> Nat]
      /\ \A g \in StoredFlows : Len(vs[g]) \in Nat
      /\ cur["root"] = Len(vs["root"]) /\ "root" \in StoredFlows
  BY DEF Sound, StoredFlows
<1>2. PICK v \in Nat : v = Len(vs[f]) /\ v # 0 /\ v = Latest(vs, f)
  BY <1>1 DEF Sound, Latest
<1>3. CASE snapshotsAreStructurallyEqual(vs[f][v].snapshot, s)
  <2>1. /\ r.versions = replaceVersionSnapshot(vs, f, v, s)
        /\ r.current = cur
    BY <1>2, <1>3 DEF SaveFlow
  <2>2. /\ r.versions \in [StoredFlows -> Seq(Version)] /\ Continues(vs, r.versions)
        /\ \A g \in StoredFlows : Len(r.versions[g]) = Len(vs[g])
    <3>1. PICK ws : ws = r.versions
      OBVIOUS
    <3>2. ws = replaceVersionSnapshot(vs, f, v, s) /\ v = Len(vs[f]) /\ v # 0
      BY <1>2, <2>1, <3>1
    <3>3. ws \in [StoredFlows -> Seq(Version)]
      BY <1>1, <3>2, ReplacedVersion
    <3>4. Continues(vs, ws)
      BY <1>1, <3>2, ReplacedVersion
    <3>5. SameNumbers(vs, ws)
      BY <1>1, <3>2, ReplacedVersion
    <3> QED BY <3>1, <3>3, <3>4, <3>5 DEF SameNumbers
  <2>3. r.current \in [StoredFlows -> Nat] /\ r.current["root"] = cur["root"]
    BY <1>1, <1>2, <2>1
  <2>4. \A g \in StoredFlows : g # f => r.versions[g] = vs[g]
    BY <1>1, <2>1 DEF replaceVersionSnapshot
  <2>5. \A g \in StoredFlows : Present(g) => r.current[g] \in 1..Len(r.versions[g])
    BY <1>1, <2>1, <2>2 DEF Sound
  <2>6. r.current["root"] = Len(r.versions["root"])
    BY <1>1, <2>2, <2>3
  <2> QED BY <2>1, <2>2, <2>3, <2>4, <2>5, <2>6 DEF Sound
<1>4. CASE ~snapshotsAreStructurallyEqual(vs[f][v].snapshot, s)
  <2>1. /\ r.versions = createStoredVersion(vs, f, s, s.nodes)
        /\ r.current = [cur EXCEPT ![f] = v + 1]
    <3>1. \A n \in {last + 1} \cap {Latest(vs, f) + 1} : n = v + 1
      BY <1>2
    <3>2. r \in {[versions |-> createStoredVersion(vs, f, s, s.nodes),
                 current |-> [cur EXCEPT ![f] = n]] : n \in {last + 1} \cap {Latest(vs, f) + 1}}
      BY <1>2, <1>4 DEF SaveFlow
    <3> QED BY <3>1, <3>2
  <2>2. s.nodes \in StoredNodes
    BY DEF Snapshot
  <2>3. /\ r.versions \in [StoredFlows -> Seq(Version)] /\ Continues(vs, r.versions)
        /\ Len(r.versions[f]) = Len(vs[f]) + 1
        /\ \A g \in StoredFlows : g # f => r.versions[g] = vs[g]
    <3>1. PICK ws : ws = r.versions
      OBVIOUS
    <3>2. ws = createStoredVersion(vs, f, s, s.nodes)
      BY <2>1, <3>1
    <3>3. ws \in [StoredFlows -> Seq(Version)]
      BY <1>1, <2>2, <3>2, AddedVersion
    <3>4. Continues(vs, ws)
      BY <1>1, <2>2, <3>2, AddedVersion
    <3>5. OneMore(vs, ws, f)
      BY <1>1, <2>2, <3>2, AddedVersion
    <3> QED BY <3>1, <3>3, <3>4, <3>5 DEF OneMore
  <2>4. /\ r.current \in [StoredFlows -> Nat] /\ r.current[f] = v + 1
        /\ \A g \in StoredFlows : g # f => r.current[g] = cur[g]
    BY <1>1, <1>2, <2>1
  <2>5. \A g \in StoredFlows : Present(g) => r.current[g] \in 1..Len(r.versions[g])
    <3>1. f \in StoredFlows /\ r.current[f] \in 1..Len(r.versions[f])
      <4>1. r.current[f] = v + 1 /\ Len(r.versions[f]) = v + 1
        BY <1>2, <2>3, <2>4
      <4> QED BY <4>1
    <3> QED BY <3>1, <2>3, <2>4 DEF Sound
  <2>6. r.current["root"] = Len(r.versions["root"])
    BY <1>1, <1>2, <2>3, <2>4
  <2> QED BY <2>3, <2>4, <2>5, <2>6 DEF Sound
<1> QED BY <1>3, <1>4

\* What a request has read: the flow it is about and two pairs of numbers.
VersionNumbers == [latest : Nat, current : Nat]
Begun == [flow : StoredFlows, own : VersionNumbers, root : VersionNumbers]
BasisTypes == basis \in [StoreRequests -> {NotBegun} \cup Begun]

\* The versions with a successor stay, of the flows that stay.
VersionsStay ==
  \A f \in StoredFlows : flowRow'[f] = "present" =>
    \A v \in DOMAIN versions[f] : v < Len(versions[f]) => versions'[f][v] = versions[f][v]

(* A change of the versions of the flows that are there.                     *)
LEMMA ContinuesStep ==
  ASSUME StoreInv, UNCHANGED flowRow, Sound(versions', currentVersionId'),
         Continues(versions, versions'),
         \A f \in StoredFlows : ~Present(f) =>
           versions'[f] = <<>> /\ currentVersionId'[f] = 0
  PROVE  StoreInv' /\ VersionsStay
<1>1. Sound(versions, currentVersionId)'
  BY DEF Sound, Present
<1>2. StoreInv'
  BY <1>1 DEF StoreInv, Present
<1>3. VersionsStay
  <2>1. \A f \in StoredFlows : versions[f] \in Seq(Version)
    BY DEF StoreInv, Sound
  <2>2. \A f \in StoredFlows : DOMAIN versions[f] = 1..Len(versions[f])
    BY <2>1
  <2> QED BY <2>2 DEF VersionsStay, Continues
<1> QED BY <1>2, <1>3

(* A new flow.                                                               *)
LEMMA CreateStep ==
  ASSUME StoreInv, NEW f \in StoredFlows, create(f)
  PROVE  StoreInv' /\ VersionsStay
<1>1. PICK p \in Payloads :
        /\ flowRow[f] = "absent" /\ f # "copy" /\ (f = "sub" => Present("root"))
        /\ flowRow' = [flowRow EXCEPT ![f] = "present"]
        /\ versions' = [versions EXCEPT ![f] =
             <<[nodes |-> p, snapshot |-> buildSnapshotForSave(f, p)]>>]
        /\ currentVersionId' = [currentVersionId EXCEPT ![f] = 1]
  BY DEF create
<1>2. PICK e \in Version : e = [nodes |-> p, snapshot |-> buildSnapshotForSave(f, p)]
  BY SavedSnapshotTypes DEF Version
<1>3. PICK t : t = <<e>>
  OBVIOUS
<1>4. t \in Seq(Version) /\ Len(t) = 1
  BY <1>3
<1>5. versions' = [versions EXCEPT ![f] = t]
  BY <1>1, <1>2, <1>3
<1>6. /\ versions' \in [StoredFlows -> Seq(Version)] /\ versions'[f] = t
      /\ \A g \in StoredFlows : g # f => versions'[g] = versions[g]
  BY <1>4, <1>5 DEF StoreInv, Sound
<1>7. /\ currentVersionId' \in [StoredFlows -> Nat] /\ currentVersionId'[f] = 1
      /\ \A g \in StoredFlows : g # f => currentVersionId'[g] = currentVersionId[g]
  BY <1>1 DEF StoreInv, Sound
<1>8. /\ flowRow' \in [StoredFlows -> {"absent", "present", "deleted"}] /\ flowRow'[f] = "present"
      /\ \A g \in StoredFlows : g # f => flowRow'[g] = flowRow[g]
  BY <1>1 DEF StoreInv
<1>9. Sound(versions, currentVersionId)'
  <2>1. \A g \in StoredFlows : Present(g)' => currentVersionId'[g] \in 1..Len(versions'[g])
    <3>1. f \in StoredFlows /\ currentVersionId'[f] \in 1..Len(versions'[f])
      <4>1. Len(versions'[f]) = 1 /\ currentVersionId'[f] = 1
        BY <1>4, <1>6, <1>7
      <4> QED BY <4>1
    <3> QED BY <1>6, <1>7, <1>8, <3>1 DEF StoreInv, Sound, Present
  <2>2. currentVersionId'["root"] = Len(versions'["root"])
    <3>1. "root" \in StoredFlows
      BY DEF StoredFlows
    <3> QED BY <1>4, <1>6, <1>7, <3>1 DEF StoreInv, Sound
  <2> QED BY <1>6, <1>7, <2>1, <2>2 DEF Sound
<1>10. versions[f] = <<>>
  BY <1>1 DEF StoreInv, Present
<1>11. VersionsStay
  BY <1>6, <1>10 DEF VersionsStay
<1>12. StoreInv'
  <2>1. \A g \in StoredFlows : ~Present(g)' => versions'[g] = <<>> /\ currentVersionId'[g] = 0
    BY <1>6, <1>7, <1>8 DEF StoreInv, Present
  <2>2. Present("sub")' => Present("root")'
    BY <1>1, <1>8 DEF StoreInv, Present, StoredFlows
  <2> QED BY <1>8, <1>9, <2>1, <2>2 DEF StoreInv
<1> QED BY <1>11, <1>12

(* A save, an autosave and what they do to the root's tree, from numbers     *)
(* that are still so.                                                        *)
LEMMA UpdateStep ==
  ASSUME StoreInv, BasisTypes, NEW q \in StoreRequests, update(q), UpToDate(basis[q])
  PROVE  StoreInv' /\ VersionsStay
<1>0. PICK read \in Begun, f \in StoredFlows : read = basis[q] /\ f = read.flow
  BY DEF BasisTypes, update, Commits, Begun
<1>1. PICK p \in Payloads :
        /\ Present(f) /\ UNCHANGED flowRow /\ (f = "sub" => read.root # Unread)
        /\ LET next == buildSnapshotForSave(f, p)
           IN updateAutoSave(read, next) \/ updateSave(read, next)
  BY <1>0 DEF update
<1>2. PICK next \in Snapshot : next = buildSnapshotForSave(f, p)
  BY SavedSnapshotTypes
<1>3. /\ versions \in [StoredFlows -> Seq(Version)] /\ currentVersionId \in [StoredFlows -> Nat]
      /\ \A g \in StoredFlows : Len(versions[g]) \in Nat
      /\ currentVersionId["root"] = Len(versions["root"])
      /\ "root" \in StoredFlows /\ (f = "sub" => Present("root"))
  BY <1>1 DEF StoreInv, Sound, StoredFlows
<1>4. PICK v \in Nat : /\ v = Len(versions[f]) /\ v # 0 /\ v = Latest(versions, f)
                       /\ v = read.own.latest
  BY <1>0, <1>1, <1>3 DEF StoreInv, Sound, Latest, UpToDate, Numbers
<1>41. f = "sub" => /\ read.root.latest = Len(versions["root"])
                    /\ read.root.current = currentVersionId["root"]
  BY <1>0, <1>1 DEF UpToDate, Numbers, Latest
<1>5. PICK cur : cur = [currentVersionId EXCEPT ![f] = v]
  OBVIOUS
<1>6. /\ cur \in [StoredFlows -> Nat] /\ cur[f] = v
      /\ \A g \in StoredFlows : g # f => cur[g] = currentVersionId[g]
  BY <1>3, <1>4, <1>5
<1>7. Sound(versions, cur)
  <2>1. f \in StoredFlows /\ cur[f] \in 1..Len(versions[f])
    BY <1>4, <1>6
  <2>2. \A g \in StoredFlows : Present(g) => cur[g] \in 1..Len(versions[g])
    BY <1>6, <2>1 DEF StoreInv, Sound
  <2>3. cur["root"] = Len(versions["root"])
    BY <1>3, <1>4, <1>6
  <2> QED BY <1>3, <1>6, <2>2, <2>3 DEF Sound
<1>8. ASSUME NEW ws, NEW c, versions' = ws, currentVersionId' = c,
             Sound(ws, c), Continues(versions, ws),
             \A g \in StoredFlows : ~Present(g) => ws[g] = versions[g] /\ c[g] = currentVersionId[g]
      PROVE  StoreInv' /\ VersionsStay
  BY <1>1, <1>8, ContinuesStep DEF StoreInv
<1>9. CASE updateAutoSave(read, next)
  <2>1. /\ currentVersionId' = cur
        /\ versions' = AutoSaveRoot(f, read.root.current,
                                    replaceVersionSnapshot(versions, f, v, next), cur)
    BY <1>0, <1>4, <1>5, <1>9 DEF updateAutoSave
  <2>2. PICK ws : ws = replaceVersionSnapshot(versions, f, v, next)
    OBVIOUS
  <2>3. ws \in [StoredFlows -> Seq(Version)]
    BY <1>3, <1>4, <2>2, ReplacedVersion
  <2>4. Continues(versions, ws)
    BY <1>3, <1>4, <2>2, ReplacedVersion
  <2>5. SameNumbers(versions, ws)
    BY <1>3, <1>4, <2>2, ReplacedVersion
  <2>6. \A g \in StoredFlows : Len(ws[g]) = Len(versions[g]) /\ (g # f => ws[g] = versions[g])
    BY <1>3, <2>2, <2>5 DEF SameNumbers, replaceVersionSnapshot
  <2>7. Sound(ws, cur)
    BY <1>3, <1>7, <2>3, <2>6 DEF Sound
  <2>8. CASE f # "sub"
    <3>1. versions' = ws
      BY <2>1, <2>2, <2>8 DEF AutoSaveRoot
    <3> QED BY <1>1, <1>6, <1>8, <2>1, <2>4, <2>6, <2>7, <3>1
  <2>9. CASE f = "sub"
    <3>1. PICK s \in Snapshot : s = buildFullTreeSnapshot(ws, cur)
      BY <1>3, <2>7, <2>9, SnapshotTypes
    <3>2. cur["root"] = Len(ws["root"]) /\ cur["root"] # 0
      BY <1>3, <2>7, <2>9 DEF Sound
    <3>3. PICK r : r = cur["root"] /\ r = read.root.current
      BY <1>3, <1>6, <1>41, <2>9
    <3>4. PICK xs : xs = replaceVersionSnapshot(ws, "root", r, s) /\ versions' = xs
      BY <2>1, <2>2, <2>9, <3>1, <3>3 DEF AutoSaveRoot
    <3>5. xs \in [StoredFlows -> Seq(Version)]
      BY <1>3, <2>3, <3>2, <3>3, <3>4, ReplacedVersion
    <3>6. Continues(ws, xs)
      BY <1>3, <2>3, <3>2, <3>3, <3>4, ReplacedVersion
    <3>7. SameNumbers(ws, xs)
      BY <1>3, <2>3, <3>2, <3>3, <3>4, ReplacedVersion
    <3>8. \A g \in StoredFlows : g # "root" => xs[g] = ws[g]
      BY <2>3, <3>4 DEF replaceVersionSnapshot
    <3>9. Sound(xs, cur)
      BY <1>3, <2>7, <3>5, <3>7 DEF Sound, SameNumbers
    <3>10. Continues(versions, xs)
      BY <1>3, <2>3, <2>4, <3>5, <3>6, ContinuesOn
    <3>11. \A g \in StoredFlows : ~Present(g) =>
             xs[g] = versions[g] /\ cur[g] = currentVersionId[g]
      BY <1>1, <1>3, <1>6, <2>6, <2>9, <3>8
    <3> QED BY <1>8, <2>1, <3>4, <3>9, <3>10, <3>11
  <2> QED BY <2>8, <2>9
<1>10. CASE updateSave(read, next)
  <2>1. PICK own \in SaveFlow(f, next, v, v, versions, cur) :
          \E all \in IF f = "sub" THEN SaveTree(own, read.root.latest) ELSE {own} :
            versions' = all.versions /\ currentVersionId' = all.current
    BY <1>0, <1>4, <1>5, <1>10 DEF updateSave
  <2>2. Sound(own.versions, own.current)
    BY <1>1, <1>4, <1>7, SaveFlowSound
  <2>21. Continues(versions, own.versions)
    BY <1>1, <1>4, <1>7, SaveFlowSound
  <2>3. ASSUME NEW g \in StoredFlows, g # f
        PROVE  own.versions[g] = versions[g] /\ own.current[g] = currentVersionId[g]
    <3>1. own \in {[versions |-> replaceVersionSnapshot(versions, f, v, next), current |-> cur]}
            \/ own \in {[versions |-> createStoredVersion(versions, f, next, next.nodes),
                         current |-> [cur EXCEPT ![f] = n]] : n \in {v + 1}}
      BY <1>4, <2>1 DEF SaveFlow
    <3>2. CASE own.versions = replaceVersionSnapshot(versions, f, v, next) /\ own.current = cur
      BY <1>3, <1>6, <2>3, <3>2 DEF replaceVersionSnapshot
    <3>3. CASE /\ own.versions = createStoredVersion(versions, f, next, next.nodes)
               /\ own.current = [cur EXCEPT ![f] = v + 1]
      BY <1>3, <1>6, <2>3, <3>3 DEF createStoredVersion
    <3> QED BY <3>1, <3>2, <3>3
  <2>4. CASE f # "sub"
    <3>1. versions' = own.versions /\ currentVersionId' = own.current
      BY <2>1, <2>4
    <3> QED BY <1>1, <1>8, <2>2, <2>21, <2>3, <3>1
  <2>5. CASE f = "sub"
    <3>1. PICK s \in Snapshot : s = buildFullTreeSnapshot(own.versions, own.current)
      BY <1>3, <2>2, <2>5, SnapshotTypes
    <3>2. PICK last : last = Latest(own.versions, "root") /\ last = read.root.latest
      BY <1>3, <1>41, <2>3, <2>5 DEF Latest
    <3>3. PICK all \in SaveFlow("root", s, last, last, own.versions, own.current) :
            versions' = all.versions /\ currentVersionId' = all.current
      BY <2>1, <2>5, <3>1, <3>2 DEF SaveTree
    <3>4. Sound(all.versions, all.current)
      BY <1>3, <2>2, <2>5, <3>2, SaveFlowSound
    <3>41. Continues(own.versions, all.versions)
      BY <1>3, <2>2, <2>5, <3>2, SaveFlowSound
    <3>5. \A g \in StoredFlows : g # "root" =>
            all.versions[g] = own.versions[g] /\ all.current[g] = own.current[g]
      BY <1>3, <2>2, <2>5, <3>2, SaveFlowSound
    <3>6. Continues(versions, all.versions)
      BY <1>3, <2>2, <2>21, <3>4, <3>41, ContinuesOn DEF Sound
    <3>7. \A g \in StoredFlows : ~Present(g) =>
            all.versions[g] = versions[g] /\ all.current[g] = currentVersionId[g]
      BY <1>1, <1>3, <2>3, <2>5, <3>5
    <3> QED BY <1>8, <3>3, <3>4, <3>6, <3>7
  <2> QED BY <2>4, <2>5
<1> QED BY <1>1, <1>2, <1>9, <1>10

(* Publishing the tree as it stands.                                         *)
LEMMA CreateVersionStep ==
  ASSUME StoreInv, createVersion
  PROVE  StoreInv' /\ VersionsStay
<1>1. /\ versions \in [StoredFlows -> Seq(Version)] /\ currentVersionId \in [StoredFlows -> Nat]
      /\ \A g \in StoredFlows : Len(versions[g]) \in Nat
      /\ "root" \in StoredFlows /\ Present("root") /\ UNCHANGED flowRow
  BY DEF StoreInv, Sound, StoredFlows, createVersion
<1>2. PICK s \in Snapshot : s = buildFullTreeSnapshot(versions, currentVersionId)
  BY <1>1, SnapshotTypes DEF StoreInv
<1>3. s.nodes \in StoredNodes
  BY DEF Snapshot
<1>4. PICK ws : ws = createStoredVersion(versions, "root", s, s.nodes)
  OBVIOUS
<1>5. ws \in [StoredFlows -> Seq(Version)]
  BY <1>1, <1>3, <1>4, AddedVersion
<1>6. Continues(versions, ws)
  BY <1>1, <1>3, <1>4, AddedVersion
<1>7. OneMore(versions, ws, "root")
  BY <1>1, <1>3, <1>4, AddedVersion
<1>8. /\ Len(ws["root"]) = Len(versions["root"]) + 1
      /\ \A g \in StoredFlows : g # "root" => ws[g] = versions[g]
  BY <1>7 DEF OneMore
<1>9. PICK n \in Nat : n = Len(ws["root"]) /\ n # 0
  BY <1>1, <1>8
<1>10. versions' = ws /\ currentVersionId' = [currentVersionId EXCEPT !["root"] = n]
  BY <1>2, <1>4, <1>9 DEF createVersion, Latest
<1>11. /\ currentVersionId' \in [StoredFlows -> Nat] /\ currentVersionId'["root"] = n
       /\ \A g \in StoredFlows : g # "root" => currentVersionId'[g] = currentVersionId[g]
  BY <1>1, <1>10
<1>12. Sound(versions', currentVersionId')
  <2>1. "root" \in StoredFlows /\ currentVersionId'["root"] \in 1..Len(versions'["root"])
    BY <1>1, <1>9, <1>10, <1>11
  <2>2. \A g \in StoredFlows : Present(g) => currentVersionId'[g] \in 1..Len(versions'[g])
    BY <1>8, <1>10, <1>11, <2>1 DEF StoreInv, Sound
  <2> QED BY <1>5, <1>9, <1>10, <1>11, <2>2 DEF Sound
<1>13. \A f \in StoredFlows : ~Present(f) => versions'[f] = <<>> /\ currentVersionId'[f] = 0
  BY <1>1, <1>8, <1>10, <1>11 DEF StoreInv
<1> QED BY <1>1, <1>6, <1>10, <1>12, <1>13, ContinuesStep

(* A restored version becomes the newest, and so does its submenu's.         *)
LEMMA RestoreStep ==
  ASSUME StoreInv, NEW f \in StoredFlows, restoreVersion(f)
  PROVE  StoreInv' /\ VersionsStay
<1>1. /\ versions \in [StoredFlows -> Seq(Version)] /\ currentVersionId \in [StoredFlows -> Nat]
      /\ \A g \in StoredFlows : Len(versions[g]) \in Nat
      /\ Present(f) /\ UNCHANGED flowRow /\ "sub" \in StoredFlows /\ "root" \in StoredFlows
  BY DEF StoreInv, Sound, StoredFlows, restoreVersion
<1>2. PICK v \in DOMAIN versions[f] :
        LET s == versions[f][v].snapshot
            own == createStoredVersion(versions, f, s, [s.nodes EXCEPT !.handles = FALSE])
        IN /\ s.sub # NoSub => Present("sub") /\ Room("sub")
           /\ versions' = restoreSubflowSnapshots(own, s)
           /\ currentVersionId' =
                [g \in StoredFlows |-> IF g = f \/ (g = "sub" /\ s.sub # NoSub)
                                       THEN Latest(versions', g) ELSE currentVersionId[g]]
  BY DEF restoreVersion
<1>3. versions[f][v] \in Version
  <2>1. versions[f] \in Seq(Version) /\ v \in DOMAIN versions[f]
    BY <1>1
  <2> QED BY <2>1
<1>4. PICK s \in Snapshot : s = versions[f][v].snapshot
  BY <1>3 DEF Version
<1>5. PICK n \in StoredNodes : n = [s.nodes EXCEPT !.handles = FALSE]
  <2>1. s.nodes \in StoredNodes
    BY DEF Snapshot
  <2> QED BY <2>1 DEF StoredNodes
<1>6. PICK own : own = createStoredVersion(versions, f, s, n)
  OBVIOUS
<1>7. own \in [StoredFlows -> Seq(Version)]
  BY <1>1, <1>6, AddedVersion
<1>8. Continues(versions, own)
  BY <1>1, <1>6, AddedVersion
<1>9. OneMore(versions, own, f)
  BY <1>1, <1>6, AddedVersion
<1>10. /\ Len(own[f]) = Len(versions[f]) + 1
       /\ \A g \in StoredFlows : g # f => own[g] = versions[g]
  BY <1>9 DEF OneMore
<1>11. /\ versions' = restoreSubflowSnapshots(own, s)
       /\ s.sub # NoSub => Present("sub")
       /\ currentVersionId' =
            [g \in StoredFlows |-> IF g = f \/ (g = "sub" /\ s.sub # NoSub)
                                   THEN Len(versions'[g]) ELSE currentVersionId[g]]
  BY <1>2, <1>4, <1>5, <1>6 DEF Latest
<1>12. /\ versions' \in [StoredFlows -> Seq(Version)] /\ Continues(own, versions')
       /\ \A g \in StoredFlows : ~(g = "sub" /\ s.sub # NoSub) => versions'[g] = own[g]
       /\ s.sub # NoSub => Len(versions'["sub"]) = Len(own["sub"]) + 1
  <2>1. CASE s.sub = NoSub
    <3>1. versions' = own
      BY <1>11, <2>1 DEF restoreSubflowSnapshots
    <3>2. \A g \in StoredFlows : Len(own[g]) \in Nat
      BY <1>7
    <3> QED BY <1>7, <2>1, <3>1, <3>2 DEF Continues
  <2>2. CASE s.sub # NoSub
    <3>1. s.sub \in StoredNodes
      BY DEF Snapshot
    <3>2. PICK k \in Snapshot : k = [owner |-> "sub", nodes |-> s.sub, sub |-> NoSub]
      <4>1. NoSub \in StoredNodes
        BY DEF NoSub, StoredNodes
      <4> QED BY <1>1, <3>1, <4>1 DEF Snapshot
    <3>3. PICK ws : ws = createStoredVersion(own, "sub", k, s.sub) /\ versions' = ws
      BY <1>11, <2>2, <3>2 DEF restoreSubflowSnapshots
    <3>4. ws \in [StoredFlows -> Seq(Version)]
      BY <1>1, <1>7, <3>1, <3>3, AddedVersion
    <3>5. Continues(own, ws)
      BY <1>1, <1>7, <3>1, <3>3, AddedVersion
    <3>6. OneMore(own, ws, "sub")
      BY <1>1, <1>7, <3>1, <3>3, AddedVersion
    <3>7. /\ Len(ws["sub"]) = Len(own["sub"]) + 1
          /\ \A g \in StoredFlows : g # "sub" => ws[g] = own[g]
      BY <3>6 DEF OneMore
    <3> QED BY <2>2, <3>3, <3>4, <3>5, <3>7
  <2> QED BY <2>1, <2>2
<1>13. Continues(versions, versions')
  BY <1>1, <1>7, <1>8, <1>12, ContinuesOn
<1>14. /\ \A g \in StoredFlows : Len(versions'[g]) \in Nat /\ Len(own[g]) \in Nat
       /\ Len(versions'[f]) >= Len(own[f])
       /\ s.sub # NoSub => Len(versions'["sub"]) # 0
  <2>1. \A g \in StoredFlows : Len(versions'[g]) \in Nat /\ Len(own[g]) \in Nat
    BY <1>1, <1>7, <1>12 DEF Continues
  <2>2. Len(versions'[f]) >= Len(own[f])
    BY <1>1, <1>12, <2>1 DEF Continues
  <2>3. s.sub # NoSub => Len(versions'["sub"]) # 0
    BY <1>1, <1>12, <2>1 DEF Continues
  <2> QED BY <2>1, <2>2, <2>3
<1>15. Sound(versions', currentVersionId')
  <2>1. currentVersionId' \in [StoredFlows -> Nat]
    BY <1>1, <1>11, <1>14
  <2>2. ASSUME NEW g \in StoredFlows, Present(g)
        PROVE  currentVersionId'[g] \in 1..Len(versions'[g])
    <3>1. CASE g = f \/ (g = "sub" /\ s.sub # NoSub)
      <4>1. currentVersionId'[g] = Len(versions'[g]) /\ Len(versions'[g]) # 0
        BY <1>1, <1>10, <1>11, <1>14, <3>1
      <4> QED BY <1>14, <4>1
    <3>2. CASE ~(g = f \/ (g = "sub" /\ s.sub # NoSub))
      <4>1. currentVersionId'[g] = currentVersionId[g] /\ versions'[g] = versions[g]
        BY <1>10, <1>11, <1>12, <3>2
      <4> QED BY <2>2, <4>1 DEF StoreInv, Sound
    <3> QED BY <3>1, <3>2
  <2>3. currentVersionId'["root"] = Len(versions'["root"])
    <3>1. versions'["root"] = own["root"]
      BY <1>1, <1>12
    <3> QED BY <1>1, <1>10, <1>11, <3>1 DEF StoreInv, Sound
  <2> QED BY <1>12, <2>1, <2>2, <2>3 DEF Sound
<1>16. \A g \in StoredFlows : ~Present(g) => versions'[g] = <<>> /\ currentVersionId'[g] = 0
  BY <1>1, <1>10, <1>11, <1>12 DEF StoreInv
<1> QED BY <1>1, <1>13, <1>15, <1>16, ContinuesStep

(* A flow goes with its submenus.                                            *)
LEMMA RemoveStep ==
  ASSUME StoreInv, NEW f \in StoredFlows, remove(f)
  PROVE  StoreInv' /\ VersionsStay
<1>1. PICK gone \in SUBSET StoredFlows :
        /\ gone = IF f = "root" THEN {"root", "sub"} ELSE {f}
        /\ flowRow' = [g \in StoredFlows |-> IF g \in gone THEN "deleted" ELSE flowRow[g]]
        /\ versions' = [g \in StoredFlows |-> IF g \in gone THEN <<>> ELSE versions[g]]
        /\ currentVersionId' = [g \in StoredFlows |-> IF g \in gone THEN 0 ELSE currentVersionId[g]]
  BY DEF remove, StoredFlows
<1>2. /\ versions \in [StoredFlows -> Seq(Version)] /\ currentVersionId \in [StoredFlows -> Nat]
      /\ "root" \in StoredFlows /\ currentVersionId["root"] = Len(versions["root"])
      /\ "sub" \in StoredFlows
  BY DEF StoreInv, Sound, StoredFlows
<1>3. versions' \in [StoredFlows -> Seq(Version)]
  BY <1>1, <1>2
<1>4. Sound(versions, currentVersionId)'
  <2>1. currentVersionId' \in [StoredFlows -> Nat]
    BY <1>1, <1>2
  <2>2. \A g \in StoredFlows : Present(g)' => currentVersionId'[g] \in 1..Len(versions'[g])
    BY <1>1 DEF StoreInv, Sound, Present
  <2>3. currentVersionId'["root"] = Len(versions'["root"])
    BY <1>1, <1>2
  <2> QED BY <1>3, <2>1, <2>2, <2>3 DEF Sound
<1>5. StoreInv'
  <2>1. flowRow' \in [StoredFlows -> {"absent", "present", "deleted"}]
    BY <1>1 DEF StoreInv
  <2>2. \A g \in StoredFlows : ~Present(g)' => versions'[g] = <<>> /\ currentVersionId'[g] = 0
    BY <1>1 DEF StoreInv, Present
  <2>3. Present("sub")' => Present("root")'
    BY <1>1, <1>2 DEF StoreInv, Present
  <2> QED BY <1>4, <2>1, <2>2, <2>3 DEF StoreInv
<1>6. VersionsStay
  BY <1>1 DEF VersionsStay
<1> QED BY <1>5, <1>6

(* The copy of a template.                                                   *)
LEMMA ImportStep ==
  ASSUME StoreInv, importTemplate
  PROVE  StoreInv' /\ VersionsStay
<1>1. /\ versions \in [StoredFlows -> Seq(Version)] /\ currentVersionId \in [StoredFlows -> Nat]
      /\ \A g \in StoredFlows : Len(versions[g]) \in Nat
      /\ Present("root") /\ "root" \in StoredFlows /\ "copy" \in StoredFlows
      /\ currentVersionId["root"] \in 1..Len(versions["root"])
      /\ versions["copy"] = <<>>
  BY DEF StoreInv, Sound, StoredFlows, importTemplate, Present
<1>2. PICK v \in Version : v = versions["root"][currentVersionId["root"]]
  <2>1. versions["root"] \in Seq(Version)
    BY <1>1
  <2> QED BY <1>1, <2>1
<1>3. PICK n \in StoredNodes : n = [v.nodes EXCEPT !.handles = FALSE]
  <2>1. v.nodes \in StoredNodes
    BY DEF Version
  <2> QED BY <2>1 DEF StoredNodes
<1>4. PICK s \in Snapshot : s = v.snapshot
  BY DEF Version
<1>5. PICK ws : ws = createStoredVersion(versions, "copy", s, n)
  OBVIOUS
<1>6. ws \in [StoredFlows -> Seq(Version)]
  BY <1>1, <1>5, AddedVersion
<1>7. OneMore(versions, ws, "copy")
  BY <1>1, <1>5, AddedVersion
<1>8. /\ Len(ws["copy"]) = Len(versions["copy"]) + 1
      /\ \A g \in StoredFlows : g # "copy" => ws[g] = versions[g]
  BY <1>7 DEF OneMore
<1>9. /\ versions' = ws /\ currentVersionId' = [currentVersionId EXCEPT !["copy"] = 1]
      /\ flowRow' = [flowRow EXCEPT !["copy"] = "present"]
  BY <1>2, <1>3, <1>4, <1>5 DEF importTemplate
<1>10. /\ currentVersionId' \in [StoredFlows -> Nat] /\ currentVersionId'["copy"] = 1
       /\ \A g \in StoredFlows : g # "copy" => currentVersionId'[g] = currentVersionId[g]
  BY <1>1, <1>9
<1>11. /\ flowRow' \in [StoredFlows -> {"absent", "present", "deleted"}]
       /\ flowRow'["copy"] = "present"
       /\ \A g \in StoredFlows : g # "copy" => flowRow'[g] = flowRow[g]
  BY <1>1, <1>9 DEF StoreInv
<1>12. Sound(versions, currentVersionId)'
  <2>1. Len(versions'["copy"]) = 1
    BY <1>1, <1>8, <1>9
  <2>2. currentVersionId'["copy"] \in 1..Len(versions'["copy"])
    BY <1>10, <2>1
  <2>3. \A g \in StoredFlows : Present(g)' => currentVersionId'[g] \in 1..Len(versions'[g])
    BY <1>8, <1>9, <1>10, <1>11, <2>2 DEF StoreInv, Sound, Present
  <2>4. currentVersionId'["root"] = Len(versions'["root"])
    BY <1>1, <1>8, <1>9, <1>10 DEF StoreInv, Sound
  <2> QED BY <1>6, <1>9, <1>10, <2>3, <2>4 DEF Sound
<1>13. StoreInv'
  <2>1. \A g \in StoredFlows : ~Present(g)' => versions'[g] = <<>> /\ currentVersionId'[g] = 0
    BY <1>8, <1>9, <1>10, <1>11 DEF StoreInv, Present
  <2>2. Present("sub")' => Present("root")'
    BY <1>1, <1>11 DEF Present
  <2> QED BY <1>11, <1>12, <2>1, <2>2 DEF StoreInv
<1>14. VersionsStay
  BY <1>1, <1>8, <1>9 DEF VersionsStay
<1> QED BY <1>13, <1>14

(* A request that writes from numbers still so, or writes nothing.           *)
LEMMA RequestStep ==
  ASSUME StoreInv, BasisTypes, ~overtaken', NEW r \in StoreRequests, StoreRequest(r)
  PROVE  StoreInv' /\ BasisTypes' /\ VersionsStay
<1>1. ASSUME UNCHANGED <<flowRow, versions, currentVersionId>>
      PROVE  StoreInv' /\ VersionsStay
  BY <1>1 DEF StoreInv, Sound, Present, VersionsStay
<1>2. \A f \in StoredFlows : Numbers(f) \in VersionNumbers
  BY DEF StoreInv, Sound, Numbers, Latest, VersionNumbers
<1>3. NotBegun \in {NotBegun} \cup Begun /\ "root" \in StoredFlows
  BY DEF StoredFlows
<1>4. CASE \E f \in StoredFlows : readFlow(r, f)
  <2>1. PICK f \in StoredFlows : readFlow(r, f)
    BY <1>4
  <2>2. [flow |-> f, own |-> Numbers(f), root |-> Unread] \in Begun
    BY <1>2 DEF Begun, Unread, VersionNumbers
  <2> QED BY <1>1, <2>1, <2>2 DEF readFlow, BasisTypes
<1>5. CASE readRoot(r)
  <2>1. basis[r] \in Begun
    BY <1>5 DEF readRoot, BasisTypes, NotBegun, Unread
  <2>2. [basis[r] EXCEPT !.root = Numbers("root")] \in Begun
    BY <1>2, <1>3, <2>1 DEF Begun
  <2>3. basis' = [basis EXCEPT ![r] = [basis[r] EXCEPT !.root = Numbers("root")]]
    BY <1>5 DEF readRoot
  <2>4. BasisTypes'
    BY <2>2, <2>3 DEF BasisTypes
  <2> QED BY <1>1, <1>5, <2>4 DEF readRoot
<1>6. CASE requestEnds(r)
  BY <1>1, <1>3, <1>6 DEF requestEnds, BasisTypes
<1>7. ASSUME Commits(r)
      PROVE  BasisTypes' /\ UpToDate(basis[r]) /\ basis[r] \in Begun
  BY <1>3, <1>7 DEF Commits, BasisTypes
<1>8. CASE update(r)
  BY <1>7, <1>8, UpdateStep DEF update
<1>9. CASE rename(r)
  <2>1. /\ BasisTypes' /\ UpToDate(basis[r])
        /\ basis[r].flow \in StoredFlows
    BY <1>7, <1>9 DEF rename, Begun
  <2>2. basis[r].own.current = currentVersionId[basis[r].flow]
    BY <2>1 DEF UpToDate, Numbers
  <2>3. currentVersionId' = currentVersionId
    BY <1>9, <2>1, <2>2 DEF rename, StoreInv, Sound
  <2> QED BY <1>1, <1>9, <2>1, <2>3 DEF rename
<1>10. ~rowComesBack(r)
  BY <1>7 DEF rowComesBack, UpToDate, Present
<1> QED BY <1>4, <1>5, <1>6, <1>8, <1>9, <1>10 DEF StoreRequest

(* As long as no update or rename has written from version numbers another   *)
(* request of flows.service.ts had changed since it read them, no request    *)
(* rewrites a version that has a successor.                                  *)
THEOREM HistoryKeptHolds == PlatformSpec => HistoryKept
<1> DEFINE Inv == ~overtaken => StoreInv /\ BasisTypes
<1>1. PlatformInit => Inv
  BY DEF PlatformInit, FlowStoreInit, StoreInv, Sound, Present, StoredFlows, BasisTypes
<1>2. Inv /\ [FlowStoreNext]_storeVars => Inv' /\ [~overtaken' => VersionsStay]_storeVars
  <2>1. ASSUME Inv, UNCHANGED storeVars
        PROVE  Inv'
    BY <2>1 DEF StoreInv, BasisTypes, Sound, Present, storeVars
  <2>2. ASSUME Inv, FlowStoreNext, ~overtaken'
        PROVE  StoreInv' /\ BasisTypes' /\ VersionsStay
    <3>1. ~overtaken
      BY <2>2 DEF FlowStoreNext, StoreRequest, create, restoreVersion, remove, createVersion,
                  importTemplate, readFlow, readRoot, update, rename, rowComesBack,
                  requestEnds, Commits
    <3>2. StoreInv /\ BasisTypes
      BY <2>2, <3>1
    <3>3. CASE \E r \in StoreRequests : StoreRequest(r)
      BY <2>2, <3>2, <3>3, RequestStep
    <3>4. CASE \/ \E f \in StoredFlows : create(f) \/ restoreVersion(f) \/ remove(f)
               \/ createVersion \/ importTemplate
      <4>1. UNCHANGED basis
        BY <3>4 DEF create, restoreVersion, remove, createVersion, importTemplate
      <4>2. StoreInv' /\ VersionsStay
        BY <3>2, <3>4, CreateStep, CreateVersionStep, RestoreStep, RemoveStep, ImportStep
      <4> QED BY <3>2, <4>1, <4>2 DEF BasisTypes
    <3> QED BY <2>2, <3>3, <3>4 DEF FlowStoreNext
  <2> QED BY <2>1, <2>2
<1>3. Inv /\ [PlatformNext]_platformVars => Inv' /\ [~overtaken' => VersionsStay]_storeVars
  BY <1>2, StoreSteps
<1>4. HistoryKept <=> [][~overtaken' => VersionsStay]_storeVars
  BY DEF HistoryKept, VersionsStay
<1> HIDE DEF Inv
<1> QED BY <1>1, <1>3, <1>4, PTL DEF PlatformSpec
-----------------------------------------------------------------------------
(* Webhooks: the attempts logged are all but the last, which may be under    *)
(* way; only a failed one that the settings retry is followed by another.    *)
HookEvent == [attempt_number : Nat, status : Statuses \cup {"none"}]

HookTypes ==
  /\ hookConfig \in [retry_enabled : BOOLEAN, max_attempts : 1..HookMaxAttempts,
                     retry_on : SUBSET {"5xx", "4xx", "network"}]
  /\ hookPc \in [Hooks -> {"idle", "fetch", "publish", "log", "timer", "retry", "over"}]
  /\ hookEvent \in [Hooks -> HookEvent]
  /\ deliveries \in [Hooks -> Seq(HookEvent)]
  /\ received \in [Hooks -> SUBSET Nat]

HookAt(pc, e, ds, r) ==
  /\ isSuccess(e) => e.attempt_number \in r
  /\ e.attempt_number \in r => e.status \in TargetSucceeded \cup NoAnswer
  /\ \A n \in r :
       /\ n # 0
       /\ n = e.attempt_number \/ (n \in 1..Len(ds) /\ ds[n].status = "network")
  /\ e.attempt_number <= hookConfig.max_attempts
  /\ pc \in {"idle", "fetch"} => e.attempt_number = 0 /\ e.status = "none" /\ ds = <<>>
  /\ pc = "publish" => e.attempt_number = 1 /\ ds = <<>>
  /\ pc = "log" => e.attempt_number = Len(ds) + 1
  /\ pc \in {"timer", "retry"} =>
       e.attempt_number = Len(ds) /\ shouldRetry(e) /\ ds[Len(ds)] = e
  /\ \A i \in 1..Len(ds) :
       /\ ds[i].attempt_number = i
       /\ i < Len(ds) \/ pc \in {"log", "timer", "retry"} => shouldRetry(ds[i])
       /\ isSuccess(ds[i]) => isSuccess(e) /\ i = e.attempt_number

HookInv ==
  HookTypes /\ \A h \in Hooks : HookAt(hookPc[h], hookEvent[h], deliveries[h], received[h])

(* A step of another component leaves the webhooks alone.                    *)
LEMMA HookSteps ==
  ASSUME [PlatformNext]_platformVars
  PROVE  [HookNext]_hookVars
BY DEF PlatformNext, Only, platformVars

(* Another attempt follows only failed ones that are retried; one the target *)
(* answered with success among them was a network error.                     *)
LEMMA AnswerStep ==
  ASSUME HookTypes, NEW h \in Hooks, NEW s \in Statuses, NEW pc, NEW to,
         (pc = "fetch" /\ to = "publish") \/ (pc = "retry" /\ to = "log"),
         HookAt(pc, hookEvent[h], deliveries[h], received[h]),
         NEW e, e = [attempt_number |-> hookEvent[h].attempt_number + 1, status |-> s],
         NEW r,
         \/ /\ s \in TargetSucceeded \cup NoAnswer
            /\ r = received[h] \cup {hookEvent[h].attempt_number + 1}
         \/ s \notin TargetSucceeded /\ r = received[h]
  PROVE  e \in HookEvent /\ r \in SUBSET Nat /\ HookAt(to, e, deliveries[h], r)
<1>1. PICK d \in Seq(HookEvent) : d = deliveries[h]
  BY DEF HookTypes
<1>2. PICK m \in Nat : m = Len(d)
  BY <1>1
<1>3. PICK n \in Nat : n = hookEvent[h].attempt_number
  BY DEF HookTypes, HookEvent
<1>4. e \in HookEvent /\ e.attempt_number = n + 1 /\ e.status = s
  BY <1>3 DEF HookEvent
<1>5. PICK x \in Nat : x = hookConfig.max_attempts /\ x >= 1
  BY HookAssumption DEF HookTypes
<1>6. n + 1 <= x
  BY <1>3, <1>5 DEF HookAt, shouldRetry
<1>7. \A i \in 1..m : d[i].attempt_number = i /\ ~isSuccess(d[i]) /\ (pc = "retry" => shouldRetry(d[i]))
  BY <1>1, <1>2 DEF HookAt, shouldRetry, isSuccess
<1>8. /\ pc = "fetch" => n = 0 /\ d = <<>>
      /\ pc = "retry" => n = m /\ d[m] = hookEvent[h] /\ shouldRetry(hookEvent[h])
  BY <1>1, <1>2, <1>3 DEF HookAt
<1>9. PICK old \in SUBSET Nat : old = received[h]
  BY DEF HookTypes
<1>10. pc = "fetch" => m = 0
  BY <1>2, <1>8
<1>11. ASSUME NEW k \in old
       PROVE  k # 0 /\ k \in 1..m /\ d[k].status = "network"
  <2>1. k # 0 /\ (k = n \/ (k \in 1..m /\ d[k].status = "network"))
    BY <1>1, <1>2, <1>3, <1>9, <1>11 DEF HookAt
  <2>2. CASE k = n
    <3>1. pc = "retry" /\ n \in 1..m /\ d[n] = hookEvent[h] /\ shouldRetry(hookEvent[h])
      BY <1>3, <1>8, <2>1, <2>2
    <3>2. hookEvent[h].status \in TargetSucceeded \cup NoAnswer
      BY <1>3, <1>9, <1>11, <2>2 DEF HookAt
    <3>3. hookConfig.retry_on \subseteq {"5xx", "4xx", "network"}
      BY DEF HookTypes
    <3>4. hookEvent[h].status = "network"
      BY <3>1, <3>2, <3>3 DEF shouldRetry, TargetSucceeded, NoAnswer
    <3> QED BY <2>1, <2>2, <3>1, <3>4
  <2> QED BY <2>1, <2>2
<1>12. r \in SUBSET Nat /\ \A k \in r : k \in old \/ k = n + 1
  BY <1>3, <1>9
<1>13. n + 1 \notin old
  <2>1. n <= m
    BY <1>8, <1>10
  <2>2. ~(pc = "fetch" /\ pc = "retry")
    OBVIOUS
  <2>3. n = m
    BY <1>8, <1>10
  <2> QED BY <1>11, <2>3
<1>14. n + 1 \in r => s \in TargetSucceeded \cup NoAnswer
  BY <1>3, <1>9, <1>13
<1>15. isSuccess(e) => n + 1 \in r
  BY <1>3, <1>4 DEF isSuccess, TargetSucceeded
<1>16. \A k \in r : k # 0 /\ (k = n + 1 \/ (k \in 1..m /\ d[k].status = "network"))
  BY <1>11, <1>12
<1>17. (to = "publish" => n = 0 /\ d = <<>>) /\ (to = "log" => n = m)
  BY <1>8
<1>18. \A i \in 1..m : to = "log" => shouldRetry(d[i])
  BY <1>7
<1>19. to \in {"publish", "log"} /\ (to = "publish" => m = 0)
  BY <1>10
<1> QED BY <1>1, <1>2, <1>4, <1>5, <1>6, <1>7, <1>12, <1>14, <1>15, <1>16, <1>17, <1>18, <1>19 DEF HookAt

(* The row of an attempt goes to the end of the log.                         *)
LEMMA LogStep ==
  ASSUME HookTypes, NEW h \in Hooks, NEW to,
         to = IF shouldRetry(hookEvent[h]) THEN "timer" ELSE "over",
         HookAt("log", hookEvent[h], deliveries[h], received[h])
  PROVE  /\ Append(deliveries[h], hookEvent[h]) \in Seq(HookEvent)
         /\ HookAt(to, hookEvent[h], Append(deliveries[h], hookEvent[h]), received[h])
<1>1. PICK d \in Seq(HookEvent), e \in HookEvent : d = deliveries[h] /\ e = hookEvent[h]
  BY DEF HookTypes
<1>2. PICK m \in Nat : m = Len(d)
  BY <1>1
<1>3. PICK ds \in Seq(HookEvent) : ds = Append(d, e) /\ Len(ds) = m + 1
  <2>1. Append(d, e) \in Seq(HookEvent)
    BY AppendProperties
  <2>2. Len(Append(d, e)) = Len(d) + 1
    BY AppendProperties
  <2> QED BY <1>2, <2>1, <2>2
<1>4. ds[m + 1] = e /\ \A i \in 1..m : ds[i] = d[i]
  BY <1>2, <1>3
<1>5. e.attempt_number = m + 1
  BY <1>1, <1>2 DEF HookAt
<1>6. \A i \in 1..m : d[i].attempt_number = i /\ shouldRetry(d[i]) /\ ~isSuccess(d[i])
  BY <1>1, <1>2 DEF HookAt, shouldRetry
<1>7. ASSUME NEW i \in 1..(m + 1)
      PROVE  /\ ds[i].attempt_number = i
             /\ i < m + 1 \/ to \in {"log", "timer", "retry"} => shouldRetry(ds[i])
             /\ isSuccess(ds[i]) => isSuccess(e) /\ i = e.attempt_number
  <2>1. CASE i = m + 1
    BY <2>1, <1>1, <1>4, <1>5
  <2>2. CASE i \in 1..m
    BY <2>2, <1>4, <1>6
  <2> QED BY <1>2, <2>1, <2>2
<1>8. to = "timer" => shouldRetry(e)
  BY <1>1
<1>9. PICK r \in SUBSET Nat : r = received[h]
  BY DEF HookTypes
<1>10. \A n \in r : /\ n # 0
                    /\ n = e.attempt_number \/ (n \in 1..(m + 1) /\ ds[n].status = "network")
  <2>1. \A n \in r : n # 0 /\ (n = e.attempt_number \/ (n \in 1..m /\ d[n].status = "network"))
    BY <1>1, <1>2, <1>9 DEF HookAt
  <2> QED BY <1>2, <1>4, <2>1
<1>11. /\ isSuccess(e) => e.attempt_number \in r
       /\ e.attempt_number \in r => e.status \in TargetSucceeded \cup NoAnswer
       /\ e.attempt_number <= hookConfig.max_attempts
  BY <1>1, <1>9 DEF HookAt
<1>12. HookAt(to, e, ds, r)
  BY <1>3, <1>4, <1>5, <1>7, <1>8, <1>10, <1>11 DEF HookAt
<1> QED BY <1>1, <1>3, <1>9, <1>12

(* What the invariant says of a delivery survives each of its steps.         *)
LEMMA HookInvStep ==
  ASSUME HookInv, HookNext
  PROVE  HookInv'
<1>1. /\ HookTypes
      /\ \A h \in Hooks : HookAt(hookPc[h], hookEvent[h], deliveries[h], received[h])
  BY DEF HookInv
<1>2. UNCHANGED hookConfig
  BY DEF HookNext, HookStep, fireWebhookAsync, AttemptDone, publishDelivery, logDelivery,
         runRetry, executeRetry, HookBackendRestarts
<1>3. ASSUME NEW pc, NEW e, NEW ds, NEW r, HookAt(pc, e, ds, r), NEW h \in Hooks,
             hookPc'[h] = pc, hookEvent'[h] = e, deliveries'[h] = ds, received'[h] = r
      PROVE  HookAt(hookPc[h], hookEvent[h], deliveries[h], received[h])'
  BY <1>2, <1>3 DEF HookAt, shouldRetry, isSuccess
<1>4. ASSUME NEW h \in Hooks,
             NEW to \in {"idle", "fetch", "publish", "log", "timer", "retry", "over"},
             NEW e \in HookEvent, NEW ds \in Seq(HookEvent), NEW r \in SUBSET Nat,
             HookAt(to, e, ds, r),
             hookPc' = [hookPc EXCEPT ![h] = to], hookEvent' = [hookEvent EXCEPT ![h] = e],
             deliveries' = [deliveries EXCEPT ![h] = ds], received' = [received EXCEPT ![h] = r]
      PROVE  HookInv'
  <2>1. HookTypes'
    BY <1>1, <1>2, <1>4 DEF HookTypes
  <2>2. ASSUME NEW k \in Hooks
        PROVE  HookAt(hookPc[k], hookEvent[k], deliveries[k], received[k])'
    <3>1. CASE k = h
      <4>1. /\ hookPc'[k] = to /\ hookEvent'[k] = e
            /\ deliveries'[k] = ds /\ received'[k] = r
        BY <1>1, <1>4, <3>1 DEF HookTypes
      <4> QED BY <1>3, <1>4, <4>1
    <3>2. CASE k # h
      <4>1. /\ hookPc'[k] = hookPc[k] /\ hookEvent'[k] = hookEvent[k]
            /\ deliveries'[k] = deliveries[k] /\ received'[k] = received[k]
        BY <1>1, <1>4, <3>2 DEF HookTypes
      <4> QED BY <1>1, <1>3, <4>1
    <3> QED BY <3>1, <3>2
  <2> QED BY <2>1, <2>2 DEF HookInv
<1>5. ASSUME NEW h \in Hooks
      PROVE  /\ hookEvent[h] \in HookEvent /\ deliveries[h] \in Seq(HookEvent)
             /\ received[h] \in SUBSET Nat
             /\ hookEvent = [hookEvent EXCEPT ![h] = hookEvent[h]]
             /\ deliveries = [deliveries EXCEPT ![h] = deliveries[h]]
             /\ received = [received EXCEPT ![h] = received[h]]
  BY <1>1 DEF HookTypes
<1>6. ASSUME NEW h \in Hooks, fireWebhookAsync(h) \/ publishDelivery(h) \/ runRetry(h)
      PROVE  HookInv'
  <2>1. PICK to \in {"fetch", "log", "retry", "over"} :
          /\ hookPc' = [hookPc EXCEPT ![h] = to]
          /\ \/ hookPc[h] = "idle" /\ to \in {"fetch", "over"}
             \/ hookPc[h] = "publish" /\ to \in {"log", "over"}
             \/ hookPc[h] = "timer" /\ to = "retry"
    BY <1>6 DEF fireWebhookAsync, publishDelivery, runRetry
  <2>2. UNCHANGED <<hookEvent, deliveries, received>>
    BY <1>6 DEF fireWebhookAsync, publishDelivery, runRetry
  <2>3. HookAt(hookPc[h], hookEvent[h], deliveries[h], received[h])
    BY <1>1
  <2>4. deliveries[h] = <<>> => Len(deliveries[h]) = 0
    OBVIOUS
  <2>5. HookAt(to, hookEvent[h], deliveries[h], received[h])
    BY <2>1, <2>3, <2>4 DEF HookAt
  <2>6. PICK e \in HookEvent, ds \in Seq(HookEvent), r \in SUBSET Nat :
          /\ e = hookEvent[h] /\ ds = deliveries[h] /\ r = received[h]
    BY <1>5
  <2>7. /\ hookEvent' = [hookEvent EXCEPT ![h] = e]
        /\ deliveries' = [deliveries EXCEPT ![h] = ds]
        /\ received' = [received EXCEPT ![h] = r]
    BY <1>5, <2>2, <2>6
  <2>8. HookAt(to, e, ds, r)
    BY <2>5, <2>6
  <2>9. hookPc' = [hookPc EXCEPT ![h] = to]
    BY <2>1
  <2>10. to \in {"idle", "fetch", "publish", "log", "timer", "retry", "over"}
    BY <2>1
  <2> QED BY <1>4, <2>6, <2>7, <2>8, <2>9, <2>10
<1>7. ASSUME NEW h \in Hooks, AttemptDone(h) \/ executeRetry(h)
      PROVE  HookInv'
  <2>1. PICK s \in Statuses, to \in {"publish", "log"} :
          /\ WebhookAnswers(h, s) /\ hookPc' = [hookPc EXCEPT ![h] = to]
          /\ \/ hookPc[h] = "fetch" /\ to = "publish"
             \/ hookPc[h] = "retry" /\ to = "log"
    BY <1>7 DEF AttemptDone, executeRetry
  <2>2. UNCHANGED deliveries
    BY <1>7 DEF AttemptDone, executeRetry
  <2>3. PICK e : e = [attempt_number |-> hookEvent[h].attempt_number + 1, status |-> s]
    OBVIOUS
  <2>4. PICK r : /\ hookEvent' = [hookEvent EXCEPT ![h] = e]
                 /\ received' = [received EXCEPT ![h] = r]
                 /\ \/ /\ s \in TargetSucceeded \cup NoAnswer
                       /\ r = received[h] \cup {hookEvent[h].attempt_number + 1}
                    \/ s \notin TargetSucceeded /\ r = received[h]
    <3>1. hookEvent' = [hookEvent EXCEPT ![h] = e]
      BY <2>1, <2>3 DEF WebhookAnswers
    <3>2. CASE s \in TargetSucceeded \cup NoAnswer
               /\ received' = [received EXCEPT ![h] = @ \cup {hookEvent[h].attempt_number + 1}]
      <4>1. received' = [received EXCEPT ![h] = received[h] \cup {hookEvent[h].attempt_number + 1}]
        BY <1>1, <3>2 DEF HookTypes
      <4> QED BY <3>1, <3>2, <4>1
    <3>3. CASE s \notin TargetSucceeded /\ UNCHANGED received
      BY <1>5, <3>1, <3>3
    <3> QED BY <2>1, <3>2, <3>3 DEF WebhookAnswers
  <2>5. hookEvent' = [hookEvent EXCEPT ![h] = e] /\ received' = [received EXCEPT ![h] = r]
    BY <2>4
  <2>6. e \in HookEvent /\ r \in SUBSET Nat /\ HookAt(to, e, deliveries[h], r)
    <3>1. HookAt(hookPc[h], hookEvent[h], deliveries[h], received[h])
      BY <1>1
    <3> QED BY <1>1, <2>1, <2>3, <2>4, <3>1, AnswerStep
  <2>7. PICK ds \in Seq(HookEvent) : ds = deliveries[h]
    BY <1>5
  <2>8. deliveries' = [deliveries EXCEPT ![h] = ds]
    BY <1>5, <2>2, <2>7
  <2>9. HookAt(to, e, ds, r)
    BY <2>6, <2>7
  <2> QED BY <1>4, <2>1, <2>5, <2>6, <2>7, <2>8, <2>9
<1>8. ASSUME NEW h \in Hooks, logDelivery(h)
      PROVE  HookInv'
  <2>1. /\ hookPc[h] = "log" /\ UNCHANGED <<hookEvent, received>>
        /\ HookAt(hookPc[h], hookEvent[h], deliveries[h], received[h])
    BY <1>1, <1>8 DEF logDelivery
  <2>4. PICK e \in HookEvent, r \in SUBSET Nat : e = hookEvent[h] /\ r = received[h]
    BY <1>5
  <2>2. CASE deliveries' = [deliveries EXCEPT ![h] = Append(@, hookEvent[h])]
             /\ hookPc' = [hookPc EXCEPT ![h] = IF shouldRetry(hookEvent[h]) THEN "timer" ELSE "over"]
    <3>1. PICK ds, to : /\ ds = Append(deliveries[h], hookEvent[h])
                        /\ to = IF shouldRetry(hookEvent[h]) THEN "timer" ELSE "over"
      OBVIOUS
    <3>2. ds \in Seq(HookEvent) /\ HookAt(to, hookEvent[h], ds, received[h])
      BY <1>1, <2>1, <3>1, LogStep
    <3>3. deliveries' = [deliveries EXCEPT ![h] = ds] /\ hookPc' = [hookPc EXCEPT ![h] = to]
      BY <1>1, <2>2, <3>1 DEF HookTypes
    <3>4. to \in {"timer", "over"}
      BY <3>1
    <3>5. hookEvent' = [hookEvent EXCEPT ![h] = e] /\ received' = [received EXCEPT ![h] = r]
      BY <1>5, <2>1, <2>4
    <3>6. HookAt(to, e, ds, r)
      BY <2>4, <3>2
    <3> QED BY <1>4, <2>4, <3>2, <3>3, <3>4, <3>5, <3>6
  <2>3. CASE hookPc' = [hookPc EXCEPT ![h] = "over"] /\ UNCHANGED deliveries
    <3>1. HookAt("over", hookEvent[h], deliveries[h], received[h])
      BY <2>1 DEF HookAt
    <3>2. PICK ds \in Seq(HookEvent) : ds = deliveries[h]
      BY <1>5
    <3>3. /\ hookEvent' = [hookEvent EXCEPT ![h] = e]
          /\ deliveries' = [deliveries EXCEPT ![h] = ds]
          /\ received' = [received EXCEPT ![h] = r]
      BY <1>5, <2>1, <2>3, <2>4, <3>2
    <3>4. HookAt("over", e, ds, r)
      BY <2>4, <3>1, <3>2
    <3> QED BY <1>4, <2>3, <2>4, <3>2, <3>3, <3>4
  <2> QED BY <1>8, <2>2, <2>3 DEF logDelivery
<1>9. CASE HookBackendRestarts
  <2>1. UNCHANGED <<hookEvent, deliveries, received>>
    BY <1>9 DEF HookBackendRestarts
  <2>2. HookTypes'
    BY <1>1, <1>2, <1>9, <2>1 DEF HookBackendRestarts, HookTypes
  <2>3. ASSUME NEW k \in Hooks
        PROVE  HookAt(hookPc[k], hookEvent[k], deliveries[k], received[k])'
    <3>1. hookPc'[k] \in {hookPc[k], "over"}
      BY <1>9 DEF HookBackendRestarts
    <3>2. HookAt(hookPc'[k], hookEvent[k], deliveries[k], received[k])
      BY <1>1, <3>1 DEF HookAt
    <3> QED BY <1>3, <2>1, <3>2
  <2> QED BY <2>2, <2>3 DEF HookInv
<1> QED BY <1>6, <1>7, <1>8, <1>9 DEF HookNext, HookStep

(* The rows are those of the attempts, a success the last of them.           *)
LEMMA HookInvImplies ==
  ASSUME HookInv
  PROVE  DeliveredOnce
<1> SUFFICES ASSUME NEW h \in Hooks
             PROVE  /\ hookEvent[h].attempt_number <= hookConfig.max_attempts
                    /\ \A n \in received[h] : n < hookEvent[h].attempt_number =>
                         n \in DOMAIN deliveries[h] /\ deliveries[h][n].status = "network"
                    /\ \A i \in getDeliveries(h, TRUE) :
                         i \in received[h] /\ i = hookEvent[h].attempt_number
                    /\ \A i \in 1..Len(deliveries[h]) :
                         /\ deliveries[h][i].attempt_number = i
                         /\ i < Len(deliveries[h]) => shouldRetry(deliveries[h][i])
  BY DEF DeliveredOnce
<1>1. PICK d \in Seq(HookEvent) : d = deliveries[h]
  BY DEF HookInv, HookTypes
<1>2. HookAt(hookPc[h], hookEvent[h], d, received[h])
  BY <1>1 DEF HookInv
<1>3. PICK m \in Nat : m = Len(d) /\ DOMAIN d = 1..m
  BY <1>1
<1>4. PICK a \in Nat : a = hookEvent[h].attempt_number
  BY DEF HookInv, HookTypes, HookEvent
<1>5. ASSUME NEW n \in received[h], n < a
      PROVE  n \in 1..m /\ d[n].status = "network"
  <2>1. n \in Nat
    BY DEF HookInv, HookTypes
  <2>2. n = a \/ (n \in 1..m /\ d[n].status = "network")
    BY <1>2, <1>3, <1>4 DEF HookAt
  <2> QED BY <1>5, <2>1, <2>2
<1>6. ASSUME NEW i \in getDeliveries(h, TRUE)
      PROVE  i \in received[h] /\ i = a
  <2>1. i \in 1..m /\ isSuccess(d[i]) = TRUE
    BY <1>1, <1>3 DEF getDeliveries
  <2>2. isSuccess(hookEvent[h]) /\ i = a
    BY <1>2, <1>3, <1>4, <2>1 DEF HookAt
  <2> QED BY <1>2, <1>4, <2>2 DEF HookAt
<1>7. \A i \in 1..m : d[i].attempt_number = i /\ (i < m => shouldRetry(d[i]))
  BY <1>2, <1>3 DEF HookAt
<1>8. a <= hookConfig.max_attempts
  BY <1>2, <1>4 DEF HookAt
<1> QED BY <1>1, <1>3, <1>4, <1>5, <1>6, <1>7, <1>8
-----------------------------------------------------------------------------
(* The log tail: the lines read so far come before those the next pass       *)
(* reads, and a line is handed over or waits in one pass, not both.          *)
TailTypes ==
  /\ lines \in 0..MaxLines /\ offset \in Nat
  /\ logFile \in Seq(Nat) /\ Len(logFile) <= lines
  /\ \A i \in 1..Len(logFile) : logFile[i] = lines - Len(logFile) + i
  /\ handed \in [1..MaxLines -> Nat]
  /\ \A t \in ticks : t \in Seq(1..MaxLines) /\ t # <<>>

Waiting(l) == \E t \in ticks : \E a \in 1..Len(t) : t[a] = l

LinesOnce ==
  \A l \in 1..MaxLines :
     /\ handed[l] <= 1
     /\ handed[l] = 1 => ~Waiting(l)
     /\ handed[l] = 1 \/ Waiting(l) => l <= lines - Len(logFile) + ReadFrom

PassesApart ==
  \A t, u \in ticks : \A a \in 1..Len(t), b \in 1..Len(u) : t[a] = u[b] => t = u /\ a = b

TailInv == TailTypes /\ LinesOnce /\ PassesApart

(* A step of another component leaves the log and its reader alone.          *)
LEMMA TailSteps ==
  ASSUME [PlatformNext]_platformVars
  PROVE  [TailNext \/ SearchNext]_logVars
BY DEF PlatformNext, Only, platformVars

(* A pass reads lines that no earlier pass has read.                         *)
LEMMA PassStep ==
  ASSUME TailInv, processNewSecurityLines
  PROVE  TailInv'
<1>1. TailTypes /\ LinesOnce /\ PassesApart
  BY DEF TailInv
<1>2. PICK n \in Nat, k \in Nat, b \in Nat :
        /\ n = Len(logFile) /\ k = ReadFrom /\ k <= n /\ b = lines - n /\ b + n <= MaxLines
        /\ lines = b + n
  <2>1. /\ Len(logFile) \in Nat /\ Len(logFile) <= lines /\ lines \in Nat
        /\ lines <= MaxLines /\ offset \in Nat
    BY <1>1, LogAssumption DEF TailTypes
  <2>2. ReadFrom \in Nat /\ ReadFrom <= Len(logFile)
    BY <2>1 DEF ReadFrom
  <2>3. lines - Len(logFile) \in Nat /\ lines = (lines - Len(logFile)) + Len(logFile)
    BY <2>1
  <2> QED BY <2>1, <2>2, <2>3
<1>3. UNCHANGED <<logFile, lines, handed>> /\ offset' = n
  BY <1>2 DEF processNewSecurityLines
<1>4. ReadFrom' = n
  BY <1>2, <1>3 DEF ReadFrom
<1>5. CASE n = k
  <2>1. UNCHANGED ticks
    BY <1>2, <1>5 DEF processNewSecurityLines
  <2>2. TailTypes'
    BY <1>1, <1>2, <1>3, <2>1 DEF TailTypes
  <2>3. LinesOnce'
    BY <1>1, <1>2, <1>3, <1>4, <1>5, <2>1 DEF LinesOnce, Waiting
  <2> QED BY <1>1, <2>1, <2>2, <2>3 DEF TailInv, PassesApart
<1>6. CASE n # k
  <2>1. PICK p : /\ p = SubSeq(logFile, k + 1, n)
                 /\ ticks' = ticks \cup {p}
    BY <1>2, <1>6 DEF processNewSecurityLines
  <2>2. /\ logFile \in Seq(Nat) /\ k + 1 \in 1..n
        /\ \A i \in 1..n : logFile[i] = b + i
    BY <1>1, <1>2, <1>6 DEF TailTypes
  <2>3. p \in Seq(Nat) /\ Len(p) = n - k
    BY <1>2, <1>6, <2>1, <2>2, SubSeqProperties
  <2>4. \A i \in 1..(n - k) : p[i] = logFile[k + i]
    BY <1>2, <1>6, <2>1, <2>2
  <2>5. \A i \in 1..(n - k) : p[i] = b + k + i
    BY <1>2, <2>2, <2>4
  <2>6. p \in Seq(1..MaxLines) /\ p # <<>>
    <3>1. p \in [1..Len(p) -> Nat]
      BY <2>3
    <3>2. \A i \in 1..Len(p) : p[i] \in 1..MaxLines
      BY <1>2, <2>3, <2>5, LogAssumption
    <3>3. p \in Seq(1..MaxLines)
      <4>1. p \in [1..(n - k) -> 1..MaxLines] /\ n - k \in Nat
        BY <1>2, <2>3, <3>1, <3>2
      <4> QED BY <4>1, SeqDef, Zenon
    <3>4. Len(p) # 0
      BY <1>2, <1>6, <2>3
    <3> QED BY <3>3, <3>4
  <2>7. TailTypes'
    BY <1>1, <1>2, <1>3, <2>1, <2>6 DEF TailTypes
  <2>8. ASSUME NEW l \in 1..MaxLines
        PROVE  /\ Waiting(l)' => Waiting(l) \/ (l > b + k /\ l <= b + n)
               /\ handed[l] <= 1
               /\ handed[l] = 1 => ~Waiting(l)
               /\ handed[l] = 1 \/ Waiting(l) => l <= b + k
    <3>1. /\ handed[l] <= 1
          /\ handed[l] = 1 => ~Waiting(l)
          /\ handed[l] = 1 \/ Waiting(l) => l <= b + k
      BY <1>1, <1>2 DEF LinesOnce
    <3>2. ASSUME Waiting(l)', ~Waiting(l)
          PROVE  l > b + k /\ l <= b + n
      <4>1. PICK t \in ticks' : \E a \in 1..Len(t) : t[a] = l
        BY <3>2 DEF Waiting
      <4>2. t = p
        BY <2>1, <3>2, <4>1 DEF Waiting
      <4>3. PICK a \in 1..(n - k) : p[a] = l
        BY <2>3, <4>1, <4>2
      <4> QED BY <1>2, <2>5, <4>3
    <3> QED BY <3>1, <3>2
  <2>9. LinesOnce'
    BY <1>2, <1>3, <1>4, <2>8 DEF LinesOnce
  <2>10. ASSUME NEW u \in ticks, NEW i \in 1..Len(u), NEW j \in 1..(n - k)
         PROVE  u[i] # p[j]
    <3>1. u[i] \in 1..MaxLines
      <4>1. u \in Seq(1..MaxLines)
        BY <1>1 DEF TailTypes
      <4> QED BY <4>1, ElementOfSeq
    <3>2. Waiting(u[i])
      BY DEF Waiting
    <3>3. u[i] <= b + k
      BY <2>8, <3>1, <3>2
    <3> QED BY <1>2, <2>5, <3>1, <3>3
  <2>11. \A i, j \in 1..(n - k) : p[i] = p[j] => i = j
    BY <1>2, <2>5
  <2>12. PassesApart'
    <3> SUFFICES ASSUME NEW t \in ticks', NEW u \in ticks',
                        NEW i \in 1..Len(t), NEW j \in 1..Len(u), t[i] = u[j]
                 PROVE  t = u /\ i = j
      BY DEF PassesApart
    <3>1. CASE t \in ticks /\ u \in ticks
      BY <1>1, <3>1 DEF PassesApart
    <3>2. CASE t = p /\ u = p
      BY <2>3, <2>11, <3>2
    <3>3. CASE t = p /\ u \in ticks
      <4>1. i \in 1..(n - k)
        BY <2>3, <3>3
      <4> QED BY <2>10, <3>3, <4>1
    <3>4. CASE t \in ticks /\ u = p
      <4>1. j \in 1..(n - k)
        BY <2>3, <3>4
      <4> QED BY <2>10, <3>4, <4>1
    <3> QED BY <2>1, <3>1, <3>2, <3>3, <3>4
  <2> QED BY <2>7, <2>9, <2>12 DEF TailInv
<1> QED BY <1>5, <1>6

(* The line that is handed over waits no longer.                             *)
LEMMA HandOverStep ==
  ASSUME TailInv, NEW t \in ticks, HandOver(t)
  PROVE  TailInv'
<1>1. TailTypes /\ LinesOnce /\ PassesApart
  BY DEF TailInv
<1>2. t \in Seq(1..MaxLines) /\ t # <<>>
  BY <1>1 DEF TailTypes
<1>3. PICK n \in Nat : n = Len(t) /\ n >= 1
  BY <1>2
<1>4. PICK l \in 1..MaxLines : l = Head(t) /\ l = t[1]
  <2>1. t[1] \in 1..MaxLines
    <3>1. 1 \in 1..Len(t)
      BY <1>3
    <3> QED BY <1>2, <3>1, ElementOfSeq
  <2>2. Head(t) = t[1]
    BY <1>2, <1>3
  <2> QED BY <2>1, <2>2
<1>5. PICK w : /\ w \in {Tail(t), <<>>}
               /\ ticks' = (ticks \ {t}) \cup ({w} \ {<<>>})
  BY DEF HandOver
<1>6. /\ handed' = [handed EXCEPT ![l] = handed[l] + 1]
      /\ UNCHANGED <<logFile, lines, offset>>
  BY <1>1, <1>4 DEF HandOver, TailTypes
<1>7. ASSUME w # <<>>
      PROVE  w \in Seq(1..MaxLines) /\ Len(w) = n - 1 /\ \A i \in 1..(n - 1) : w[i] = t[i + 1]
  <2>1. w = Tail(t)
    BY <1>5, <1>7
  <2>2. Tail(t) \in Seq(1..MaxLines)
    BY <1>2
  <2>3. Len(Tail(t)) = n - 1
    BY <1>2, <1>3
  <2>4. \A i \in 1..(n - 1) : Tail(t)[i] = t[i + 1]
    BY <1>2, <1>3
  <2> QED BY <2>1, <2>2, <2>3, <2>4
<1>8. TailTypes'
  <2>1. \A u \in ticks' : u \in Seq(1..MaxLines) /\ u # <<>>
    BY <1>1, <1>5, <1>7 DEF TailTypes
  <2>2. handed' \in [1..MaxLines -> Nat]
    BY <1>1, <1>6 DEF TailTypes
  <2> QED BY <1>1, <1>6, <2>1, <2>2 DEF TailTypes
\* Each place of a pass left is a place of an old one, never the first of t.
<1>9. ASSUME NEW u \in ticks', NEW a \in 1..Len(u)
      PROVE  \E v \in ticks : \E c \in 1..Len(v) :
               /\ u[a] = v[c]
               /\ u \in ticks /\ u # t => v = u /\ c = a
               /\ ~(u \in ticks /\ u # t) => u = w /\ v = t /\ c = a + 1
  <2>1. CASE u \in ticks /\ u # t
    BY <2>1
  <2>2. CASE ~(u \in ticks /\ u # t)
    <3>1. u = w /\ w # <<>>
      BY <1>5, <2>2
    <3>2. a \in 1..(n - 1) /\ w[a] = t[a + 1]
      BY <1>7, <1>9, <3>1
    <3>3. a + 1 \in 1..Len(t)
      BY <1>3, <3>2
    <3> QED BY <2>2, <3>1, <3>2, <3>3
  <2> QED BY <2>1, <2>2
<1>10. PassesApart'
  <2> SUFFICES ASSUME NEW u \in ticks', NEW v \in ticks',
                      NEW a \in 1..Len(u), NEW c \in 1..Len(v), u[a] = v[c]
               PROVE  u = v /\ a = c
    BY DEF PassesApart
  <2>1. PICK x, i :
          /\ x \in ticks /\ i \in 1..Len(x)
          /\ u[a] = x[i]
          /\ u \in ticks /\ u # t => x = u /\ i = a
          /\ ~(u \in ticks /\ u # t) => u = w /\ x = t /\ i = a + 1
    BY <1>9
  <2>2. PICK y, j :
          /\ y \in ticks /\ j \in 1..Len(y)
          /\ v[c] = y[j]
          /\ v \in ticks /\ v # t => y = v /\ j = c
          /\ ~(v \in ticks /\ v # t) => v = w /\ y = t /\ j = c + 1
    BY <1>9
  <2>3. x = y /\ i = j
    <3>1. x \in ticks /\ y \in ticks /\ i \in 1..Len(x) /\ j \in 1..Len(y)
      BY <2>1, <2>2
    <3>2. x[i] = y[j]
      BY <2>1, <2>2
    <3> QED BY <1>1, <3>1, <3>2 DEF PassesApart
  <2>4. Len(u) \in Nat /\ Len(v) \in Nat
    BY <1>8 DEF TailTypes
  <2> QED BY <2>1, <2>2, <2>3, <2>4
<1>11. ASSUME NEW k \in 1..MaxLines, Waiting(k)'
       PROVE  Waiting(k) /\ k # l
  <2>1. PICK u, a : u \in ticks' /\ a \in 1..Len(u) /\ u[a] = k
    BY <1>11 DEF Waiting
  <2>2. PICK v, c :
          /\ v \in ticks /\ c \in 1..Len(v)
          /\ u[a] = v[c]
          /\ u \in ticks /\ u # t => v = u /\ c = a
          /\ ~(u \in ticks /\ u # t) => u = w /\ v = t /\ c = a + 1
    BY <1>9, <2>1
  <2>3. Waiting(k)
    BY <2>1, <2>2 DEF Waiting
  <2>4. ~(v = t /\ c = 1)
    <3>1. Len(u) \in Nat
      BY <1>8, <2>1 DEF TailTypes
    <3> QED BY <2>1, <2>2, <3>1
  <2>5. k # l
    <3>1. 1 \in 1..Len(t)
      BY <1>3
    <3> QED BY <1>1, <1>4, <2>1, <2>2, <2>4, <3>1 DEF PassesApart
  <2> QED BY <2>3, <2>5
<1>12. Waiting(l)
  <2>1. 1 \in 1..Len(t)
    BY <1>3
  <2> QED BY <1>4, <2>1 DEF Waiting
<1>13. LinesOnce'
  <2> SUFFICES ASSUME NEW k \in 1..MaxLines
               PROVE  /\ handed'[k] <= 1
                      /\ handed'[k] = 1 => ~Waiting(k)'
                      /\ handed'[k] = 1 \/ Waiting(k)' => k <= lines - Len(logFile) + ReadFrom
    BY <1>6 DEF LinesOnce, ReadFrom
  <2>1. /\ handed[k] \in Nat /\ handed[k] <= 1
        /\ handed[k] = 1 => ~Waiting(k)
        /\ handed[k] = 1 \/ Waiting(k) => k <= lines - Len(logFile) + ReadFrom
    BY <1>1 DEF LinesOnce, TailTypes
  <2>2. handed'[k] = IF k = l THEN handed[k] + 1 ELSE handed[k]
    BY <1>1, <1>6 DEF TailTypes
  <2>3. CASE k = l
    <3>1. handed[k] = 0
      BY <1>12, <2>1, <2>3
    <3> QED BY <1>11, <1>12, <2>1, <2>2, <2>3, <3>1
  <2>4. CASE k # l
    BY <1>11, <2>1, <2>2, <2>4
  <2> QED BY <2>3, <2>4
<1> QED BY <1>8, <1>10, <1>13 DEF TailInv

(* The log grows or is rotated: what was read stays before what is next.     *)
LEMMA LogGrowsStep ==
  ASSUME TailInv, AsteriskLogs \/ LogRotates
  PROVE  TailInv'
<1>1. TailTypes /\ LinesOnce /\ PassesApart
  BY DEF TailInv
<1>2. PICK n \in Nat, k \in Nat, b \in Nat :
        /\ n = Len(logFile) /\ k = ReadFrom /\ k <= n /\ b = lines - n
        /\ lines = b + n
  <2>1. /\ Len(logFile) \in Nat /\ Len(logFile) <= lines /\ lines \in Nat
        /\ lines <= MaxLines /\ offset \in Nat
    BY <1>1, LogAssumption DEF TailTypes
  <2>2. ReadFrom \in Nat /\ ReadFrom <= Len(logFile)
    BY <2>1 DEF ReadFrom
  <2>3. lines - Len(logFile) \in Nat /\ lines = (lines - Len(logFile)) + Len(logFile)
    BY <2>1
  <2> QED BY <2>1, <2>2, <2>3
<1>3. UNCHANGED <<offset, ticks, handed>>
  BY DEF AsteriskLogs, LogRotates
<1>4. logFile \in Seq(Nat) /\ offset \in Nat /\ \A i \in 1..n : logFile[i] = b + i
  BY <1>1, <1>2 DEF TailTypes
<1>5. /\ lines' \in 0..MaxLines /\ logFile' \in Seq(Nat) /\ Len(logFile') <= lines'
      /\ \A i \in 1..Len(logFile') : logFile'[i] = lines' - Len(logFile') + i
      /\ lines' - Len(logFile') + ReadFrom' >= b + k
      /\ lines' - Len(logFile') + ReadFrom' \in Nat
  <2>1. CASE AsteriskLogs
    <3>1. lines' = b + n + 1 /\ lines' \in 0..MaxLines /\ logFile' = Append(logFile, b + n + 1)
      BY <1>1, <1>2, <2>1, LogAssumption DEF AsteriskLogs, TailTypes
    <3>2. logFile' \in Seq(Nat)
      BY <1>2, <1>4, <3>1
    <3>3. Len(logFile') = n + 1
      BY <1>2, <1>4, <3>1
    <3>4. \A i \in 1..(n + 1) : logFile'[i] = b + i
      <4>1. logFile'[n + 1] = b + n + 1
        BY <1>2, <1>4, <3>1
      <4>2. \A i \in 1..n : logFile'[i] = logFile[i]
        BY <1>2, <1>4, <3>1
      <4>3. \A i \in 1..(n + 1) : i = n + 1 \/ i \in 1..n
        OBVIOUS
      <4> QED BY <1>4, <4>1, <4>2, <4>3
    <3>5. ReadFrom' >= k /\ ReadFrom' \in Nat
      BY <1>2, <1>3, <1>4, <3>3 DEF ReadFrom
    <3> QED BY <1>2, <3>1, <3>2, <3>3, <3>4, <3>5
  <2>2. CASE LogRotates
    <3>1. lines' = b + n /\ logFile' = <<>>
      BY <1>2, <2>2 DEF LogRotates
    <3>2. Len(logFile') = 0 /\ logFile' \in Seq(Nat)
      BY <3>1
    <3>3. ReadFrom' = 0
      BY <1>3, <1>4, <3>2 DEF ReadFrom
    <3>4. lines' \in 0..MaxLines
      BY <1>1, <2>2 DEF LogRotates, TailTypes
    <3> QED BY <1>2, <3>1, <3>2, <3>3, <3>4
  <2> QED BY <2>1, <2>2
<1>6. TailTypes'
  BY <1>1, <1>3, <1>5 DEF TailTypes
<1>7. PICK x \in Nat : x = lines' - Len(logFile') + ReadFrom' /\ x >= b + k
  BY <1>5
<1>8. ASSUME NEW l \in 1..MaxLines
      PROVE  /\ handed'[l] <= 1
             /\ handed'[l] = 1 => ~Waiting(l)'
             /\ handed'[l] = 1 \/ Waiting(l)' => l <= x
  <2>1. /\ handed[l] <= 1
        /\ handed[l] = 1 => ~Waiting(l)
        /\ handed[l] = 1 \/ Waiting(l) => l <= b + k
    BY <1>1, <1>2 DEF LinesOnce
  <2>2. Waiting(l)' <=> Waiting(l)
    BY <1>3 DEF Waiting
  <2> QED BY <1>2, <1>3, <1>7, <2>1, <2>2
<1>9. LinesOnce'
  BY <1>7, <1>8 DEF LinesOnce
<1>10. PassesApart'
  BY <1>1, <1>3 DEF PassesApart
<1> QED BY <1>6, <1>9, <1>10 DEF TailInv

(* No step hands a line over that was handed over or is read again.          *)
LEMMA TailInvStep ==
  ASSUME TailInv, [TailNext \/ SearchNext]_logVars
  PROVE  TailInv'
<1>1. CASE TailNext
  BY <1>1, PassStep, HandOverStep, LogGrowsStep DEF TailNext
<1>2. CASE SearchNext \/ UNCHANGED logVars
  <2>1. UNCHANGED <<logFile, lines, offset, ticks, handed>>
    BY <1>2 DEF SearchNext, getLogs, filterByCallContextWithCorrelation, ScanLine, EndPass,
                logVars
  <2> QED BY <2>1 DEF TailInv, TailTypes, LinesOnce, PassesApart, Waiting, ReadFrom
<1> QED BY <1>1, <1>2
-----------------------------------------------------------------------------
(* Packet capture: a packet has one entry, whose number tells whether it was *)
(* read: what is stored has a number up to the one asked for last.           *)
Entry == [id : Nat, packet : PacketIds]
Ascending(s) == \A i, j \in 1..Len(s) : i < j => s[i].id < s[j].id
EntriesOf(s) == {s[i] : i \in 1..Len(s)}
Held == EntriesOf(stream) \cup EntriesOf(batch)
Trimming == {p \in PacketIds : writing[p] = "trim"}

CaptureTypes ==
  /\ wire \in Nat /\ wire <= MaxPackets /\ lastEntry \in Nat /\ asked \in Nat
  /\ asked <= lastEntry
  /\ writing \in [PacketIds -> {"add", "trim", Written}]
  /\ stream \in Seq(Entry) /\ batch \in Seq(Entry)
  /\ packetRows \in [PacketIds -> Nat]

Ordered ==
  /\ Ascending(stream) /\ Ascending(batch)
  /\ \A i \in 1..Len(batch) : batch[i].id > asked

OneEntry ==
  \A x \in Held :
     /\ x.id <= lastEntry /\ x.packet <= wire /\ writing[x.packet] # "add"
     /\ packetRows[x.packet] > 0 => x.id <= asked
     /\ \A y \in Held : x.packet = y.packet => x.id = y.id

RowsOnce ==
  \A p \in PacketIds :
     /\ packetRows[p] <= 1
     /\ packetRows[p] > 0 => p <= wire /\ writing[p] # "add"
     /\ p > wire => writing[p] = Written

StreamBounded == Len(stream) <= StreamLen + Cardinality(Trimming)

CaptureInv == CaptureTypes /\ Ordered /\ OneEntry /\ RowsOnce /\ StreamBounded

(* A step of another component leaves the capture alone.                     *)
LEMMA CaptureSteps ==
  ASSUME [PlatformNext]_platformVars
  PROVE  [CaptureNext]_captureVars
BY DEF PlatformNext, Only, platformVars

SuffixOf(q, s, m) ==
  /\ q \in Seq(Entry)
  /\ Len(q) = Len(s) - m + 1
  /\ \A i \in 1..Len(q) : q[i] = s[m + i - 1]
  /\ Ascending(q)
  /\ EntriesOf(q) \subseteq EntriesOf(s)

(* The end of an ordered stream is one, with no entries of its own.          *)
LEMMA SuffixOrdered ==
  ASSUME NEW s \in Seq(Entry), Ascending(s), NEW m \in 1..(Len(s) + 1)
  PROVE  SuffixOf(SubSeq(s, m, Len(s)), s, m)
<1>1. PICK n \in Nat : n = Len(s)
  OBVIOUS
<1>2. PICK q : q = SubSeq(s, m, n)
  OBVIOUS
<1>3. m \in Int /\ n \in Int /\ m >= 1 /\ m <= n + 1
  BY <1>1
<1>4. \A i \in m..n : s[i] \in Entry
  <2>1. \A i \in m..n : i \in 1..Len(s)
    BY <1>1, <1>3
  <2> QED BY <2>1, ElementOfSeq
<1>5. q \in Seq(Entry)
  BY <1>2, <1>3, <1>4, SubSeqProperties
<1>6. Len(q) = n - m + 1
  <2>1. Len(q) = IF m <= n THEN n - m + 1 ELSE 0
    BY <1>2, <1>3, <1>4, SubSeqProperties
  <2> QED BY <1>3, <2>1
<1>7. \A i \in 1..(n - m + 1) : q[i] = s[m + i - 1]
  BY <1>2, <1>3, <1>4, SubSeqProperties
<1>8. \A i \in 1..(n - m + 1) : m + i - 1 \in 1..n
  BY <1>3
<1>9. Ascending(q)
  <2> SUFFICES ASSUME NEW i \in 1..(n - m + 1), NEW j \in 1..(n - m + 1), i < j
               PROVE  q[i].id < q[j].id
    BY <1>6 DEF Ascending
  <2>1. m + i - 1 < m + j - 1 /\ m + i - 1 \in 1..Len(s) /\ m + j - 1 \in 1..Len(s)
    BY <1>1, <1>3, <1>8
  <2>2. s[m + i - 1].id < s[m + j - 1].id
    BY <2>1 DEF Ascending
  <2> QED BY <1>7, <2>2
<1>10. EntriesOf(q) \subseteq EntriesOf(s)
  <2>1. ASSUME NEW i \in 1..(n - m + 1)
        PROVE  q[i] \in EntriesOf(s)
    BY <1>1, <1>7, <1>8 DEF EntriesOf
  <2> QED BY <1>6, <2>1 DEF EntriesOf
<1>11. SuffixOf(q, s, m)
  BY <1>1, <1>5, <1>6, <1>7, <1>9, <1>10 DEF SuffixOf
<1> QED BY <1>1, <1>2, <1>11

(* Entries have the fields of one, and packets in flight are finitely many.  *)
LEMMA HeldTypes ==
  ASSUME CaptureTypes
  PROVE  /\ \A x \in Held : x \in Entry /\ x.id \in Nat /\ x.packet \in PacketIds
         /\ IsFiniteSet(Trimming) /\ Cardinality(Trimming) \in Nat
<1>1. ASSUME NEW s \in Seq(Entry), NEW x \in EntriesOf(s)
      PROVE  x \in Entry
  <2>1. PICK i \in 1..Len(s) : x = s[i]
    BY <1>1 DEF EntriesOf
  <2> QED BY <2>1, ElementOfSeq
<1>2. \A x \in Held : x \in Entry
  BY <1>1 DEF Held, CaptureTypes
<1>3. \A x \in Held : x.id \in Nat /\ x.packet \in PacketIds
  BY <1>2 DEF Entry
<1>4. IsFiniteSet(PacketIds)
  BY CaptureAssumption, FS_Interval DEF PacketIds
<1>5. Trimming \in SUBSET PacketIds
  BY DEF Trimming
<1>6. IsFiniteSet(Trimming)
  BY <1>4, <1>5, FS_Subset
<1>7. Cardinality(Trimming) \in Nat
  BY <1>6, FS_CardinalityType
<1> QED BY <1>2, <1>3, <1>6, <1>7

(* A step that adds no entry and moves the reader forward keeps OneEntry.    *)
LEMMA EntriesKept ==
  ASSUME CaptureTypes, OneEntry, Held' \subseteq Held,
         wire' \in Nat, wire' >= wire, lastEntry' \in Nat, lastEntry' >= lastEntry,
         asked' \in Nat, asked' >= asked,
         \A p \in PacketIds : p <= wire /\ writing'[p] = "add" => writing[p] = "add",
         \A x \in Held' : packetRows'[x.packet] > 0 => packetRows[x.packet] > 0 \/ x.id <= asked'
  PROVE  OneEntry'
<1>1. wire \in Nat /\ lastEntry \in Nat /\ asked \in Nat
  BY DEF CaptureTypes
<1> SUFFICES ASSUME NEW x \in Held'
             PROVE  /\ x.id <= lastEntry' /\ x.packet <= wire' /\ writing'[x.packet] # "add"
                    /\ packetRows'[x.packet] > 0 => x.id <= asked'
                    /\ \A y \in Held' : x.packet = y.packet => x.id = y.id
  BY DEF OneEntry
<1>2. x \in Held /\ x.id \in Nat /\ x.packet \in PacketIds /\ x.packet \in Nat
  BY HeldTypes, CaptureAssumption DEF PacketIds
<1>3. /\ x.id <= lastEntry /\ x.packet <= wire /\ writing[x.packet] # "add"
      /\ packetRows[x.packet] > 0 => x.id <= asked
      /\ \A y \in Held : x.packet = y.packet => x.id = y.id
  BY <1>2 DEF OneEntry
<1>4. x.id <= lastEntry' /\ x.packet <= wire' /\ writing'[x.packet] # "add"
  BY <1>1, <1>2, <1>3
<1>5. packetRows'[x.packet] > 0 => x.id <= asked'
  BY <1>1, <1>2, <1>3
<1> QED BY <1>3, <1>4, <1>5

(* A line of tshark starts a write for a packet that has no entry.           *)
LEMMA ParseStep ==
  ASSUME CaptureInv, parseSipPacket
  PROVE  CaptureInv'
<1>1. CaptureTypes /\ Ordered /\ OneEntry /\ RowsOnce /\ StreamBounded
  BY DEF CaptureInv
<1>2. PICK p \in PacketIds : p = wire + 1 /\ p \in Nat /\ p > wire
  BY <1>1, CaptureAssumption DEF parseSipPacket, CaptureTypes, PacketIds
<1>3. /\ wire' = p /\ wire' <= MaxPackets
      /\ UNCHANGED <<stream, lastEntry, asked, batch, packetRows>>
      /\ writing' \in {[writing EXCEPT ![p] = "add"], writing}
  BY <1>1, <1>2, CaptureAssumption DEF parseSipPacket, CaptureTypes
<1>4. writing[p] = Written
  BY <1>1, <1>2 DEF RowsOnce
<1>5. /\ writing' \in [PacketIds -> {"add", "trim", Written}]
      /\ \A q \in PacketIds : q # p => writing'[q] = writing[q]
      /\ writing'[p] # "trim"
  BY <1>1, <1>3, <1>4 DEF CaptureTypes, Written
<1>6. CaptureTypes'
  BY <1>1, <1>2, <1>3, <1>5 DEF CaptureTypes
<1>7. Ordered'
  BY <1>1, <1>3 DEF Ordered, Ascending
<1>8. Held' = Held
  BY <1>3 DEF Held, EntriesOf
<1>9. OneEntry'
  <2>1. wire \in Nat /\ lastEntry \in Nat /\ asked \in Nat
    BY <1>1 DEF CaptureTypes
  <2>2. \A q \in PacketIds : q <= wire /\ writing'[q] = "add" => writing[q] = "add"
    BY <1>2, <1>5, <2>1
  <2>3. /\ wire' \in Nat /\ wire' >= wire /\ lastEntry' \in Nat /\ lastEntry' >= lastEntry
        /\ asked' \in Nat /\ asked' >= asked
    BY <1>2, <1>3, <2>1
  <2> QED BY <1>1, <1>3, <1>8, <2>2, <2>3, EntriesKept
<1>10. RowsOnce'
  <2> SUFFICES ASSUME NEW q \in PacketIds
               PROVE  /\ packetRows'[q] <= 1
                      /\ packetRows'[q] > 0 => q <= wire' /\ writing'[q] # "add"
                      /\ q > wire' => writing'[q] = Written
    BY DEF RowsOnce
  <2>1. /\ packetRows[q] <= 1
        /\ packetRows[q] > 0 => q <= wire /\ writing[q] # "add"
        /\ q > wire => writing[q] = Written
    BY <1>1 DEF RowsOnce
  <2>2. q \in Nat /\ wire \in Nat
    BY <1>1, CaptureAssumption DEF PacketIds, CaptureTypes
  <2> QED BY <1>2, <1>3, <1>5, <2>1, <2>2
<1>11. StreamBounded'
  <2>1. Trimming' = Trimming
    BY <1>4, <1>5 DEF Trimming, Written
  <2> QED BY <1>1, <1>3, <2>1 DEF StreamBounded
<1> QED BY <1>6, <1>7, <1>9, <1>10, <1>11 DEF CaptureInv

(* The entry that is added is the packet's first, and numbered last.         *)
LEMMA AddStep ==
  ASSUME CaptureInv, NEW p \in PacketIds, writing[p] = "add",
         stream' = Append(stream, [id |-> lastEntry + 1, packet |-> p]),
         lastEntry' = lastEntry + 1, writing' = [writing EXCEPT ![p] = "trim"],
         UNCHANGED <<wire, asked, batch, packetRows>>
  PROVE  CaptureInv'
<1>1. CaptureTypes /\ Ordered /\ OneEntry /\ RowsOnce /\ StreamBounded
  BY DEF CaptureInv
<1>2. PICK k \in Nat : k = lastEntry + 1 /\ k > lastEntry
  BY <1>1 DEF CaptureTypes
<1>3. PICK e \in Entry : e = [id |-> k, packet |-> p] /\ e.id = k /\ e.packet = p
  BY <1>2 DEF Entry
<1>4. PICK n \in Nat : n = Len(stream)
  BY <1>1 DEF CaptureTypes
<1>5. stream \in Seq(Entry) /\ stream' = Append(stream, e)
  BY <1>1, <1>2, <1>3 DEF CaptureTypes
<1>6. stream' \in Seq(Entry)
  BY <1>5, AppendProperties
<1>7. Len(stream') = n + 1
  BY <1>4, <1>5, AppendProperties
<1>8. stream'[n + 1] = e /\ \A i \in 1..n : stream'[i] = stream[i]
  BY <1>4, <1>5
<1>9. \A i \in 1..(n + 1) : i \in 1..n \/ i = n + 1
  OBVIOUS
<1>10. /\ writing' \in [PacketIds -> {"add", "trim", Written}]
       /\ writing'[p] = "trim" /\ \A q \in PacketIds : q # p => writing'[q] = writing[q]
  BY <1>1 DEF CaptureTypes
<1>11. CaptureTypes'
  BY <1>1, <1>2, <1>6, <1>10 DEF CaptureTypes
<1>12. EntriesOf(stream') = EntriesOf(stream) \cup {e}
  <2>1. n + 1 \in 1..(n + 1) /\ \A i \in 1..n : i \in 1..(n + 1)
    OBVIOUS
  <2> QED BY <1>4, <1>7, <1>8, <1>9, <2>1 DEF EntriesOf
<1>13. Held' = Held \cup {e}
  <2>1. EntriesOf(batch)' = EntriesOf(batch)
    BY DEF EntriesOf
  <2>2. EntriesOf(stream)' = EntriesOf(stream')
    BY DEF EntriesOf
  <2> QED BY <1>12, <2>1, <2>2 DEF Held
<1>14. \A x \in Held : x \in Entry /\ x.id \in Nat /\ x.packet \in PacketIds
  BY <1>1, HeldTypes
<1>15. \A x \in Held : x.packet # p /\ x.id < k
  BY <1>1, <1>2, <1>14 DEF OneEntry, CaptureTypes
<1>16. Ordered'
  <2>1. ASSUME NEW i \in 1..(n + 1), NEW j \in 1..(n + 1), i < j
        PROVE  stream'[i].id < stream'[j].id
    <3>1. i \in 1..n
      BY <2>1
    <3>2. CASE j \in 1..n
      BY <1>1, <1>4, <1>8, <2>1, <3>1, <3>2 DEF Ordered, Ascending
    <3>3. CASE j = n + 1
      <4>1. stream[i] \in Held
        BY <1>4, <3>1 DEF Held, EntriesOf
      <4> QED BY <1>3, <1>8, <1>15, <3>1, <3>3, <4>1
    <3> QED BY <1>9, <3>2, <3>3
  <2>2. Ascending(stream')
    BY <1>7, <2>1 DEF Ascending
  <2>3. Ascending(batch)' /\ \A i \in 1..Len(batch') : batch'[i].id > asked'
    BY <1>1 DEF Ordered, Ascending
  <2>4. Ascending(stream)' <=> Ascending(stream')
    BY DEF Ascending
  <2> QED BY <2>2, <2>3, <2>4 DEF Ordered
<1>17. p <= wire /\ ~(packetRows[p] > 0)
  <2>1. p \in Nat /\ wire \in Nat
    BY <1>1, CaptureAssumption DEF PacketIds, CaptureTypes
  <2>2. ~(p > wire) /\ ~(packetRows[p] > 0)
    BY <1>1 DEF RowsOnce, Written
  <2> QED BY <2>1, <2>2
<1>18. OneEntry'
  <2> SUFFICES ASSUME NEW x \in Held'
               PROVE  /\ x.id <= lastEntry' /\ x.packet <= wire' /\ writing'[x.packet] # "add"
                      /\ packetRows'[x.packet] > 0 => x.id <= asked'
                      /\ \A y \in Held' : x.packet = y.packet => x.id = y.id
    BY DEF OneEntry
  <2>1. CASE x = e
    <3>1. x.id <= lastEntry'
      BY <1>2, <1>3, <2>1
    <3>2. x.packet <= wire' /\ writing'[x.packet] # "add" /\ ~(packetRows'[x.packet] > 0)
      BY <1>3, <1>10, <1>17, <2>1
    <3>3. \A y \in Held' : x.packet = y.packet => x.id = y.id
      BY <1>3, <1>13, <1>15, <2>1
    <3> QED BY <3>1, <3>2, <3>3
  <2>2. CASE x # e
    <3>1. x \in Held /\ x.packet # p /\ x.packet \in PacketIds /\ x.id \in Nat
      BY <1>13, <1>14, <1>15, <2>2
    <3>2. /\ x.id <= lastEntry /\ x.packet <= wire /\ writing[x.packet] # "add"
          /\ packetRows[x.packet] > 0 => x.id <= asked
          /\ \A y \in Held : x.packet = y.packet => x.id = y.id
      BY <1>1, <3>1 DEF OneEntry
    <3>3. x.id <= lastEntry'
      BY <1>1, <3>1, <3>2 DEF CaptureTypes
    <3>4. \A y \in Held' : x.packet = y.packet => x.id = y.id
      BY <1>3, <1>13, <3>1, <3>2
    <3> QED BY <1>10, <3>1, <3>2, <3>3, <3>4
  <2> QED BY <2>1, <2>2
<1>19. RowsOnce'
  <2> SUFFICES ASSUME NEW q \in PacketIds
               PROVE  /\ packetRows'[q] <= 1
                      /\ packetRows'[q] > 0 => q <= wire' /\ writing'[q] # "add"
                      /\ q > wire' => writing'[q] = Written
    BY DEF RowsOnce
  <2>1. /\ packetRows[q] <= 1
        /\ packetRows[q] > 0 => q <= wire /\ writing[q] # "add"
        /\ q > wire => writing[q] = Written
    BY <1>1 DEF RowsOnce
  <2>2. q = p => ~(q > wire)
    BY <2>1 DEF Written
  <2> QED BY <1>10, <2>1, <2>2
<1>20. StreamBounded'
  <2>1. Trimming' = Trimming \cup {p} /\ p \notin Trimming
    BY <1>10 DEF Trimming
  <2>2. IsFiniteSet(Trimming) /\ Cardinality(Trimming) \in Nat
    BY <1>1, HeldTypes
  <2>3. Cardinality(Trimming') = Cardinality(Trimming) + 1
    BY <2>1, <2>2, FS_AddElement
  <2>4. n <= StreamLen + Cardinality(Trimming)
    BY <1>1, <1>4 DEF StreamBounded
  <2>5. n + 1 <= StreamLen + Cardinality(Trimming')
    BY <2>2, <2>3, <2>4, CaptureAssumption
  <2> QED BY <1>7, <2>5 DEF StreamBounded
<1> QED BY <1>11, <1>16, <1>18, <1>19, <1>20 DEF CaptureInv

(* XTRIM leaves the newest entries, and a write that ends adds none.         *)
LEMMA WriteEndsStep ==
  ASSUME CaptureInv, NEW p \in PacketIds, writing' = [writing EXCEPT ![p] = Written],
         \/ writing[p] = "add" /\ UNCHANGED stream
         \/ writing[p] = "trim" /\ stream' = Trimmed(stream),
         UNCHANGED <<wire, lastEntry, asked, batch, packetRows>>
  PROVE  CaptureInv'
<1>1. CaptureTypes /\ Ordered /\ OneEntry /\ RowsOnce /\ StreamBounded
  BY DEF CaptureInv
<1>2. PICK n \in Nat : n = Len(stream)
  BY <1>1 DEF CaptureTypes
<1>3. /\ writing' \in [PacketIds -> {"add", "trim", Written}]
      /\ writing'[p] = Written /\ \A q \in PacketIds : q # p => writing'[q] = writing[q]
  BY <1>1 DEF CaptureTypes
<1>4. PICK m \in 1..(n + 1) : m = IF n > StreamLen THEN n - StreamLen + 1 ELSE 1
  BY CaptureAssumption
<1>5. /\ stream' \in Seq(Entry) /\ Ascending(stream')
      /\ EntriesOf(stream') \subseteq EntriesOf(stream)
      /\ writing[p] = "trim" => Len(stream') = n - m + 1
      /\ writing[p] # "trim" => stream' = stream
  <2>1. CASE writing[p] = "trim"
    <3>1. stream' = SubSeq(stream, m, Len(stream))
      BY <1>2, <1>4, <2>1 DEF Trimmed
    <3>2. SuffixOf(stream', stream, m)
      BY <1>1, <1>2, <3>1, SuffixOrdered DEF CaptureTypes, Ordered
    <3> QED BY <1>2, <2>1, <3>2 DEF SuffixOf
  <2>2. CASE writing[p] # "trim"
    <3>1. stream' = stream
      BY <2>2
    <3> QED BY <1>1, <2>2, <3>1 DEF CaptureTypes, Ordered
  <2> QED BY <2>1, <2>2
<1>6. CaptureTypes'
  BY <1>1, <1>3, <1>5 DEF CaptureTypes
<1>7. Ordered'
  BY <1>1, <1>5 DEF Ordered, Ascending
<1>8. Held' \subseteq Held
  <2>1. EntriesOf(stream)' = EntriesOf(stream') /\ EntriesOf(batch)' = EntriesOf(batch)
    BY DEF EntriesOf
  <2> QED BY <1>5, <2>1 DEF Held
<1>9. OneEntry'
  <2>1. wire \in Nat /\ lastEntry \in Nat /\ asked \in Nat
    BY <1>1 DEF CaptureTypes
  <2>2. \A q \in PacketIds : q <= wire /\ writing'[q] = "add" => writing[q] = "add"
    BY <1>3 DEF Written
  <2>3. /\ wire' \in Nat /\ wire' >= wire /\ lastEntry' \in Nat /\ lastEntry' >= lastEntry
        /\ asked' \in Nat /\ asked' >= asked
    BY <2>1
  <2> QED BY <1>1, <1>8, <2>2, <2>3, EntriesKept
<1>10. RowsOnce'
  <2> SUFFICES ASSUME NEW q \in PacketIds
               PROVE  /\ packetRows'[q] <= 1
                      /\ packetRows'[q] > 0 => q <= wire' /\ writing'[q] # "add"
                      /\ q > wire' => writing'[q] = Written
    BY DEF RowsOnce
  <2>1. /\ packetRows[q] <= 1
        /\ packetRows[q] > 0 => q <= wire /\ writing[q] # "add"
        /\ q > wire => writing[q] = Written
    BY <1>1 DEF RowsOnce
  <2>2. Written # "add"
    BY DEF Written
  <2> QED BY <1>3, <2>1, <2>2
<1>11. StreamBounded'
  <2>1. CASE writing[p] = "trim"
    <3>1. Len(stream') \in Nat /\ Len(stream') <= StreamLen
      BY <1>2, <1>4, <1>5, <2>1, CaptureAssumption
    <3>2. Cardinality(Trimming') \in Nat
      <4>1. IsFiniteSet(PacketIds)
        BY CaptureAssumption, FS_Interval DEF PacketIds
      <4>2. Trimming' \in SUBSET PacketIds
        BY DEF Trimming
      <4>3. IsFiniteSet(Trimming')
        BY <4>1, <4>2, FS_Subset
      <4> QED BY <4>3, FS_CardinalityType
    <3>3. Len(stream') <= StreamLen + Cardinality(Trimming')
      BY <3>1, <3>2, CaptureAssumption
    <3> QED BY <3>3 DEF StreamBounded
  <2>2. CASE writing[p] # "trim"
    <3>1. Trimming' = Trimming
      BY <1>3, <2>2 DEF Trimming, Written
    <3>2. stream' = stream
      BY <1>5, <2>2
    <3> QED BY <1>1, <3>1, <3>2 DEF StreamBounded
  <2> QED BY <2>1, <2>2
<1> QED BY <1>6, <1>7, <1>9, <1>10, <1>11 DEF CaptureInv

(* The relay moves forward: what it takes from the stream it has not read.   *)
LEMMA RelayForward ==
  ASSUME CaptureInv, UNCHANGED <<wire, writing, stream, lastEntry>>,
         batch' \in Seq(Entry), Ascending(batch'), EntriesOf(batch') \subseteq Held,
         asked' \in Nat, asked' >= asked, asked' <= lastEntry,
         \A i \in 1..Len(batch') : batch'[i].id > asked',
         \/ UNCHANGED packetRows
         \/ \E e \in Held : /\ packetRows' = [packetRows EXCEPT ![e.packet] = @ + 1]
                            /\ asked < e.id /\ e.id = asked'
  PROVE  CaptureInv'
<1>1. CaptureTypes /\ Ordered /\ OneEntry /\ RowsOnce /\ StreamBounded
  BY DEF CaptureInv
<1>2. \A x \in Held : x \in Entry /\ x.id \in Nat /\ x.packet \in PacketIds
  BY <1>1, HeldTypes
<1>3. /\ packetRows' \in [PacketIds -> Nat]
      /\ RowsOnce'
      /\ \A x \in Held : packetRows'[x.packet] > 0 => packetRows[x.packet] > 0 \/ x.id <= asked'
  <2>1. CASE UNCHANGED packetRows
    BY <1>1, <2>1 DEF CaptureTypes, RowsOnce
  <2>2. ASSUME NEW e \in Held, packetRows' = [packetRows EXCEPT ![e.packet] = @ + 1],
               asked < e.id, e.id = asked'
        PROVE  /\ packetRows' \in [PacketIds -> Nat]
               /\ RowsOnce'
               /\ \A x \in Held : packetRows'[x.packet] > 0 =>
                                    packetRows[x.packet] > 0 \/ x.id <= asked'
    <3>1. PICK p \in PacketIds : p = e.packet
      BY <1>2
    <3>2. e.id \in Nat /\ asked \in Nat /\ packetRows \in [PacketIds -> Nat]
      BY <1>1, <1>2 DEF CaptureTypes
    <3>3. /\ p <= wire /\ writing[p] # "add" /\ (packetRows[p] > 0 => e.id <= asked)
          /\ \A y \in Held : y.packet = p => y.id = e.id
      BY <1>1, <3>1 DEF OneEntry
    <3>4. packetRows[p] \in Nat /\ packetRows[p] = 0
      BY <2>2, <3>2, <3>3
    <3>5. /\ packetRows' \in [PacketIds -> Nat]
          /\ packetRows'[p] = 1 /\ \A q \in PacketIds : q # p => packetRows'[q] = packetRows[q]
      BY <2>2, <3>1, <3>2, <3>4
    <3>6. RowsOnce'
      <4> SUFFICES ASSUME NEW q \in PacketIds
                   PROVE  /\ packetRows'[q] <= 1
                          /\ packetRows'[q] > 0 => q <= wire' /\ writing'[q] # "add"
                          /\ q > wire' => writing'[q] = Written
        BY DEF RowsOnce
      <4>1. /\ packetRows[q] <= 1
            /\ packetRows[q] > 0 => q <= wire /\ writing[q] # "add"
            /\ q > wire => writing[q] = Written
        BY <1>1 DEF RowsOnce
      <4> QED BY <3>3, <3>5, <4>1
    <3>7. ASSUME NEW x \in Held, packetRows'[x.packet] > 0
          PROVE  packetRows[x.packet] > 0 \/ x.id <= asked'
      <4>1. CASE x.packet = p
        BY <2>2, <3>2, <3>3, <4>1
      <4>2. CASE x.packet # p
        BY <1>2, <3>5, <3>7, <4>2
      <4> QED BY <4>1, <4>2
    <3> QED BY <3>5, <3>6, <3>7
  <2> QED BY <2>1, <2>2
<1>4. CaptureTypes'
  BY <1>1, <1>3 DEF CaptureTypes
<1>5. Ordered'
  BY <1>1 DEF Ordered, Ascending
<1>6. Held' \subseteq Held
  <2>1. EntriesOf(stream)' = EntriesOf(stream) /\ EntriesOf(batch)' = EntriesOf(batch')
    BY DEF EntriesOf
  <2> QED BY <2>1 DEF Held
<1>7. OneEntry'
  <2>1. wire \in Nat /\ lastEntry \in Nat
    BY <1>1 DEF CaptureTypes
  <2>2. wire' \in Nat /\ wire' >= wire /\ lastEntry' \in Nat /\ lastEntry' >= lastEntry
    BY <2>1
  <2>3. \A x \in Held' : packetRows'[x.packet] > 0 => packetRows[x.packet] > 0 \/ x.id <= asked'
    BY <1>3, <1>6
  <2>4. \A q \in PacketIds : q <= wire /\ writing'[q] = "add" => writing[q] = "add"
    OBVIOUS
  <2> QED BY <1>1, <1>6, <2>2, <2>3, <2>4, EntriesKept
<1>8. StreamBounded'
  <2>1. Trimming' = Trimming
    BY DEF Trimming
  <2> QED BY <1>1, <2>1 DEF StreamBounded
<1> QED BY <1>3, <1>4, <1>5, <1>7, <1>8 DEF CaptureInv

(* An answer of XREAD holds the entries after the one asked for.             *)
LEMMA ReadStep ==
  ASSUME CaptureInv, ReadStream
  PROVE  CaptureInv'
<1>1. CaptureTypes /\ Ordered
  BY DEF CaptureInv
<1>2. PICK k \in DOMAIN stream :
        /\ \A i \in DOMAIN stream : stream[i].id > asked <=> i >= k
        /\ batch' = SubSeq(stream, k, Len(stream))
  BY DEF ReadStream
<1>3. PICK n \in Nat : n = Len(stream) /\ DOMAIN stream = 1..n /\ k \in 1..n
  <2>1. stream \in Seq(Entry)
    BY <1>1 DEF CaptureTypes
  <2>2. Len(stream) \in Nat /\ DOMAIN stream = 1..Len(stream)
    BY <2>1, LenProperties
  <2> QED BY <1>2, <2>2
<1>4. SuffixOf(batch', stream, k)
  <2>1. k \in 1..(Len(stream) + 1)
    BY <1>3
  <2> QED BY <1>1, <1>2, <2>1, SuffixOrdered DEF CaptureTypes, Ordered
<1>5. \A i \in 1..Len(batch') : batch'[i].id > asked
  <2> SUFFICES ASSUME NEW i \in 1..Len(batch')
               PROVE  batch'[i].id > asked
    OBVIOUS
  <2>1. Len(batch') = n - k + 1 /\ batch'[i] = stream[k + i - 1]
    BY <1>3, <1>4 DEF SuffixOf
  <2>2. k + i - 1 \in 1..n /\ k + i - 1 >= k
    BY <1>3, <2>1
  <2> QED BY <1>2, <1>3, <2>1, <2>2
<1>6. /\ batch' \in Seq(Entry) /\ Ascending(batch') /\ EntriesOf(batch') \subseteq Held
  BY <1>4 DEF SuffixOf, Held
<1>7. asked \in Nat /\ asked <= lastEntry
  BY <1>1 DEF CaptureTypes
<1>8. UNCHANGED <<wire, writing, stream, lastEntry, asked, packetRows>>
  BY DEF ReadStream
<1> QED BY <1>5, <1>6, <1>7, <1>8, RelayForward

(* The packet read first is stored; the rest of the batch comes after it.    *)
LEMMA PersistStep ==
  ASSUME CaptureInv, persistPacket
  PROVE  CaptureInv'
<1>1. CaptureTypes /\ Ordered /\ OneEntry
  BY DEF CaptureInv
<1>2. batch \in Seq(Entry) /\ batch # <<>> /\ Len(batch) \in Nat /\ Len(batch) >= 1
  BY <1>1 DEF persistPacket, CaptureTypes
<1>3. PICK e : e = Head(batch) /\ e = batch[1]
  BY <1>2
<1>4. e \in EntriesOf(batch) /\ e \in Held /\ e.id > asked
  <2>1. 1 \in 1..Len(batch)
    BY <1>2
  <2> QED BY <1>1, <1>3, <2>1 DEF EntriesOf, Held, Ordered
<1>5. e.id \in Nat /\ e.id <= lastEntry /\ asked \in Nat
  BY <1>1, <1>4, HeldTypes DEF OneEntry, CaptureTypes
<1>6. /\ asked' = e.id /\ batch' = Tail(batch)
      /\ UNCHANGED <<wire, writing, stream, lastEntry>>
      /\ \/ packetRows' = [packetRows EXCEPT ![e.packet] = @ + 1]
         \/ UNCHANGED packetRows
  BY <1>3 DEF persistPacket
<1>7. SuffixOf(batch', batch, 2)
  <2>1. Tail(batch) = SubSeq(batch, 2, Len(batch))
    BY <1>2, TailIsSubSeq
  <2>2. 2 \in 1..(Len(batch) + 1)
    BY <1>2
  <2> QED BY <1>1, <1>2, <1>6, <2>1, <2>2, SuffixOrdered DEF Ordered
<1>8. \A i \in 1..Len(batch') : batch'[i].id > e.id
  <2> SUFFICES ASSUME NEW i \in 1..Len(batch')
               PROVE  batch'[i].id > e.id
    OBVIOUS
  <2>1. Len(batch') = Len(batch) - 1 /\ batch'[i] = batch[2 + i - 1]
    BY <1>2, <1>7 DEF SuffixOf
  <2>2. 2 + i - 1 \in 1..Len(batch) /\ 1 \in 1..Len(batch) /\ 1 < 2 + i - 1
    BY <1>2, <2>1
  <2>3. batch[1].id < batch[2 + i - 1].id
    BY <1>1, <2>2 DEF Ordered, Ascending
  <2>4. batch[2 + i - 1].id \in Nat
    <3>1. batch[2 + i - 1] \in Held
      BY <2>2 DEF Held, EntriesOf
    <3> QED BY <1>1, <3>1, HeldTypes
  <2> QED BY <1>3, <1>5, <2>1, <2>3, <2>4
<1>9. /\ batch' \in Seq(Entry) /\ Ascending(batch') /\ EntriesOf(batch') \subseteq Held
  BY <1>7 DEF SuffixOf, Held
<1>10. asked' \in Nat /\ asked' >= asked /\ asked' <= lastEntry
  BY <1>4, <1>5, <1>6
<1>11. \/ UNCHANGED packetRows
       \/ \E x \in Held : /\ packetRows' = [packetRows EXCEPT ![x.packet] = @ + 1]
                          /\ asked < x.id /\ x.id = asked'
  <2>1. asked < e.id
    BY <1>4, <1>5
  <2> QED BY <1>4, <1>6, <2>1
<1> QED BY <1>6, <1>8, <1>9, <1>10, <1>11, RelayForward

(* No step stores a packet again or makes the stream outgrow its writers.    *)
LEMMA CaptureInvStep ==
  ASSUME CaptureInv, [CaptureNext]_captureVars
  PROVE  CaptureInv'
<1>1. CASE parseSipPacket
  BY <1>1, ParseStep
<1>2. ASSUME NEW p \in PacketIds, writePacket(p)
      PROVE  CaptureInv'
  <2>1. UNCHANGED <<wire, asked, batch, packetRows>>
    BY <1>2 DEF writePacket
  <2>2. CASE writing[p] = "add" /\ writing' = [writing EXCEPT ![p] = "trim"]
    <3>1. /\ stream' = Append(stream, [id |-> lastEntry + 1, packet |-> p])
          /\ lastEntry' = lastEntry + 1
      <4>1. writing \in [PacketIds -> {"add", "trim", Written}]
        BY DEF CaptureInv, CaptureTypes
      <4>2. writing' # [writing EXCEPT ![p] = Written]
        BY <2>2, <4>1 DEF Written
      <4> QED BY <1>2, <2>2, <4>2 DEF writePacket
    <3> QED BY <2>1, <2>2, <3>1, AddStep
  <2>3. CASE /\ writing' = [writing EXCEPT ![p] = Written]
             /\ \/ writing[p] = "add" /\ UNCHANGED stream
                \/ writing[p] = "trim" /\ stream' = Trimmed(stream)
             /\ UNCHANGED lastEntry
    BY <2>1, <2>3, WriteEndsStep
  <2> QED BY <1>2, <2>2, <2>3 DEF writePacket
<1>3. CASE ReadStream
  BY <1>3, ReadStep
<1>4. CASE persistPacket
  BY <1>4, PersistStep
<1>5. CASE ReadTimesOut \/ initializeCaptureRelay
  <2>1. /\ asked' = lastEntry /\ batch' = <<>>
        /\ UNCHANGED <<wire, writing, stream, lastEntry, packetRows>>
    BY <1>5 DEF ReadTimesOut, initializeCaptureRelay
  <2>2. Len(batch') = 0 /\ batch' \in Seq(Entry)
    BY <2>1
  <2>3. Ascending(batch') /\ EntriesOf(batch') = {}
    BY <2>2 DEF Ascending, EntriesOf
  <2>4. lastEntry \in Nat /\ asked \in Nat /\ asked <= lastEntry
    BY DEF CaptureInv, CaptureTypes
  <2>5. asked' \in Nat /\ asked' >= asked /\ asked' <= lastEntry
    BY <2>1, <2>4
  <2>6. \A i \in 1..Len(batch') : batch'[i].id > asked'
    BY <2>2
  <2>7. EntriesOf(batch') \subseteq Held
    BY <2>3
  <2> QED BY <2>1, <2>2, <2>3, <2>5, <2>6, <2>7, RelayForward
<1>6. CASE \/ TsharkCloses \/ shutdown \/ handleCaptureSubscribe \/ PauseOrResume
           \/ findPacketsByCallId \/ UNCHANGED captureVars
  <2>1. UNCHANGED <<wire, writing, stream, lastEntry, asked, batch, packetRows>>
    BY <1>6 DEF TsharkCloses, shutdown, handleCaptureSubscribe, PauseOrResume,
                findPacketsByCallId, captureVars
  <2> QED BY <2>1 DEF CaptureInv, CaptureTypes, Ordered, Ascending, OneEntry, Held,
                      EntriesOf, RowsOnce, StreamBounded, Trimming
<1> QED BY <1>1, <1>2, <1>3, <1>4, <1>5, <1>6 DEF CaptureNext

-----------------------------------------------------------------------------
\* What is seen of webhooks, of packets and of the log is counted once.
ObservedInv == HookInv /\ CaptureInv /\ TailInv

(* Each of the three is set up so.                                           *)
LEMMA ObservedInit ==
  ASSUME PlatformInit
  PROVE  ObservedInv
<1>1. HookInit /\ CaptureInit /\ LogInit
  BY DEF PlatformInit
<1>2. HookInv
  <2>1. /\ hookConfig.max_attempts \in Nat /\ hookConfig.max_attempts >= 1
    BY <1>1, HookAssumption DEF HookInit
  <2>2. HookTypes
    <3>1. [attempt_number |-> 0, status |-> "none"] \in HookEvent
      BY DEF HookEvent
    <3>2. <<>> \in Seq(HookEvent)
      OBVIOUS
    <3> QED BY <1>1, <3>1, <3>2 DEF HookInit, HookTypes
  <2>3. ASSUME NEW h \in Hooks
        PROVE  HookAt(hookPc[h], hookEvent[h], deliveries[h], received[h])
    <3>1. /\ hookPc[h] = "idle" /\ received[h] = {} /\ deliveries[h] = <<>>
          /\ hookEvent[h].attempt_number = 0 /\ hookEvent[h].status = "none"
      BY <1>1 DEF HookInit
    <3>2. Len(deliveries[h]) = 0
      BY <3>1
    <3> QED BY <2>1, <3>1, <3>2 DEF HookAt, isSuccess
  <2> QED BY <2>2, <2>3 DEF HookInv
<1>3. CaptureInv
  <2>1. /\ wire = 0 /\ writing = [p \in PacketIds |-> Written] /\ stream = <<>>
        /\ lastEntry = 0 /\ asked = 0 /\ batch = <<>> /\ packetRows = [p \in PacketIds |-> 0]
    BY <1>1 DEF CaptureInit
  <2>2. Len(stream) = 0 /\ Len(batch) = 0 /\ stream \in Seq(Entry) /\ batch \in Seq(Entry)
    BY <2>1
  <2>3. CaptureTypes
    BY <2>1, <2>2, CaptureAssumption DEF CaptureTypes
  <2>4. Ordered
    BY <2>2 DEF Ordered, Ascending
  <2>5. OneEntry
    BY <2>2 DEF OneEntry, Held, EntriesOf
  <2>6. RowsOnce
    BY <2>1 DEF RowsOnce
  <2>7. StreamBounded
    <3>1. Cardinality(Trimming) \in Nat
      BY <2>3, HeldTypes
    <3> QED BY <2>2, <3>1, CaptureAssumption DEF StreamBounded
  <2> QED BY <2>3, <2>4, <2>5, <2>6, <2>7 DEF CaptureInv
<1>4. TailInv
  <2>1. /\ logFile \in {<<>>, <<1>>} /\ lines = Len(logFile) /\ offset = lines
        /\ ticks = {} /\ handed = [l \in 1..MaxLines |-> 0]
    BY <1>1 DEF LogInit
  <2>2. /\ logFile \in Seq(Nat) /\ Len(logFile) \in {0, 1}
        /\ \A i \in 1..Len(logFile) : logFile[i] = i
    <3>1. CASE logFile = <<>>
      BY <3>1
    <3>2. CASE logFile = <<1>>
      <4>1. Len(logFile) = 1 /\ logFile[1] = 1 /\ logFile \in Seq(Nat)
        BY <3>2
      <4> QED BY <4>1
    <3> QED BY <2>1, <3>1, <3>2
  <2>3. TailTypes
    BY <2>1, <2>2, LogAssumption DEF TailTypes
  <2> QED BY <2>1, <2>3 DEF TailInv, LinesOnce, PassesApart, Waiting
<1> QED BY <1>2, <1>3, <1>4 DEF ObservedInv

(* Nothing is counted twice: a webhook (webhooks.service.ts) is tried again  *)
(* only after a failure that the sender saw and the log shows, a packet      *)
(* (capture.service.ts) has one row, and a line of the security log          *)
(* (asterisk-logs.service.ts) is one attempt, however timers overlap and the *)
(* backend restarts.                                                         *)
THEOREM ObservedOnceHolds == PlatformSpec => []ObservedOnce
<1>1. PlatformInit => ObservedInv
  BY ObservedInit
<1>2. ObservedInv /\ [PlatformNext]_platformVars => ObservedInv'
  <2> SUFFICES ASSUME ObservedInv, [PlatformNext]_platformVars
               PROVE  ObservedInv'
    OBVIOUS
  <2>1. HookInv'
    <3>1. CASE HookNext
      BY <3>1, HookInvStep DEF ObservedInv
    <3>2. CASE UNCHANGED hookVars
      BY <3>2 DEF ObservedInv, hookVars, HookInv, HookTypes, HookAt, shouldRetry, isSuccess
    <3> QED BY <3>1, <3>2, HookSteps
  <2>2. CaptureInv'
    BY CaptureSteps, CaptureInvStep DEF ObservedInv
  <2>3. TailInv'
    BY TailSteps, TailInvStep DEF ObservedInv
  <2> QED BY <2>1, <2>2, <2>3 DEF ObservedInv
<1>3. ObservedInv => ObservedOnce
  <2>1. HookInv => DeliveredOnce
    BY HookInvImplies
  <2>2. CaptureInv => PacketStoredOnce
    BY DEF CaptureInv, RowsOnce, StreamBounded, Trimming, PacketStoredOnce
  <2>3. TailInv => SecurityLineOnce
    BY DEF TailInv, LinesOnce, SecurityLineOnce
  <2> QED BY <2>1, <2>2, <2>3 DEF ObservedInv, ObservedOnce
<1> QED BY <1>1, <1>2, <1>3, PTL DEF PlatformSpec
-----------------------------------------------------------------------------
(* The search for the lines of a call: what is included so far matches or   *)
(* is connected with what matches, and a pass that has changed nothing yet  *)
(* has found nothing more among the lines it has been at.                   *)
SearchIndices == 1..SearchLines
Matching(i) == search.lines[i].text \cap search.needles # {}
Holds(i, tokens) == search.lines[i].text \cap tokens # {}
ConnectedSet(S) ==
  /\ \A i \in SearchIndices : Matching(i) => i \in S
  /\ \A i \in S, j \in SearchIndices : Holds(j, search.lines[i].names) => j \in S

SearchTypes ==
  search \in [pc : {"scan", "done"}, lines : [SearchIndices -> LogLine],
              needles : SUBSET LogNeedles, found : SUBSET SearchIndices,
              tokens : SUBSET LogTokens, at : Nat \ {0}, changed : BOOLEAN, passes : Nat]

TokensOfFound ==
  search.tokens = UNION {search.lines[i].names : i \in search.found}

OnlyConnected ==
  /\ \A i \in SearchIndices : Matching(i) => i \in search.found
  /\ \A S \in SUBSET SearchIndices : ConnectedSet(S) => search.found \subseteq S

NothingMissed ==
  \A i \in SearchIndices :
     search.pc = "done" \/ (~search.changed /\ i < search.at) =>
       i \in search.found \/ ~Holds(i, search.tokens)

EveryPassIncluded ==
  search.found # {} =>
    search.passes + (IF search.changed THEN 1 ELSE 0) < Cardinality(search.found)

SearchInv ==
  \/ search = NoSearch
  \/ SearchTypes /\ TokensOfFound /\ OnlyConnected /\ NothingMissed /\ EveryPassIncluded

(* A step of another component leaves the search alone.                      *)
LEMMA SearchSteps ==
  ASSUME [PlatformNext]_platformVars
  PROVE  SearchNext \/ UNCHANGED search
BY DEF PlatformNext, Only, platformVars, logVars, TailNext, AsteriskLogs, LogRotates,
       processNewSecurityLines, HandOver

(* Sets of line indices are finite and no larger than the log.               *)
LEMMA IndicesFinite ==
  ASSUME NEW S \in SUBSET SearchIndices
  PROVE  IsFiniteSet(S) /\ Cardinality(S) \in Nat /\ Cardinality(S) <= SearchLines
<1>1. SearchLines \in Nat
  BY LogAssumption
<1>2. IsFiniteSet(SearchIndices) /\ Cardinality(SearchIndices) = SearchLines
  BY <1>1, FS_Interval DEF SearchIndices
<1>3. IsFiniteSet(S) /\ Cardinality(S) <= Cardinality(SearchIndices)
  BY <1>2, FS_Subset
<1> QED BY <1>2, <1>3, FS_CardinalityType

(* The lines that match are in every connected set.                          *)
LEMMA SearchBegins ==
  ASSUME getLogs PROVE SearchInv'
<1>1. PICK ls \in [SearchIndices -> LogLine], needles \in SUBSET LogNeedles \ {{}} :
        LET hits == {i \in DOMAIN ls : matchesCallNeedle(ls[i], needles)}
        IN search' = [NoSearch EXCEPT !.pc = IF hits = {} THEN "done" ELSE "scan",
                                      !.lines = ls, !.needles = needles, !.found = hits,
                                      !.tokens = collectCorrelationTokens(ls, hits)]
  BY DEF getLogs, SearchIndices
<1> DEFINE hits == {i \in SearchIndices : ls[i].text \cap needles # {}}
           tokens == UNION {ls[i].names : i \in hits}
<1>2. search' = [pc |-> IF hits = {} THEN "done" ELSE "scan", lines |-> ls, needles |-> needles,
                 found |-> hits, tokens |-> tokens, at |-> 1, changed |-> FALSE, passes |-> 0]
  BY <1>1 DEF NoSearch, matchesCallNeedle, collectCorrelationTokens
<1>3. tokens \subseteq LogTokens
  BY DEF LogLine
<1> HIDE DEF hits, tokens
<1>4. hits \subseteq SearchIndices
  BY DEF hits
<1>5. SearchTypes'
  BY <1>2, <1>3, <1>4 DEF SearchTypes, SearchIndices
<1>6. TokensOfFound'
  BY <1>2 DEF TokensOfFound, tokens
<1>7. OnlyConnected'
  BY <1>2 DEF OnlyConnected, ConnectedSet, Matching, hits
<1>8. NothingMissed'
  <2>1. hits = {} => tokens = {}
    BY DEF tokens
  <2> QED BY <1>2, <2>1 DEF NothingMissed, Holds, SearchIndices
<1>9. EveryPassIncluded'
  <2>1. hits # {} => 0 < Cardinality(hits)
    BY <1>4, IndicesFinite, FS_EmptySet
  <2> QED BY <1>2, <2>1 DEF EveryPassIncluded
<1> QED BY <1>5, <1>6, <1>7, <1>8, <1>9 DEF SearchInv

(* A line that is included holds a token of one in every connected set.      *)
LEMMA ScanLineStep ==
  ASSUME SearchInv, ScanLine PROVE SearchInv'
<1>1. SearchTypes /\ TokensOfFound /\ OnlyConnected /\ NothingMissed /\ EveryPassIncluded
  BY DEF SearchInv, ScanLine, NoSearch
<1> DEFINE k == search.at
           line == search.lines[k]
<1>2. k \in SearchIndices /\ k \in Nat /\ line \in LogLine /\ search.pc = "scan"
      /\ DOMAIN search.lines = SearchIndices
  BY <1>1 DEF ScanLine, SearchTypes
<1>3. CASE k \in search.found \/ ~Holds(k, search.tokens)
  <2>1. search' = [search EXCEPT !.at = k + 1]
    BY <1>3 DEF ScanLine, matchesCorrelationContext, Holds
  <2>2. /\ search'.pc = search.pc /\ search'.lines = search.lines
        /\ search'.needles = search.needles /\ search'.found = search.found
        /\ search'.tokens = search.tokens /\ search'.changed = search.changed
        /\ search'.passes = search.passes /\ search'.at = k + 1
    BY <1>1, <2>1 DEF SearchTypes
  <2>3. SearchTypes'
    <3>1. k + 1 \in Nat \ {0}
      BY <1>2
    <3> QED BY <1>1, <2>1, <3>1 DEF SearchTypes
  <2>4. TokensOfFound'
    BY <1>1, <2>2 DEF TokensOfFound
  <2>5. OnlyConnected'
    BY <1>1, <2>2 DEF OnlyConnected, ConnectedSet, Matching, Holds
  <2>6. NothingMissed'
    <3>1. ASSUME NEW i \in SearchIndices, i < k + 1, ~(i < k) PROVE i = k
      BY <1>2, <3>1 DEF SearchIndices
    <3> QED BY <1>1, <1>2, <1>3, <2>2, <3>1 DEF NothingMissed, Holds
  <2>7. EveryPassIncluded'
    BY <1>1, <2>2 DEF EveryPassIncluded
  <2> QED BY <2>3, <2>4, <2>5, <2>6, <2>7 DEF SearchInv
<1>4. CASE k \notin search.found /\ Holds(k, search.tokens)
  <2>1. search' = [search EXCEPT !.at = k + 1, !.found = search.found \cup {k},
                                 !.tokens = search.tokens \cup line.names, !.changed = TRUE]
    BY <1>4 DEF ScanLine, matchesCorrelationContext, Holds
  <2>2. /\ search'.pc = search.pc /\ search'.lines = search.lines
        /\ search'.needles = search.needles /\ search'.found = search.found \cup {k}
        /\ search'.tokens = search.tokens \cup line.names /\ search'.changed = TRUE
        /\ search'.passes = search.passes /\ search'.at = k + 1
    BY <1>1, <2>1 DEF SearchTypes
  <2>3. SearchTypes'
    <3>1. line.names \subseteq LogTokens
      BY <1>2 DEF LogLine
    <3>2. search.tokens \cup line.names \in SUBSET LogTokens
          /\ search.found \cup {k} \in SUBSET SearchIndices /\ k + 1 \in Nat \ {0}
      BY <1>1, <1>2, <3>1 DEF SearchTypes
    <3> QED BY <1>1, <2>1, <3>2 DEF SearchTypes
  <2>4. TokensOfFound'
    BY <1>1, <2>2 DEF TokensOfFound
  <2>5. OnlyConnected'
    <3>1. ASSUME NEW S \in SUBSET SearchIndices, ConnectedSet(S) PROVE k \in S
      <4>1. search.found \subseteq S
        BY <1>1, <3>1 DEF OnlyConnected
      <4>2. PICK i \in search.found : Holds(k, search.lines[i].names)
        BY <1>1, <1>4 DEF TokensOfFound, Holds
      <4> QED BY <1>2, <3>1, <4>1, <4>2 DEF ConnectedSet
    <3> QED BY <1>1, <2>2, <3>1 DEF OnlyConnected, ConnectedSet, Matching, Holds
  <2>6. NothingMissed'
    BY <1>2, <2>2 DEF NothingMissed
  <2>7. EveryPassIncluded'
    <3>1. IsFiniteSet(search.found) /\ Cardinality(search.found) \in Nat
      BY <1>1, IndicesFinite DEF SearchTypes
    <3>2. Cardinality(search.found \cup {k}) = Cardinality(search.found) + 1
      BY <1>4, <3>1, FS_AddElement
    <3>3. search.found # {}
      BY <1>1, <1>4 DEF TokensOfFound, Holds
    <3>4. search.passes \in Nat /\ search.passes < Cardinality(search.found)
      <4>1. search.passes \in Nat
        BY <1>1 DEF SearchTypes
      <4> QED BY <1>1, <3>1, <3>3, <4>1 DEF EveryPassIncluded
    <3>5. search.passes + 1 < Cardinality(search.found \cup {k})
      BY <3>1, <3>2, <3>4
    <3> QED BY <2>2, <3>5 DEF EveryPassIncluded
  <2> QED BY <2>3, <2>4, <2>5, <2>6, <2>7 DEF SearchInv
<1> QED BY <1>3, <1>4

(* A pass that changed nothing has been at every line.                       *)
LEMMA EndPassStep ==
  ASSUME SearchInv, EndPass PROVE SearchInv'
<1>1. SearchTypes /\ TokensOfFound /\ OnlyConnected /\ NothingMissed /\ EveryPassIncluded
  BY DEF SearchInv, EndPass, NoSearch
<1>2. /\ search.pc = "scan" /\ search.at \notin SearchIndices /\ search.at \in Nat \ {0}
      /\ search.passes \in Nat /\ SearchLines \in Nat
  BY <1>1, LogAssumption DEF EndPass, SearchTypes
<1>3. CASE search.changed
  <2>1. search' = [search EXCEPT !.at = 1, !.changed = FALSE, !.passes = search.passes + 1]
    BY <1>3 DEF EndPass
  <2>2. /\ search'.pc = search.pc /\ search'.lines = search.lines
        /\ search'.needles = search.needles /\ search'.found = search.found
        /\ search'.tokens = search.tokens /\ search'.changed = FALSE
        /\ search'.passes = search.passes + 1 /\ search'.at = 1
    BY <1>1, <2>1 DEF SearchTypes
  <2>3. SearchTypes'
    <3>1. search.passes + 1 \in Nat
      BY <1>2
    <3>2. search' = [pc |-> search.pc, lines |-> search.lines, needles |-> search.needles,
                     found |-> search.found, tokens |-> search.tokens, at |-> 1,
                     changed |-> FALSE, passes |-> search.passes + 1]
      BY <1>1, <2>1 DEF SearchTypes
    <3> QED BY <1>1, <3>1, <3>2 DEF SearchTypes
  <2>4. TokensOfFound' /\ OnlyConnected'
    BY <1>1, <2>2 DEF TokensOfFound, OnlyConnected, ConnectedSet, Matching, Holds
  <2>5. NothingMissed'
    BY <1>2, <2>2 DEF NothingMissed, SearchIndices
  <2>6. EveryPassIncluded'
    BY <1>1, <1>2, <1>3, <2>2 DEF EveryPassIncluded
  <2> QED BY <2>3, <2>4, <2>5, <2>6 DEF SearchInv
<1>4. CASE ~search.changed
  <2>1. search' = [search EXCEPT !.pc = "done"]
    BY <1>4 DEF EndPass
  <2>2. /\ search'.pc = "done" /\ search'.lines = search.lines
        /\ search'.needles = search.needles /\ search'.found = search.found
        /\ search'.tokens = search.tokens /\ search'.changed = search.changed
        /\ search'.passes = search.passes /\ search'.at = search.at
    BY <1>1, <2>1 DEF SearchTypes
  <2>3. SearchTypes'
    BY <1>1, <2>1 DEF SearchTypes
  <2>4. TokensOfFound' /\ OnlyConnected' /\ EveryPassIncluded'
    BY <1>1, <2>2 DEF TokensOfFound, OnlyConnected, ConnectedSet, Matching, Holds,
                      EveryPassIncluded
  <2>5. NothingMissed'
    <3>1. ASSUME NEW i \in SearchIndices
          PROVE  i \in search.found \/ ~Holds(i, search.tokens) \/ ~(i < search.at)
      BY <1>1, <1>4 DEF NothingMissed
    <3> SUFFICES ASSUME NEW i \in SearchIndices, ~(i < search.at)
                 PROVE  FALSE
      BY <2>2, <3>1 DEF NothingMissed, Holds
    <3>2. search.at > SearchLines
      BY <1>2 DEF SearchIndices
    <3>3. i \in Nat /\ i <= SearchLines
      BY <1>2 DEF SearchIndices
    <3> QED BY <1>2, <3>2, <3>3
  <2> QED BY <2>3, <2>4, <2>5 DEF SearchInv
<1> QED BY <1>3, <1>4

(* Every step keeps the invariant of the search.                             *)
LEMMA SearchInvStep ==
  ASSUME SearchInv, [PlatformNext]_platformVars PROVE SearchInv'
<1>1. CASE getLogs
  BY <1>1, SearchBegins
<1>2. CASE ScanLine
  BY <1>2, ScanLineStep
<1>3. CASE EndPass
  BY <1>3, EndPassStep
<1>4. CASE UNCHANGED search
  BY <1>4 DEF SearchInv, SearchTypes, TokensOfFound, OnlyConnected, ConnectedSet,
              Matching, Holds, NothingMissed, EveryPassIncluded
<1> QED
  BY <1>1, <1>2, <1>3, <1>4, SearchSteps DEF SearchNext, filterByCallContextWithCorrelation

(* No search is under way at first.                                          *)
LEMMA SearchInvInit == ASSUME PlatformInit PROVE SearchInv
BY DEF PlatformInit, LogInit, SearchInv

(* What the invariant says of a search that is over.                         *)
LEMMA SearchInvImplies == ASSUME SearchInv PROVE SearchIsClosure /\ SearchEnds
<1>1. CASE search = NoSearch
  BY <1>1 DEF NoSearch, SearchIsClosure, SearchEnds
<1>2. CASE SearchTypes /\ TokensOfFound /\ OnlyConnected /\ NothingMissed /\ EveryPassIncluded
  <2>1. DOMAIN search.lines = SearchIndices /\ search.found \subseteq SearchIndices
    BY <1>2 DEF SearchTypes
  <2>2. ASSUME search.pc = "done", NEW i \in search.found, NEW j \in SearchIndices,
               Holds(j, search.lines[i].names)
        PROVE  j \in search.found
    <3>1. search.lines[i].names \subseteq search.tokens
      BY <1>2 DEF TokensOfFound
    <3>2. Holds(j, search.tokens)
      BY <2>2, <3>1 DEF Holds
    <3> QED BY <1>2, <2>2, <3>2 DEF NothingMissed
  <2>3. ASSUME search.pc = "done" PROVE ConnectedSet(search.found)
    BY <1>2, <2>2, <2>3 DEF ConnectedSet, OnlyConnected
  <2>4. SearchIsClosure
    <3>1. ASSUME NEW i, NEW j
          PROVE  search.lines[i].names \cap search.lines[j].text
                   = search.lines[j].text \cap search.lines[i].names
      OBVIOUS
    <3>2. ASSUME NEW S \in SUBSET SearchIndices
          PROVE  ConnectedSet(S) <=>
                   /\ \A i \in SearchIndices : search.lines[i].text \cap search.needles # {} => i \in S
                   /\ \A i \in S, j \in SearchIndices :
                        search.lines[i].names \cap search.lines[j].text # {} => j \in S
      BY <3>1 DEF ConnectedSet, Matching, Holds
    <3> QED BY <1>2, <2>1, <2>3, <3>2 DEF SearchIsClosure, OnlyConnected
  <2>5. SearchEnds
    <3>1. /\ Cardinality(search.found) \in Nat /\ Cardinality(search.found) <= SearchLines
          /\ SearchLines \in Nat /\ search.passes \in Nat
      BY <1>2, <2>1, IndicesFinite, LogAssumption DEF SearchTypes
    <3>2. ASSUME search.found # {} PROVE search.passes < Cardinality(search.found)
      BY <1>2, <3>1, <3>2 DEF EveryPassIncluded
    <3> QED BY <3>1, <3>2 DEF SearchEnds
  <2> QED BY <2>4, <2>5
<1> QED BY <1>1, <1>2 DEF SearchInv

(* The search for the lines of a call, as the loop of                        *)
(* filterByCallContextWithCorrelation makes it, returns exactly the lines    *)
(* connected with the call, for every log, every set of names and every      *)
(* call; and the loop ends: every pass that is followed by another one       *)
(* included a line, so there are fewer than lines.                           *)
THEOREM SearchCompleteHolds == PlatformSpec => []SearchComplete
<1>1. PlatformInit => SearchInv
  BY SearchInvInit
<1>2. SearchInv /\ [PlatformNext]_platformVars => SearchInv'
  BY SearchInvStep
<1>3. SearchInv => SearchComplete
  BY SearchInvImplies DEF SearchComplete
<1> QED BY <1>1, <1>2, <1>3, PTL DEF PlatformSpec
=============================================================================
