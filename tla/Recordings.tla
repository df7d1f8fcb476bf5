------------------------------ MODULE Recordings ------------------------------
(***************************************************************************)
(* Recordings of one call and their rows.  A node that records starts a    *)
(* recording of the bridge (stasis/src/bridgeRecording.ts) and puts it in  *)
(* the session; a hunt or transfer node saves it when the parties have     *)
(* left, StasisEnd saves what it finds, neither waiting for the other.     *)
(* The voicemail node records the channel and inserts its row itself       *)
(* (voicemail.executor.ts).  The backend lists, deletes                    *)
(* (recordings.service.ts) and prunes (recording-retention.service.ts).    *)
(***************************************************************************)
EXTENDS Naturals, FiniteSets

CONSTANTS
  CallFiles,    \* recordings the nodes of the call may start
  VoiceFile,    \* the recording of its voicemail
  MaxRecRows    \* a bound on the rows inserted

RecFiles == CallFiles \cup {VoiceFile}
NoRec == "norec"

\* The names of recordings differ from one another and from the marks below.
ASSUME RecordingAssumption ==
  /\ MaxRecRows \in Nat
  /\ VoiceFile \notin CallFiles
  /\ {NoRec, "over"} \cap RecFiles = {}

VARIABLES
  recSession,   \* "live" or "ended" (StasisEnd was handled)
  sessionRec,   \* session.recording
  live,         \* recordings Asterisk is writing
  disk,         \* files in the recordings directory
  saver,        \* persistSessionRecording, called by the node and by StasisEnd
  vmPc,         \* executeVoicemail
  begun,        \* recordings started: their names are never used again
  rowFile,      \* the file of each row ever inserted in call_recordings
  recRows,      \* the ids of the rows that exist
  recIds,       \* ids given so far
  deleting,     \* a deletion under way: its row, and the step it is at
  expired       \* rows the retention pass has selected and not yet reached

recVars == <<recSession, sessionRec, live, disk, saver, vmPc, begun, rowFile,
             recRows, recIds, deleting, expired>>

RecIds == 1..MaxRecRows
Deleters == {"user", "retention"}
Idle == [id |-> 0, step |-> "idle"]

RecInit ==
  /\ recSession = "live" /\ sessionRec = NoRec
  /\ live = {} /\ disk = {}
  /\ saver = [s \in {"node", "end"} |-> NoRec]
  /\ vmPc = "start"
  /\ begun = {} /\ rowFile = [i \in RecIds |-> NoRec]
  /\ recRows = {} /\ recIds = 0
  /\ deleting = [d \in Deleters |-> Idle] /\ expired = {}

(******************************* Stasis side *******************************)

\* beginNodeRecording: a recording under way is stopped, and forgotten.
beginNodeRecording(f) ==
  /\ recSession = "live" /\ f \notin begun
  /\ begun' = begun \cup {f}
  /\ live' = (live \ {sessionRec}) \cup {f}
  /\ disk' = disk \cup {f}
  /\ sessionRec' = f
  /\ UNCHANGED <<recSession, saver, vmPc, rowFile, recRows, recIds, deleting,
                 expired>>

\* persistSessionRecording up to its request.  It marks the recording as
\* ended first, so the stop request after that is never sent.
persistSessionRecording(s) ==
  /\ saver[s] = NoRec /\ sessionRec # NoRec
  /\ s = "end" => recSession = "ended"
  /\ saver' = [saver EXCEPT ![s] = sessionRec]
  /\ UNCHANGED <<recSession, sessionRec, live, disk, vmPc, begun, rowFile,
                 recRows, recIds, deleting, expired>>

InsertRecording(f) ==
  /\ recIds < MaxRecRows
  /\ recIds' = recIds + 1
  /\ rowFile' = [rowFile EXCEPT ![recIds + 1] = f]
  /\ recRows' = recRows \cup {recIds + 1}

(* createInternal answers: the row is there and the session forgets the    *)
(* recording.  On an error it keeps it.                                    *)
createInternal(s) ==
  /\ saver[s] \in RecFiles
  /\ \/ InsertRecording(saver[s]) /\ sessionRec' = NoRec
     \/ UNCHANGED <<rowFile, recRows, recIds, sessionRec>>
  /\ saver' = [saver EXCEPT ![s] = IF s = "end" THEN "over" ELSE NoRec]
  /\ UNCHANGED <<recSession, live, disk, vmPc, begun, deleting, expired>>

\* StasisEnd: the bridge is destroyed, which ends what it records.
RecStasisEnd ==
  /\ recSession = "live"
  /\ recSession' = "ended"
  /\ live' = {}
  /\ UNCHANGED <<sessionRec, disk, saver, vmPc, begun, rowFile, recRows,
                 recIds, deleting, expired>>

\* executeVoicemail: the prompt, the bridge given up, then the recording; a
\* channel that is gone refuses it.
RecordVoicemail ==
  /\ vmPc = "start" /\ recSession = "live"
  /\ begun' = begun \cup {VoiceFile}
  /\ live' = live \cup {VoiceFile} /\ disk' = disk \cup {VoiceFile}
  /\ vmPc' = "recording"
  /\ UNCHANGED <<recSession, sessionRec, saver, rowFile, recRows,
                 recIds, deleting, expired>>

(* waitForRecordingFinished: '#', silence or the limit end the recording;  *)
(* when the caller's end is handled first the message is not saved, nor    *)
(* when it has no length.                                                  *)
VoicemailFinished ==
  /\ vmPc = "recording"
  /\ live' = live \ {VoiceFile}
  /\ vmPc' \in IF recSession = "live" THEN {"save", "done"} ELSE {"done"}
  /\ UNCHANGED <<recSession, sessionRec, disk, saver, begun, rowFile,
                 recRows, recIds, deleting, expired>>

persistVoicemailRecording ==
  /\ vmPc = "save"
  /\ vmPc' = "done"
  /\ InsertRecording(VoiceFile) \/ UNCHANGED <<rowFile, recRows, recIds>>
  /\ UNCHANGED <<recSession, sessionRec, live, disk, saver, begun, deleting,
                 expired>>

(******************************* the backend *******************************)

\* getOne, and the first step of remove: the row is read.
RecListed(i) == i \in recRows

\* getFilePath: stream and download need the row and its file.
getFilePath(i) == RecListed(i) /\ rowFile[i] \in disk

removeRequested(i) ==
  /\ deleting["user"] = Idle /\ RecListed(i)
  /\ deleting' = [deleting EXCEPT !["user"] =
                    [id |-> i, file |-> rowFile[i], step |-> "unlink"]]
  /\ UNCHANGED <<recSession, sessionRec, live, disk, saver, vmPc, begun,
                 rowFile, recRows, recIds, expired>>

\* handleCron selects the rows that are too old, unless all are kept.
handleCron ==
  /\ expired = {} /\ deleting["retention"] = Idle
  /\ expired' \in SUBSET {i \in RecIds : RecListed(i)} \ {{}}
  /\ UNCHANGED <<recSession, sessionRec, live, disk, saver, vmPc, begun,
                 rowFile, recRows, recIds, deleting>>

PruneNext(i) ==
  /\ i \in expired /\ deleting["retention"] = Idle
  /\ expired' = expired \ {i}
  /\ deleting' = [deleting EXCEPT !["retention"] =
                    [id |-> i, file |-> rowFile[i], step |-> "unlink"]]
  /\ UNCHANGED <<recSession, sessionRec, live, disk, saver, vmPc, begun,
                 rowFile, recRows, recIds>>

\* Faulty variant: a file that cannot be deleted is only logged.
deleteFileQuietly(d) ==
  /\ deleting[d].step = "unlink"
  /\ \/ disk' = disk \ {deleting[d].file}
     \/ UNCHANGED disk
  /\ deleting' = [deleting EXCEPT ![d].step = "row"]
  /\ UNCHANGED <<recSession, sessionRec, live, saver, vmPc, begun, rowFile,
                 recRows, recIds, expired>>

(* The file is unlinked, a missing one is no error; any other error leaves *)
(* the row.                                                                *)
deleteRecordingFile(d) ==
  /\ deleting[d].step = "unlink"
  /\ \/ /\ disk' = disk \ {deleting[d].file}
        /\ deleting' = [deleting EXCEPT ![d].step = "row"]
     \/ deleting' = [deleting EXCEPT ![d] = Idle] /\ UNCHANGED disk
  /\ UNCHANGED <<recSession, sessionRec, live, saver, vmPc, begun, rowFile,
                 recRows, recIds, expired>>

deleteRow(d) ==
  /\ deleting[d].step = "row"
  /\ recRows' = recRows \ {deleting[d].id}
  /\ deleting' = [deleting EXCEPT ![d] = Idle]
  /\ UNCHANGED <<recSession, sessionRec, live, disk, saver, vmPc, begun,
                 rowFile, recIds, expired>>

\* The backend restarts: a deletion under way is forgotten.
RecBackendRestarts ==
  /\ \E d \in Deleters : deleting[d] # Idle
  /\ deleting' = [d \in Deleters |-> Idle] /\ expired' = {}
  /\ UNCHANGED <<recSession, sessionRec, live, disk, saver, vmPc, begun,
                 rowFile, recRows, recIds>>

RecStasis ==
  \/ \E f \in CallFiles : beginNodeRecording(f)
  \/ \E s \in {"node", "end"} : persistSessionRecording(s) \/ createInternal(s)
  \/ RecStasisEnd \/ RecordVoicemail \/ VoicemailFinished
  \/ persistVoicemailRecording

RecBackend ==
  \/ \E i \in RecIds : removeRequested(i) \/ PruneNext(i)
  \/ \E d \in Deleters : deleteRecordingFile(d) \/ deleteRow(d)
  \/ handleCron \/ RecBackendRestarts

RecNext == RecStasis \/ RecBackend

-----------------------------------------------------------------------------

(* Deleting never hides a recording: a row that was deleted, by a user, by *)
(* the retention job or by both at once, with restarts in between, has no  *)
(* file any more: only a row that is still listed may lack one.            *)
DeletedRowsFreeFiles ==
  \A i \in 1..recIds : ~RecListed(i) => rowFile[i] \notin disk
=============================================================================
