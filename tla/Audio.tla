--------------------------------- MODULE Audio --------------------------------
(***************************************************************************)
(* Audio files: audio.service.ts.  An upload or a text-to-speech request   *)
(* stores the original, saves the row and converts it with three ffmpeg    *)
(* runs; a removal checks that no published flow uses it, unlinks the files*)
(* the row named when it was read and deletes the row.  One file, with its *)
(* request and a removal interleaving; and the streamed preview of a text. *)
(***************************************************************************)
EXTENDS Naturals

VARIABLES
  audioRow,     \* "none", "processing", "ready", "failed", "deleted"
  audioFiles,   \* the files of it that exist
  audioPc,      \* where the request that makes it stands
  removal,      \* [pc, paths]: a removal under way
  audioUsed,    \* a current flow version plays it
  preview       \* [pc, settled, timer]: the promise of previewTts

auVars == <<audioRow, audioFiles, audioPc, removal, audioUsed, preview>>

NoRemoval == [pc |-> "idle", paths |-> {}]
NoPreview == [pc |-> "idle", settled |-> FALSE, timer |-> FALSE]

AudioInit ==
  /\ audioRow = "none" /\ audioFiles = {} /\ audioPc = "idle"
  /\ removal = NoRemoval /\ audioUsed = FALSE /\ preview = NoPreview

OnlyMaking == UNCHANGED <<removal, audioUsed, preview>>

\* The upload is written, or piper speaks the text and the volume is
\* normalised; a failing tool ends the request before there is a row.
upload ==
  /\ audioPc = "idle" /\ audioRow = "none"
  /\ audioFiles' = {"original"} /\ audioPc' = "save"
  /\ UNCHANGED audioRow /\ OnlyMaking

createTts ==
  /\ audioPc = "idle" /\ audioRow = "none"
  /\ \/ audioFiles' = {"original"} /\ audioPc' = "save"
     \/ audioFiles' \in {{}, {"raw"}} /\ audioPc' = "ended"
  /\ UNCHANGED audioRow /\ OnlyMaking

SaveAudio ==
  /\ audioPc = "save"
  /\ audioRow' = "processing" /\ audioPc' = "converted"
  /\ UNCHANGED audioFiles /\ OnlyMaking

Conversions == [converted |-> "ulaw", ulaw |-> "preview", preview |-> "finish"]

\* ffmpeg reads the original, which a removal may have unlinked.
Convert(out) ==
  /\ audioPc = out
  /\ \/ /\ "original" \in audioFiles
        /\ audioFiles' = audioFiles \cup {out}
        /\ audioPc' = Conversions[out]
     \/ /\ audioPc' = "fail"
        /\ audioFiles' \in {audioFiles, audioFiles \cup {out}}
  /\ UNCHANGED audioRow /\ OnlyMaking

\* Faulty variant: ready as soon as the file the switch plays is there
processAudioEarly ==
  \/ /\ audioPc = "converted" /\ audioRow = "processing"
     /\ audioRow' = "ready"
     /\ UNCHANGED <<audioFiles, audioPc>> /\ OnlyMaking
  \/ Convert("converted") \/ Convert("ulaw") \/ Convert("preview")

\* The row is ready when all three are there; an UPDATE of a row that has
\* been deleted changes nothing.
processAudio ==
  \/ Convert("converted") \/ Convert("ulaw") \/ Convert("preview")
  \/ /\ audioPc \in {"finish", "fail"}
     /\ audioPc' = "ended"
     /\ audioRow' = IF audioRow = "deleted" THEN "deleted"
                    ELSE IF audioPc = "finish" THEN "ready" ELSE "failed"
     /\ UNCHANGED audioFiles /\ OnlyMaking

\* remove: the row's paths as read; the ulaw file is named by no column.
removeAudio ==
  /\ removal.pc = "idle" /\ audioRow \in {"processing", "ready", "failed"}
  /\ removal' = [pc |-> "usage",
                 paths |-> {"original"} \cup
                   (IF audioRow = "ready" THEN {"converted", "preview"} ELSE {})]
  /\ UNCHANGED <<audioRow, audioFiles, audioPc, audioUsed, preview>>

CheckUsage ==
  /\ removal.pc = "usage"
  /\ removal' = IF audioUsed THEN NoRemoval ELSE [removal EXCEPT !.pc = "unlink"]
  /\ UNCHANGED <<audioRow, audioFiles, audioPc, audioUsed, preview>>

removeIfExists ==
  /\ removal.pc = "unlink"
  /\ audioFiles' = audioFiles \ removal.paths
  /\ removal' = [removal EXCEPT !.pc = "delete"]
  /\ UNCHANGED <<audioRow, audioPc, audioUsed, preview>>

DeleteAudio ==
  /\ removal.pc = "delete"
  /\ audioRow' = "deleted" /\ removal' = NoRemoval
  /\ UNCHANGED <<audioFiles, audioPc, audioUsed, preview>>

\* A flow is saved that plays the file, or one that no longer does.
FlowUsesAudio ==
  /\ audioRow \in {"processing", "ready", "failed"}
  /\ audioUsed' = ~audioUsed
  /\ UNCHANGED <<audioRow, audioFiles, audioPc, removal, preview>>

\* previewTts: piper is piped into ffmpeg and ffmpeg into the response.
previewTts ==
  /\ preview.pc = "idle"
  /\ preview' = [pc |-> "running", settled |-> FALSE, timer |-> TRUE]
  /\ UNCHANGED <<audioRow, audioFiles, audioPc, removal, audioUsed>>

\* A child's error, the end of ffmpeg or the 15 s timer settles it once; a
\* response that breaks only stops the children and the timer.
previewEvent ==
  /\ preview.pc \in {"running", "stopping"}
  /\ \/ preview' = [preview EXCEPT !.settled = TRUE, !.timer = FALSE, !.pc = "stopping"]
     \/ preview.timer /\ preview' = [preview EXCEPT !.settled = TRUE, !.pc = "stopping"]
     \/ preview' = [preview EXCEPT !.timer = FALSE, !.pc = "stopping"]
     \/ preview.settled /\ preview' = NoPreview
  /\ UNCHANGED <<audioRow, audioFiles, audioPc, removal, audioUsed>>

AudioNext ==
  \/ upload \/ createTts \/ SaveAudio \/ processAudio
  \/ removeAudio \/ CheckUsage \/ removeIfExists \/ DeleteAudio
  \/ FlowUsesAudio \/ previewTts \/ previewEvent

\* A file shown as ready can be played: all its conversions exist, also when
\* a removal was refused, or read the row before the conversion had ended.
ReadyIsPlayable ==
  audioRow = "ready" /\ removal.pc # "delete"
    => {"converted", "ulaw", "preview"} \subseteq audioFiles
===============================================================================
