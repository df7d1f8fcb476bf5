------------------------------ MODULE FlowEditor ------------------------------
(***************************************************************************)
(* pages/FlowEditorPage.tsx: which flow the editor shows, what its canvas  *)
(* holds, and the requests under way between the two: loads, the debounced *)
(* autosave, the Save button, the way into a submenu and back, a restored  *)
(* version, and the simulator, which switches the flow shown.  A drawing   *)
(* is the flow it was drawn in, the number of its last edit and its worst  *)
(* fault.  React closures matter: a timer or a callback uses the values of *)
(* the render that made it.  A flow not yet saved (a draft) is left out.   *)
(***************************************************************************)
EXTENDS Naturals

CONSTANTS RootOf,     \* the flow the editor was opened with
          SubOf,      \* the flow of a branch of its menu
          EditFaults, \* faults an edit may bring in
          MaxEdits    \* bound: edits

VARIABLES
  stored,    \* flow -> its drawing on the server
  shown,     \* currentFlowId
  flowIs,    \* flow.id: the flow last received
  canvas,    \* the drawing on the canvas
  snapshot,  \* savedSnapshot: the drawing taken for saved
  ready,     \* isInitialized
  load,      \* the load under way: [pc, flow, body]
  retry,     \* the same, started by the retry button
  timer,     \* the autosave timer's closure, or Off
  save,      \* the save under way (saveInFlightRef), or Off
  opener,    \* the closure of handleOpenSubmenu
  nav,       \* a navigation under way: [pc, to]
  restoring, \* a restore under way: "no", "asked" or "done"
  edits,     \* edits made
  crossed    \* an answer or a closure has met another flow (history)

editorVars == <<stored, shown, flowIs, canvas, snapshot, ready, load, retry, timer,
                save, opener, nav, restoring, edits, crossed>>

EditorFlows == {RootOf, SubOf}
Off == [pc |-> "off"]
Drawn(f, n, fault) == [of |-> f, edit |-> n, fault |-> fault]
Blank(f) == Drawn(f, 0, "none")

EditorInit ==
  /\ stored = [f \in EditorFlows |-> Blank(f)]
  /\ shown = RootOf /\ flowIs = RootOf /\ canvas = Blank(RootOf) /\ snapshot = Blank(RootOf)
  /\ ready = TRUE /\ load = Off /\ retry = Off /\ timer = Off /\ save = Off
  /\ opener = [target |-> RootOf, body |-> Blank(RootOf), unsaved |-> FALSE]
  /\ nav = Off /\ restoring = "no" /\ edits = 0 /\ crossed = FALSE

hasUnsavedChanges == ready /\ canvas # snapshot

\* What the checks before a save refuse: some faults any save, some only one
\* that the user asked for.
validateFlowBeforeSave(body) == body.fault # "unrouted"
isImmediateHangupFlow(body) == body.fault = "hangup"
validateFlowTimeoutConfig(body) == body.fault # "timeout"
validateNodeConfigurations(body) == body.fault # "config"
Accepted(body, auto) ==
  /\ ~isImmediateHangupFlow(body) /\ validateFlowBeforeSave(body)
  /\ auto \/ (validateFlowTimeoutConfig(body) /\ validateNodeConfigurations(body))

(***************************** loading and edits ***************************)

\* The autosave effect, after a change of what it depends on.
Rearm == timer' = IF ready' /\ canvas' # snapshot'
                  THEN [pc |-> "on", target |-> shown', body |-> canvas'] ELSE Off

\* Faulty variant: the page stays initialized while the other flow loads.
ShowsKeepsReady(f) ==
  /\ shown' = f /\ ready' = ready
  /\ load' = IF f # shown THEN [pc |-> "asked", flow |-> f, body |-> Blank(f)] ELSE load
  /\ opener' = IF f # shown THEN [target |-> f, body |-> canvas', unsaved |-> ready /\ canvas' # snapshot'] ELSE opener
  /\ Rearm

\* currentFlowId is set: if it changes, the page is not initialized, the old
\* load is given up, and handleOpenSubmenu is made anew in this render.
Shows(f) ==
  /\ shown' = f /\ ready' = (ready /\ f = shown)
  /\ load' = IF f # shown THEN [pc |-> "asked", flow |-> f, body |-> Blank(f)] ELSE load
  /\ opener' = IF f # shown THEN [target |-> f, body |-> canvas', unsaved |-> ready /\ canvas' # snapshot'] ELSE opener
  /\ Rearm

Received(f, body) ==
  /\ flowIs' = f /\ canvas' = body /\ snapshot' = body

\* The main load effect: the server is read, then the answer shown.
LoadReads ==
  /\ load.pc = "asked"
  /\ load' \in {[load EXCEPT !.pc = "got", !.body = stored[load.flow]], [load EXCEPT !.pc = "failed"]}
  /\ UNCHANGED <<stored, shown, flowIs, canvas, snapshot, ready, retry, timer, save, opener, nav, restoring, edits, crossed>>

LoadShown ==
  /\ load.pc = "got"
  /\ Received(load.flow, load.body)
  /\ ready' = TRUE /\ load' = Off /\ timer' = Off
  /\ UNCHANGED <<stored, shown, retry, save, opener, nav, restoring, edits, crossed>>

\* The retry button; its answer is shown whatever is shown by then.
RetryLoad ==
  /\ load.pc = "failed" /\ retry = Off /\ restoring = "no"
  /\ load' = Off /\ ready' = FALSE /\ timer' = Off
  /\ retry' = [pc |-> "asked", flow |-> shown, body |-> stored[shown]]
  /\ UNCHANGED <<stored, shown, flowIs, canvas, snapshot, save, opener, nav, restoring, edits, crossed>>

RetryShown ==
  /\ retry # Off /\ retry' = Off
  /\ \/ /\ Received(retry.flow, retry.body)
        /\ ready' = TRUE /\ timer' = Off
        /\ crossed' = (crossed \/ retry.flow # shown)
        /\ UNCHANGED load
     \/ /\ load' = IF load = Off THEN [pc |-> "failed", flow |-> shown, body |-> Blank(shown)] ELSE load
        /\ UNCHANGED <<flowIs, canvas, snapshot, ready, timer, crossed>>
  /\ UNCHANGED <<stored, shown, save, opener, nav, restoring, edits>>

\* An edit of the canvas, also while another flow is loading.  Only the first
\* one arms the timer; a later one does if the number of invalid nodes changes.
Edit ==
  /\ edits < MaxEdits /\ restoring = "no" /\ edits' = edits + 1
  /\ \E fault \in EditFaults \cup {"none"} :
        /\ canvas' = Drawn(canvas.of, edits + 1, fault)
        /\ UNCHANGED <<snapshot, ready, shown>>
        /\ IF hasUnsavedChanges /\ ((fault = "config") = (canvas.fault = "config"))
           THEN UNCHANGED timer ELSE Rearm
  /\ UNCHANGED <<stored, flowIs, load, retry, save, opener, nav, restoring, crossed>>

(********************************** saves **********************************)

StartSave(target, body, auto, forNav) ==
  /\ save = Off /\ Accepted(body, auto)
  /\ save' = [pc |-> "sent", target |-> target, body |-> body, auto |-> auto, forNav |-> forNav]

AutoSave ==
  /\ timer # Off
  /\ UNCHANGED <<stored, shown, flowIs, canvas, snapshot, ready, load, retry, opener, nav, restoring, edits, crossed>>
  /\ IF save = Off /\ Accepted(timer.body, TRUE)
     THEN StartSave(timer.target, timer.body, TRUE, FALSE) /\ Rearm
     ELSE timer' = Off /\ UNCHANGED save

\* The Save button of a root flow: nothing to do if all is saved, but while
\* the page is not initialized it saves.
SaveButton ==
  /\ flowIs = RootOf /\ restoring = "no" /\ (ready => hasUnsavedChanges)
  /\ StartSave(shown, canvas, FALSE, FALSE)
  /\ crossed' = (crossed \/ ~ready)
  /\ UNCHANGED <<stored, shown, flowIs, canvas, snapshot, ready, load, retry, opener, nav, restoring, edits>>
  /\ Rearm

\* The request reaches the server, or fails.
saveFlow ==
  /\ save.pc = "sent"
  /\ \/ /\ stored' = [stored EXCEPT ![save.target] = save.body]
        /\ save' = [save EXCEPT !.pc = "stored"]
     \/ UNCHANGED stored /\ save' = [save EXCEPT !.pc = "failed"]
  /\ UNCHANGED <<shown, flowIs, canvas, snapshot, ready, load, retry, timer, opener, nav, restoring, edits, crossed>>

\* The answer: the flow saved is the flow shown again, with the drawing
\* received, or after an autosave the drawing as it is.
SaveAnswered ==
  /\ save.pc = "stored"
  /\ flowIs' = save.target /\ snapshot' = save.body
  /\ canvas' = IF save.auto THEN canvas ELSE save.body
  /\ Shows(save.target)
  /\ save' = [save EXCEPT !.pc = "done"]
  /\ UNCHANGED <<stored, retry, nav, restoring, edits, crossed>>

\* Versions and breadcrumb are read, the flag is cleared and a navigation that
\* waited goes on, or asks to leave without saving.
SaveSettles ==
  /\ save.pc \in {"done", "failed"}
  /\ save' = Off
  /\ nav' = IF save.forNav THEN [nav EXCEPT !.pc = IF save.pc = "done" THEN "go" ELSE "ask"] ELSE nav
  /\ UNCHANGED <<stored, shown, flowIs, canvas, snapshot, ready, load, retry, opener, restoring, edits, crossed>>
  /\ Rearm

(******************************** navigation *******************************)

\* ensureSavedBeforeNavigation: unsaved changes are saved first; where that
\* cannot be done the user is asked.
ensureSavedBeforeNavigation(to, unsaved, target, body) ==
  IF ~unsaved THEN nav' = [pc |-> "go", to |-> to] /\ UNCHANGED save
  ELSE IF save = Off /\ Accepted(body, TRUE)
  THEN nav' = [pc |-> "saving", to |-> to] /\ StartSave(target, body, TRUE, TRUE)
  ELSE nav' = [pc |-> "ask", to |-> to] /\ UNCHANGED save

handleBreadcrumbNavigate ==
  /\ nav = Off /\ restoring = "no" /\ flowIs = SubOf
  /\ ensureSavedBeforeNavigation(RootOf, hasUnsavedChanges, shown, canvas)
  /\ UNCHANGED <<stored, shown, flowIs, canvas, snapshot, ready, load, retry, opener, restoring, edits, crossed>>
  /\ Rearm

\* The submenu's button uses the closure made when the flow was last switched.
handleOpenSubmenu ==
  /\ nav = Off /\ restoring = "no" /\ canvas.of = RootOf
  /\ ensureSavedBeforeNavigation(SubOf, opener.unsaved, opener.target, opener.body)
  /\ crossed' = (crossed \/ opener.unsaved)
  /\ UNCHANGED <<stored, shown, flowIs, canvas, snapshot, ready, load, retry, opener, restoring, edits>>
  /\ Rearm

\* A new submenu: unsaved changes are saved as by the button, then the flow is
\* created and shown.
handleOpenOrCreateSubmenu ==
  /\ nav = Off /\ restoring = "no" /\ canvas.of = RootOf /\ hasUnsavedChanges
  /\ StartSave(shown, canvas, FALSE, TRUE)
  /\ nav' = [pc |-> "saving", to |-> SubOf]
  /\ UNCHANGED <<stored, shown, flowIs, canvas, snapshot, ready, load, retry, opener, restoring, edits, crossed>>
  /\ Rearm

\* The navigation is made (a submenu's flow is read first, which may fail).
NavGo ==
  /\ nav.pc = "go" /\ nav' = Off
  /\ UNCHANGED <<canvas, snapshot>>
  /\ \/ Shows(nav.to)
     \/ nav.to = SubOf /\ UNCHANGED <<shown, ready, load, opener, timer>>
  /\ UNCHANGED <<stored, flowIs, retry, save, restoring, edits, crossed>>

\* requestLeave: leave anyway, or stay; the question goes when all is saved.
requestLeave ==
  /\ nav.pc = "ask"
  /\ nav' \in {[nav EXCEPT !.pc = "go"], Off}
  /\ UNCHANGED <<stored, shown, flowIs, canvas, snapshot, ready, load, retry, save, opener, restoring, edits, crossed>>
  /\ Rearm

\* The simulator enters or leaves a submenu.
SimulatorShows(f) ==
  /\ f # shown
  /\ UNCHANGED <<canvas, snapshot>>
  /\ Shows(f)
  /\ UNCHANGED <<stored, flowIs, retry, save, nav, restoring, edits, crossed>>

(********************************* versions ********************************)

\* A version is restored on the server, and the answer is put on the canvas
\* without a look at the flow shown.
handleConfirmRestore ==
  \/ /\ restoring = "no" /\ flowIs = RootOf /\ restoring' = "asked"
     /\ UNCHANGED <<stored, flowIs, canvas, snapshot, timer, crossed>>
     /\ UNCHANGED <<shown, ready, load, retry, save, opener, nav, edits>>
  \/ /\ restoring = "asked"
     /\ \/ restoring' = "done" /\ stored' = [stored EXCEPT ![RootOf] = Blank(RootOf)]
        \/ restoring' = "no" /\ UNCHANGED stored
     /\ UNCHANGED <<flowIs, canvas, snapshot, timer, crossed>>
     /\ UNCHANGED <<shown, ready, load, retry, save, opener, nav, edits>>
  \/ /\ restoring = "done" /\ restoring' = "no"
     /\ Received(RootOf, Blank(RootOf))
     /\ crossed' = (crossed \/ shown # RootOf)
     /\ UNCHANGED <<stored, shown, ready, load, retry, save, opener, nav, edits>>
     /\ Rearm

\* A version is committed; unsaved changes are saved with it, as by the button.
handleCreateVersion ==
  /\ flowIs = RootOf /\ restoring = "no" /\ hasUnsavedChanges
  /\ StartSave(shown, canvas, FALSE, FALSE)
  /\ UNCHANGED <<stored, shown, flowIs, canvas, snapshot, ready, load, retry, opener, nav, restoring, edits, crossed>>
  /\ Rearm

\* Followed until an answer or a closure meets another flow.
EditorNext ==
  /\ ~crossed
  /\ \/ LoadReads \/ LoadShown \/ RetryLoad \/ RetryShown \/ Edit
     \/ AutoSave \/ SaveButton \/ saveFlow \/ SaveAnswered \/ SaveSettles
     \/ handleBreadcrumbNavigate \/ handleOpenSubmenu \/ handleOpenOrCreateSubmenu \/ NavGo
     \/ requestLeave \/ (\E f \in EditorFlows : SimulatorShows(f)) \/ handleConfirmRestore
     \/ handleCreateVersion

-----------------------------------------------------------------------------
(* A flow is only ever overwritten with a drawing made in it, whatever     *)
(* loads, autosaves, late answers and switches of the flow overlap.  Four  *)
(* ways around this are known, and marked: the Save button while a flow    *)
(* loads, the submenu button after unsaved changes were left behind, and   *)
(* the answer of a retry or of a restore after a switch.                   *)
EditorWritesItsFlow ==
  ~crossed => \A f \in EditorFlows : stored[f].of = f
=============================================================================
