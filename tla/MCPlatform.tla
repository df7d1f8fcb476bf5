------------------------------ MODULE MCPlatform ------------------------------
(***************************************************************************)
(* Model of the components of the backend and of the web interface, each   *)
(* checked in turn: subject is chosen at first and names the component, or *)
(* the part of one with its own tables, that moves.  The others stay in    *)
(* one of their initial states.                                            *)
(***************************************************************************)
EXTENDS SipConfig, Vpn, Backup, Firewall, FlowStore, FlowCanvas, FlowEditor,
        FlowSimulator, Softphone, Audio, Directory, CampaignDesk, Capture,
        Webhooks, LogTail, TrunkPanel, CallQuality, Recordings, Dashboard

\* The drawings a flow may be saved with: two that differ in the layout only,
\* one that hangs up at once, and two the validation refuses.
MCPayloads == [body : {"menu"}, layout : {0, 1}, handles : {TRUE}]
                \cup [body : {"hangup"}, layout : {0}, handles : {TRUE}]
                \cup [body : {"unset", "unwired"}, layout : {0}, handles : {TRUE}]

\* The simulator's flows: one with a menu, a submenu of it with a menu of its
\* own, and a submenu of that one.  The node names repeat, as the keys of the
\* editor do.
SimEdge(a, b, c) == [from |-> a, branch |-> b, to |-> c]
SimSub(a, b, f) == [from |-> a, branch |-> b, flow |-> f]

MCSimFlows == {"main", "sub", "deep"}
MCSimNodes ==
  [f \in MCSimFlows |->
     CASE f = "main" -> [n \in {"start", "menu", "hours", "end"} |->
            CASE n = "start" -> "start" [] n = "menu" -> "menu" [] n = "hours" -> "business_hours"
              [] OTHER -> "hangup"]
       [] f = "sub" -> [n \in {"start", "menu", "hook", "queue", "mail"} |->
            CASE n = "start" -> "start" [] n = "menu" -> "menu" [] n = "hook" -> "webhook"
              [] n = "queue" -> "queue" [] OTHER -> "voicemail"]
       [] OTHER -> [n \in {"start", "play"} |-> IF n = "start" THEN "start" ELSE "play_audio"]]
MCSimEdges ==
  [f \in MCSimFlows |->
     CASE f = "main" -> {SimEdge("start", "default", "hours"), SimEdge("hours", "open", "menu"),
                         SimEdge("menu", "2", "end"), SimEdge("menu", "complete", "end")}
       [] f = "sub" -> {SimEdge("start", "default", "hook"), SimEdge("hook", "default", "menu"),
                        SimEdge("menu", "2", "mail"), SimEdge("menu", "3", "queue")}
       [] OTHER -> {SimEdge("start", "default", "play")}]
MCSimSubmenus ==
  [f \in MCSimFlows |->
     CASE f = "main" -> {SimSub("menu", "1", "sub"), SimSub("menu", "3", "deep")}
       [] f = "sub" -> {SimSub("menu", "1", "deep")}
       [] OTHER -> {}]

-----------------------------------------------------------------------------
VARIABLE subject

platformSubjects ==
  {"sip", "vpn_peers", "vpn_relay", "vpn_keys", "backup", "firewall", "flows",
   "canvas", "editor", "simulator", "phone", "audio", "operators", "queues",
   "settings", "campaigns", "capture", "webhooks", "log_tail", "log_search",
   "trunk_panel", "quality", "recordings", "dashboard"}

PlatformInit ==
  /\ subject \in platformSubjects
  /\ SipInit /\ VpnInit /\ BackupInit /\ FirewallInit /\ FlowStoreInit
  /\ CanvasInit /\ EditorInit /\ SimInit /\ PhoneInit /\ AudioInit /\ DeskInit
  /\ CampaignDeskInit /\ CaptureInit /\ HookInit /\ LogInit /\ PanelInit
  /\ QualityInit /\ RecInit /\ BoardInit
  /\ subject # "firewall" => fwMode = "iptables"
  /\ subject # "flows" => ~isTemplate
  /\ subject # "canvas" => cedges = {}
  /\ subject # "simulator" => simPage = SimRoot
  /\ subject \notin {"operators", "queues"} => \A o \in Staff : staff[o] = Vacant
  /\ subject # "webhooks" => hookConfig = [retry_enabled |-> FALSE,
                                           max_attempts |-> 1, retry_on |-> {}]
  /\ subject \notin {"log_tail", "log_search"} => logFile = <<>>
  /\ subject # "dashboard" => room = "off"

platformVars ==
  <<subject, sipVars, vpnVars, bkVars, fwVars, storeVars, canvasVars,
    editorVars, simVars, phoneVars, auVars, deskVars, campaignDeskVars,
    captureVars, hookVars, logVars, panelVars, qualityVars, recVars,
    boardVars>>

\* Only the subject moves.
Only(s) ==
  /\ subject = s /\ UNCHANGED subject
  /\ IF s = "sip" THEN TRUE ELSE UNCHANGED sipVars
  /\ IF s \in {"vpn_peers", "vpn_relay", "vpn_keys"} THEN TRUE ELSE UNCHANGED vpnVars
  /\ IF s = "backup" THEN TRUE ELSE UNCHANGED bkVars
  /\ IF s = "firewall" THEN TRUE ELSE UNCHANGED fwVars
  /\ IF s = "flows" THEN TRUE ELSE UNCHANGED storeVars
  /\ IF s = "canvas" THEN TRUE ELSE UNCHANGED canvasVars
  /\ IF s = "editor" THEN TRUE ELSE UNCHANGED editorVars
  /\ IF s = "simulator" THEN TRUE ELSE UNCHANGED simVars
  /\ IF s = "phone" THEN TRUE ELSE UNCHANGED phoneVars
  /\ IF s = "audio" THEN TRUE ELSE UNCHANGED auVars
  /\ IF s \in {"operators", "queues", "settings"} THEN TRUE ELSE UNCHANGED deskVars
  /\ IF s = "campaigns" THEN TRUE ELSE UNCHANGED campaignDeskVars
  /\ IF s = "capture" THEN TRUE ELSE UNCHANGED captureVars
  /\ IF s = "webhooks" THEN TRUE ELSE UNCHANGED hookVars
  /\ IF s \in {"log_tail", "log_search"} THEN TRUE ELSE UNCHANGED logVars
  /\ IF s = "trunk_panel" THEN TRUE ELSE UNCHANGED panelVars
  /\ IF s = "quality" THEN TRUE ELSE UNCHANGED qualityVars
  /\ IF s = "recordings" THEN TRUE ELSE UNCHANGED recVars
  /\ IF s = "dashboard" THEN TRUE ELSE UNCHANGED boardVars

PlatformNext ==
  \/ Only("sip") /\ SipNext
  \/ Only("vpn_peers") /\ (PeerNext \/ VpnBackendStops)
  \/ Only("vpn_relay") /\ (RelayNext \/ VpnBackendStops)
  \/ Only("vpn_keys") /\ createRelayConfig
  \/ Only("backup") /\ BackupNext
  \/ Only("firewall") /\ FirewallNext
  \/ Only("flows") /\ FlowStoreNext
  \/ Only("canvas") /\ CanvasNext
  \/ Only("editor") /\ EditorNext
  \/ Only("simulator") /\ SimNext
  \/ Only("phone") /\ PhoneNext
  \/ Only("audio") /\ AudioNext
  \/ Only("operators") /\ OperatorNext
  \/ Only("queues") /\ QueueDeskNext
  \/ Only("settings") /\ SettingNext
  \/ Only("campaigns") /\ CampaignDeskNext
  \/ Only("capture") /\ CaptureNext
  \/ Only("webhooks") /\ HookNext
  \/ Only("log_tail") /\ TailNext
  \/ Only("log_search") /\ SearchNext
  \/ Only("trunk_panel") /\ PanelNext
  \/ Only("quality") /\ QualityNext
  \/ Only("recordings") /\ RecNext
  \/ Only("dashboard") /\ BoardNext

\* Bound: the requests on a template are not overlapping, and when it has been
\* copied, only the copy is updated or renamed.
OnlyCopyUpdated ==
  isTemplate =>
    /\ \A q, r \in StoreRequests : basis[q] # NotBegun /\ basis[r] # NotBegun => q = r
    /\ \A r \in StoreRequests :
         flowRow["copy"] # "absent" /\ basis[r] # NotBegun => basis[r].flow = "copy"

\* Bound: a restore that has replaced the database, an archive whose removal
\* was overlooked, flows an overtaken request has written, and an editor one
\* of whose answers met another flow, are not followed further: the
\* properties exclude them.
NotExcluded == ~dbRestored /\ overlooked = {} /\ ~overtaken /\ ~crossed /\ OnlyCopyUpdated

PlatformSpec == PlatformInit /\ [][PlatformNext]_platformVars

\* What the database says of a file is so: recordings.service.ts frees the
\* files of the rows it deletes, audio.service.ts calls a file ready only when
\* it can be played, and backup.service.ts leaves no archive without a
\* row but in the two cases NoStrayArchive names.
RowsMatchFiles == DeletedRowsFreeFiles /\ ReadyIsPlayable /\ NoStrayArchive

\* vpn.service.ts and WireGuard agree: a revoked peer has lost its access, and
\* the relay is what its state says, however requests, background tasks,
\* failing commands and restarts interleave.
VpnStateTrue == RevokedPeersGone /\ RelayStateTrue

\* Nothing is counted twice: a webhook call is tried again only after a failure
\* the sender saw and the log shows, a captured packet has one row, and a line
\* of the security log is one attempt, though timers overlap and the backend
\* restarts.
ObservedOnce == DeliveredOnce /\ PacketStoredOnce /\ SecurityLineOnce

\* The flow editor's canvas is a graph the backend can store, whatever is
\* pasted, grouped, connected and deleted, and the simulator walks the flow it
\* shows, however late a submenu is fetched.
CanvasAndSimulator == CanvasConsistent /\ SimulatorFramesAgree

\* What a page keeps running it can stop, and what it lists is so: the
\* softphone's ring and reset timer, the polls of the trunk test panel, and
\* the dashboard's active calls.
PagesKeepUp == SoftphoneQuiet /\ PollsAreNamed /\ DashboardListsCalls
===============================================================================
