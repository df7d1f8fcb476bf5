------------------------------- MODULE SipConfig ------------------------------
(***************************************************************************)
(* The tables of extensions, inbound routes and trunks, the Asterisk       *)
(* configuration files the backend derives from them, and what Asterisk    *)
(* has loaded (backend/src: asterisk/asterisk-config.service.ts,           *)
(* extensions, inbound-routes and trunks services).                        *)
(*                                                                         *)
(* A request validates, saves its row, and then rebuilds files from what   *)
(* it reads of the tables, one await after the other; requests share no    *)
(* lock.  The process may stop anywhere; at its start every file is        *)
(* rebuilt before a request is served.                                     *)
(***************************************************************************)
EXTENDS Naturals, Sequences, FiniteSets

CONSTANTS SipNumbers,   \* user names of extensions and DIDs of routes
          Admins,       \* requests that may run at a time
          TrunkRows     \* the states of the trunk's row that are tried

\* A trunk's row is in one of the states buildTrunksConfig tells apart.
ASSUME SipAssumption ==
  TrunkRows \subseteq {"none", "disabled", "plain", "auth", "noreg"}

VARIABLES
  extRows,     \* sip_extensions: number -> "none", "plain" or "vpn"
  routeRows,   \* inbound_routes: the DIDs
  trunkRow,    \* a row of sip_trunks: "none", "disabled", "plain", "auth" or "noreg"
  sipFiles,    \* the generated files
  loaded,      \* Asterisk's module -> it runs on the "current" files, on
               \* "stale" ones, or its last reload was "refused"
  sipTodo,     \* actor -> the awaits ahead of it
  sipSnap,     \* actor -> the row it saves and the rows it has read
  overlapped   \* requests have overlapped since the start (history)

sipVars == <<extRows, routeRows, trunkRow, sipFiles, loaded, sipTodo, sipSnap,
             overlapped>>

Boot == "boot"
Actors == Admins \cup {Boot}

ExtSteps == <<"findExts", "acl", "unlink", "ext", "relay", "findRoutes",
              "listExts", "routes", "reloadPjsip", "reloadDialplan">>
RouteSteps == <<"findRoutes", "listExts", "routes", "reloadDialplan">>
TrunkSteps == <<"trunks", "reloadResPjsip">>

\* onModuleInit of the three services; the reload of the WebRTC modules at
\* the start, whose failure is caught, reads whatever is there.
BootSteps == <<"trunks", "reloadPjsip", "findExts", "relay">> \o ExtSteps
               \o <<"findRoutes", "listExts", "routes">>

Usernames(rows) == {n \in SipNumbers : rows[n] # "none"}
VpnOnly(rows) == {n \in SipNumbers : rows[n] = "vpn"}

NoRows == [n \in SipNumbers |-> "none"]

NoSave == <<"", "", "">>

NothingRead(save) ==
  [save |-> save, exts |-> NoRows, users |-> {}, dids |-> {}]

SipInit ==
  /\ extRows = NoRows /\ routeRows = {} /\ trunkRow = "none"
  /\ sipFiles = [acl |-> {}, ext |-> NoRows, relay |-> {}, trunks |-> {},
                 dial |-> {}, dids |-> {}]
  /\ loaded = [pjsip |-> "stale", dialplan |-> "stale"]
  /\ sipTodo = [a \in Actors |-> IF a = Boot THEN BootSteps ELSE <<>>]
  /\ sipSnap = [a \in Actors |-> NothingRead(NoSave)]
  /\ overlapped = FALSE

(******************************** the files ********************************)

\* resolveAsteriskConfig and buildExtensionsConfig: an endpoint for each
\* extension, with the include of its ACL file when it is VPN-only.
buildExtensionsConfig(rows) == rows

\* An enabled trunk has an endpoint and its aor, an auth section when it has
\* both user name and password, and then a registration unless its preset
\* needs none.
buildTrunksConfig(row) ==
  CASE row \in {"none", "disabled"} -> {}
    [] row = "plain" -> {"endpoint", "aor"}
    [] row = "auth" -> {"endpoint", "aor", "auth", "reg"}
    [] row = "noreg" -> {"endpoint", "aor", "auth"}

\* A dialplan entry for each extension and each DID.
buildInboundRoutesConfig(f, dids, users) ==
  [f EXCEPT !.dial = users, !.dids = dids]

(************************** requests: check, save **************************)

Ready == sipTodo[Boot] = <<>>

\* A request passes its checks, and goes on with the steps of its kind.
\* Bound: no further request after two that overlapped, until a restart.
WriteAccepted(a, save, steps) ==
  /\ Ready /\ sipTodo[a] = <<>> /\ ~overlapped
  /\ sipTodo' = [sipTodo EXCEPT ![a] = <<"save">> \o steps]
  /\ sipSnap' = [sipSnap EXCEPT ![a] = NothingRead(save)]
  /\ overlapped' = (\E b \in Actors : sipTodo[b] # <<>>)

\* create, update and remove of an extension: the name is free or its own,
\* and no route's DID (the check and the save are separate awaits).
ExtensionSaved(a, n, kind) ==
  /\ kind \in {"plain", "vpn"} /\ extRows[n] = "none" => n \notin routeRows
  /\ extRows[n] # kind
  /\ WriteAccepted(a, <<"ext", n, kind>>, ExtSteps)
  /\ UNCHANGED <<extRows, routeRows, trunkRow, sipFiles, loaded>>

\* create and remove of an inbound route, whose flow exists.
RouteSaved(a, n, add) ==
  /\ add # (n \in routeRows)
  /\ add => extRows[n] = "none"
  /\ WriteAccepted(a, <<"route", n, IF add THEN "did" ELSE "none">>, RouteSteps)
  /\ UNCHANGED <<extRows, routeRows, trunkRow, sipFiles, loaded>>

\* create, update and remove of a trunk; a user name needs a password
\* (validateAuth), and dropping the user name drops the password.
TrunkSaved(a, row) ==
  /\ row # trunkRow
  /\ WriteAccepted(a, <<"trunk", "", row>>, TrunkSteps)
  /\ UNCHANGED <<extRows, routeRows, trunkRow, sipFiles, loaded>>

(****************************** the next await *****************************)

Await(a, s) ==
  /\ sipTodo[a] # <<>> /\ Head(sipTodo[a]) = s
  /\ sipTodo' = [sipTodo EXCEPT ![a] = Tail(@)]

\* What a request has read is gone when it returns.
Returns(a) ==
  sipSnap' = IF Len(sipTodo[a]) = 1
             THEN [sipSnap EXCEPT ![a] = NothingRead(NoSave)] ELSE sipSnap

SaveRow(a) ==
  /\ Await(a, "save")
  /\ LET table == sipSnap[a].save[1]
         n == sipSnap[a].save[2]
         new == sipSnap[a].save[3]
     IN /\ extRows' = IF table = "ext" THEN [extRows EXCEPT ![n] = new]
                                       ELSE extRows
        /\ routeRows' = IF table # "route" THEN routeRows
                        ELSE IF new = "did" THEN routeRows \cup {n}
                                            ELSE routeRows \ {n}
        /\ trunkRow' = IF table = "trunk" THEN new ELSE trunkRow
  /\ sipSnap' = [sipSnap EXCEPT ![a].save = NoSave]
  /\ UNCHANGED <<sipFiles, loaded, overlapped>>

ReadRows(a) ==
  /\ \/ Await(a, "findExts") /\ sipSnap' = [sipSnap EXCEPT ![a].exts = extRows]
     \/ Await(a, "listExts")
          /\ sipSnap' = [sipSnap EXCEPT ![a].users = Usernames(extRows)]
     \/ Await(a, "findRoutes") /\ sipSnap' = [sipSnap EXCEPT ![a].dids = routeRows]
  /\ UNCHANGED <<extRows, routeRows, trunkRow, sipFiles, loaded, overlapped>>

WroteFiles(a, module, f) ==
  /\ sipFiles' = f
  /\ loaded' = IF f = sipFiles THEN loaded
               ELSE [loaded EXCEPT ![module] = "stale"]
  /\ Returns(a)
  /\ UNCHANGED <<extRows, routeRows, trunkRow, overlapped>>

\* syncVpnAclFiles writes the files of VPN-only extensions, then removes the
\* others that it finds.
syncVpnAclFiles(a) ==
  \/ /\ Await(a, "acl")
     /\ WroteFiles(a, "pjsip", [sipFiles EXCEPT !.acl = @ \cup VpnOnly(sipSnap[a].exts)])
  \/ /\ Await(a, "unlink")
     /\ WroteFiles(a, "pjsip", [sipFiles EXCEPT !.acl = @ \cap VpnOnly(sipSnap[a].exts)])

writeExtensionsConfig(a) ==
  \/ /\ Await(a, "ext")
     /\ WroteFiles(a, "pjsip", [sipFiles EXCEPT
                      !.ext = buildExtensionsConfig(sipSnap[a].exts)])
  \/ /\ Await(a, "relay")
     /\ WroteFiles(a, "pjsip", [sipFiles EXCEPT !.relay = Usernames(sipSnap[a].exts)])

writeInboundRoutesConfig(a) ==
  /\ Await(a, "routes")
  /\ WroteFiles(a, "dialplan", buildInboundRoutesConfig(sipFiles, sipSnap[a].dids,
                                         sipSnap[a].users))

\* The trunks are read and their file written.
writeTrunksConfig(a) ==
  /\ Await(a, "trunks")
  /\ WroteFiles(a, "pjsip", [sipFiles EXCEPT !.trunks = buildTrunksConfig(trunkRow)])

\* sendAmiCommand: Asterisk reloads, or the command is refused or times out.
\* A failed reload is caught, and logged; only a trunk's request reports it,
\* as its last step.
reloadResPjsip(a) ==
  /\ Await(a, "reloadPjsip") \/ Await(a, "reloadResPjsip")
  /\ \E r \in {"current", "refused"} : loaded' = [loaded EXCEPT !.pjsip = r]
  /\ Returns(a)
  /\ UNCHANGED <<extRows, routeRows, trunkRow, sipFiles, overlapped>>

reloadDialplan(a) ==
  /\ Await(a, "reloadDialplan")
  /\ \E r \in {"current", "refused"} : loaded' = [loaded EXCEPT !.dialplan = r]
  /\ Returns(a)
  /\ UNCHANGED <<extRows, routeRows, trunkRow, sipFiles, overlapped>>

\* Faulty variant: the start does not rebuild the files.
BackendRestartsBare ==
  /\ sipTodo' = [a \in Actors |-> <<>>]
  /\ sipSnap' = [a \in Actors |-> NothingRead(NoSave)]
  /\ overlapped' = FALSE
  /\ UNCHANGED <<extRows, routeRows, trunkRow, sipFiles, loaded>>

\* The process stops anywhere and starts again.
BackendRestarts ==
  /\ sipTodo' = [a \in Actors |-> IF a = Boot THEN BootSteps ELSE <<>>]
  /\ sipSnap' = [a \in Actors |-> NothingRead(NoSave)]
  /\ overlapped' = FALSE
  /\ UNCHANGED <<extRows, routeRows, trunkRow, sipFiles, loaded>>

SipRequest ==
  \E a \in Admins :
     \/ \E n \in SipNumbers, kind \in {"none", "plain", "vpn"} :
           ExtensionSaved(a, n, kind)
     \/ \E n \in SipNumbers, add \in BOOLEAN : RouteSaved(a, n, add)
     \/ \E row \in TrunkRows :
           TrunkSaved(a, row)

SipStep ==
  \E a \in Actors :
     \/ SaveRow(a) \/ ReadRows(a) \/ syncVpnAclFiles(a)
     \/ writeExtensionsConfig(a) \/ writeInboundRoutesConfig(a)
     \/ writeTrunksConfig(a) \/ reloadResPjsip(a) \/ reloadDialplan(a)

SipNext == SipRequest \/ SipStep \/ BackendRestarts

-----------------------------------------------------------------------------

SipQuiet == \A a \in Actors : sipTodo[a] = <<>>

(* A stop between the save of a row and the last file it changes is        *)
(* repaired by the next start, and requests one after the other keep files *)
(* and rows together: with no request under way, and none overlapping      *)
(* another since the start, every file is the one its rows generate (the   *)
(* ACL of a VPN-only endpoint included), and Asterisk runs on those files  *)
(* unless it refused the last reload.                                      *)
FilesFollowRows ==
  SipQuiet /\ ~overlapped =>
     /\ sipFiles = [acl |-> VpnOnly(extRows),
                    ext |-> buildExtensionsConfig(extRows),
                    relay |-> Usernames(extRows),
                    trunks |-> buildTrunksConfig(trunkRow),
                    dial |-> Usernames(extRows), dids |-> routeRows]
     /\ loaded.pjsip # "stale" /\ loaded.dialplan # "stale"
=============================================================================
