--------------------------------- MODULE Vpn ---------------------------------
(***************************************************************************)
(* backend/src/vpn/vpn.service.ts: the peers of the built-in WireGuard     *)
(* server, and the relay tunnel, whose activation and deactivation run in  *)
(* the background after the request was accepted and share a state file,   *)
(* a container, routes of the host and the transport address of Asterisk.  *)
(* Commands in containers and requests to Docker may fail at any step; the *)
(* backend may stop at any step.                                           *)
(***************************************************************************)
EXTENDS Naturals, FiniteSets

CONSTANTS HostNumbers,   \* host parts of the addresses of the VPN's subnet
          VpnRequests    \* requests about peers, or for a relay config, at a time

VARIABLES
  vpnUp,       \* the built-in WireGuard container runs
  peerRow,     \* address -> "free", "active" or "revoked" (a row keeps its
               \* address, which is UNIQUE in vpn_peers)
  livePeers,   \* addresses WireGuard routes to a peer
  peerConf,    \* whose configuration the file holds (the peers have one name,
               \* which need not be unique, and so one file)
  earlyRevoke, \* addresses revoked before their createPeer had ended (history)
  peerReq,     \* request -> [pc, ip]
  keyFiles,    \* the request that generated the stored private and public key
  keyReq,      \* request -> the key files it has yet to write
  relayState,  \* the state file
  relayRun,    \* the relay's container runs
  relayRoute,  \* route and SNAT rule of the host are in place
  relayAddr,   \* Asterisk's transport announces the VPS address
  relayTasks,  \* background tasks under way: kind -> next step
  relayMixed   \* two tasks have overlapped since one started alone (history)

peerVars == <<vpnUp, peerRow, livePeers, peerConf, earlyRevoke, peerReq>>
keyVars == <<keyFiles, keyReq>>
relayVars == <<relayState, relayRun, relayRoute, relayAddr, relayTasks, relayMixed>>
vpnVars == <<peerVars, keyVars, relayVars>>

NoPeer == 0
NoReq == [pc |-> "none", ip |-> NoPeer]
NoKey == "none"

VpnInit ==
  /\ vpnUp = TRUE
  /\ peerRow = [i \in HostNumbers |-> "free"]
  /\ livePeers = {} /\ peerConf = NoPeer /\ earlyRevoke = {}
  /\ peerReq = [r \in VpnRequests |-> NoReq]
  /\ keyFiles = [private |-> NoKey, public |-> NoKey]
  /\ keyReq = [r \in VpnRequests |-> {}]
  /\ relayState = [active |-> FALSE, transitioning |-> FALSE, error |-> FALSE]
  /\ relayRun = FALSE /\ relayRoute = FALSE /\ relayAddr = FALSE
  /\ relayTasks = [activate |-> "none", deactivate |-> "none"]
  /\ relayMixed = FALSE

(********************************** peers **********************************)

\* The lowest address without a row, revoked rows included.
nextAvailableIp ==
  LET free == {i \in HostNumbers : peerRow[i] = "free"}
  IN {i \in free : \A j \in free : i <= j}

PeerGoto(r, pc, ip) == peerReq' = [peerReq EXCEPT ![r] = [pc |-> pc, ip |-> ip]]
PeerReturns(r) == peerReq' = [peerReq EXCEPT ![r] = NoReq]

\* requireInstalled: the container or the interface is up.
requireInstalled == vpnUp

\* createPeer: choose the address (generateKeyPair runs meanwhile), save the
\* row, add the peer to WireGuard, write its configuration.  A failure ends
\* the request and undoes nothing.
createPeer(r) ==
  /\ peerReq[r].pc = "none" /\ requireInstalled
  /\ \E i \in nextAvailableIp : PeerGoto(r, "save", i)
  /\ UNCHANGED <<vpnUp, peerRow, livePeers, peerConf, earlyRevoke>>

SavePeer(r) ==
  /\ peerReq[r].pc = "save"
  /\ LET i == peerReq[r].ip IN
     IF peerRow[i] = "free"
     THEN peerRow' = [peerRow EXCEPT ![i] = "active"] /\ PeerGoto(r, "add", i)
     ELSE UNCHANGED peerRow /\ PeerReturns(r)
  /\ UNCHANGED <<vpnUp, livePeers, peerConf, earlyRevoke>>

addLivePeer(r) ==
  /\ peerReq[r].pc = "add"
  /\ \/ /\ vpnUp
        /\ livePeers' = livePeers \cup {peerReq[r].ip}
        /\ PeerGoto(r, "conf", peerReq[r].ip)
     \/ UNCHANGED livePeers /\ PeerReturns(r)
  /\ UNCHANGED <<vpnUp, peerRow, peerConf, earlyRevoke>>

\* buildPeerConfig needs the server's public key, which the container knows.
writePeerConfig(r) ==
  /\ peerReq[r].pc = "conf"
  /\ \/ vpnUp /\ peerConf' = peerReq[r].ip
     \/ UNCHANGED peerConf
  /\ PeerReturns(r)
  /\ UNCHANGED <<vpnUp, peerRow, livePeers, earlyRevoke>>

\* revokePeer: a live row; first WireGuard forgets the peer, then the row is
\* marked and the configuration removed.
revokePeer(r, i) ==
  /\ peerReq[r].pc = "none" /\ peerRow[i] = "active"
  /\ PeerGoto(r, "forget", i)
  /\ earlyRevoke' = IF \E q \in VpnRequests : peerReq[q] = [pc |-> "add", ip |-> i]
                    THEN earlyRevoke \cup {i} ELSE earlyRevoke
  /\ UNCHANGED <<vpnUp, peerRow, livePeers, peerConf>>

\* Faulty variant: a failure to remove the peer is ignored.
removeLivePeerQuietly(r) ==
  /\ peerReq[r].pc = "forget"
  /\ \E done \in BOOLEAN :
        livePeers' = IF done THEN livePeers \ {peerReq[r].ip} ELSE livePeers
  /\ PeerGoto(r, "mark", peerReq[r].ip)
  /\ UNCHANGED <<vpnUp, peerRow, peerConf, earlyRevoke>>

removeLivePeer(r) ==
  /\ peerReq[r].pc = "forget"
  /\ \/ /\ vpnUp
        /\ livePeers' = livePeers \ {peerReq[r].ip}
        /\ PeerGoto(r, "mark", peerReq[r].ip)
     \/ UNCHANGED livePeers /\ PeerReturns(r)
  /\ UNCHANGED <<vpnUp, peerRow, peerConf, earlyRevoke>>

MarkRevoked(r) ==
  /\ peerReq[r].pc = "mark"
  /\ peerRow' = [peerRow EXCEPT ![peerReq[r].ip] = "revoked"]
  /\ PeerGoto(r, "unlink", peerReq[r].ip)
  /\ UNCHANGED <<vpnUp, livePeers, peerConf, earlyRevoke>>

removePeerConfig(r) ==
  /\ peerReq[r].pc = "unlink"
  /\ peerConf' = NoPeer /\ PeerReturns(r)
  /\ UNCHANGED <<vpnUp, peerRow, livePeers, earlyRevoke>>

\* removeVpn stops and removes the container with its peers; Docker refusing
\* the removal leaves it stopped.
removeVpn ==
  /\ vpnUp' = FALSE /\ livePeers' = {}
  /\ UNCHANGED <<peerRow, peerConf, earlyRevoke, peerReq>>

\* External: the administrator starts WireGuard again, without peers.
VpnStarts ==
  /\ ~vpnUp /\ vpnUp' = TRUE
  /\ UNCHANGED <<peerRow, livePeers, peerConf, earlyRevoke, peerReq>>

PeerNext ==
  /\ \/ \E r \in VpnRequests :
           \/ createPeer(r) \/ SavePeer(r) \/ addLivePeer(r) \/ writePeerConfig(r)
           \/ \E i \in HostNumbers : revokePeer(r, i)
           \/ removeLivePeer(r) \/ MarkRevoked(r) \/ removePeerConfig(r)
     \/ removeVpn \/ VpnStarts
  /\ UNCHANGED <<keyVars, relayVars>>

(***************************** the relay's keys ****************************)

\* A pair is used if both files hold a key, whether or not they match.
readRelayKeyPair == \A f \in DOMAIN keyFiles : keyFiles[f] # NoKey

\* createRelayConfig with no stored pair: a pair is generated and its two
\* files are written side by side.
ensureRelayKeyPair(r) ==
  /\ keyReq[r] = {} /\ ~readRelayKeyPair
  /\ keyReq' = [keyReq EXCEPT ![r] = DOMAIN keyFiles]
  /\ UNCHANGED keyFiles

WriteRelayKey(r, f) ==
  /\ f \in keyReq[r]
  /\ keyFiles' = [keyFiles EXCEPT ![f] = r]
  /\ keyReq' = [keyReq EXCEPT ![r] = @ \ {f}]

createRelayConfig ==
  /\ \E r \in VpnRequests :
        ensureRelayKeyPair(r) \/ \E f \in DOMAIN keyFiles : WriteRelayKey(r, f)
  /\ UNCHANGED <<peerVars, relayVars>>

(********************************* the relay *******************************)

writeRelayState(active, transitioning, error) ==
  relayState' = [active |-> active, transitioning |-> transitioning,
                 error |-> error]

StartTask(kind, step) ==
  /\ relayTasks[kind] = "none"
  /\ relayTasks' = [relayTasks EXCEPT ![kind] = step]
  /\ relayMixed' = (\E k \in DOMAIN relayTasks : relayTasks[k] # "none")

\* The peers WireGuard lists; none if it cannot be asked.
readWireGuardDump == {livePeers, {}}

\* Refused while the built-in VPN is known to have peers; then the state file
\* is written and the background task started.
ensureRelayConflictFree == vpnUp => \E dump \in readWireGuardDump : dump = {}

activateRelayTunnel ==
  /\ ensureRelayConflictFree
  /\ StartTask("activate", "clear")
  /\ writeRelayState(FALSE, TRUE, FALSE)
  /\ UNCHANGED <<relayRun, relayRoute, relayAddr>>

deactivateRelayTunnel ==
  /\ StartTask("deactivate", "unroute")
  /\ writeRelayState(TRUE, TRUE, FALSE)
  /\ UNCHANGED <<relayRun, relayRoute, relayAddr>>

OnStep(kind, step, next) ==
  /\ relayTasks[kind] = step
  /\ relayTasks' = [relayTasks EXCEPT ![kind] = next]
  /\ UNCHANGED relayMixed

\* What getRelayStatus calls active, and so the address Asterisk announces.
ReportedActive ==
  IF relayState.transitioning THEN relayState.active
  ELSE ~relayState.error /\ relayState.active /\ relayRun

\* Container cleared (with the configuration written), created and started.
ClearRelay(kind, step, next) ==
  /\ OnStep(kind, step, next) /\ relayRun' = FALSE
  /\ UNCHANGED <<relayState, relayRoute, relayAddr>>

StartRelay ==
  /\ OnStep("activate", "start", "route") /\ relayRun' = TRUE
  /\ UNCHANGED <<relayState, relayRoute, relayAddr>>

\* The host's route and SNAT rule, found from the container's network: with no
\* container activation fails, and deactivation leaves the route.
RouteRelay ==
  \/ /\ OnStep("activate", "route", "state") /\ relayRun
     /\ relayRoute' = TRUE
     /\ UNCHANGED <<relayState, relayRun, relayAddr>>
  \/ /\ OnStep("deactivate", "unroute", "stop")
     /\ relayRoute' = (relayRoute /\ ~relayRun)
     /\ UNCHANGED <<relayState, relayRun, relayAddr>>

SettleRelay(kind, active) ==
  /\ OnStep(kind, "state", "sync") /\ writeRelayState(active, FALSE, FALSE)
  /\ UNCHANGED <<relayRun, relayRoute, relayAddr>>

\* Asterisk's transport and endpoint overrides, from the reported status.
AnnounceRelay(kind) ==
  /\ OnStep(kind, "sync", "none") /\ relayAddr' = ReportedActive
  /\ UNCHANGED <<relayState, relayRun, relayRoute>>

runActivateBackground ==
  \/ ClearRelay("activate", "clear", "start") \/ StartRelay
  \/ SettleRelay("activate", TRUE) \/ AnnounceRelay("activate")

runDeactivateBackground ==
  \/ ClearRelay("deactivate", "stop", "state")
  \/ SettleRelay("deactivate", FALSE) \/ AnnounceRelay("deactivate")

\* Faulty variant: the error is only logged.
RelayTaskFailsQuietly ==
  /\ \E k \in DOMAIN relayTasks :
        /\ relayTasks[k] # "none"
        /\ relayTasks' = [relayTasks EXCEPT ![k] = "none"]
  /\ writeRelayState(relayState.active, FALSE, FALSE)
  /\ UNCHANGED <<relayRun, relayRoute, relayAddr, relayMixed>>

\* A step fails: the task writes the error and ends where it is.
RelayTaskFails ==
  /\ \E k \in DOMAIN relayTasks :
        /\ relayTasks[k] # "none"
        /\ relayTasks' = [relayTasks EXCEPT ![k] = "none"]
  /\ writeRelayState(FALSE, FALSE, TRUE)
  /\ UNCHANGED <<relayRun, relayRoute, relayAddr, relayMixed>>

RelayNext ==
  /\ \/ activateRelayTunnel \/ deactivateRelayTunnel
     \/ runActivateBackground \/ runDeactivateBackground \/ RouteRelay
     \/ RelayTaskFails
  /\ UNCHANGED <<peerVars, keyVars>>

\* The backend stops; its requests and tasks are gone, and nothing at its
\* start ends a transition.
VpnBackendStops ==
  /\ peerReq' = [r \in VpnRequests |-> NoReq]
  /\ keyReq' = [r \in VpnRequests |-> {}]
  /\ relayTasks' = [k \in DOMAIN relayTasks |-> "none"]
  /\ UNCHANGED <<vpnUp, peerRow, livePeers, peerConf, earlyRevoke, keyFiles,
                 relayState, relayRun, relayRoute, relayAddr, relayMixed>>

VpnNext == PeerNext \/ createRelayConfig \/ RelayNext \/ VpnBackendStops

-----------------------------------------------------------------------------

(* A revoked peer has lost its access, however creations, revocations,     *)
(* failing commands and stops interleave, unless it was revoked while its  *)
(* own createPeer had yet to add it to WireGuard.                          *)
RevokedPeersGone ==
  \A i \in HostNumbers :
     peerRow[i] = "revoked" /\ i \notin earlyRevoke => i \notin livePeers

(* A settled state file without an error tells the truth: with no task     *)
(* under way, and after tasks that did not overlap, an active relay has    *)
(* its container and its route, an inactive one no container.  A failed or *)
(* interrupted task leaves an error or a transition, not a false answer.   *)
RelayStateTrue ==
  /\ \A k \in DOMAIN relayTasks : relayTasks[k] = "none"
  /\ ~relayMixed /\ ~relayState.error /\ ~relayState.transitioning
  => IF relayState.active THEN relayRun /\ relayRoute
                          ELSE ~relayRun
=============================================================================
