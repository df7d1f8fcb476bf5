------------------------------- MODULE Capture -------------------------------
(***************************************************************************)
(* SIP packets from the wire to the page: the capture sidecar that runs    *)
(* tshark and writes the Redis stream, the backend's relay that reads the  *)
(* stream, broadcasts and stores each packet (diagnostics.gateway,         *)
(* capture.service), and the capture page.  Packets are numbered in the    *)
(* order of the wire; their contents are left out.                         *)
(***************************************************************************)
EXTENDS Naturals, Sequences, FiniteSets, SequencesExt

CONSTANTS MaxPackets,  \* bound: packets on the wire
          StreamLen,   \* SIP_CAPTURE_MAXLEN, and what the page keeps
          MaxBoots     \* bound: restarts of the backend

ASSUME CaptureAssumption == MaxPackets \in Nat /\ StreamLen \in Nat

VARIABLES wire,        \* packets seen so far
          tshark,      \* "up", "down" (its restart timer runs) or "stopped"
          writing,     \* packet -> "add" or "trim": the redis-cli process it waits for
          stream,      \* entries of the stream: [id, packet]
          lastEntry,   \* the identifier of the last entry added
          relayUp,     \* captureLoopRunning
          cursor,      \* captureLastId, or AtEnd for '$'
          asked,       \* the identifier the pending XREAD reads after
          batch,       \* entries read and not yet handled
          packetRows,  \* packet -> its rows in sip_packets
          page,        \* the packets shown, newest first
          paused,      \* the page shows no more
          boots

captureVars == <<wire, tshark, writing, stream, lastEntry, relayUp, cursor, asked, batch, packetRows, page, paused, boots>>

PacketIds == 1..MaxPackets
AtEnd == 1000000
Written == "done"

CaptureInit ==
  /\ wire = 0 /\ tshark = "up" /\ writing = [p \in PacketIds |-> Written]
  /\ stream = <<>> /\ lastEntry = 0
  /\ relayUp = TRUE /\ cursor = AtEnd /\ asked = 0 /\ batch = <<>>
  /\ packetRows = [p \in PacketIds |-> 0]
  /\ page = <<>> /\ paused = FALSE /\ boots = 0

PageKeeps(s) == SubSeq(s, 1, IF Len(s) > StreamLen THEN StreamLen ELSE Len(s))

\* The stream after XTRIM.
Trimmed(s) == SubSeq(s, IF Len(s) > StreamLen THEN Len(s) - StreamLen + 1 ELSE 1, Len(s))

(********************************* sidecar *********************************)

\* A line of tshark that parseSipPacket accepts (it names a call) starts a
\* write of its own: the writes of two packets may overtake each other.
parseSipPacket ==
  /\ tshark = "up" /\ wire < MaxPackets
  /\ wire' = wire + 1
  /\ \/ writing' = [writing EXCEPT ![wire + 1] = "add"]
     \/ UNCHANGED writing
  /\ UNCHANGED <<tshark, stream, lastEntry, relayUp, cursor, asked, batch, packetRows, page, paused, boots>>

\* writePacket: XADD, then XTRIM; redis-cli failing ends it.
writePacket(p) ==
  /\ \/ /\ writing[p] = "add"
        /\ \/ /\ stream' = Append(stream, [id |-> lastEntry + 1, packet |-> p])
              /\ lastEntry' = lastEntry + 1
              /\ writing' = [writing EXCEPT ![p] = "trim"]
           \/ writing' = [writing EXCEPT ![p] = Written] /\ UNCHANGED <<stream, lastEntry>>
     \/ /\ writing[p] = "trim"
        /\ stream' = Trimmed(stream) /\ UNCHANGED lastEntry
        /\ writing' = [writing EXCEPT ![p] = Written]
  /\ UNCHANGED <<wire, tshark, relayUp, cursor, asked, batch, packetRows, page, paused, boots>>

\* tshark ends and is started again after the delay.
TsharkCloses ==
  /\ \/ tshark = "up" /\ tshark' = "down"
     \/ tshark = "down" /\ tshark' = "up"
  /\ UNCHANGED <<wire, writing, stream, lastEntry, relayUp, cursor, asked, batch, packetRows, page, paused, boots>>

\* A signal ends the sidecar; a restart timer finds it shutting down.
shutdown ==
  /\ tshark # "stopped" /\ tshark' = "stopped"
  /\ UNCHANGED <<wire, writing, stream, lastEntry, relayUp, cursor, asked, batch, packetRows, page, paused, boots>>

(********************************** relay **********************************)

\* XREAD answers with the entries after the point it was given.
ReadStream ==
  /\ relayUp /\ batch = <<>>
  /\ \E k \in DOMAIN stream :
       /\ \A i \in DOMAIN stream : stream[i].id > asked <=> i >= k
       /\ batch' = SubSeq(stream, k, Len(stream))
  /\ UNCHANGED <<wire, tshark, writing, stream, lastEntry, relayUp, cursor, asked, packetRows, page, paused, boots>>

\* Before the first answer a command that times out is given '$' again, the
\* end of the stream by then: entries added in between are passed over.
ReadTimesOut ==
  /\ relayUp /\ batch = <<>> /\ cursor = AtEnd
  /\ asked' = lastEntry
  /\ UNCHANGED <<wire, tshark, writing, stream, lastEntry, relayUp, cursor, batch, packetRows, page, paused, boots>>

Show(p) == page' = IF paused THEN page ELSE PageKeeps(<<p>> \o page)

\* The cursor moves, the packet is broadcast and stored; a failing INSERT is
\* logged.
persistPacket ==
  /\ relayUp /\ batch # <<>>
  /\ LET e == Head(batch)
     IN /\ cursor' = e.id /\ asked' = e.id
        /\ Show(e.packet)
        /\ \/ packetRows' = [packetRows EXCEPT ![e.packet] = @ + 1]
           \/ UNCHANGED packetRows
  /\ batch' = Tail(batch)
  /\ UNCHANGED <<wire, tshark, writing, stream, lastEntry, relayUp, paused, boots>>

\* Faulty variant: the relay begins at the oldest entry.
RelayRestartsAtZero ==
  /\ boots < MaxBoots /\ boots' = boots + 1
  /\ relayUp' = TRUE /\ cursor' = 0 /\ asked' = 0 /\ batch' = <<>>
  /\ UNCHANGED <<wire, tshark, writing, stream, lastEntry, packetRows, page, paused>>

\* The backend restarts, and Redis may not answer it: then the relay is off
\* until the next restart.
initializeCaptureRelay ==
  /\ boots < MaxBoots /\ boots' = boots + 1
  /\ relayUp' \in BOOLEAN /\ cursor' = AtEnd /\ asked' = lastEntry /\ batch' = <<>>
  /\ UNCHANGED <<wire, tshark, writing, stream, lastEntry, packetRows, page, paused>>

(********************************** page ***********************************)

\* A subscription replays the stream to the page, whatever it already shows.
replayCapture(shown) == PageKeeps(Reverse([i \in DOMAIN stream |-> stream[i].packet]) \o shown)

handleCaptureSubscribe ==
  /\ relayUp /\ ~paused
  /\ page' = replayCapture(page)
  /\ UNCHANGED <<wire, tshark, writing, stream, lastEntry, relayUp, cursor, asked, batch, packetRows, paused, boots>>

PauseOrResume ==
  /\ paused' = ~paused
  /\ UNCHANGED <<wire, tshark, writing, stream, lastEntry, relayUp, cursor, asked, batch, packetRows, page, boots>>

\* A past call's packets replace what is shown, if there are any, and the
\* page pauses.
ShowPast(ps) == paused' = TRUE /\ page' = IF ps = {} THEN page ELSE SetToSeq(ps)

findPacketsByCallId ==
  \E ps \in SUBSET {p \in PacketIds : packetRows[p] > 0} :
     /\ ShowPast(ps)
     /\ UNCHANGED <<wire, tshark, writing, stream, lastEntry, relayUp, cursor, asked, batch, packetRows, boots>>

CaptureNext ==
  \/ parseSipPacket \/ (\E p \in PacketIds : writePacket(p)) \/ TsharkCloses \/ shutdown
  \/ ReadStream \/ ReadTimesOut \/ persistPacket \/ initializeCaptureRelay
  \/ handleCaptureSubscribe \/ PauseOrResume \/ findPacketsByCallId

-----------------------------------------------------------------------------
(* No packet is stored twice, however writes overtake each other and the   *)
(* backend restarts: what was read before a restart is not read after it.  *)
(* The stream grows past its length only by the writes under way.          *)
PacketStoredOnce ==
  /\ \A p \in PacketIds : packetRows[p] <= 1
  /\ Len(stream) <= StreamLen + Cardinality({p \in PacketIds : writing[p] = "trim"})
=============================================================================
