------------------------------- MODULE Dashboard -------------------------------
(***************************************************************************)
(* The list of active calls: from telemetry.ts of Stasis, which publishes  *)
(* call and node events, over the relay and the room of the diagnostics    *)
(* gateway, to DashboardPage.tsx, which has no other source for the list.  *)
(* Redis and the socket keep the order of events; what is emitted while    *)
(* the page is not in the room, or is under way when the socket drops, is  *)
(* not sent again.                                                         *)
(***************************************************************************)
EXTENDS Naturals, Sequences

CONSTANTS
  ListedCalls,  \* calls
  MaxWire       \* bound on the events under way

NodeKinds == {"menu", "queue", "transfer"}

VARIABLES
  published,   \* per call: "none", "started", "failed", "ended": the last
               \* call event Stasis published
  lastNode,    \* per call: the node of the last timeline event, or "none"
  wireEvents,  \* events on the way to the page, in order
  room,        \* "off", "connected", "joined": the page's socket
  activeCalls, \* per call: "none", or the state it is listed with
  flashedCalls,\* calls with a flash timer
  missed       \* calls some event of which never reached the page

boardVars == <<published, lastNode, wireEvents, room, activeCalls,
               flashedCalls, missed>>

BoardInit ==
  /\ published = [c \in ListedCalls |-> "none"]
  /\ lastNode = [c \in ListedCalls |-> "none"]
  /\ wireEvents = <<>> /\ room \in {"off", "connected"}
  /\ activeCalls = [c \in ListedCalls |-> "none"]
  /\ flashedCalls = {} /\ missed = {}

\* The relay's subscriber broadcasts to the room; a publish that fails is
\* only logged.
relayEvent(e) ==
  \/ /\ room = "joined" /\ Len(wireEvents) < MaxWire
     /\ wireEvents' = Append(wireEvents, e) /\ UNCHANGED missed
  \/ /\ missed' = missed \cup {e.call} /\ UNCHANGED wireEvents

publishCallEvent(c) ==
  /\ \E type \in {"started", "failed", "ended"} :
       /\ type = "started" <=> published[c] = "none"
       /\ published' = [published EXCEPT ![c] = type]
       /\ relayEvent([call |-> c, type |-> type])
  /\ UNCHANGED <<lastNode, room, activeCalls, flashedCalls>>

\* Nodes report while the flow runs and, as "hangup", after the call.
publishNodeTelemetry(c) ==
  /\ published[c] # "none"
  /\ \E node \in NodeKinds :
       /\ lastNode' = [lastNode EXCEPT ![c] = node]
       /\ relayEvent([call |-> c, type |-> node])
  /\ UNCHANGED <<published, room, activeCalls, flashedCalls>>

handleConnect ==
  /\ room = "off" /\ room' = "connected"
  /\ UNCHANGED <<published, lastNode, wireEvents, activeCalls, flashedCalls, missed>>

\* The gateway handles call:subscribe.
handleCallSubscribe ==
  /\ room = "connected" /\ room' = "joined"
  /\ UNCHANGED <<published, lastNode, wireEvents, activeCalls, flashedCalls, missed>>

\* The rows stay on the page.
handleDisconnect ==
  /\ room # "off" /\ room' = "off"
  /\ missed' = missed \cup {wireEvents[i].call : i \in DOMAIN wireEvents}
  /\ wireEvents' = <<>>
  /\ UNCHANGED <<published, lastNode, activeCalls, flashedCalls>>

deriveState(node) ==
  CASE node = "queue" -> "QUEUED" [] node = "transfer" -> "BRIDGED"
    [] OTHER -> "IN_IVR"

Arrives(e) == wireEvents # <<>> /\ e = Head(wireEvents) /\ wireEvents' = Tail(wireEvents)

handleCallEvent ==
  /\ \E c \in ListedCalls, type \in {"started", "failed", "ended"} :
       /\ Arrives([call |-> c, type |-> type])
       /\ activeCalls' = [activeCalls EXCEPT ![c] =
                            IF type = "started" THEN "IN_IVR" ELSE "none"]
       /\ flashedCalls' = flashedCalls \cup (IF type = "started" THEN {c} ELSE {})
  /\ UNCHANGED <<published, lastNode, room, missed>>

\* Faulty variant: an event of a call that is not listed lists it
TimelineListed(c, node) == deriveState(node)

\* Only a listed call takes the node.
Timeline(c, node) ==
  IF activeCalls[c] = "none" THEN "none" ELSE deriveState(node)

handleCallTimeline ==
  /\ \E c \in ListedCalls, node \in NodeKinds :
       /\ Arrives([call |-> c, type |-> node])
       /\ activeCalls' = [activeCalls EXCEPT ![c] = Timeline(c, node)]
       /\ flashedCalls' = flashedCalls \cup {c}
  /\ UNCHANGED <<published, lastNode, room, missed>>

\* The timer of flashCall.
flashCall ==
  /\ \E c \in flashedCalls : flashedCalls' = flashedCalls \ {c}
  /\ UNCHANGED <<published, lastNode, wireEvents, room, activeCalls, missed>>

BoardNext ==
  \/ \E c \in ListedCalls : publishCallEvent(c) \/ publishNodeTelemetry(c)
  \/ handleConnect \/ handleCallSubscribe \/ handleDisconnect
  \/ handleCallEvent \/ handleCallTimeline \/ flashCall

\* The page lists exactly the calls that are up, each with the state of the
\* node it is at, once every event of the call has reached it: late node
\* events do not list a call again, and a failed call goes like an ended one.
DashboardListsCalls ==
  \A c \in ListedCalls :
    c \notin missed /\ (\A i \in DOMAIN wireEvents : wireEvents[i].call # c)
      => activeCalls[c] = IF published[c] = "started" THEN deriveState(lastNode[c])
                                                      ELSE "none"
===============================================================================
