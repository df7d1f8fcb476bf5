---------------------------- MODULE CallLifecycle ---------------------------
(***************************************************************************)
(* An inbound call from its StasisStart to its row in call_logs: the       *)
(* StasisStart and StasisEnd listeners and the graceful shutdown of        *)
(* stasis/src/index.ts, the session registry of callSession.ts, the call   *)
(* events it publishes, and the listener that writes them to the database  *)
(* (backend/src/call-logs/call-logs.listener.ts).                          *)
(*                                                                         *)
(* An action is the code between two awaits.  A channel that Asterisk hung *)
(* up refuses every request from then on, while its StasisEnd may come     *)
(* much later.  The flow itself is FlowRuntime's; here it returns, fails   *)
(* or throws at any time.  A publish may be lost (its error is caught and  *)
(* logged), and every statement of the listener may fail.  The listener's  *)
(* handlers run concurrently on pooled connections, so statements of       *)
(* events of one call execute in any order.                                *)
(***************************************************************************)
EXTENDS Naturals, FiniteSets

CONSTANT Calls      \* channels of inbound calls

VARIABLES
  chan,          \* "new", "up", "dead" (StasisEnd not yet seen), "gone"
  callPc,        \* the await at which the StasisStart listener is
  sessions,      \* activeSessions
  failedCalls,   \* failedCalls
  inboundBridge, \* calls whose session names its bridge
  bridges,       \* bridges that exist in Asterisk
  draining,      \* shutdownRequested
  exited,        \* the process has exited
  logEvents,     \* call events on their way to, or inside, the listener
  row            \* call_logs

callVars == <<chan, callPc, sessions, failedCalls, inboundBridge, bridges,
              draining, exited, logEvents, row>>

RowState ==
  [present : BOOLEAN, ended_at : BOOLEAN,
   end_reason : {"null", "completed", "failed"}]

CallInit ==
  /\ chan = [c \in Calls |-> "new"]
  /\ callPc = [c \in Calls |-> "none"]
  /\ sessions = {} /\ failedCalls = {}
  /\ inboundBridge = {} /\ bridges = {}
  /\ draining = FALSE /\ exited = FALSE
  /\ logEvents = {}
  /\ row = [c \in Calls |-> [present |-> FALSE, ended_at |-> FALSE,
                             end_reason |-> "null"]]

goto(c, pc) == callPc' = [callPc EXCEPT ![c] = pc]

At(c, pc) == ~exited /\ callPc[c] = pc

\* publishCallEvent: the event reaches the backend's listener, or Redis is
\* down and the error is caught.  A call publishes an event of a kind at
\* most once from each place, named by origin.
publishCallEvent(c, type, origin) ==
  \E lost \in BOOLEAN :
     logEvents' = IF lost THEN logEvents
                  ELSE logEvents \cup {[call |-> c, type |-> type,
                                        origin |-> origin, step |-> 1]}

(************************* the StasisStart listener ************************)

\* A channel of the inbound context enters Stasis; during a shutdown it is
\* hung up.
StasisStart(c) ==
  /\ ~exited /\ chan[c] = "new"
  /\ \/ /\ ~draining
        /\ chan' = [chan EXCEPT ![c] = "up"]
        /\ goto(c, "routing")
     \/ /\ draining
        /\ chan' = [chan EXCEPT ![c] = "dead"]
        /\ goto(c, "done")
  /\ UNCHANGED <<sessions, failedCalls, inboundBridge, bridges, draining,
                 exited, logEvents, row>>

\* The route and the flow are looked up.  With a flow the session is
\* registered and "started" published; without one the call is hung up and
\* no event is published.
RouteFound(c) ==
  /\ At(c, "routing")
  /\ sessions' = sessions \cup {c}
  /\ publishCallEvent(c, "started", "start")
  /\ goto(c, "answering")
  /\ UNCHANGED <<chan, failedCalls, inboundBridge, bridges, draining, exited,
                 row>>

NoFlow(c) ==
  /\ At(c, "routing")
  /\ chan' = [chan EXCEPT ![c] = IF @ = "up" THEN "dead" ELSE @]
  /\ goto(c, "done")
  /\ UNCHANGED <<sessions, failedCalls, inboundBridge, bridges, draining,
                 exited, logEvents, row>>

\* channel.answer: a channel that is gone refuses it, a live one may.
Answer(c) ==
  /\ At(c, "answering")
  /\ \/ chan[c] = "up" /\ goto(c, "bridging")
     \/ goto(c, "failing")
  /\ UNCHANGED <<chan, sessions, failedCalls, inboundBridge, bridges,
                 draining, exited, logEvents, row>>

\* createInboundBridge: bridges.create, then addChannel.  The session knows
\* the bridge only once both have answered.
CreateBridge(c) ==
  /\ At(c, "bridging")
  /\ \/ bridges' = bridges \cup {c} /\ goto(c, "adding")
     \/ UNCHANGED bridges /\ goto(c, "failing")
  /\ UNCHANGED <<chan, sessions, failedCalls, inboundBridge, draining,
                 exited, logEvents, row>>

\* Asterisk's answer may be read after the channel's StasisEnd.
AddChannel(c) ==
  /\ At(c, "adding")
  /\ \/ inboundBridge' = inboundBridge \cup {c} /\ goto(c, "running")
     \/ UNCHANGED inboundBridge /\ goto(c, "failing")
  /\ UNCHANGED <<chan, sessions, failedCalls, bridges, draining, exited,
                 logEvents, row>>

\* runFlow publishes the outcome itself and returns it, or throws.
FlowReturns(c) ==
  /\ At(c, "running")
  /\ \/ publishCallEvent(c, "ended", "flow") /\ goto(c, "done")
     \/ publishCallEvent(c, "failed", "flow") /\ goto(c, "flowFailed")
     \/ UNCHANGED logEvents /\ goto(c, "failing")
  /\ UNCHANGED <<chan, sessions, failedCalls, inboundBridge, bridges,
                 draining, exited, row>>

FlowFailed(c) ==
  /\ At(c, "flowFailed")
  /\ failedCalls' = failedCalls \cup {c}
  /\ goto(c, "done")
  /\ UNCHANGED <<chan, sessions, inboundBridge, bridges, draining, exited,
                 logEvents, row>>

\* The catch block: publish, destroy the bridge, hang up, drop the session.
CatchPublish(c) ==
  /\ At(c, "failing")
  /\ failedCalls' = failedCalls \cup {c}
  /\ publishCallEvent(c, "failed", "catch")
  /\ goto(c, "unbridging")
  /\ UNCHANGED <<chan, sessions, inboundBridge, bridges, draining, exited,
                 row>>

CatchUnbridge(c) ==
  /\ At(c, "unbridging")
  /\ bridges' = IF c \in inboundBridge THEN bridges \ {c} ELSE bridges
  /\ inboundBridge' = inboundBridge \ {c}
  /\ goto(c, "hanging")
  /\ UNCHANGED <<chan, sessions, failedCalls, draining, exited, logEvents,
                 row>>

\* Faulty variant: the catch block that leaves the session to StasisEnd
CatchHangupKeepsSession(c) ==
  /\ At(c, "hanging")
  /\ chan' = [chan EXCEPT ![c] = IF @ = "up" THEN "dead" ELSE @]
  /\ goto(c, "done")
  /\ UNCHANGED <<sessions, failedCalls, inboundBridge, bridges, draining,
                 exited, logEvents, row>>

CatchHangup(c) ==
  /\ At(c, "hanging")
  /\ chan' = [chan EXCEPT ![c] = IF @ = "up" THEN "dead" ELSE @]
  /\ sessions' = sessions \ {c}
  /\ goto(c, "done")
  /\ UNCHANGED <<failedCalls, inboundBridge, bridges, draining, exited,
                 logEvents, row>>

(*************************** the end of a channel **************************)

\* The caller, or a node of the flow, hangs up.
HangUp(c) ==
  /\ chan[c] = "up"
  /\ chan' = [chan EXCEPT ![c] = "dead"]
  /\ UNCHANGED <<callPc, sessions, failedCalls, inboundBridge, bridges,
                 draining, exited, logEvents, row>>

\* The StasisEnd listener: without a session it does nothing; with one it
\* destroys the bridge, publishes "ended" unless the flow has failed, and
\* drops the session.
StasisEnd(c) ==
  /\ ~exited /\ chan[c] = "dead"
  /\ chan' = [chan EXCEPT ![c] = "gone"]
  /\ IF c \notin sessions
     THEN UNCHANGED <<sessions, failedCalls, bridges, logEvents>>
     ELSE /\ sessions' = sessions \ {c}
          /\ failedCalls' = failedCalls \ {c}
          /\ bridges' = IF c \in inboundBridge THEN bridges \ {c} ELSE bridges
          /\ IF c \in failedCalls THEN UNCHANGED logEvents
             ELSE publishCallEvent(c, "ended", "end")
  /\ UNCHANGED <<callPc, inboundBridge, draining, exited, row>>

(**************************** graceful shutdown ****************************)

GracefulShutdown ==
  /\ ~draining
  /\ draining' = TRUE
  /\ UNCHANGED <<chan, callPc, sessions, failedCalls, inboundBridge, bridges,
                 exited, logEvents, row>>

\* The drain ends when no session is left, or at its deadline; the process
\* exits and its memory is gone.
DrainEnds ==
  /\ draining /\ ~exited
  /\ exited' = TRUE
  /\ sessions' = {} /\ failedCalls' = {}
  /\ UNCHANGED <<chan, callPc, inboundBridge, bridges, draining, logEvents,
                 row>>

(************************* the call-logs listener **************************)

Consumed(e) == logEvents' = logEvents \ {e}

\* INSERT ... ON CONFLICT DO NOTHING
handleCallStarted(e) ==
  /\ e.type = "started"
  /\ row' = IF row[e.call].present THEN row
            ELSE [row EXCEPT ![e.call].present = TRUE]
  /\ Consumed(e)

\* The first UPDATE writes the end of an open row.
handleCallEndedAt(e) ==
  /\ e.type = "ended" /\ e.step = 1
  /\ row' = IF row[e.call].present
            THEN [row EXCEPT ![e.call].ended_at = TRUE] ELSE row
  /\ logEvents' = (logEvents \ {e}) \cup {[e EXCEPT !.step = 2]}

\* The second completes a row without a reason.
handleCallEndedReason(e) ==
  /\ e.type = "ended" /\ e.step = 2
  /\ row' = IF row[e.call].present /\ row[e.call].end_reason = "null"
            THEN [row EXCEPT ![e.call].end_reason = "completed"] ELSE row
  /\ Consumed(e)

\* Faulty variant: the upsert without its WHERE ended_at IS NULL
handleCallFailedAlways(e) ==
  /\ e.type = "failed"
  /\ row' = [row EXCEPT ![e.call] = [present |-> TRUE, ended_at |-> TRUE,
                                     end_reason |-> "failed"]]
  /\ Consumed(e)

\* An upsert that touches no row with an end.
handleCallFailed(e) ==
  /\ e.type = "failed"
  /\ row' = IF row[e.call].ended_at THEN row
            ELSE [row EXCEPT ![e.call] = [present |-> TRUE, ended_at |-> TRUE,
                                          end_reason |-> "failed"]]
  /\ Consumed(e)

\* A statement fails; the error is logged and the event forgotten.
handlerFails(e) == Consumed(e) /\ UNCHANGED row

HandleCallEvent(e) ==
  /\ \/ handleCallStarted(e)
     \/ handleCallEndedAt(e)
     \/ handleCallEndedReason(e)
     \/ handleCallFailed(e)
     \/ handlerFails(e)
  /\ UNCHANGED <<chan, callPc, sessions, failedCalls, inboundBridge, bridges,
                 draining, exited>>

ListenerStep(c) ==
  \/ RouteFound(c) \/ NoFlow(c) \/ Answer(c)
  \/ CreateBridge(c) \/ AddChannel(c) \/ FlowFailed(c)
  \/ CatchPublish(c) \/ CatchUnbridge(c) \/ CatchHangup(c)

CallNext ==
  \/ \E c \in Calls :
        StasisStart(c) \/ ListenerStep(c) \/ FlowReturns(c) \/ HangUp(c)
          \/ StasisEnd(c)
  \/ GracefulShutdown \/ DrainEnds
  \/ \E e \in logEvents : HandleCallEvent(e)

-----------------------------------------------------------------------------

(* The call log keeps the promise of CallRecord: the listener's three      *)
(* statements, interleaved for events that are lost, doubled (runFlow and  *)
(* StasisEnd both publish "ended") or out of order, open and close a       *)
(* record once and never let a failed call become a completed one, nor a   *)
(* closed one fail.                                                        *)
Record ==
  INSTANCE CallRecord WITH
    RecordedCalls <- Calls,
    closed <- {c \in Calls : row[c].ended_at},
    outcome <- [c \in Calls |->
                  IF ~row[c].present THEN "absent"
                  ELSE IF row[c].end_reason = "null" THEN "open"
                  ELSE row[c].end_reason]

CallLogRecords == Record!RecordSpec

(* A session that is left when its call is over was registered too late,    *)
(* and belongs to a listener that cannot answer the call any more and is on *)
(* its way through the catch block, which drops it: nobody else would.      *)
SessionsHeard ==
  \A c \in sessions :
    chan[c] = "gone" => callPc[c] \in {"answering", "failing", "unbridging", "hanging"}

(* A session is registered only after the lookups, possibly after the      *)
(* call's StasisEnd; still no session outlives its call, so a drain never  *)
(* waits for a call that is over.                                          *)
SessionEnds == \A c \in Calls : (chan[c] = "gone") ~> (c \notin sessions)
=============================================================================
