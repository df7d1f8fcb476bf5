--------------------------- MODULE DirectOutbound ---------------------------
(***************************************************************************)
(* A direct outbound call (#number), stasis/src/index.ts: the dial handler *)
(* (handleDirectOutboundDial, waitForDirectOutboundAnswer), the waiter of  *)
(* directOutboundManager.ts, the StasisStart of the outbound leg, the end  *)
(* events of both legs, and cleanupDirectOutboundCall, which any of them   *)
(* may start and which runs once.                                          *)
(*                                                                         *)
(* dialPc and cleanPc are the awaits of the handler and of the cleanup.  A *)
(* leg Asterisk has hung up ("dead") refuses requests; its end event comes *)
(* later ("gone").  Any ARI request may be refused.                        *)
(***************************************************************************)
EXTENDS Naturals, FiniteSets

VARIABLES
  inLeg,       \* the caller's channel
  outLeg,      \* "none", "ringing", "picked" (StasisStart not yet seen), "up"
  dialPc,
  doWaiter,    \* "none", "set", then the result: "answered" or "rejected"
  tracked,     \* the legs in directOutboundCalls
  call,        \* the fields of the call the cleanup reads
  doBridge,    \* the bridge exists in Asterisk
  cleanPc,
  ending,      \* endingChannelId of the cleanup
  doEvents     \* call events published, in order of kind

dialVars == <<inLeg, outLeg, dialPc, doWaiter, tracked, call, doBridge,
              cleanPc, ending, doEvents>>

Hung(l) == l \in {"dead", "gone"}

HangLeg(l) == IF l \in {"up", "ringing", "picked"} THEN "dead" ELSE l

DialInit ==
  /\ inLeg = "up" /\ outLeg = "none"
  /\ dialPc = "lookup" /\ doWaiter = "none"
  /\ tracked = {}
  /\ call = [bridgeId |-> FALSE, outboundChannelId |-> FALSE,
             answeredAt |-> FALSE, cleanupStarted |-> FALSE, blind |-> FALSE]
  /\ doBridge = FALSE
  /\ cleanPc = "none" /\ ending = "none"
  /\ doEvents = [started |-> 0, ended |-> 0, failed |-> 0]

\* Faulty variant: no cleanupStarted guard
StartCleanupAgain(leg) ==
  /\ call' = [call EXCEPT !.cleanupStarted = TRUE,
                          !.blind = ~call.outboundChannelId]
  /\ tracked' = {}
  /\ cleanPc' = "bridge"
  /\ ending' = leg

(* The start of cleanupDirectOutboundCall: guard, untrack.  The field      *)
(* blind only records that the outbound leg was not known by then.         *)
StartCleanup(leg) ==
  IF call.cleanupStarted THEN UNCHANGED <<call, tracked, cleanPc, ending>>
  ELSE /\ call' = [call EXCEPT !.cleanupStarted = TRUE,
                               !.blind = ~call.outboundChannelId]
       /\ tracked' = {}
       /\ cleanPc' = "bridge"
       /\ ending' = leg

(**************************** the dial handler *****************************)

\* Settings and trunk are read.  A bad destination, a failed lookup or no
\* trunk hang up; otherwise the call is tracked and announced
\* (publishDirectOutboundStarted).
Lookup ==
  /\ dialPc = "lookup"
  /\ \/ /\ inLeg' = HangLeg(inLeg)
        /\ dialPc' = "done"
        /\ UNCHANGED <<tracked, doEvents>>
     \/ /\ tracked' = {"in"}
        /\ doEvents' = [doEvents EXCEPT !.started = @ + 1]
        /\ dialPc' = "format"
        /\ UNCHANGED inLeg
  /\ UNCHANGED <<outLeg, doWaiter, call, doBridge, cleanPc, ending>>

\* Redis has answered.  A number the dial format refuses starts the cleanup,
\* a valid one registers the waiter and originates.
FormatNumber ==
  /\ dialPc = "format"
  /\ \/ /\ StartCleanup("none")
        /\ dialPc' = "done"
        /\ UNCHANGED doWaiter
     \/ /\ doWaiter' = "set"
        /\ dialPc' = "originate"
        /\ UNCHANGED <<call, tracked, cleanPc, ending>>
  /\ UNCHANGED <<inLeg, outLeg, doBridge, doEvents>>

\* originate is answered or refused; Asterisk may have connected the leg
\* before its answer is read.
OriginateSent ==
  /\ dialPc = "originate" /\ outLeg = "none"
  /\ outLeg' = "ringing"
  /\ UNCHANGED <<inLeg, dialPc, doWaiter, tracked, call, doBridge, cleanPc,
                 ending, doEvents>>

OriginateAnswered ==
  /\ dialPc = "originate"
  /\ \/ outLeg # "none" /\ UNCHANGED doWaiter
     \/ /\ outLeg = "none"
        /\ doWaiter' = IF doWaiter = "set" THEN "rejected" ELSE doWaiter
  /\ dialPc' = "wait"
  /\ UNCHANGED <<inLeg, outLeg, tracked, call, doBridge, cleanPc, ending,
                 doEvents>>

WaitTimesOut ==
  /\ dialPc = "wait" /\ doWaiter = "set"
  /\ doWaiter' = "rejected"
  /\ UNCHANGED <<inLeg, outLeg, dialPc, tracked, call, doBridge, cleanPc,
                 ending, doEvents>>

\* Not answered: clean up.  Answered: record and track the outbound leg.
WaitResult ==
  /\ dialPc = "wait"
  /\ \/ /\ doWaiter = "rejected"
        /\ StartCleanup("none")
        /\ dialPc' = "done"
     \/ /\ doWaiter = "answered"
        /\ call' = [call EXCEPT !.answeredAt = TRUE, !.outboundChannelId = TRUE]
        /\ tracked' = tracked \cup {"out"}
        /\ dialPc' = "bridge"
        /\ UNCHANGED <<cleanPc, ending>>
  /\ UNCHANGED <<inLeg, outLeg, doWaiter, doBridge, doEvents>>

\* createDirectOutboundBridge: create, add the caller, add the callee.  A
\* refusal starts the cleanup, which does not know of the bridge.
BridgeRefused ==
  /\ dialPc \in {"bridge", "addIn", "addOut"}
  /\ StartCleanup("none")
  /\ dialPc' = "done"
  /\ UNCHANGED <<inLeg, outLeg, doWaiter, doBridge, doEvents>>

BridgeStep ==
  /\ \/ /\ dialPc = "bridge"
        /\ doBridge' = TRUE /\ dialPc' = "addIn" /\ UNCHANGED call
     \/ /\ dialPc = "addIn" /\ ~Hung(inLeg)
        /\ dialPc' = "addOut" /\ UNCHANGED <<doBridge, call>>
     \/ /\ dialPc = "addOut" /\ ~Hung(outLeg)
        /\ call' = [call EXCEPT !.bridgeId = TRUE]
        /\ dialPc' = "record" /\ UNCHANGED doBridge
  /\ UNCHANGED <<inLeg, outLeg, doWaiter, tracked, cleanPc, ending, doEvents>>

\* startBridgeRecording, when recording is on, is the last request.
RecordStarted ==
  /\ dialPc = "record"
  /\ dialPc' = "done"
  /\ \/ UNCHANGED <<call, tracked, cleanPc, ending>>
     \/ StartCleanup("none")
  /\ UNCHANGED <<inLeg, outLeg, doWaiter, doBridge, doEvents>>

(****************************** the channels *******************************)

\* The callee answers or the originate times out in Asterisk.
OutboundMoves ==
  /\ outLeg = "ringing"
  /\ outLeg' \in {"picked", "gone"}
  /\ UNCHANGED <<inLeg, dialPc, doWaiter, tracked, call, doBridge, cleanPc,
                 ending, doEvents>>

\* StasisStart of the outbound leg: without a waiter it is hung up.
OutboundEnters ==
  /\ outLeg = "picked"
  /\ \/ /\ doWaiter = "set"
        /\ doWaiter' = "answered" /\ outLeg' = "up"
     \/ /\ doWaiter # "set"
        /\ outLeg' = "dead" /\ UNCHANGED doWaiter
  /\ UNCHANGED <<inLeg, dialPc, tracked, call, doBridge, cleanPc, ending,
                 doEvents>>

PartyHangsUp ==
  /\ \/ inLeg = "up" /\ inLeg' = "dead" /\ UNCHANGED outLeg
     \/ outLeg = "up" /\ outLeg' = "dead" /\ UNCHANGED inLeg
  /\ UNCHANGED <<dialPc, doWaiter, tracked, call, doBridge, cleanPc, ending,
                 doEvents>>

\* StasisEnd and ChannelDestroyed of the caller reject the waiter, and
\* clean up a tracked call.
InboundEnds ==
  /\ inLeg = "dead"
  /\ inLeg' = "gone"
  /\ doWaiter' = IF doWaiter = "set" THEN "rejected" ELSE doWaiter
  /\ IF "in" \in tracked THEN StartCleanup("in")
     ELSE UNCHANGED <<call, tracked, cleanPc, ending>>
  /\ UNCHANGED <<outLeg, dialPc, doBridge, doEvents>>

OutboundEnds ==
  /\ outLeg = "dead"
  /\ outLeg' = "gone"
  /\ IF "out" \in tracked THEN StartCleanup("out")
     ELSE UNCHANGED <<call, tracked, cleanPc, ending>>
  /\ UNCHANGED <<inLeg, dialPc, doWaiter, doBridge, doEvents>>

(******************************* the cleanup *******************************)

CleanBridge ==
  /\ cleanPc = "bridge"
  /\ doBridge' = (doBridge /\ ~call.bridgeId)
  /\ call' = [call EXCEPT !.bridgeId = FALSE]
  /\ cleanPc' = "hangup"
  /\ UNCHANGED <<inLeg, outLeg, dialPc, doWaiter, tracked, ending, doEvents>>

\* Faulty variant: the cleanup forgets the outbound leg
CleanHangupCaller ==
  /\ cleanPc = "hangup"
  /\ inLeg' = IF ending # "in" THEN HangLeg(inLeg) ELSE inLeg
  /\ cleanPc' = "publish"
  /\ UNCHANGED <<outLeg, dialPc, doWaiter, tracked, call, doBridge, ending,
                 doEvents>>

\* Every known leg but the one that ended is hung up.
CleanHangup ==
  /\ cleanPc = "hangup"
  /\ inLeg' = IF ending # "in" THEN HangLeg(inLeg) ELSE inLeg
  /\ outLeg' = IF ending # "out" /\ call.outboundChannelId
               THEN HangLeg(outLeg) ELSE outLeg
  /\ cleanPc' = "publish"
  /\ UNCHANGED <<dialPc, doWaiter, tracked, call, doBridge, ending, doEvents>>

CleanPublish ==
  /\ cleanPc = "publish"
  /\ doEvents' = IF call.answeredAt
                 THEN [doEvents EXCEPT !.ended = @ + 1]
                 ELSE [doEvents EXCEPT !.failed = @ + 1]
  /\ cleanPc' = "done"
  /\ UNCHANGED <<inLeg, outLeg, dialPc, doWaiter, tracked, call, doBridge,
                 ending>>

DialHandler ==
  \/ Lookup \/ FormatNumber \/ OriginateSent \/ OriginateAnswered
  \/ WaitTimesOut \/ WaitResult \/ BridgeRefused \/ BridgeStep
  \/ RecordStarted

DialCleanup == CleanBridge \/ CleanHangup \/ CleanPublish

DirectNext ==
  \/ DialHandler \/ DialCleanup
  \/ OutboundMoves \/ OutboundEnters \/ PartyHangsUp
  \/ InboundEnds \/ OutboundEnds

-----------------------------------------------------------------------------

(* Once the handler and the cleanup are done no leg stays up in Stasis,    *)
(* unless the cleanup had started before the outbound leg was recorded     *)
(* (blind): then a leg that answers afterwards is left up.                 *)
DirectLegsReleased ==
  dialPc = "done" /\ cleanPc = "done" /\ ~call.blind
    => inLeg # "up" /\ outLeg # "up"

(* No call gets two outcomes, whichever of the handler, the hangups of both *)
(* legs, the timeout and a failed bridge reach the cleanup and in whatever  *)
(* order, and none that was not announced gets one; and nobody forgets one: *)
(* when the caller has gone and the handler and the cleanup are over, an    *)
(* announced call has its outcome.                                          *)
DirectOneOutcome ==
  LET outcomes == doEvents.ended + doEvents.failed IN
  /\ outcomes <= doEvents.started
  /\ dialPc = "done" /\ inLeg = "gone" /\ cleanPc \in {"none", "done"}
       => outcomes = doEvents.started

(* A caller who has gone ends an announced call with one outcome for good, *)
(* however the hangups of both legs, the timeout and a failed bridge race: *)
(* never none, never ended and failed both, never two of a kind.           *)
DirectCallSettles ==
  (doEvents.started = 1 /\ inLeg = "gone")
    ~> [](doEvents.ended + doEvents.failed = 1)
=============================================================================
