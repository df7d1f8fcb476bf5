------------------------------- MODULE Transfer -------------------------------
(***************************************************************************)
(* The transfer node (executeTransfer in stasis/src/nodes/index.ts), its   *)
(* waiter (transferManager.ts) and the transfer branches of StasisStart,   *)
(* StasisEnd and ChannelDestroyed in index.ts.                             *)
(*                                                                         *)
(* The waiter is registered before the originate; the listeners that hang  *)
(* up a ringing leg when the caller leaves are added after its answer, and *)
(* those that tear both legs down after the bridge is complete.  As in     *)
(* Hunt, an awaited promise that is settled continues before any event.    *)
(* Every request of the node may fail or lose its answer, and must fail    *)
(* when its channel or bridge is gone; the catch returns and hangs up      *)
(* nobody.  Hangups are taken to succeed.                                  *)
(***************************************************************************)
EXTENDS Naturals

VARIABLES
  trPc,
  trIn,        \* the caller's channel
  trOut,       \* the called party's
  ownBridge,   \* the session has no bridge yet: the node creates one
  trBridge,    \* the bridge exists
  trWaiter,    \* "none", "set", or the result
  ringWatch,   \* the onInboundEndedWhileRinging listeners are on
  legWatch,    \* the onTransferLegEnded listeners are on
  legEnded,    \* what waitForChannelEnd resolved with
  trLate,      \* the leg entered Stasis when nobody waited for it
  trRefused,   \* a request failed while the caller was there
  trResult

trVars == <<trPc, trIn, trOut, ownBridge, trBridge, trWaiter, ringWatch,
            legWatch, legEnded, trLate, trRefused, trResult>>

TransferInit ==
  /\ trPc = "start" /\ trIn = "up" /\ trOut = "none"
  /\ ownBridge \in BOOLEAN /\ trBridge = ~ownBridge
  /\ trWaiter = "none" /\ ringWatch = FALSE /\ legWatch = FALSE
  /\ legEnded = "none" /\ trLate = FALSE
  /\ trRefused = FALSE /\ trResult = "none"

Hang(leg) == CASE leg \in {"up", "in"} -> "dead"
               [] leg \in {"ringing", "picked"} -> "gone"
               [] OTHER -> leg

TransferReturns(r) ==
  trPc' = "returned" /\ trResult' = r /\ ringWatch' = FALSE

\* A request of the node throws: the catch takes on_no_answer or a hangup.
RequestFails ==
  TransferReturns("noAnswer") /\ trRefused' = (trRefused \/ trIn = "up")

\* The target resolves to no dial string: hang up.
NoDialString == TransferReturns("hangup") /\ UNCHANGED trWaiter

\* The waiter is registered before the sounds are looked up.
registerTransferWaiter ==
  /\ trPc = "start"
  /\ \/ NoDialString
     \/ trWaiter' = "set" /\ trPc' = "originate"
        /\ UNCHANGED <<trResult, ringWatch>>
  /\ UNCHANGED <<trIn, trOut, ownBridge, trBridge, legWatch, legEnded, trLate, trRefused>>

\* The answer to the originate, then hold music; a looped waiting sound is
\* not waited for.
HoldCaller ==
  /\ trPc = "originate"
  /\ \/ /\ trOut # "none"
        /\ ringWatch' = TRUE
        /\ trPc' = "hold" /\ UNCHANGED <<trResult, trRefused>>
     \/ RequestFails
  /\ UNCHANGED <<trIn, trOut, ownBridge, trBridge, trWaiter, legWatch,
                 legEnded, trLate>>

\* The wait begins: what the waiter holds already is taken at once.
AwaitAnswer ==
  /\ trPc = "hold"
  /\ \/ /\ trPc' = CASE trWaiter = "set" -> "wait"
                     [] trWaiter = "answered" -> "join"
                     [] OTHER -> "noAnswer"
        /\ ringWatch' = (trWaiter = "set")
        /\ UNCHANGED <<trResult, trRefused>>
     \/ RequestFails
  /\ UNCHANGED <<trIn, trOut, ownBridge, trBridge, trWaiter, legWatch,
                 legEnded, trLate>>

\* How the executor goes on when the waiter gets the result r.
SettleTransfer(r) ==
  /\ trWaiter' = r
  /\ IF trPc = "wait"
     THEN /\ trPc' = IF r = "answered" THEN "join" ELSE "noAnswer"
          /\ ringWatch' = FALSE
     ELSE UNCHANGED <<trPc, ringWatch>>

\* The wait times out.  The leg is left to the originate's own timeout.
TransferTimeout ==
  /\ trPc = "wait" /\ trWaiter = "set"
  /\ SettleTransfer("rejected")
  /\ UNCHANGED <<trIn, trOut, ownBridge, trBridge, legWatch, legEnded, trLate,
                 trResult, trRefused>>

\* The no-answer sound is played, then on_no_answer or a hangup.
NoAnswer ==
  /\ trPc = "noAnswer"
  /\ TransferReturns("noAnswer")
  /\ UNCHANGED <<trIn, trOut, ownBridge, trBridge, trWaiter, legWatch,
                 legEnded, trLate, trRefused>>

(* The session's bridge is used, or one is created for the caller; then    *)
(* the leg is added.                                                       *)
JoinBridge ==
  /\ \/ /\ trPc = "join" /\ ownBridge
        /\ trBridge' = TRUE
        /\ trPc' = "addCaller" /\ UNCHANGED <<trResult, ringWatch, trRefused>>
     \/ /\ \/ trPc = "join" /\ ~ownBridge
           \/ trPc = "addCaller" /\ trIn = "up" /\ trBridge
        /\ trPc' = "addOut" /\ UNCHANGED <<trBridge, trResult, ringWatch, trRefused>>
     \/ /\ trPc = "addOut" /\ trOut = "in" /\ trBridge
        /\ trPc' = "record" /\ UNCHANGED <<trBridge, trResult, ringWatch, trRefused>>
     \/ /\ trPc \in {"addCaller", "addOut"} \/ (trPc = "join" /\ ownBridge)
        /\ RequestFails /\ UNCHANGED trBridge
  /\ UNCHANGED <<trIn, trOut, ownBridge, trWaiter, legWatch, legEnded, trLate>>

\* The recording, if any, is started and the listeners for both legs are
\* added.
WatchLegs ==
  /\ trPc = "record"
  /\ \/ /\ legWatch' = TRUE
        /\ trPc' = "talk" /\ UNCHANGED <<trResult, ringWatch, trRefused>>
     \/ RequestFails /\ UNCHANGED legWatch
  /\ UNCHANGED <<trIn, trOut, ownBridge, trBridge, trWaiter, legEnded, trLate>>

\* A leg has ended: the survivor is hung up, and hung up again here.  When
\* the recording cannot be saved the node ends as if nobody had answered.
Teardown ==
  /\ trPc = "talk" /\ legEnded # "none"
  /\ legWatch' = FALSE
  /\ trOut' = IF legEnded = "in" THEN Hang(trOut) ELSE trOut
  /\ trIn' = IF legEnded = "out" THEN Hang(trIn) ELSE trIn
  /\ \E r \in {"done", "noAnswer"} : TransferReturns(r)
  /\ UNCHANGED <<ownBridge, trBridge, trWaiter, legEnded, trLate, trRefused>>

(****************************** the channels *******************************)

TransferRings ==
  /\ \/ trPc = "originate" /\ trOut = "none" /\ trOut' = "ringing"
     \/ trOut = "ringing" /\ trOut' \in {"picked", "gone"}
  /\ UNCHANGED <<trPc, trIn, ownBridge, trBridge, trWaiter, ringWatch,
                 legWatch, legEnded, trLate, trResult, trRefused>>

(* StasisStart of the leg resolves the waiter; without one nothing is done *)
(* and the leg stays.                                                      *)
TransferLegEnters ==
  /\ trOut = "picked"
  /\ trOut' = "in"
  /\ trLate' = (trWaiter # "set")
  /\ IF trWaiter = "set" THEN SettleTransfer("answered")
     ELSE UNCHANGED <<trWaiter, trPc, ringWatch>>
  /\ UNCHANGED <<trIn, ownBridge, trBridge, legWatch, legEnded, trResult, trRefused>>

TransferPartyLeaves ==
  /\ \/ trIn = "up" /\ trIn' = "dead" /\ UNCHANGED trOut
     \/ trOut = "in" /\ trOut' = "dead" /\ UNCHANGED trIn
  /\ UNCHANGED <<trPc, ownBridge, trBridge, trWaiter, ringWatch, legWatch,
                 legEnded, trLate, trResult, trRefused>>

(* The caller's end: the event loop's own handler rejects the waiter, then *)
(* the node's listener hangs up the leg that rings; in a call, the leg is  *)
(* torn down.                                                              *)
TransferCallerEnds ==
  /\ trIn = "dead"
  /\ trIn' = "gone"
  /\ IF trWaiter = "set" THEN SettleTransfer("rejected")
     ELSE UNCHANGED <<trWaiter, trPc, ringWatch>>
  /\ trOut' = IF ringWatch \/ (legWatch /\ legEnded = "none") THEN Hang(trOut)
              ELSE trOut
  /\ legEnded' = IF legWatch /\ legEnded = "none" THEN "in" ELSE legEnded
  /\ UNCHANGED <<ownBridge, trBridge, legWatch, trLate, trResult, trRefused>>

\* destroyInboundBridge, later in the same handler
TransferBridgeGoes ==
  /\ trIn = "gone" /\ trBridge
  /\ trBridge' = FALSE
  /\ UNCHANGED <<trPc, trIn, trOut, ownBridge, trWaiter, ringWatch, legWatch,
                 legEnded, trLate, trResult, trRefused>>

TransferLegEnds ==
  /\ trOut = "dead"
  /\ trOut' = "gone"
  /\ trIn' = IF legWatch /\ legEnded = "none" THEN Hang(trIn) ELSE trIn
  /\ legEnded' = IF legWatch /\ legEnded = "none" THEN "out" ELSE legEnded
  /\ UNCHANGED <<trPc, ownBridge, trBridge, trWaiter, ringWatch, legWatch,
                 trLate, trResult, trRefused>>

TransferExecutor ==
  \/ registerTransferWaiter \/ HoldCaller \/ AwaitAnswer \/ TransferTimeout
  \/ NoAnswer \/ JoinBridge \/ WatchLegs \/ Teardown

TransferNext ==
  \/ TransferExecutor \/ TransferRings \/ TransferLegEnters
  \/ TransferPartyLeaves \/ TransferCallerEnds \/ TransferBridgeGoes
  \/ TransferLegEnds

-----------------------------------------------------------------------------

(* A transfer that connected ends for both parties.  It leaves the called  *)
(* party on a live channel only if that party answered when nobody waited  *)
(* any more, the caller left before the legs were joined, or a request of  *)
(* the node failed: the catch of executeTransfer does not hang it up.      *)
TransferLegsReleased ==
  trPc = "returned" =>
    /\ legEnded # "none" => trIn # "up" /\ trOut # "in"
    /\ trOut = "in" => trLate \/ trIn # "up" \/ trRefused
=============================================================================
