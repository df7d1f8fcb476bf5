--------------------------------- MODULE Hunt ---------------------------------
(***************************************************************************)
(* The hunt node (stasis/src/nodes/hunt.executor.ts, huntManager.ts and    *)
(* the hunt branch of StasisStart in index.ts).  The strategies sequential,*)
(* order and random dial one destination after the other, group dials them *)
(* all and waits until every attempt has settled.  Every attempt has its   *)
(* own leg and its own token, under which a waiter is registered.          *)
(*                                                                         *)
(* A channel that was hung up ("dead") is "gone" once its end event was    *)
(* handled; the end of the caller also takes the session's bridge away, a  *)
(* step later.  A promise that is settled while it is awaited continues at *)
(* once: no event comes between.  Every request may fail or lose its       *)
(* answer; addChannel fails when the leg or the bridge is no longer there. *)
(* Hangups are taken to succeed.                                           *)
(***************************************************************************)
EXTENDS Naturals, FiniteSets

CONSTANT HuntLegs    \* the attempts: each dials one destination

VARIABLES
  strategy,     \* "group" or "sequential"
  huntPc,
  huntIn,       \* the caller's channel
  huntBridge,   \* the session's bridge exists
  huntLeg,      \* the channel of each attempt
  legUp,        \* its state, as last reported, is Up
  att,          \* captureOriginatedChannel, per attempt
  huntWaiter,   \* "none", "set", or the result
  terminated,   \* inboundTerminated of each attempt
  winner,       \* the leg finalizeAnswer was called with
  endSeen,      \* what waitForChannelEnd resolved with
  huntResult

huntVars == <<strategy, huntPc, huntIn, huntBridge, huntLeg, legUp, att,
              huntWaiter, terminated, winner, endSeen, huntResult>>

Settled == {"answered", "failed", "hangup"}

inboundEnded == huntIn = "gone"

HuntInit ==
  /\ strategy \in {"group", "sequential"}
  /\ huntPc = "start" /\ huntIn = "up" /\ huntBridge = TRUE
  /\ huntLeg = [l \in HuntLegs |-> "none"]
  /\ legUp = [l \in HuntLegs |-> FALSE]
  /\ att = [l \in HuntLegs |-> "none"]
  /\ huntWaiter = [l \in HuntLegs |-> "none"]
  /\ terminated = [l \in HuntLegs |-> FALSE]
  /\ winner = "none" /\ endSeen = "none" /\ huntResult = "none"

HungUp(legs) ==
  [l \in HuntLegs |->
     IF l \notin legs THEN huntLeg[l]
     ELSE CASE huntLeg[l] = "in" -> "dead"
            [] huntLeg[l] \in {"ringing", "picked"} -> "gone"
            [] OTHER -> huntLeg[l]]

pendingChannels == {l \in HuntLegs : att[l] = "answered"}

HuntReturns(r) == huntPc' = "returned" /\ huntResult' = r

\* No destination resolves to a dial string, or there is no bridge.
NoDestinations == HuntReturns("noAnswer") /\ UNCHANGED <<att, huntWaiter>>

(* executeHunt up to the first attempt: without a destination the node is  *)
(* over.  In a group every destination is dialled at once.                 *)
executeHunt ==
  /\ huntPc = "start"
  /\ \/ NoDestinations
     \/ /\ strategy = "sequential"
        /\ huntPc' = "loop" /\ UNCHANGED <<att, huntWaiter, huntResult>>
     \/ /\ strategy = "group"
        /\ att' = [l \in HuntLegs |-> "originate"]
        /\ huntWaiter' = [l \in HuntLegs |-> "set"]
        /\ huntPc' = "dialing" /\ UNCHANGED huntResult
  /\ UNCHANGED <<strategy, huntIn, huntBridge, huntLeg, legUp, terminated,
                 winner, endSeen>>

\* The head of the sequential loop: the next destination, while there is time.
NextDestination ==
  /\ huntPc = "loop"
  /\ \/ /\ ~inboundEnded
        /\ \E l \in HuntLegs :
             /\ att[l] = "none"
             /\ att' = [att EXCEPT ![l] = "originate"]
             /\ huntWaiter' = [huntWaiter EXCEPT ![l] = "set"]
        /\ huntPc' = "dialing" /\ UNCHANGED huntResult
     \/ /\ inboundEnded /\ HuntReturns("hangup")
        /\ UNCHANGED <<att, huntWaiter>>
     \/ /\ HuntReturns("noAnswer") \* totalTimeoutMs is over
        /\ UNCHANGED <<att, huntWaiter>>
  /\ UNCHANGED <<strategy, huntIn, huntBridge, huntLeg, legUp, terminated,
                 winner, endSeen>>

(* What the executor does when the attempts have settled as att2: bridge   *)
(* the answer of a single attempt; in a group wait for the others, then    *)
(* take a leg that is up, or wait for one.                                 *)
AfterAttempts(att2, up2) ==
  LET answered == {l \in HuntLegs : att2[l] = "answered"} IN
  IF \E l \in HuntLegs : att2[l] \in {"originate", "wait"}
  THEN UNCHANGED <<huntPc, winner>>
  ELSE IF answered = {}
  THEN huntPc' = "unanswered" /\ UNCHANGED winner
  ELSE IF strategy = "sequential" \/ \E l \in answered : up2[l]
  THEN /\ winner' \in {l \in answered : strategy = "sequential" \/ up2[l]}
       /\ huntPc' = "finalize"
  ELSE huntPc' = "waitUp" /\ UNCHANGED winner

\* How an attempt ends when its waiter has the result r.
AttemptOutcome(r, term) == IF term THEN "hangup"
                    ELSE IF r = "answered" THEN "answered" ELSE "failed"

\* originate answers, or fails; the waiter may be settled by then.
captureOriginatedChannel(l) ==
  /\ att[l] = "originate"
  /\ \/ /\ huntLeg[l] # "none"
        /\ att' = [att EXCEPT ![l] =
                     IF huntWaiter[l] = "set" THEN "wait"
                     ELSE AttemptOutcome(huntWaiter[l], terminated[l])]
        /\ UNCHANGED huntWaiter
     \/ /\ huntWaiter' = [huntWaiter EXCEPT ![l] =
                            IF huntWaiter[l] = "set" THEN "rejected" ELSE @]
        /\ att' = [att EXCEPT ![l] = AttemptOutcome("rejected", terminated[l])]
  /\ AfterAttempts(att', legUp)
  /\ UNCHANGED <<strategy, huntIn, huntBridge, huntLeg, legUp, terminated,
                 endSeen, huntResult>>

AttemptTimeout(l) ==
  /\ att[l] = "wait" /\ huntWaiter[l] = "set"
  /\ huntWaiter' = [huntWaiter EXCEPT ![l] = "rejected"]
  /\ att' = [att EXCEPT ![l] = AttemptOutcome("rejected", terminated[l])]
  /\ AfterAttempts(att', legUp)
  /\ UNCHANGED <<strategy, huntIn, huntBridge, huntLeg, legUp, terminated,
                 endSeen, huntResult>>

(****************************** the channels *******************************)

\* Asterisk rings the destination, which answers or not.
HuntLegMoves(l) ==
  /\ \/ /\ att[l] = "originate" /\ huntLeg[l] = "none"
        /\ huntLeg' = [huntLeg EXCEPT ![l] = "ringing"]
     \/ /\ huntLeg[l] = "ringing"
        /\ huntLeg' \in {[huntLeg EXCEPT ![l] = x] : x \in {"picked", "gone"}}
  /\ UNCHANGED <<strategy, huntPc, huntIn, huntBridge, legUp, att, huntWaiter,
                 terminated, winner, endSeen, huntResult>>

(* StasisStart of a leg: without a waiter it is an orphan and is hung up.  *)
HuntLegEnters(l) ==
  /\ huntLeg[l] = "picked"
  /\ IF huntWaiter[l] # "set"
     THEN /\ huntLeg' = [huntLeg EXCEPT ![l] = "dead"]
          /\ UNCHANGED <<huntPc, winner, att, huntWaiter, legUp>>
     ELSE /\ huntLeg' = [huntLeg EXCEPT ![l] = "in"]
          /\ \E up \in BOOLEAN : legUp' = [legUp EXCEPT ![l] = up]
          /\ huntWaiter' = [huntWaiter EXCEPT ![l] = "answered"]
          /\ IF att[l] = "wait"
             THEN /\ att' = [att EXCEPT ![l] = AttemptOutcome("answered", FALSE)]
                  /\ AfterAttempts(att', legUp')
             ELSE UNCHANGED <<att, huntPc, winner>>
  /\ UNCHANGED <<strategy, huntIn, huntBridge, terminated, endSeen, huntResult>>

\* ChannelStateChange, which waitForFirstAnswerOrAllDone listens to.
LegReportedUp(l) ==
  /\ huntLeg[l] = "in" /\ ~legUp[l]
  /\ legUp' = [legUp EXCEPT ![l] = TRUE]
  /\ IF huntPc = "waitUp" /\ l \in pendingChannels
     THEN winner' = l /\ huntPc' = "finalize"
     ELSE UNCHANGED <<winner, huntPc>>
  /\ UNCHANGED <<strategy, huntIn, huntBridge, huntLeg, att, huntWaiter,
                 terminated, endSeen, huntResult>>

HuntPartyLeaves ==
  /\ \/ huntIn = "up" /\ huntIn' = "dead" /\ UNCHANGED huntLeg
     \/ /\ \E l \in HuntLegs : /\ huntLeg[l] = "in"
                               /\ huntLeg' = [huntLeg EXCEPT ![l] = "dead"]
        /\ UNCHANGED huntIn
  /\ UNCHANGED <<strategy, huntPc, huntBridge, legUp, att, huntWaiter,
                 terminated, winner, endSeen, huntResult>>

HuntWatching == huntPc \in {"finalize", "add", "record", "talk"} /\ endSeen = "none"

(* The caller's end: the listeners of the open attempts reject their       *)
(* waiters.                                                                *)
CallerEnds ==
  LET open == {l \in HuntLegs : att[l] \in {"originate", "wait"}} IN
  /\ huntIn = "dead"
  /\ huntIn' = "gone"
  /\ terminated' = [l \in HuntLegs |-> terminated[l] \/ l \in open]
  /\ huntWaiter' = [l \in HuntLegs |->
       IF l \in open /\ huntWaiter[l] = "set" THEN "rejected"
       ELSE huntWaiter[l]]
  /\ att' = [l \in HuntLegs |-> IF att[l] = "wait" THEN "hangup" ELSE att[l]]
  /\ endSeen' = IF HuntWatching THEN "in" ELSE endSeen
  /\ IF huntPc = "waitUp" THEN huntPc' = "cancel" /\ UNCHANGED winner
     ELSE IF att' # att THEN AfterAttempts(att', legUp)
     ELSE UNCHANGED <<huntPc, winner>>
  /\ UNCHANGED <<strategy, huntBridge, huntLeg, legUp, huntResult>>

\* destroyInboundBridge, in the handler of the caller's StasisEnd
BridgeGoes ==
  /\ huntIn = "gone" /\ huntBridge
  /\ huntBridge' = FALSE
  /\ UNCHANGED <<strategy, huntPc, huntIn, huntLeg, legUp, att, huntWaiter,
                 terminated, winner, endSeen, huntResult>>

HuntLegEnds(l) ==
  /\ huntLeg[l] = "dead"
  /\ huntLeg' = [huntLeg EXCEPT ![l] = "gone"]
  /\ endSeen' = IF HuntWatching /\ l = winner THEN "out" ELSE endSeen
  /\ huntPc' = IF huntPc = "waitUp"
                  /\ \A k \in pendingChannels : huntLeg'[k] = "gone"
               THEN "giveUp" ELSE huntPc
  /\ UNCHANGED <<strategy, huntIn, huntBridge, legUp, att, huntWaiter,
                 terminated, winner, huntResult>>

(****************************** the outcomes *******************************)

\* No attempt was answered.  A sequential hunt hangs up the leg it dialled
\* and goes on while it can.
HuntUnanswered ==
  /\ huntPc = "unanswered"
  /\ \/ /\ strategy = "group"
        /\ HuntReturns("noAnswer") /\ UNCHANGED huntLeg
     \/ /\ strategy = "sequential"
        /\ huntLeg' = HungUp({l \in HuntLegs : att[l] # "none"})
        /\ IF inboundEnded \/ \E l \in HuntLegs : att[l] = "hangup"
           THEN HuntReturns("hangup")
           ELSE huntPc' = "loop" /\ UNCHANGED huntResult
  /\ UNCHANGED <<strategy, huntIn, huntBridge, legUp, att, huntWaiter,
                 terminated, winner, endSeen>>

\* The wait for a leg to come up was cancelled, failed or timed out.
HuntGivesUp ==
  /\ huntPc \in {"waitUp", "cancel", "giveUp"}
  /\ huntLeg' = HungUp(pendingChannels)
  /\ HuntReturns(IF huntPc = "cancel" \/ inboundEnded THEN "hangup" ELSE "noAnswer")
  /\ UNCHANGED <<strategy, huntIn, huntBridge, legUp, att, huntWaiter,
                 terminated, winner, endSeen>>

\* finalizeAnswer: the hold is over, the other answered legs are hung up
finalizeAnswer ==
  /\ huntPc = "finalize"
  /\ huntLeg' = HungUp(pendingChannels \ {winner})
  /\ huntPc' = "add"
  /\ UNCHANGED <<strategy, huntIn, huntBridge, legUp, att, huntWaiter,
                 terminated, winner, endSeen, huntResult>>

\* A failure is caught: the answered leg is hung up.
AddToBridge ==
  /\ huntPc = "add"
  /\ \/ /\ huntLeg[winner] = "in" /\ huntBridge
        /\ huntPc' = "record" /\ UNCHANGED <<huntLeg, huntResult>>
     \/ /\ huntLeg' = HungUp({winner})
        /\ HuntReturns(IF inboundEnded THEN "hangup" ELSE "noAnswer")
  /\ UNCHANGED <<strategy, huntIn, huntBridge, legUp, att, huntWaiter,
                 terminated, winner, endSeen>>

\* beginNodeRecording may throw, with the same result.
RecordHunt ==
  /\ huntPc = "record"
  /\ \/ huntPc' = "talk" /\ UNCHANGED <<huntLeg, huntResult>>
     \/ /\ huntLeg' = HungUp({winner})
        /\ HuntReturns(IF inboundEnded THEN "hangup" ELSE "noAnswer")
  /\ UNCHANGED <<strategy, huntIn, huntBridge, legUp, att, huntWaiter,
                 terminated, winner, endSeen>>

\* Faulty variant: whoever remains is not hung up.
TalkEndsQuietly ==
  /\ huntPc = "talk" /\ endSeen # "none"
  /\ HuntReturns("done")
  /\ UNCHANGED <<strategy, huntIn, huntBridge, huntLeg, legUp, att, huntWaiter,
                 terminated, winner, endSeen>>

\* When the recording cannot be saved the node ends as not answered.
TalkEnds ==
  /\ huntPc = "talk" /\ endSeen # "none"
  /\ huntLeg' = IF endSeen = "in" THEN HungUp({winner}) ELSE huntLeg
  /\ huntIn' = IF endSeen = "out" /\ huntIn = "up" THEN "dead" ELSE huntIn
  /\ \/ HuntReturns("done")
     \/ HuntReturns(IF inboundEnded THEN "hangup" ELSE "noAnswer")
  /\ UNCHANGED <<strategy, huntBridge, legUp, att, huntWaiter, terminated,
                 winner, endSeen>>

HuntExecutor ==
  \/ executeHunt \/ NextDestination \/ HuntUnanswered \/ HuntGivesUp \/ finalizeAnswer
  \/ AddToBridge \/ RecordHunt \/ TalkEnds
  \/ \E l \in HuntLegs : captureOriginatedChannel(l) \/ AttemptTimeout(l)

HuntChannels ==
  \/ HuntPartyLeaves \/ CallerEnds \/ BridgeGoes
  \/ \E l \in HuntLegs :
       HuntLegMoves(l) \/ HuntLegEnters(l) \/ LegReportedUp(l) \/ HuntLegEnds(l)

HuntNext == HuntExecutor \/ HuntChannels

-----------------------------------------------------------------------------

(* The node leaves no called party behind: once executeHunt has returned   *)
(* no leg stays in Stasis, whatever the order of answers, timeouts,        *)
(* hangups, failed requests and the caller's end.  The exceptions are the  *)
(* group legs that answered before the answer to their originate was read, *)
(* when that request failed or the caller had ended by then: the attempt   *)
(* reports failed or hangup and drops the channel.                         *)
HuntLegsReleased ==
  huntPc = "returned" =>
    /\ huntResult = "done" => huntIn # "up"
    /\ \A l \in HuntLegs :
         huntLeg[l] = "in" => /\ strategy = "group"
                              /\ huntWaiter[l] = "answered"
                              /\ att[l] = "hangup" => inboundEnded
                              /\ att[l] \in {"failed", "hangup"}
=============================================================================
