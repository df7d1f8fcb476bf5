------------------------------- MODULE TrunkTest -----------------------------
(***************************************************************************)
(* A test call over a trunk.  The backend (trunks.service.ts) publishes a  *)
(* request under a fresh id and polls a Redis key for its status; Stasis   *)
(* (index.ts) originates a channel, follows it in testCallStates and       *)
(* writes the key.  The channel's events may be handled before the answer  *)
(* to the originate is read: that answer then stores the state afresh, as  *)
(* not answered, and nobody may be left to remove it.                      *)
(***************************************************************************)
EXTENDS Naturals

VARIABLES
  testType,    \* "outbound" or "inbound"
  testPc,      \* the subscription's handler
  playPc,      \* runOutboundTestPlayback, in the channel's StasisStart
  testChan,    \* "none", "ringing", "up", "dead", "left" (StasisEnd), "gone"
  testState,   \* the channel's entry of testCallStates
  testStatus,  \* the Redis key; "null" when it is absent or has expired
  testEvents   \* the kinds of call events published

testVars == <<testType, testPc, playPc, testChan, testState, testStatus,
              testEvents>>

TestInit ==
  /\ testType \in {"outbound", "inbound"}
  /\ testPc = "idle" /\ playPc = "none"
  /\ testChan = "none" /\ testState = "none"
  /\ testStatus = "null" /\ testEvents = {}

\* testOutbound, testInbound: the trunk exists, the number is valid, and the
\* request is published; nobody may be subscribed.
testCallRequested ==
  /\ testPc = "idle"
  /\ testPc' \in {"received", "lost"}
  /\ UNCHANGED <<testType, playPc, testChan, testState, testStatus,
                 testEvents>>

\* getTestCallStatus: what the page that polls is told.
getTestCallStatus == IF testStatus = "null" THEN "failed" ELSE testStatus

setTrunkTestStatus(s) == testStatus' = s

Dialing ==
  /\ testPc = "received"
  /\ setTrunkTestStatus("dialing")
  /\ testPc' = "originate"
  /\ UNCHANGED <<testType, playPc, testChan, testState, testEvents>>

\* Asterisk creates the channel, or refuses.
ChannelCreated ==
  /\ testPc = "originate" /\ testChan = "none"
  /\ testChan' = "ringing"
  /\ UNCHANGED <<testType, testPc, playPc, testState, testStatus, testEvents>>

OriginateRead ==
  /\ testPc = "originate"
  /\ \/ /\ testChan # "none"
        /\ testState' = "unanswered"
        /\ UNCHANGED testStatus
     \/ /\ testChan = "none"
        /\ setTrunkTestStatus("failed")
        /\ UNCHANGED testState
  /\ testPc' = "done"
  /\ UNCHANGED <<testType, playPc, testChan, testEvents>>

\* StasisStart: an outbound test announces the call and plays; an inbound
\* one goes on as any inbound call does (CallLifecycle).
TestEnters ==
  /\ testChan = "ringing"
  /\ testChan' = "up"
  /\ testState' = "answered"
  /\ setTrunkTestStatus("answered")
  /\ IF testType = "outbound"
     THEN testEvents' = testEvents \cup {"started"} /\ playPc' = "play"
     ELSE UNCHANGED <<testEvents, playPc>>
  /\ UNCHANGED <<testType, testPc>>

\* channel.play is refused by a channel that is gone.  The listener for
\* PlaybackFinished is added when play has answered: a short sound may be
\* over by then, and the wait never ends.
Play ==
  /\ playPc = "play"
  /\ \/ playPc' = "failed"
     \/ testChan = "up" /\ playPc' \in {"finished", "stuck"}
  /\ UNCHANGED <<testType, testPc, testChan, testState, testStatus,
                 testEvents>>

PlayFinished ==
  /\ playPc = "finished"
  /\ testChan' = IF testChan = "up" THEN "dead" ELSE testChan
  /\ playPc' = "complete"
  /\ UNCHANGED <<testType, testPc, testState, testStatus, testEvents>>

TestCompleted ==
  /\ playPc = "complete"
  /\ setTrunkTestStatus("completed")
  /\ playPc' = "done"
  /\ UNCHANGED <<testType, testPc, testChan, testState, testEvents>>

PlayFailed ==
  /\ playPc = "failed"
  /\ setTrunkTestStatus("failed")
  /\ testEvents' = testEvents \cup {"failed"}
  /\ testChan' = IF testChan = "up" THEN "dead" ELSE testChan
  /\ testState' = "none"
  /\ playPc' = "done"
  /\ UNCHANGED <<testType, testPc>>

TestHangsUp ==
  /\ testChan = "up"
  /\ testChan' = "dead"
  /\ UNCHANGED <<testType, testPc, playPc, testState, testStatus, testEvents>>

\* The common part of StasisEnd and ChannelDestroyed.
TestEnds ==
  \/ testState = "none" /\ UNCHANGED <<testState, testStatus, testEvents>>
  \/ /\ testState # "none" /\ testType = "inbound"
     /\ setTrunkTestStatus(IF testState = "answered" THEN "completed"
                                                     ELSE "failed")
     /\ testState' = "none" /\ UNCHANGED testEvents
  \/ /\ testState = "unanswered" /\ testType = "outbound"
     /\ setTrunkTestStatus("failed")
     /\ testEvents' = testEvents \cup {"failed"} /\ UNCHANGED testState
  \/ /\ testState = "answered" /\ testType = "outbound"
     /\ testEvents' = testEvents \cup {"ended"}
     /\ testState' = "none" /\ UNCHANGED testStatus

TestStasisEnd ==
  /\ testChan = "dead"
  /\ testChan' = "left"
  /\ TestEnds
  /\ UNCHANGED <<testType, testPc, playPc>>

\* Also the end of a channel that nobody answered.
TestDestroyed ==
  /\ testChan \in {"ringing", "left"}
  /\ testChan' = "gone"
  /\ TestEnds
  /\ UNCHANGED <<testType, testPc, playPc>>

\* Faulty variant: the key is written without a lifetime.
NeverExpires == FALSE /\ UNCHANGED testVars

\* Redis drops the key when its time to live is over, long after the
\* originate was answered.
StatusExpires ==
  /\ testPc = "done" /\ testStatus # "null"
  /\ testStatus' = "null"
  /\ UNCHANGED <<testType, testPc, playPc, testChan, testState, testEvents>>

TestHandler ==
  \/ testCallRequested \/ Dialing \/ OriginateRead
  \/ Play \/ PlayFinished \/ TestCompleted \/ PlayFailed

TestNext ==
  \/ TestHandler \/ ChannelCreated \/ TestEnters \/ TestHangsUp
  \/ TestStasisEnd \/ TestDestroyed \/ StatusExpires

-----------------------------------------------------------------------------

(* A page that polls a test call is told an outcome in the end: although   *)
(* the wait for the playback may hang and the state of a channel that has  *)
(* gone may be left behind, "dialing" or "answered" is not reported for    *)
(* ever once the channel is gone.                                          *)
TestReportSettles ==
  (testPc = "done" /\ testChan \in {"none", "gone"})
    ~> (getTestCallStatus \in {"completed", "failed"})
=============================================================================
