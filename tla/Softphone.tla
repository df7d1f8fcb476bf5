------------------------------ MODULE Softphone ------------------------------
(***************************************************************************)
(* The operator's softphone in the browser: registration, the session the  *)
(* panel shows, the ring tone and the timer that clears an ended call.     *)
(* A JsSIP event runs its handler to the end; the one await is the resume  *)
(* of the audio context before the tone starts.  SIP itself and the panel's *)
(* texts are left out.                                                     *)
(***************************************************************************)
EXTENDS Naturals

CONSTANTS PhoneSessions,  \* SIP sessions the user agent may report
          ToneContexts    \* audio contexts a ring may create

VARIABLES reg,       \* registrationState
          ua,        \* uaRef.current is set
          callState,
          sip,       \* what JsSIP knows of each session
          bound,     \* sessions whose events are handled here
          current,   \* sessionRef.current
          ringOn,    \* ringtoneActiveRef.current
          ringCtx,   \* ringtoneContextRef.current
          tone,      \* each audio context: new, resuming, stale, playing or closed
          resetDue,  \* endedTimerRef.current is set
          muted

phoneVars == <<reg, ua, callState, sip, bound, current, ringOn, ringCtx, tone, resetDue, muted>>

NoSession == "none"
NoContext == "none"
Up(s) == sip[s] \in {"ringing", "calling", "answering", "talking"}

PhoneInit ==
    /\ reg = "unregistered" /\ ua = FALSE /\ callState = "idle"
    /\ sip = [s \in PhoneSessions |-> "new"] /\ bound = {} /\ current = NoSession
    /\ ringOn = FALSE /\ ringCtx = NoContext /\ tone = [c \in ToneContexts |-> "new"]
    /\ resetDue = FALSE /\ muted = FALSE

---------------------------------------------------------------------------
(* The ring tone.                                                           *)

\* The contexts once stopRingtone closed the one there was; startRingtone may
\* still be waiting for its resume.
Silenced ==
    [c \in ToneContexts |-> IF c # ringCtx THEN tone[c] ELSE IF tone[c] = "resuming" THEN "stale" ELSE "closed"]

stopRingtone ==
    /\ ringOn' = FALSE /\ ringCtx' = NoContext /\ tone' = Silenced

\* A fresh context, waiting for its resume.
startRingtone ==
    \E c \in ToneContexts :
        /\ tone[c] = "new"
        /\ ringOn' = TRUE /\ ringCtx' = c
        /\ tone' = [Silenced EXCEPT ![c] = "resuming"]

\* Whether the ring this context was made for is still the one wanted.
StillWanted(c) == ringOn /\ ringCtx = c

\* The await of startRingtone is over: the tone repeats until it is stopped.
scheduleRingTone ==
    \E c \in ToneContexts :
        /\ tone[c] \in {"resuming", "stale"}
        /\ tone' = [tone EXCEPT ![c] = IF StillWanted(c) THEN "playing" ELSE "closed"]
        /\ UNCHANGED <<reg, ua, callState, sip, bound, current, ringOn, ringCtx, resetDue, muted>>

---------------------------------------------------------------------------
(* The panel's session.                                                     *)

clearEndedTimerNot == resetDue' = resetDue

clearEndedTimer == resetDue' = FALSE

resetCallUi ==
    /\ stopRingtone
    /\ muted' = FALSE /\ current' = NoSession

\* newRTCSession for a call that comes in.
IncomingSession ==
    \E s \in PhoneSessions :
        /\ ua /\ sip[s] = "new"
        /\ sip' = [sip EXCEPT ![s] = "ringing"]
        /\ bound' = bound \cup {s} /\ current' = s
        /\ callState' = "incoming" /\ muted' = FALSE /\ clearEndedTimer
        /\ startRingtone
        /\ UNCHANGED <<reg, ua>>

\* UA.call reports its own session before it returns.
startOutboundCall ==
    \E s \in PhoneSessions :
        /\ ua /\ reg = "registered" /\ callState = "idle" /\ sip[s] = "new"
        /\ sip' = [sip EXCEPT ![s] = "calling"]
        /\ stopRingtone
        /\ bound' = bound \cup {s} /\ current' = s
        /\ callState' = "outgoing" /\ muted' = FALSE /\ clearEndedTimer
        /\ UNCHANGED <<reg, ua>>

answerCall ==
    /\ callState = "incoming" /\ current # NoSession /\ sip[current] = "ringing"
    /\ sip' = [sip EXCEPT ![current] = "answering"]
    /\ stopRingtone
    /\ UNCHANGED <<reg, ua, callState, bound, current, resetDue, muted>>

\* accepted, and confirmed after it: the panel shows an active call.
SessionAccepted ==
    \E s \in bound :
        /\ sip[s] \in {"calling", "answering", "talking"}
        /\ sip' = [sip EXCEPT ![s] = "talking"]
        /\ callState' = "active" /\ clearEndedTimer
        /\ UNCHANGED <<reg, ua, bound, current, ringOn, ringCtx, tone, muted>>

\* connecting, while an outgoing call is set up.
SessionConnecting ==
    \E s \in bound :
        /\ sip[s] = "calling"
        /\ callState' = "outgoing" /\ clearEndedTimer
        /\ UNCHANGED <<reg, ua, sip, bound, current, ringOn, ringCtx, tone, muted>>

\* What the panel shows of a call that is over.
handleCallEnded(shown) ==
    /\ resetCallUi
    /\ callState' = shown /\ resetDue' = TRUE

\* The far end, or the network, ends the session.
PhoneSessionEnds ==
    \E s \in bound :
        /\ Up(s)
        /\ sip' = [sip EXCEPT ![s] = "over"]
        /\ handleCallEnded(IF sip[s] = "talking" THEN "ended" ELSE "failed")
        /\ UNCHANGED <<reg, ua, bound>>

\* rejectCall and hangupCall: terminate reports the end before it returns.
hangupCall ==
    /\ callState \in {"incoming", "outgoing", "active"}
    /\ current # NoSession /\ Up(current)
    /\ sip' = [sip EXCEPT ![current] = "over"]
    /\ handleCallEnded(IF sip[current] = "talking" THEN "ended" ELSE "failed")
    /\ UNCHANGED <<reg, ua, bound>>

\* scheduleEndedReset: the notice of an ended call goes away.
EndedReset ==
    /\ resetDue
    /\ resetDue' = FALSE /\ callState' = "idle"
    /\ UNCHANGED <<reg, ua, sip, bound, current, ringOn, ringCtx, tone, muted>>

toggleMute ==
    /\ callState = "active" /\ current # NoSession
    /\ muted' = ~muted
    /\ UNCHANGED <<reg, ua, callState, sip, bound, current, ringOn, ringCtx, tone, resetDue>>

---------------------------------------------------------------------------
(* Registration.                                                            *)

connect ==
    /\ ~ua
    /\ ua' = TRUE /\ reg' = "connecting"
    /\ UNCHANGED <<callState, sip, bound, current, ringOn, ringCtx, tone, resetDue, muted>>

\* registered, unregistered and registrationFailed, as the registrar says.
Registration ==
    \E r \in {"registered", "unregistered"} :
        /\ ua /\ reg # r
        /\ reg' = r
        /\ UNCHANGED <<ua, callState, sip, bound, current, ringOn, ringCtx, tone, resetDue, muted>>

\* The session shown is terminated; UA.stop ends any other.
disconnect ==
    /\ ua
    /\ sip' = [s \in PhoneSessions |-> IF s \in bound /\ Up(s) THEN "over" ELSE sip[s]]
    /\ resetCallUi
    /\ IF \E s \in bound : Up(s) /\ s # current
       THEN callState' \in {"ended", "failed"} /\ resetDue' = TRUE
       ELSE callState' = "idle" /\ clearEndedTimer
    /\ ua' = FALSE /\ reg' = "unregistered"
    /\ UNCHANGED bound

PhoneNext ==
    \/ connect \/ Registration \/ disconnect
    \/ IncomingSession \/ startOutboundCall \/ answerCall \/ hangupCall \/ toggleMute
    \/ SessionConnecting \/ SessionAccepted \/ PhoneSessionEnds
    \/ EndedReset \/ scheduleRingTone

---------------------------------------------------------------------------
(* A panel that shows no call, or one that is over, neither rings nor holds *)
(* a session: the timer that clears an ended call never clears the next one *)
(* (which would ring with nothing to answer it), and the tone that starts   *)
(* after an await is not left playing when the call ended meanwhile.        *)
SoftphoneQuiet ==
    /\ \A c \in ToneContexts : tone[c] = "playing" => ringCtx = c
    /\ callState \in {"idle", "ended", "failed"} => ringCtx = NoContext /\ current = NoSession
=============================================================================
