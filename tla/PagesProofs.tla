----------------------------- MODULE PagesProofs -----------------------------
(***************************************************************************)
(* Proofs about the web interface and what it edits, for any sessions,     *)
(* calls, tests, flows and bounds.  As in PlatformProofs, each component   *)
(* has an inductive invariant that its own steps preserve, and stands      *)
(* still while another one moves.                                          *)
(***************************************************************************)
EXTENDS MCPlatform, FiniteSetTheorems, FunctionTheorems, SequenceTheorems, TLAPS

-----------------------------------------------------------------------------
(* The softphone: the timer that clears an ended call is set only while one *)
(* is shown.                                                                *)
PhoneInv ==
  /\ ringCtx \in ToneContexts \cup {NoContext} /\ DOMAIN tone = ToneContexts
  /\ resetDue => callState \in {"ended", "failed"}
  /\ SoftphoneQuiet

(* A step of another component leaves the softphone alone.                  *)
LEMMA PhoneSteps ==
  ASSUME [PlatformNext]_platformVars
  PROVE  [PhoneNext]_phoneVars
BY DEF PlatformNext, Only, platformVars

(* Stopping the tone leaves none playing; starting one silences the other.  *)
LEMMA RingtoneStep ==
  ASSUME PhoneInv, stopRingtone \/ startRingtone
  PROVE  /\ ringCtx' \in ToneContexts \cup {NoContext} /\ DOMAIN tone' = ToneContexts
         /\ \A c \in ToneContexts : tone'[c] = "playing" => ringCtx' = c
<1>1. DOMAIN Silenced = ToneContexts /\ \A c \in ToneContexts : Silenced[c] # "playing"
  BY DEF Silenced, PhoneInv, SoftphoneQuiet
<1>2. CASE stopRingtone
  BY <1>1, <1>2 DEF stopRingtone
<1>3. CASE startRingtone
  BY <1>1, <1>3 DEF startRingtone
<1> QED BY <1>2, <1>3

(* Every step of the softphone preserves the invariant.                     *)
LEMMA PhoneStep ==
  ASSUME PhoneInv, [PhoneNext]_phoneVars
  PROVE  PhoneInv'
<1>1. CASE UNCHANGED phoneVars \/ connect \/ Registration \/ toggleMute
  BY <1>1 DEF phoneVars, connect, Registration, toggleMute, PhoneInv, SoftphoneQuiet
<1>2. CASE IncomingSession
  BY <1>2, RingtoneStep DEF IncomingSession, clearEndedTimer, PhoneInv, SoftphoneQuiet
<1>3. CASE startOutboundCall
  BY <1>3, RingtoneStep DEF startOutboundCall, clearEndedTimer, PhoneInv, SoftphoneQuiet
<1>4. CASE answerCall
  BY <1>4, RingtoneStep DEF answerCall, PhoneInv, SoftphoneQuiet
<1>5. CASE SessionAccepted \/ SessionConnecting
  BY <1>5 DEF SessionAccepted, SessionConnecting, clearEndedTimer, PhoneInv, SoftphoneQuiet
<1>6. CASE PhoneSessionEnds \/ hangupCall \/ disconnect
  <2>1. stopRingtone /\ ringCtx' = NoContext /\ current' = NoSession
    BY <1>6 DEF PhoneSessionEnds, hangupCall, disconnect, handleCallEnded, resetCallUi, stopRingtone
  <2>2. resetDue' => callState' \in {"ended", "failed"}
    BY <1>6 DEF PhoneSessionEnds, hangupCall, disconnect, handleCallEnded, clearEndedTimer
  <2> QED BY <2>1, <2>2, RingtoneStep DEF PhoneInv, SoftphoneQuiet
<1>7. CASE EndedReset
  BY <1>7 DEF EndedReset, PhoneInv, SoftphoneQuiet
<1>8. CASE scheduleRingTone
  BY <1>8 DEF scheduleRingTone, StillWanted, PhoneInv, SoftphoneQuiet
<1> QED
  BY <1>1, <1>2, <1>3, <1>4, <1>5, <1>6, <1>7, <1>8 DEF PhoneNext
-----------------------------------------------------------------------------
(* The trunk test panel: a badge's timers are the two that take turns.      *)
PanelInv ==
  /\ DOMAIN polls = TestKinds /\ DOMAIN pollRef = TestKinds
  /\ badge \in [shown : BOOLEAN, timer : 0..2, armed : SUBSET (1..2)]
  /\ PollsAreNamed

(* A step of another component leaves the panel alone.                      *)
LEMMA PanelSteps ==
  ASSUME [PlatformNext]_platformVars
  PROVE  [PanelNext]_panelVars
BY DEF PlatformNext, Only, platformVars

(* Steps that leave the badge, or leave the polls.                          *)
LEMMA PollsStep ==
  ASSUME PanelInv, UNCHANGED badge, testPanel = "left" => testPanel' = "left",
         DOMAIN polls' = TestKinds, DOMAIN pollRef' = TestKinds,
         \A k \in TestKinds : polls'[k] \subseteq {pollRef'[k]}
  PROVE  PanelInv'
BY DEF PanelInv, PollsAreNamed

(* Every step of the trunks page preserves the invariant.                   *)
LEMMA PanelStep ==
  ASSUME PanelInv, [PanelNext]_panelVars
  PROVE  PanelInv'
<1>1. /\ DOMAIN polls = TestKinds /\ DOMAIN pollRef = TestKinds
      /\ \A k \in TestKinds : polls[k] \subseteq {pollRef[k]}
  BY DEF PanelInv, PollsAreNamed
<1>2. CASE UNCHANGED panelVars \/ openForm \/ StartRefused \/ handleTest
  BY <1>1, <1>2, PollsStep DEF panelVars, openForm, StartRefused, handleTest, TestKinds
<1>3. ASSUME NEW k \in TestKinds, toggleTestPanel(k) \/ handleStartTest(k) \/ PollTick(k)
      PROVE  PanelInv'
  <2>1. CASE toggleTestPanel(k)
    <3>1. PICK ks \in SUBSET TestKinds : resetTests(ks)
      BY <2>1 DEF toggleTestPanel
    <3> QED BY <1>1, <2>1, <3>1, PollsStep DEF resetTests, toggleTestPanel
  <2>2. CASE handleStartTest(k) \/ PollTick(k)
    BY <1>1, <2>2, PollsStep DEF handleStartTest, PollTick
  <2> QED BY <1>3, <2>1, <2>2
<1>4. CASE closeTestPanel
  BY <1>1, <1>4, PollsStep DEF closeTestPanel, resetTests, TestKinds
<1>5. ASSUME NEW s \in starts, StartAnswered(s) \/ StartFails(s)
      PROVE  PanelInv'
  BY <1>1, <1>5, PollsStep DEF StartAnswered, StartFails, pollStatus
<1>6. ASSUME NEW a \in asks, PollAnswered(a)
      PROVE  PanelInv'
  BY <1>1, <1>6, PollsStep DEF PollAnswered
<1>7. CASE Unmount
  <2>1. /\ badge' = [badge EXCEPT !.armed = @ \ {badge.timer}]
        /\ polls' = [k \in TestKinds |-> polls[k] \ {pollRef[k]}] /\ UNCHANGED pollRef
        /\ testPanel' = "left"
    BY <1>7 DEF Unmount
  <2>2. badge' \in [shown : BOOLEAN, timer : 0..2, armed : SUBSET (1..2)] /\ badge'.armed \subseteq {badge'.timer}
    BY <2>1 DEF PanelInv, PollsAreNamed
  <2> QED BY <1>1, <2>1, <2>2 DEF PanelInv, PollsAreNamed
<1>8. CASE TestShown
  <2>1. UNCHANGED <<polls, pollRef, testPanel>>
    BY <1>8 DEF TestShown
  <2>2. CASE UNCHANGED badge
    BY <1>1, <2>1, <2>2, PollsStep
  <2>3. CASE badge' = [shown |-> TRUE, timer |-> 1, armed |-> {1}]
    BY <1>1, <2>1, <2>3 DEF PanelInv, PollsAreNamed
  <2>4. CASE /\ badge.timer > 0
             /\ badge' = [shown |-> TRUE, timer |-> 3 - badge.timer,
                          armed |-> (badge.armed \ {badge.timer}) \cup {3 - badge.timer}]
    <3>1. badge.timer \in 1..2 /\ badge.armed \subseteq {badge.timer}
      BY <2>4 DEF PanelInv, PollsAreNamed
    <3>2. PICK t \in 1..2 : t = 3 - badge.timer
      BY <3>1
    <3>3. badge' = [shown |-> TRUE, timer |-> t, armed |-> {t}]
      BY <2>4, <3>1, <3>2
    <3> QED BY <1>1, <2>1, <3>3 DEF PanelInv, PollsAreNamed
  <2> QED BY <1>8, <2>2, <2>3, <2>4 DEF TestShown
<1>9. CASE BadgeExpires
  <2>1. PICK b : badge' = [badge EXCEPT !.shown = FALSE, !.armed = @ \ {b}]
    BY <1>9 DEF BadgeExpires
  <2>2. /\ badge' \in [shown : BOOLEAN, timer : 0..2, armed : SUBSET (1..2)]
        /\ badge'.armed \subseteq {badge'.timer} /\ badge'.shown = FALSE
    BY <2>1 DEF PanelInv, PollsAreNamed
  <2>3. UNCHANGED <<polls, pollRef, testPanel>>
    BY <1>9 DEF BadgeExpires
  <2> QED BY <1>1, <2>2, <2>3 DEF PanelInv, PollsAreNamed
<1> QED
  BY <1>2, <1>3, <1>4, <1>5, <1>6, <1>7, <1>8, <1>9 DEF PanelNext
-----------------------------------------------------------------------------
(* The dashboard: of a call no event of which was missed, the page is       *)
(* behind by what is on the wire.  Its start comes first there, its end     *)
(* leaves no doubt that it is over, and the last node event is the node it  *)
(* is at.                                                                   *)
CallKinds == {"started", "failed", "ended"}
WireEvent == [call : ListedCalls, type : CallKinds \cup NodeKinds]
OnWire(c, types) == \E i \in DOMAIN wireEvents : wireEvents[i].call = c /\ wireEvents[i].type \in types

StartFirst(c) ==
  \A i \in DOMAIN wireEvents : wireEvents[i].call = c /\ wireEvents[i].type = "started" =>
    /\ activeCalls[c] = "none"
    /\ \A j \in DOMAIN wireEvents : wireEvents[j].call = c /\ j # i => j > i /\ wireEvents[j].type # "started"
EndKnown(c) ==
  /\ OnWire(c, {"failed", "ended"}) => published[c] \in {"failed", "ended"}
  /\ OnWire(c, {"started"}) /\ ~OnWire(c, {"failed", "ended"}) => published[c] = "started"
  /\ ~OnWire(c, CallKinds) => (activeCalls[c] # "none" <=> published[c] = "started")
NodeKnown(c) ==
  /\ \A i \in DOMAIN wireEvents :
       /\ wireEvents[i].call = c /\ wireEvents[i].type \in NodeKinds
       /\ \A j \in DOMAIN wireEvents : j > i /\ wireEvents[j].call = c => wireEvents[j].type \notin NodeKinds
       => lastNode[c] = wireEvents[i].type
  /\ ~OnWire(c, NodeKinds) /\ OnWire(c, {"started"}) => lastNode[c] = "none"
  /\ ~OnWire(c, NodeKinds) /\ activeCalls[c] # "none" => activeCalls[c] = deriveState(lastNode[c])
Unheard(c) ==
  published[c] = "none" => ~OnWire(c, CallKinds \cup NodeKinds) /\ activeCalls[c] = "none" /\ lastNode[c] = "none"

Behind(c) == StartFirst(c) /\ EndKnown(c) /\ NodeKnown(c) /\ Unheard(c)

BoardInv ==
  /\ wireEvents \in Seq(WireEvent)
  /\ published \in [ListedCalls -> {"none"} \cup CallKinds]
  /\ DOMAIN lastNode = ListedCalls /\ DOMAIN activeCalls = ListedCalls
  /\ \A c \in ListedCalls : c \notin missed => Behind(c)

(* A step of another component leaves the active calls alone.               *)
LEMMA BoardSteps ==
  ASSUME [PlatformNext]_platformVars
  PROVE  [BoardNext]_boardVars
BY DEF PlatformNext, Only, platformVars

(* What is on the wire after e is appended.                                 *)
LEMMA WireAppend ==
  ASSUME wireEvents \in Seq(WireEvent), NEW e \in WireEvent, wireEvents' = Append(wireEvents, e)
  PROVE  /\ wireEvents' \in Seq(WireEvent)
         /\ Len(wireEvents') = Len(wireEvents) + 1 /\ Len(wireEvents) \in Nat
         /\ DOMAIN wireEvents = 1..Len(wireEvents) /\ DOMAIN wireEvents' = 1..(Len(wireEvents) + 1)
         /\ \A i \in DOMAIN wireEvents : wireEvents'[i] = wireEvents[i]
         /\ wireEvents'[Len(wireEvents) + 1] = e
         /\ \A c, types : OnWire(c, types)' <=> (OnWire(c, types) \/ (e.call = c /\ e.type \in types))
<1>1. /\ wireEvents' \in Seq(WireEvent)
      /\ Len(wireEvents') = Len(wireEvents) + 1 /\ Len(wireEvents) \in Nat
      /\ DOMAIN wireEvents = 1..Len(wireEvents) /\ DOMAIN wireEvents' = 1..(Len(wireEvents) + 1)
      /\ \A i \in DOMAIN wireEvents : wireEvents'[i] = wireEvents[i]
      /\ wireEvents'[Len(wireEvents) + 1] = e
  OBVIOUS
<1>2. \A c, types : OnWire(c, types)' <=> (OnWire(c, types) \/ (e.call = c /\ e.type \in types))
  BY <1>1 DEF OnWire
<1> QED BY <1>1, <1>2

(* What was on the wire before its head arrived.                            *)
LEMMA WireTail ==
  ASSUME wireEvents \in Seq(WireEvent), NEW e, Arrives(e)
  PROVE  /\ wireEvents' \in Seq(WireEvent) /\ e \in WireEvent
         /\ Len(wireEvents) \in Nat /\ Len(wireEvents) >= 1
         /\ DOMAIN wireEvents = 1..Len(wireEvents) /\ DOMAIN wireEvents' = 1..(Len(wireEvents) - 1)
         /\ \A i \in DOMAIN wireEvents' : i + 1 \in DOMAIN wireEvents /\ wireEvents'[i] = wireEvents[i + 1]
         /\ \A i \in DOMAIN wireEvents :
              i = 1 \/ (i - 1 \in DOMAIN wireEvents' /\ wireEvents'[i - 1] = wireEvents[i])
         /\ 1 \in DOMAIN wireEvents /\ wireEvents[1] = e
         /\ \A c, types : OnWire(c, types) <=> (OnWire(c, types)' \/ (e.call = c /\ e.type \in types))
<1>1. /\ wireEvents' \in Seq(WireEvent) /\ e \in WireEvent
      /\ Len(wireEvents) \in Nat /\ Len(wireEvents) >= 1
      /\ DOMAIN wireEvents = 1..Len(wireEvents) /\ DOMAIN wireEvents' = 1..(Len(wireEvents) - 1)
      /\ \A i \in DOMAIN wireEvents' : i + 1 \in DOMAIN wireEvents /\ wireEvents'[i] = wireEvents[i + 1]
      /\ 1 \in DOMAIN wireEvents /\ wireEvents[1] = e
  BY DEF Arrives
<1>2. \A i \in DOMAIN wireEvents : i = 1 \/ (i - 1 \in DOMAIN wireEvents' /\ wireEvents'[i - 1] = wireEvents[i])
  BY <1>1
<1>3. \A c, types : OnWire(c, types) <=> (OnWire(c, types)' \/ (e.call = c /\ e.type \in types))
  BY <1>1, <1>2 DEF OnWire
<1> QED BY <1>1, <1>2, <1>3
(* What is appended for another call does not matter to call c.             *)
LEMMA OtherCallSent ==
  ASSUME wireEvents \in Seq(WireEvent), NEW c, NEW e \in WireEvent, e.call # c, Behind(c),
         wireEvents' = Append(wireEvents, e),
         published'[c] = published[c], lastNode'[c] = lastNode[c], activeCalls'[c] = activeCalls[c]
  PROVE  Behind(c)'
<1>1. /\ Len(wireEvents) \in Nat
      /\ DOMAIN wireEvents = 1..Len(wireEvents) /\ DOMAIN wireEvents' = 1..(Len(wireEvents) + 1)
      /\ \A i \in DOMAIN wireEvents : wireEvents'[i] = wireEvents[i]
      /\ wireEvents'[Len(wireEvents) + 1] = e
      /\ \A types : OnWire(c, types)' <=> OnWire(c, types)
  BY WireAppend
<1>2. EndKnown(c)' /\ Unheard(c)'
  BY <1>1 DEF Behind, EndKnown, Unheard
<1>3. StartFirst(c)'
  BY <1>1 DEF Behind, StartFirst
<1>4. NodeKnown(c)'
  BY <1>1 DEF Behind, NodeKnown
<1> QED BY <1>2, <1>3, <1>4 DEF Behind

(* What arrives of another call does not matter to call c.                  *)
LEMMA OtherCallArrived ==
  ASSUME wireEvents \in Seq(WireEvent), NEW c, NEW e, e.call # c, Behind(c), Arrives(e),
         published'[c] = published[c], lastNode'[c] = lastNode[c], activeCalls'[c] = activeCalls[c]
  PROVE  Behind(c)'
<1>1. /\ Len(wireEvents) \in Nat /\ Len(wireEvents) >= 1
      /\ DOMAIN wireEvents = 1..Len(wireEvents) /\ DOMAIN wireEvents' = 1..(Len(wireEvents) - 1)
      /\ \A i \in DOMAIN wireEvents' : i + 1 \in DOMAIN wireEvents /\ wireEvents'[i] = wireEvents[i + 1]
      /\ \A i \in DOMAIN wireEvents :
           i = 1 \/ (i - 1 \in DOMAIN wireEvents' /\ wireEvents'[i - 1] = wireEvents[i])
      /\ 1 \in DOMAIN wireEvents /\ wireEvents[1] = e
  BY WireTail
<1>2. \A types : OnWire(c, types)' <=> OnWire(c, types)
  BY WireTail
<1>3. EndKnown(c)' /\ Unheard(c)'
  BY <1>2 DEF Behind, EndKnown, Unheard
<1>4. StartFirst(c)'
  <2> SUFFICES ASSUME NEW i \in DOMAIN wireEvents', wireEvents'[i].call = c, wireEvents'[i].type = "started",
                      NEW j \in DOMAIN wireEvents', wireEvents'[j].call = c, j # i
               PROVE  activeCalls'[c] = "none" /\ j > i /\ wireEvents'[j].type # "started"
    <3>1. ASSUME NEW i \in DOMAIN wireEvents', wireEvents'[i].call = c, wireEvents'[i].type = "started"
          PROVE  activeCalls'[c] = "none"
      BY <1>1, <3>1 DEF Behind, StartFirst
    <3> QED BY <3>1 DEF StartFirst
  <2> i \in Int /\ j \in Int
    BY <1>1
  <2>1. i + 1 \in DOMAIN wireEvents /\ j + 1 \in DOMAIN wireEvents /\ j + 1 # i + 1
    BY <1>1
  <2>2. wireEvents[i + 1] = wireEvents'[i] /\ wireEvents[j + 1] = wireEvents'[j]
    BY <1>1
  <2>3. activeCalls[c] = "none" /\ j + 1 > i + 1 /\ wireEvents[j + 1].type # "started"
    BY <2>1, <2>2 DEF Behind, StartFirst
  <2>4. j > i
    BY <2>3
  <2> QED BY <2>2, <2>3, <2>4
<1>5. NodeKnown(c)'
  <2>1. ASSUME NEW i \in DOMAIN wireEvents', wireEvents'[i].call = c, wireEvents'[i].type \in NodeKinds,
               \A j \in DOMAIN wireEvents' : j > i /\ wireEvents'[j].call = c => wireEvents'[j].type \notin NodeKinds
        PROVE  lastNode'[c] = wireEvents'[i].type
    <3>1. i + 1 \in DOMAIN wireEvents /\ wireEvents[i + 1] = wireEvents'[i]
      BY <1>1
    <3>2. ASSUME NEW j \in DOMAIN wireEvents, j > i + 1, wireEvents[j].call = c
          PROVE  wireEvents[j].type \notin NodeKinds
      <4> i \in Int /\ j \in Int /\ i >= 1
        BY <1>1
      <4>1. j - 1 \in DOMAIN wireEvents' /\ wireEvents'[j - 1] = wireEvents[j] /\ j - 1 > i
        BY <1>1, <3>2
      <4> QED BY <2>1, <3>2, <4>1
    <3> QED BY <2>1, <3>1, <3>2 DEF Behind, NodeKnown
  <2> QED BY <1>2, <2>1 DEF Behind, NodeKnown
<1> QED BY <1>4, <1>5, <1>3 DEF Behind

(* A call event is on its way.                                              *)
LEMMA CallEventSent ==
  ASSUME wireEvents \in Seq(WireEvent), NEW c, NEW type \in CallKinds, Behind(c),
         NEW e \in WireEvent, e.call = c, e.type = type, wireEvents' = Append(wireEvents, e),
         type = "started" <=> published[c] = "none",
         published'[c] = type, lastNode'[c] = lastNode[c], activeCalls'[c] = activeCalls[c]
  PROVE  Behind(c)'
<1>1. /\ Len(wireEvents) \in Nat
      /\ DOMAIN wireEvents = 1..Len(wireEvents) /\ DOMAIN wireEvents' = 1..(Len(wireEvents) + 1)
      /\ \A i \in DOMAIN wireEvents : wireEvents'[i] = wireEvents[i]
      /\ wireEvents'[Len(wireEvents) + 1] = e
      /\ \A types : OnWire(c, types)' <=> (OnWire(c, types) \/ type \in types)
  BY WireAppend
<1>2. type = "started" => /\ \A i \in DOMAIN wireEvents : wireEvents[i].call # c
                          /\ activeCalls[c] = "none" /\ lastNode[c] = "none"
  <2>1. \A i \in DOMAIN wireEvents : wireEvents[i] \in WireEvent
    OBVIOUS
  <2>2. \A i \in DOMAIN wireEvents : wireEvents[i].type \in CallKinds \cup NodeKinds
    BY <2>1 DEF WireEvent
  <2> QED BY <2>2 DEF Behind, Unheard, OnWire
<1>3. StartFirst(c)'
  BY <1>1, <1>2 DEF Behind, StartFirst
<1>4. EndKnown(c)'
  <2>1. type = "started" => ~OnWire(c, {"failed", "ended"})
    BY <1>2 DEF OnWire
  <2> QED BY <1>1, <2>1 DEF EndKnown, CallKinds
<1>5. NodeKnown(c)'
  <2>1. type \notin NodeKinds
    BY DEF CallKinds, NodeKinds
  <2> QED BY <1>1, <1>2, <2>1 DEF Behind, NodeKnown
<1>6. Unheard(c)'
  BY DEF Unheard, CallKinds
<1> QED BY <1>3, <1>4, <1>5, <1>6 DEF Behind

(* A node event is on its way.                                              *)
LEMMA NodeEventSent ==
  ASSUME wireEvents \in Seq(WireEvent), NEW c, NEW node \in NodeKinds, Behind(c),
         NEW e \in WireEvent, e.call = c, e.type = node, wireEvents' = Append(wireEvents, e),
         published[c] # "none", published'[c] = published[c], lastNode'[c] = node,
         activeCalls'[c] = activeCalls[c]
  PROVE  Behind(c)'
<1>1. /\ Len(wireEvents) \in Nat
      /\ DOMAIN wireEvents = 1..Len(wireEvents) /\ DOMAIN wireEvents' = 1..(Len(wireEvents) + 1)
      /\ \A i \in DOMAIN wireEvents : wireEvents'[i] = wireEvents[i]
      /\ wireEvents'[Len(wireEvents) + 1] = e
      /\ \A types : OnWire(c, types)' <=> (OnWire(c, types) \/ node \in types)
  BY WireAppend
<1>2. node \notin CallKinds
  BY DEF CallKinds, NodeKinds
<1>3. StartFirst(c)'
  BY <1>1, <1>2 DEF Behind, StartFirst, CallKinds
<1>4. EndKnown(c)'
  BY <1>1, <1>2 DEF Behind, EndKnown, CallKinds
<1>5. NodeKnown(c)'
  BY <1>1 DEF NodeKnown
<1>6. Unheard(c)'
  BY DEF Unheard
<1> QED BY <1>3, <1>4, <1>5, <1>6 DEF Behind

(* An event has arrived.                                                    *)
LEMMA EventArrived ==
  ASSUME wireEvents \in Seq(WireEvent), NEW c, Behind(c), NEW e, e.call = c, Arrives(e),
         published'[c] = published[c], lastNode'[c] = lastNode[c],
         \/ e.type = "started" /\ activeCalls'[c] = "IN_IVR"
         \/ e.type \in {"failed", "ended"} /\ activeCalls'[c] = "none"
         \/ e.type \in NodeKinds /\ activeCalls'[c] = Timeline(c, e.type)
  PROVE  Behind(c)'
<1>1. /\ Len(wireEvents) \in Nat /\ Len(wireEvents) >= 1
      /\ DOMAIN wireEvents = 1..Len(wireEvents) /\ DOMAIN wireEvents' = 1..(Len(wireEvents) - 1)
      /\ \A i \in DOMAIN wireEvents' : i + 1 \in DOMAIN wireEvents /\ wireEvents'[i] = wireEvents[i + 1]
      /\ \A i \in DOMAIN wireEvents :
           i = 1 \/ (i - 1 \in DOMAIN wireEvents' /\ wireEvents'[i - 1] = wireEvents[i])
      /\ 1 \in DOMAIN wireEvents /\ wireEvents[1] = e
  BY WireTail
<1>2. \A types : OnWire(c, types) <=> (OnWire(c, types)' \/ e.type \in types)
  BY WireTail
<1>3. ASSUME NEW i \in DOMAIN wireEvents', wireEvents'[i].call = c
      PROVE  wireEvents'[i].type # "started"
  <2>1. i + 1 \in DOMAIN wireEvents /\ wireEvents[i + 1] = wireEvents'[i] /\ i + 1 > 1 /\ ~(1 > i + 1)
    BY <1>1
  <2> QED BY <1>1, <1>3, <2>1 DEF Behind, StartFirst
<1>4. StartFirst(c)' /\ ~OnWire(c, {"started"})'
  BY <1>3 DEF StartFirst, OnWire
<1>5. ASSUME NEW i \in DOMAIN wireEvents', wireEvents'[i].call = c, wireEvents'[i].type \in NodeKinds,
             \A j \in DOMAIN wireEvents' : j > i /\ wireEvents'[j].call = c => wireEvents'[j].type \notin NodeKinds
      PROVE  lastNode'[c] = wireEvents'[i].type
  <2>1. i + 1 \in DOMAIN wireEvents /\ wireEvents[i + 1] = wireEvents'[i]
    BY <1>1
  <2>2. ASSUME NEW j \in DOMAIN wireEvents, j > i + 1, wireEvents[j].call = c
        PROVE  wireEvents[j].type \notin NodeKinds
    <3>1. j - 1 \in DOMAIN wireEvents' /\ wireEvents'[j - 1] = wireEvents[j] /\ j - 1 > i
      BY <1>1, <2>2
    <3> QED BY <1>5, <2>2, <3>1
  <2> QED BY <1>5, <2>1, <2>2 DEF Behind, NodeKnown
<1>6. Unheard(c)'
  <2>1. OnWire(c, CallKinds \cup NodeKinds)
    BY <1>2 DEF CallKinds
  <2> QED BY <2>1 DEF Behind, Unheard
<1>7. deriveState("none") = "IN_IVR" /\ \A node \in NodeKinds : deriveState(node) # "none"
  BY DEF deriveState, NodeKinds
<1>8. CASE e.type = "started" /\ activeCalls'[c] = "IN_IVR"
  <2>1. e.type \notin NodeKinds /\ e.type \notin {"failed", "ended"} /\ OnWire(c, {"started"})
    BY <1>2, <1>8 DEF NodeKinds
  <2>2. EndKnown(c)'
    <3>1. ~OnWire(c, CallKinds)' => published'[c] = "started"
      <4>1. ~OnWire(c, CallKinds)' => ~OnWire(c, {"failed", "ended"})'
        BY DEF OnWire, CallKinds
      <4> QED BY <1>2, <2>1, <4>1 DEF Behind, EndKnown
    <3>2. OnWire(c, {"failed", "ended"})' => published'[c] \in {"failed", "ended"}
      BY <1>2 DEF Behind, EndKnown
    <3> QED BY <1>4, <1>8, <3>1, <3>2 DEF EndKnown
  <2>3. NodeKnown(c)'
    <3>1. ~OnWire(c, NodeKinds)' => lastNode'[c] = "none"
      BY <1>2, <2>1 DEF Behind, NodeKnown
    <3> QED BY <1>4, <1>5, <1>7, <1>8, <3>1 DEF NodeKnown
  <2> QED BY <1>4, <1>6, <2>2, <2>3 DEF Behind
<1>9. CASE e.type \in {"failed", "ended"} /\ activeCalls'[c] = "none"
  <2>1. published[c] \in {"failed", "ended"}
    BY <1>2, <1>9 DEF Behind, EndKnown
  <2>2. EndKnown(c)'
    BY <1>4, <1>9, <2>1 DEF EndKnown
  <2>3. NodeKnown(c)'
    BY <1>4, <1>5, <1>9 DEF NodeKnown
  <2> QED BY <1>4, <1>6, <2>2, <2>3 DEF Behind
<1>10. CASE e.type \in NodeKinds /\ activeCalls'[c] = Timeline(c, e.type)
  <2>1. e.type \notin CallKinds /\ e.type \notin {"failed", "ended"}
    BY <1>10 DEF NodeKinds, CallKinds
  <2>2. activeCalls'[c] = "none" <=> activeCalls[c] = "none"
    BY <1>7, <1>10 DEF Timeline
  <2>3. EndKnown(c)'
    BY <1>2, <1>4, <2>1, <2>2 DEF Behind, EndKnown
  <2>4. ~OnWire(c, NodeKinds)' => lastNode[c] = e.type
    <3> SUFFICES ASSUME ~OnWire(c, NodeKinds)'
                 PROVE  lastNode[c] = e.type
      OBVIOUS
    <3>1. ASSUME NEW j \in DOMAIN wireEvents, j > 1, wireEvents[j].call = c
          PROVE  wireEvents[j].type \notin NodeKinds
      BY <1>1, <3>1 DEF OnWire
    <3> QED BY <1>1, <1>10, <3>1 DEF Behind, NodeKnown
  <2>5. NodeKnown(c)'
    BY <1>4, <1>5, <1>10, <2>4 DEF NodeKnown, Timeline
  <2> QED BY <1>4, <1>6, <2>3, <2>5 DEF Behind
<1> QED BY <1>8, <1>9, <1>10
(* Every step from an event to the list preserves the invariant.            *)
LEMMA BoardStep ==
  ASSUME BoardInv, [BoardNext]_boardVars
  PROVE  BoardInv'
<1>1. /\ wireEvents \in Seq(WireEvent)
      /\ published \in [ListedCalls -> {"none"} \cup CallKinds]
      /\ DOMAIN lastNode = ListedCalls /\ DOMAIN activeCalls = ListedCalls
      /\ \A c \in ListedCalls : c \notin missed => Behind(c)
  BY DEF BoardInv
<1>2. ASSUME UNCHANGED <<published, lastNode, wireEvents, activeCalls, missed>>
      PROVE  BoardInv'
  BY <1>2 DEF BoardInv, Behind, StartFirst, EndKnown, NodeKnown, Unheard, OnWire
<1>3. CASE UNCHANGED boardVars \/ handleConnect \/ handleCallSubscribe \/ flashCall
  BY <1>2, <1>3 DEF boardVars, handleConnect, handleCallSubscribe, flashCall
<1>4. ASSUME NEW c \in ListedCalls, publishCallEvent(c)
      PROVE  BoardInv'
  <2>1. PICK type \in CallKinds :
          /\ type = "started" <=> published[c] = "none"
          /\ published' = [published EXCEPT ![c] = type]
          /\ relayEvent([call |-> c, type |-> type])
    BY <1>4 DEF publishCallEvent, CallKinds
  <2>2. PICK e \in WireEvent : e = [call |-> c, type |-> type] /\ e.call = c /\ e.type = type
    <3>1. [call |-> c, type |-> type] \in WireEvent
      BY DEF WireEvent
    <3> QED BY <3>1
  <2>3. UNCHANGED <<lastNode, activeCalls>>
    BY <1>4 DEF publishCallEvent
  <2>4. /\ published' \in [ListedCalls -> {"none"} \cup CallKinds] /\ published'[c] = type
        /\ \A d \in ListedCalls : d # c => published'[d] = published[d]
    BY <1>1, <2>1
  <2>5. CASE wireEvents' = Append(wireEvents, e) /\ UNCHANGED missed
    <3>1. wireEvents' \in Seq(WireEvent)
      BY <1>1, <2>5, WireAppend
    <3>2. ASSUME NEW d \in ListedCalls, d \notin missed
          PROVE  Behind(d)'
      <4>1. CASE d = c
        BY <1>1, <2>1, <2>2, <2>3, <2>4, <2>5, <3>2, <4>1, CallEventSent
      <4>2. CASE d # c
        BY <1>1, <2>2, <2>3, <2>4, <2>5, <3>2, <4>2, OtherCallSent
      <4> QED BY <4>1, <4>2
    <3> QED BY <1>1, <2>3, <2>4, <2>5, <3>1, <3>2 DEF BoardInv
  <2>6. CASE missed' = missed \cup {c} /\ UNCHANGED wireEvents
    BY <1>1, <2>3, <2>4, <2>6
       DEF BoardInv, Behind, StartFirst, EndKnown, NodeKnown, Unheard, OnWire
  <2> QED BY <2>1, <2>2, <2>5, <2>6 DEF relayEvent
<1>5. ASSUME NEW c \in ListedCalls, publishNodeTelemetry(c)
      PROVE  BoardInv'
  <2>1. PICK node \in NodeKinds :
          lastNode' = [lastNode EXCEPT ![c] = node] /\ relayEvent([call |-> c, type |-> node])
    BY <1>5 DEF publishNodeTelemetry
  <2>2. PICK e \in WireEvent : e = [call |-> c, type |-> node] /\ e.call = c /\ e.type = node
    <3>1. [call |-> c, type |-> node] \in WireEvent
      BY DEF WireEvent
    <3> QED BY <3>1
  <2>3. published[c] # "none" /\ UNCHANGED <<published, activeCalls>>
    BY <1>5 DEF publishNodeTelemetry
  <2>4. /\ DOMAIN lastNode' = ListedCalls /\ lastNode'[c] = node
        /\ \A d \in ListedCalls : d # c => lastNode'[d] = lastNode[d]
    BY <1>1, <2>1
  <2>5. CASE wireEvents' = Append(wireEvents, e) /\ UNCHANGED missed
    <3>1. wireEvents' \in Seq(WireEvent)
      BY <1>1, <2>5, WireAppend
    <3>2. ASSUME NEW d \in ListedCalls, d \notin missed
          PROVE  Behind(d)'
      <4>1. CASE d = c
        BY <1>1, <2>2, <2>3, <2>4, <2>5, <3>2, <4>1, NodeEventSent
      <4>2. CASE d # c
        BY <1>1, <2>2, <2>3, <2>4, <2>5, <3>2, <4>2, OtherCallSent
      <4> QED BY <4>1, <4>2
    <3> QED BY <1>1, <2>3, <2>4, <2>5, <3>1, <3>2 DEF BoardInv
  <2>6. CASE missed' = missed \cup {c} /\ UNCHANGED wireEvents
    BY <1>1, <2>3, <2>4, <2>6
       DEF BoardInv, Behind, StartFirst, EndKnown, NodeKnown, Unheard, OnWire
  <2> QED BY <2>1, <2>2, <2>5, <2>6 DEF relayEvent
<1>6. CASE handleDisconnect
  <2>1. /\ wireEvents' = <<>> /\ UNCHANGED <<published, lastNode, activeCalls>>
        /\ missed' = missed \cup {wireEvents[i].call : i \in DOMAIN wireEvents}
    BY <1>6 DEF handleDisconnect
  <2>2. wireEvents' \in Seq(WireEvent) /\ DOMAIN wireEvents' = {}
    BY <2>1
  <2>3. ASSUME NEW c \in ListedCalls, c \notin missed'
        PROVE  Behind(c)'
    <3>1. Behind(c) /\ \A i \in DOMAIN wireEvents : wireEvents[i].call # c
      BY <1>1, <2>1, <2>3
    <3>2. \A types : ~OnWire(c, types) /\ ~OnWire(c, types)'
      BY <2>2, <3>1 DEF OnWire
    <3> QED BY <2>1, <2>2, <3>1, <3>2 DEF Behind, StartFirst, EndKnown, NodeKnown, Unheard
  <2> QED BY <1>1, <2>1, <2>2, <2>3 DEF BoardInv
<1>7. CASE handleCallEvent \/ handleCallTimeline
  <2>1. UNCHANGED <<published, lastNode, missed>>
    BY <1>7 DEF handleCallEvent, handleCallTimeline
  <2>2. PICK c, type, shows :
          /\ c \in ListedCalls /\ type \in CallKinds \cup NodeKinds
          /\ Arrives([call |-> c, type |-> type])
          /\ activeCalls' = [activeCalls EXCEPT ![c] = shows]
          /\ \/ type = "started" /\ shows = "IN_IVR"
             \/ type \in {"failed", "ended"} /\ shows = "none"
             \/ type \in NodeKinds /\ shows = Timeline(c, type)
    <3>1. CASE handleCallEvent
      <4>1. PICK c \in ListedCalls, type \in CallKinds :
              /\ Arrives([call |-> c, type |-> type])
              /\ activeCalls' = [activeCalls EXCEPT ![c] = IF type = "started" THEN "IN_IVR" ELSE "none"]
        BY <3>1 DEF handleCallEvent, CallKinds
      <4> QED BY <4>1 DEF CallKinds
    <3>2. CASE handleCallTimeline
      BY <3>2 DEF handleCallTimeline
    <3> QED BY <1>7, <3>1, <3>2
  <2>3. PICK e : e = [call |-> c, type |-> type]
    OBVIOUS
  <2>4. e.call = c /\ e.type = type /\ Arrives(e)
    BY <2>2, <2>3
  <2>5. /\ DOMAIN activeCalls' = ListedCalls /\ activeCalls'[c] = shows
        /\ \A d \in ListedCalls : d # c => activeCalls'[d] = activeCalls[d]
    BY <1>1, <2>2
  <2>6. wireEvents' \in Seq(WireEvent)
    BY <1>1, <2>4, WireTail
  <2>7. ASSUME NEW d \in ListedCalls, d \notin missed
        PROVE  Behind(d)'
    <3>1. CASE d = c
      BY <1>1, <2>1, <2>2, <2>4, <2>5, <2>7, <3>1, EventArrived
    <3>2. CASE d # c
      BY <1>1, <2>1, <2>4, <2>5, <2>7, <3>2, OtherCallArrived
    <3> QED BY <3>1, <3>2
  <2> QED BY <1>1, <2>1, <2>5, <2>6, <2>7 DEF BoardInv
<1> QED BY <1>3, <1>4, <1>5, <1>6, <1>7 DEF BoardNext

(* What a page keeps running it can stop, and what it lists is so: the      *)
(* softphone's ring and timer, the polls of a trunk test, and the calls of  *)
(* the dashboard.                                                           *)
THEOREM PagesKeepUpHolds == PlatformSpec => []PagesKeepUp
<1> DEFINE Inv == PhoneInv /\ PanelInv /\ BoardInv
<1>1. PlatformInit => Inv
  <2> SUFFICES ASSUME PlatformInit
               PROVE  Inv
    OBVIOUS
  <2>1. PhoneInit /\ PanelInit /\ BoardInit
    BY DEF PlatformInit
  <2>2. PhoneInv
    BY <2>1 DEF PhoneInit, PhoneInv, SoftphoneQuiet
  <2>3. PanelInv
    BY <2>1 DEF PanelInit, PanelInv, PollsAreNamed
  <2>4. wireEvents \in Seq(WireEvent) /\ DOMAIN wireEvents = {}
    BY <2>1 DEF BoardInit
  <2>5. BoardInv
    BY <2>1, <2>4 DEF BoardInit, BoardInv, Behind, StartFirst, EndKnown, NodeKnown, Unheard, OnWire
  <2> QED BY <2>2, <2>3, <2>5
<1>2. Inv /\ [PlatformNext]_platformVars => Inv'
  BY PhoneSteps, PhoneStep, PanelSteps, PanelStep, BoardSteps, BoardStep
<1>3. Inv => PagesKeepUp
  <2> SUFFICES ASSUME Inv
               PROVE  PagesKeepUp
    OBVIOUS
  <2>1. SoftphoneQuiet /\ PollsAreNamed
    BY DEF PhoneInv, PanelInv
  <2>2. ASSUME NEW c \in ListedCalls, c \notin missed, \A i \in DOMAIN wireEvents : wireEvents[i].call # c
        PROVE  activeCalls[c] = IF published[c] = "started" THEN deriveState(lastNode[c]) ELSE "none"
    <3>1. EndKnown(c) /\ NodeKnown(c)
      BY <2>2 DEF BoardInv, Behind
    <3>2. \A types : ~OnWire(c, types)
      BY <2>2 DEF OnWire
    <3> QED BY <3>1, <3>2 DEF EndKnown, NodeKnown
  <2> QED BY <2>1, <2>2 DEF PagesKeepUp, DashboardListsCalls
<1> QED BY <1>1, <1>2, <1>3, PTL DEF PlatformSpec
-----------------------------------------------------------------------------
(* The flow editor, until an answer or a closure meets another flow: what   *)
(* is under way belongs to the flow it names, an initialized page has the   *)
(* canvas of the flow shown, and the load under way is of that flow.        *)
Drawing == [of : EditorFlows, edit : Nat, fault : EditFaults \cup {"none"}]
EditorTypes ==
  /\ stored \in [EditorFlows -> Drawing] /\ shown \in EditorFlows
  /\ canvas \in Drawing /\ snapshot \in Drawing /\ edits \in Nat
  /\ load \in {Off} \cup [pc : {"asked", "got", "failed"}, flow : EditorFlows, body : Drawing]
  /\ retry \in {Off} \cup [pc : {"asked"}, flow : EditorFlows, body : Drawing]
  /\ timer \in {Off} \cup [pc : {"on"}, target : EditorFlows, body : Drawing]
  /\ save \in {Off} \cup [pc : {"sent", "stored", "done", "failed"}, target : EditorFlows, body : Drawing,
                          auto : BOOLEAN, forNav : BOOLEAN]
  /\ opener.target \in EditorFlows /\ opener.body \in Drawing
  /\ nav \in {Off} \cup [pc : {"go", "saving", "ask"}, to : EditorFlows]
  /\ save # Off /\ save.forNav => nav.pc = "saving"
EditorKeeps ==
  /\ \A f \in EditorFlows : stored[f].of = f
  /\ load # Off => load.flow = shown /\ load.body.of = load.flow
  /\ retry # Off => retry.body.of = retry.flow
  /\ timer # Off => timer.body.of = timer.target
  /\ save # Off => save.body.of = save.target
  /\ ready => canvas.of = shown

EditorInv == EditorTypes /\ (~crossed => EditorKeeps)

(* A step of another component leaves the editor alone.                     *)
LEMMA EditorSteps ==
  ASSUME [PlatformNext]_platformVars
  PROVE  [EditorNext]_editorVars
BY DEF PlatformNext, Only, platformVars
(* A flow that was never edited.                                            *)
LEMMA BlankType ==
  ASSUME NEW f \in EditorFlows
  PROVE  Blank(f) \in Drawing /\ Blank(f).of = f
BY DEF Blank, Drawn, Drawing

(* The autosave effect takes the canvas for the flow shown.                 *)
LEMMA RearmStep ==
  ASSUME Rearm, canvas' \in Drawing, shown' \in EditorFlows
  PROVE  /\ timer' \in {Off} \cup [pc : {"on"}, target : EditorFlows, body : Drawing]
         /\ (ready' => canvas'.of = shown') => (timer' # Off => timer'.body.of = timer'.target)
<1>1. CASE ready' /\ canvas' # snapshot'
  <2>1. timer' = [pc |-> "on", target |-> shown', body |-> canvas']
    BY <1>1 DEF Rearm
  <2> QED BY <1>1, <2>1
<1>2. CASE ~(ready' /\ canvas' # snapshot')
  BY <1>2 DEF Rearm
<1> QED BY <1>1, <1>2

(* What is asked to be saved.                                               *)
LEMMA StartSaveStep ==
  ASSUME NEW target \in EditorFlows, NEW body \in Drawing, NEW auto \in BOOLEAN, NEW forNav \in BOOLEAN,
         StartSave(target, body, auto, forNav)
  PROVE  /\ save' \in {Off} \cup [pc : {"sent", "stored", "done", "failed"}, target : EditorFlows,
                                 body : Drawing, auto : BOOLEAN, forNav : BOOLEAN]
         /\ body.of = target => save'.body.of = save'.target
         /\ save'.forNav = forNav
BY DEF StartSave

(* The flow shown is set: an initialized page shows what it showed.         *)
LEMMA ShowsStep ==
  ASSUME EditorTypes, EditorKeeps, NEW f \in EditorFlows, Shows(f), canvas' \in Drawing
  PROVE  /\ shown' = f /\ (ready' => ready /\ f = shown)
         /\ load' \in {Off} \cup [pc : {"asked", "got", "failed"}, flow : EditorFlows, body : Drawing]
         /\ load' # Off => load'.flow = shown' /\ load'.body.of = load'.flow
         /\ opener'.target \in EditorFlows /\ opener'.body \in Drawing
         /\ timer' \in {Off} \cup [pc : {"on"}, target : EditorFlows, body : Drawing]
         /\ (ready' => canvas'.of = shown') => (timer' # Off => timer'.body.of = timer'.target)
<1>1. shown' = f /\ (ready' => ready /\ f = shown) /\ Rearm
  BY DEF Shows
<1>2. CASE f = shown
  BY <1>1, <1>2, RearmStep DEF Shows, EditorTypes, EditorKeeps
<1>3. CASE f # shown
  <2>1. load' = [pc |-> "asked", flow |-> f, body |-> Blank(f)]
    BY <1>3 DEF Shows
  <2>2. /\ load' \in [pc : {"asked", "got", "failed"}, flow : EditorFlows, body : Drawing]
        /\ load'.flow = f /\ load'.body.of = f
    BY <2>1, BlankType
  <2>3. PICK u : opener' = [target |-> f, body |-> canvas', unsaved |-> u]
    BY <1>3 DEF Shows
  <2>4. opener'.target \in EditorFlows /\ opener'.body \in Drawing
    BY <2>3
  <2> QED BY <1>1, <2>2, <2>4, RearmStep
<1> QED BY <1>2, <1>3

(* The loads and the edits.                                                 *)
LEMMA LoadingStep ==
  ASSUME EditorTypes, EditorKeeps, ~crossed,
         LoadReads \/ LoadShown \/ RetryLoad \/ RetryShown \/ Edit
  PROVE  EditorInv'
<1>1. CASE LoadReads
  <2>1. load \in [pc : {"asked", "got", "failed"}, flow : EditorFlows, body : Drawing] /\ load # Off
    BY <1>1 DEF LoadReads, EditorTypes, Off
  <2>2. stored[load.flow] \in Drawing /\ stored[load.flow].of = load.flow
    BY <2>1 DEF EditorTypes, EditorKeeps
  <2>3. /\ load' \in [pc : {"asked", "got", "failed"}, flow : EditorFlows, body : Drawing]
        /\ load'.flow = load.flow /\ load'.body.of = load.flow
    <3>1. CASE load' = [load EXCEPT !.pc = "got", !.body = stored[load.flow]]
      BY <2>1, <2>2, <3>1
    <3>2. CASE load' = [load EXCEPT !.pc = "failed"]
      BY <2>1, <3>2 DEF EditorKeeps
    <3> QED BY <1>1, <3>1, <3>2 DEF LoadReads
  <2> QED BY <1>1, <2>1, <2>3 DEF LoadReads, EditorInv, EditorTypes, EditorKeeps
<1>2. CASE LoadShown
  <2>1. load \in [pc : {"asked", "got", "failed"}, flow : EditorFlows, body : Drawing] /\ load # Off
    BY <1>2 DEF LoadShown, EditorTypes, Off
  <2>2. load.body \in Drawing /\ load.body.of = shown
    BY <2>1 DEF EditorKeeps
  <2> QED BY <1>2, <2>2 DEF LoadShown, Received, EditorInv, EditorTypes, EditorKeeps
<1>3. CASE RetryLoad
  <2>1. retry' = [pc |-> "asked", flow |-> shown, body |-> stored[shown]]
    BY <1>3 DEF RetryLoad
  <2>2. /\ retry' \in [pc : {"asked"}, flow : EditorFlows, body : Drawing]
        /\ retry'.body.of = retry'.flow
    BY <2>1 DEF EditorTypes, EditorKeeps
  <2> QED BY <1>3, <2>2 DEF RetryLoad, EditorInv, EditorTypes, EditorKeeps
<1>4. CASE RetryShown
  <2>1. retry \in [pc : {"asked"}, flow : EditorFlows, body : Drawing] /\ retry # Off
    BY <1>4 DEF RetryShown, EditorTypes
  <2>2. retry.body \in Drawing /\ retry.body.of = retry.flow
    BY <2>1 DEF EditorKeeps
  <2>3. CASE /\ Received(retry.flow, retry.body) /\ ready' = TRUE /\ timer' = Off
             /\ crossed' = (crossed \/ retry.flow # shown) /\ UNCHANGED load
    BY <1>4, <2>2, <2>3 DEF RetryShown, Received, EditorInv, EditorTypes, EditorKeeps
  <2>4. CASE /\ load' = IF load = Off THEN [pc |-> "failed", flow |-> shown, body |-> Blank(shown)] ELSE load
             /\ UNCHANGED <<flowIs, canvas, snapshot, ready, timer, crossed>>
    <3>1. Blank(shown) \in Drawing /\ Blank(shown).of = shown
      BY BlankType DEF EditorTypes
    <3>2. /\ load' \in {Off} \cup [pc : {"asked", "got", "failed"}, flow : EditorFlows, body : Drawing]
          /\ load' # Off => load'.flow = shown /\ load'.body.of = load'.flow
      BY <2>4, <3>1 DEF EditorTypes, EditorKeeps
    <3> QED BY <1>4, <2>4, <3>2 DEF RetryShown, EditorInv, EditorTypes, EditorKeeps
  <2> QED BY <1>4, <2>3, <2>4 DEF RetryShown
<1>5. CASE Edit
  <2>1. PICK fault \in EditFaults \cup {"none"} :
          /\ canvas' = Drawn(canvas.of, edits + 1, fault)
          /\ timer' = timer \/ Rearm
    BY <1>5 DEF Edit
  <2>2. canvas' \in Drawing /\ canvas'.of = canvas.of
    BY <2>1 DEF Drawn, Drawing, EditorTypes
  <2>3. /\ UNCHANGED <<stored, shown, snapshot, ready, load, retry, save, opener, nav, crossed>>
        /\ edits' \in Nat
    BY <1>5 DEF Edit, EditorTypes
  <2>4. /\ timer' \in {Off} \cup [pc : {"on"}, target : EditorFlows, body : Drawing]
        /\ timer' # Off => timer'.body.of = timer'.target
    BY <2>1, <2>2, <2>3, RearmStep DEF EditorTypes, EditorKeeps
  <2> QED BY <2>2, <2>3, <2>4 DEF EditorInv, EditorTypes, EditorKeeps
<1> QED BY <1>1, <1>2, <1>3, <1>4, <1>5

(* A step that leaves the server, the flow shown and the canvas, and may    *)
(* start a save.                                                            *)
LEMMA AskStep ==
  ASSUME EditorTypes, EditorKeeps, Rearm,
         UNCHANGED <<stored, shown, canvas, snapshot, ready, load, retry, opener, edits>>,
         save' \in {Off} \cup [pc : {"sent", "stored", "done", "failed"}, target : EditorFlows,
                              body : Drawing, auto : BOOLEAN, forNav : BOOLEAN],
         ~crossed' => (save' # Off => save'.body.of = save'.target),
         nav' \in {Off} \cup [pc : {"go", "saving", "ask"}, to : EditorFlows],
         save' # Off /\ save'.forNav => nav'.pc = "saving"
  PROVE  EditorInv'
<1>1. canvas' \in Drawing /\ shown' \in EditorFlows
  BY DEF EditorTypes
<1>2. /\ timer' \in {Off} \cup [pc : {"on"}, target : EditorFlows, body : Drawing]
      /\ timer' # Off => timer'.body.of = timer'.target
  BY <1>1, RearmStep DEF EditorKeeps
<1> QED BY <1>2 DEF EditorInv, EditorTypes, EditorKeeps
(* The saves.                                                               *)
LEMMA SavingStep ==
  ASSUME EditorTypes, EditorKeeps, ~crossed,
         AutoSave \/ SaveButton \/ saveFlow \/ SaveAnswered \/ SaveSettles \/ handleCreateVersion
  PROVE  EditorInv'
<1> DEFINE Saves == [pc : {"sent", "stored", "done", "failed"}, target : EditorFlows, body : Drawing,
                     auto : BOOLEAN, forNav : BOOLEAN]
<1>1. CASE AutoSave
  <2>1. CASE save = Off /\ Accepted(timer.body, TRUE)
    <3>1. /\ StartSave(timer.target, timer.body, TRUE, FALSE) /\ Rearm
          /\ UNCHANGED <<stored, shown, canvas, snapshot, ready, load, retry, opener, nav, edits, crossed>>
      BY <1>1, <2>1 DEF AutoSave
    <3>2. timer.target \in EditorFlows /\ timer.body \in Drawing /\ timer.body.of = timer.target
      BY <1>1 DEF AutoSave, EditorTypes, EditorKeeps
    <3>3. save' \in {Off} \cup Saves /\ save'.body.of = save'.target /\ ~save'.forNav
      BY <3>1, <3>2, StartSaveStep
    <3> QED BY <3>1, <3>3, AskStep DEF EditorTypes
  <2>2. CASE ~(save = Off /\ Accepted(timer.body, TRUE))
    <3>1. timer' = Off /\ UNCHANGED save
      BY <1>1, <2>2 DEF AutoSave
    <3> QED BY <1>1, <3>1 DEF AutoSave, EditorInv, EditorTypes, EditorKeeps
  <2> QED BY <2>1, <2>2
<1>2. CASE SaveButton
  <2>1. /\ StartSave(shown, canvas, FALSE, FALSE) /\ Rearm /\ (~crossed' => ready)
        /\ UNCHANGED <<stored, shown, canvas, snapshot, ready, load, retry, opener, nav, edits>>
    BY <1>2 DEF SaveButton
  <2>2. save' \in {Off} \cup Saves /\ (canvas.of = shown => save'.body.of = save'.target) /\ ~save'.forNav
    BY <2>1, StartSaveStep DEF EditorTypes
  <2> QED BY <2>1, <2>2, AskStep DEF EditorTypes, EditorKeeps
<1>3. CASE handleCreateVersion
  <2>1. /\ StartSave(shown, canvas, FALSE, FALSE) /\ Rearm /\ ready
        /\ UNCHANGED <<stored, shown, canvas, snapshot, ready, load, retry, opener, nav, edits>>
    BY <1>3 DEF handleCreateVersion, hasUnsavedChanges
  <2>2. save' \in {Off} \cup Saves /\ (canvas.of = shown => save'.body.of = save'.target) /\ ~save'.forNav
    BY <2>1, StartSaveStep DEF EditorTypes
  <2> QED BY <2>1, <2>2, AskStep DEF EditorTypes, EditorKeeps
<1>4. CASE saveFlow
  <2>1. save \in Saves /\ save # Off
    BY <1>4 DEF saveFlow, EditorTypes, Off
  <2>2. save.target \in EditorFlows /\ save.body \in Drawing /\ save.body.of = save.target
    BY <2>1 DEF EditorKeeps
  <2>3. PICK pc \in {"stored", "failed"} : save' = [save EXCEPT !.pc = pc]
    BY <1>4 DEF saveFlow
  <2>4. /\ save' \in Saves /\ save'.body = save.body /\ save'.target = save.target
        /\ save'.forNav = save.forNav
    BY <2>1, <2>3
  <2>5. stored' = stored \/ stored' = [stored EXCEPT ![save.target] = save.body]
    BY <1>4 DEF saveFlow
  <2>6. stored' \in [EditorFlows -> Drawing] /\ \A f \in EditorFlows : stored'[f].of = f
    BY <2>2, <2>5 DEF EditorTypes, EditorKeeps
  <2> QED BY <1>4, <2>1, <2>2, <2>4, <2>6 DEF saveFlow, EditorInv, EditorTypes, EditorKeeps
<1>5. CASE SaveAnswered
  <2>1. save \in Saves /\ save # Off
    BY <1>5 DEF SaveAnswered, EditorTypes, Off
  <2>2. save.target \in EditorFlows /\ save.body \in Drawing /\ save.body.of = save.target
    BY <2>1 DEF EditorKeeps
  <2>3. PICK f \in EditorFlows : f = save.target
    BY <2>2
  <2>4. /\ save' \in Saves /\ save'.body = save.body /\ save'.target = save.target
        /\ save'.forNav = save.forNav
    BY <1>5, <2>1 DEF SaveAnswered
  <2>5. /\ snapshot' \in Drawing /\ canvas' \in Drawing /\ (canvas' = canvas \/ canvas'.of = f)
        /\ Shows(f)
    BY <1>5, <2>2, <2>3 DEF SaveAnswered, EditorTypes
  <2>6. /\ shown' = f /\ (ready' => ready /\ f = shown)
        /\ load' \in {Off} \cup [pc : {"asked", "got", "failed"}, flow : EditorFlows, body : Drawing]
        /\ load' # Off => load'.flow = shown' /\ load'.body.of = load'.flow
        /\ opener'.target \in EditorFlows /\ opener'.body \in Drawing
        /\ timer' \in {Off} \cup [pc : {"on"}, target : EditorFlows, body : Drawing]
        /\ (ready' => canvas'.of = shown') => (timer' # Off => timer'.body.of = timer'.target)
    BY <2>5, ShowsStep
  <2>7. ready' => canvas'.of = shown'
    BY <2>5, <2>6 DEF EditorKeeps
  <2>8. UNCHANGED <<stored, retry, nav, edits, crossed>>
    BY <1>5 DEF SaveAnswered
  <2> QED BY <2>1, <2>2, <2>4, <2>5, <2>6, <2>7, <2>8 DEF EditorInv, EditorTypes, EditorKeeps
<1>6. CASE SaveSettles
  <2>1. save # Off /\ save' = Off
    BY <1>6 DEF SaveSettles, Off
  <2>2. nav' \in {Off} \cup [pc : {"go", "saving", "ask"}, to : EditorFlows]
    <3>1. CASE nav' = nav
      BY <3>1 DEF EditorTypes
    <3>2. CASE save.forNav /\ \E pc \in {"go", "ask"} : nav' = [nav EXCEPT !.pc = pc]
      <4>1. nav \in [pc : {"go", "saving", "ask"}, to : EditorFlows]
        BY <2>1, <3>2 DEF EditorTypes, Off
      <4> QED BY <3>2, <4>1
    <3> QED BY <1>6, <3>1, <3>2 DEF SaveSettles
  <2> QED BY <1>6, <2>1, <2>2, AskStep DEF SaveSettles
<1> QED BY <1>1, <1>2, <1>3, <1>4, <1>5, <1>6
(* Navigation: what ensureSavedBeforeNavigation asks for, given that the    *)
(* drawing it saves, if it does, belongs to its flow or the step is marked. *)
LEMMA EnsureSavedStep ==
  ASSUME EditorTypes, EditorKeeps, nav = Off, Rearm,
         NEW to \in EditorFlows, NEW unsaved, NEW target \in EditorFlows, NEW body \in Drawing,
         ensureSavedBeforeNavigation(to, unsaved, target, body),
         ~crossed' /\ unsaved => body.of = target,
         UNCHANGED <<stored, shown, canvas, snapshot, ready, load, retry, opener, edits>>
  PROVE  EditorInv'
<1> DEFINE Saves == [pc : {"sent", "stored", "done", "failed"}, target : EditorFlows, body : Drawing,
                     auto : BOOLEAN, forNav : BOOLEAN]
<1>1. nav.pc # "saving"
  BY DEF Off
<1>2. CASE unsaved /\ save = Off /\ Accepted(body, TRUE)
  <2>1. nav' = [pc |-> "saving", to |-> to] /\ StartSave(target, body, TRUE, TRUE)
    BY <1>2 DEF ensureSavedBeforeNavigation
  <2>2. /\ nav' \in {Off} \cup [pc : {"go", "saving", "ask"}, to : EditorFlows]
        /\ nav'.pc = "saving"
    BY <2>1
  <2>3. save' \in {Off} \cup Saves /\ (body.of = target => save'.body.of = save'.target)
    BY <2>1, StartSaveStep
  <2> QED BY <1>2, <2>2, <2>3, AskStep
<1>3. CASE ~(unsaved /\ save = Off /\ Accepted(body, TRUE))
  <2>1. UNCHANGED save /\ \E pc \in {"go", "ask"} : nav' = [pc |-> pc, to |-> to]
    BY <1>3 DEF ensureSavedBeforeNavigation
  <2>2. nav' \in {Off} \cup [pc : {"go", "saving", "ask"}, to : EditorFlows]
    BY <2>1
  <2>3. ~(save # Off /\ save.forNav)
    BY <1>1 DEF EditorTypes
  <2> QED BY <2>1, <2>2, <2>3, AskStep DEF EditorTypes, EditorKeeps
<1> QED BY <1>2, <1>3

(* The ways into a submenu and back, and the simulator.                     *)
LEMMA NavigationStep ==
  ASSUME EditorTypes, EditorKeeps, ~crossed,
         \/ handleBreadcrumbNavigate \/ handleOpenSubmenu \/ handleOpenOrCreateSubmenu
         \/ NavGo \/ requestLeave \/ \E f \in EditorFlows : SimulatorShows(f)
  PROVE  EditorInv'
<1>1. RootOf \in EditorFlows /\ SubOf \in EditorFlows
  BY DEF EditorFlows
<1>2. shown \in EditorFlows /\ canvas \in Drawing /\ opener.target \in EditorFlows /\ opener.body \in Drawing
  BY DEF EditorTypes
<1>3. CASE handleBreadcrumbNavigate
  <2>1. /\ ensureSavedBeforeNavigation(RootOf, hasUnsavedChanges, shown, canvas) /\ nav = Off /\ Rearm
        /\ UNCHANGED <<stored, shown, canvas, snapshot, ready, load, retry, opener, edits>>
    BY <1>3 DEF handleBreadcrumbNavigate
  <2>2. hasUnsavedChanges => canvas.of = shown
    BY DEF hasUnsavedChanges, EditorKeeps
  <2> QED BY <1>1, <1>2, <2>1, <2>2, EnsureSavedStep
<1>4. CASE handleOpenSubmenu
  <2>1. /\ ensureSavedBeforeNavigation(SubOf, opener.unsaved, opener.target, opener.body) /\ nav = Off /\ Rearm
        /\ UNCHANGED <<stored, shown, canvas, snapshot, ready, load, retry, opener, edits>>
        /\ ~crossed' => ~opener.unsaved
    BY <1>4 DEF handleOpenSubmenu
  <2> QED BY <1>1, <1>2, <2>1, EnsureSavedStep
<1>5. CASE handleOpenOrCreateSubmenu
  <2>1. /\ StartSave(shown, canvas, FALSE, TRUE) /\ Rearm /\ ready /\ nav' = [pc |-> "saving", to |-> SubOf]
        /\ UNCHANGED <<stored, shown, canvas, snapshot, ready, load, retry, opener, edits>>
    BY <1>5 DEF handleOpenOrCreateSubmenu, hasUnsavedChanges
  <2>2. nav' \in {Off} \cup [pc : {"go", "saving", "ask"}, to : EditorFlows] /\ nav'.pc = "saving"
    BY <1>1, <2>1
  <2>3. /\ save' \in {Off} \cup [pc : {"sent", "stored", "done", "failed"}, target : EditorFlows,
                                body : Drawing, auto : BOOLEAN, forNav : BOOLEAN]
        /\ save'.body.of = save'.target
    BY <1>2, <2>1, StartSaveStep DEF EditorKeeps
  <2> QED BY <2>1, <2>2, <2>3, AskStep
<1>6. CASE requestLeave
  <2>1. nav \in [pc : {"go", "saving", "ask"}, to : EditorFlows] /\ nav.pc = "ask"
    BY <1>6 DEF requestLeave, EditorTypes, Off
  <2>2. nav' \in {Off} \cup [pc : {"go", "saving", "ask"}, to : EditorFlows]
    BY <1>6, <2>1 DEF requestLeave
  <2>3. ~(save # Off /\ save.forNav)
    BY <2>1 DEF EditorTypes
  <2> QED BY <1>6, <2>2, <2>3, AskStep DEF requestLeave, EditorTypes, EditorKeeps
<1>7. ASSUME NEW f \in EditorFlows, Shows(f),
             UNCHANGED <<stored, canvas, snapshot, retry, save, edits, crossed>>,
             nav' \in {Off} \cup [pc : {"go", "saving", "ask"}, to : EditorFlows],
             save # Off /\ save.forNav => nav'.pc = "saving"
      PROVE  EditorInv'
  <2>1. canvas' \in Drawing
    BY <1>2, <1>7
  <2>2. /\ shown' = f /\ (ready' => ready /\ f = shown)
        /\ load' \in {Off} \cup [pc : {"asked", "got", "failed"}, flow : EditorFlows, body : Drawing]
        /\ load' # Off => load'.flow = shown' /\ load'.body.of = load'.flow
        /\ opener'.target \in EditorFlows /\ opener'.body \in Drawing
        /\ timer' \in {Off} \cup [pc : {"on"}, target : EditorFlows, body : Drawing]
        /\ (ready' => canvas'.of = shown') => (timer' # Off => timer'.body.of = timer'.target)
    BY <1>7, <2>1, ShowsStep
  <2>3. ready' => canvas'.of = shown'
    BY <1>7, <2>2 DEF EditorKeeps
  <2> QED BY <1>7, <2>2, <2>3 DEF EditorInv, EditorTypes, EditorKeeps
<1>8. CASE NavGo
  <2>1. nav \in [pc : {"go", "saving", "ask"}, to : EditorFlows] /\ nav.pc = "go" /\ nav' = Off
    BY <1>8 DEF NavGo, EditorTypes, Off
  <2>2. PICK to \in EditorFlows : to = nav.to
    BY <2>1
  <2>3. ~(save # Off /\ save.forNav)
    BY <2>1 DEF EditorTypes
  <2>4. CASE Shows(nav.to)
    BY <1>7, <1>8, <2>1, <2>2, <2>3, <2>4 DEF NavGo
  <2>5. CASE UNCHANGED <<shown, ready, load, opener, timer>>
    BY <1>8, <2>1, <2>3, <2>5 DEF NavGo, EditorInv, EditorTypes, EditorKeeps
  <2> QED BY <1>8, <2>4, <2>5 DEF NavGo
<1>9. ASSUME NEW f \in EditorFlows, SimulatorShows(f)
      PROVE  EditorInv'
  BY <1>7, <1>9 DEF SimulatorShows, EditorTypes
<1> QED BY <1>3, <1>4, <1>5, <1>6, <1>8, <1>9

(* A version restored.                                                      *)
LEMMA RestoreStep ==
  ASSUME EditorTypes, EditorKeeps, ~crossed, handleConfirmRestore
  PROVE  EditorInv'
<1>1. RootOf \in EditorFlows /\ Blank(RootOf) \in Drawing /\ Blank(RootOf).of = RootOf
  BY BlankType DEF EditorFlows
<1>2. CASE restoring # "done"
  <2>1. stored' = stored \/ stored' = [stored EXCEPT ![RootOf] = Blank(RootOf)]
    BY <1>2 DEF handleConfirmRestore
  <2>2. stored' \in [EditorFlows -> Drawing] /\ \A f \in EditorFlows : stored'[f].of = f
    BY <1>1, <2>1 DEF EditorTypes, EditorKeeps
  <2>3. UNCHANGED <<canvas, snapshot, timer, crossed, shown, ready, load, retry, save, opener, nav, edits>>
    BY <1>2 DEF handleConfirmRestore
  <2> QED BY <2>2, <2>3 DEF EditorInv, EditorTypes, EditorKeeps
<1>3. CASE restoring = "done"
  <2>1. /\ canvas' = Blank(RootOf) /\ snapshot' = Blank(RootOf) /\ Rearm
        /\ crossed' = (crossed \/ shown # RootOf)
        /\ UNCHANGED <<stored, shown, ready, load, retry, save, opener, nav, edits>>
    BY <1>3 DEF handleConfirmRestore, Received
  <2>2. /\ timer' \in {Off} \cup [pc : {"on"}, target : EditorFlows, body : Drawing]
        /\ (ready' => canvas'.of = shown') => (timer' # Off => timer'.body.of = timer'.target)
    BY <1>1, <2>1, RearmStep DEF EditorTypes
  <2>3. ~crossed' => canvas'.of = shown'
    BY <1>1, <2>1
  <2> QED BY <1>1, <2>1, <2>2, <2>3 DEF EditorInv, EditorTypes, EditorKeeps
<1> QED BY <1>2, <1>3

(* A flow is only ever overwritten with a drawing made in it, until an      *)
(* answer or a closure has met another flow in one of the four known ways.  *)
THEOREM EditorWritesItsFlowHolds == PlatformSpec => []EditorWritesItsFlow
<1>1. PlatformInit => EditorInv
  <2> SUFFICES ASSUME PlatformInit
               PROVE  EditorInv
    OBVIOUS
  <2>1. EditorInit
    BY DEF PlatformInit
  <2>2. \A f \in EditorFlows : Blank(f) \in Drawing /\ Blank(f).of = f
    BY BlankType
  <2>3. RootOf \in EditorFlows
    BY DEF EditorFlows
  <2> QED BY <2>1, <2>2, <2>3 DEF EditorInit, EditorInv, EditorTypes, EditorKeeps
<1>2. EditorInv /\ [PlatformNext]_platformVars => EditorInv'
  <2> SUFFICES ASSUME EditorInv, [EditorNext]_editorVars
               PROVE  EditorInv'
    BY EditorSteps
  <2>1. CASE UNCHANGED editorVars
    BY <2>1 DEF editorVars, EditorInv, EditorTypes, EditorKeeps
  <2>2. CASE EditorNext
    <3>1. EditorTypes /\ EditorKeeps /\ ~crossed
      BY <2>2 DEF EditorNext, EditorInv
    <3> QED BY <2>2, <3>1, LoadingStep, SavingStep, NavigationStep, RestoreStep DEF EditorNext
  <2> QED BY <2>1, <2>2
<1>3. EditorInv => EditorWritesItsFlow
  BY DEF EditorInv, EditorKeeps, EditorWritesItsFlow
<1> QED BY <1>1, <1>2, <1>3, PTL DEF PlatformSpec
-----------------------------------------------------------------------------
(* The canvas: nodes with a type of their own, in groups that are there;     *)
(* edges that the rules allow; and the same of what was copied, where a node *)
(* may have left its group behind.                                           *)
CanvasNode == [type : PaletteTypes \cup {"start", "menu", "hangup", "group"},
               parent : CanvasIds \cup {NoParent}, menu : CanvasIds \cup {NoParent}]
CanvasEdge == [s : CanvasIds, t : CanvasIds, c : Branches \cup {Plain}]

NodesOk(ns) ==
  /\ DOMAIN ns \subseteq CanvasIds /\ ns \in [DOMAIN ns -> CanvasNode]
  /\ \A n \in DOMAIN ns :
       /\ ns[n].type = "start" => n = StartId /\ ns[n].menu = NoParent
       /\ ns[n].parent \in DOMAIN ns => ns[ns[n].parent].type = "group"

EdgesOk(ns, es) ==
  \A e \in es :
    /\ e \in CanvasEdge /\ e.s \in DOMAIN ns /\ e.t \in DOMAIN ns
    /\ ns[e.s].type # "group" /\ ns[e.t].type # "group"
    /\ TypesConnect(ns[e.s].type, ns[e.t].type)

Housed(ns) ==
  /\ StartId \in DOMAIN ns /\ ns[StartId].type = "start"
  /\ \A n \in DOMAIN ns : ns[n].parent \in DOMAIN ns \cup {NoParent}

CanvasInv ==
  /\ NodesOk(cnodes) /\ EdgesOk(cnodes, cedges) /\ Housed(cnodes)
  /\ NodesOk(clip.nodes) /\ EdgesOk(clip.nodes, clip.edges)

(* A step of another component leaves the canvas alone.                      *)
LEMMA CanvasSteps ==
  ASSUME [PlatformNext]_platformVars
  PROVE  [CanvasNext]_canvasVars
BY DEF PlatformNext, Only, platformVars

(* A node that is put in a group or taken out of one is otherwise as it was. *)
LEMMA NewParent ==
  ASSUME NEW x \in CanvasNode, NEW p \in CanvasIds \cup {NoParent}, NEW y,
         y = [x EXCEPT !.parent = p]
  PROVE  y \in CanvasNode /\ y.type = x.type /\ y.menu = x.menu /\ y.parent = p
BY DEF CanvasNode

(* A node that is put on the canvas.                                         *)
LEMMA NewNode ==
  ASSUME NEW t \in PaletteTypes \cup {"start", "menu", "hangup", "group"},
         NEW p \in CanvasIds \cup {NoParent}, NEW y, y = buildCanvasNode(t, p)
  PROVE  y \in CanvasNode /\ y.type = t /\ y.parent = p /\ y.menu = NoParent
BY DEF CanvasNode, buildCanvasNode

(* The nodes on the canvas have their types, the start node its own.         *)
LEMMA OnCanvas ==
  ASSUME CanvasInv
  PROVE  /\ Placed \subseteq CanvasIds /\ StartId \in Placed /\ Kind(StartId) = "start"
         /\ StartId \in CanvasIds /\ NoParent \notin CanvasIds
         /\ \A n \in Placed :
              /\ cnodes[n] \in CanvasNode /\ (Kind(n) = "start" <=> n = StartId)
              /\ cnodes[n].parent \in Placed \/ cnodes[n].parent = NoParent
              /\ cnodes[n].parent \in Placed => Kind(cnodes[n].parent) = "group"
         /\ cnodes[StartId].menu = NoParent
<1>1. NodesOk(cnodes) /\ Housed(cnodes)
  BY DEF CanvasInv
<1>2. Placed \subseteq CanvasIds /\ StartId \in Placed /\ Kind(StartId) = "start"
  BY <1>1 DEF NodesOk, Housed, Placed, Kind
<1>3. StartId \in CanvasIds /\ NoParent \notin CanvasIds
  BY CanvasAssumption DEF StartId, NoParent
<1>4. ASSUME NEW n \in Placed
      PROVE  /\ cnodes[n] \in CanvasNode /\ (Kind(n) = "start" <=> n = StartId)
             /\ cnodes[n].parent \in Placed \/ cnodes[n].parent = NoParent
             /\ cnodes[n].parent \in Placed => Kind(cnodes[n].parent) = "group"
  BY <1>1, <1>2 DEF NodesOk, Housed, Placed, Kind
<1>5. cnodes[StartId].menu = NoParent
  BY <1>1, <1>2 DEF NodesOk, Placed, Kind
<1> QED BY <1>2, <1>3, <1>4, <1>5

(* Nodes come, go and change groups; each keeps its type, and no node is     *)
(* left in a group that is not there.                                        *)
LEMMA Rearranged ==
  ASSUME CanvasInv, NEW ms, NEW D \in SUBSET CanvasIds,
         ms \in [D -> CanvasNode], StartId \in D,
         \A n \in D \cap Placed : ms[n].type = cnodes[n].type /\ ms[n].menu = cnodes[n].menu,
         \A n \in D \ Placed : ms[n].type # "start",
         \A n \in D : \/ ms[n].parent = NoParent
                      \/ ms[n].parent \in D /\ ms[ms[n].parent].type = "group"
  PROVE  NodesOk(ms) /\ Housed(ms) /\ DOMAIN ms = D
<1>1. DOMAIN ms = D
  OBVIOUS
<1>2. ASSUME NEW n \in D, ms[n].type = "start"
      PROVE  n = StartId /\ ms[n].menu = NoParent
  BY <1>2, OnCanvas DEF Kind
<1>3. ASSUME NEW n \in D, ms[n].parent \in D
      PROVE  ms[ms[n].parent].type = "group"
  BY <1>3, OnCanvas
<1>4. ms[StartId].type = "start"
  BY OnCanvas DEF Kind
<1> QED BY <1>1, <1>2, <1>3, <1>4 DEF NodesOk, Housed

(* Edges between nodes that stay are as they were.                           *)
LEMMA EdgesCarry ==
  ASSUME NEW ns, NEW es, EdgesOk(ns, es), NEW ms, NEW fs \in SUBSET es,
         \A e \in fs : e.s \in DOMAIN ms /\ e.t \in DOMAIN ms,
         \A n \in DOMAIN ns \cap DOMAIN ms : ms[n].type = ns[n].type
  PROVE  EdgesOk(ms, fs)
BY DEF EdgesOk

(* What a step does to the nodes alone, or to the edges alone.               *)
LEMMA NodesStep ==
  ASSUME CanvasInv, NEW ms, NEW D \in SUBSET CanvasIds, cnodes' = ms, UNCHANGED clip,
         ms \in [D -> CanvasNode], StartId \in D,
         \A n \in D \cap Placed : ms[n].type = cnodes[n].type /\ ms[n].menu = cnodes[n].menu,
         \A n \in D \ Placed : ms[n].type # "start",
         \A n \in D : \/ ms[n].parent = NoParent
                      \/ ms[n].parent \in D /\ ms[ms[n].parent].type = "group",
         cedges' \subseteq cedges, \A e \in cedges' : e.s \in D /\ e.t \in D
  PROVE  CanvasInv'
<1>1. NodesOk(ms) /\ Housed(ms) /\ DOMAIN ms = D
  BY Rearranged
<1>2. EdgesOk(cnodes, cedges) /\ NodesOk(clip.nodes) /\ EdgesOk(clip.nodes, clip.edges)
  BY DEF CanvasInv
<1>3. \A n \in DOMAIN cnodes \cap DOMAIN ms : ms[n].type = cnodes[n].type
  BY <1>1 DEF Placed
<1>4. EdgesOk(ms, cedges')
  BY <1>1, <1>2, <1>3, EdgesCarry
<1>5. NodesOk(cnodes') /\ Housed(cnodes') /\ EdgesOk(cnodes', cedges')
  BY <1>1, <1>4
<1>6. NodesOk(clip'.nodes) /\ EdgesOk(clip'.nodes, clip'.edges)
  BY <1>2
<1> QED BY <1>5, <1>6 DEF CanvasInv, NodesOk, EdgesOk, Housed, TypesConnect

(* Each edge that is new joins two nodes that may be connected.              *)
LEMMA EdgesStep ==
  ASSUME CanvasInv, UNCHANGED <<cnodes, clip>>,
         \A e \in cedges' \ cedges :
            /\ e \in CanvasEdge /\ e.s \in Placed \ Groups /\ e.t \in Placed \ Groups
            /\ TypesConnect(Kind(e.s), Kind(e.t))
  PROVE  CanvasInv'
<1>1. EdgesOk(cnodes, cedges)
  BY DEF CanvasInv
<1>2. EdgesOk(cnodes, cedges')
  <2> SUFFICES ASSUME NEW e \in cedges'
               PROVE  /\ e \in CanvasEdge /\ e.s \in DOMAIN cnodes /\ e.t \in DOMAIN cnodes
                      /\ cnodes[e.s].type # "group" /\ cnodes[e.t].type # "group"
                      /\ TypesConnect(cnodes[e.s].type, cnodes[e.t].type)
    BY DEF EdgesOk
  <2>1. CASE e \in cedges
    BY <1>1, <2>1 DEF EdgesOk
  <2>2. CASE e \notin cedges
    BY <2>2 DEF Placed, Groups, IsGroup, Kind
  <2> QED BY <2>1, <2>2
<1> QED BY <1>2 DEF CanvasInv, NodesOk, EdgesOk, Housed, TypesConnect

(* Each edge ends at nodes that are no groups.                               *)
LEMMA EdgeEnds ==
  ASSUME CanvasInv, NEW e \in cedges
  PROVE  /\ e \in CanvasEdge /\ e.s \in Placed \ Groups /\ e.t \in Placed \ Groups
         /\ TypesConnect(Kind(e.s), Kind(e.t))
BY DEF CanvasInv, EdgesOk, Placed, Groups, IsGroup, Kind

(* A node that is deleted takes its edges and leaves no one in its group.    *)
LEMMA DeleteStep ==
  ASSUME CanvasInv, NEW ns \in SUBSET Placed, deleteNodes(ns)
  PROVE  CanvasInv'
<1>1. PICK gone : gone = UNION {RemovedWith(n) : n \in {m \in ns : Kind(m) # "start"}}
  OBVIOUS
<1>2. PICK ms : /\ ms = Freed(Restrict(cnodes, Placed \ gone), {g \in gone : IsGroup(g)})
                /\ cnodes' = ms
  BY <1>1 DEF deleteNodes
<1>3. cedges' = cedges \ Touching(gone) /\ UNCHANGED clip
  BY <1>1 DEF deleteNodes
<1>4. gone \subseteq Placed
  BY <1>1 DEF RemovedWith
<1>5. StartId \notin gone
  <2> SUFFICES ASSUME NEW n \in ns, Kind(n) # "start", StartId \in RemovedWith(n)
               PROVE  FALSE
    BY <1>1
  <2>1. n # StartId /\ n \in CanvasIds
    BY OnCanvas
  <2>2. cnodes[StartId].menu = n
    BY <2>1 DEF RemovedWith
  <2> QED BY <2>1, <2>2, OnCanvas
<1>6. PICK D : D = Placed \ gone
  OBVIOUS
<1>7. ms = [n \in D |-> IF cnodes[n].parent \in {g \in gone : IsGroup(g)}
                        THEN [cnodes[n] EXCEPT !.parent = NoParent] ELSE cnodes[n]]
  BY <1>2, <1>6 DEF Freed, Restrict
<1>8. D \in SUBSET CanvasIds /\ StartId \in D
  BY <1>5, <1>6, OnCanvas
<1>9. ASSUME NEW n \in D
      PROVE  /\ ms[n] \in CanvasNode /\ ms[n].type = cnodes[n].type /\ ms[n].menu = cnodes[n].menu
             /\ ms[n].parent = NoParent \/ (ms[n].parent \in D /\ cnodes[ms[n].parent].type = "group")
  <2>1. /\ cnodes[n] \in CanvasNode
        /\ cnodes[n].parent \in Placed \/ cnodes[n].parent = NoParent
        /\ cnodes[n].parent \in Placed => cnodes[cnodes[n].parent].type = "group"
    BY <1>6, OnCanvas DEF Kind
  <2>2. CASE cnodes[n].parent \in {g \in gone : IsGroup(g)}
    <3>1. ms[n] = [cnodes[n] EXCEPT !.parent = NoParent]
      BY <1>7, <2>2
    <3> QED BY <2>1, <3>1, NewParent
  <2>3. CASE cnodes[n].parent \notin {g \in gone : IsGroup(g)}
    <3>1. ms[n] = cnodes[n]
      BY <1>7, <2>3
    <3>2. cnodes[n].parent \notin gone
      BY <1>4, <2>1, <2>3 DEF IsGroup, Kind
    <3> QED BY <1>6, <2>1, <3>1, <3>2
  <2> QED BY <2>2, <2>3
<1>10. ms \in [D -> CanvasNode]
  BY <1>7, <1>9
<1>11. \A e \in cedges' : e.s \in D /\ e.t \in D
  BY <1>3, <1>6, EdgeEnds DEF Touching
<1>12. \A n \in D : \/ ms[n].parent = NoParent
                    \/ ms[n].parent \in D /\ ms[ms[n].parent].type = "group"
  BY <1>9
<1>13. cedges' \subseteq cedges /\ \A n \in D \ Placed : ms[n].type # "start"
  BY <1>3, <1>6
<1>14. \A n \in D \cap Placed : ms[n].type = cnodes[n].type /\ ms[n].menu = cnodes[n].menu
  BY <1>9
<1>15. cnodes' = ms /\ UNCHANGED clip
  BY <1>2, <1>3
<1> QED BY <1>8, <1>10, <1>11, <1>12, <1>13, <1>14, <1>15, NodesStep

(* A group that is opened lets its nodes out.                                *)
LEMMA UngroupStep ==
  ASSUME CanvasInv, handleUngroupSelection
  PROVE  CanvasInv'
<1>1. PICK g \in Groups : cnodes' = Freed(Restrict(cnodes, Placed \ {g}), {g})
  BY DEF handleUngroupSelection
<1>2. UNCHANGED <<cedges, clip>>
  BY DEF handleUngroupSelection
<1>3. g \in Placed /\ Kind(g) = "group" /\ g # StartId
  BY <1>1, OnCanvas DEF Groups, IsGroup
<1>4. PICK D : D = Placed \ {g}
  OBVIOUS
<1>5. PICK ms : /\ cnodes' = ms
                /\ ms = [n \in D |-> IF cnodes[n].parent \in {g}
                                     THEN [cnodes[n] EXCEPT !.parent = NoParent] ELSE cnodes[n]]
  BY <1>1, <1>4 DEF Freed, Restrict
<1>6. D \in SUBSET CanvasIds /\ StartId \in D
  BY <1>3, <1>4, OnCanvas
<1>7. ASSUME NEW n \in D
      PROVE  /\ ms[n] \in CanvasNode /\ ms[n].type = cnodes[n].type /\ ms[n].menu = cnodes[n].menu
             /\ ms[n].parent = NoParent \/ (ms[n].parent \in D /\ cnodes[ms[n].parent].type = "group")
  <2>1. /\ cnodes[n] \in CanvasNode
        /\ cnodes[n].parent \in Placed \/ cnodes[n].parent = NoParent
        /\ cnodes[n].parent \in Placed => cnodes[cnodes[n].parent].type = "group"
    BY <1>4, OnCanvas DEF Kind
  <2>2. CASE cnodes[n].parent = g
    <3>1. ms[n] = [cnodes[n] EXCEPT !.parent = NoParent]
      BY <1>5, <2>2
    <3> QED BY <2>1, <3>1, NewParent
  <2>3. CASE cnodes[n].parent # g
    <3>1. ms[n] = cnodes[n]
      BY <1>5, <2>3
    <3> QED BY <1>4, <2>1, <2>3, <3>1
  <2> QED BY <2>2, <2>3
<1>8. ms \in [D -> CanvasNode]
  BY <1>5, <1>7
<1>9. \A e \in cedges' : e.s \in D /\ e.t \in D
  BY <1>1, <1>2, <1>4, EdgeEnds
<1>10. \A n \in D : \/ ms[n].parent = NoParent
                    \/ ms[n].parent \in D /\ ms[ms[n].parent].type = "group"
  BY <1>7
<1>11. /\ cedges' \subseteq cedges /\ UNCHANGED clip
       /\ \A n \in D \ Placed : ms[n].type # "start"
  BY <1>2, <1>4
<1>12. \A n \in D \cap Placed : ms[n].type = cnodes[n].type /\ ms[n].menu = cnodes[n].menu
  BY <1>7
<1>13. cnodes' = ms
  BY <1>5
<1> QED BY <1>6, <1>8, <1>9, <1>10, <1>11, <1>12, <1>13, NodesStep

(* A node is put into a group that is there, or taken out.                   *)
LEMMA ReparentStep ==
  ASSUME CanvasInv, handleNodeDragStop \/ handleRemoveFromGroup
  PROVE  CanvasInv'
<1>1. PICK n \in Placed, p \in Groups \cup {NoParent} : cnodes' = [cnodes EXCEPT ![n].parent = p]
  BY DEF handleNodeDragStop, handleRemoveFromGroup
<1>2. UNCHANGED <<cedges, clip>>
  BY DEF handleNodeDragStop, handleRemoveFromGroup
<1>3. PICK x : x = [cnodes[n] EXCEPT !.parent = p]
  OBVIOUS
<1>4. p \in CanvasIds \cup {NoParent} /\ (p # NoParent => p \in Placed /\ Kind(p) = "group")
  BY OnCanvas DEF Groups, IsGroup
<1>5. x \in CanvasNode /\ x.type = cnodes[n].type /\ x.menu = cnodes[n].menu /\ x.parent = p
  BY <1>3, <1>4, NewParent, OnCanvas
<1>6. cnodes \in [Placed -> CanvasNode]
  BY DEF CanvasInv, NodesOk, Placed
<1>7. PICK ms : cnodes' = ms /\ ms = [cnodes EXCEPT ![n] = x]
  BY <1>1, <1>3, <1>6
<1>8. ms \in [Placed -> CanvasNode] /\ ms[n] = x /\ \A m \in Placed : m # n => ms[m] = cnodes[m]
  BY <1>5, <1>6, <1>7
<1>9. \A m \in Placed : ms[m].type = cnodes[m].type /\ ms[m].menu = cnodes[m].menu
  BY <1>5, <1>8
<1>10. ASSUME NEW m \in Placed
       PROVE  \/ ms[m].parent = NoParent
              \/ ms[m].parent \in Placed /\ ms[ms[m].parent].type = "group"
  <2>1. CASE m = n
    BY <1>4, <1>5, <1>8, <1>9, <2>1 DEF Kind
  <2>2. CASE m # n
    BY <1>8, <1>9, <2>2, OnCanvas DEF Kind
  <2> QED BY <2>1, <2>2
<1>11. /\ Placed \in SUBSET CanvasIds /\ StartId \in Placed
       /\ \A m \in Placed \ Placed : ms[m].type # "start"
       /\ \A m \in Placed \cap Placed : ms[m].type = cnodes[m].type /\ ms[m].menu = cnodes[m].menu
       /\ cedges' \subseteq cedges /\ UNCHANGED clip
       /\ \A e \in cedges' : e.s \in Placed /\ e.t \in Placed
  BY <1>2, <1>9, OnCanvas, EdgeEnds
<1>12. cnodes' = ms /\ ms \in [Placed -> CanvasNode]
  BY <1>7, <1>8
<1> QED BY <1>10, <1>11, <1>12, NodesStep

(* A new node, or a new group around nodes that were in none.                *)
LEMMA AddNodeStep ==
  ASSUME CanvasInv, handleDrop \/ handleGroupSelection
  PROVE  CanvasInv'
<1>1. PICK g \in FreshIds, ns \in SUBSET Placed, x \in CanvasNode :
        /\ cnodes' = [n \in Placed \cup {g} |->
                        IF n = g THEN x
                        ELSE IF n \in ns THEN [cnodes[n] EXCEPT !.parent = g] ELSE cnodes[n]]
        /\ x.type # "start" /\ x.parent \in Groups \cup {NoParent}
        /\ ns # {} => x.type = "group"
  <2>1. CASE handleDrop
    <3>1. PICK g \in FreshIds, type \in PaletteTypes, p \in Groups \cup {NoParent} :
            cnodes' = [m \in Placed \cup {g} |-> IF m = g THEN buildCanvasNode(type, p) ELSE cnodes[m]]
      BY <2>1 DEF handleDrop
    <3>2. p \in CanvasIds \cup {NoParent}
      BY OnCanvas DEF Groups
    <3>3. PICK x \in CanvasNode : x = buildCanvasNode(type, p) /\ x.type = type /\ x.parent = p
      BY <3>2, NewNode
    <3>4. type # "start"
      BY CanvasAssumption
    <3>5. cnodes' = [n \in Placed \cup {g} |->
                       IF n = g THEN x
                       ELSE IF n \in {} THEN [cnodes[n] EXCEPT !.parent = g] ELSE cnodes[n]]
      BY <3>1, <3>3
    <3> QED BY <3>3, <3>4, <3>5
  <2>2. CASE handleGroupSelection
    <3>1. PICK ns \in SUBSET Placed, g \in FreshIds :
            cnodes' = [n \in Placed \cup {g} |->
                         IF n = g THEN buildCanvasNode("group", NoParent)
                         ELSE IF n \in ns THEN [cnodes[n] EXCEPT !.parent = g] ELSE cnodes[n]]
      BY <2>2 DEF handleGroupSelection, handleSelectionChange
    <3>2. PICK x \in CanvasNode : /\ x = buildCanvasNode("group", NoParent)
                                  /\ x.type = "group" /\ x.parent = NoParent
      BY NewNode
    <3> QED BY <3>1, <3>2
  <2> QED BY <2>1, <2>2
<1>2. UNCHANGED <<cedges, clip>>
  BY DEF handleDrop, handleGroupSelection
<1>3. g \in CanvasIds /\ g \notin Placed
  BY <1>1 DEF FreshIds, Unused
<1>4. PICK D : D = Placed \cup {g}
  OBVIOUS
<1>5. PICK ms : cnodes' = ms
  OBVIOUS
<1>6. D \in SUBSET CanvasIds /\ StartId \in D
  BY <1>3, <1>4, OnCanvas
<1>7. ASSUME NEW n \in Placed
      PROVE  /\ ms[n] \in CanvasNode /\ ms[n].type = cnodes[n].type /\ ms[n].menu = cnodes[n].menu
             /\ ms[n].parent = IF n \in ns THEN g ELSE cnodes[n].parent
  <2>1. cnodes[n] \in CanvasNode /\ n # g /\ n \in Placed \cup {g}
    BY <1>3, OnCanvas
  <2>2. CASE n \in ns
    <3>1. ms[n] = [cnodes[n] EXCEPT !.parent = g]
      BY <1>1, <1>5, <2>1, <2>2
    <3> QED BY <1>3, <2>1, <2>2, <3>1, NewParent
  <2>3. CASE n \notin ns
    <3>1. ms[n] = cnodes[n]
      BY <1>1, <1>5, <2>1, <2>3
    <3> QED BY <2>1, <2>3, <3>1
  <2> QED BY <2>2, <2>3
<1>8. ms[g] = x /\ DOMAIN ms = D
  BY <1>1, <1>4, <1>5
<1>9. ms \in [D -> CanvasNode]
  <2>1. \A n \in D : ms[n] \in CanvasNode
    BY <1>1, <1>4, <1>7, <1>8
  <2>2. ms = [n \in D |-> ms[n]]
    BY <1>1, <1>4, <1>5
  <2> QED BY <2>1, <2>2
<1>10. ASSUME NEW n \in D
       PROVE  \/ ms[n].parent = NoParent
              \/ ms[n].parent \in D /\ ms[ms[n].parent].type = "group"
  <2>1. CASE n = g
    <3>1. x.parent = NoParent \/ (x.parent \in Placed /\ cnodes[x.parent].type = "group")
      BY <1>1 DEF Groups, IsGroup, Kind
    <3> QED BY <1>4, <1>7, <1>8, <2>1, <3>1
  <2>2. CASE n \in Placed /\ n \in ns
    <3>1. ms[n].parent = g /\ ms[g].type = "group"
      BY <1>1, <1>7, <1>8, <2>2
    <3> QED BY <1>4, <3>1
  <2>3. CASE n \in Placed /\ n \notin ns
    <3>1. /\ ms[n].parent = cnodes[n].parent
          /\ cnodes[n].parent \in Placed \/ cnodes[n].parent = NoParent
          /\ cnodes[n].parent \in Placed => cnodes[cnodes[n].parent].type = "group"
      BY <1>7, <2>3, OnCanvas DEF Kind
    <3> QED BY <1>4, <1>7, <3>1
  <2> QED BY <1>4, <2>1, <2>2, <2>3
<1>11. /\ cedges' \subseteq cedges /\ UNCHANGED clip
       /\ \A e \in cedges' : e.s \in D /\ e.t \in D
       /\ \A n \in D \ Placed : ms[n].type # "start"
  BY <1>1, <1>2, <1>4, <1>8, EdgeEnds
<1> QED BY <1>5, <1>6, <1>7, <1>9, <1>10, <1>11, NodesStep

(* Connecting, relabelling and removing edges.                               *)
LEMMA ConnectStep ==
  ASSUME CanvasInv,
         \/ onConnect \/ onReconnect \/ handleEdgeConditionChange
         \/ SaveAndReload \/ (\E e \in cedges : deleteEdge(e))
  PROVE  CanvasInv'
<1>1. \A s \in Placed \ Groups : Handles(s) \subseteq Branches \cup {Plain}
  BY DEF Handles
<1>2. Placed \subseteq CanvasIds
  BY OnCanvas
<1>3. CASE onConnect
  <2>1. PICK s \in Placed \ Groups, t \in Placed \ Groups, h \in Branches \cup {Plain} :
          /\ isValidBuilderConnection(s, t)
          /\ cedges' = cedges \cup {[s |-> s, t |-> t, c |-> h]} /\ UNCHANGED <<cnodes, clip>>
    BY <1>1, <1>3 DEF onConnect
  <2>2. PICK e \in CanvasEdge : e = [s |-> s, t |-> t, c |-> h] /\ e.s = s /\ e.t = t
    <3>1. [s |-> s, t |-> t, c |-> h] \in CanvasEdge
      BY <1>2 DEF CanvasEdge
    <3> QED BY <3>1
  <2>3. TypesConnect(Kind(e.s), Kind(e.t))
    BY <2>1, <2>2 DEF isValidBuilderConnection
  <2> QED BY <2>1, <2>2, <2>3, EdgesStep
<1>4. CASE onReconnect
  <2>1. PICK e \in cedges, s \in Placed \ Groups, t \in Placed \ Groups :
          /\ isValidBuilderConnection(s, t)
          /\ cedges' = (cedges \ {e}) \cup {[e EXCEPT !.s = s, !.t = t]} /\ UNCHANGED <<cnodes, clip>>
    BY <1>4 DEF onReconnect
  <2>2. PICK d : d = [e EXCEPT !.s = s, !.t = t]
    OBVIOUS
  <2>3. d \in CanvasEdge /\ d.s = s /\ d.t = t
    BY <1>2, <2>2, EdgeEnds DEF CanvasEdge
  <2>4. TypesConnect(Kind(d.s), Kind(d.t))
    BY <2>1, <2>3 DEF isValidBuilderConnection
  <2> QED BY <2>1, <2>2, <2>3, <2>4, EdgesStep
<1>5. CASE handleEdgeConditionChange
  <2>1. PICK e \in cedges, c \in Branches \cup {Plain} :
          /\ cedges' = (cedges \ {e}) \cup {[e EXCEPT !.c = c]} /\ UNCHANGED <<cnodes, clip>>
    BY <1>5 DEF handleEdgeConditionChange
  <2>2. PICK d : d = [e EXCEPT !.c = c]
    OBVIOUS
  <2>3. d \in CanvasEdge /\ d.s = e.s /\ d.t = e.t
    BY <2>2, EdgeEnds DEF CanvasEdge
  <2>4. /\ d.s \in Placed \ Groups /\ d.t \in Placed \ Groups
        /\ TypesConnect(Kind(d.s), Kind(d.t))
    BY <2>3, EdgeEnds
  <2>5. \A x \in cedges' \ cedges : x = d
    BY <2>1, <2>2
  <2>6. UNCHANGED <<cnodes, clip>>
    BY <2>1
  <2> QED BY <2>3, <2>4, <2>5, <2>6, EdgesStep
<1>6. CASE SaveAndReload \/ (\E e \in cedges : deleteEdge(e))
  <2>1. cedges' \ cedges = {} /\ UNCHANGED <<cnodes, clip>>
    BY <1>6 DEF SaveAndReload, createSavePayload, deleteEdge
  <2> QED BY <2>1, EdgesStep
<1> QED BY <1>3, <1>4, <1>5, <1>6

(* What is copied is a part of the canvas.                                   *)
LEMMA CopyStep ==
  ASSUME CanvasInv, buildClipboardSelection
  PROVE  CanvasInv'
<1>1. PICK ns, cs, es :
        /\ ns \in SUBSET Placed /\ es \in SUBSET cedges
        /\ cs = Restrict(cnodes, ns) /\ clip' = [nodes |-> cs, edges |-> es]
        /\ \A e \in es : e.s \in ns /\ e.t \in ns
  <2>1. PICK chosen \in SUBSET Placed :
          LET ns == expandClipboardSelectionNodes(chosen)
          IN clip' = [nodes |-> Restrict(cnodes, ns), edges |-> {e \in cedges : e.s \in ns /\ e.t \in ns}]
    BY DEF buildClipboardSelection, handleSelectionChange
  <2>2. PICK ns : ns = expandClipboardSelectionNodes(chosen)
    OBVIOUS
  <2>3. ns \subseteq Placed
    BY <2>2 DEF expandClipboardSelectionNodes
  <2>4. PICK es : es = {e \in cedges : e.s \in ns /\ e.t \in ns}
    OBVIOUS
  <2>5. PICK cs : cs = Restrict(cnodes, ns)
    OBVIOUS
  <2>6. clip' = [nodes |-> cs, edges |-> es]
    BY <2>1, <2>2, <2>4, <2>5
  <2>7. es \in SUBSET cedges /\ \A e \in es : e.s \in ns /\ e.t \in ns
    BY <2>4
  <2> QED BY <2>3, <2>5, <2>6, <2>7, Zenon
<1>2. UNCHANGED <<cnodes, cedges>>
  BY DEF buildClipboardSelection
<1>3. cs = [n \in ns |-> cnodes[n]] /\ DOMAIN cs = ns
  BY <1>1 DEF Restrict
<1>4. NodesOk(cs)
  <2>1. ns \subseteq CanvasIds
    BY <1>1, OnCanvas
  <2>2. \A n \in ns : cs[n] = cnodes[n] /\ cnodes[n] \in CanvasNode
    BY <1>1, <1>3, OnCanvas
  <2>3. cs \in [ns -> CanvasNode]
    BY <1>3, <2>2
  <2>4. ASSUME NEW n \in ns
        PROVE  /\ cs[n].type = "start" => n = StartId /\ cs[n].menu = NoParent
               /\ cs[n].parent \in ns => cs[cs[n].parent].type = "group"
    BY <1>1, <2>2, OnCanvas DEF Kind
  <2> QED BY <1>3, <2>1, <2>3, <2>4 DEF NodesOk
<1>5. EdgesOk(cs, es)
  <2>1. \A n \in DOMAIN cnodes \cap DOMAIN cs : cs[n].type = cnodes[n].type
    BY <1>3
  <2>2. EdgesOk(cnodes, cedges)
    BY DEF CanvasInv
  <2> QED BY <1>1, <1>3, <2>1, <2>2, EdgesCarry
<1>6. clip'.nodes = cs /\ clip'.edges = es
  BY <1>1
<1> QED BY <1>2, <1>4, <1>5, <1>6 DEF CanvasInv, NodesOk, EdgesOk, Housed, TypesConnect

(* The copies can be given identifiers of their own.                         *)
LEMMA CopiesNamed ==
  ASSUME NEW C, NEW U, IsFiniteSet(C), IsFiniteSet(U), Cardinality(C) <= Cardinality(U)
  PROVE  \E f \in [C -> U] : IsInjective(f)
<1>1. PICK c \in Nat, u \in Nat : c = Cardinality(C) /\ u = Cardinality(U) /\ c <= u
  BY FS_CardinalityType
<1>2. ExistsBijection(1..c, C) /\ ExistsBijection(1..u, U)
  BY <1>1, FS_CardinalityType
<1>3. ExistsBijection(C, 1..c)
  BY <1>2, Fun_ExistsBijSymmetric
<1>4. ExistsInjection(C, 1..c) /\ ExistsInjection(1..u, U)
  BY <1>2, <1>3, Zenon DEF ExistsBijection, ExistsInjection, Bijection
<1>5. ExistsInjection(1..c, 1..u)
  BY <1>1, Fun_NatInjLeq
<1>6. ExistsInjection(C, U)
  BY <1>4, <1>5, Fun_ExistsInjTransitive, Zenon
<1> QED BY <1>6, Zenon DEF ExistsInjection, Injection

\* The identifiers the nodes on the clipboard are given.
NewIds(id) ==
  /\ id \in [DOMAIN clip.nodes -> Unused \cup {StartId}] /\ IsInjective(id)
  /\ \A n \in DOMAIN id : id[n] = StartId <=> n \notin Copied

(* Only a copied start node stands for one that is there.                    *)
LEMMA PasteNames ==
  ASSUME CanvasInv, Cardinality(Copied) <= Cardinality(Unused)
  PROVE  NewIds(CopyIds)
<1>0. PICK copies : copies = Copied
  OBVIOUS
<1>1. PICK D : D = DOMAIN clip.nodes
  OBVIOUS
<1>2. copies \subseteq D /\ D \subseteq CanvasIds /\ \A n \in D : n \notin copies => n = StartId
  BY <1>0, <1>1 DEF Copied, CanvasInv, NodesOk
<1>3. IsFiniteSet(copies) /\ IsFiniteSet(Unused)
  <2>1. copies \in SUBSET CanvasIds /\ Unused \in SUBSET CanvasIds
    BY <1>1, <1>2 DEF Unused
  <2>2. IsFiniteSet(CanvasIds)
    BY CanvasAssumption
  <2> QED BY <2>1, <2>2, FS_Subset
<1>4. PICK g \in [copies -> Unused] : IsInjective(g)
  BY <1>0, <1>3, CopiesNamed
<1>5. StartId \notin Unused
  BY OnCanvas DEF Unused
<1>6. PICK f : f = [n \in D |-> IF n \in copies THEN g[n] ELSE StartId]
  OBVIOUS
<1>7. f \in [D -> Unused \cup {StartId}]
  BY <1>4, <1>6
<1>8. \A n \in D : f[n] = StartId <=> n \notin copies
  BY <1>4, <1>5, <1>6
<1>9. IsInjective(f)
  <2> SUFFICES ASSUME NEW a \in D, NEW b \in D, f[a] = f[b]
               PROVE  a = b
    BY <1>7 DEF IsInjective
  <2>1. CASE a \in copies
    <3>1. b \in copies
      BY <1>8, <2>1
    <3>2. g[a] = g[b]
      BY <1>6, <2>1, <3>1
    <3> QED BY <1>4, <2>1, <3>1, <3>2 DEF IsInjective
  <2>2. CASE a \notin copies
    BY <1>2, <1>8, <2>2
  <2> QED BY <2>1, <2>2
<1>10. \E h \in [DOMAIN clip.nodes -> Unused \cup {StartId}] :
         /\ IsInjective(h)
         /\ \A n \in DOMAIN h : h[n] = StartId <=> n \notin Copied
  <2>1. DOMAIN f = D
    BY <1>7
  <2> QED BY <1>0, <1>1, <1>7, <1>8, <1>9, <2>1
<1> QED BY <1>10, Zenon DEF NewIds, CopyIds

(* What is pasted is a part of the canvas again, apart from what was there.  *)
LEMMA PasteStep ==
  ASSUME CanvasInv, buildPastedClipboardSelection
  PROVE  CanvasInv'
<1>1. PICK copies : copies = Copied
  OBVIOUS
<1>2. PICK id : id = CopyIds
  OBVIOUS
<1>3. PICK pasted : pasted = {id[n] : n \in copies}
  OBVIOUS
<1>4. DEFINE old(n) == CHOOSE o \in Copied : CopyIds[o] = n
<1>5. /\ Cardinality(Copied) <= Cardinality(Unused) /\ UNCHANGED clip
      /\ cnodes' = [n \in Placed \cup {CopyIds[o] : o \in Copied} |->
                      IF n \in Placed THEN cnodes[n] ELSE Pasted(CopyIds, old(n))]
      /\ cedges' = cedges \cup {[e EXCEPT !.s = id[e.s], !.t = id[e.t]] :
                                  e \in {d \in clip.edges : d.t \in copies}}
  <2>1. Cardinality(Copied) <= Cardinality(Unused) /\ UNCHANGED clip
    BY DEF buildPastedClipboardSelection
  <2>2. cedges' = cedges \cup {[e EXCEPT !.s = id[e.s], !.t = id[e.t]] :
                                  e \in {d \in clip.edges : d.t \in copies}}
    BY <1>1, <1>2, Zenon DEF buildPastedClipboardSelection
  <2>3. cnodes' = [n \in Placed \cup {CopyIds[o] : o \in Copied} |->
                     IF n \in Placed THEN cnodes[n] ELSE Pasted(CopyIds, old(n))]
    BY Zenon DEF buildPastedClipboardSelection
  <2> QED BY <2>1, <2>2, <2>3
<1>6. NewIds(id)
  BY <1>2, <1>5, PasteNames
<1>7. NodesOk(clip.nodes) /\ EdgesOk(clip.nodes, clip.edges) /\ EdgesOk(cnodes, cedges)
  BY DEF CanvasInv
<1>8. PICK D : D = Placed \cup pasted
  OBVIOUS
<1>9. PICK ms : /\ ms = cnodes' /\ DOMAIN ms = D /\ ms = [n \in D |-> ms[n]]
                /\ \A n \in D : ms[n] = IF n \in Placed THEN cnodes[n] ELSE Pasted(CopyIds, old(n))
  <2>1. PICK P : P = Placed \cup {CopyIds[o] : o \in Copied}
    OBVIOUS
  <2>2. PICK ms : ms = cnodes'
    OBVIOUS
  <2>3. ms = [n \in P |-> IF n \in Placed THEN cnodes[n] ELSE Pasted(CopyIds, old(n))]
    BY <1>5, <2>1, <2>2
  <2>4. P = D
    BY <1>1, <1>2, <1>3, <1>8, <2>1
  <2>5. DOMAIN ms = D
    BY <2>3, <2>4
  <2>6. \A n \in D : ms[n] = IF n \in Placed THEN cnodes[n] ELSE Pasted(CopyIds, old(n))
    BY <2>3, <2>4
  <2>7. ms = [n \in D |-> ms[n]]
    BY <2>3, <2>4
  <2> QED BY <2>2, <2>5, <2>6, <2>7
<1>10. ASSUME NEW o \in copies
       PROVE  /\ o \in DOMAIN clip.nodes /\ clip.nodes[o] \in CanvasNode /\ clip.nodes[o].type # "start"
              /\ id[o] \in Unused /\ id[o] \in pasted /\ id[o] \in CanvasIds /\ id[o] \notin Placed
              /\ old(id[o]) = o
  <2>1. o \in DOMAIN clip.nodes /\ clip.nodes[o] \in CanvasNode /\ clip.nodes[o].type # "start"
    BY <1>1, <1>7 DEF NodesOk, Copied
  <2>2. id[o] \in Unused /\ id[o] \in pasted
    BY <1>1, <1>3, <1>6, <2>1 DEF NewIds
  <2>3. id[o] \in CanvasIds /\ id[o] \notin Placed
    BY <2>2 DEF Unused
  <2>4. old(id[o]) \in copies /\ id[old(id[o])] = id[o]
    BY <1>1, <1>2
  <2>5. old(id[o]) \in DOMAIN clip.nodes
    BY <1>1, <2>4 DEF Copied
  <2>6. old(id[o]) = o
    BY <1>6, <2>1, <2>4, <2>5 DEF NewIds, IsInjective
  <2> QED BY <2>1, <2>2, <2>3, <2>6
<1>11. ASSUME NEW o \in copies
       PROVE  /\ ms[id[o]] \in CanvasNode /\ ms[id[o]].type = clip.nodes[o].type
              /\ ms[id[o]].parent = PastedParent(id, clip.nodes[o].parent)
              /\ \/ PastedParent(id, clip.nodes[o].parent) = NoParent
                 \/ \E q \in copies : /\ clip.nodes[q].type = "group"
                                      /\ PastedParent(id, clip.nodes[o].parent) = id[q]
  <2>1. PICK p : p = PastedParent(id, clip.nodes[o].parent)
    OBVIOUS
  <2>2. ms[id[o]] = [clip.nodes[o] EXCEPT !.parent = p]
    <3>1. id[o] \in Placed \cup pasted /\ id[o] \notin Placed /\ old(id[o]) = o
      BY <1>10
    <3>2. ms[id[o]] = Pasted(id, old(id[o]))
      BY <1>2, <1>8, <1>9, <3>1
    <3>3. clip.nodes[o] \in CanvasNode
      BY <1>10
    <3>4. Pasted(id, o) = [clip.nodes[o] EXCEPT !.parent = PastedParent(id, clip.nodes[o].parent)]
      BY <3>3 DEF CanvasNode, Pasted
    <3> QED BY <2>1, <3>1, <3>2, <3>4
  <2>3. p = NoParent \/ \E q \in copies : clip.nodes[q].type = "group" /\ p = id[q]
    <3>1. CASE clip.nodes[o].parent \in DOMAIN id
      <4>1. PICK q \in DOMAIN clip.nodes : q = clip.nodes[o].parent /\ p = id[q]
        BY <1>6, <2>1, <3>1 DEF NewIds, PastedParent
      <4>2. clip.nodes[q].type = "group"
        BY <1>7, <1>10, <4>1 DEF NodesOk
      <4>3. q \in copies
        BY <1>1, <4>2 DEF Copied
      <4> QED BY <4>1, <4>2, <4>3
    <3>2. CASE clip.nodes[o].parent \notin DOMAIN id
      BY <2>1, <3>2 DEF PastedParent
    <3> QED BY <3>1, <3>2
  <2>4. p \in CanvasIds \cup {NoParent}
    BY <1>10, <2>3
  <2>5. clip.nodes[o] \in CanvasNode
    BY <1>10
  <2>6. /\ ms[id[o]] \in CanvasNode /\ ms[id[o]].type = clip.nodes[o].type
        /\ ms[id[o]].parent = p
    BY <2>2, <2>4, <2>5, NewParent
  <2> QED BY <2>1, <2>3, <2>6
<1>12. ASSUME NEW n \in Placed
       PROVE  ms[n] = cnodes[n]
  BY <1>8, <1>9
<1>13. \A n \in D : n \in Placed \/ \E o \in copies : n = id[o]
  BY <1>3, <1>8
<1>14. D \in SUBSET CanvasIds /\ StartId \in D
  BY <1>8, <1>10, <1>13, OnCanvas
<1>15. ms \in [D -> CanvasNode]
  <2>1. \A n \in D : ms[n] \in CanvasNode
    BY <1>11, <1>12, <1>13, OnCanvas
  <2>2. ms = [n \in D |-> ms[n]]
    BY <1>9
  <2> QED BY <2>1, <2>2
<1>16. ASSUME NEW n \in D
       PROVE  \/ ms[n].parent = NoParent
              \/ ms[n].parent \in D /\ ms[ms[n].parent].type = "group"
  <2>1. CASE n \in Placed
    BY <1>8, <1>12, <2>1, OnCanvas DEF Kind
  <2>2. ASSUME NEW o \in copies, n = id[o], ms[n].parent # NoParent
        PROVE  ms[n].parent \in D /\ ms[ms[n].parent].type = "group"
    <3>1. PICK q \in copies : clip.nodes[q].type = "group" /\ ms[n].parent = id[q]
      BY <1>11, <2>2
    <3>2. id[q] \in D /\ ms[id[q]].type = "group"
      BY <1>8, <1>10, <1>11, <3>1
    <3> QED BY <3>1, <3>2
  <2> QED BY <1>13, <2>1, <2>2
<1>17. \A n \in D \cap Placed : ms[n].type = cnodes[n].type /\ ms[n].menu = cnodes[n].menu
  BY <1>12
<1>18. \A n \in D \ Placed : ms[n].type # "start"
  BY <1>10, <1>11, <1>13
<1>19. NodesOk(ms) /\ Housed(ms)
  BY <1>14, <1>15, <1>16, <1>17, <1>18, Rearranged
<1>20. ASSUME NEW n \in DOMAIN clip.nodes
       PROVE  id[n] \in D /\ ms[id[n]].type = clip.nodes[n].type
  <2>1. CASE n \in copies
    BY <1>8, <1>10, <1>11, <2>1
  <2>2. CASE n \notin copies
    <3>1. clip.nodes[n].type = "start" /\ id[n] = StartId
      BY <1>1, <1>6, <2>2 DEF NewIds, Copied
    <3> QED BY <1>12, <1>14, <3>1, OnCanvas DEF Kind
  <2> QED BY <2>1, <2>2
<1>21. EdgesOk(ms, cedges')
  <2>1. EdgesOk(ms, cedges)
    <3>1. \A e \in cedges : e.s \in DOMAIN ms /\ e.t \in DOMAIN ms
      BY <1>8, <1>9, EdgeEnds
    <3>2. \A n \in DOMAIN cnodes \cap DOMAIN ms : ms[n].type = cnodes[n].type
      BY <1>9, <1>17 DEF Placed
    <3> QED BY <1>7, <3>1, <3>2, EdgesCarry
  <2>2. ASSUME NEW e \in clip.edges, NEW d, d = [e EXCEPT !.s = id[e.s], !.t = id[e.t]]
        PROVE  /\ d \in CanvasEdge /\ d.s \in DOMAIN ms /\ d.t \in DOMAIN ms
               /\ ms[d.s].type # "group" /\ ms[d.t].type # "group"
               /\ TypesConnect(ms[d.s].type, ms[d.t].type)
    <3>1. /\ e \in CanvasEdge /\ e.s \in DOMAIN clip.nodes /\ e.t \in DOMAIN clip.nodes
          /\ clip.nodes[e.s].type # "group" /\ clip.nodes[e.t].type # "group"
          /\ TypesConnect(clip.nodes[e.s].type, clip.nodes[e.t].type)
      BY <1>7 DEF EdgesOk
    <3>2. id[e.s] \in CanvasIds /\ id[e.t] \in CanvasIds
      BY <1>14, <1>20, <3>1
    <3>3. d \in CanvasEdge /\ d.s = id[e.s] /\ d.t = id[e.t]
      BY <2>2, <3>1, <3>2 DEF CanvasEdge
    <3> QED BY <1>9, <1>20, <3>1, <3>3
  <2>3. \A d \in cedges' : d \in cedges \/ \E e \in clip.edges : d = [e EXCEPT !.s = id[e.s], !.t = id[e.t]]
    BY <1>5
  <2> QED BY <2>1, <2>2, <2>3 DEF EdgesOk
<1>22. cnodes' = ms /\ UNCHANGED clip
  BY <1>5, <1>9
<1> QED BY <1>7, <1>19, <1>21, <1>22 DEF CanvasInv, NodesOk, EdgesOk, Housed, TypesConnect

(* Every step of the canvas leaves a flow that can be saved.                 *)
LEMMA CanvasInvStep ==
  ASSUME CanvasInv, [CanvasNext]_canvasVars
  PROVE  CanvasInv'
<1>1. CASE UNCHANGED canvasVars
  BY <1>1 DEF canvasVars, CanvasInv, NodesOk, EdgesOk, Housed, TypesConnect
<1>2. CASE DeleteButton
  <2>1. PICK n \in Placed : deleteNodes({n})
    BY <1>2 DEF DeleteButton
  <2> QED BY <2>1, DeleteStep
<1>3. CASE handleKeyDown
  <2>1. CASE \E ns \in SUBSET Placed : deleteNodes(ns)
    BY <2>1, DeleteStep
  <2> QED BY <1>3, <2>1, UngroupStep, ConnectStep DEF handleKeyDown, handleSelectionChange
<1> QED BY <1>1, <1>2, <1>3, ReparentStep, AddNodeStep, ConnectStep, CopyStep, PasteStep DEF CanvasNext
-----------------------------------------------------------------------------
(* The simulator: one flow more than menus on the stacks, a running state on *)
(* a node of the flow on top, also in the states that wait for a submenu.    *)
SimNames == UNION {DOMAIN SimNodes[f] : f \in SimFlows}
SimFrame == [id : SimFlows \cup {0}, of : SimFlows]
SimState == [node : SimNames, done : BOOLEAN, deadEnd : BOOLEAN,
             menus : Seq(SimNames), flows : Seq(SimFrame)]

Stacked(s) ==
  /\ s \in SimState
  /\ Len(s.flows) = Len(s.menus) + 1
  /\ \A i \in 2..Len(s.flows) : s.flows[i].id \in SimFlows
  /\ ~s.done => s.node \in DOMAIN SimNodes[Frame(s).of]

SimInv ==
  /\ sim # NoSim => Stacked(sim)
  /\ ~simOpen => sim = NoSim
  /\ \A q \in fetches : Stacked(q.base) /\ ~q.base.done /\ q.sub \in SimFlows
  /\ simPage \in SimFlows /\ drawn \in SimFlows
  /\ Running /\ sim.menus # <<>> => simPage = Frame(sim).id

(* A step of another component leaves the simulator alone.                   *)
LEMMA SimSteps ==
  ASSUME [PlatformNext]_platformVars
  PROVE  [SimNext]_simVars
BY DEF PlatformNext, Only, platformVars

(* The flow on top is one of the flows; a running state's node has a name.   *)
LEMMA FrameType ==
  ASSUME NEW s, Stacked(s)
  PROVE  /\ s.menus \in Seq(SimNames) /\ s.flows \in Seq(SimFrame)
         /\ Len(s.menus) \in Nat /\ Len(s.flows) = Len(s.menus) + 1
         /\ Frame(s) = s.flows[Len(s.flows)]
         /\ Frame(s) \in SimFrame /\ Frame(s).of \in SimFlows
         /\ s.node \in SimNames /\ s.done \in BOOLEAN /\ s.deadEnd \in BOOLEAN
<1>1. /\ s.menus \in Seq(SimNames) /\ s.flows \in Seq(SimFrame)
      /\ s.node \in SimNames /\ s.done \in BOOLEAN /\ s.deadEnd \in BOOLEAN
  BY DEF Stacked, SimState
<1>2. Len(s.menus) \in Nat /\ Len(s.flows) = Len(s.menus) + 1
  BY <1>1 DEF Stacked
<1>3. Len(s.flows) \in 1..Len(s.flows)
  BY <1>2
<1>4. s.flows[Len(s.flows)] \in SimFrame
  BY <1>1, <1>3, ElementOfSeq
<1>5. s.flows[Len(s.flows)].of \in SimFlows
  BY <1>4 DEF SimFrame
<1> QED BY <1>1, <1>2, <1>4, <1>5 DEF Frame

(* A node of a flow, named in the simulation.                                *)
LEMMA SimName ==
  ASSUME NEW f \in SimFlows, NEW n \in DOMAIN SimNodes[f]
  PROVE  n \in SimNames
BY DEF SimNames

(* The simulation moves on within the flow on top.                           *)
LEMMA MoveStep ==
  ASSUME NEW s, Stacked(s), NEW t \in DOMAIN SimNodes[Frame(s).of], NEW r,
         r = [s EXCEPT !.node = t, !.deadEnd = FALSE]
  PROVE  Stacked(r) /\ r.menus = s.menus /\ Frame(r) = Frame(s)
<1>1. s \in SimState /\ t \in SimNames
  BY FrameType, SimName DEF Stacked
<1>2. /\ r \in SimState /\ r.node = t /\ r.done = s.done
      /\ r.menus = s.menus /\ r.flows = s.flows
  BY <1>1 DEF SimState
<1> QED BY <1>2 DEF Stacked, Frame

(* The simulation ends or finds no way on where it stands.                   *)
LEMMA HaltStep ==
  ASSUME NEW s, Stacked(s), NEW r,
         r = [s EXCEPT !.done = TRUE] \/ r = [s EXCEPT !.deadEnd = TRUE]
  PROVE  /\ Stacked(r) /\ r.menus = s.menus /\ Frame(r) = Frame(s)
         /\ r = [s EXCEPT !.done = TRUE] => r.done
<1>1. s \in SimState
  BY DEF Stacked
<1>2. /\ r \in SimState /\ r.node = s.node /\ (r.done = s.done \/ r.done = TRUE)
      /\ r.menus = s.menus /\ r.flows = s.flows
      /\ r = [s EXCEPT !.done = TRUE] => r.done
  BY <1>1 DEF SimState
<1> QED BY <1>2 DEF Stacked, Frame

(* Back in a menu, the flow on top is the one below the submenu's.           *)
LEMMA ReturnStep ==
  ASSUME NEW s, Stacked(s), s.menus # <<>>, NEW r, r = returnFromSubmenu(s)
  PROVE  /\ Stacked(r)
         /\ r.menus # <<>> => PageAfterReturn(s) = Frame(r).id
         /\ PageAfterReturn(s) \in SimFlows
<1>1. PICK n \in Nat : n = Len(s.menus) /\ n >= 1
  <2>1. s.menus \in Seq(SimNames)
    BY FrameType
  <2> QED BY <2>1
<1>2. /\ s \in SimState /\ s.flows \in Seq(SimFrame) /\ s.menus \in Seq(SimNames)
      /\ Len(s.flows) = n + 1
      /\ \A i \in 2..(n + 1) : s.flows[i].id \in SimFlows
  BY <1>1, FrameType DEF Stacked
<1>3. PICK fs \in Seq(SimFrame) :
        /\ fs = SubSeq(s.flows, 1, n) /\ Len(fs) = n
        /\ \A i \in 1..n : fs[i] = s.flows[i]
  <2>1. \A i \in 1..n : s.flows[i] \in SimFrame
    <3>1. \A i \in 1..n : i \in 1..Len(s.flows)
      BY <1>2
    <3> QED BY <1>2, <3>1, ElementOfSeq
  <2>2. PICK fs : fs = SubSeq(s.flows, 1, n)
    OBVIOUS
  <2>3. fs \in Seq(SimFrame)
    BY <2>1, <2>2, SubSeqProperties
  <2>4. Len(fs) = n
    <3>1. Len(fs) = IF 1 <= n THEN n - 1 + 1 ELSE 0
      BY <2>1, <2>2, SubSeqProperties
    <3> QED BY <1>1, <3>1
  <2>5. \A i \in 1..n : fs[i] = s.flows[i]
    BY <1>2, <2>2
  <2> QED BY <2>2, <2>3, <2>4, <2>5
<1>4. PICK ms \in Seq(SimNames) : ms = SubSeq(s.menus, 1, n - 1) /\ Len(ms) = n - 1
  <2>1. \A i \in 1..(n - 1) : s.menus[i] \in SimNames
    <3>1. \A i \in 1..(n - 1) : i \in 1..Len(s.menus)
      BY <1>1
    <3> QED BY <1>2, <3>1, ElementOfSeq
  <2>2. SubSeq(s.menus, 1, n - 1) \in Seq(SimNames)
    BY <2>1, SubSeqProperties
  <2>3. Len(SubSeq(s.menus, 1, n - 1)) = n - 1
    <3>1. Len(SubSeq(s.menus, 1, n - 1)) = IF 1 <= n - 1 THEN (n - 1) - 1 + 1 ELSE 0
      BY <2>1, SubSeqProperties
    <3> QED BY <1>1, <3>1
  <2> QED BY <2>2, <2>3
<1>5. PICK back : back = [s EXCEPT !.menus = ms, !.flows = fs]
  OBVIOUS
<1>6. /\ back \in SimState /\ back.menus = ms /\ back.flows = fs
      /\ back.node = s.node /\ back.done = s.done
  BY <1>2, <1>5 DEF SimState
<1>7. PICK f \in SimFlows : f = fs[n].of
  <2>1. n \in 1..Len(fs)
    BY <1>1, <1>3
  <2>2. fs[n] \in SimFrame
    BY <2>1, ElementOfSeq
  <2> QED BY <2>2 DEF SimFrame
<1>8. PICK next : next = {e.to : e \in IF \E e \in getOutgoingEdges(f, s.menus[n]) : e.branch = "complete"
                            THEN {e \in getOutgoingEdges(f, s.menus[n]) : e.branch = "complete"}
                            ELSE {e \in getOutgoingEdges(f, s.menus[n]) : e.branch = "default"}}
  OBVIOUS
<1>9. next \subseteq DOMAIN SimNodes[f]
  BY <1>8, SimAssumption DEF getOutgoingEdges
<1>10. \/ r = [back EXCEPT !.done = TRUE]
       \/ \E t \in DOMAIN SimNodes[f] : r = [back EXCEPT !.node = t, !.deadEnd = FALSE]
  <2>1. r = IF next = {} \/ s.menus[n] \notin DOMAIN SimNodes[f] THEN [back EXCEPT !.done = TRUE]
            ELSE [back EXCEPT !.node = CHOOSE t \in next : TRUE, !.deadEnd = FALSE]
    BY <1>1, <1>3, <1>4, <1>5, <1>7, <1>8 DEF returnFromSubmenu, ReturnTo
  <2>2. next # {} => (CHOOSE t \in next : TRUE) \in next
    OBVIOUS
  <2> QED BY <1>9, <2>1, <2>2
<1>11. /\ r \in SimState /\ r.menus = ms /\ r.flows = fs
       /\ ~r.done => r.node \in DOMAIN SimNodes[f]
  <2>1. CASE r = [back EXCEPT !.done = TRUE]
    BY <1>6, <2>1 DEF SimState
  <2>2. ASSUME NEW t \in DOMAIN SimNodes[f], r = [back EXCEPT !.node = t, !.deadEnd = FALSE]
        PROVE  /\ r \in SimState /\ r.menus = ms /\ r.flows = fs
               /\ r.node \in DOMAIN SimNodes[f]
    <3>1. t \in SimNames
      BY SimName
    <3> QED BY <1>6, <2>2, <3>1 DEF SimState
  <2> QED BY <1>10, <2>1, <2>2
<1>12. Frame(r) = fs[n]
  BY <1>3, <1>11 DEF Frame
<1>13. Stacked(r)
  <2>1. Len(r.flows) = Len(r.menus) + 1
    BY <1>1, <1>3, <1>4, <1>11
  <2>2. \A i \in 2..n : fs[i].id \in SimFlows
    BY <1>1, <1>2, <1>3
  <2> QED BY <1>3, <1>7, <1>11, <1>12, <2>1, <2>2 DEF Stacked
<1>14. r.menus # <<>> => n > 1
  BY <1>1, <1>4, <1>11
<1>15. n > 1 => PageAfterReturn(s) = s.flows[n].id /\ s.flows[n].id \in SimFlows
  <2>1. n > 1 => n \in 2..(n + 1)
    BY <1>1
  <2> QED BY <1>1, <1>2, <2>1 DEF PageAfterReturn
<1>16. n = 1 => PageAfterReturn(s) = SimRoot
  BY <1>1 DEF PageAfterReturn
<1>17. n > 1 \/ n = 1
  <2>1. \A k \in Nat : k >= 1 => k > 1 \/ k = 1
    OBVIOUS
  <2>2. n \in Nat /\ n >= 1
    BY <1>1
  <2> QED BY <2>1, <2>2, Zenon
<1>18. fs[n] = s.flows[n]
  BY <1>1, <1>3
<1> QED BY <1>12, <1>13, <1>14, <1>15, <1>16, <1>17, <1>18, SimAssumption

(* The submenu goes on top of the state that asked for it.                   *)
LEMMA PushStep ==
  ASSUME NEW s, Stacked(s), ~s.done, NEW f \in SimFlows, "start" \in DOMAIN SimNodes[f], NEW r,
         r = [s EXCEPT !.node = "start", !.deadEnd = FALSE,
                       !.menus = Append(@, s.node), !.flows = Append(@, [id |-> f, of |-> f])]
  PROVE  Stacked(r) /\ Frame(r).id = f
<1>1. PICK n \in Nat, ms \in Seq(SimNames), fs \in Seq(SimFrame) :
        n = Len(s.menus) /\ ms = s.menus /\ fs = s.flows /\ Len(fs) = n + 1
  BY FrameType
<1>2. s \in SimState /\ s.node \in SimNames /\ "start" \in SimNames
  BY FrameType, SimName DEF Stacked
<1>3. PICK e \in SimFrame : e = [id |-> f, of |-> f] /\ e.id = f /\ e.of = f
  <2>1. [id |-> f, of |-> f] \in SimFrame
    BY Zenon DEF SimFrame
  <2>2. PICK e : e = [id |-> f, of |-> f]
    OBVIOUS
  <2> QED BY <2>1, <2>2
<1>4. PICK gs \in Seq(SimFrame) : gs = Append(fs, e) /\ Len(gs) = n + 2
  <2>1. Append(fs, e) \in Seq(SimFrame)
    BY AppendProperties
  <2>2. Len(Append(fs, e)) = n + 2
    BY <1>1
  <2> QED BY <2>1, <2>2
<1>5. gs[n + 2] = e /\ \A i \in 1..(n + 1) : gs[i] = fs[i]
  BY <1>1, <1>4
<1>6. PICK ns \in Seq(SimNames) : ns = Append(ms, s.node) /\ Len(ns) = n + 1
  <2>1. Append(ms, s.node) \in Seq(SimNames)
    BY <1>2, AppendProperties
  <2>2. Len(Append(ms, s.node)) = n + 1
    BY <1>1, <1>2
  <2> QED BY <2>1, <2>2
<1>7. r = [s EXCEPT !.node = "start", !.deadEnd = FALSE, !.menus = ns, !.flows = gs]
  BY <1>1, <1>2, <1>3, <1>4, <1>6 DEF SimState
<1>8. /\ r \in SimState /\ r.node = "start" /\ r.menus = ns /\ r.flows = gs
  BY <1>2, <1>7 DEF SimState
<1>9. Frame(r) = e
  BY <1>4, <1>5, <1>8 DEF Frame
<1>10. \A i \in 2..(n + 2) : gs[i].id \in SimFlows
  <2>1. \A i \in 2..(n + 1) : fs[i].id \in SimFlows
    BY <1>1 DEF Stacked
  <2>2. \A i \in 2..(n + 2) : i = n + 2 \/ (i \in 2..(n + 1) /\ i \in 1..(n + 1))
    OBVIOUS
  <2> QED BY <1>3, <1>5, <2>1, <2>2
<1>11. Len(gs) = Len(ns) + 1
  BY <1>4, <1>6
<1> QED BY <1>3, <1>4, <1>8, <1>9, <1>10, <1>11 DEF Stacked

(* No step puts the simulation on a node of another flow than the one shown. *)
LEMMA SimInvStep ==
  ASSUME SimInv, [SimNext]_simVars
  PROVE  SimInv'
<1>1. /\ sim # NoSim => Stacked(sim)
      /\ ~simOpen => sim = NoSim
      /\ \A q \in fetches : Stacked(q.base) /\ ~q.base.done /\ q.sub \in SimFlows
      /\ simPage \in SimFlows /\ drawn \in SimFlows
      /\ Running /\ sim.menus # <<>> => simPage = Frame(sim).id
  BY DEF SimInv
\* The simulation goes on to r, with the fetches and the flow drawn as before.
<1>2. ASSUME NEW r, Stacked(r), sim' = r, simOpen, UNCHANGED <<fetches, simOpen, drawn>>,
             simPage' \in SimFlows, ~r.done /\ r.menus # <<>> => simPage' = Frame(r).id
      PROVE  SimInv'
  BY <1>1, <1>2 DEF SimInv, Running, Stacked, Frame
<1>3. CASE UNCHANGED simVars
  BY <1>3 DEF SimInv, simVars, Running, Stacked, Frame
<1>4. CASE OpenSim \/ CloseSim \/ resetSim
  <2>1. sim' = NoSim /\ UNCHANGED <<fetches, drawn>> /\ simPage' \in SimFlows
    BY <1>1, <1>4, SimAssumption DEF OpenSim, CloseSim, resetSim
  <2> QED BY <1>1, <2>1 DEF SimInv, Running, Stacked
<1>5. CASE startSim
  <2>1. /\ simOpen /\ "start" \in DOMAIN SimNodes[drawn] /\ UNCHANGED <<fetches, simOpen, simPage, drawn>>
        /\ sim' = [node |-> "start", done |-> FALSE, deadEnd |-> FALSE, menus |-> <<>>,
                   flows |-> <<[id |-> 0, of |-> drawn]>>]
    BY <1>5 DEF startSim
  <2>2. PICK e \in SimFrame : e = [id |-> 0, of |-> drawn] /\ e.of = drawn
    <3>1. [id |-> 0, of |-> drawn] \in SimFrame
      BY <1>1, Zenon DEF SimFrame
    <3>2. PICK e : e = [id |-> 0, of |-> drawn]
      OBVIOUS
    <3> QED BY <3>1, <3>2
  <2>3. "start" \in SimNames
    BY <1>1, <2>1, SimName
  <2>4. PICK fs \in Seq(SimFrame) : fs = <<e>> /\ Len(fs) = 1 /\ fs[1] = e
    <3>1. <<e>> \in Seq(SimFrame)
      OBVIOUS
    <3>2. Len(<<e>>) = 1 /\ <<e>>[1] = e
      OBVIOUS
    <3> QED BY <3>1, <3>2, Zenon
  <2>5. PICK ms \in Seq(SimNames) : ms = <<>> /\ Len(ms) = 0
    <3>1. <<>> \in Seq(SimNames) /\ Len(<<>>) = 0
      BY EmptySeq, Zenon
    <3> QED BY <3>1, Zenon
  <2>6. PICK r \in SimState : r = [node |-> "start", done |-> FALSE, deadEnd |-> FALSE,
                                   menus |-> ms, flows |-> fs]
    BY <2>3 DEF SimState
  <2>7. r.node = "start" /\ r.flows = fs /\ r.menus = ms
    BY <2>6
  <2>8. Frame(r) = e
    BY <2>4, <2>7 DEF Frame
  <2>9. Stacked(r)
    BY <2>1, <2>2, <2>4, <2>5, <2>7, <2>8 DEF Stacked
  <2>10. sim' = r
    BY <2>1, <2>2, <2>4, <2>5, <2>6
  <2> QED BY <1>1, <1>2, <2>1, <2>5, <2>7, <2>9, <2>10
<1>6. CASE PageLoads
  <2>1. drawn' = simPage /\ UNCHANGED <<sim, fetches, simOpen, simPage>>
    BY <1>6 DEF PageLoads
  <2> QED BY <1>1, <2>1 DEF SimInv, Running, Stacked, Frame
<1>7. ASSUME NEW b, advanceToBranch(b)
      PROVE  SimInv'
  <2>1. /\ simOpen /\ sim # NoSim /\ ~sim.done /\ Stacked(sim) /\ UNCHANGED <<simOpen, simPage, drawn>>
        /\ sim.menus # <<>> => simPage = Frame(sim).id
    BY <1>1, <1>7 DEF advanceToBranch, Running
  <2>2. Frame(sim).of \in SimFlows
    BY <2>1, FrameType
  <2>3. ASSUME NEW e \in SimEdges[Frame(sim).of], UNCHANGED fetches,
               sim' = [sim EXCEPT !.node = e.to, !.deadEnd = FALSE]
        PROVE  SimInv'
    <3>1. PICK r : r = [sim EXCEPT !.node = e.to, !.deadEnd = FALSE]
      OBVIOUS
    <3>2. Stacked(r) /\ r.menus = sim.menus /\ Frame(r) = Frame(sim)
      <4>1. e.to \in DOMAIN SimNodes[Frame(sim).of]
        BY <2>2, SimAssumption
      <4> QED BY <2>1, <3>1, <4>1, MoveStep
    <3> QED BY <1>1, <1>2, <2>1, <2>3, <3>1, <3>2
  <2>4. ASSUME UNCHANGED sim, NEW s \in SimSubmenus[Frame(sim).of],
               fetches' = fetches \cup {[base |-> sim, sub |-> s.flow]}
        PROVE  SimInv'
    <3>1. s.flow \in SimFlows
      BY <2>2, SimAssumption
    <3>2. \A q \in fetches' : Stacked(q.base) /\ ~q.base.done /\ q.sub \in SimFlows
      BY <1>1, <2>1, <2>4, <3>1
    <3> QED BY <1>1, <2>1, <2>4, <3>2 DEF SimInv, Running, Stacked, Frame
  <2>5. CASE sim' = [sim EXCEPT !.done = TRUE] /\ UNCHANGED fetches
    <3>1. PICK r : r = [sim EXCEPT !.done = TRUE]
      OBVIOUS
    <3>2. Stacked(r) /\ r.done
      BY <2>1, <3>1, HaltStep
    <3> QED BY <1>1, <1>2, <2>1, <2>5, <3>1, <3>2
  <2> QED BY <1>7, <2>3, <2>4, <2>5 DEF advanceToBranch, getOutgoingEdges
<1>8. ASSUME NEW q \in fetches, SubflowArrives(q)
      PROVE  SimInv'
  <2>1. /\ Stacked(q.base) /\ ~q.base.done /\ q.sub \in SimFlows
        /\ UNCHANGED <<simOpen, drawn>> /\ fetches' \subseteq fetches
        /\ simPage' = IF "start" \in DOMAIN SimNodes[q.sub] THEN q.sub ELSE simPage
    BY <1>1, <1>8 DEF SubflowArrives
  <2>2. \A p \in fetches' : Stacked(p.base) /\ ~p.base.done /\ p.sub \in SimFlows
    BY <1>1, <2>1
  <2>3. CASE ~simOpen
    <3>1. sim' = NoSim
      BY <1>1, <1>8, <2>3 DEF SubflowArrives
    <3> QED BY <1>1, <2>1, <2>2, <3>1 DEF SimInv, Running, Stacked, Frame
  <2>4. ASSUME simOpen, NEW r, sim' = r, Stacked(r), ~r.done => simPage' = Frame(r).id
        PROVE  SimInv'
    BY <1>1, <2>1, <2>2, <2>4 DEF SimInv, Running, Stacked, Frame
  <2>5. CASE simOpen /\ "start" \notin DOMAIN SimNodes[q.sub]
    <3>1. PICK r : r = [q.base EXCEPT !.done = TRUE]
      OBVIOUS
    <3>2. Stacked(r) /\ r.done
      BY <2>1, <3>1, HaltStep
    <3>3. sim' = r
      BY <1>8, <2>5, <3>1 DEF SubflowArrives
    <3> QED BY <2>4, <2>5, <3>2, <3>3
  <2>6. CASE simOpen /\ "start" \in DOMAIN SimNodes[q.sub]
    <3>1. PICK r : r = [q.base EXCEPT !.node = "start", !.deadEnd = FALSE,
                                      !.menus = Append(@, q.base.node),
                                      !.flows = Append(@, [id |-> q.sub, of |-> q.sub])]
      OBVIOUS
    <3>2. Stacked(r) /\ Frame(r).id = q.sub
      <4>1. PICK s : s = q.base
        OBVIOUS
      <4>2. Stacked(s) /\ ~s.done
        BY <2>1, <4>1
      <4>3. r = [s EXCEPT !.node = "start", !.deadEnd = FALSE,
                          !.menus = Append(@, s.node),
                          !.flows = Append(@, [id |-> q.sub, of |-> q.sub])]
        BY <3>1, <4>1
      <4> QED BY <2>1, <2>6, <4>2, <4>3, PushStep, ZenonT(40)
    <3>3. sim' = r
      BY <1>8, <2>6, <3>1 DEF SubflowArrives
    <3> QED BY <2>1, <2>4, <2>6, <3>2, <3>3
  <2> QED BY <2>3, <2>5, <2>6
<1>9. ASSUME NEW q \in fetches, SubflowFails(q)
      PROVE  SimInv'
  <2>1. fetches' \subseteq fetches /\ UNCHANGED <<sim, simOpen, simPage, drawn>>
    BY <1>9 DEF SubflowFails
  <2>2. \A p \in fetches' : Stacked(p.base) /\ ~p.base.done /\ p.sub \in SimFlows
    BY <1>1, <2>1
  <2> QED BY <1>1, <2>1, <2>2 DEF SimInv, Running, Stacked, Frame
<1>10. ASSUME simOpen, Running, UNCHANGED <<fetches, simOpen, drawn>>, sim.menus # <<>>,
              sim' = returnFromSubmenu(sim), simPage' = PageAfterReturn(sim)
       PROVE  SimInv'
  <2>1. Stacked(sim)
    BY <1>1, <1>10 DEF Running
  <2>2. PICK r : r = returnFromSubmenu(sim)
    OBVIOUS
  <2>3. /\ Stacked(r) /\ PageAfterReturn(sim) \in SimFlows
        /\ r.menus # <<>> => PageAfterReturn(sim) = Frame(r).id
    BY <1>10, <2>1, <2>2, ReturnStep
  <2> QED BY <1>2, <1>10, <2>2, <2>3
<1>11. ASSUME simOpen, Running, UNCHANGED <<fetches, simOpen, simPage, drawn>>,
              sim' = [sim EXCEPT !.done = TRUE] \/ sim' = [sim EXCEPT !.deadEnd = TRUE]
       PROVE  SimInv'
  <2>1. Stacked(sim) /\ (sim.menus # <<>> => simPage = Frame(sim).id)
    BY <1>1, <1>11 DEF Running
  <2>2. PICK r : sim' = r /\ (r = [sim EXCEPT !.done = TRUE] \/ r = [sim EXCEPT !.deadEnd = TRUE])
    BY <1>11
  <2>3. Stacked(r) /\ r.menus = sim.menus /\ Frame(r) = Frame(sim)
    BY <2>1, <2>2, HaltStep
  <2> QED BY <1>1, <1>2, <1>11, <2>1, <2>2, <2>3
<1>12. CASE completeCurrentStep
  BY <1>10, <1>11, <1>12 DEF completeCurrentStep
<1>13. CASE autoAdvance
  <2>1. simOpen /\ Running /\ UNCHANGED <<fetches, simOpen, drawn>>
    BY <1>13 DEF autoAdvance
  <2>2. ASSUME NEW to \in resolveAutoAdvance(Frame(sim).of, sim.node), UNCHANGED simPage,
               sim' = [sim EXCEPT !.node = to, !.deadEnd = FALSE]
        PROVE  SimInv'
    <3>1. Stacked(sim) /\ Frame(sim).of \in SimFlows /\ (sim.menus # <<>> => simPage = Frame(sim).id)
      BY <1>1, <2>1, FrameType DEF Running
    <3>2. to \in DOMAIN SimNodes[Frame(sim).of]
      BY <2>2, <3>1, SimAssumption DEF resolveAutoAdvance, getOutgoingEdges
    <3>3. PICK r : r = [sim EXCEPT !.node = to, !.deadEnd = FALSE]
      OBVIOUS
    <3>4. Stacked(r) /\ r.menus = sim.menus /\ Frame(r) = Frame(sim)
      BY <3>1, <3>2, <3>3, MoveStep
    <3> QED BY <1>1, <1>2, <2>1, <2>2, <3>1, <3>3, <3>4
  <2> QED BY <1>10, <1>11, <1>13, <2>1, <2>2 DEF autoAdvance
<1> QED BY <1>3, <1>4, <1>5, <1>6, <1>7, <1>8, <1>9, <1>12, <1>13 DEF SimNext
-----------------------------------------------------------------------------
(* The flow editor's canvas is a graph the backend can store, whatever is    *)
(* pasted, grouped, connected and deleted, and the simulator walks the flow  *)
(* it shows, whenever the answer for a submenu arrives.                      *)
THEOREM CanvasAndSimulatorHolds == PlatformSpec => []CanvasAndSimulator
<1>1. PlatformInit => CanvasInv /\ SimInv
  <2> SUFFICES ASSUME PlatformInit
               PROVE  CanvasInv /\ SimInv
    OBVIOUS
  <2>1. CanvasInit /\ SimInit
    BY DEF PlatformInit
  <2>2. NodesOk(<<>>) /\ EdgesOk(<<>>, {})
    <3>1. DOMAIN <<>> = {} /\ <<>> \in [{} -> CanvasNode]
      BY EmptySeq
    <3> QED BY <3>1 DEF NodesOk, EdgesOk
  <2>3. clip.nodes = <<>> /\ clip.edges = {}
    BY <2>1 DEF CanvasInit
  <2>4. {StartId, 2, 3} \subseteq CanvasIds /\ NoParent \notin CanvasIds /\ StartId = 1
    BY CanvasAssumption DEF StartId, NoParent
  <2>5. PICK a \in CanvasNode : /\ a = buildCanvasNode("start", NoParent)
                                /\ a.type = "start" /\ a.parent = NoParent /\ a.menu = NoParent
    BY NewNode
  <2>6. PICK b \in CanvasNode : /\ b = buildCanvasNode("menu", NoParent)
                                /\ b.type = "menu" /\ b.parent = NoParent
    BY NewNode
  <2>7. PICK c \in CanvasNode : /\ c = [buildCanvasNode("hangup", NoParent) EXCEPT !.menu = 2]
                                /\ c.type = "hangup" /\ c.parent = NoParent
    <3>1. PICK d \in CanvasNode : /\ d = buildCanvasNode("hangup", NoParent)
                                  /\ d.type = "hangup" /\ d.parent = NoParent
      BY NewNode
    <3>2. PICK c : c = [d EXCEPT !.menu = 2]
      OBVIOUS
    <3>3. c \in CanvasNode /\ c.type = d.type /\ c.parent = d.parent
      BY <2>4, <3>2 DEF CanvasNode
    <3> QED BY <3>1, <3>2, <3>3
  <2>8. NodesOk(cnodes) /\ Housed(cnodes) /\ EdgesOk(cnodes, cedges)
    <3>1. CASE cnodes = [n \in {StartId} |-> buildCanvasNode("start", NoParent)]
      <4>1. DOMAIN cnodes = {StartId} /\ cnodes[StartId] = a /\ cnodes \in [{StartId} -> CanvasNode]
        BY <2>5, <3>1
      <4>2. cedges = {}
        BY <2>1, <2>4, <4>1 DEF CanvasInit, Placed
      <4> QED BY <2>4, <2>5, <4>1, <4>2 DEF NodesOk, Housed, EdgesOk
    <3>2. CASE cnodes = [n \in {StartId, 2, 3} |->
                           CASE n = 2 -> buildCanvasNode("menu", NoParent)
                             [] n = 3 -> [buildCanvasNode("hangup", NoParent) EXCEPT !.menu = 2]
                             [] OTHER -> buildCanvasNode("start", NoParent)]
      <4>1. DOMAIN cnodes = {StartId, 2, 3}
        BY <3>2
      <4>2. cnodes[StartId] = a /\ cnodes[2] = b /\ cnodes[3] = c
        BY <2>4, <2>5, <2>6, <2>7, <3>2
      <4>3. cnodes \in [{StartId, 2, 3} -> CanvasNode]
        <5>1. cnodes = [n \in {StartId, 2, 3} |-> cnodes[n]]
          BY <3>2
        <5> QED BY <4>2, <5>1
      <4>4. NodesOk(cnodes) /\ Housed(cnodes)
        <5>1. ASSUME NEW n \in {StartId, 2, 3}
              PROVE  /\ cnodes[n].type = "start" => n = StartId /\ cnodes[n].menu = NoParent
                     /\ cnodes[n].parent = NoParent
          BY <2>5, <2>6, <2>7, <4>2
        <5>2. NoParent \notin {StartId, 2, 3}
          BY <2>4
        <5>3. Housed(cnodes)
          BY <2>5, <4>1, <4>2, <5>1 DEF Housed
        <5> QED BY <2>4, <4>1, <4>3, <5>1, <5>2, <5>3 DEF NodesOk
      <4>5. cedges = {[s |-> StartId, t |-> 2, c |-> Plain]} \cup {[s |-> 2, t |-> 3, c |-> x] : x \in Branches}
        BY <2>1, <4>1 DEF CanvasInit, Placed
      <4>6. TypesConnect("start", "menu") /\ TypesConnect("menu", "hangup")
        BY DEF TypesConnect, StartTargets, TerminalTypes
      <4>7. ASSUME NEW e \in cedges
            PROVE  /\ e \in CanvasEdge
                   /\ (e.s = StartId /\ e.t = 2) \/ (e.s = 2 /\ e.t = 3)
        BY <2>4, <4>5 DEF CanvasEdge
      <4>8. EdgesOk(cnodes, cedges)
        BY <2>5, <2>6, <2>7, <4>1, <4>2, <4>6, <4>7 DEF EdgesOk
      <4> QED BY <4>4, <4>8
    <3> QED BY <2>1, <3>1, <3>2 DEF CanvasInit
  <2>9. SimInv
    BY <2>1 DEF SimInit, SimInv, Running
  <2> QED BY <2>2, <2>3, <2>8, <2>9 DEF CanvasInv
<1>2. CanvasInv /\ SimInv /\ [PlatformNext]_platformVars => CanvasInv' /\ SimInv'
  BY CanvasSteps, CanvasInvStep, SimSteps, SimInvStep
<1>3. CanvasInv /\ SimInv => CanvasAndSimulator
  <2> SUFFICES ASSUME CanvasInv, SimInv
               PROVE  CanvasConsistent /\ SimulatorFramesAgree
    BY DEF CanvasAndSimulator
  <2>1. {n \in Placed : Kind(n) = "start"} = {StartId}
    BY OnCanvas
  <2>2. \A e \in cedges : {e.s, e.t} \subseteq Placed /\ TypesConnect(Kind(e.s), Kind(e.t))
    BY EdgeEnds
  <2>3. \A n \in Placed : cnodes[n].parent # NoParent => cnodes[n].parent \in Groups
    BY OnCanvas DEF Groups, IsGroup
  <2>4. SimulatorFramesAgree
    BY DEF SimInv, SimulatorFramesAgree, Running, Stacked
  <2> QED BY <2>1, <2>2, <2>3, <2>4 DEF CanvasConsistent
<1> QED BY <1>1, <1>2, <1>3, PTL DEF PlatformSpec
=============================================================================
