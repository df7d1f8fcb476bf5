------------------------ MODULE CampaignDialerProofs ------------------------
(***************************************************************************)
(* Proofs about the campaign dialer, for every number of contacts, window  *)
(* and number of retries: type correctness, one call per contact, the      *)
(* bound on the attempts, that a contact reported final is never dialed    *)
(* again, and that a stop request ends dialing.                            *)
(***************************************************************************)
EXTENDS CampaignDialer, SequenceTheorems, TLAPS

\* The row of a contact is its status and the mark of a wrong report.
USE DEF rowVars

DialPcs == [Contacts -> {"idle", "format", "response"}]
Published == Seq({"completed", "cancelled"})

(* Appending a final status to the published messages.                      *)
LEMMA PublishType ==
  ASSUME TypeOK
  PROVE  /\ Append(toBackend, "cancelled") \in Published
         /\ Append(toBackend, "completed") \in Published
         /\ Append(toBackend, IF stopRequested THEN "cancelled" ELSE "completed")
              \in Published
<1>1. toBackend \in Seq({"completed", "cancelled"})
  BY DEF TypeOK
<1>2. \A m \in {"completed", "cancelled"} : Append(toBackend, m) \in Published
  BY <1>1 DEF Published
<1>3. (IF stopRequested THEN "cancelled" ELSE "completed") \in {"completed", "cancelled"}
  OBVIOUS
<1> QED BY <1>2, <1>3

\* What becomes of a loop after its publish: it goes on, or it ends throwing.
LoopGoesOn(q, pc, check) == FillWindow(q, pc, check) \/ (q = queue /\ LoopThrows(pc))

(* What one pass of the fillWindow loop leaves behind, well typed.          *)
LEMMA FillWindowType ==
  ASSUME TypeOK,
         NEW q \in Seq(Contacts), NEW pc \in DialPcs, NEW check \in BOOLEAN,
         LoopGoesOn(q, pc, check)
  PROVE  /\ queue' \in Seq(Contacts)
         /\ dialPc' \in DialPcs
         /\ dialCheck' \in [Contacts -> BOOLEAN]
         /\ deleting' \in BOOLEAN
         /\ toBackend' \in Published
<1>1. CASE FillWindow(q, pc, check) /\ MayDial(q)
  <2>1. Head(q) \in Contacts /\ Tail(q) \in Seq(Contacts)
    BY <1>1 DEF MayDial
  <2> QED BY <1>1, <2>1 DEF FillWindow, TypeOK, DialPcs, Published
<1>2. CASE FillWindow(q, pc, check) /\ ~MayDial(q)
  <2>1. FinishCampaign(q, check)
    BY <1>2 DEF FillWindow
  <2>2. toBackend' \in Published /\ deleting' \in BOOLEAN
    BY <2>1, PublishType DEF FinishCampaign, TypeOK, Published
  <2> QED BY <1>2, <2>2 DEF FillWindow, TypeOK
<1>3. CASE q = queue /\ LoopThrows(pc)
  BY <1>3 DEF LoopThrows, TypeOK, Published
<1> QED BY <1>1, <1>2, <1>3 DEF LoopGoesOn

(* The channel of a dial and the end of a channel are well typed.           *)
LEMMA ChannelEndType ==
  ASSUME TypeOK, NEW ch \in Channel, NEW cause \in Cause, ChannelEnd(ch, cause)
  PROVE  /\ active' \in SUBSET Channel
         /\ flowRan' \in SUBSET Channel
         /\ retries' \in SUBSET Channel
         /\ reporting' \in SUBSET (Channel \X Outcome)
<1>1. determineOutcome(ch, cause) \in Outcome
  BY DEF determineOutcome, Outcome
<1> QED BY <1>1 DEF ChannelEnd, TypeOK

(* Every step keeps the type invariant.                                     *)
LEMMA TypeStep == TypeOK /\ [DialerNext]_dialerVars => TypeOK'
<1> SUFFICES ASSUME TypeOK, [DialerNext]_dialerVars PROVE TypeOK'
  OBVIOUS
<1> USE DialerAssumption
<1>1. CASE RecvStart
  BY <1>1 DEF TypeOK, RecvStart, asteriskVars, loopVars, callVars
<1>2. CASE RecvStop
  <2>1. toBackend' \in Published
    BY <1>2, PublishType DEF TypeOK, RecvStop, Published
  <2>2. registered' \in BOOLEAN /\ stopRequested' \in BOOLEAN
    BY <1>2 DEF TypeOK, RecvStop
  <2> QED BY <1>2, <2>1, <2>2 DEF TypeOK, RecvStop, Published, asteriskVars, callVars
<1>3. CASE StartRegister
  <2>1. PendingContacts \in Seq(Contacts) /\ <<>> \in Seq(Contacts)
    <3>1. PendingContacts \in [1..PageLength -> Contacts]
      BY DialerAssumption DEF PendingContacts, PageLength, Contacts
    <3>2. PageLength \in Nat
      BY DialerAssumption DEF PageLength
    <3> QED BY <3>1, <3>2
  <2> QED BY <1>3, <2>1 DEF TypeOK, StartRegister, asteriskVars, callVars
<1>4. CASE StartFill
  <2>1. /\ queue' \in Seq(Contacts)
        /\ dialPc' \in DialPcs
        /\ dialCheck' \in [Contacts -> BOOLEAN]
        /\ deleting' \in BOOLEAN
        /\ toBackend' \in Published
    BY <1>4, FillWindowType DEF TypeOK, StartFill, DialPcs, LoopGoesOn
  <2> QED BY <1>4, <2>1 DEF TypeOK, StartFill, DialPcs, Published, asteriskVars, callVars
<1>5. ASSUME NEW c \in Contacts, DialFailed(c) PROVE TypeOK'
  <2>1. Idle(c) \in DialPcs /\ dialCheck[c] \in BOOLEAN
    BY DEF TypeOK, Idle, DialPcs
  <2>2. /\ queue' \in Seq(Contacts)
        /\ dialPc' \in DialPcs
        /\ dialCheck' \in [Contacts -> BOOLEAN]
        /\ deleting' \in BOOLEAN
        /\ toBackend' \in Published
    BY <1>5, <2>1, FillWindowType DEF TypeOK, DialFailed, LoopGoesOn
  <2> QED BY <1>5, <2>2 DEF TypeOK, DialFailed, ContactUpdate, RowStatus, Outcome,
          Cause, DialPcs, Published, asteriskVars, callVars, controlVars
<1>6. ASSUME NEW c \in Contacts, Originate(c) PROVE TypeOK'
  <2>1. DialChannel(c) \in Channel
    BY DEF TypeOK, DialChannel, Channel
  <2> QED BY <1>6, <2>1 DEF TypeOK, Originate, callVars, controlVars
<1>7. ASSUME NEW c \in Contacts, OriginateRecorded(c) PROVE TypeOK'
  <2>1. DialChannel(c) \in Channel
    BY DEF TypeOK, DialChannel, Channel
  <2>2. <<DialChannel(c), dialCheck[c]>> \in Channel \X BOOLEAN
    BY <2>1 DEF TypeOK
  <2> QED BY <1>7, <2>1, <2>2 DEF TypeOK, OriginateRecorded, Idle, asteriskVars, controlVars
<1>8. ASSUME NEW a \in announcing, Announce(a[1], a[2]) PROVE TypeOK'
  <2>1. a[1][1] \in Contacts /\ a[2] \in BOOLEAN
    BY DEF TypeOK, Channel
  <2>2. /\ queue' \in Seq(Contacts)
        /\ dialPc' \in DialPcs
        /\ dialCheck' \in [Contacts -> BOOLEAN]
        /\ deleting' \in BOOLEAN
        /\ toBackend' \in Published
    BY <1>8, <2>1, FillWindowType DEF TypeOK, Announce, DialPcs, LoopGoesOn
  <2> QED BY <1>8, <2>1, <2>2 DEF TypeOK, Announce, ContactUpdate,
          ContactMisreported, RowStatus, Outcome, Cause,
          DialPcs, Published, asteriskVars, controlVars
<1>9. ASSUME NEW ch \in ringing, StasisStart(ch) PROVE TypeOK'
  <2>1. ch \in Channel /\ ch[1] \in Contacts
    BY DEF TypeOK, Channel
  <2>2. /\ rowStatus' \in [Contacts -> RowStatus] /\ misreported' \in SUBSET Contacts
        /\ starting' \in SUBSET Channel
    BY <1>9, <2>1 DEF TypeOK, StasisStart, ContactUpdate, RowStatus
  <2> QED BY <1>9, <2>1, <2>2 DEF TypeOK, StasisStart, loopVars, controlVars
<1>10. ASSUME NEW ch \in starting, FlowStarted(ch) \/ FlowRefused(ch) PROVE TypeOK'
  BY <1>10 DEF TypeOK, FlowStarted, FlowRefused, asteriskVars, loopVars, controlVars
<1>11. ASSUME NEW ch \in inStasis, StasisEnd(ch) PROVE TypeOK'
  <2>1. ch \in Channel /\ "failed" \in Cause
    BY DEF TypeOK, Cause
  <2>2. /\ active' \in SUBSET Channel
        /\ flowRan' \in SUBSET Channel
        /\ retries' \in SUBSET Channel
        /\ reporting' \in SUBSET (Channel \X Outcome)
    BY <1>11, <2>1, ChannelEndType DEF StasisEnd
  <2> QED BY <1>11, <2>1, <2>2 DEF TypeOK, StasisEnd, loopVars, controlVars
<1>12. ASSUME NEW ch \in ringing \cup leaving, NEW cause \in Cause,
              ChannelDestroyed(ch, cause)
       PROVE TypeOK'
  <2>1. ch \in Channel
    BY DEF TypeOK
  <2>2. /\ active' \in SUBSET Channel
        /\ flowRan' \in SUBSET Channel
        /\ retries' \in SUBSET Channel
        /\ reporting' \in SUBSET (Channel \X Outcome)
    BY <1>12, <2>1, ChannelEndType DEF ChannelDestroyed
  <2> QED BY <1>12, <2>1, <2>2 DEF TypeOK, ChannelDestroyed, loopVars, controlVars
<1>13. ASSUME NEW r \in reporting, Report(r[1], r[2]) PROVE TypeOK'
  <2>1. r[1][1] \in Contacts /\ r[2] \in Outcome
    BY DEF TypeOK, Channel
  <2>2. /\ queue' \in Seq(Contacts)
        /\ dialPc' \in DialPcs
        /\ dialCheck' \in [Contacts -> BOOLEAN]
        /\ deleting' \in BOOLEAN
        /\ toBackend' \in Published
    BY <1>13, FillWindowType DEF TypeOK, Report, DialPcs, LoopGoesOn
  <2>3. rowStatus' \in [Contacts -> RowStatus] /\ misreported' \in SUBSET Contacts
    BY <1>13, <2>1 DEF TypeOK, Report, ContactUpdate, RowStatus
  <2> QED BY <1>13, <2>2, <2>3 DEF TypeOK, Report, DialPcs, Published, asteriskVars, controlVars
<1>14. CASE DeleteRuntime
  BY <1>14 DEF TypeOK, DeleteRuntime, asteriskVars, callVars
<1>15. ASSUME NEW ch \in retries, RetryFires(ch) PROVE TypeOK'
  <2>1. ch[1] \in Contacts /\ ch[2] \in Nat
    BY DEF TypeOK, Channel
  <2>2. Append(queue, ch[1]) \in Seq(Contacts)
    BY <2>1 DEF TypeOK
  <2>3. /\ queue' \in Seq(Contacts)
        /\ dialPc' \in DialPcs
        /\ dialCheck' \in [Contacts -> BOOLEAN]
        /\ deleting' \in BOOLEAN
        /\ toBackend' \in Published
    BY <1>15, <2>2, FillWindowType DEF TypeOK, RetryFires, DialPcs, LoopGoesOn
  <2> QED BY <1>15, <2>1, <2>3 DEF TypeOK, RetryFires, DialPcs, Published,
          asteriskVars, controlVars
<1>16. CASE UNCHANGED dialerVars
  BY <1>16 DEF TypeOK, dialerVars
<1>17. CASE DialStep
  BY <1>5, <1>6, <1>7, <1>17 DEF DialStep, DialRejected, ResponseLost
<1>18. CASE AnnounceStep
  BY <1>8, <1>18 DEF AnnounceStep
<1>19. CASE CallStep
  BY <1>9, <1>10, <1>11, <1>12, <1>19 DEF CallStep
<1>20. CASE EndStep
  BY <1>13, <1>14, <1>15, <1>20 DEF EndStep
<1> QED
  BY <1>1, <1>2, <1>3, <1>4, <1>16, <1>17, <1>18, <1>19, <1>20
  DEF DialerNext, DialerStep

(* A campaign that has not begun has the types of the dialer.               *)
LEMMA DialerInitType == DialerInit => TypeOK
<1> SUFFICES ASSUME DialerInit PROVE TypeOK
  OBVIOUS
<1>1. "pending" \in RowStatus
  BY DEF RowStatus
<1>2. rowStatus \in [Contacts -> RowStatus]
  BY <1>1 DEF DialerInit
<1>3. tries \in [Contacts -> Nat] /\ dialCheck \in [Contacts -> BOOLEAN]
  BY DEF DialerInit
<1>4. dialPc \in [Contacts -> {"idle", "format", "response"}]
  BY DEF DialerInit
<1>5. queue \in Seq(Contacts) /\ toBackend \in Seq({"completed", "cancelled"})
  BY DEF DialerInit
<1> QED BY <1>2, <1>3, <1>4, <1>5 DEF DialerInit, TypeOK

(* Type correctness of the dialer, for all values of its constants.         *)
THEOREM DialerTypeCorrect == DialerSpec => []TypeOK
BY DialerInitType, TypeStep, PTL DEF DialerSpec

-----------------------------------------------------------------------------
(* The inductive invariant.                                                 *)

UniqueIn(q) == \A i, j \in 1..Len(q) : q[i] = q[j] => i = j

(* One pass of fillWindow keeps the queue free of duplicates and of traced  *)
(* contacts: the contact it takes is the only one whose dial state changes. *)
LEMMA FillWindowKeeps ==
  ASSUME NEW q \in Seq(Contacts), NEW pc \in DialPcs, NEW check \in BOOLEAN,
         LoopGoesOn(q, pc, check),
         UniqueIn(q),
         \A i \in 1..Len(q) : pc[q[i]] = "idle" /\ \A ch \in Trace' : ch[1] # q[i],
         \A c \in Contacts : pc[c] = "format" => \A ch \in Trace' : ch[1] # c
  PROVE  /\ QueuedAreUntraced'
         /\ \A c \in Contacts : dialPc'[c] = "format" => Untraced(c)'
         /\ \A c \in Contacts : dialPc'[c] = "response" => pc[c] = "response"
         /\ \A c \in Contacts :
              pc[c] = "idle" /\ (\A i \in 1..Len(q) : q[i] # c) =>
                /\ dialPc'[c] = "idle"
                /\ \A i \in 1..Len(queue') : queue'[i] # c
<1>1. CASE FillWindow(q, pc, check) /\ MayDial(q)
  <2>1. q # <<>> /\ queue' = Tail(q) /\ dialPc' = [pc EXCEPT ![Head(q)] = "format"]
    BY <1>1 DEF MayDial, FillWindow
  <2>2. /\ Head(q) = q[1] /\ q[1] \in Contacts /\ 1 \in 1..Len(q)
        /\ \A i \in 1..Len(Tail(q)) : i + 1 \in 1..Len(q) /\ Tail(q)[i] = q[i + 1]
    BY <2>1
  <2>3. \A i, j \in 1..Len(Tail(q)) : Tail(q)[i] = Tail(q)[j] => i = j
    BY <2>2 DEF UniqueIn
  <2>4. \A i \in 1..Len(Tail(q)) : Tail(q)[i] # Head(q) /\ Tail(q)[i] \in Contacts
    BY <2>2 DEF UniqueIn
  <2>5. \A c \in Contacts : dialPc'[c] = IF c = Head(q) THEN "format" ELSE pc[c]
    BY <2>1, <2>2 DEF DialPcs
  <2>6. \A i \in 1..Len(Tail(q)) : pc[Tail(q)[i]] = "idle" /\ \A ch \in Trace' : ch[1] # Tail(q)[i]
    BY <2>2
  <2>7. QueuedAreUntraced'
    BY <2>1, <2>3, <2>4, <2>5, <2>6 DEF QueuedAreUntraced, Untraced
  <2>8. \A ch \in Trace' : ch[1] # Head(q)
    BY <2>2
  <2> QED BY <2>1, <2>2, <2>5, <2>7, <2>8 DEF Untraced
<1>2. CASE LoopGoesOn(q, pc, check) /\ ~(FillWindow(q, pc, check) /\ MayDial(q))
  <2>1. queue' = q /\ dialPc' = pc
    BY <1>2 DEF LoopGoesOn, LoopThrows, FillWindow
  <2> QED BY <2>1 DEF QueuedAreUntraced, UniqueIn, Untraced
<1> QED BY <1>1, <1>2

(* Nothing of the dialer is touched by a step that changes neither queue,   *)
(* dials, channels, timers, reports nor rows.                               *)
dialState == <<queue, dialPc, tries, active, announcing, retries, reporting,
               ringing, inStasis, leaving, rowStatus, misreported>>

(* A step that leaves them all alone keeps the dialer's invariant.          *)
LEMMA QuietStep ==
  ASSUME DialerInv, UNCHANGED dialState,
         startPc' \in {"none", "fetch"} => startPc \in {"none", "fetch"}
  PROVE  DialerInv'
BY DEF DialerInv, dialState, NothingBeforeStart, QueuedAreUntraced, DialedAreUntraced,
       OneTrace, TriesBounded, AttemptsBounded, FinalHaveLeft, Left, Untraced, Trace,
       Live, DialChannel, ShouldRetry

(* The facts about single channels and contacts that the step proofs use.   *)
LEMMA ChannelFacts ==
  ASSUME TypeOK
  PROVE  /\ \A ch \in Trace : ch[1] \in Contacts /\ ch[2] \in Nat
         /\ \A r \in reporting : r[1][1] \in Contacts
         /\ \A i \in 1..Len(queue) : queue[i] \in Contacts
BY DEF TypeOK, Trace, Live, Channel

(* fillWindow on the queue and dials as they are: a contact that has left   *)
(* stays away, and the conjuncts about queue, dials and traces hold on.     *)
LEMMA FillStep ==
  ASSUME TypeOK, DialerInv, NEW check \in BOOLEAN, LoopGoesOn(queue, dialPc, check),
         UNCHANGED <<tries, active, retries, ringing, inStasis, leaving>>
  PROVE  /\ QueuedAreUntraced' /\ DialedAreUntraced' /\ OneTrace'
         /\ TriesBounded' /\ AttemptsBounded'
         /\ \A c \in Contacts : Left(c) => Left(c)'
<1>1. Trace' = Trace /\ Live' = Live
  BY DEF Trace, Live
<1>2. dialPc \in DialPcs /\ queue \in Seq(Contacts)
  BY DEF TypeOK, DialPcs
<1>3. UniqueIn(queue)
  BY DEF DialerInv, QueuedAreUntraced, UniqueIn
<1>4. \A i \in 1..Len(queue) : dialPc[queue[i]] = "idle" /\ \A ch \in Trace' : ch[1] # queue[i]
  BY <1>1 DEF DialerInv, QueuedAreUntraced, Untraced
<1>5. \A c \in Contacts : dialPc[c] = "format" => \A ch \in Trace' : ch[1] # c
  BY <1>1 DEF DialerInv, DialedAreUntraced, Untraced
<1>6. /\ QueuedAreUntraced'
      /\ \A c \in Contacts : dialPc'[c] = "format" => Untraced(c)'
      /\ \A c \in Contacts : dialPc'[c] = "response" => dialPc[c] = "response"
      /\ \A c \in Contacts :
           dialPc[c] = "idle" /\ (\A i \in 1..Len(queue) : queue[i] # c) =>
             /\ dialPc'[c] = "idle"
             /\ \A i \in 1..Len(queue') : queue'[i] # c
  BY <1>2, <1>3, <1>4, <1>5, FillWindowKeeps
<1>7. DialedAreUntraced'
  BY <1>1, <1>6 DEF DialerInv, DialedAreUntraced, DialChannel
<1>8. OneTrace' /\ TriesBounded' /\ AttemptsBounded'
  BY <1>1 DEF DialerInv, OneTrace, TriesBounded, AttemptsBounded
<1>9. \A c \in Contacts : Left(c) => Left(c)'
  BY <1>6 DEF Left
<1> QED BY <1>6, <1>7, <1>8, <1>9

(* startCampaign: the runtime gets its contacts, each once, and dials.      *)
LEMMA StartSteps ==
  ASSUME TypeOK, DialerInv, StartRegister \/ StartFill
  PROVE  DialerInv'
<1>1. CASE StartRegister
  <2>1. /\ Trace = {} /\ reporting = {} /\ Trace' = {}
        /\ \A c \in Contacts : dialPc[c] = "idle" /\ rowStatus[c] = "pending"
    BY <1>1 DEF DialerInv, NothingBeforeStart, StartRegister, Trace, Live,
                asteriskVars, callVars
  <2>2. \A i, j \in 1..Len(queue') : queue'[i] = queue'[j] => i = j
    <3>1. PageLength \in Nat /\ Len(PendingContacts) = PageLength
      BY DialerAssumption DEF PendingContacts, PageLength
    <3> QED BY <1>1, <3>1 DEF StartRegister, PendingContacts
  <2>3. \A i \in 1..Len(queue') : queue'[i] \in Contacts
    <3>1. TypeOK'
      BY <1>1, TypeStep DEF DialerNext, DialerStep
    <3> QED BY <3>1, ChannelFacts DEF TypeOK
  <2>4. QueuedAreUntraced' /\ DialedAreUntraced' /\ OneTrace' /\ AttemptsBounded'
    BY <1>1, <2>1, <2>2, <2>3 DEF StartRegister, QueuedAreUntraced, DialedAreUntraced,
       OneTrace, AttemptsBounded, Untraced, Trace, Live, asteriskVars, callVars
  <2>5. TriesBounded'
    BY <1>1 DEF DialerInv, TriesBounded, StartRegister, callVars
  <2>6. FinalHaveLeft'
    BY <1>1, <2>1 DEF StartRegister, FinalHaveLeft, Outcome, Cause, callVars
  <2>7. NothingBeforeStart'
    BY <1>1 DEF StartRegister, NothingBeforeStart
  <2> QED BY <2>4, <2>5, <2>6, <2>7 DEF DialerInv
<1>2. CASE StartFill
  <2>1. UNCHANGED <<tries, active, retries, reporting, ringing, inStasis, leaving,
                    rowStatus, misreported>>
    BY <1>2 DEF StartFill, asteriskVars, callVars
  <2>2. /\ QueuedAreUntraced' /\ DialedAreUntraced' /\ OneTrace'
        /\ TriesBounded' /\ AttemptsBounded'
        /\ \A c \in Contacts : Left(c) => Left(c)'
    BY <1>2, <2>1, FillStep DEF StartFill, LoopGoesOn
  <2>3. FinalHaveLeft'
    BY <2>1, <2>2, ChannelFacts DEF DialerInv, FinalHaveLeft, ShouldRetry
  <2>4. NothingBeforeStart'
    BY <1>2 DEF StartFill, NothingBeforeStart
  <2> QED BY <2>2, <2>3, <2>4 DEF DialerInv
<1> QED BY <1>1, <1>2

(* A dial that fails leaves its contact idle and reported; its loop may     *)
(* take the next one.                                                       *)
LEMMA DialFailedStep ==
  ASSUME TypeOK, DialerInv, NEW c \in Contacts, dialPc[c] # "idle", DialFailed(c)
  PROVE  DialerInv'
<1>1. UNCHANGED <<startPc, tries, active, retries, reporting, ringing, inStasis, leaving>>
  BY DEF DialFailed, asteriskVars, callVars, controlVars
<1>2. Trace' = Trace /\ Live' = Live
  BY <1>1 DEF Trace, Live
<1>3. /\ queue \in Seq(Contacts) /\ Idle(c) \in DialPcs /\ dialCheck[c] \in BOOLEAN
      /\ \A d \in Contacts : Idle(c)[d] = IF d = c THEN "idle" ELSE dialPc[d]
  BY DEF TypeOK, DialPcs, Idle
<1>4. \A i \in 1..Len(queue) : queue[i] # c
  BY DEF DialerInv, QueuedAreUntraced
<1>5. \A ch \in active \cup retries : ch[1] # c
  BY DEF DialerInv, DialedAreUntraced, Untraced, Trace, TypeOK
<1>6. /\ QueuedAreUntraced'
      /\ \A d \in Contacts : dialPc'[d] = "format" => Untraced(d)'
      /\ \A d \in Contacts : dialPc'[d] = "response" => Idle(c)[d] = "response"
      /\ \A d \in Contacts :
           Idle(c)[d] = "idle" /\ (\A i \in 1..Len(queue) : queue[i] # d) =>
             /\ dialPc'[d] = "idle"
             /\ \A i \in 1..Len(queue') : queue'[i] # d
  <2>1. UniqueIn(queue)
    BY DEF DialerInv, QueuedAreUntraced, UniqueIn
  <2>2. \A i \in 1..Len(queue) : Idle(c)[queue[i]] = "idle" /\ \A ch \in Trace' : ch[1] # queue[i]
    BY <1>2, <1>3, ChannelFacts DEF DialerInv, QueuedAreUntraced, Untraced
  <2>3. \A d \in Contacts : Idle(c)[d] = "format" => \A ch \in Trace' : ch[1] # d
    BY <1>2, <1>3 DEF DialerInv, DialedAreUntraced, Untraced
  <2> QED BY <1>3, <2>1, <2>2, <2>3, FillWindowKeeps DEF DialFailed, LoopGoesOn
<1>7. DialedAreUntraced'
  BY <1>1, <1>2, <1>3, <1>6 DEF DialerInv, DialedAreUntraced, DialChannel
<1>8. OneTrace' /\ TriesBounded' /\ AttemptsBounded'
  BY <1>1, <1>2 DEF DialerInv, OneTrace, TriesBounded, AttemptsBounded
<1>9. FinalHaveLeft'
  <2>1. Left(c)'
    BY <1>1, <1>3, <1>4, <1>5, <1>6 DEF Left
  <2>2. \A d \in Contacts : Left(d) => Left(d)'
    BY <1>1, <1>3, <1>6 DEF Left
  <2>3. \A d \in Contacts : d # c => /\ rowStatus'[d] = rowStatus[d]
                                     /\ d \in misreported' <=> d \in misreported
    BY DEF DialFailed, ContactUpdate, TypeOK
  <2>4. \A d \in Contacts \ misreported' : rowStatus'[d] \in Outcome => Left(d)'
    BY <2>1, <2>2, <2>3 DEF DialerInv, FinalHaveLeft
  <2> QED BY <1>1, <2>2, <2>4, ChannelFacts DEF DialerInv, FinalHaveLeft, ShouldRetry
<1>10. NothingBeforeStart'
  BY <1>1 DEF DialerInv, NothingBeforeStart
<1> QED BY <1>6, <1>7, <1>8, <1>9, <1>10 DEF DialerInv

(* Asterisk accepts an originate: the new channel is the only trace of its  *)
(* contact.                                                                 *)
LEMMA OriginateStep ==
  ASSUME TypeOK, DialerInv, NEW c \in Contacts, Originate(c)
  PROVE  DialerInv'
<1> DEFINE ch == DialChannel(c)
<1>1. /\ UNCHANGED <<startPc, queue, tries, active, retries, reporting, inStasis, leaving,
                   rowStatus, misreported>>
      /\ dialPc[c] = "format"
      /\ ringing' = ringing \cup {ch}
      /\ \A d \in Contacts : dialPc'[d] = IF d = c THEN "response" ELSE dialPc[d]
  BY DEF Originate, callVars, controlVars, TypeOK
<1>2. Trace' = Trace \cup {ch} /\ Live' = Live \cup {ch} /\ ch \in Trace'
  BY <1>1 DEF Trace, Live
<1>3. ch[1] = c /\ ch[2] = tries[c] + 1 /\ Untraced(c)
  BY <1>1 DEF DialChannel, DialerInv, DialedAreUntraced
<1>4. ch \notin Trace /\ ch \notin active /\ ch \notin retries /\ ch \notin inStasis /\ ch \notin leaving
  BY <1>3 DEF Untraced, Trace, Live
<1>5. \A i \in 1..Len(queue) : queue[i] # c
  BY <1>1 DEF DialerInv, QueuedAreUntraced
<1>6. QueuedAreUntraced'
  BY <1>1, <1>2, <1>3, <1>5, ChannelFacts DEF DialerInv, QueuedAreUntraced, Untraced
<1>7. DialedAreUntraced'
  <2> SUFFICES ASSUME NEW d \in Contacts
               PROVE  /\ dialPc'[d] = "format" => Untraced(d)'
                      /\ dialPc'[d] = "response" =>
                           \A x \in Trace' : x[1] = d =>
                             x = DialChannel(d)' /\ x \notin active' /\ x \notin retries'
    BY DEF DialedAreUntraced
  <2>1. CASE d = c
    BY <1>1, <1>2, <1>3, <1>4, <2>1 DEF Untraced, DialChannel
  <2>2. CASE d # c
    BY <1>1, <1>2, <1>3, <2>2 DEF DialerInv, DialedAreUntraced, Untraced, DialChannel
  <2> QED BY <2>1, <2>2
<1>8. OneTrace'
  <2>1. \A x, y \in Trace' : x[1] = y[1] => x = y
    BY <1>2, <1>3 DEF DialerInv, OneTrace, Untraced
  <2> QED BY <1>1, <1>2, <1>4, <2>1 DEF DialerInv, OneTrace
<1>9. TriesBounded' /\ AttemptsBounded'
  <2>1. ch[2] <= MaxRetries + 1
    BY <1>3, DialerAssumption DEF DialerInv, TriesBounded, TypeOK
  <2> QED BY <1>1, <1>2, <2>1 DEF DialerInv, TriesBounded, AttemptsBounded
<1>10. FinalHaveLeft'
  <2>1. ~Left(c)
    BY <1>1 DEF Left
  <2>2. \A d \in Contacts : Left(d) => Left(d)'
    BY <1>1, <2>1 DEF Left
  <2> QED BY <1>1, <2>2, ChannelFacts DEF DialerInv, FinalHaveLeft, ShouldRetry
<1>11. NothingBeforeStart'
  BY <1>1 DEF DialerInv, NothingBeforeStart
<1> QED BY <1>6, <1>7, <1>8, <1>9, <1>10, <1>11 DEF DialerInv

(* The response of the originate: the channel becomes active.               *)
LEMMA OriginateRecordedStep ==
  ASSUME TypeOK, DialerInv, NEW c \in Contacts, OriginateRecorded(c)
  PROVE  DialerInv'
<1> DEFINE ch == DialChannel(c)
<1>1. /\ UNCHANGED <<startPc, queue, tries, retries, reporting, ringing, inStasis, leaving,
                   rowStatus, misreported>>
      /\ dialPc[c] = "response"
      /\ active' = active \cup {ch}
      /\ \A d \in Contacts : dialPc'[d] = IF d = c THEN "idle" ELSE dialPc[d]
  BY DEF OriginateRecorded, Idle, asteriskVars, controlVars, TypeOK
<1>2. Trace' = Trace \cup {ch} /\ Live' = Live
  BY <1>1 DEF Trace, Live
<1>3. ch[1] = c /\ ch[2] = tries[c] + 1
  BY DEF DialChannel
<1>4. \A x \in Trace : x[1] = c => x = ch /\ x \notin active /\ x \notin retries
  BY <1>1 DEF DialerInv, DialedAreUntraced
<1>5. \A i \in 1..Len(queue) : queue[i] # c
  BY <1>1 DEF DialerInv, QueuedAreUntraced
<1>6. QueuedAreUntraced'
  BY <1>1, <1>2, <1>3, <1>5, ChannelFacts DEF DialerInv, QueuedAreUntraced, Untraced
<1>7. DialedAreUntraced'
  BY <1>1, <1>2, <1>3 DEF DialerInv, DialedAreUntraced, Untraced, DialChannel
<1>8. OneTrace'
  <2>1. \A x, y \in Trace' : x[1] = y[1] => x = y
    BY <1>2, <1>3, <1>4 DEF DialerInv, OneTrace
  <2>2. ch \notin retries
    BY <1>3, <1>4 DEF Trace
  <2> QED BY <1>1, <1>2, <2>1, <2>2 DEF DialerInv, OneTrace
<1>9. TriesBounded' /\ AttemptsBounded'
  <2>1. ch[2] <= MaxRetries + 1
    BY <1>3, DialerAssumption DEF DialerInv, TriesBounded, TypeOK
  <2> QED BY <1>1, <1>2, <2>1 DEF DialerInv, TriesBounded, AttemptsBounded
<1>10. FinalHaveLeft'
  <2>1. ~Left(c)
    BY <1>1 DEF Left
  <2>2. \A d \in Contacts : Left(d) => Left(d)'
    BY <1>1, <1>3, <2>1 DEF Left
  <2> QED BY <1>1, <2>2, ChannelFacts DEF DialerInv, FinalHaveLeft, ShouldRetry
<1>11. NothingBeforeStart'
  BY <1>1 DEF DialerInv, NothingBeforeStart
<1> QED BY <1>6, <1>7, <1>8, <1>9, <1>10, <1>11 DEF DialerInv

(* dialContact returns to its loop.                                         *)
LEMMA AnnounceStepInv ==
  ASSUME TypeOK, DialerInv, NEW a \in announcing, Announce(a[1], a[2])
  PROVE  DialerInv'
<1>1. /\ UNCHANGED <<startPc, tries, active, retries, reporting, ringing, inStasis, leaving>>
      /\ a[1][1] \in Contacts /\ a[2] \in BOOLEAN
  BY DEF Announce, asteriskVars, controlVars, TypeOK, Channel
<1>2. /\ QueuedAreUntraced' /\ DialedAreUntraced' /\ OneTrace'
      /\ TriesBounded' /\ AttemptsBounded'
      /\ \A c \in Contacts : Left(c) => Left(c)'
  BY <1>1, FillStep DEF Announce, LoopGoesOn
<1>3. \A c \in Contacts \ misreported' :
        rowStatus'[c] \in Outcome => rowStatus[c] \in Outcome /\ c \notin misreported
  BY <1>1 DEF Announce, ContactUpdate, ContactMisreported, TypeOK, Outcome, Cause
<1>4. FinalHaveLeft'
  BY <1>1, <1>2, <1>3, ChannelFacts DEF DialerInv, FinalHaveLeft, ShouldRetry
<1>5. NothingBeforeStart'
  BY <1>1 DEF DialerInv, NothingBeforeStart
<1> QED BY <1>2, <1>4, <1>5 DEF DialerInv

(* handleStasisStart moves the channel inside the application.              *)
LEMMA StasisStartStep ==
  ASSUME TypeOK, DialerInv, NEW ch \in ringing, StasisStart(ch)
  PROVE  DialerInv'
<1>1. /\ UNCHANGED <<startPc, queue, dialPc, tries, active, announcing, retries, reporting, leaving>>
      /\ ringing' = ringing \ {ch} /\ inStasis' = inStasis \cup {ch}
      /\ ch[1] \in Contacts
  BY DEF StasisStart, loopVars, controlVars, TypeOK, Channel
<1>2. Trace' = Trace /\ Live' = Live /\ ch \in Trace
  BY <1>1 DEF Trace, Live
<1>3. \A c \in Contacts \ misreported' :
        rowStatus'[c] \in Outcome => rowStatus[c] \in Outcome /\ c \notin misreported
  BY <1>1 DEF StasisStart, ContactUpdate, TypeOK, Outcome, Cause
<1>4. QueuedAreUntraced' /\ DialedAreUntraced'
  BY <1>1, <1>2 DEF DialerInv, QueuedAreUntraced, DialedAreUntraced, Untraced, DialChannel
<1>5. OneTrace'
  BY <1>1, <1>2 DEF DialerInv, OneTrace
<1>6. TriesBounded' /\ AttemptsBounded'
  BY <1>1, <1>2 DEF DialerInv, TriesBounded, AttemptsBounded
<1>7. FinalHaveLeft'
  BY <1>1, <1>3, ChannelFacts DEF DialerInv, FinalHaveLeft, Left, ShouldRetry
<1>8. NothingBeforeStart'
  BY <1>1, <1>2 DEF DialerInv, NothingBeforeStart
<1> QED BY <1>4, <1>5, <1>6, <1>7, <1>8 DEF DialerInv

(* The end of a channel: it leaves the runtime, and either its contact gets *)
(* a retry timer, when the channel is gone from Asterisk, or has left.      *)
LEMMA ChannelEndStep ==
  ASSUME TypeOK, DialerInv, NEW ch \in Live, NEW cause \in Cause,
         ChannelEnd(ch, cause),
         UNCHANGED <<startPc, queue, dialPc, tries, announcing, rowStatus, misreported>>,
         Live' \subseteq Live,
         cause = "busy" => ch \notin Live',
         \A x \in ringing' : x \notin inStasis' /\ x \notin leaving',
         \A x \in inStasis' : x \notin leaving'
  PROVE  DialerInv'
<1>1. /\ active' \subseteq active
      /\ retries' \subseteq retries \cup {ch}
      /\ ch \in retries' => ch \notin Live' /\ ch \notin active' /\ ch[2] <= MaxRetries
      /\ retries' # retries => ch \in active
  <2>1. CASE registered /\ ch \in active
    BY <2>1 DEF ChannelEnd, ShouldRetry, determineOutcome, DialerInv, OneTrace, TriesBounded
  <2>2. CASE ~(registered /\ ch \in active)
    BY <2>2 DEF ChannelEnd, DialerInv, OneTrace, TriesBounded
  <2> QED BY <2>1, <2>2
<1>2. Trace' \subseteq Trace
  BY <1>1 DEF Trace
<1>3. QueuedAreUntraced'
  BY <1>2 DEF DialerInv, QueuedAreUntraced, Untraced
<1>4. DialedAreUntraced'
  BY <1>1, <1>2 DEF DialerInv, DialedAreUntraced, Untraced, DialChannel, Trace
<1>5. OneTrace'
  BY <1>1, <1>2 DEF DialerInv, OneTrace
<1>6. TriesBounded' /\ AttemptsBounded'
  BY <1>1 DEF DialerInv, TriesBounded, AttemptsBounded
<1>7. FinalHaveLeft'
  <2>1. \A c \in Contacts : Left(c) => Left(c)'
    BY <1>1 DEF Left
  <2>2. CASE registered /\ ch \in active
    <3> DEFINE o == determineOutcome(ch, cause)
    <3>1. /\ reporting' = reporting \cup {<<ch, o>>}
          /\ active' = active \ {ch}
          /\ ~ShouldRetry(ch, o) => retries' = retries
      BY <2>2 DEF ChannelEnd
    <3>2. ch \in Trace /\ ch[1] \in Contacts
      BY ChannelFacts DEF Trace
    <3>3. ~ShouldRetry(ch, o) => Left(ch[1])'
      <4> SUFFICES ASSUME ~ShouldRetry(ch, o) PROVE Left(ch[1])'
        OBVIOUS
      <4>1. \A x \in active' \cup retries' : x[1] # ch[1]
        BY <2>2, <3>1, <3>2 DEF DialerInv, OneTrace, Trace
      <4>2. \A i \in 1..Len(queue) : queue[i] # ch[1]
        BY <3>2 DEF DialerInv, QueuedAreUntraced, Untraced
      <4>3. dialPc[ch[1]] = "idle"
        BY <2>2, <3>2 DEF DialerInv, DialedAreUntraced, Untraced, TypeOK
      <4> QED BY <4>1, <4>2, <4>3 DEF Left
    <3> QED BY <2>1, <3>1, <3>3, ChannelFacts DEF DialerInv, FinalHaveLeft, ShouldRetry
  <2>3. CASE ~(registered /\ ch \in active)
    <3>1. reporting' = reporting
      BY <2>3 DEF ChannelEnd
    <3> QED BY <2>1, <3>1, ChannelFacts DEF DialerInv, FinalHaveLeft, ShouldRetry
  <2> QED BY <2>2, <2>3
<1>8. NothingBeforeStart'
  BY DEF DialerInv, NothingBeforeStart, Trace
<1> QED BY <1>3, <1>4, <1>5, <1>6, <1>7, <1>8 DEF DialerInv

(* handleChannelEnd reports its contact and fills the window.               *)
LEMMA ReportStep ==
  ASSUME TypeOK, DialerInv, NEW r \in reporting, Report(r[1], r[2])
  PROVE  DialerInv'
<1>1. /\ UNCHANGED <<startPc, tries, active, retries, ringing, inStasis, leaving>>
      /\ reporting' \subseteq reporting
      /\ r[1][1] \in Contacts /\ r[2] \in Outcome
  BY DEF Report, asteriskVars, controlVars, TypeOK, Channel
<1>2. /\ QueuedAreUntraced' /\ DialedAreUntraced' /\ OneTrace'
      /\ TriesBounded' /\ AttemptsBounded'
      /\ \A c \in Contacts : Left(c) => Left(c)'
  BY <1>1, FillStep DEF Report, LoopGoesOn
<1>3. \A c \in Contacts \ misreported' : rowStatus'[c] \in Outcome =>
        \/ rowStatus[c] \in Outcome /\ c \notin misreported
        \/ c = r[1][1] /\ ~ShouldRetry(r[1], r[2])
  <2>1. "pending" \notin Outcome
    BY DEF Outcome, Cause
  <2> QED BY <1>1, <2>1 DEF Report, ContactUpdate, TypeOK
<1>4. FinalHaveLeft'
  BY <1>1, <1>2, <1>3, ChannelFacts DEF DialerInv, FinalHaveLeft, ShouldRetry
<1>5. NothingBeforeStart'
  BY <1>1 DEF DialerInv, NothingBeforeStart
<1> QED BY <1>2, <1>4, <1>5 DEF DialerInv

(* A retry timer: its contact has no other trace, so it may be queued.      *)
LEMMA RetryStep ==
  ASSUME TypeOK, DialerInv, NEW ch \in retries, RetryFires(ch)
  PROVE  DialerInv'
<1> DEFINE c == ch[1]
           q == Append(queue, c)
<1>1. /\ UNCHANGED <<startPc, active, reporting, ringing, inStasis, leaving, rowStatus, misreported>>
      /\ retries' = retries \ {ch}
      /\ c \in Contacts /\ ch[2] \in Nat /\ ch \in Trace
      /\ \A d \in Contacts : tries'[d] = IF d = c THEN ch[2] ELSE tries[d]
      /\ FillWindow(q, dialPc, FALSE)
  BY ChannelFacts DEF RetryFires, asteriskVars, controlVars, TypeOK, Trace
<1>2. Live' = Live /\ Trace' \subseteq Trace
  BY <1>1 DEF Trace, Live
<1>3. \A x \in Trace' : x[1] # c
  BY <1>1, <1>2 DEF DialerInv, OneTrace, Trace
<1>4. dialPc[c] = "idle" /\ \A i \in 1..Len(queue) : queue[i] # c
  BY <1>1 DEF DialerInv, DialedAreUntraced, QueuedAreUntraced, Untraced, TypeOK
<1>5. /\ q \in Seq(Contacts) /\ dialPc \in DialPcs
      /\ Len(q) = Len(queue) + 1 /\ Len(queue) \in Nat
      /\ \A i \in 1..Len(q) : q[i] = IF i = Len(q) THEN c ELSE queue[i]
  <2>1. queue \in Seq(Contacts) /\ dialPc \in DialPcs
    BY DEF TypeOK, DialPcs
  <2>2. Len(queue) \in Nat
    BY <2>1
  <2> QED BY <1>1, <2>1, <2>2, AppendProperties
<1>6. UniqueIn(q)
  <2>1. \A i, j \in 1..Len(queue) : queue[i] = queue[j] => i = j
    BY DEF DialerInv, QueuedAreUntraced
  <2> QED BY <1>4, <1>5, <2>1 DEF UniqueIn
<1>7. \A i \in 1..Len(q) : dialPc[q[i]] = "idle" /\ \A x \in Trace' : x[1] # q[i]
  <2>1. \A i \in 1..Len(queue) : dialPc[queue[i]] = "idle" /\ \A x \in Trace : x[1] # queue[i]
    BY DEF DialerInv, QueuedAreUntraced, Untraced
  <2> QED BY <1>2, <1>3, <1>4, <1>5, <2>1
<1>8. \A d \in Contacts : dialPc[d] = "format" => \A x \in Trace' : x[1] # d
  BY <1>2 DEF DialerInv, DialedAreUntraced, Untraced
<1>9. /\ QueuedAreUntraced'
      /\ \A d \in Contacts : dialPc'[d] = "format" => Untraced(d)'
      /\ \A d \in Contacts : dialPc'[d] = "response" => dialPc[d] = "response"
      /\ \A d \in Contacts :
           dialPc[d] = "idle" /\ (\A i \in 1..Len(q) : q[i] # d) =>
             /\ dialPc'[d] = "idle"
             /\ \A i \in 1..Len(queue') : queue'[i] # d
  <2> HIDE DEF q
  <2> QED BY <1>1, <1>5, <1>6, <1>7, <1>8, FillWindowKeeps DEF LoopGoesOn
<1>10. DialedAreUntraced'
  BY <1>1, <1>2, <1>4, <1>9 DEF DialerInv, DialedAreUntraced, DialChannel
<1>11. OneTrace' /\ TriesBounded' /\ AttemptsBounded'
  BY <1>1, <1>2 DEF DialerInv, OneTrace, TriesBounded, AttemptsBounded
<1>12. FinalHaveLeft'
  <2>1. ~Left(c)
    BY DEF Left
  <2>2. \A d \in Contacts : Left(d) => Left(d)'
    BY <1>1, <1>5, <1>9, <2>1 DEF Left
  <2> QED BY <1>1, <2>2, ChannelFacts DEF DialerInv, FinalHaveLeft, ShouldRetry
<1>13. NothingBeforeStart'
  BY <1>1 DEF DialerInv, NothingBeforeStart
<1> QED BY <1>9, <1>10, <1>11, <1>12, <1>13 DEF DialerInv

(* Every step of the dialer keeps the inductive invariant.                  *)
LEMMA InvStep == TypeOK /\ DialerInv /\ [DialerNext]_dialerVars => DialerInv'
<1> SUFFICES ASSUME TypeOK, DialerInv, [DialerNext]_dialerVars PROVE DialerInv'
  OBVIOUS
<1>1. CASE RecvStart
  BY <1>1, QuietStep DEF RecvStart, dialState, asteriskVars, loopVars, callVars
<1>2. CASE RecvStop
  BY <1>2, QuietStep DEF RecvStop, dialState, asteriskVars, callVars
<1>3. CASE StartRegister \/ StartFill
  BY <1>3, StartSteps
<1>4. CASE DialStep
  BY <1>4, DialFailedStep, OriginateStep, OriginateRecordedStep
     DEF DialStep, DialRejected, ResponseLost
<1>5. CASE AnnounceStep
  BY <1>5, AnnounceStepInv DEF AnnounceStep
<1>6. ASSUME NEW ch \in starting, FlowStarted(ch) \/ FlowRefused(ch) PROVE DialerInv'
  BY <1>6, QuietStep DEF FlowStarted, FlowRefused, dialState, asteriskVars, loopVars,
     controlVars
<1>7. ASSUME NEW ch \in inStasis, StasisEnd(ch) PROVE DialerInv'
  <2>1. /\ ch \in Live /\ "failed" \in Cause
        /\ ringing' = ringing /\ inStasis' = inStasis \ {ch} /\ leaving' = leaving \cup {ch}
        /\ ChannelEnd(ch, "failed")
        /\ UNCHANGED <<startPc, queue, dialPc, tries, announcing, rowStatus, misreported>>
    BY <1>7 DEF StasisEnd, Live, Cause, loopVars, controlVars
  <2>2. /\ Live' \subseteq Live
        /\ \A x \in ringing' : x \notin inStasis' /\ x \notin leaving'
        /\ \A x \in inStasis' : x \notin leaving'
    BY <1>7, <2>1 DEF Live, DialerInv, OneTrace
  <2> QED BY <2>1, <2>2, ChannelEndStep
<1>8. ASSUME NEW ch \in ringing \cup leaving, NEW cause \in Cause,
             ChannelDestroyed(ch, cause)
      PROVE  DialerInv'
  <2>1. /\ ch \in Live
        /\ ringing' = ringing \ {ch} /\ leaving' = leaving \ {ch} /\ inStasis' = inStasis
        /\ ChannelEnd(ch, cause)
        /\ UNCHANGED <<startPc, queue, dialPc, tries, announcing, rowStatus, misreported>>
    BY <1>8 DEF ChannelDestroyed, Live, loopVars, controlVars
  <2>2. /\ Live' \subseteq Live /\ ch \notin Live'
        /\ \A x \in ringing' : x \notin inStasis' /\ x \notin leaving'
        /\ \A x \in inStasis' : x \notin leaving'
    BY <1>8, <2>1 DEF Live, DialerInv, OneTrace
  <2> QED BY <2>1, <2>2, ChannelEndStep
<1>9. CASE CallStep
  BY <1>6, <1>7, <1>8, <1>9, StasisStartStep DEF CallStep
<1>10. CASE DeleteRuntime
  BY <1>10, QuietStep DEF DeleteRuntime, dialState, asteriskVars, callVars
<1>11. CASE EndStep
  BY <1>10, <1>11, ReportStep, RetryStep DEF EndStep
<1>12. CASE UNCHANGED dialerVars
  BY <1>12, QuietStep DEF dialerVars, dialState
<1> QED BY <1>1, <1>2, <1>3, <1>4, <1>5, <1>9, <1>11, <1>12 DEF DialerNext, DialerStep

(* Nothing of the dialer exists at first.                                   *)
LEMMA DialerInitInv == ASSUME DialerInit PROVE DialerInv
<1>1. /\ Trace = {} /\ Live = {} /\ active = {} /\ retries = {} /\ reporting = {}
      /\ announcing = {} /\ ringing = {} /\ inStasis = {} /\ queue = <<>> /\ Len(queue) = 0
  BY DEF DialerInit, Trace, Live
<1>2. \A c \in Contacts : dialPc[c] = "idle" /\ rowStatus[c] = "pending" /\ tries[c] = 0
  BY DEF DialerInit
<1>3. NothingBeforeStart
  BY <1>1, <1>2 DEF NothingBeforeStart
<1>4. QueuedAreUntraced
  BY <1>1 DEF QueuedAreUntraced
<1>5. DialedAreUntraced
  BY <1>1, <1>2 DEF DialedAreUntraced, Untraced
<1>6. OneTrace /\ AttemptsBounded
  BY <1>1 DEF OneTrace, AttemptsBounded
<1>7. TriesBounded
  BY <1>1, <1>2, DialerAssumption DEF TriesBounded
<1>8. FinalHaveLeft
  BY <1>1, <1>2 DEF FinalHaveLeft, Outcome, Cause
<1> QED BY <1>3, <1>4, <1>5, <1>6, <1>7, <1>8 DEF DialerInv

(* The inductive invariant holds in every reachable state.                  *)
THEOREM DialerInvariant == DialerSpec => []DialerInv
<1>1. DialerInit => DialerInv
  BY DialerInitInv
<1>2. QED
  BY <1>1, InvStep, DialerTypeCorrect, PTL DEF DialerSpec

(* No contact is on two calls at once, however the dials, retry timers and  *)
(* ends of its calls interleave.                                            *)
THEOREM OneCallPerContactHolds == DialerSpec => []OneCallPerContact
<1>1. DialerInv => OneCallPerContact
  BY DEF DialerInv, OneTrace, OneCallPerContact, Trace
<1>2. QED
  BY <1>1, DialerInvariant, PTL

(* No contact is called more than MaxRetries + 1 times.                     *)
THEOREM AttemptsBoundedHolds == DialerSpec => []AttemptsBounded
<1>1. DialerInv => AttemptsBounded
  BY DEF DialerInv
<1>2. QED
  BY <1>1, DialerInvariant, PTL

(* A contact reported final, and not by the catch of a dial that had gone   *)
(* through, has left the dialer for good.                                   *)
THEOREM FinalContactsLeftHolds == DialerSpec => []FinalContactsLeft
<1>1. TypeOK /\ DialerInv => FinalContactsLeft
  BY DEF DialerInv, FinalHaveLeft, Left, FinalContactsLeft, TypeOK
<1>2. QED
  BY <1>1, DialerInvariant, DialerTypeCorrect, PTL

(* Filling the window dials nothing once a stop was requested.              *)
LEMMA StoppedFill ==
  ASSUME NEW q, NEW pc, NEW check, stopRequested,
         FillWindow(q, pc, check) \/ LoopThrows(pc)
  PROVE  dialPc' = pc
BY DEF FillWindow, MayDial, LoopThrows

(* No step takes a contact to dial while stopRequested is set.              *)
LEMMA StoppedStep ==
  ASSUME TypeOK, DialerNext, stopRequested, NEW d \in Contacts, dialPc[d] = "idle"
  PROVE  dialPc'[d] = "idle"
<1>1. CASE RecvStart \/ RecvStop \/ StartRegister \/ DeleteRuntime
  BY <1>1 DEF RecvStart, RecvStop, StartRegister, DeleteRuntime, loopVars
<1>2. CASE StartFill
  BY <1>2, StoppedFill DEF StartFill
<1>3. CASE DialStep
  <2>1. PICK c \in Contacts :
          DialRejected(c) \/ Originate(c) \/ OriginateRecorded(c) \/ ResponseLost(c)
    BY <1>3 DEF DialStep
  <2>2. CASE DialFailed(c)
    <3>1. dialPc' = Idle(c)
      BY <2>2, StoppedFill DEF DialFailed
    <3> QED BY <3>1 DEF Idle, TypeOK
  <2>3. CASE Originate(c)
    BY <2>3 DEF Originate, TypeOK
  <2>4. CASE OriginateRecorded(c)
    BY <2>4 DEF OriginateRecorded, Idle, TypeOK
  <2> QED BY <2>1, <2>2, <2>3, <2>4 DEF DialRejected, ResponseLost
<1>4. CASE AnnounceStep
  BY <1>4, StoppedFill DEF AnnounceStep, Announce
<1>5. CASE CallStep
  BY <1>5 DEF CallStep, StasisStart, FlowStarted, FlowRefused, StasisEnd,
     ChannelDestroyed, loopVars
<1>6. ASSUME NEW r \in reporting, Report(r[1], r[2]) PROVE dialPc'[d] = "idle"
  BY <1>6, StoppedFill DEF Report
<1>7. ASSUME NEW ch \in retries, RetryFires(ch) PROVE dialPc'[d] = "idle"
  BY <1>7, StoppedFill DEF RetryFires
<1> QED BY <1>1, <1>2, <1>3, <1>4, <1>5, <1>6, <1>7
        DEF DialerNext, DialerStep, EndStep

(* Once a stop is requested, no contact is taken to be dialed.              *)
THEOREM StopEndsDialingHolds == DialerSpec => StopEndsDialing
<1> DEFINE NoNewDial ==
      stopRequested /\ stopRequested' =>
        \A c \in Contacts : dialPc[c] = "idle" => dialPc'[c] = "idle"
<1>1. TypeOK /\ [DialerNext]_dialerVars => [NoNewDial]_dialerVars
  BY StoppedStep
<1>2. QED
  BY <1>1, DialerTypeCorrect, PTL DEF DialerSpec, StopEndsDialing
=============================================================================
