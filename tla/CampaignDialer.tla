--------------------------- MODULE CampaignDialer ---------------------------
(***************************************************************************)
(* The outbound dialer of one campaign: stasis/src/campaign-executor.ts,   *)
(* the ARI channels it originates, and the rows of campaign_contacts that  *)
(* its campaign:contact:update messages write in the backend               *)
(* (handleCampaignContactUpdate).                                          *)
(*                                                                         *)
(* Node runs one handler at a time and switches at every await, so an      *)
(* action is the code between two awaits whose interleaving can be seen.   *)
(* The event handlers are                                                  *)
(*   startCampaign     RecvStart, StartRegister, StartFill                 *)
(*   stopCampaign      RecvStop                                            *)
(*   fillWindow and    a loop started by startCampaign, by a channel's end *)
(*   dialContact       or by a retry timer: DialRejected, Originate,       *)
(*                     ResponseLost, OriginateRecorded, Announce; several  *)
(*                     loops may run at once                               *)
(*   handleStasisStart StasisStart, FlowStarted, FlowRefused               *)
(*   handleChannelEnd  StasisEnd, ChannelDestroyed, Report, DeleteRuntime  *)
(*                                                                         *)
(* A channel is the pair of the contact it calls and the number of the     *)
(* attempt.  A campaign is started once (see README), so the pair names a  *)
(* channel uniquely.  rowStatus is the status last published about a       *)
(* contact, which is the column once the backend has served the message.   *)
(* A publish that Redis refuses throws: the status stays as it was and the *)
(* loop that made it ends.  The displayed counters (dialed, answered,      *)
(* failed, the Redis key campaign:active:<id>, the attempts column) and    *)
(* the inserted rows of campaign_contact_attempts are left out: after the  *)
(* start no handler reads them.                                            *)
(***************************************************************************)
EXTENDS Naturals, Sequences, FiniteSets

CONSTANTS
  N,              \* the number of contacts of the campaign; ids are 1..N
  MaxConcurrent,  \* campaigns.max_concurrent
  MaxRetries,     \* campaigns.max_retries
  PageSize        \* the most contacts the backend returns in one page

ASSUME DialerAssumption ==
  /\ N \in Nat \ {0}
  /\ MaxConcurrent \in Nat \ {0}
  /\ MaxRetries \in Nat
  /\ PageSize \in Nat \ {0}

Contacts == 1..N
Channel == Contacts \X Nat

\* The outcomes determineOutcome tells apart; "busy" stands for busy and
\* no_answer, which every handler treats alike.
Cause == {"busy", "failed"}
Outcome == Cause \cup {"answered"}
RowStatus == Outcome \cup {"pending", "dialing"}

VARIABLES
  startPc,        \* progress of the startCampaign handler
  registered,     \* the campaign has an entry in runtimes
  stopRequested,  \* runtime.stopRequested
  queue,          \* runtime.queue: the contacts to dial
  tries,          \* the attempts field of the contact objects
  active,         \* keys of runtime.activeByChannel
  flowRan,        \* the active channels with flowRan set
  dialPc,         \* per contact: where its dialContact is
  dialCheck,      \* per contact: its loop was started by a channel's end,
                  \* whose handler checks for completion when the loop exits
  announcing,     \* dialContact calls between activeByChannel.set and return
  retries,        \* retry timers: the contact and its attempt number
  reporting,      \* handleChannelEnd calls that look for the call log
  deleting,       \* a handler published the end, is about to delete the runtime
  starting,       \* handleStasisStart calls loading the flow
  ringing,        \* channels created by Asterisk, not yet in Stasis
  inStasis,       \* channels inside the Stasis application
  leaving,        \* channels past StasisEnd, not yet destroyed
  toBackend,      \* campaign:completed / campaign:cancelled, in order
  rowStatus,      \* campaign_contacts.status
  misreported     \* history: the contacts last published as failed by the catch
                  \* of dialContact although their originate had gone through

rowVars == <<rowStatus, misreported>>
asteriskVars == <<ringing, inStasis, leaving>>
loopVars == <<queue, dialPc, dialCheck, deleting, toBackend>>
callVars == <<active, flowRan, tries, announcing, retries, reporting, starting>>
controlVars == <<startPc, registered, stopRequested>>
dialerVars == <<startPc, registered, stopRequested, queue, tries, active,
                flowRan, dialPc, dialCheck, announcing, retries, reporting,
                deleting, starting, ringing, inStasis, leaving, toBackend,
                rowStatus, misreported>>

TypeOK ==
  /\ startPc \in {"none", "fetch", "registered", "done"}
  /\ registered \in BOOLEAN
  /\ stopRequested \in BOOLEAN
  /\ queue \in Seq(Contacts)
  /\ tries \in [Contacts -> Nat]
  /\ active \in SUBSET Channel
  /\ flowRan \in SUBSET Channel
  /\ dialPc \in [Contacts -> {"idle", "format", "response"}]
  /\ dialCheck \in [Contacts -> BOOLEAN]
  /\ announcing \in SUBSET (Channel \X BOOLEAN)
  /\ retries \in SUBSET Channel
  /\ reporting \in SUBSET (Channel \X Outcome)
  /\ deleting \in BOOLEAN
  /\ starting \in SUBSET Channel
  /\ ringing \in SUBSET Channel
  /\ inStasis \in SUBSET Channel
  /\ leaving \in SUBSET Channel
  /\ toBackend \in Seq({"completed", "cancelled"})
  /\ rowStatus \in [Contacts -> RowStatus]
  /\ misreported \in SUBSET Contacts

DialerInit ==
  /\ startPc = "none"
  /\ registered = FALSE
  /\ stopRequested = FALSE
  /\ queue = <<>>
  /\ tries = [c \in Contacts |-> 0]
  /\ active = {}
  /\ flowRan = {}
  /\ dialPc = [c \in Contacts |-> "idle"]
  /\ dialCheck = [c \in Contacts |-> FALSE]
  /\ announcing = {}
  /\ retries = {}
  /\ reporting = {}
  /\ deleting = FALSE
  /\ starting = {}
  /\ ringing = {}
  /\ inStasis = {}
  /\ leaving = {}
  /\ toBackend = <<>>
  /\ rowStatus = [c \in Contacts |-> "pending"]
  /\ misreported = {}

-----------------------------------------------------------------------------
(* The backend's handler of campaign:contact:update: the status is stored   *)
(* as it comes, whatever the row says.                                      *)

ContactUpdate(c, new) ==
  /\ rowStatus' = [rowStatus EXCEPT ![c] = new]
  /\ misreported' = misreported \ {c}

\* The same message from the catch of dialContact, sent for any failure after
\* the originate was recorded: the call is still there.
ContactMisreported(c) ==
  /\ rowStatus' = [rowStatus EXCEPT ![c] = "failed"]
  /\ misreported' = misreported \cup {c}

-----------------------------------------------------------------------------
(* fillWindow, from the test of its loop to the first await of dialContact, *)
(* or to what its caller does when the loop exits.  q is the queue and pc   *)
(* the dial states the test sees.  A handler of a channel's end (check)     *)
(* then sees whether the campaign is over and, if so, publishes it.         *)

\* Faulty variant: the loop does not look at stopRequested.
MayDialStopped(q) ==
  /\ Cardinality(active) < MaxConcurrent
  /\ q # <<>>

MayDial(q) ==
  /\ ~stopRequested
  /\ Cardinality(active) < MaxConcurrent
  /\ q # <<>>

FinishCampaign(q, check) ==
  IF check /\ active = {} /\ q = <<>>
  THEN /\ toBackend' = Append(toBackend,
                              IF stopRequested THEN "cancelled" ELSE "completed")
       /\ deleting' = TRUE
  ELSE UNCHANGED <<toBackend, deleting>>

FillWindow(q, pc, check) ==
  IF MayDial(q)
  THEN /\ queue' = Tail(q)
       /\ dialPc' = [pc EXCEPT ![Head(q)] = "format"]
       /\ dialCheck' = [dialCheck EXCEPT ![Head(q)] = check]
       /\ UNCHANGED <<toBackend, deleting>>
  ELSE /\ queue' = q
       /\ dialPc' = pc
       /\ UNCHANGED dialCheck
       /\ FinishCampaign(q, check)

\* The loop ends with the exception of a publish, and its caller with it.
LoopThrows(pc) ==
  /\ dialPc' = pc
  /\ UNCHANGED <<queue, dialCheck, toBackend, deleting>>

Idle(c) == [dialPc EXCEPT ![c] = "idle"]

-----------------------------------------------------------------------------
(* startCampaign: read the campaign, read its pending contacts, register    *)
(* the runtime, reset the Redis counter, dial.                              *)

RecvStart ==
  /\ startPc = "none"
  /\ startPc' \in {"fetch", "done"}     \* done: the campaign read failed
  /\ UNCHANGED <<registered, stopRequested>>
  /\ UNCHANGED <<asteriskVars, rowVars, loopVars, callVars>>

\* The dialer asks for one page of 1000 contacts; listContacts cuts the page
\* to its own limit, and nobody asks for the next one.
PageLength == IF N <= PageSize THEN N ELSE PageSize
PendingContacts == [i \in 1..PageLength |-> i]

StartRegister ==
  /\ startPc = "fetch"
  /\ startPc' = "registered"
  /\ registered' = TRUE
  /\ stopRequested' = FALSE
  /\ queue' \in {PendingContacts, <<>>} \* <<>>: the contacts read failed
  /\ UNCHANGED <<dialPc, dialCheck, deleting, toBackend>>
  /\ UNCHANGED <<asteriskVars, rowVars, callVars>>

StartFill ==
  /\ startPc = "registered"
  /\ startPc' = "done"
  /\ FillWindow(queue, dialPc, FALSE)
  /\ UNCHANGED <<registered, stopRequested>>
  /\ UNCHANGED <<asteriskVars, rowVars, callVars>>

(* stopCampaign: a campaign without a runtime ignores the message.  With no *)
(* active call it publishes, and only then forgets the runtime.             *)
RecvStop ==
  /\ IF registered
     THEN /\ stopRequested' = TRUE
          /\ IF active = {}
             THEN /\ toBackend' = Append(toBackend, "cancelled")
                  /\ deleting' = TRUE
             ELSE UNCHANGED <<toBackend, deleting>>
     ELSE UNCHANGED <<stopRequested, toBackend, deleting>>
  /\ UNCHANGED <<startPc, registered, queue, dialPc, dialCheck>>
  /\ UNCHANGED <<asteriskVars, rowVars, callVars>>

-----------------------------------------------------------------------------
(* dialContact.                                                             *)

DialChannel(c) == <<c, tries[c] + 1>>

\* A dial fails when the number does not fit the trunk's format or Asterisk
\* refuses the originate, and also when the response of an accepted originate
\* is lost.
DialFailed(c) ==
  /\ \/ ContactUpdate(c, "failed") /\ FillWindow(queue, Idle(c), dialCheck[c])
     \/ UNCHANGED rowVars /\ LoopThrows(Idle(c))
  /\ UNCHANGED <<asteriskVars, callVars, controlVars>>

DialRejected(c) == dialPc[c] = "format" /\ DialFailed(c)

ResponseLost(c) == dialPc[c] = "response" /\ DialFailed(c)

\* Asterisk accepts the originate and creates the channel; the response is
\* on its way.
Originate(c) ==
  /\ dialPc[c] = "format"
  /\ dialPc' = [dialPc EXCEPT ![c] = "response"]
  /\ ringing' = ringing \cup {DialChannel(c)}
  /\ UNCHANGED <<queue, dialCheck, deleting, toBackend, inStasis, leaving>>
  /\ UNCHANGED <<rowVars, callVars, controlVars>>

OriginateRecorded(c) ==
  /\ dialPc[c] = "response"
  /\ dialPc' = Idle(c)
  /\ active' = active \cup {DialChannel(c)}
  /\ announcing' = announcing \cup {<<DialChannel(c), dialCheck[c]>>}
  /\ UNCHANGED <<queue, dialCheck, deleting, toBackend>>
  /\ UNCHANGED <<flowRan, tries, retries, reporting, starting>>
  /\ UNCHANGED <<asteriskVars, rowVars, controlVars>>

\* What dialContact does after the channel is active: count it, publish
\* dialing and the statistics.  When one of them throws, the catch publishes
\* the contact as failed; when that throws too, the loop ends.
Announce(ch, check) ==
  /\ <<ch, check>> \in announcing
  /\ announcing' = announcing \ {<<ch, check>>}
  /\ \/ /\ ContactUpdate(ch[1], "dialing") \/ ContactMisreported(ch[1])
        /\ FillWindow(queue, dialPc, check)
     \/ /\ ContactUpdate(ch[1], "dialing") \/ UNCHANGED rowVars
        /\ LoopThrows(dialPc)
  /\ UNCHANGED <<active, flowRan, tries, retries, reporting, starting>>
  /\ UNCHANGED <<asteriskVars, controlVars>>

-----------------------------------------------------------------------------
(* handleStasisStart: the channel was answered and enters the application.  *)
(* Without a runtime it is hung up; a channel the runtime does not know yet *)
(* is left alone.                                                           *)

StasisStart(ch) ==
  /\ ch \in ringing
  /\ ringing' = ringing \ {ch}
  /\ inStasis' = inStasis \cup {ch}
  /\ IF registered /\ ch \in active
     THEN ContactUpdate(ch[1], "dialing") /\ starting' = starting \cup {ch}
     ELSE UNCHANGED <<rowVars, starting>>
  /\ UNCHANGED <<leaving, active, flowRan, tries, announcing, retries, reporting>>
  /\ UNCHANGED <<loopVars, controlVars>>

\* The flow is loaded, the channel answered and the flow run.  A call that
\* is no longer active keeps no flag.
FlowStarted(ch) ==
  /\ ch \in starting
  /\ starting' = starting \ {ch}
  /\ flowRan' = flowRan \cup ({ch} \cap active)
  /\ UNCHANGED <<active, tries, announcing, retries, reporting>>
  /\ UNCHANGED <<asteriskVars, rowVars, loopVars, controlVars>>

\* The flow is missing or the channel cannot be answered.
FlowRefused(ch) ==
  /\ ch \in starting
  /\ starting' = starting \ {ch}
  /\ UNCHANGED <<active, flowRan, tries, announcing, retries, reporting>>
  /\ UNCHANGED <<asteriskVars, rowVars, loopVars, controlVars>>

-----------------------------------------------------------------------------
(* handleChannelEnd, called by StasisEnd without a cause and by             *)
(* ChannelDestroyed with one.  Only the runtimes still registered are       *)
(* searched for the channel, and the first call to find it handles it.      *)

\* Faulty variant: a channel that ends without a cause counts as unanswered.
determineOutcomeNoCause(ch, cause) == IF ch \in flowRan THEN "answered" ELSE "busy"

determineOutcome(ch, cause) == IF ch \in flowRan THEN "answered" ELSE cause

\* Faulty variant: one retry too many.
ShouldRetryOnceMore(ch, outcome) == outcome = "busy" /\ ch[2] <= MaxRetries + 1

ShouldRetry(ch, outcome) == outcome = "busy" /\ ch[2] <= MaxRetries

ChannelEnd(ch, cause) ==
  IF registered /\ ch \in active
  THEN LET outcome == determineOutcome(ch, cause) IN
       /\ active' = active \ {ch}
       /\ flowRan' = flowRan \ {ch}
       /\ retries' = IF ShouldRetry(ch, outcome) THEN retries \cup {ch} ELSE retries
       /\ reporting' = reporting \cup {<<ch, outcome>>}
  ELSE UNCHANGED <<active, flowRan, retries, reporting>>

\* What handleStasisStart still does for a channel that is gone (it cannot
\* answer it) has no effect on the dialer.
StasisEnd(ch) ==
  /\ ch \in inStasis
  /\ inStasis' = inStasis \ {ch}
  /\ leaving' = leaving \cup {ch}
  /\ starting' = starting \ {ch}
  /\ ChannelEnd(ch, "failed")
  /\ UNCHANGED <<ringing, tries, announcing, rowVars, loopVars, controlVars>>

ChannelDestroyed(ch, cause) ==
  /\ ch \in ringing \cup leaving
  /\ ringing' = ringing \ {ch}
  /\ leaving' = leaving \ {ch}
  /\ ChannelEnd(ch, cause)
  /\ UNCHANGED <<inStasis, starting, tries, announcing, rowVars, loopVars, controlVars>>

\* Faulty variant: the outcome is published although a retry is due.
ReportOutcome(ch, outcome) ==
  /\ <<ch, outcome>> \in reporting
  /\ reporting' = reporting \ {<<ch, outcome>>}
  /\ ContactUpdate(ch[1], outcome)
  /\ FillWindow(queue, dialPc, TRUE)
  /\ UNCHANGED <<active, flowRan, tries, announcing, retries, starting>>
  /\ UNCHANGED <<asteriskVars, controlVars>>

\* After the call log was looked for: publish the contact, fill the window
\* again, see whether the campaign is over.
Report(ch, outcome) ==
  /\ <<ch, outcome>> \in reporting
  /\ reporting' = reporting \ {<<ch, outcome>>}
  /\ \/ /\ ContactUpdate(ch[1], IF ShouldRetry(ch, outcome) THEN "pending" ELSE outcome)
        /\ FillWindow(queue, dialPc, TRUE)
     \/ UNCHANGED rowVars /\ LoopThrows(dialPc)
  /\ UNCHANGED <<active, flowRan, tries, announcing, retries, starting>>
  /\ UNCHANGED <<asteriskVars, controlVars>>

DeleteRuntime ==
  /\ deleting
  /\ deleting' = FALSE
  /\ registered' = FALSE
  /\ UNCHANGED <<startPc, stopRequested, queue, dialPc, dialCheck, toBackend>>
  /\ UNCHANGED <<asteriskVars, rowVars, callVars>>

(* The retry timer pushes the contact on the queue of the runtime object    *)
(* and fills its window, whether or not the runtime is still registered.    *)
RetryFires(ch) ==
  /\ ch \in retries
  /\ retries' = retries \ {ch}
  /\ tries' = [tries EXCEPT ![ch[1]] = ch[2]]
  /\ FillWindow(Append(queue, ch[1]), dialPc, FALSE)
  /\ UNCHANGED <<active, flowRan, announcing, reporting, starting>>
  /\ UNCHANGED <<asteriskVars, rowVars, controlVars>>

-----------------------------------------------------------------------------
DialStep ==
  \E c \in Contacts :
    \/ DialRejected(c) \/ Originate(c)
    \/ OriginateRecorded(c) \/ ResponseLost(c)

AnnounceStep == \E a \in announcing : Announce(a[1], a[2])

CallStep ==
  \/ \E ch \in ringing : StasisStart(ch)
  \/ \E ch \in starting : FlowStarted(ch) \/ FlowRefused(ch)
  \/ \E ch \in inStasis : StasisEnd(ch)
  \/ \E ch \in ringing \cup leaving : \E cause \in Cause : ChannelDestroyed(ch, cause)

EndStep ==
  \/ \E r \in reporting : Report(r[1], r[2])
  \/ DeleteRuntime
  \/ \E ch \in retries : RetryFires(ch)

\* Everything the dialer does once it is told to start; the start and stop
\* messages are the environment's.
DialerStep ==
  \/ StartRegister \/ StartFill
  \/ DialStep \/ AnnounceStep \/ CallStep \/ EndStep

DialerNext == RecvStart \/ RecvStop \/ DialerStep

DialerSpec == DialerInit /\ [][DialerNext]_dialerVars

-----------------------------------------------------------------------------
Live == ringing \cup inStasis \cup leaving

(* A contact is never on two calls at once: of the channels alive in        *)
(* Asterisk no two call the same contact, although the dials, the retry     *)
(* timers and the ends of its earlier calls are separate handlers.          *)
OneCallPerContact ==
  \A x, y \in Live : x[1] = y[1] => x = y

(* A contact is dialed at most once and then once per allowed retry         *)
(* (attemptNumber <= maxRetries decides about another one).                 *)
AttemptsBounded ==
  \A ch \in Live \cup active : ch[2] <= MaxRetries + 1

(* A contact whose row the backend has been told is final is out of the     *)
(* dialer: not queued, not being dialed, and without a retry timer.  The    *)
(* exception is the contact the catch of dialContact publishes as failed    *)
(* after its call was placed, because Redis refused what follows: that call *)
(* goes on, and may be busy and be retried.                                 *)
FinalContactsLeft ==
  \A c \in Contacts \ misreported :
    rowStatus[c] \in Outcome =>
      /\ \A i \in DOMAIN queue : queue[i] # c
      /\ dialPc[c] = "idle"
      /\ \A ch \in retries : ch[1] # c

(* Once stopRequested is set no loop takes another contact: the dials under *)
(* way are finished, and no timer or channel end begins a new one.          *)
StopEndsDialing ==
  [][stopRequested /\ stopRequested' =>
       \A c \in Contacts : dialPc[c] = "idle" => dialPc'[c] = "idle"]_dialerVars

(* docs-site/features/campaigns.md: max concurrency is the maximum number   *)
(* of simultaneous active calls.  fillWindow tests the window before it     *)
(* awaits the originate, and two loops may be between the two.              *)
WindowRespected == Cardinality(active) <= MaxConcurrent
-----------------------------------------------------------------------------
(* The inductive invariant.  Trace holds the channels through which the     *)
(* dialer can still hear of a contact: alive in Asterisk, active in the     *)
(* runtime, or waiting for a retry.                                         *)

Trace == Live \cup active \cup retries

Untraced(c) == \A ch \in Trace : ch[1] # c

\* Nothing exists before startCampaign has read the contacts.
NothingBeforeStart ==
  startPc \in {"none", "fetch"} =>
    /\ queue = <<>>
    /\ Trace = {}
    /\ reporting = {} /\ announcing = {}
    /\ \A c \in Contacts : dialPc[c] = "idle" /\ rowStatus[c] = "pending"

\* A queued contact is queued once, is not being dialed and has no channel.
QueuedAreUntraced ==
  /\ \A i, j \in 1..Len(queue) : queue[i] = queue[j] => i = j
  /\ \A i \in 1..Len(queue) : dialPc[queue[i]] = "idle" /\ Untraced(queue[i])

\* A contact being dialed has no channel but the one its originate created,
\* which is not recorded yet.
DialedAreUntraced ==
  \A c \in Contacts :
    /\ dialPc[c] = "format" => Untraced(c)
    /\ dialPc[c] = "response" =>
         \A ch \in Trace : ch[1] = c =>
           ch = DialChannel(c) /\ ch \notin active /\ ch \notin retries

\* One channel per contact; a retry waits only for a channel that is over.
OneTrace ==
  /\ \A x, y \in Trace : x[1] = y[1] => x = y
  /\ \A ch \in retries : ch \notin Live /\ ch \notin active
  /\ \A ch \in ringing : ch \notin inStasis /\ ch \notin leaving
  /\ \A ch \in inStasis : ch \notin leaving

TriesBounded ==
  /\ \A c \in Contacts : tries[c] <= MaxRetries
  /\ \A ch \in retries : ch[2] <= MaxRetries

\* A contact that is or is about to be reported final has left the dialer.
Left(c) ==
  /\ \A i \in 1..Len(queue) : queue[i] # c
  /\ dialPc[c] = "idle"
  /\ \A ch \in active \cup retries : ch[1] # c

FinalHaveLeft ==
  /\ \A c \in Contacts \ misreported : rowStatus[c] \in Outcome => Left(c)
  /\ \A r \in reporting : ~ShouldRetry(r[1], r[2]) => Left(r[1][1])

(* The inductive invariant of the dialer: what each handler may assume of   *)
(* the others while it is suspended at an await.                            *)
DialerInv ==
  /\ NothingBeforeStart
  /\ QueuedAreUntraced
  /\ DialedAreUntraced
  /\ OneTrace
  /\ TriesBounded
  /\ AttemptsBounded
  /\ FinalHaveLeft
=============================================================================
