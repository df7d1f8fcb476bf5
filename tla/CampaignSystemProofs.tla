------------------------ MODULE CampaignSystemProofs ------------------------
(***************************************************************************)
(* Proofs about a campaign end to end, for every number of contacts, stop  *)
(* requests and restarts of Stasis: type correctness, that nothing but a   *)
(* late schedule request brings back a campaign that has left scheduled,   *)
(* and that what the dialer guarantees of its contacts survives a crash of *)
(* Stasis.                                                                 *)
(***************************************************************************)
EXTENDS CampaignSystem, CampaignDialerProofs

\* Bundles of variables that change together.
USE DEF rowVars, scheduleVars

\* Every timer was armed by a stop request, and a request under way has not
\* armed its own yet.
TimersOfStops == fallback + (IF stopPc = "none" THEN 0 ELSE 1) <= stops

SystemInv == TypeOK /\ BackendTypeOK /\ TimersOfStops

\* The variables of the dialer that a message to the backend leaves alone.
ownVars == <<startPc, registered, stopRequested, queue, tries, active, flowRan,
             dialPc, dialCheck, announcing, retries, reporting, deleting,
             starting, ringing, inStasis, leaving, rowStatus, misreported>>

(* A step of the backend keeps the types, and the timers within the stops.  *)
LEMMA BackendInvStep ==
  ASSUME SystemInv, BackendStep, UNCHANGED restarts PROVE SystemInv'
<1> USE MaxStopsAssumption DEF SystemInv
<1>1. CASE LateSchedule \/ CronSelect \/ CronUpdate \/ FallbackWrite
  <2>1. UNCHANGED dialerVars
    BY <1>1 DEF LateSchedule, CronSelect, CronUpdate, FallbackWrite
  <2>2. TypeOK'
    BY <2>1, TypeStep
  <2>3. rescheduled' \in BOOLEAN
    BY <1>1 DEF LateSchedule, CronSelect, CronUpdate, FallbackWrite, BackendTypeOK
  <2> QED BY <1>1, <2>2, <2>3 DEF LateSchedule, CronSelect, CronUpdate, FallbackWrite,
             BackendTypeOK, TimersOfStops, Terminal, Stoppable
<1>2. CASE StopRead \/ StopUpdate \/ FallbackRead
  <2>1. UNCHANGED dialerVars
    BY <1>2 DEF StopRead, StopUpdate, FallbackRead
  <2>2. TypeOK'
    BY <2>1, TypeStep
  <2>3. fallbackPc' \in BOOLEAN
    BY <1>2 DEF StopRead, StopUpdate, FallbackRead, BackendTypeOK
  <2>4. stops' \in 0..MaxStops /\ fallback' \in 0..MaxStops /\ TimersOfStops'
    BY <1>2 DEF StopRead, StopUpdate, FallbackRead, BackendTypeOK, TimersOfStops
  <2> QED BY <1>2, <2>2, <2>3, <2>4 DEF StopRead, StopUpdate, FallbackRead, BackendTypeOK,
             Terminal, Stoppable
<1>3. CASE CronPublish \/ StopPublish
  <2>1. UNCHANGED dialerVars
    BY <1>3 DEF CronPublish, StopPublish
  <2>2. TypeOK'
    BY <2>1, TypeStep
  <2>3. toStasis' \in Seq({"start", "stop"})
    BY <1>3 DEF CronPublish, StopPublish, BackendTypeOK
  <2> QED BY <1>3, <2>2, <2>3 DEF CronPublish, StopPublish, BackendTypeOK, TimersOfStops
<1>4. CASE HandleFinished
  <2>1. /\ Head(toBackend) \in {"completed", "cancelled"}
        /\ Tail(toBackend) \in Seq({"completed", "cancelled"})
    BY <1>4 DEF HandleFinished, TypeOK
  <2>2. UNCHANGED ownVars
    BY <1>4 DEF HandleFinished, controlVars, callVars, asteriskVars, ownVars
  <2>3. TypeOK'
    BY <1>4, <2>1, <2>2 DEF HandleFinished, ownVars, TypeOK
  <2> QED BY <1>4, <2>1, <2>3 DEF HandleFinished, BackendTypeOK, TimersOfStops, Terminal
<1> QED BY <1>1, <1>2, <1>3, <1>4 DEF BackendStep

(* So do the messages to Stasis and a restart of it.                        *)
LEMMA DeliverInvStep ==
  ASSUME SystemInv, DeliverStart \/ DeliverStop, UNCHANGED restarts PROVE SystemInv'
<1> USE DEF SystemInv
<1>1. [DialerNext]_dialerVars
  BY DEF DeliverStart, DeliverStop, DialerNext
<1>2. TypeOK'
  BY <1>1, TypeStep
<1>3. toStasis' \in Seq({"start", "stop"})
  BY DEF DeliverStart, DeliverStop, BackendTypeOK
<1> QED BY <1>2, <1>3 DEF DeliverStart, DeliverStop, BackendTypeOK, TimersOfStops

(* A restart of Stasis forgets the runtimes and no campaign.                *)
LEMMA RestartInvStep ==
  ASSUME SystemInv, StasisRestarts PROVE SystemInv'
<1> USE MaxStopsAssumption DEF SystemInv
<1>1. /\ queue' \in Seq(Contacts) /\ toStasis' \in Seq({"start", "stop"})
      /\ tries' \in [Contacts -> Nat]
      /\ dialPc' \in [Contacts -> {"idle", "format", "response"}]
      /\ dialCheck' \in [Contacts -> BOOLEAN]
  BY DEF StasisRestarts
<1>2. TypeOK'
  BY <1>1 DEF StasisRestarts, TypeOK, asteriskVars
<1> QED BY <1>1, <1>2 DEF StasisRestarts, BackendTypeOK, TimersOfStops

(* Every step of the composed system keeps its invariant.                   *)
LEMMA SystemInvStep == SystemInv /\ [Next]_vars => SystemInv'
<1> SUFFICES ASSUME SystemInv, [Next]_vars PROVE SystemInv'
  OBVIOUS
<1>1. CASE DialerStep /\ UNCHANGED <<backendVars, restarts>>
  <2>1. TypeOK'
    BY <1>1, TypeStep DEF DialerNext, SystemInv
  <2> QED BY <1>1, <2>1 DEF SystemInv, backendVars, BackendTypeOK, TimersOfStops
<1>2. CASE UNCHANGED vars
  <2>1. UNCHANGED dialerVars
    BY <1>2 DEF vars, systemVars
  <2>2. TypeOK'
    BY <2>1, TypeStep DEF SystemInv
  <2> QED BY <1>2, <2>2 DEF SystemInv, vars, systemVars, backendVars, BackendTypeOK,
             TimersOfStops
<1> QED BY <1>1, <1>2, BackendInvStep, DeliverInvStep, RestartInvStep DEF Next

(* The invariant holds in every state of the composed system.               *)
LEMMA SystemInvariant == Spec => []SystemInv
<1>1. Init => SystemInv
  <2> SUFFICES ASSUME Init PROVE SystemInv
    OBVIOUS
  <2>1. TypeOK
    BY DialerInitType DEF Init
  <2>2. toStasis \in Seq({"start", "stop"})
    BY DEF Init
  <2>4. fallbackPc \in BOOLEAN /\ rescheduled \in BOOLEAN
    BY DEF Init
  <2>3. TimersOfStops
    BY DEF Init, TimersOfStops
  <2> QED BY <2>1, <2>2, <2>3, <2>4, MaxStopsAssumption DEF Init, SystemInv, BackendTypeOK,
             Stoppable
<1>2. QED
  BY <1>1, SystemInvStep, PTL DEF Spec

(* Type correctness of a campaign with its backend, however often it is     *)
(* stopped and Stasis restarts.                                             *)
THEOREM SystemTypeCorrect == Spec => []SystemTypeOK
<1>1. SystemInv => SystemTypeOK
  BY DEF SystemInv, SystemTypeOK
<1>2. QED
  BY <1>1, SystemInvariant, PTL

(* The status becomes running only by the conditional UPDATE of the cron    *)
(* pass, and scheduled only by the late schedule request: what the dialer   *)
(* publishes is final, and nobody else writes these two.                    *)
THEOREM RestartedOnlyByScheduleHolds == Spec => RestartedOnlyBySchedule
<1> DEFINE Once == status # "scheduled" =>
                     /\ status' = "running" => status = "running"
                     /\ status' = "scheduled" => schedPc = "write"
<1>1. SystemInv /\ [Next]_vars => [Once]_vars
  <2> SUFFICES ASSUME SystemInv, Next PROVE Once
    OBVIOUS
  <2>1. CASE BackendStep
    <3>1. toBackend # <<>> => Head(toBackend) \in {"completed", "cancelled"}
      BY DEF SystemInv, TypeOK
    <3> QED BY <2>1, <3>1 DEF BackendStep, LateSchedule, CronSelect, CronUpdate, CronPublish,
               StopRead, StopPublish, StopUpdate, FallbackRead, FallbackWrite, HandleFinished
  <2>2. CASE DeliverStart \/ DeliverStop \/ StasisRestarts
    BY <2>2 DEF DeliverStart, DeliverStop, StasisRestarts
  <2>3. CASE DialerStep /\ UNCHANGED <<backendVars, restarts>>
    BY <2>3 DEF backendVars
  <2> QED BY <2>1, <2>2, <2>3 DEF Next
<1>2. QED
  BY <1>1, SystemInvariant, PTL DEF Spec, RestartedOnlyBySchedule

(* A cancelling campaign has a timer of stop that will cancel it, or one    *)
(* that has read cancelling and is about to, whatever becomes of the stop   *)
(* message and of Stasis: the part of StopSettles that is not about time.   *)
THEOREM StopIsTimed == Spec => [](status = "cancelling" => fallback > 0 \/ fallbackPc)
<1> DEFINE Timed == status = "cancelling" => fallback > 0 \/ fallbackPc
<1>1. Init => Timed
  BY DEF Init
<1>2. SystemInv /\ Timed /\ [Next]_vars => Timed'
  <2> SUFFICES ASSUME SystemInv, Timed, [Next]_vars PROVE Timed'
    OBVIOUS
  <2>1. fallback \in Nat /\ fallbackPc \in BOOLEAN
    BY MaxStopsAssumption DEF SystemInv, BackendTypeOK
  <2>2. CASE LateSchedule \/ CronSelect \/ CronUpdate \/ CronPublish \/ StopRead \/ StopPublish
    BY <2>2 DEF LateSchedule, CronSelect, CronUpdate, CronPublish, StopRead, StopPublish
  <2>3. CASE StopUpdate
    BY <2>1, <2>3 DEF StopUpdate
  <2>4. CASE FallbackRead
    BY <2>4 DEF FallbackRead
  <2>5. CASE FallbackWrite
    BY <2>5 DEF FallbackWrite
  <2>6. CASE HandleFinished
    <3>1. Head(toBackend) \in {"completed", "cancelled"}
      BY <2>6 DEF HandleFinished, SystemInv, TypeOK
    <3> QED BY <2>6, <3>1 DEF HandleFinished
  <2>7. CASE DeliverStart \/ DeliverStop \/ StasisRestarts
    BY <2>7 DEF DeliverStart, DeliverStop, StasisRestarts
  <2>8. CASE UNCHANGED <<status, fallback, fallbackPc>>
    BY <2>8
  <2> QED BY <2>2, <2>3, <2>4, <2>5, <2>6, <2>7, <2>8
          DEF Next, BackendStep, vars, systemVars, backendVars
<1> QED BY <1>1, <1>2, SystemInvariant, PTL DEF Spec

-----------------------------------------------------------------------------
(* The dialer of a campaign that is started once: until the start message   *)
(* arrives nothing of it exists, so that a crash of Stasis forgets nothing; *)
(* after a later crash nothing starts it again, and the calls that are left *)
(* in Asterisk end without it.                                              *)
StartsIn == {i \in 1..Len(toStasis) : toStasis[i] = "start"}

StartedOnce ==
  /\ \A i, j \in StartsIn : i = j
  /\ cronPc # "done" => StartsIn = {}
  /\ cronPc # "done" \/ StartsIn # {} => startPc = "none"

Forgotten ==
  /\ cronPc = "done" /\ StartsIn = {} /\ startPc = "none"
  /\ ~registered /\ ~deleting /\ queue = <<>>
  /\ \A c \in Contacts : dialPc[c] = "idle"
  /\ active = {} /\ retries = {} /\ announcing = {} /\ reporting = {} /\ starting = {}
  /\ OneTrace /\ AttemptsBounded

CrashInv == (DialerInv /\ StartedOnce) \/ Forgotten

\* A pass that has run its UPDATE leaves nothing for the next one to find.
CronOver == cronPc \in {"publish", "done"} => status # "scheduled"

\* All this for as long as no late schedule request put the campaign back.
RunInv == rescheduled \/ (CrashInv /\ CronOver)

(* What a forgotten dialer consists of.                                     *)
forgottenVars == <<startPc, registered, deleting, queue, dialPc, active, retries,
                   announcing, reporting, starting>>

(* A forgotten dialer stays so while its calls end.                         *)
LEMMA ForgottenKeeps ==
  ASSUME Forgotten, UNCHANGED <<forgottenVars, cronPc>>, StartsIn' = {},
         Live' \subseteq Live,
         /\ \A ch \in ringing' : ch \notin inStasis' /\ ch \notin leaving'
         /\ \A ch \in inStasis' : ch \notin leaving'
  PROVE  Forgotten'
BY DEF Forgotten, forgottenVars, OneTrace, AttemptsBounded, Trace

(* The messages of the backend: at most one of them is a start.             *)
LEMMA PublishStarts ==
  ASSUME SystemInv, NEW m \in {"start", "stop"}, toStasis' = Append(toStasis, m)
  PROVE  StartsIn' = IF m = "start" THEN StartsIn \cup {Len(toStasis) + 1} ELSE StartsIn
<1>1. /\ Len(toStasis) \in Nat /\ Len(toStasis') = Len(toStasis) + 1
      /\ toStasis'[Len(toStasis) + 1] = m
      /\ \A i \in 1..Len(toStasis) : toStasis'[i] = toStasis[i]
  BY DEF SystemInv, BackendTypeOK
<1> QED BY <1>1 DEF StartsIn

(* A message that is delivered is the first; the others move up.            *)
LEMMA DeliverStarts ==
  ASSUME SystemInv, toStasis # <<>>, toStasis' = Tail(toStasis)
  PROVE  /\ \A i \in StartsIn' : i + 1 \in StartsIn /\ i + 1 # 1
         /\ Head(toStasis) = "start" => 1 \in StartsIn
<1>1. /\ Len(toStasis) \in Nat /\ Len(toStasis) > 0 /\ Len(toStasis') = Len(toStasis) - 1
      /\ \A i \in 1..Len(toStasis') : toStasis'[i] = toStasis[i + 1]
      /\ Head(toStasis) = toStasis[1]
  BY DEF SystemInv, BackendTypeOK
<1> QED BY <1>1 DEF StartsIn

(* The backend starts the campaign once and touches nothing of the dialer.  *)
LEMMA BackendCrashStep ==
  ASSUME SystemInv, CrashInv, CronOver, BackendStep PROVE CrashInv'
<1>1. /\ UNCHANGED <<dialState, forgottenVars>>
      /\ toStasis' = toStasis \/ CronPublish \/ StopPublish
      /\ cronPc' = cronPc \/ (cronPc # "done" /\ cronPc' # "done") \/ CronPublish
  BY DEF CronOver, BackendStep, LateSchedule, CronSelect, CronUpdate, CronPublish, StopRead,
         StopPublish, StopUpdate, FallbackRead, FallbackWrite, HandleFinished, dialState, forgottenVars, dialerVars,
         controlVars, callVars, asteriskVars
<1>2. Live' = Live /\ UNCHANGED <<ringing, inStasis, leaving, startPc>>
  BY <1>1 DEF dialState, forgottenVars, Live
<1>3. CASE CronPublish
  <2>1. DialerInv /\ StartedOnce /\ cronPc # "done" /\ cronPc' = "done"
        /\ StartsIn = {} /\ startPc = "none"
    BY <1>3 DEF CrashInv, CronPublish, Forgotten, StartedOnce
  <2>2. StartsIn' = {Len(toStasis) + 1}
    BY <1>3, <2>1, PublishStarts DEF CronPublish
  <2>3. DialerInv'
    BY <1>1, <1>2, <2>1, QuietStep
  <2>4. StartedOnce'
    BY <1>2, <2>1, <2>2 DEF StartedOnce
  <2> QED BY <2>3, <2>4 DEF CrashInv
<1>4. CASE ~CronPublish
  <2>1. StartsIn' = StartsIn
    <3>1. CASE toStasis' = toStasis
      BY <3>1 DEF StartsIn
    <3>2. CASE StopPublish
      BY <3>2, PublishStarts DEF StopPublish
    <3> QED BY <1>1, <1>4, <3>1, <3>2
  <2>2. CASE DialerInv /\ StartedOnce
    <3>1. DialerInv'
      BY <1>1, <1>2, <2>2, QuietStep
    <3>2. StartedOnce'
      BY <1>1, <1>2, <1>4, <2>1, <2>2 DEF StartedOnce
    <3> QED BY <3>1, <3>2 DEF CrashInv
  <2>3. CASE Forgotten
    <3>1. cronPc' = cronPc
      BY <1>1, <1>4, <2>3 DEF Forgotten
    <3>2. StartsIn' = {}
      BY <2>1, <2>3 DEF Forgotten
    <3>3. /\ \A ch \in ringing' : ch \notin inStasis' /\ ch \notin leaving'
          /\ \A ch \in inStasis' : ch \notin leaving'
      BY <1>2, <2>3 DEF Forgotten, OneTrace
    <3> QED BY <1>1, <1>2, <2>3, <3>1, <3>2, <3>3, ForgottenKeeps DEF CrashInv
  <2> QED BY <2>2, <2>3 DEF CrashInv
<1> QED BY <1>3, <1>4

(* The start message begins a dialer that does not exist yet.               *)
LEMMA DeliverCrashStep ==
  ASSUME SystemInv, CrashInv, DeliverStart \/ DeliverStop PROVE CrashInv'
<1>1. /\ toStasis # <<>> /\ toStasis' = Tail(toStasis) /\ cronPc' = cronPc
      /\ \A i \in StartsIn' : i + 1 \in StartsIn /\ i + 1 # 1
      /\ Head(toStasis) = "start" => 1 \in StartsIn
  BY DeliverStarts DEF DeliverStart, DeliverStop
<1>2. \A i \in StartsIn' : i \in Nat
  BY DEF StartsIn, SystemInv, BackendTypeOK
<1>3. CASE DialerInv /\ StartedOnce
  <2>1. DialerInv'
    BY <1>3, InvStep DEF DeliverStart, DeliverStop, DialerNext, SystemInv
  <2>2. CASE DeliverStart
    <3>1. StartsIn' = {}
      BY <1>1, <1>3, <2>2 DEF DeliverStart, StartedOnce
    <3>2. cronPc' = "done"
      BY <1>1, <1>3, <2>2 DEF DeliverStart, StartedOnce
    <3> QED BY <2>1, <3>1, <3>2 DEF CrashInv, StartedOnce
  <2>3. CASE DeliverStop
    <3>1. startPc' = startPc
      BY <2>3 DEF DeliverStop, RecvStop
    <3>2. \A i, j \in StartsIn' : i = j
      BY <1>1, <1>2, <1>3 DEF StartedOnce
    <3>3. StartsIn' # {} => StartsIn # {}
      BY <1>1
    <3> QED BY <1>1, <1>3, <2>1, <3>1, <3>2, <3>3 DEF CrashInv, StartedOnce
  <2> QED BY <2>2, <2>3
<1>4. CASE Forgotten
  <2>1. StartsIn' = {}
    BY <1>1, <1>4 DEF Forgotten
  <2>2. DeliverStop
    BY <1>1, <1>4 DEF Forgotten, DeliverStart
  <2>3. UNCHANGED <<forgottenVars, ringing, inStasis, leaving>>
    BY <1>4, <2>2 DEF DeliverStop, RecvStop, Forgotten, forgottenVars, asteriskVars, callVars
  <2>4. /\ Live' = Live
        /\ \A ch \in ringing' : ch \notin inStasis' /\ ch \notin leaving'
        /\ \A ch \in inStasis' : ch \notin leaving'
    BY <1>4, <2>3 DEF Live, Forgotten, OneTrace
  <2> QED BY <1>1, <1>4, <2>1, <2>3, <2>4, ForgottenKeeps DEF CrashInv
<1> QED BY <1>3, <1>4 DEF CrashInv

(* A dialer that is forgotten only sees its calls end.                      *)
LEMMA ForgottenStep ==
  ASSUME SystemInv, Forgotten, DialerStep, UNCHANGED <<backendVars, restarts>>
  PROVE  Forgotten'
<1>1. StartsIn' = {} /\ UNCHANGED cronPc
  BY DEF Forgotten, StartsIn, backendVars
<1>2. ~StartRegister /\ ~StartFill /\ ~DialStep /\ ~AnnounceStep /\ ~EndStep
  BY DEF Forgotten, StartRegister, StartFill, DialStep, DialRejected, Originate,
         OriginateRecorded, ResponseLost, AnnounceStep, EndStep, DeleteRuntime
<1>3. starting = {} /\ ~registered
  BY DEF Forgotten
<1>4. ASSUME NEW ch \in ringing, StasisStart(ch) PROVE Forgotten'
  <2>1. UNCHANGED forgottenVars
    BY <1>3, <1>4 DEF StasisStart, forgottenVars, loopVars, controlVars
  <2>2. /\ Live' \subseteq Live
        /\ \A x \in ringing' : x \notin inStasis' /\ x \notin leaving'
        /\ \A x \in inStasis' : x \notin leaving'
    BY <1>4 DEF StasisStart, Live, Forgotten, OneTrace
  <2> QED BY <1>1, <2>1, <2>2, ForgottenKeeps
<1>5. ASSUME NEW ch \in inStasis, StasisEnd(ch) PROVE Forgotten'
  <2>1. UNCHANGED forgottenVars
    BY <1>3, <1>5 DEF StasisEnd, ChannelEnd, forgottenVars, loopVars, controlVars
  <2>2. /\ Live' \subseteq Live
        /\ \A x \in ringing' : x \notin inStasis' /\ x \notin leaving'
        /\ \A x \in inStasis' : x \notin leaving'
    BY <1>5 DEF StasisEnd, Live, Forgotten, OneTrace
  <2> QED BY <1>1, <2>1, <2>2, ForgottenKeeps
<1>6. ASSUME NEW ch \in ringing \cup leaving, NEW cause \in Cause, ChannelDestroyed(ch, cause)
      PROVE  Forgotten'
  <2>1. UNCHANGED forgottenVars
    BY <1>3, <1>6 DEF ChannelDestroyed, ChannelEnd, forgottenVars, loopVars, controlVars
  <2>2. /\ Live' \subseteq Live
        /\ \A x \in ringing' : x \notin inStasis' /\ x \notin leaving'
        /\ \A x \in inStasis' : x \notin leaving'
    BY <1>6 DEF ChannelDestroyed, Live, Forgotten, OneTrace
  <2> QED BY <1>1, <2>1, <2>2, ForgottenKeeps
<1>7. CallStep
  BY <1>2 DEF DialerStep
<1> QED BY <1>3, <1>4, <1>5, <1>6, <1>7 DEF CallStep

(* A crash forgets a dialer that was started, and changes nothing of one    *)
(* that was not.                                                            *)
LEMMA RestartCrashStep ==
  ASSUME SystemInv, CrashInv, StasisRestarts PROVE CrashInv'
<1>1. /\ toStasis' = <<>> /\ startPc' = "none" /\ ~registered' /\ ~deleting' /\ queue' = <<>>
      /\ \A c \in Contacts : dialPc'[c] = "idle" /\ tries'[c] = 0
      /\ active' = {} /\ retries' = {} /\ announcing' = {} /\ reporting' = {} /\ starting' = {}
      /\ UNCHANGED <<ringing, inStasis, leaving, rowStatus, cronPc>>
  BY DEF StasisRestarts, asteriskVars
<1>2. StartsIn' = {} /\ Len(queue') = 0 /\ Live' = Live /\ Trace' = Live
  BY <1>1 DEF StartsIn, Live, Trace
<1>3. OneTrace /\ AttemptsBounded
  BY DEF CrashInv, DialerInv, Forgotten
<1>4. OneTrace' /\ AttemptsBounded'
  BY <1>1, <1>2, <1>3 DEF OneTrace, AttemptsBounded, Trace
<1>5. CASE cronPc = "done"
  BY <1>1, <1>2, <1>4, <1>5 DEF Forgotten, CrashInv
<1>6. CASE cronPc # "done"
  <2>1. NothingBeforeStart /\ startPc = "none"
    BY <1>6 DEF CrashInv, Forgotten, DialerInv, StartedOnce
  <2>2. Trace' = {} /\ \A c \in Contacts : rowStatus'[c] = "pending"
    BY <1>1, <1>2, <2>1 DEF NothingBeforeStart, Trace
  <2>3. NothingBeforeStart'
    BY <1>1, <2>2 DEF NothingBeforeStart
  <2>4. QueuedAreUntraced' /\ DialedAreUntraced'
    BY <1>1, <1>2 DEF QueuedAreUntraced, DialedAreUntraced
  <2>5. TriesBounded'
    BY <1>1, DialerAssumption DEF TriesBounded
  <2>6. FinalHaveLeft'
    BY <1>1, <2>2 DEF FinalHaveLeft, Outcome, Cause
  <2>7. StartedOnce'
    BY <1>1, <1>2 DEF StartedOnce
  <2> QED BY <1>4, <2>3, <2>4, <2>5, <2>6, <2>7 DEF DialerInv, CrashInv
<1> QED BY <1>5, <1>6

(* The dialer stays within its invariant or is forgotten.                   *)
LEMMA CrashInvStep ==
  ASSUME SystemInv, CrashInv, CronOver, [Next]_vars PROVE CrashInv'
<1>1. CASE DialerStep /\ UNCHANGED <<backendVars, restarts>>
  <2>1. CASE DialerInv /\ StartedOnce
    <3>1. DialerInv'
      BY <1>1, <2>1, InvStep DEF DialerNext, SystemInv
    <3>2. startPc = "none" => startPc' = "none"
      BY <1>1 DEF DialerStep, StartRegister, StartFill, DialStep, DialRejected, ResponseLost,
         DialFailed, Originate, OriginateRecorded, AnnounceStep, Announce, CallStep, StasisStart,
         FlowStarted, FlowRefused, StasisEnd, ChannelDestroyed, EndStep, Report, DeleteRuntime,
         RetryFires, controlVars
    <3>3. UNCHANGED <<toStasis, cronPc>>
      BY <1>1 DEF backendVars
    <3> QED BY <2>1, <3>1, <3>2, <3>3 DEF StartedOnce, StartsIn, CrashInv
  <2>2. CASE Forgotten
    BY <1>1, <2>2, ForgottenStep DEF CrashInv
  <2> QED BY <2>1, <2>2 DEF CrashInv
<1>2. CASE UNCHANGED vars
  <2>1. UNCHANGED <<dialState, forgottenVars, toStasis, cronPc>>
    BY <1>2 DEF vars, systemVars, backendVars, dialerVars, dialState, forgottenVars
  <2>2. StartsIn' = StartsIn /\ UNCHANGED <<startPc, ringing, inStasis, leaving, cronPc>>
    BY <2>1 DEF StartsIn, dialState, forgottenVars
  <2>3. CASE DialerInv /\ StartedOnce
    BY <2>1, <2>2, <2>3, QuietStep DEF StartedOnce, CrashInv
  <2>4. CASE Forgotten
    BY <2>1, <2>2, <2>4, ForgottenKeeps DEF Forgotten, OneTrace, Live, CrashInv
  <2> QED BY <2>3, <2>4 DEF CrashInv
<1> QED BY <1>1, <1>2, BackendCrashStep, DeliverCrashStep, RestartCrashStep DEF Next

(* Unless a late schedule request puts the campaign back, a pass that has   *)
(* served it is over for good.                                              *)
LEMMA CronOverStep ==
  ASSUME SystemInv, CronOver, [Next]_vars PROVE rescheduled' \/ CronOver'
<1>1. toBackend # <<>> => Head(toBackend) \in {"completed", "cancelled"}
  BY DEF SystemInv, TypeOK
<1>2. CASE LateSchedule
  BY <1>2 DEF LateSchedule, CronOver
<1>3. CASE CronSelect \/ CronUpdate \/ CronPublish
  BY <1>3 DEF CronSelect, CronUpdate, CronPublish, CronOver
<1>4. CASE StopRead \/ StopPublish \/ StopUpdate \/ FallbackRead \/ FallbackWrite \/ HandleFinished
  BY <1>1, <1>4 DEF StopRead, StopPublish, StopUpdate, FallbackRead, FallbackWrite,
     HandleFinished, CronOver
<1>5. CASE UNCHANGED <<status, cronPc>>
  BY <1>5 DEF CronOver
<1> QED BY <1>2, <1>3, <1>4, <1>5
        DEF Next, BackendStep, DeliverStart, DeliverStop, StasisRestarts, vars, systemVars, backendVars

(* Together: a campaign is started once until it is put back.               *)
LEMMA RunInvStep == SystemInv /\ RunInv /\ [Next]_vars => RunInv'
<1> SUFFICES ASSUME SystemInv, RunInv, [Next]_vars PROVE RunInv'
  OBVIOUS
<1>1. CASE rescheduled
  <2>1. rescheduled'
    BY <1>1 DEF Next, BackendStep, LateSchedule, CronSelect, CronUpdate, CronPublish, StopRead,
       StopPublish, StopUpdate, FallbackRead, FallbackWrite, HandleFinished, DeliverStart,
       DeliverStop, StasisRestarts, vars, systemVars, backendVars
  <2> QED BY <2>1 DEF RunInv
<1>2. CASE CrashInv /\ CronOver
  BY <1>2, CrashInvStep, CronOverStep DEF RunInv
<1> QED BY <1>1, <1>2 DEF RunInv

(* No contact of a campaign is on two calls, none is dialed more often than *)
(* its retries allow and none that has its outcome is dialed again, end to  *)
(* end and across crashes of Stasis, for any numbers of contacts, retries,  *)
(* stop requests and crashes, until a late schedule request puts it back.   *)
THEOREM DialerGuaranteesHolds == Spec => []DialerGuarantees
<1>1. Init => RunInv
  <2> SUFFICES ASSUME Init PROVE DialerInv /\ StartedOnce /\ CronOver
    BY DEF CrashInv, RunInv
  <2>1. DialerInv
    BY DialerInitInv DEF Init
  <2>2. StartsIn = {}
    BY DEF Init, StartsIn
  <2> QED BY <2>1, <2>2 DEF StartedOnce, CronOver, Init, DialerInit
<1>2. SystemInv /\ RunInv => DialerGuarantees
  <2> SUFFICES ASSUME SystemInv, CrashInv
               PROVE  SystemTypeOK /\ OneCallPerContact /\ AttemptsBounded /\ FinalContactsLeft
    BY DEF RunInv, DialerGuarantees, SystemInv, SystemTypeOK
  <2>1. OneTrace /\ AttemptsBounded
    BY DEF CrashInv, DialerInv, Forgotten
  <2>2. OneCallPerContact
    BY <2>1 DEF OneTrace, OneCallPerContact, Trace
  <2>3. FinalContactsLeft
    <3>1. CASE DialerInv
      BY <3>1 DEF SystemInv, TypeOK, DialerInv, FinalHaveLeft, Left, FinalContactsLeft
    <3>2. CASE Forgotten
      BY <3>2 DEF Forgotten, FinalContactsLeft
    <3> QED BY <3>1, <3>2 DEF CrashInv
  <2>4. SystemTypeOK
    BY DEF SystemInv, SystemTypeOK
  <2> QED BY <2>1, <2>2, <2>3, <2>4
<1> QED BY <1>1, <1>2, RunInvStep, SystemInvariant, PTL DEF Spec

(* Once a stop is requested no contact is taken to be dialed, in the whole  *)
(* system as in the dialer alone: a crash forgets the request, and with it  *)
(* every dial.                                                              *)
THEOREM StopEndsDialingEndToEnd == Spec => StopEndsDialing
<1> DEFINE NoNewDial ==
      stopRequested /\ stopRequested' =>
        \A c \in Contacts : dialPc[c] = "idle" => dialPc'[c] = "idle"
<1>1. SystemInv /\ [Next]_vars => [NoNewDial]_dialerVars
  <2> SUFFICES ASSUME SystemInv, Next PROVE NoNewDial \/ UNCHANGED dialerVars
    BY DEF vars, systemVars
  <2>1. CASE BackendStep
    <3>1. UNCHANGED dialPc
      BY <2>1 DEF BackendStep, CronSelect, CronUpdate, CronPublish, StopRead, StopPublish,
         StopUpdate, FallbackRead, FallbackWrite, HandleFinished, LateSchedule, dialerVars
    <3> QED BY <3>1
  <2>2. CASE DialerNext
    BY <2>2, StoppedStep DEF SystemInv
  <2>3. CASE StasisRestarts
    BY <2>3 DEF StasisRestarts
  <2> QED BY <2>1, <2>2, <2>3 DEF Next, DeliverStart, DeliverStop, DialerNext
<1> QED BY <1>1, SystemInvariant, PTL DEF Spec, StopEndsDialing
=============================================================================
