--------------------------- MODULE CampaignSystem ---------------------------
(***************************************************************************)
(* A campaign end to end: the backend's status column and its handlers     *)
(* (backend/src/campaigns/campaigns.service.ts, campaigns.scheduler.ts),   *)
(* composed with the dialer over the Redis channels campaign:start,        *)
(* campaign:stop, campaign:completed and campaign:cancelled.               *)
(*                                                                         *)
(* The backend reads the status, awaits, and writes it without a condition *)
(* in every handler but startDueCampaigns, so a handler is two or three    *)
(* actions and those of the cron pass, the user's stop, the 30 s fallback, *)
(* a late schedule request and the two subscriptions interleave.  The      *)
(* campaign starts scheduled and due, with the flow, trunk and contacts    *)
(* that scheduling requires; a second schedule request may have read draft *)
(* as well and has yet to write.  Once that write has put back a campaign  *)
(* that had left scheduled, the dialer may be started a second time: its   *)
(* second runtime is not modelled, and nothing is claimed of the contacts  *)
(* any more.  Edits, uploads and the removal are module CampaignDesk's.    *)
(***************************************************************************)
EXTENDS CampaignDialer

CONSTANTS
  MaxStops,    \* how often the user asks to stop the campaign
  MaxRestarts  \* how often the Stasis process dies and comes back

ASSUME MaxStopsAssumption == MaxStops \in Nat /\ MaxRestarts \in Nat

VARIABLES
  status,      \* campaigns.status
  schedPc,     \* a second schedule request, between its read and its write
  rescheduled, \* history: that request put back a campaign that had left scheduled
  cronPc,      \* the pass of the cron job that finds the campaign due
  stopPc,      \* the stop request being served
  stops,       \* stop requests so far
  fallback,    \* 30 s timers armed by stop
  fallbackPc,  \* the fallback read cancelling and is about to write
  toStasis,    \* campaign:start / campaign:stop, in order
  restarts     \* restarts of Stasis so far

scheduleVars == <<schedPc, rescheduled>>
backendVars == <<status, scheduleVars, cronPc, stopPc, stops, fallback, fallbackPc, toStasis>>
systemVars == <<dialerVars, backendVars>>
vars == <<systemVars, restarts>>

Terminal == {"cancelled", "completed"}
Stoppable == {"running", "scheduled", "cancelling"}

BackendTypeOK ==
  /\ status \in Terminal \cup Stoppable
  /\ schedPc \in {"none", "write"}
  /\ rescheduled \in BOOLEAN
  /\ cronPc \in {"tick", "update", "publish", "done"}
  /\ stopPc \in {"none", "publish", "update"}
  /\ stops \in 0..MaxStops
  /\ fallback \in 0..MaxStops
  /\ fallbackPc \in BOOLEAN
  /\ toStasis \in Seq({"start", "stop"})
  /\ restarts \in 0..MaxRestarts

SystemTypeOK == TypeOK /\ BackendTypeOK

Init ==
  /\ DialerInit
  /\ status = "scheduled"
  /\ schedPc \in {"none", "write"}
  /\ rescheduled = FALSE
  /\ cronPc = "tick"
  /\ stopPc = "none"
  /\ stops = 0
  /\ fallback = 0
  /\ fallbackPc = FALSE
  /\ toStasis = <<>>
  /\ restarts = 0

-----------------------------------------------------------------------------
(* schedule: the other request read draft, and writes without asking again. *)

LateSchedule ==
  /\ schedPc = "write"
  /\ schedPc' = "none"
  /\ status' = "scheduled"
  /\ rescheduled' = (rescheduled \/ status # "scheduled")
  /\ UNCHANGED <<cronPc, stopPc, stops, fallback, fallbackPc, toStasis, dialerVars>>

-----------------------------------------------------------------------------
(* startDueCampaigns, once a minute: select, update where still scheduled,  *)
(* publish start whether or not the update changed the row.                 *)

CronSelect ==
  /\ cronPc \in {"tick", "done"}
  /\ status = "scheduled"
  /\ cronPc' = "update"
  /\ UNCHANGED <<status, scheduleVars, stopPc, stops, fallback, fallbackPc, toStasis,
                 dialerVars>>

\* Faulty variant: the UPDATE has no condition on the status.
CronUpdateAlways ==
  /\ cronPc = "update"
  /\ cronPc' = "publish"
  /\ status' = "running"
  /\ UNCHANGED <<scheduleVars, stopPc, stops, fallback, fallbackPc, toStasis, dialerVars>>

CronUpdate ==
  /\ cronPc = "update"
  /\ cronPc' = "publish"
  /\ status' = IF status = "scheduled" THEN "running" ELSE status
  /\ UNCHANGED <<scheduleVars, stopPc, stops, fallback, fallbackPc, toStasis, dialerVars>>

CronPublish ==
  /\ cronPc = "publish"
  /\ cronPc' = "done"
  /\ toStasis' = Append(toStasis, "start")
  /\ UNCHANGED <<status, scheduleVars, stopPc, stops, fallback, fallbackPc, dialerVars>>

-----------------------------------------------------------------------------
(* stop: read, publish, write cancelling, arm the fallback.                 *)

StopRead ==
  /\ stopPc = "none"
  /\ stops < MaxStops
  /\ status \in Stoppable
  /\ stopPc' = "publish"
  /\ stops' = stops + 1
  /\ UNCHANGED <<status, scheduleVars, cronPc, fallback, fallbackPc, toStasis, dialerVars>>

StopPublish ==
  /\ stopPc = "publish"
  /\ stopPc' = "update"
  /\ toStasis' = Append(toStasis, "stop")
  /\ UNCHANGED <<status, scheduleVars, cronPc, stops, fallback, fallbackPc, dialerVars>>

\* Faulty variant: the fallback timer is never armed.
StopUpdateNoFallback ==
  /\ stopPc = "update"
  /\ stopPc' = "none"
  /\ status' = "cancelling"
  /\ UNCHANGED <<scheduleVars, cronPc, stops, fallback, fallbackPc, toStasis, dialerVars>>

StopUpdate ==
  /\ stopPc = "update"
  /\ stopPc' = "none"
  /\ status' = "cancelling"
  /\ fallback' = fallback + 1
  /\ UNCHANGED <<scheduleVars, cronPc, stops, fallbackPc, toStasis, dialerVars>>

FallbackRead ==
  /\ fallback > 0
  /\ ~fallbackPc
  /\ fallback' = fallback - 1
  /\ fallbackPc' = (status = "cancelling")
  /\ UNCHANGED <<status, scheduleVars, cronPc, stopPc, stops, toStasis, dialerVars>>

FallbackWrite ==
  /\ fallbackPc
  /\ fallbackPc' = FALSE
  /\ status' = "cancelled"
  /\ UNCHANGED <<scheduleVars, cronPc, stopPc, stops, fallback, toStasis, dialerVars>>

-----------------------------------------------------------------------------
(* The subscriptions of the two sides.                                      *)

HandleFinished ==
  /\ toBackend # <<>>
  /\ status' = Head(toBackend)
  /\ toBackend' = Tail(toBackend)
  /\ UNCHANGED <<scheduleVars, cronPc, stopPc, stops, fallback, fallbackPc, toStasis>>
  /\ UNCHANGED <<controlVars, queue, dialPc, dialCheck, deleting, callVars,
                 asteriskVars, rowVars>>

\* A start that finds the campaign started makes a second runtime (see above).
DeliverStart ==
  /\ toStasis # <<>>
  /\ Head(toStasis) = "start"
  /\ toStasis' = Tail(toStasis)
  /\ RecvStart \/ (startPc # "none" /\ UNCHANGED dialerVars)
  /\ UNCHANGED <<status, scheduleVars, cronPc, stopPc, stops, fallback, fallbackPc>>

DeliverStop ==
  /\ toStasis # <<>>
  /\ Head(toStasis) = "stop"
  /\ toStasis' = Tail(toStasis)
  /\ RecvStop
  /\ UNCHANGED <<status, scheduleVars, cronPc, stopPc, stops, fallback, fallbackPc>>

BackendStep ==
  \/ LateSchedule
  \/ CronSelect \/ CronUpdate \/ CronPublish
  \/ StopRead \/ StopPublish \/ StopUpdate
  \/ FallbackRead \/ FallbackWrite
  \/ HandleFinished

\* Faulty variant: a restart takes up the campaign it was dialing.
StasisResumes ==
  /\ restarts < MaxRestarts
  /\ restarts' = restarts + 1
  /\ toStasis' = <<>>
  /\ startPc' = (IF registered THEN "fetch" ELSE "none")
  /\ registered' = FALSE /\ stopRequested' = FALSE
  /\ queue' = <<>> /\ deleting' = FALSE
  /\ tries' = [c \in Contacts |-> 0]
  /\ dialPc' = [c \in Contacts |-> "idle"]
  /\ dialCheck' = [c \in Contacts |-> FALSE]
  /\ active' = {} /\ flowRan' = {} /\ announcing' = {} /\ retries' = {}
  /\ reporting' = {} /\ starting' = {}
  /\ UNCHANGED <<asteriskVars, toBackend, rowVars>>
  /\ UNCHANGED <<status, scheduleVars, cronPc, stopPc, stops, fallback, fallbackPc>>

\* The Stasis process dies and starts again: runtimes, loops, handlers and
\* timers are gone, messages nobody was subscribed to are lost, and nothing
\* reads back the campaigns that were running.  Channels live on in Asterisk.
StasisRestarts ==
  /\ restarts < MaxRestarts
  /\ restarts' = restarts + 1
  /\ toStasis' = <<>>
  /\ startPc' = "none" /\ registered' = FALSE /\ stopRequested' = FALSE
  /\ queue' = <<>> /\ deleting' = FALSE
  /\ tries' = [c \in Contacts |-> 0]
  /\ dialPc' = [c \in Contacts |-> "idle"]
  /\ dialCheck' = [c \in Contacts |-> FALSE]
  /\ active' = {} /\ flowRan' = {} /\ announcing' = {} /\ retries' = {}
  /\ reporting' = {} /\ starting' = {}
  /\ UNCHANGED <<asteriskVars, toBackend, rowVars>>
  /\ UNCHANGED <<status, scheduleVars, cronPc, stopPc, stops, fallback, fallbackPc>>

Next ==
  \/ BackendStep /\ UNCHANGED restarts
  \/ DeliverStart /\ UNCHANGED restarts
  \/ DeliverStop /\ UNCHANGED restarts
  \/ DialerStep /\ UNCHANGED <<backendVars, restarts>>
  \/ StasisRestarts

\* Handlers that have begun run to their end and timers fire; users, called
\* parties and Asterisk owe nothing.
Fairness ==
  /\ WF_systemVars(CronUpdate) /\ WF_systemVars(CronPublish)
  /\ WF_systemVars(StopPublish) /\ WF_systemVars(StopUpdate)
  /\ WF_systemVars(FallbackRead) /\ WF_systemVars(FallbackWrite)
  /\ WF_systemVars(HandleFinished)

Spec == Init /\ [][Next]_vars /\ Fairness

-----------------------------------------------------------------------------
(* The cron pass and the user's stop race, and the UPDATE of the pass is    *)
(* conditional: a campaign becomes running from scheduled only, and one     *)
(* that has left scheduled is put back there by nothing but the write of a  *)
(* schedule request that was under way from the beginning.  (That write     *)
(* does bring a stopped campaign back, and the next pass runs it again:     *)
(* schedule does not ask for draft when it writes.)                         *)
RestartedOnlyBySchedule ==
  [][status # "scheduled" =>
       /\ status' = "running" => status = "running"
       /\ status' = "scheduled" => schedPc = "write"]_vars

(* A stop request ends in a final status even if the stop message is lost   *)
(* on a dialer that has no runtime yet or has just restarted, or the dialer *)
(* never answers; unless a late schedule request is still to write.         *)
StopSettles == (status = "cancelling" /\ schedPc = "none") ~> (status \in Terminal)

(* What the dialer guarantees of its contacts holds end to end, whatever    *)
(* the cron pass, the user and the two sides do, and across a crash of      *)
(* Stasis, which leaves its calls alive in Asterisk and loses its memory of *)
(* them: no contact is on two calls, none is dialed more often than its     *)
(* retries allow, and none that has its outcome is dialed again; for as     *)
(* long as no late schedule request has put a started campaign back.  Both  *)
(* sides and the messages between them keep their types.                    *)
DialerGuarantees ==
  /\ SystemTypeOK
  /\ rescheduled \/ (OneCallPerContact /\ AttemptsBounded /\ FinalContactsLeft)

(* docs-site/features/campaigns.md: the dialer goes on until all contacts   *)
(* are dialled or the campaign is stopped, and busy contacts are retried.   *)
(* A completed campaign that nobody stopped has no retry outstanding.       *)
CompletedMeansDone ==
  status = "completed" /\ stops = 0 => retries = {}

(* docs-site/features/campaigns.md: the dialer continues until all contacts *)
(* are dialled.  In a completed campaign that nobody stopped every contact  *)
(* has been dialed: its row has an outcome, or it is to be retried.         *)
CompletedDialsAll ==
  status = "completed" /\ stops = 0 =>
    \A c \in Contacts :
      rowStatus[c] # "pending" \/ tries[c] > 0 \/ \E ch \in retries : ch[1] = c
=============================================================================
