------------------------------- MODULE Webhooks -------------------------------
(***************************************************************************)
(* Webhook deliveries.  Stasis sends the first attempt without waiting for *)
(* it (fireWebhookAsync, webhook.executor.ts) and publishes its outcome;   *)
(* the backend (webhooks.listener.ts, webhooks.service.ts) logs it and     *)
(* schedules retries, each from a timer in memory with a growing delay.    *)
(* Redis delivers a message to whoever is subscribed, or to nobody.        *)
(* What the target did and what the sender sees of it are kept apart: an   *)
(* answer may be lost, or its body not read before the sender gives up.    *)
(***************************************************************************)
EXTENDS Naturals, Sequences, FiniteSets

CONSTANTS
  Hooks,           \* the deliveries
  HookMaxAttempts  \* the largest max_attempts configured

ASSUME HookAssumption == HookMaxAttempts \in Nat \ {0}

VARIABLES
  hookConfig,    \* the webhook node's settings, defaults applied
  hookPc,        \* "idle", "fetch", "publish", "log", "timer", "retry", "over"
  hookEvent,     \* the event of the attempt under way
  deliveries,    \* the rows of webhook_deliveries, per delivery
  received       \* the attempts the target has answered with success

hookVars == <<hookConfig, hookPc, hookEvent, deliveries, received>>

\* How a request ends for the sender: an HTTP status, one of 2xx whose body
\* could not be read (Stasis keeps the status, and that it failed), a timeout
\* or network error, or an error the retry rules do not know.
Statuses == {"2xx", "unread", "3xx", "4xx", "5xx", "network", "other"}

\* The target has succeeded; no answer says what the target has done.
TargetSucceeded == {"2xx", "unread"}
NoAnswer == {"network", "other"}

HookInit ==
  /\ hookConfig \in [retry_enabled : BOOLEAN, max_attempts : 1..HookMaxAttempts,
                     retry_on : SUBSET {"5xx", "4xx", "network"}]
  /\ hookPc = [h \in Hooks |-> "idle"]
  /\ hookEvent = [h \in Hooks |-> [attempt_number |-> 0, status |-> "none"]]
  /\ deliveries = [h \in Hooks |-> <<>>]
  /\ received = [h \in Hooks |-> {}]

isSuccess(e) == e.status = "2xx"

\* Faulty variant: one attempt too many
shouldRetryOnce(e) ==
  /\ ~isSuccess(e) /\ hookConfig.retry_enabled
  /\ e.attempt_number <= hookConfig.max_attempts
  /\ e.status \in hookConfig.retry_on

shouldRetry(e) ==
  /\ ~isSuccess(e) /\ hookConfig.retry_enabled
  /\ e.attempt_number < hookConfig.max_attempts
  /\ e.status \in hookConfig.retry_on

\* The webhook node is passed: without a URL nothing is sent.
fireWebhookAsync(h) ==
  /\ hookPc[h] = "idle"
  /\ hookPc' \in {[hookPc EXCEPT ![h] = x] : x \in {"fetch", "over"}}
  /\ UNCHANGED <<hookConfig, hookEvent, deliveries, received>>

WebhookAnswers(h, s) ==
  LET n == hookEvent[h].attempt_number + 1
  IN /\ hookEvent' = [hookEvent EXCEPT ![h] = [attempt_number |-> n, status |-> s]]
     /\ \/ /\ s \in TargetSucceeded \cup NoAnswer
           /\ received' = [received EXCEPT ![h] = @ \cup {n}]
        \/ s \notin TargetSucceeded /\ UNCHANGED received

\* The request of Stasis has ended; publishing its outcome may fail.
AttemptDone(h) ==
  /\ hookPc[h] = "fetch"
  /\ \E s \in Statuses : WebhookAnswers(h, s)
  /\ hookPc' = [hookPc EXCEPT ![h] = "publish"]
  /\ UNCHANGED <<hookConfig, deliveries>>

publishDelivery(h) ==
  /\ hookPc[h] = "publish"
  /\ hookPc' \in {[hookPc EXCEPT ![h] = x] : x \in {"log", "over"}}
  /\ UNCHANGED <<hookConfig, hookEvent, deliveries, received>>

(* logDelivery, then scheduleRetry for a failed attempt; when the row      *)
(* cannot be saved the handler throws and there is no retry.               *)
logDelivery(h) ==
  /\ hookPc[h] = "log"
  /\ \/ /\ deliveries' = [deliveries EXCEPT ![h] = Append(@, hookEvent[h])]
        /\ hookPc' = [hookPc EXCEPT ![h] =
                        IF shouldRetry(hookEvent[h]) THEN "timer" ELSE "over"]
     \/ hookPc' = [hookPc EXCEPT ![h] = "over"] /\ UNCHANGED deliveries
  /\ UNCHANGED <<hookConfig, hookEvent, received>>

runRetry(h) ==
  /\ hookPc[h] = "timer"
  /\ hookPc' = [hookPc EXCEPT ![h] = "retry"]
  /\ UNCHANGED <<hookConfig, hookEvent, deliveries, received>>

\* A retry whose body cannot be read has no status: it is a network error.
executeRetry(h) ==
  /\ hookPc[h] = "retry"
  /\ \E s \in Statuses \ {"unread"} : WebhookAnswers(h, s)
  /\ hookPc' = [hookPc EXCEPT ![h] = "log"]
  /\ UNCHANGED <<hookConfig, deliveries>>

\* The backend restarts: messages, timers and requests in flight are lost.
HookBackendRestarts ==
  /\ hookPc' = [h \in Hooks |-> IF hookPc[h] \in {"log", "timer", "retry"}
                                THEN "over" ELSE hookPc[h]]
  /\ hookPc' # hookPc
  /\ UNCHANGED <<hookConfig, hookEvent, deliveries, received>>

HookStep(h) ==
  \/ fireWebhookAsync(h) \/ AttemptDone(h) \/ publishDelivery(h)
  \/ logDelivery(h) \/ runRetry(h) \/ executeRetry(h)

HookNext == (\E h \in Hooks : HookStep(h)) \/ HookBackendRestarts

\* getDeliveries with the filter on success: the rows, by their place.
getDeliveries(h, success) ==
  {i \in DOMAIN deliveries[h] : isSuccess(deliveries[h][i]) = success}

-----------------------------------------------------------------------------

(* A delivery ends with the first success the sender sees, a refusal to    *)
(* retry or a lost timer, after at most max_attempts, and the log shows    *)
(* its attempts in order without a gap.  The target may succeed more than  *)
(* once, but only where the sender could not know: an attempt that follows *)
(* one the target answered with success follows a logged network error,    *)
(* which the settings retry.                                               *)
DeliveredOnce ==
  \A h \in Hooks :
    /\ hookEvent[h].attempt_number <= hookConfig.max_attempts
    /\ \A n \in received[h] : n < hookEvent[h].attempt_number =>
         n \in DOMAIN deliveries[h] /\ deliveries[h][n].status = "network"
    /\ \A i \in getDeliveries(h, TRUE) :
         i \in received[h] /\ i = hookEvent[h].attempt_number
    /\ \A i \in 1..Len(deliveries[h]) :
         /\ deliveries[h][i].attempt_number = i
         /\ i < Len(deliveries[h]) => shouldRetry(deliveries[h][i])
=============================================================================
