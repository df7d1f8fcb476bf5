----------------------------- MODULE CallbackNode -----------------------------
(***************************************************************************)
(* How a callback comes to be: the callback node of a flow                 *)
(* (stasis/src/nodes/callback.executor.ts) finds the customer's number,    *)
(* from the caller id or from digits, publishes callback:created, confirms *)
(* and hangs up; the backend (callbacks.service.ts) inserts the row.  What *)
(* happens to the row afterwards is module Callback.                       *)
(***************************************************************************)
EXTENDS Naturals, Sequences

CONSTANT MaxDigits    \* dtmf_max_digits

VARIABLES
  cbSource,     \* number_source
  cbPstn,       \* destination_type is pstn, with a destination_value
  cbAni,        \* the caller id: "number", "short" or "none"
  cbPc,
  cbChan,       \* the caller's channel: "up", "dead", "gone"
  digits,       \* digits collected
  customerNumber,
  published,    \* the executor's flag
  sent,         \* messages published on callback:created
  cbRows        \* rows of the callbacks table

cbVars == <<cbSource, cbPstn, cbAni, cbPc, cbChan, digits, customerNumber,
            published, sent, cbRows>>

CallbackSettings == <<cbSource, cbPstn, cbAni>>

CallbackNodeInit ==
  /\ cbSource \in {"ani", "dtmf"} /\ cbPstn \in BOOLEAN
  /\ cbAni \in {"number", "short", "none"}
  /\ cbPc = "lookup" /\ cbChan = "up" /\ digits = 0
  /\ customerNumber = "none" /\ published = FALSE
  /\ sent = <<>> /\ cbRows = <<>>

\* Operator and call log are looked up, outside the try block: a database
\* error ends the node with nothing created.  The caller id is taken as is.
executeCallbackNode ==
  /\ cbPc = "lookup"
  /\ \/ /\ cbPc' = "returned" /\ UNCHANGED customerNumber
     \/ /\ cbSource = "ani"
        /\ customerNumber' = cbAni /\ cbPc' = "publish"
     \/ /\ cbSource = "dtmf"
        /\ cbPc' = (IF cbChan = "up" THEN "collect" ELSE "failed")
        /\ UNCHANGED customerNumber
  /\ UNCHANGED <<CallbackSettings, cbChan, digits, published, sent, cbRows>>

\* Digits as they come; enough of them, or a timeout, end the collection.
collectDtmfDigits ==
  /\ cbPc = "collect"
  /\ \/ /\ cbChan = "up"
        /\ digits' = digits + 1
        /\ IF digits' >= MaxDigits
           THEN customerNumber' = "number" /\ cbPc' = "publish"
           ELSE UNCHANGED <<customerNumber, cbPc>>
     \/ /\ customerNumber' = IF digits = 0 THEN "none"
                             ELSE IF digits = 1 THEN "short" ELSE "number"
        /\ cbPc' = IF digits = 0 THEN "timedOut" ELSE "publish"
        /\ UNCHANGED digits
  /\ UNCHANGED <<CallbackSettings, cbChan, published, sent, cbRows>>

CallbackCallerLeaves ==
  /\ cbChan = "up"
  /\ cbChan' = "dead"
  /\ UNCHANGED <<CallbackSettings, cbPc, digits, customerNumber, published,
                 sent, cbRows>>

\* The caller's end, for the wait for digits or for the confirmation
CallbackCallerEnds ==
  /\ cbChan = "dead"
  /\ cbChan' = "gone"
  /\ cbPc' = IF cbPc \in {"collect", "confirming"} THEN "failed" ELSE cbPc
  /\ UNCHANGED <<CallbackSettings, digits, customerNumber, published, sent,
                 cbRows>>

\* Faulty variant: the flag is not set.
publishCreatedUnmarked(number, next) ==
  \/ /\ sent' = Append(sent, number)
     /\ cbPc' = next /\ UNCHANGED published
  \/ /\ cbPc' = IF cbPc = "failed" THEN "returned" ELSE "failed"
     /\ UNCHANGED <<sent, published>>

\* publishCreated: Redis takes the message, or the publication throws.
publishCreated(number, next) ==
  \/ /\ sent' = Append(sent, number)
     /\ published' = TRUE /\ cbPc' = next
  \/ /\ cbPc' = IF cbPc = "failed" THEN "returned" ELSE "failed"
     /\ UNCHANGED <<sent, published>>

\* Without a number a pstn destination stands in for it.
PublishRequest ==
  /\ cbPc \in {"publish", "timedOut"}
  /\ publishCreated(IF cbPc = "timedOut" THEN "none"
                    ELSE IF customerNumber = "none" /\ cbPstn THEN "number"
                    ELSE customerNumber, "confirm")
  /\ UNCHANGED <<CallbackSettings, cbChan, digits, customerNumber, cbRows>>

\* A confirmation is played, if there is one and the channel takes it.
Confirm ==
  /\ \/ cbPc = "confirm"
        /\ cbPc' \in {"hangup"} \cup {IF cbChan = "up" THEN "confirming"
                                                       ELSE "failed"}
     \/ cbPc = "confirming" /\ cbPc' = "hangup"
  /\ UNCHANGED <<CallbackSettings, cbChan, digits, customerNumber, published,
                 sent, cbRows>>

\* The catch block: nothing published yet, so a failed callback is.
PublishFailure ==
  /\ cbPc = "failed"
  /\ IF published
     THEN cbPc' = "hangup" /\ UNCHANGED <<sent, published>>
     ELSE publishCreated("none", "hangup")
  /\ UNCHANGED <<CallbackSettings, cbChan, digits, customerNumber, cbRows>>

HangUpCaller ==
  /\ cbPc = "hangup"
  /\ cbChan' = IF cbChan = "up" THEN "dead" ELSE cbChan
  /\ cbPc' = "returned"
  /\ UNCHANGED <<CallbackSettings, digits, customerNumber, published, sent,
                 cbRows>>

\* Digits are kept as an extension from two on; other forms must be valid
\* phone numbers.
normalizeCustomerNumber(n) == IF n = "number" THEN n ELSE "none"

(* handleCallbackCreated: a failed row without a usable number, otherwise  *)
(* a pending one.  The message is lost when nobody is subscribed or the    *)
(* insert fails.                                                           *)
handleCallbackCreated ==
  /\ Len(cbRows) < Len(sent)
  /\ LET n == normalizeCustomerNumber(sent[Len(cbRows) + 1]) IN
     cbRows' \in {Append(cbRows, IF n = "none" THEN "failed" ELSE "pending"),
                  Append(cbRows, "lost")}
  /\ UNCHANGED <<CallbackSettings, cbPc, cbChan, digits, customerNumber,
                 published, sent>>

\* listCallbacks, by status
listCallbacks(status) == {i \in DOMAIN cbRows : cbRows[i] = status}

CallbackNodeNext ==
  \/ executeCallbackNode \/ collectDtmfDigits \/ CallbackCallerLeaves
  \/ CallbackCallerEnds \/ PublishRequest \/ Confirm \/ PublishFailure
  \/ HangUpCaller \/ handleCallbackCreated

-----------------------------------------------------------------------------

(* A caller's request is recorded once: hanging up while the digits are    *)
(* collected, while the confirmation plays or after it never makes a       *)
(* second row, and a row is pending only if a number was given.            *)
CallbackCreatedOnce ==
  /\ Len(sent) <= 1
  /\ listCallbacks("pending") # {} => customerNumber = "number" \/ cbPstn
  /\ cbPc = "hangup" => Len(sent) = 1
=============================================================================
