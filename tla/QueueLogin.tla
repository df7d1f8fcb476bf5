----------------------------- MODULE QueueLogin ------------------------------
(***************************************************************************)
(* stasis/src/executors/queue_login.executor.ts: an operator calls in,     *)
(* types a PIN and is logged in to every queue of the node until # is      *)
(* pressed or the call ends.  What a login does inside one queue is        *)
(* CallQueue's; here are the input of the PIN, the attempts, the several   *)
(* queues, and the moments at which an end of the call is not heard.  The  *)
(* handlers of customers (queueManager.ts) take the operator meanwhile,    *)
(* and put him back without asking whether he is still logged in.          *)
(***************************************************************************)
EXTENDS Naturals, Sequences

CONSTANTS PinQueues,   \* the queues of the node
          PinDigits,   \* digits an operator may press
          StaffPins,   \* the PINs of the operators assigned to the queues
          PinAttempts, \* the smallest pin_retry_attempts of the queues
          MaxPin       \* digits collected at most (6 in the code)

VARIABLES
  pinPc,      \* where executeQueueLogin is
  pinUp,      \* the operator's channel is up
  typed,      \* digits collected
  lastDigit,  \* the digit pressed last, if not more than 80 ms ago
  attempts,   \* attemptsLeft
  todo,       \* queues the loop over them has not come to
  memberOf,   \* queues in whose sets the operator is, free or busy
  held,       \* queues of whose customers a handler has taken him
  readded,    \* queues such a handler put him into that he was not in
  pinResult   \* what the node returned

memberVars == <<todo, memberOf, held, readded>>
pinVars == <<pinPc, pinUp, typed, lastDigit, attempts, memberVars, pinResult>>

NoDigit == "none"
PinInit ==
  /\ pinPc = "load" /\ pinUp = TRUE /\ typed = <<>> /\ lastDigit = NoDigit
  /\ attempts = 0 /\ pinResult = "none"
  /\ todo = PinQueues /\ memberOf = {} /\ held = {} /\ readded = {}

Goes(pc) == pinPc' = pc

\* Back to the menu the node was reached from, if there is one.
routeBackToMenuOnFailure ==
  /\ Goes("returned") /\ pinResult' \in {"failed", "route"}

\* The queues and the operators' PINs are read, once.
LoadPins ==
  /\ pinPc = "load"
  /\ \/ Goes("wait") /\ attempts' = PinAttempts /\ UNCHANGED pinResult
     \/ routeBackToMenuOnFailure /\ UNCHANGED attempts
  /\ UNCHANGED <<pinUp, typed, lastDigit, memberVars>>

(****************************** waitForDtmfDigits ***************************)

\* The wait settles; null leaves the node.
Settle(digits) ==
  IF digits = <<>>
  THEN routeBackToMenuOnFailure /\ UNCHANGED typed
  ELSE Goes("check") /\ typed' = digits /\ UNCHANGED pinResult

\* A press reaches the listeners of the client and of the channel with one
\* event object, which is taken once; a repeat within 80 ms is not taken.
onPinDtmf(d) ==
  /\ pinPc = "wait" /\ pinUp /\ d # lastDigit
  /\ lastDigit' = d
  /\ IF d = "#" THEN Settle(typed)
     ELSE IF Len(typed) + 1 >= MaxPin THEN Settle(Append(typed, d))
     ELSE typed' = Append(typed, d) /\ UNCHANGED <<pinPc, pinResult>>
  /\ UNCHANGED <<pinUp, attempts, memberVars>>

DigitGap ==
  /\ pinPc = "wait" /\ lastDigit # NoDigit /\ lastDigit' = NoDigit
  /\ UNCHANGED <<pinPc, pinUp, typed, attempts, memberVars, pinResult>>

PinTimeout ==
  /\ pinPc = "wait"
  /\ Settle(<<>>)
  /\ UNCHANGED <<pinUp, lastDigit, attempts, memberVars>>

(********************************* attempts ********************************)

ComparePin ==
  /\ pinPc = "check"
  /\ IF typed \in StaffPins
     THEN Goes("login") /\ UNCHANGED attempts
     ELSE Goes("wrong") /\ attempts' = attempts - 1
  /\ UNCHANGED <<pinUp, typed, lastDigit, memberVars, pinResult>>

\* The wrong-PIN audio, then the next attempt listens anew.
WrongPin ==
  /\ pinPc = "wrong"
  /\ IF attempts > 0 THEN Goes("wait") /\ UNCHANGED pinResult ELSE routeBackToMenuOnFailure
  /\ typed' = <<>> /\ lastDigit' = NoDigit
  /\ UNCHANGED <<pinUp, attempts, memberVars>>

(******************************* login and hold ****************************)

\* loginOperator for one queue after the other; an error of Redis, before
\* or after the operator is in the set, leaves the executor.
LoginNext ==
  /\ pinPc = "login"
  /\ \E q \in todo :
       \/ /\ memberOf' = memberOf \cup {q} /\ todo' = todo \ {q}
          /\ Goes(IF todo = {q} THEN "audio" ELSE "login")
       \/ /\ memberOf' \in {memberOf, memberOf \cup {q}}
          /\ Goes("thrown") /\ UNCHANGED todo
  /\ UNCHANGED <<pinUp, typed, lastDigit, attempts, held, readded, pinResult>>

\* Hold music and the success audio; only then the listeners for # and for
\* the end of the call are attached.
startOperatorHoldAudio ==
  /\ pinPc = "audio" /\ Goes("hold")
  /\ UNCHANGED <<pinUp, typed, lastDigit, attempts, memberVars, pinResult>>

\* The hold is over; the loop over the queues begins anew.
HoldEnds == Goes("logout") /\ todo' = PinQueues

HashPressed ==
  /\ pinPc = "hold" /\ pinUp /\ HoldEnds
  /\ UNCHANGED <<pinUp, typed, lastDigit, attempts, memberOf, held, readded, pinResult>>

\* The operator's call ends; the wait and the hold hear it.
OperatorLeaves ==
  /\ pinUp /\ pinUp' = FALSE
  /\ \/ pinPc = "wait" /\ Settle(<<>>) /\ UNCHANGED todo
     \/ pinPc = "hold" /\ HoldEnds /\ UNCHANGED <<typed, pinResult>>
     \/ pinPc \notin {"wait", "hold"} /\ UNCHANGED <<pinPc, typed, todo, pinResult>>
  /\ UNCHANGED <<lastDigit, attempts, memberOf, held, readded>>

\* Faulty variant: the operator leaves only the first queue.
LogoutFirst ==
  /\ pinPc = "logout"
  /\ \E q \in todo : memberOf' = memberOf \ {q} /\ todo' = todo \ {q}
  /\ Goes("returned") /\ pinResult' = "authenticated"
  /\ UNCHANGED <<pinUp, typed, lastDigit, attempts, held, readded>>

\* Hold music off, then logoutOperator for one queue after the other.
LogoutNext ==
  /\ pinPc = "logout"
  /\ \E q \in todo :
       \/ /\ memberOf' = memberOf \ {q} /\ todo' = todo \ {q}
          /\ IF todo = {q} THEN Goes("returned") /\ pinResult' = "authenticated"
             ELSE UNCHANGED <<pinPc, pinResult>>
       \/ /\ memberOf' \in {memberOf, memberOf \ {q}}
          /\ Goes("thrown") /\ UNCHANGED <<todo, pinResult>>
  /\ UNCHANGED <<pinUp, typed, lastDigit, attempts, held, readded>>

(***************************** customers' handlers *************************)

\* A customer's handler, or the login itself, takes the operator: he is
\* popped from the free set, or busy with a customer.
CustomerTakes ==
  /\ \E q \in memberOf \ held : held' = held \cup {q}
  /\ UNCHANGED <<pinPc, pinUp, typed, lastDigit, attempts, todo, memberOf, readded, pinResult>>

\* It puts him into the free set (connectNextCustomer, onCustomerHangup),
\* whether he logged out meanwhile or not.
CustomerReleases ==
  /\ \E q \in held :
       /\ held' = held \ {q}
       /\ memberOf' = memberOf \cup {q}
       /\ readded' = readded \cup ({q} \ memberOf)
  /\ UNCHANGED <<pinPc, pinUp, typed, lastDigit, attempts, todo, pinResult>>

PinNext ==
  \/ LoadPins \/ (\E d \in PinDigits \cup {"#"} : onPinDtmf(d)) \/ DigitGap \/ PinTimeout
  \/ ComparePin \/ WrongPin \/ LoginNext \/ startOperatorHoldAudio \/ HashPressed
  \/ OperatorLeaves \/ LogoutNext \/ CustomerTakes \/ CustomerReleases

-----------------------------------------------------------------------------
(* The logout undoes the login: when the node goes on, on whatever path,   *)
(* the operator is in a queue of his only if the handler of a customer put *)
(* him back during or after the logout (queueManager.ts:132).  An operator *)
(* is in a queue only after a PIN, typed in one attempt, that is an        *)
(* operator's.  (An error of Redis half way leaves the executor instead,   *)
(* with the other queues still logged in.)                                 *)
LogoutUndoesLogin ==
  /\ pinPc = "returned" => memberOf \subseteq readded
  /\ memberOf # {} => typed \in StaffPins
=============================================================================
