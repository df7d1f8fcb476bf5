------------------------------ MODULE Callback ------------------------------
(***************************************************************************)
(* One callback record: its row and the two requests on it in the backend  *)
(* (backend/src/callbacks/callbacks.service.ts), and the executions it is  *)
(* given in Stasis (stasis/src/callback-execute.ts) with the waiters their *)
(* legs are matched by (callbackManager.ts, and the callback-operator and  *)
(* callback-customer branches of StasisStart in index.ts).                 *)
(*                                                                         *)
(* executeCallback of the backend reads the row, awaits and writes it      *)
(* without a condition, so two requests may both find it pending, and two  *)
(* executions of one callback may run in Stasis at once.  They share the   *)
(* waiters, whose key is the callback and the leg and not the execution.   *)
(* Execution e dials its own operator and customer channel, both named e.  *)
(*                                                                         *)
(* Every await of the execution whose interleaving can be seen is a step.  *)
(* Hold audio and the published SIP traces are left out.  Redis delivers   *)
(* in order, but the backend handles each status update in an async        *)
(* callback on a pooled connection: the updates may reach the row in any   *)
(* order, and one that fails is logged and gone.                           *)
(***************************************************************************)
EXTENDS Naturals, Sequences

CONSTANT
  MaxExecutes  \* execute requests of users

ASSUME ExecutesAssumption == MaxExecutes \in Nat \ {0}

Executions == 1..MaxExecutes
Leg == {"operator", "customer"}

\* The awaits of an execution: the request in the backend, the message, then
\* for each leg the originate, its response, the wait for an answer and what
\* follows the wait, and the bridge.
BackendPc == {"idle", "update", "publish", "sent"}
LegPc == {"originate", "response", "wait", "answered", "unanswered"}
BridgePc == {"addOperator", "addCustomer", "talking", "ended", "done"}

Terminal == {"completed", "failed", "cancelled"}
Status == Terminal \cup {"pending", "dialing_operator", "dialing_customer", "bridged"}

VARIABLES
  status,     \* callbacks.status
  cancelPc,   \* the cancel request
  pc,         \* per execution, from the request to the end
  leg,        \* per execution: the leg it dials
  waiter,     \* per leg: the execution whose promise the map holds, 0 for none
  held,       \* per execution and leg: the channel its wait was answered with
  chan,       \* per leg and execution: the channel that it originated
  toBackend,  \* callback:status:update messages not applied, in order of sending
  astray      \* history: a final update was lost, or reached the row before an
              \* older one that is not final

vars == <<status, cancelPc, pc, leg, waiter, held, chan, toBackend, astray>>

CallbackTypeOK ==
  /\ status \in Status
  /\ cancelPc \in {"idle", "update", "done"}
  /\ pc \in [Executions -> BackendPc \cup LegPc \cup BridgePc]
  /\ leg \in [Executions -> Leg]
  /\ waiter \in [Leg -> Executions \cup {0}]
  /\ held \in [Executions -> [Leg -> Executions \cup {0}]]
  /\ chan \in [Leg -> [Executions -> {"none", "ringing", "up", "gone"}]]
  /\ toBackend \in Seq(Status)
  /\ astray \in BOOLEAN

\* The row was inserted as pending (handleCallbackCreated).
Init ==
  /\ status = "pending"
  /\ cancelPc = "idle"
  /\ pc = [e \in Executions |-> "idle"]
  /\ leg = [e \in Executions |-> "operator"]
  /\ waiter = [l \in Leg |-> 0]
  /\ held = [e \in Executions |-> [l \in Leg |-> 0]]
  /\ chan = [l \in Leg |-> [e \in Executions |-> "none"]]
  /\ toBackend = <<>>
  /\ astray = FALSE

Go(e, to) == pc' = [pc EXCEPT ![e] = to]

publishStatus(new) == toBackend' = Append(toBackend, new)

-----------------------------------------------------------------------------
(* The backend: executeCallback, cancelCallback, handleStatusUpdate.        *)

ExecuteRead(e) ==
  /\ pc[e] = "idle"
  /\ status = "pending"
  /\ Go(e, "update")
  /\ UNCHANGED <<status, cancelPc, leg, waiter, held, chan, toBackend, astray>>

ExecuteUpdate(e) ==
  /\ pc[e] = "update"
  /\ status' = "dialing_operator"
  /\ Go(e, "publish")
  /\ UNCHANGED <<cancelPc, leg, waiter, held, chan, toBackend, astray>>

ExecutePublish(e) ==
  /\ pc[e] = "publish"
  /\ Go(e, "sent")
  /\ UNCHANGED <<status, cancelPc, leg, waiter, held, chan, toBackend, astray>>

CancelRead ==
  /\ cancelPc = "idle"
  /\ status = "pending"
  /\ cancelPc' = "update"
  /\ UNCHANGED <<status, pc, leg, waiter, held, chan, toBackend, astray>>

CancelUpdate ==
  /\ cancelPc = "update"
  /\ cancelPc' = "done"
  /\ status' = "cancelled"
  /\ UNCHANGED <<pc, leg, waiter, held, chan, toBackend, astray>>

\* An older update that is not final has yet to reach the row.
OlderPending(i) == \E j \in 1..(i - 1) : toBackend[j] \notin Terminal

HandleStatusUpdate ==
  \E i \in 1..Len(toBackend) :
    /\ toBackend' = SubSeq(toBackend, 1, i - 1) \o SubSeq(toBackend, i + 1, Len(toBackend))
    /\ \/ /\ status' = toBackend[i]
          /\ astray' = (astray \/ (toBackend[i] \in Terminal /\ OlderPending(i)))
       \/ /\ astray' = (astray \/ toBackend[i] \in Terminal)   \* the UPDATE fails
          /\ UNCHANGED status
    /\ UNCHANGED <<cancelPc, pc, leg, waiter, held, chan>>

-----------------------------------------------------------------------------
(* executeCallback in Stasis, one leg after the other.                      *)

\* The end of an execution that publishes why it failed.
FailStatus(e) == publishStatus("failed") /\ Go(e, "done")

\* A customer target without a trunk, or a number that does not fit the
\* trunk's format, fails the callback before anything is dialed.
Receive(e) ==
  /\ pc[e] = "sent"
  /\ \/ Go(e, "originate") /\ UNCHANGED toBackend
     \/ FailStatus(e)
  /\ UNCHANGED <<status, cancelPc, leg, waiter, held, chan, astray>>

\* Asterisk creates the channel; the response is on its way.
Originate(e) ==
  /\ pc[e] = "originate"
  /\ chan' = [chan EXCEPT ![leg[e]][e] = "ringing"]
  /\ Go(e, "response")
  /\ UNCHANGED <<status, cancelPc, leg, waiter, held, toBackend, astray>>

\* Faulty variant: the catch block publishes nothing.
ExecutionThrowsSilently(e) ==
  /\ pc[e] \in {"originate", "response", "addOperator", "addCustomer"}
  /\ Go(e, "done")
  /\ UNCHANGED <<status, cancelPc, leg, waiter, held, chan, toBackend, astray>>

\* The catch block: a request to ARI failed or its response was lost.  The
\* legs that are up are not hung up.
ExecutionThrows(e) ==
  /\ pc[e] \in {"originate", "response", "addOperator", "addCustomer"}
  /\ FailStatus(e)
  /\ UNCHANGED <<status, cancelPc, leg, waiter, held, chan, astray>>

\* registerCallbackWaiter, after the originate returned; it replaces a waiter
\* of another execution.
Register(e) ==
  /\ pc[e] = "response"
  /\ waiter' = [waiter EXCEPT ![leg[e]] = e]
  /\ Go(e, "wait")
  /\ UNCHANGED <<status, cancelPc, leg, held, chan, toBackend, astray>>

\* Faulty variant: every execution that waits for the leg takes the channel.
LegEntersAll(e, l) ==
  /\ chan[l][e] = "ringing"
  /\ LET taking == {x \in Executions : pc[x] = "wait" /\ leg[x] = l} IN
     /\ chan' = [chan EXCEPT ![l][e] = IF taking = {} THEN "gone" ELSE "up"]
     /\ held' = [x \in Executions |->
                   IF x \in taking THEN [held[x] EXCEPT ![l] = e] ELSE held[x]]
     /\ pc' = [x \in Executions |-> IF x \in taking THEN "answered" ELSE pc[x]]
     /\ waiter' = [waiter EXCEPT ![l] = 0]
  /\ UNCHANGED <<status, cancelPc, leg, toBackend, astray>>

\* StasisStart of a leg: resolve the waiter of its callback, or hang up.
LegEnters(e, l) ==
  /\ chan[l][e] = "ringing"
  /\ LET w == waiter[l] IN
     IF w # 0
     THEN /\ chan' = [chan EXCEPT ![l][e] = "up"]
          /\ held' = [held EXCEPT ![w][l] = e]
          /\ waiter' = [waiter EXCEPT ![l] = 0]
          /\ Go(w, "answered")
     ELSE /\ chan' = [chan EXCEPT ![l][e] = "gone"]
          /\ UNCHANGED <<held, waiter, pc>>
  /\ UNCHANGED <<status, cancelPc, leg, toBackend, astray>>

\* Faulty variant: the timer settles its own promise, the map keeps it.
WaitTimeoutKeepsWaiter(e) ==
  /\ pc[e] = "wait"
  /\ Go(e, "unanswered")
  /\ UNCHANGED <<status, cancelPc, leg, waiter, held, chan, toBackend, astray>>

\* Faulty variant: the timer gives up if the map has no waiter to reject.
WaitTimeoutOwn(e) ==
  /\ pc[e] = "wait"
  /\ waiter[leg[e]] = e
  /\ waiter' = [waiter EXCEPT ![leg[e]] = 0]
  /\ Go(e, "unanswered")
  /\ UNCHANGED <<status, cancelPc, leg, held, chan, toBackend, astray>>

\* The 30 s timer settles its own promise and rejects the waiter that the map
\* holds for the leg, which may be that of another execution.
WaitTimeout(e) ==
  /\ pc[e] = "wait"
  /\ waiter' = [waiter EXCEPT ![leg[e]] = 0]
  /\ pc' = [x \in Executions |->
              IF x = e \/ x = waiter[leg[e]] THEN "unanswered" ELSE pc[x]]
  /\ UNCHANGED <<status, cancelPc, leg, held, chan, toBackend, astray>>

OperatorUnanswered(e) ==
  /\ pc[e] = "unanswered" /\ leg[e] = "operator"
  /\ FailStatus(e)
  /\ UNCHANGED <<status, cancelPc, leg, waiter, held, chan, astray>>

OperatorAnswered(e) ==
  /\ pc[e] = "answered" /\ leg[e] = "operator"
  /\ publishStatus("dialing_customer")
  /\ Go(e, "originate")
  /\ leg' = [leg EXCEPT ![e] = "customer"]
  /\ UNCHANGED <<status, cancelPc, waiter, held, chan, astray>>

\* hangup of the channel the execution holds for the leg; it may be gone.
HangUp(e, l) == chan' = [chan EXCEPT ![l][held[e][l]] = "gone"]

CustomerUnanswered(e) ==
  /\ pc[e] = "unanswered" /\ leg[e] = "customer"
  /\ HangUp(e, "operator")
  /\ FailStatus(e)
  /\ UNCHANGED <<status, cancelPc, leg, waiter, held, astray>>

CustomerAnswered(e) ==
  /\ pc[e] = "answered" /\ leg[e] = "customer"
  /\ publishStatus("bridged")
  /\ Go(e, "addOperator")
  /\ UNCHANGED <<status, cancelPc, leg, waiter, held, chan, astray>>

\* Create the bridge, add the operator, add the customer; a channel that is
\* gone makes the request fail (ExecutionThrows).
AddOperator(e) ==
  /\ pc[e] = "addOperator"
  /\ chan["operator"][held[e]["operator"]] = "up"
  /\ Go(e, "addCustomer")
  /\ UNCHANGED <<status, cancelPc, leg, waiter, held, chan, toBackend, astray>>

AddCustomer(e) ==
  /\ pc[e] = "addCustomer"
  /\ chan["customer"][held[e]["customer"]] = "up"
  /\ Go(e, "talking")
  /\ UNCHANGED <<status, cancelPc, leg, waiter, held, chan, toBackend, astray>>

(* A leg ends: the far end hangs up, or does not answer.  waitForChannelEnd *)
(* hears of it only while it listens.                                       *)
LegEnds(e, l) ==
  /\ chan[l][e] \in {"ringing", "up"}
  /\ chan' = [chan EXCEPT ![l][e] = "gone"]
  /\ pc' = [x \in Executions |->
              IF pc[x] = "talking" /\ held[x][l] = e THEN "ended" ELSE pc[x]]
  /\ UNCHANGED <<status, cancelPc, leg, waiter, held, toBackend, astray>>

\* Hang up the surviving leg, destroy the bridge, publish completed.
Complete(e) ==
  /\ pc[e] = "ended"
  /\ chan' = [l \in Leg |-> [chan[l] EXCEPT ![held[e][l]] = "gone"]]
  /\ publishStatus("completed")
  /\ Go(e, "done")
  /\ UNCHANGED <<status, cancelPc, leg, waiter, held, astray>>

-----------------------------------------------------------------------------
RequestStep(e) == ExecuteUpdate(e) \/ ExecutePublish(e)

ExecutionStep(e) ==
  \/ Receive(e)
  \/ Originate(e) \/ Register(e) \/ WaitTimeout(e)
  \/ ExecutionThrows(e)
  \/ OperatorUnanswered(e) \/ OperatorAnswered(e)
  \/ CustomerUnanswered(e) \/ CustomerAnswered(e)
  \/ AddOperator(e) \/ AddCustomer(e) \/ Complete(e)

Next ==
  \/ \E e \in Executions : ExecuteRead(e) \/ RequestStep(e) \/ ExecutionStep(e)
  \/ \E e \in Executions, l \in Leg : LegEnters(e, l) \/ LegEnds(e, l)
  \/ CancelRead \/ CancelUpdate \/ HandleStatusUpdate

\* Requests are answered, timers fire and messages are delivered.  Nobody has
\* to hang up.
Fairness ==
  /\ \A e \in Executions : WF_vars(RequestStep(e)) /\ WF_vars(ExecutionStep(e))
  /\ WF_vars(CancelUpdate)
  /\ WF_vars(HandleStatusUpdate)

Spec == Init /\ [][Next]_vars /\ Fairness

-----------------------------------------------------------------------------
(* A waiter in the map belongs to an execution that still waits for that    *)
(* leg, whichever of the executions' timers fired and whichever replaced    *)
(* the other's waiter: a leg that answers is taken by an execution that     *)
(* wants it, or is hung up as an orphan, and never left alone in Stasis.    *)
NoStaleWaiter ==
  \A l \in Leg : waiter[l] # 0 => pc[waiter[l]] = "wait" /\ leg[waiter[l]] = l

(* Channels are handed out once: no two executions hold the same leg, and   *)
(* the legs an execution bridges were answered.                             *)
LegsHeldOnce ==
  /\ \A e, f \in Executions, l \in Leg :
       held[e][l] # 0 /\ held[e][l] = held[f][l] => e = f
  /\ \A e \in Executions :
       pc[e] \in BridgePc \ {"done"} =>
         \A l \in Leg : held[e][l] # 0 /\ chan[l][held[e][l]] \in {"up", "gone"}

(* When every execution is over and every message handled, the row of a     *)
(* callback that left pending is final, although executions and a cancel    *)
(* write it without looking at it: unless a final update failed, or was     *)
(* applied before an older one that is not final, as the concurrent         *)
(* handlers of the subscriber allow.                                        *)
RowSettled ==
  /\ \A e \in Executions : pc[e] \in {"idle", "done"}
  /\ toBackend = <<>>
  /\ ~astray
  /\ status # "pending"
  => status \in Terminal

(* An execution that was requested ends or connects its two legs: the       *)
(* executions replace and reject each other's waiters, and none of them is  *)
(* left waiting for an answer.                                              *)
ExecutionSettles ==
  \A e \in Executions : pc[e] = "update" ~> pc[e] \in {"done", "talking"}

(* cancelCallback: "Only pending callbacks can be cancelled".               *)
CancelsOnlyPending ==
  [][status' = "cancelled" /\ status # "cancelled" => status = "pending"]_vars

-----------------------------------------------------------------------------
(* The inductive invariant behind them.                                     *)

\* A held channel has been answered; an execution holds a leg from its answer.
HeldAnswered ==
  /\ \A e \in Executions, l \in Leg :
       held[e][l] # 0 => chan[l][held[e][l]] \in {"up", "gone"}
  /\ \A e \in Executions :
       /\ leg[e] = "customer" => held[e]["operator"] # 0
       /\ pc[e] = "answered" => held[e][leg[e]] # 0
       /\ pc[e] \in BridgePc \ {"done"} => leg[e] = "customer" /\ held[e]["customer"] # 0

\* A leg has no channel before its originate.
FreshLegs ==
  \A e \in Executions :
    /\ pc[e] \in BackendPc \cup {"originate"} => chan[leg[e]][e] = "none"
    /\ leg[e] = "operator" => chan["customer"][e] = "none"

Quiet == \A e \in Executions : pc[e] \in {"idle", "done"}

\* With no execution under way the last message, or the row, is final.
LastIsFinal ==
  Quiet /\ ~astray =>
    IF toBackend = <<>>
    THEN status \in Terminal \cup {"pending"}
    ELSE toBackend[Len(toBackend)] \in Terminal
=============================================================================
