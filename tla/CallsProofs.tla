----------------------------- MODULE CallsProofs -----------------------------
(***************************************************************************)
(* Proofs about the components of Stasis that handle one call, for any     *)
(* calls, flows, digits, PINs and bounds.  Each component has an inductive *)
(* invariant that its own steps preserve; MCCalls runs the components side *)
(* by side, and the theorems are about that specification.                 *)
(***************************************************************************)
EXTENDS MCCalls, TLAPS

-----------------------------------------------------------------------------
(* The call log implements CallRecord.  The rows a handler finds: one that  *)
(* has an end or a reason exists.                                           *)
LogEvent ==
  [call : Calls, type : {"started", "ended", "failed"},
   origin : {"start", "flow", "catch", "end"}, step : {1, 2}]

LogInv ==
  /\ logEvents \subseteq LogEvent
  /\ row \in [Calls -> RowState]
  /\ \A c \in Calls : ~row[c].present => ~row[c].ended_at /\ row[c].end_reason = "null"

(* The events published are about calls, whatever publishes them.           *)
LEMMA PublishType ==
  ASSUME NEW c \in Calls, NEW type \in {"started", "ended", "failed"},
         NEW origin \in {"start", "flow", "catch", "end"},
         logEvents \subseteq LogEvent, publishCallEvent(c, type, origin)
  PROVE  logEvents' \subseteq LogEvent
BY DEF publishCallEvent, LogEvent

(* The steps of Stasis publish events and leave the log's rows alone.       *)
LEMMA StasisLogStep ==
  ASSUME LogInv, CallNext, ~\E e \in logEvents : HandleCallEvent(e)
  PROVE  LogInv' /\ row' = row
<1>1. ASSUME NEW c \in Calls,
             \/ StasisStart(c) \/ ListenerStep(c) \/ FlowReturns(c) \/ HangUp(c) \/ StasisEnd(c)
      PROVE  row' = row /\ logEvents' \subseteq LogEvent
  <2>1. row' = row
    BY <1>1 DEF StasisStart, ListenerStep, RouteFound, NoFlow, Answer, CreateBridge, AddChannel,
                FlowReturns, FlowFailed, CatchPublish, CatchUnbridge, CatchHangup, HangUp, StasisEnd
  <2>2. \/ logEvents' = logEvents
        \/ publishCallEvent(c, "started", "start")
        \/ publishCallEvent(c, "ended", "flow") \/ publishCallEvent(c, "failed", "flow")
        \/ publishCallEvent(c, "failed", "catch") \/ publishCallEvent(c, "ended", "end")
    BY <1>1 DEF StasisStart, ListenerStep, RouteFound, NoFlow, Answer, CreateBridge, AddChannel,
                FlowReturns, FlowFailed, CatchPublish, CatchUnbridge, CatchHangup, HangUp, StasisEnd
  <2>3. logEvents \subseteq LogEvent
    BY DEF LogInv
  <2> QED BY <2>1, <2>2, <2>3, PublishType
<1>2. GracefulShutdown \/ DrainEnds => row' = row /\ logEvents' = logEvents
  BY DEF GracefulShutdown, DrainEnds
<1>3. row' = row /\ logEvents' \subseteq LogEvent
  BY <1>1, <1>2 DEF CallNext, LogInv
<1> QED BY <1>3 DEF LogInv

\* The refinement mapping, under names.
outcomeOf(r) == IF ~r.present THEN "absent"
                ELSE IF r.end_reason = "null" THEN "open" ELSE r.end_reason
Outcome == [c \in Calls |-> outcomeOf(row[c])]
Closed == {c \in Calls : row[c].ended_at}

(* A statement of the listener is a step of the record, or changes nothing. *)
LEMMA HandlerLogStep ==
  ASSUME LogInv, NEW e \in logEvents, HandleCallEvent(e)
  PROVE  LogInv' /\ [Record!RecordNext]_(Record!recordVars)
<1> DEFINE c == e.call
<1>1. c \in Calls /\ e \in LogEvent
  BY DEF LogInv, LogEvent
<1>2. row[c] \in RowState /\ row \in [Calls -> RowState]
  BY <1>1 DEF LogInv
<1>3. logEvents' \subseteq LogEvent
  <2>1. [e EXCEPT !.step = 2] \in LogEvent
    BY <1>1 DEF LogEvent
  <2> QED BY <2>1 DEF LogInv, HandleCallEvent, handleCallStarted, handleCallEndedAt,
              handleCallEndedReason, handleCallFailed, handlerFails, Consumed
<1> DEFINE put(r) == row' = [row EXCEPT ![c] = r]
           opened == [row[c] EXCEPT !.present = TRUE]
           ended == [row[c] EXCEPT !.ended_at = TRUE]
           reasoned == [row[c] EXCEPT !.end_reason = "completed"]
           failure == [present |-> TRUE, ended_at |-> TRUE, end_reason |-> "failed"]
<1>4. \/ row' = row
      \/ ~row[c].present /\ put(opened)
      \/ row[c].present /\ put(ended)
      \/ row[c].present /\ row[c].end_reason = "null" /\ put(reasoned)
      \/ ~row[c].ended_at /\ put(failure)
  BY DEF HandleCallEvent, handleCallStarted, handleCallEndedAt, handleCallEndedReason,
         handleCallFailed, handlerFails
<1>5. opened \in RowState /\ ended \in RowState /\ reasoned \in RowState /\ failure \in RowState
  BY <1>2 DEF RowState
<1> HIDE DEF opened, ended, reasoned, failure, c
<1>6. CASE row' = row
  BY <1>3, <1>6 DEF LogInv, Record!recordVars
<1>7. ASSUME NEW r \in RowState, put(r),
             ~r.present => ~r.ended_at /\ r.end_reason = "null"
      PROVE  /\ LogInv'
             /\ Outcome' = [Outcome EXCEPT ![c] = outcomeOf(r)]
             /\ \A x : x \in Closed' <=> IF x = c THEN r.ended_at ELSE x \in Closed
  <2>1. \A x \in Calls : row'[x] = IF x = c THEN r ELSE row[x]
    BY <1>2, <1>7
  <2>2. row' \in [Calls -> RowState]
    BY <1>2, <1>7
  <2>3. LogInv'
    BY <1>3, <1>7, <2>1, <2>2 DEF LogInv
  <2>4. Outcome' = [x \in Calls |-> IF x = c THEN outcomeOf(r) ELSE outcomeOf(row[x])]
    BY <2>1 DEF Outcome, outcomeOf
  <2>5. \A x : x \in Closed' <=> IF x = c THEN r.ended_at ELSE x \in Closed
    BY <1>1, <2>1 DEF Closed
  <2> QED BY <2>3, <2>4, <2>5 DEF Outcome
<1>8. Outcome[c] = outcomeOf(row[c]) /\ (c \in Closed <=> row[c].ended_at)
  BY <1>1 DEF Outcome, Closed, c
<1>9. CASE ~row[c].present /\ put(opened)
  <2>1. opened.present /\ opened.ended_at = row[c].ended_at /\ opened.end_reason = "null"
    BY <1>1, <1>2, <1>9 DEF LogInv, opened, RowState, c
  <2>2. /\ LogInv'
        /\ Outcome' = [Outcome EXCEPT ![c] = "open"]
        /\ Closed' = Closed
    <3>1. outcomeOf(opened) = "open" /\ (opened.ended_at <=> c \in Closed)
      BY <1>8, <2>1 DEF outcomeOf
    <3>2. /\ LogInv'
          /\ Outcome' = [Outcome EXCEPT ![c] = outcomeOf(opened)]
          /\ \A x : x \in Closed' <=> IF x = c THEN opened.ended_at ELSE x \in Closed
      BY <1>5, <1>7, <1>9, <2>1
    <3> QED BY <3>1, <3>2
  <2>3. Outcome[c] = "absent"
    BY <1>8, <1>9 DEF outcomeOf
  <2>4. Record!Open(c)
    BY <2>2, <2>3 DEF Record!Open, Outcome, Closed, outcomeOf
  <2> QED BY <1>1, <2>2, <2>4 DEF Record!RecordNext
<1>10. CASE row[c].present /\ put(ended)
  <2>1. ended.present /\ ended.ended_at /\ ended.end_reason = row[c].end_reason
    BY <1>2, <1>10 DEF ended, RowState
  <2>2. outcomeOf(ended) = outcomeOf(row[c])
    BY <1>10, <2>1 DEF outcomeOf
  <2>3. LogInv' /\ Outcome' = Outcome /\ Closed' = Closed \cup {c}
    <3>1. /\ LogInv'
          /\ Outcome' = [Outcome EXCEPT ![c] = Outcome[c]]
          /\ \A x : x \in Closed' <=> IF x = c THEN ended.ended_at ELSE x \in Closed
      BY <1>5, <1>7, <1>8, <1>10, <2>1, <2>2
    <3>2. Closed' = Closed \cup {c}
      BY <2>1, <3>1
    <3> QED BY <3>1, <3>2 DEF Outcome
  <2>4. CASE c \in Closed
    <3>1. Closed' = Closed
      BY <2>3, <2>4
    <3>2. UNCHANGED Record!recordVars
      BY <2>3, <3>1 DEF Outcome, Closed, outcomeOf, Record!recordVars
    <3> QED BY <2>3, <3>2
  <2>5. CASE c \notin Closed
    <3>1. Outcome[c] # "absent"
      BY <1>2, <1>8, <1>10 DEF outcomeOf, RowState
    <3>2. Record!Close(c)
      BY <2>3, <2>5, <3>1 DEF Record!Close, Outcome, Closed, outcomeOf
    <3> QED BY <1>1, <2>3, <3>2 DEF Record!RecordNext
  <2> QED BY <2>4, <2>5
<1>11. CASE row[c].present /\ row[c].end_reason = "null" /\ put(reasoned)
  <2>1. /\ reasoned.present /\ reasoned.ended_at = row[c].ended_at
        /\ reasoned.end_reason = "completed"
    BY <1>2, <1>11 DEF reasoned, RowState
  <2>2. /\ LogInv'
        /\ Outcome' = [Outcome EXCEPT ![c] = "completed"]
        /\ Closed' = Closed
    BY <1>5, <1>7, <1>8, <1>11, <2>1, ZenonT(40) DEF outcomeOf
  <2>3. Outcome[c] = "open"
    BY <1>8, <1>11 DEF outcomeOf
  <2>4. Record!Complete(c)
    BY <2>2, <2>3 DEF Record!Complete, Outcome, Closed, outcomeOf
  <2> QED BY <1>1, <2>2, <2>4 DEF Record!RecordNext
<1>12. CASE ~row[c].ended_at /\ put(failure)
  <2>1. failure.present /\ failure.ended_at /\ failure.end_reason = "failed"
    BY DEF failure
  <2>2. /\ LogInv'
        /\ Outcome' = [Outcome EXCEPT ![c] = "failed"]
        /\ Closed' = Closed \cup {c}
    BY <1>5, <1>7, <1>8, <1>12, <2>1 DEF outcomeOf
  <2>3. Record!Fail(c)
    BY <1>8, <1>12, <2>2 DEF Record!Fail, Outcome, Closed, outcomeOf
  <2> QED BY <1>1, <2>2, <2>3 DEF Record!RecordNext
<1> QED BY <1>4, <1>6, <1>9, <1>10, <1>11, <1>12

-----------------------------------------------------------------------------
(* Side by side, a step is a step of one component and no step of another.  *)
LEMMA CallsStep ==
  ASSUME [CallsNext]_callsVars
  PROVE  /\ [CallNext]_callVars /\ [DirectNext]_dialVars /\ [FlowNext]_flowVars
         /\ [InputNext]_inputVars /\ [HuntNext]_huntVars /\ [TransferNext]_trVars
         /\ [ConfNext]_confVars /\ [CallbackNodeNext]_cbVars /\ [PinNext]_pinVars
BY DEF CallsNext, callsVars, Only

(* The call log promises what CallRecord says (call-logs.listener.ts):      *)
(* for any number of calls, and events lost, doubled or handled in any      *)
(* order, a record is opened once and closed once, a failed call never      *)
(* becomes a completed one and a closed one never fails.                    *)
THEOREM CallLogRecordsHolds == CallsSpec => CallLogRecords
<1>1. CallsInit => LogInv
  <2> SUFFICES ASSUME CallsInit PROVE LogInv
    OBVIOUS
  <2>1. CallInit
    BY DEF CallsInit
  <2>2. [present |-> FALSE, ended_at |-> FALSE, end_reason |-> "null"] \in RowState
    BY DEF RowState
  <2> QED BY <2>1, <2>2 DEF CallInit, LogInv
<1>2. CallsInit => Record!RecordInit
  BY DEF CallsInit, CallInit, Record!RecordInit
<1>3. LogInv /\ [CallsNext]_callsVars => LogInv' /\ [Record!RecordNext]_(Record!recordVars)
  <2> SUFFICES ASSUME LogInv, [CallNext]_callVars
               PROVE  LogInv' /\ [Record!RecordNext]_(Record!recordVars)
    BY CallsStep
  <2>1. CASE \E e \in logEvents : HandleCallEvent(e)
    BY <2>1, HandlerLogStep
  <2>2. CASE CallNext /\ ~\E e \in logEvents : HandleCallEvent(e)
    <3>1. LogInv' /\ row' = row
      BY <2>2, StasisLogStep
    <3> QED BY <3>1 DEF Record!recordVars
  <2>3. CASE UNCHANGED callVars
    BY <2>3 DEF LogInv, callVars, Record!recordVars
  <2> QED BY <2>1, <2>2, <2>3
<1> QED BY <1>1, <1>2, <1>3, PTL DEF CallsSpec, CallLogRecords, Record!RecordSpec

-----------------------------------------------------------------------------
(* The login node.  Where the operator is in a queue, or a customer's       *)
(* handler has taken him, the PIN that let him in is still in typed; the    *)
(* nodes before the login are in none, and the loop of the logout leaves a  *)
(* queue only to those handlers.                                            *)
PinInv ==
  /\ memberOf \cup held \subseteq PinQueues
  /\ pinPc \in {"load", "wait", "check", "wrong"} => memberOf \cup held = {}
  /\ pinPc \in {"login", "audio", "hold", "logout"} \/ memberOf \cup held # {} =>
       typed \in StaffPins
  /\ pinPc = "logout" => memberOf \subseteq todo \cup readded
  /\ pinPc = "returned" => memberOf \subseteq readded
  /\ todo \subseteq PinQueues

(* Every step of the login node preserves it.                               *)
LEMMA PinInvStep ==
  ASSUME PinInv, [PinNext]_pinVars
  PROVE  PinInv'
<1> USE DEF PinInv, Goes, routeBackToMenuOnFailure, Settle, memberVars
<1>1. CASE LoadPins
  BY <1>1 DEF LoadPins
<1>2. ASSUME NEW d \in PinDigits \cup {"#"}, onPinDtmf(d)
      PROVE  PinInv'
  BY <1>2 DEF onPinDtmf
<1>3. CASE DigitGap \/ PinTimeout
  BY <1>3 DEF DigitGap, PinTimeout
<1>4. CASE ComparePin
  BY <1>4 DEF ComparePin
<1>5. CASE WrongPin
  BY <1>5 DEF WrongPin
<1>6. CASE LoginNext
  BY <1>6 DEF LoginNext
<1>7. CASE startOperatorHoldAudio \/ HashPressed
  BY <1>7 DEF startOperatorHoldAudio, HashPressed, HoldEnds
<1>8. CASE OperatorLeaves
  BY <1>8 DEF OperatorLeaves, HoldEnds
<1>9. CASE LogoutNext
  BY <1>9 DEF LogoutNext
<1>10. CASE CustomerTakes
  BY <1>10 DEF CustomerTakes
<1>11. CASE CustomerReleases
  BY <1>11 DEF CustomerReleases
<1>12. CASE UNCHANGED pinVars
  BY <1>12 DEF pinVars, memberVars
<1> QED BY <1>1, <1>2, <1>3, <1>4, <1>5, <1>6, <1>7, <1>8, <1>9, <1>10, <1>11, <1>12 DEF PinNext

(* When the login node goes on the operator is in no queue of its but those *)
(* a customer's handler put him back into (queueManager.ts:132), and an     *)
(* operator is in a queue only after typing an operator's PIN               *)
(* (queue_login.executor.ts): for any PINs, attempts and queues.            *)
THEOREM LogoutUndoesLoginHolds == CallsSpec => []LogoutUndoesLogin
<1>1. CallsInit => PinInv
  BY DEF CallsInit, PinInit, PinInv
<1>2. PinInv /\ [CallsNext]_callsVars => PinInv'
  BY CallsStep, PinInvStep
<1>3. PinInv => LogoutUndoesLogin
  BY DEF PinInv, LogoutUndoesLogin
<1> QED BY <1>1, <1>2, <1>3, PTL DEF CallsSpec

-----------------------------------------------------------------------------
(* The callback node.  The flag published says whether a request was sent,  *)
(* and the requests sent are those for which rows may come.                 *)
RequestStates == {"lookup", "collect", "publish", "timedOut"}

CallbackInv ==
  /\ sent = <<>> \/ \E n : sent = <<n>>
  /\ published <=> sent # <<>>
  /\ cbPc \in RequestStates => ~published
  /\ cbPc \in {"confirm", "confirming", "hangup"} => published
  /\ sent = <<"number">> => customerNumber = "number" \/ cbPstn
  /\ \/ cbRows = <<>>
     \/ \E r : cbRows = <<r>> /\ sent # <<>> /\ (r = "pending" => sent = <<"number">>)

(* Every step of the callback node and of the backend preserves it.         *)
LEMMA CallbackInvStep ==
  ASSUME CallbackInv, [CallbackNodeNext]_cbVars
  PROVE  CallbackInv'
<1> USE DEF CallbackInv, RequestStates, CallbackSettings
<1>1. CASE executeCallbackNode
  BY <1>1 DEF executeCallbackNode
<1>2. CASE collectDtmfDigits
  BY <1>2 DEF collectDtmfDigits
<1>3. CASE CallbackCallerLeaves \/ CallbackCallerEnds
  BY <1>3 DEF CallbackCallerLeaves, CallbackCallerEnds
<1>4. CASE PublishRequest
  <2>1. sent = <<>> /\ ~published /\ cbRows = <<>> /\ UNCHANGED <<cbRows, customerNumber, cbPstn>>
    BY <1>4 DEF PublishRequest
  <2>2. CASE UNCHANGED <<sent, published>> /\ cbPc' = "failed"
    BY <2>1, <2>2
  <2>3. ASSUME NEW n, sent' = Append(sent, n), published' = TRUE, cbPc' = "confirm",
               n = "number" => customerNumber = "number" \/ cbPstn
        PROVE  CallbackInv'
    <3>1. sent' = <<n>>
      BY <2>1, <2>3
    <3> QED BY <2>1, <2>3, <3>1
  <2> QED BY <1>4, <2>2, <2>3 DEF PublishRequest, publishCreated
<1>5. CASE Confirm \/ HangUpCaller
  BY <1>5 DEF Confirm, HangUpCaller
<1>6. CASE PublishFailure
  <2>1. CASE published
    BY <1>6, <2>1 DEF PublishFailure
  <2>2. CASE ~published
    <3>1. sent = <<>> /\ cbRows = <<>> /\ UNCHANGED <<cbRows, customerNumber, cbPstn>>
      BY <1>6, <2>2 DEF PublishFailure
    <3>2. CASE UNCHANGED <<sent, published>> /\ cbPc' = "returned"
      BY <2>2, <3>1, <3>2
    <3>3. CASE sent' = Append(sent, "none") /\ published' = TRUE /\ cbPc' = "hangup"
      <4>1. sent' = <<"none">>
        BY <3>1, <3>3
      <4> QED BY <3>1, <3>3, <4>1
    <3> QED BY <1>6, <2>2, <3>2, <3>3 DEF PublishFailure, publishCreated
  <2> QED BY <2>1, <2>2
<1>7. CASE handleCallbackCreated
  <2>1. cbRows = <<>> /\ sent # <<>> /\ sent[1] = sent[Len(cbRows) + 1]
    BY <1>7 DEF handleCallbackCreated
  <2>2. PICK n : sent = <<n>>
    BY <2>1
  <2>3. PICK r : cbRows' = Append(cbRows, r) /\ (r = "pending" => n = "number")
    BY <1>7, <2>1, <2>2 DEF handleCallbackCreated, normalizeCustomerNumber
  <2>4. cbRows' = <<r>>
    BY <2>1, <2>3
  <2> QED BY <1>7, <2>2, <2>3, <2>4 DEF handleCallbackCreated
<1>8. CASE UNCHANGED cbVars
  BY <1>8 DEF cbVars
<1> QED BY <1>1, <1>2, <1>3, <1>4, <1>5, <1>6, <1>7, <1>8 DEF CallbackNodeNext

-----------------------------------------------------------------------------
(* The flow interpreter.  Until runFlow returns nothing is published; from  *)
(* then on the interpreter does not move.                                   *)
FlowRunning == flowPc # "returned" /\ flowStatus = "running" /\ flowEvents = <<>>

FlowReturned ==
  /\ flowPc = "returned"
  /\ flowEvents = <<IF flowStatus = "failed" THEN "failed" ELSE "ended">>
  /\ flowStatus = "completed" /\ channelUp => Type = "queue_login" /\ nodeResult = "authenticated"

FlowInv == FlowRunning \/ FlowReturned

(* runFlow returns as failed, or hung up, or with an operator logged in.    *)
LEMMA ReturnedInv ==
  ASSUME FlowRunning, NEW status, Returned(status),
         \/ status = "failed"
         \/ channelUp' = FALSE
         \/ Type' = "queue_login" /\ nodeResult' = "authenticated"
  PROVE  FlowReturned'
<1>1. flowEvents' = <<IF status = "failed" THEN "failed" ELSE "ended">>
  BY DEF FlowRunning, Returned
<1> QED BY <1>1 DEF FlowReturned, Returned

(* Going on to a node leaves runFlow running.                               *)
LEMMA GoOnInv ==
  ASSUME FlowRunning, NEW f, NEW k, NEW stack, GoOn(f, k, stack)
  PROVE  FlowRunning'
BY DEF GoOn, FlowRunning

(* The way back to a parent flow goes on there, or returns.                 *)
LEMMA ParentInv ==
  ASSUME FlowRunning, NEW status, ReturnToParentElse(status),
         status = "failed" \/ channelUp' = FALSE
  PROVE  FlowInv'
<1>1. CASE Returned(status)
  BY <1>1, ReturnedInv DEF FlowInv
<1>2. ASSUME NEW f, NEW k, NEW stack, GoOn(f, k, stack)
      PROVE  FlowInv'
  BY <1>2, GoOnInv DEF FlowInv
<1> QED BY <1>1, <1>2 DEF ReturnToParentElse

(* Every step of the interpreter preserves the invariant.                   *)
LEMMA FlowInvStep ==
  ASSUME FlowInv, [FlowNext]_flowVars
  PROVE  FlowInv'
<1>1. CASE UNCHANGED flowVars
  BY <1>1 DEF flowVars, FlowInv, FlowRunning, FlowReturned, Type, TypeOf
<1>2. CASE FlowNext
  <2>1. FlowRunning
    BY <1>2 DEF FlowNext, FlowInv, FlowReturned, EnterNode, ExecuteNode, RouteDone, RouteHangup,
                RouteNamed, RouteEdge, RouteBranchSubflow, RouteBranchTarget, RouteLoggedIn,
                RouteDeadEndPlay, RouteDeadEnd, NoWayOn, Ordinary, Routing
  <2>2. ASSUME NEW f, NEW k, NEW stack, GoOn(f, k, stack)
        PROVE  FlowInv'
    BY <2>1, <2>2, GoOnInv DEF FlowInv
  <2>3. ASSUME Returned("failed")
        PROVE  FlowInv'
    BY <2>1, <2>3, ReturnedInv DEF FlowInv
  <2>4. ASSUME ReturnToParentElse("failed")
        PROVE  FlowInv'
    BY <2>1, <2>4, ParentInv
  <2>5. CASE EnterNode
    <3>1. CASE currentNode \in Keys(currentFlow)
      BY <2>1, <2>5, <3>1 DEF EnterNode, FlowInv, FlowRunning
    <3>2. CASE currentNode \notin Keys(currentFlow)
      BY <2>4, <2>5, <3>2 DEF EnterNode
    <3> QED BY <3>1, <3>2
  <2>6. CASE ExecuteNode
    BY <2>1, <2>6 DEF ExecuteNode, FlowInv, FlowRunning
  <2>7. CASE RouteDone
    <3>1. CASE channelUp' = FALSE /\ Returned(finalStatus)
      BY <2>1, <3>1, ReturnedInv DEF FlowInv
    <3> QED BY <2>2, <2>3, <2>7, <3>1 DEF RouteDone
  <2>8. CASE RouteHangup
    BY <2>1, <2>8, ParentInv DEF RouteHangup
  <2>9. CASE RouteNamed
    BY <2>2, <2>9 DEF RouteNamed
  <2>10. CASE RouteEdge
    <3>1. PICK e \in NextEdges :
            \/ GoOn(currentFlow, e.to, flowStack)
            \/ ReturnToParentElse("failed")
            \/ \E f, k, stack : GoOn(f, k, stack)
      BY <2>10 DEF RouteEdge, Push
    <3> QED BY <2>2, <2>4, <3>1
  <2>11. CASE RouteBranchSubflow
    BY <2>2, <2>3, <2>11 DEF RouteBranchSubflow, Push
  <2>12. CASE RouteBranchTarget
    BY <2>2, <2>3, <2>12 DEF RouteBranchTarget, Push
  <2>13. CASE RouteLoggedIn
    <3>1. Type' = Type /\ nodeResult' = nodeResult
      BY <2>13 DEF RouteLoggedIn, NoWayOn, Ordinary, Routing, Stay, Type, TypeOf
    <3>2. Type = "queue_login" /\ nodeResult = "authenticated" /\ Returned(finalStatus)
      BY <2>13 DEF RouteLoggedIn
    <3> QED BY <2>1, <3>1, <3>2, ReturnedInv DEF FlowInv
  <2>14. CASE RouteDeadEndPlay
    BY <2>1, <2>14, ReturnedInv DEF RouteDeadEndPlay, FlowInv
  <2>15. CASE RouteDeadEnd
    BY <2>4, <2>15 DEF RouteDeadEnd
  <2> QED BY <1>2, <2>5, <2>6, <2>7, <2>8, <2>9, <2>10, <2>11, <2>12, <2>13, <2>14, <2>15
          DEF FlowNext
<1> QED BY <1>1, <1>2

(* Whatever the flows, their edges and subflows: a flow that ends as        *)
(* completed has hung up, but for an operator who has logged in, and        *)
(* runFlow publishes its outcome once (runtime.ts).                         *)
THEOREM CompletedFlowHangsUpHolds == CallsSpec => []CompletedFlowHangsUp
<1>1. CallsInit => FlowInv
  BY DEF CallsInit, FlowInit, FlowInv, FlowRunning
<1>2. FlowInv /\ [CallsNext]_callsVars => FlowInv'
  BY CallsStep, FlowInvStep
<1>3. FlowInv => CompletedFlowHangsUp
  BY DEF FlowInv, FlowRunning, FlowReturned, CompletedFlowHangsUp
<1> QED BY <1>1, <1>2, <1>3, PTL DEF CallsSpec

-----------------------------------------------------------------------------
(* The menu node.  It hears every key once, so what it has collected is     *)
(* what was pressed in this attempt, and an attempt that settled with a     *)
(* branch holds that branch's digits until the node returns.                *)
MenuInv ==
  inputNode = "menu" =>
    /\ collected = pressedKeys
    /\ inputPc = "settled" /\ attemptResult = "digits" => collected \in branches
    /\ inputPc = "returned" /\ inputResult = "digits" => collected \in branches

(* Every step of the node preserves it.                                     *)
LEMMA MenuInvStep ==
  ASSUME MenuInv, [InputNext]_inputVars
  PROVE  MenuInv'
<1> USE DEF MenuInv, inputConfig
<1>1. CASE StartNode \/ BeginAttempt \/ PromptEnds
  BY <1>1 DEF StartNode, BeginAttempt, PromptEnds
<1>2. ASSUME NEW d \in Digits, onDtmf(d)
      PROVE  MenuInv'
  <2> SUFFICES ASSUME inputNode = "menu"
               PROVE  MenuInv'
    BY <1>2 DEF onDtmf
  <2>1. collected' = Append(collected, d) /\ pressedKeys' = Append(pressedKeys, d)
    BY <1>2 DEF onDtmf, listeners
  <2>2. \/ settle(resolveMenuDigit(Append(collected, d)))
        \/ inputPc' = inputPc /\ inputPc \in {"prompting", "listening"}
    BY <1>2 DEF onDtmf, listeners, Waiting
  <2> QED BY <1>2, <2>1, <2>2 DEF onDtmf, settle, resolveMenuDigit
<1>3. CASE InterDigitTimeout \/ InputTimeout
  BY <1>3 DEF InterDigitTimeout, InputTimeout, settle, resolveMenuDigit
<1>4. CASE CallerLeaves \/ onHangup
  BY <1>4 DEF CallerLeaves, onHangup, settle
<1>5. CASE afterAttempt
  BY <1>5 DEF afterAttempt, InputReturns
<1>6. CASE UNCHANGED inputVars
  BY <1>6 DEF inputVars
<1> QED BY <1>1, <1>2, <1>3, <1>4, <1>5, <1>6 DEF InputNext

(* A branch the menu returns is what the caller pressed in that attempt,    *)
(* key for key (menu.executor.ts): for any digits, branches, attempts and   *)
(* number of presses.                                                       *)
THEOREM MenuAsPressedHolds == CallsSpec => []MenuAsPressed
<1>1. CallsInit => MenuInv
  BY DEF CallsInit, InputInit, MenuInv
<1>2. MenuInv /\ [CallsNext]_callsVars => MenuInv'
  BY CallsStep, MenuInvStep
<1>3. MenuInv => MenuAsPressed
  BY DEF MenuInv, MenuAsPressed
<1> QED BY <1>1, <1>2, <1>3, PTL DEF CallsSpec
-----------------------------------------------------------------------------
(* Direct outbound calls.  The outbound leg is recorded only after it       *)
(* answered, so it cannot come up again; the leg whose end started the      *)
(* cleanup is gone; and past its hangups the cleanup has left no leg up     *)
(* that it knew of when it started.                                         *)
CallFields == [bridgeId : BOOLEAN, outboundChannelId : BOOLEAN, answeredAt : BOOLEAN,
               cleanupStarted : BOOLEAN, blind : BOOLEAN]

DirectInv ==
  /\ call \in CallFields
  /\ call.outboundChannelId =>
       doWaiter = "answered" /\ dialPc \in {"bridge", "addIn", "addOut", "record", "done"}
  /\ "out" \in tracked => call.outboundChannelId
  /\ cleanPc # "none" => call.cleanupStarted
  /\ call.cleanupStarted /\ ~call.blind => call.outboundChannelId
  /\ ending = "in" => inLeg \in {"dead", "gone"}
  /\ ending = "out" => outLeg = "gone"
  /\ cleanPc \in {"publish", "done"} =>
       inLeg # "up" /\ (call.outboundChannelId /\ ~call.blind => outLeg # "up")

(* Every step of a direct call preserves it.                                *)
LEMMA DirectInvStep ==
  ASSUME DirectInv, [DirectNext]_dialVars
  PROVE  DirectInv'
<1> USE DEF DirectInv, CallFields, HangLeg, Hung
<1>1. CASE Lookup
  BY <1>1 DEF Lookup
<1>2. CASE FormatNumber
  BY <1>2 DEF FormatNumber, StartCleanup
<1>3. CASE OriginateSent \/ OriginateAnswered \/ WaitTimesOut
  BY <1>3 DEF OriginateSent, OriginateAnswered, WaitTimesOut
<1>4. CASE WaitResult
  BY <1>4 DEF WaitResult, StartCleanup
<1>5. CASE BridgeRefused
  BY <1>5 DEF BridgeRefused, StartCleanup
<1>6. CASE BridgeStep
  BY <1>6 DEF BridgeStep
<1>7. CASE RecordStarted
  BY <1>7 DEF RecordStarted, StartCleanup
<1>8. CASE OutboundMoves \/ OutboundEnters \/ PartyHangsUp
  BY <1>8 DEF OutboundMoves, OutboundEnters, PartyHangsUp
<1>9. CASE InboundEnds
  BY <1>9 DEF InboundEnds, StartCleanup
<1>10. CASE OutboundEnds
  BY <1>10 DEF OutboundEnds, StartCleanup
<1>11. CASE CleanBridge
  BY <1>11 DEF CleanBridge
<1>12. CASE CleanHangup
  BY <1>12 DEF CleanHangup
<1>13. CASE CleanPublish
  BY <1>13 DEF CleanPublish
<1>14. CASE UNCHANGED dialVars
  BY <1>14 DEF dialVars
<1> QED BY <1>1, <1>2, <1>3, <1>4, <1>5, <1>6, <1>7, <1>8, <1>9, <1>10, <1>11, <1>12, <1>13,
           <1>14 DEF DirectNext, DialHandler, DialCleanup

(* The outcome of a direct call.  It is published at the end of the cleanup, *)
(* which an announced call has had or will have at the end of a leg it       *)
(* tracks; a caller who goes before the call is tracked cannot be bridged.   *)
AnnouncedInv ==
  /\ doEvents \in [started : {0, 1}, ended : Nat, failed : Nat]
  /\ doEvents.ended + doEvents.failed = IF cleanPc = "done" THEN 1 ELSE 0
  /\ call.cleanupStarted <=> cleanPc # "none"
  /\ dialPc = "lookup" => doEvents.started = 0
  /\ doEvents.started = 0 =>
       dialPc \in {"lookup", "done"} /\ tracked = {} /\ ~call.cleanupStarted
  /\ doEvents.started = 1 => "in" \in tracked \/ call.cleanupStarted
  /\ doEvents.started = 1 /\ dialPc \in {"addOut", "record", "done"} /\ inLeg = "gone"
       => call.cleanupStarted

(* Every step of a direct call preserves it.                                *)
LEMMA AnnouncedInvStep ==
  ASSUME DirectInv, AnnouncedInv, [DirectNext]_dialVars
  PROVE  AnnouncedInv'
<1> USE DEF AnnouncedInv
<1> call \in CallFields
  BY DEF DirectInv
<1> USE DEF CallFields, HangLeg, Hung
<1>1. CASE Lookup
  <2>1. CASE UNCHANGED doEvents
    BY <1>1, <2>1 DEF Lookup
  <2>2. CASE doEvents' = [doEvents EXCEPT !.started = @ + 1]
    BY <1>1, <2>2 DEF Lookup
  <2> QED BY <1>1, <2>1, <2>2 DEF Lookup
<1>2. CASE FormatNumber
  BY <1>2 DEF FormatNumber, StartCleanup
<1>3. CASE OriginateSent \/ OriginateAnswered \/ WaitTimesOut
  BY <1>3 DEF OriginateSent, OriginateAnswered, WaitTimesOut
<1>4. CASE WaitResult
  BY <1>4 DEF WaitResult, StartCleanup
<1>5. CASE BridgeRefused
  BY <1>5 DEF BridgeRefused, StartCleanup
<1>6. CASE BridgeStep
  BY <1>6 DEF BridgeStep
<1>7. CASE RecordStarted
  BY <1>7 DEF RecordStarted, StartCleanup
<1>8. CASE OutboundMoves \/ OutboundEnters \/ PartyHangsUp
  BY <1>8 DEF OutboundMoves, OutboundEnters, PartyHangsUp
<1>9. CASE InboundEnds
  BY <1>9 DEF InboundEnds, StartCleanup
<1>10. CASE OutboundEnds
  BY <1>10 DEF OutboundEnds, StartCleanup
<1>11. CASE CleanBridge
  BY <1>11 DEF CleanBridge
<1>12. CASE CleanHangup
  BY <1>12 DEF CleanHangup
<1>13. CASE CleanPublish
  BY <1>13 DEF CleanPublish
<1>14. CASE UNCHANGED dialVars
  BY <1>14 DEF dialVars
<1> QED BY <1>1, <1>2, <1>3, <1>4, <1>5, <1>6, <1>7, <1>8, <1>9, <1>10, <1>11, <1>12, <1>13,
           <1>14 DEF DirectNext, DialHandler, DialCleanup

(* An announced direct call gets one outcome, never two, and has it when    *)
(* everybody who could publish one is done (cleanupDirectOutboundCall); a   *)
(* caller's request for a callback is sent and recorded once, whenever he   *)
(* hangs up (callback.executor.ts), and its row is pending only if a number *)
(* was given (callbacks.service.ts).                                        *)
THEOREM PublishedOnceHolds == CallsSpec => []PublishedOnce
<1>1. CallsInit => DirectInv /\ AnnouncedInv
  BY DEF CallsInit, DialInit, DirectInv, CallFields, AnnouncedInv
<1>2. DirectInv /\ AnnouncedInv /\ [CallsNext]_callsVars => DirectInv' /\ AnnouncedInv'
  BY CallsStep, DirectInvStep, AnnouncedInvStep
<1>3. CallsInit => CallbackInv
  BY DEF CallsInit, CallbackNodeInit, CallbackInv
<1>4. CallbackInv /\ [CallsNext]_callsVars => CallbackInv'
  BY CallsStep, CallbackInvStep
<1>5. AnnouncedInv => DirectOneOutcome
  BY DEF AnnouncedInv, DirectOneOutcome
<1>6. CallbackInv => CallbackCreatedOnce
  BY DEF CallbackInv, CallbackCreatedOnce, listCallbacks
<1>7. AnnouncedInv /\ CallbackInv => PublishedOnce
  BY <1>5, <1>6 DEF PublishedOnce
<1> QED BY <1>1, <1>2, <1>3, <1>4, <1>7, PTL DEF CallsSpec

-----------------------------------------------------------------------------
(* Transfers.  A leg that resolved the waiter is in Stasis or has ended;    *)
(* one that is in Stasis without having done so came late.  The bridge is   *)
(* missing only when the caller has gone, and when a leg has ended neither  *)
(* party is up.                                                             *)
Entered == {"in", "dead", "gone"}
Ended == {"dead", "gone"}
Joining == {"join", "addCaller", "addOut", "record", "talk"}

TransferInv ==
  /\ trWaiter \in {"none", "set", "answered", "rejected"}
  /\ trIn \in {"up", "dead", "gone"} /\ trRefused \in BOOLEAN
  /\ trPc = "start" => trOut = "none"
  /\ trPc \in {"originate", "hold", "wait"} => trWaiter # "none"
  /\ trPc = "noAnswer" => trWaiter = "rejected"
  /\ trPc \in Joining => trWaiter = "answered"
  /\ trWaiter = "answered" => trOut \in Entered
  /\ trOut = "in" /\ ~trLate => trWaiter = "answered"
  /\ legWatch => trPc = "talk"
  /\ legEnded # "none" => trIn \in Ended /\ trOut \in Ended
  /\ (trPc \in Joining \ {"join"} \/ ~ownBridge) /\ ~trBridge => trIn = "gone"
  /\ trPc = "returned" =>
       \/ trIn \in Ended \/ trOut \in {"none", "dead", "gone"}
       \/ trWaiter = "rejected" \/ trRefused

(* Every step of a transfer preserves it.                                   *)
LEMMA TransferInvStep ==
  ASSUME TransferInv, [TransferNext]_trVars
  PROVE  TransferInv'
<1> USE DEF TransferInv, Entered, Ended, Joining, Hang, TransferReturns, SettleTransfer, RequestFails
<1>1. CASE registerTransferWaiter
  BY <1>1 DEF registerTransferWaiter, NoDialString
<1>2. CASE HoldCaller
  BY <1>2 DEF HoldCaller
<1>3. CASE AwaitAnswer
  BY <1>3 DEF AwaitAnswer
<1>4. CASE TransferTimeout
  BY <1>4 DEF TransferTimeout
<1>5. CASE NoAnswer
  BY <1>5 DEF NoAnswer
<1>6. CASE JoinBridge
  BY <1>6 DEF JoinBridge
<1>7. CASE WatchLegs
  <2>1. CASE trPc' = "talk"
    <3>1. /\ trPc = "record"
          /\ UNCHANGED <<trIn, trOut, ownBridge, trBridge, trWaiter, legEnded, trLate, trRefused>>
      BY <1>7, <2>1 DEF WatchLegs
    <3> QED BY <2>1, <3>1
  <2>2. CASE RequestFails
    <3>1. /\ trPc = "record" /\ trPc' = "returned" /\ legWatch' = legWatch
          /\ UNCHANGED <<trIn, trOut, ownBridge, trBridge, trWaiter, legEnded, trLate>>
      BY <1>7, <2>2 DEF WatchLegs
    <3>2. ~legWatch'
      BY <3>1
    <3>3. trRefused' \in BOOLEAN /\ (trIn = "up" => trRefused')
      BY <2>2
    <3> QED BY <3>1, <3>2, <3>3
  <2> QED BY <1>7, <2>1, <2>2 DEF WatchLegs
<1>8. CASE Teardown
  BY <1>8 DEF Teardown
<1>9. CASE TransferRings
  BY <1>9 DEF TransferRings
<1>10. CASE TransferLegEnters
  BY <1>10 DEF TransferLegEnters
<1>11. CASE TransferPartyLeaves
  BY <1>11 DEF TransferPartyLeaves
<1>12. CASE TransferCallerEnds
  BY <1>12 DEF TransferCallerEnds
<1>13. CASE TransferBridgeGoes \/ TransferLegEnds
  BY <1>13 DEF TransferBridgeGoes, TransferLegEnds
<1>14. CASE UNCHANGED trVars
  BY <1>14 DEF trVars
<1> QED BY <1>1, <1>2, <1>3, <1>4, <1>5, <1>6, <1>7, <1>8, <1>9, <1>10, <1>11, <1>12, <1>13,
           <1>14 DEF TransferNext, TransferExecutor

-----------------------------------------------------------------------------
(* Hunts.  An attempt is open until its waiter is settled; a leg in Stasis  *)
(* is one whose waiter was answered.                                        *)
OpenStates == {"originate", "wait"}
Unanswered == {"failed", "hangup"}
Connecting == {"finalize", "add", "record", "talk"}

HuntTypes ==
  /\ strategy \in {"group", "sequential"}
  /\ huntIn \in {"up", "dead", "gone"}
  /\ endSeen \in {"none", "in", "out"}
  /\ huntLeg \in [HuntLegs -> {"none", "ringing", "picked", "in", "dead", "gone"}]
  /\ att \in [HuntLegs -> {"none", "originate", "wait", "answered", "failed", "hangup"}]
  /\ huntWaiter \in [HuntLegs -> {"none", "set", "answered", "rejected"}]
  /\ terminated \in [HuntLegs -> BOOLEAN]

AttemptInv ==
  \A l \in HuntLegs :
    /\ att[l] = "none" => huntLeg[l] = "none" /\ huntWaiter[l] = "none"
    /\ huntWaiter[l] = "set" => att[l] \in OpenStates
    /\ att[l] = "wait" => huntWaiter[l] = "set"
    /\ att[l] = "originate" => huntWaiter[l] # "none"
    /\ huntLeg[l] = "in" => huntWaiter[l] = "answered"
    /\ att[l] = "failed" => huntWaiter[l] \in {"answered", "rejected"}
    /\ terminated[l] \/ att[l] = "hangup" => inboundEnded

\* Where the executor is: attempts are open only while it dials; no answer
\* is pending where it goes on dialling; the winner is an answered leg, the
\* others are released, and so is the winner when the node has returned.
CourseInv ==
  /\ (\E l \in HuntLegs : att[l] \in OpenStates) => huntPc = "dialing"
  /\ huntPc = "start" => \A l \in HuntLegs : att[l] = "none"
  /\ huntPc \in {"start", "loop", "unanswered"} => \A l \in HuntLegs : att[l] # "answered"
  /\ huntPc \in Connecting => winner \in HuntLegs
  /\ huntPc \in {"add", "record", "talk", "returned"} =>
       \A l \in HuntLegs : att[l] = "answered" /\ huntLeg[l] = "in" =>
                             huntPc # "returned" /\ l = winner
  /\ endSeen # "none" => huntPc \in Connecting \cup {"returned"}
  /\ endSeen = "in" => inboundEnded
  /\ endSeen = "out" => winner \in HuntLegs /\ huntLeg[winner] = "gone"
  /\ huntResult = "done" => huntIn # "up"

\* One attempt after the other: each is settled and released before the next.
SequentialInv ==
  strategy = "sequential" =>
    /\ \A k, l \in HuntLegs : att[k] \in OpenStates /\ att[l] \in OpenStates => k = l
    /\ huntPc = "dialing" => \A l \in HuntLegs : att[l] # "answered"
    /\ \A l \in HuntLegs : huntLeg[l] = "in" /\ att[l] \in Unanswered => huntPc = "unanswered"

HuntInv == HuntTypes /\ AttemptInv /\ CourseInv /\ SequentialInv

\* What AfterAttempts decides when an attempt has settled.
Decided ==
  \/ huntPc' = huntPc /\ winner' = winner /\ \E l \in HuntLegs : att'[l] \in OpenStates
  \/ /\ \A l \in HuntLegs : att'[l] \notin OpenStates
     /\ \/ huntPc' = "unanswered" /\ \A l \in HuntLegs : att'[l] # "answered"
        \/ huntPc' = "finalize" /\ winner' \in HuntLegs /\ att'[winner'] = "answered"
        \/ huntPc' = "waitUp" /\ strategy = "group"

(* The code of AfterAttempts decides so.                                    *)
LEMMA AfterAttemptsDecides ==
  ASSUME NEW up, AfterAttempts(att', up), strategy \in {"group", "sequential"}
  PROVE  Decided
BY DEF AfterAttempts, Decided, OpenStates

(* A decision keeps the executor on its course, if the attempts that were   *)
(* settled kept theirs.                                                     *)
LEMMA DecidedInv ==
  ASSUME HuntInv, huntPc = "dialing", Decided, HuntTypes', AttemptInv',
         UNCHANGED <<strategy, endSeen, huntResult>>, huntIn' = huntIn \/ huntIn' = "gone",
         \A l \in HuntLegs : att'[l] \in OpenStates => att[l] \in OpenStates,
         strategy = "sequential" =>
           /\ \A l \in HuntLegs : att'[l] = "answered" => \A k \in HuntLegs : att'[k] \notin OpenStates
           /\ \A l \in HuntLegs : huntLeg'[l] = "in" /\ att'[l] \in Unanswered =>
                \A k \in HuntLegs : att'[k] \notin OpenStates /\ att'[k] # "answered"
  PROVE  HuntInv'
<1>1. endSeen = "none"
  BY DEF HuntInv, CourseInv, Connecting, HuntTypes
<1>2. CourseInv'
  BY <1>1 DEF HuntInv, HuntTypes, CourseInv, Decided, Connecting, inboundEnded
<1>3. SequentialInv'
  BY DEF HuntInv, SequentialInv, Decided
<1> QED BY <1>2, <1>3 DEF HuntInv

(* The steps in which attempts settle.                                      *)
LEMMA AttemptInvStep ==
  ASSUME HuntInv, NEW l \in HuntLegs, captureOriginatedChannel(l) \/ AttemptTimeout(l)
  PROVE  HuntInv'
<1> USE DEF HuntInv
<1>1. /\ UNCHANGED <<strategy, huntIn, huntLeg, terminated, endSeen, huntResult>>
      /\ att[l] \in OpenStates
      /\ Decided
  BY AfterAttemptsDecides DEF captureOriginatedChannel, AttemptTimeout, OpenStates, HuntTypes
<1>2. huntPc = "dialing"
  BY <1>1 DEF CourseInv
<1>3. /\ att' = [att EXCEPT ![l] = att'[l]]
      /\ huntWaiter' = [huntWaiter EXCEPT ![l] = huntWaiter'[l]]
      /\ \/ att'[l] = "wait" /\ huntWaiter[l] = "set" /\ huntWaiter' = huntWaiter
         \/ att'[l] = "hangup" /\ terminated[l] /\ huntWaiter' = huntWaiter /\ huntWaiter[l] # "set"
         \/ att'[l] = "hangup" /\ terminated[l] /\ huntWaiter'[l] = "rejected" /\ huntLeg[l] # "in"
         \/ att'[l] = "answered" /\ huntWaiter[l] = "answered" /\ huntWaiter' = huntWaiter
         \/ att'[l] = "failed" /\ huntWaiter'[l] = "rejected" /\ huntLeg[l] # "in"
         \/ att'[l] = "failed" /\ huntWaiter[l] = "answered" /\ huntWaiter' = huntWaiter
         \/ att'[l] = "failed" /\ huntWaiter[l] = "rejected" /\ huntWaiter' = huntWaiter
  <2>1. CASE AttemptTimeout(l)
    BY <2>1 DEF AttemptTimeout, AttemptOutcome, HuntTypes, AttemptInv
  <2>2. CASE captureOriginatedChannel(l)
    BY <2>2 DEF captureOriginatedChannel, AttemptOutcome, HuntTypes, AttemptInv
  <2> QED BY <2>1, <2>2
<1>4. HuntTypes'
  BY <1>1, <1>3 DEF HuntTypes
<1>5. AttemptInv'
  BY <1>1, <1>3 DEF HuntTypes, AttemptInv, OpenStates, inboundEnded
<1>6. \A k \in HuntLegs : k # l => att'[k] = att[k]
  BY <1>3 DEF HuntTypes
<1>7. \A k \in HuntLegs : att'[k] \in OpenStates => att[k] \in OpenStates
  BY <1>1, <1>6
<1>8. ASSUME strategy = "sequential"
      PROVE  /\ \A k \in HuntLegs : k # l => att[k] \notin OpenStates \cup {"answered"}
             /\ \A k \in HuntLegs : huntLeg[k] = "in" => att[k] \notin Unanswered
  BY <1>1, <1>2, <1>8 DEF SequentialInv
<1>9. CASE strategy = "sequential"
  BY <1>1, <1>2, <1>4, <1>5, <1>6, <1>7, <1>8, <1>9, DecidedInv DEF OpenStates, Unanswered
<1>10. CASE strategy # "sequential"
  BY <1>1, <1>2, <1>4, <1>5, <1>7, <1>10, DecidedInv
<1> QED BY <1>9, <1>10

(* A leg enters Stasis.                                                     *)
LEMMA LegEntersStep ==
  ASSUME HuntInv, NEW l \in HuntLegs, HuntLegEnters(l)
  PROVE  HuntInv'
<1> USE DEF HuntInv
<1>1. UNCHANGED <<strategy, huntIn, terminated, endSeen, huntResult>> /\ huntLeg[l] = "picked"
  BY DEF HuntLegEnters
<1>2. CASE huntWaiter[l] # "set"
  <2>1. /\ huntLeg' = [huntLeg EXCEPT ![l] = "dead"]
        /\ UNCHANGED <<huntPc, winner, att, huntWaiter>>
    BY <1>2 DEF HuntLegEnters
  <2>2. HuntTypes' /\ AttemptInv'
    BY <1>1, <2>1 DEF HuntTypes, AttemptInv, inboundEnded
  <2>3. CourseInv' /\ SequentialInv'
    BY <1>1, <2>1 DEF HuntTypes, CourseInv, SequentialInv, inboundEnded
  <2> QED BY <2>2, <2>3
<1>3. CASE huntWaiter[l] = "set" /\ att[l] # "wait"
  <2>1. /\ huntLeg' = [huntLeg EXCEPT ![l] = "in"]
        /\ huntWaiter' = [huntWaiter EXCEPT ![l] = "answered"]
        /\ UNCHANGED <<huntPc, winner, att>>
        /\ att[l] = "originate"
    BY <1>3 DEF HuntLegEnters, AttemptInv, OpenStates
  <2>2. HuntTypes' /\ AttemptInv'
    BY <1>1, <2>1 DEF HuntTypes, AttemptInv, inboundEnded, OpenStates
  <2>3. CourseInv' /\ SequentialInv'
    BY <1>1, <2>1 DEF HuntTypes, CourseInv, SequentialInv, inboundEnded, Unanswered
  <2> QED BY <2>2, <2>3
<1>4. CASE huntWaiter[l] = "set" /\ att[l] = "wait"
  <2>1. /\ huntLeg' = [huntLeg EXCEPT ![l] = "in"]
        /\ huntWaiter' = [huntWaiter EXCEPT ![l] = "answered"]
        /\ att' = [att EXCEPT ![l] = "answered"]
        /\ Decided
    BY <1>4, AfterAttemptsDecides DEF HuntLegEnters, AttemptOutcome, HuntTypes
  <2>2. HuntTypes' /\ AttemptInv'
    BY <1>1, <2>1 DEF HuntTypes, AttemptInv, inboundEnded, OpenStates
  <2>3. huntPc = "dialing"
    BY <1>4 DEF CourseInv, OpenStates
  <2>4. \A k \in HuntLegs : k # l => att'[k] = att[k] /\ huntLeg'[k] = huntLeg[k]
    BY <2>1 DEF HuntTypes
  <2>5. att'[l] = "answered"
    BY <2>1 DEF HuntTypes
  <2>6. ASSUME strategy = "sequential"
        PROVE  /\ \A k \in HuntLegs : k # l => att[k] \notin OpenStates
               /\ \A k \in HuntLegs : huntLeg[k] = "in" => att[k] \notin Unanswered
    BY <1>4, <2>3, <2>6 DEF SequentialInv, OpenStates
  <2>7. \A k \in HuntLegs : att'[k] \in OpenStates => att[k] \in OpenStates
    BY <2>4, <2>5 DEF OpenStates
  <2> QED BY <1>1, <2>1, <2>2, <2>3, <2>4, <2>5, <2>6, <2>7, DecidedInv DEF OpenStates, Unanswered
<1> QED BY <1>2, <1>3, <1>4

(* The caller's end settles the attempts that wait.                         *)
LEMMA CallerEndsStep ==
  ASSUME HuntInv, CallerEnds
  PROVE  HuntInv'
<1> USE DEF HuntInv
<1>1. /\ UNCHANGED <<strategy, huntLeg, huntResult>>
      /\ huntIn = "dead" /\ huntIn' = "gone"
      /\ endSeen' = IF HuntWatching THEN "in" ELSE endSeen
  BY DEF CallerEnds
<1>2. \A l \in HuntLegs :
        /\ att'[l] = IF att[l] = "wait" THEN "hangup" ELSE att[l]
        /\ huntWaiter'[l] = IF att[l] \in OpenStates /\ huntWaiter[l] = "set" THEN "rejected"
                            ELSE huntWaiter[l]
  BY DEF CallerEnds, OpenStates
<1>3. HuntTypes'
  <2>1. terminated' \in [HuntLegs -> BOOLEAN]
    BY DEF CallerEnds, HuntTypes
  <2>2. /\ att' \in [HuntLegs -> {"none", "originate", "wait", "answered", "failed", "hangup"}]
        /\ huntWaiter' \in [HuntLegs -> {"none", "set", "answered", "rejected"}]
    BY DEF CallerEnds, HuntTypes
  <2> QED BY <1>1, <2>1, <2>2 DEF HuntTypes
<1>4. AttemptInv'
  BY <1>1, <1>2 DEF AttemptInv, inboundEnded, OpenStates, HuntTypes
<1>5. CASE \E l \in HuntLegs : att[l] = "wait"
  <2>1. huntPc = "dialing" /\ endSeen = "none"
    BY <1>5 DEF CourseInv, OpenStates, HuntTypes, Connecting
  <2>2. endSeen' = endSeen
    BY <1>1, <2>1 DEF HuntWatching
  <2>3. att' # att
    BY <1>2, <1>5
  <2>4. Decided
    BY <2>1, <2>3, AfterAttemptsDecides DEF CallerEnds, HuntTypes
  <2>5. ASSUME strategy = "sequential"
        PROVE  /\ \A k \in HuntLegs : att'[k] \notin OpenStates \cup {"answered"}
    BY <1>2, <1>5, <2>1, <2>5 DEF SequentialInv, OpenStates
  <2>6. \A k \in HuntLegs : att'[k] \in OpenStates => att[k] \in OpenStates
    BY <1>2 DEF OpenStates
  <2> QED BY <1>1, <1>3, <1>4, <2>1, <2>2, <2>4, <2>5, <2>6, DecidedInv DEF OpenStates
<1>6. CASE \A l \in HuntLegs : att[l] # "wait"
  <2>1. \A l \in HuntLegs : att'[l] = att[l]
    BY <1>2, <1>6
  <2>2. att' = att
    BY <1>3, <2>1 DEF HuntTypes
  <2>3. winner' = winner /\ huntPc' = IF huntPc = "waitUp" THEN "cancel" ELSE huntPc
    BY <2>2 DEF CallerEnds
  <2>4. CourseInv'
    BY <1>1, <2>2, <2>3 DEF CourseInv, Connecting, HuntWatching, inboundEnded
  <2>5. SequentialInv'
    BY <1>1, <2>2, <2>3 DEF SequentialInv
  <2> QED BY <1>3, <1>4, <2>4, <2>5
<1> QED BY <1>5, <1>6

(* A hangup takes legs out of Stasis and brings none in.                    *)
LEMMA HungUpFacts ==
  ASSUME HuntTypes, NEW legs
  PROVE  /\ HungUp(legs) \in [HuntLegs -> {"none", "ringing", "picked", "in", "dead", "gone"}]
         /\ \A l \in HuntLegs :
              /\ HungUp(legs)[l] = "in" => huntLeg[l] = "in" /\ l \notin legs
              /\ huntLeg[l] \in {"none", "gone"} => HungUp(legs)[l] = huntLeg[l]
<1>1. \A l \in HuntLegs : HungUp(legs)[l] =
         IF l \notin legs THEN huntLeg[l]
         ELSE CASE huntLeg[l] = "in" -> "dead"
                [] huntLeg[l] \in {"ringing", "picked"} -> "gone"
                [] OTHER -> huntLeg[l]
  BY DEF HungUp
<1>2. \A l \in HuntLegs :
        /\ HungUp(legs)[l] \in {"none", "ringing", "picked", "in", "dead", "gone"}
        /\ HungUp(legs)[l] = "in" => huntLeg[l] = "in" /\ l \notin legs
        /\ huntLeg[l] \in {"none", "gone"} => HungUp(legs)[l] = huntLeg[l]
  BY <1>1 DEF HuntTypes
<1> QED BY <1>2 DEF HungUp

\* A step that leaves the attempts alone and brings no leg into Stasis.
LegsFade ==
  /\ UNCHANGED <<strategy, att, huntWaiter, terminated>>
  /\ huntIn' = huntIn \/ (huntIn = "up" /\ huntIn' = "dead")
  /\ endSeen' \in {"none", "in", "out"}
  /\ huntLeg' \in [HuntLegs -> {"none", "ringing", "picked", "in", "dead", "gone"}]
  /\ \A l \in HuntLegs :
       /\ huntLeg'[l] = "in" => huntLeg[l] = "in"
       /\ huntLeg[l] = "none" /\ att[l] = "none" => huntLeg'[l] = "none"
       /\ huntLeg[l] = "gone" => huntLeg'[l] = "gone"

(* Such a step disturbs neither the types nor the attempts.                 *)
LEMMA LegsFadeInv ==
  ASSUME HuntInv, LegsFade
  PROVE  HuntTypes' /\ AttemptInv'
<1>1. HuntTypes'
  BY DEF HuntInv, LegsFade, HuntTypes
<1>2. AttemptInv'
  BY DEF HuntInv, LegsFade, HuntTypes, AttemptInv, inboundEnded
<1> QED BY <1>1, <1>2

(* The dialling steps of the executor.                                      *)
LEMMA DialInvStep ==
  ASSUME HuntInv, executeHunt \/ NextDestination
  PROVE  HuntInv'
<1> USE DEF HuntInv
<1>1. UNCHANGED <<strategy, huntIn, huntBridge, huntLeg, legUp, terminated, winner, endSeen>>
  BY DEF executeHunt, NextDestination
<1>2. /\ huntPc \in {"start", "loop"} /\ endSeen = "none"
      /\ \A l \in HuntLegs : att[l] \notin OpenStates \cup {"answered"}
  BY DEF executeHunt, NextDestination, CourseInv, Connecting, HuntTypes
<1>3. CASE UNCHANGED <<att, huntWaiter>> /\ huntPc' \in {"loop", "returned"}
           /\ (huntResult' = huntResult \/ huntResult' # "done")
  <2>1. HuntTypes' /\ AttemptInv'
    BY <1>1, <1>3 DEF HuntTypes, AttemptInv, inboundEnded
  <2>2. CourseInv' /\ SequentialInv'
    BY <1>1, <1>2, <1>3 DEF CourseInv, SequentialInv, Connecting, OpenStates
  <2> QED BY <2>1, <2>2
<1>4. CASE executeHunt /\ huntPc' = "dialing"
  <2>1. /\ huntPc = "start" /\ strategy = "group" /\ huntResult' = huntResult
        /\ att' = [l \in HuntLegs |-> "originate"]
        /\ huntWaiter' = [l \in HuntLegs |-> "set"]
    BY <1>4 DEF executeHunt, NoDestinations, HuntReturns
  <2>2. \A l \in HuntLegs : att[l] = "none"
    BY <2>1 DEF CourseInv
  <2>3. HuntTypes' /\ AttemptInv'
    BY <1>1, <2>1, <2>2 DEF HuntTypes, AttemptInv, inboundEnded, OpenStates
  <2>4. CourseInv' /\ SequentialInv'
    BY <1>1, <1>2, <1>4, <2>1 DEF CourseInv, SequentialInv, Connecting, OpenStates
  <2> QED BY <2>3, <2>4
<1>5. CASE NextDestination /\ huntPc' = "dialing"
  <2>1. PICK l \in HuntLegs :
          /\ att[l] = "none"
          /\ att' = [att EXCEPT ![l] = "originate"]
          /\ huntWaiter' = [huntWaiter EXCEPT ![l] = "set"]
    BY <1>5 DEF NextDestination, HuntReturns
  <2>2. huntPc = "loop" /\ huntResult' = huntResult
    BY <1>5 DEF NextDestination, HuntReturns
  <2>3. \A k \in HuntLegs : att'[k] = IF k = l THEN "originate" ELSE att[k]
    BY <2>1 DEF HuntTypes
  <2>4. HuntTypes' /\ AttemptInv'
    BY <1>1, <2>1 DEF HuntTypes, AttemptInv, inboundEnded, OpenStates
  <2>5. CourseInv'
    BY <1>1, <1>2, <1>5, <2>2, <2>3 DEF CourseInv, Connecting, OpenStates, inboundEnded
  <2>6. SequentialInv'
    BY <1>1, <1>2, <1>5, <2>2, <2>3 DEF SequentialInv, OpenStates, Unanswered
  <2> QED BY <2>4, <2>5, <2>6
<1>6. \/ UNCHANGED <<att, huntWaiter>> /\ huntPc' \in {"loop", "returned"}
           /\ (huntResult' = huntResult \/ huntResult' # "done")
      \/ huntPc' = "dialing"
  BY <1>2 DEF executeHunt, NextDestination, NoDestinations, HuntReturns, CourseInv
<1> QED BY <1>3, <1>4, <1>5, <1>6

(* The steps of the channels in which no attempt settles.                   *)
LEMMA ChannelInvStep ==
  ASSUME HuntInv,
         \/ HuntPartyLeaves \/ BridgeGoes
         \/ \E l \in HuntLegs : HuntLegMoves(l) \/ LegReportedUp(l) \/ HuntLegEnds(l)
  PROVE  HuntInv'
<1> USE DEF HuntInv
<1>1. CASE HuntPartyLeaves \/ BridgeGoes
  <2>1. UNCHANGED <<strategy, huntPc, att, huntWaiter, terminated, winner, endSeen, huntResult>>
    BY <1>1 DEF HuntPartyLeaves, BridgeGoes
  <2>2. LegsFade
    BY <1>1, <2>1 DEF LegsFade, HuntPartyLeaves, BridgeGoes, HuntTypes
  <2>3. HuntTypes' /\ AttemptInv'
    BY <2>2, LegsFadeInv
  <2>4. CourseInv' /\ SequentialInv'
    BY <2>1, <2>2 DEF LegsFade, CourseInv, SequentialInv, inboundEnded
  <2> QED BY <2>3, <2>4
<1>2. ASSUME NEW l \in HuntLegs, HuntLegMoves(l)
      PROVE  HuntInv'
  <2>1. UNCHANGED <<strategy, huntPc, huntIn, att, huntWaiter, terminated, winner, endSeen, huntResult>>
    BY <1>2 DEF HuntLegMoves
  <2>2. LegsFade
    <3>1. PICK x \in {"ringing", "picked", "gone"} : huntLeg' = [huntLeg EXCEPT ![l] = x]
      BY <1>2 DEF HuntLegMoves
    <3>2. huntLeg[l] # "gone" /\ (huntLeg[l] = "none" => att[l] = "originate")
      BY <1>2 DEF HuntLegMoves
    <3> QED BY <2>1, <3>1, <3>2 DEF LegsFade, HuntTypes
  <2>3. HuntTypes' /\ AttemptInv'
    BY <2>2, LegsFadeInv
  <2>4. CourseInv' /\ SequentialInv'
    BY <2>1, <2>2 DEF LegsFade, CourseInv, SequentialInv, inboundEnded
  <2> QED BY <2>3, <2>4
<1>3. ASSUME NEW l \in HuntLegs, LegReportedUp(l)
      PROVE  HuntInv'
  <2>1. UNCHANGED <<strategy, huntIn, huntLeg, att, huntWaiter, terminated, endSeen, huntResult>>
    BY <1>3 DEF LegReportedUp
  <2>2. \/ UNCHANGED <<winner, huntPc>>
        \/ huntPc = "waitUp" /\ huntPc' = "finalize" /\ winner' = l
    BY <1>3 DEF LegReportedUp
  <2>3. HuntTypes' /\ AttemptInv'
    BY <2>1 DEF HuntTypes, AttemptInv, inboundEnded
  <2>4. CourseInv' /\ SequentialInv'
    BY <2>1, <2>2 DEF HuntTypes, CourseInv, SequentialInv, Connecting, inboundEnded
  <2> QED BY <2>3, <2>4
<1>4. ASSUME NEW l \in HuntLegs, HuntLegEnds(l)
      PROVE  HuntInv'
  <2>1. /\ UNCHANGED <<strategy, huntIn, att, huntWaiter, terminated, winner, huntResult>>
        /\ huntLeg' = [huntLeg EXCEPT ![l] = "gone"] /\ huntLeg[l] = "dead"
        /\ endSeen' = IF HuntWatching /\ l = winner THEN "out" ELSE endSeen
        /\ huntPc' = huntPc \/ (huntPc = "waitUp" /\ huntPc' = "giveUp")
    BY <1>4 DEF HuntLegEnds
  <2>2. LegsFade
    BY <2>1 DEF LegsFade, HuntTypes
  <2>3. HuntTypes' /\ AttemptInv'
    BY <2>2, LegsFadeInv
  <2>4. huntLeg'[l] = "gone"
    BY <2>1 DEF HuntTypes
  <2>5. CourseInv'
    BY <2>1, <2>2, <2>4 DEF LegsFade, CourseInv, HuntWatching, Connecting, HuntTypes, inboundEnded
  <2>6. SequentialInv'
    BY <2>1, <2>2 DEF LegsFade, SequentialInv
  <2> QED BY <2>3, <2>5, <2>6
<1> QED BY <1>1, <1>2, <1>3, <1>4

(* The outcomes: every return hangs up the legs that answered.              *)
LEMMA OutcomeInvStep ==
  ASSUME HuntInv,
         \/ HuntUnanswered \/ HuntGivesUp \/ finalizeAnswer \/ AddToBridge \/ RecordHunt
         \/ TalkEnds
  PROVE  HuntInv'
<1> USE DEF HuntInv
<1>1. /\ UNCHANGED <<strategy, att, huntWaiter, terminated, winner, endSeen>>
      /\ huntLeg' = huntLeg \/ \E legs : huntLeg' = HungUp(legs)
      /\ huntIn' = huntIn \/ (huntIn = "up" /\ huntIn' = "dead")
  BY DEF HuntUnanswered, HuntGivesUp, finalizeAnswer, AddToBridge, RecordHunt, TalkEnds, HuntReturns
<1>2. LegsFade
  BY <1>1, HungUpFacts DEF LegsFade, HuntTypes
<1>3. HuntTypes' /\ AttemptInv'
  BY <1>2, LegsFadeInv
<1>4. /\ huntPc' \in {"loop", "add", "record", "talk", "returned"}
      /\ huntPc # "dialing" /\ huntPc # "start"
      /\ huntPc' = "loop" => huntPc = "unanswered"
      /\ huntPc' \in {"add", "record", "talk"} => huntPc \in Connecting
      /\ huntPc = "unanswered" => huntPc' \in {"loop", "returned"}
  BY DEF HuntUnanswered, HuntGivesUp, finalizeAnswer, AddToBridge, RecordHunt, TalkEnds, HuntReturns,
         Connecting
<1>5. \A l \in HuntLegs : att[l] \notin OpenStates
  BY <1>4 DEF CourseInv
<1>6. endSeen # "none" => huntPc' \in Connecting \cup {"returned"}
  BY <1>4 DEF CourseInv, Connecting
<1>7. huntResult' = "done" => huntIn' # "up"
  BY <1>1, <1>2 DEF HuntUnanswered, HuntGivesUp, finalizeAnswer, AddToBridge, RecordHunt, TalkEnds,
                HuntReturns, CourseInv, HuntTypes, inboundEnded
<1>8. \A l \in HuntLegs : att[l] = "answered" /\ huntLeg'[l] = "in" =>
        huntPc' # "returned" /\ l = winner
  <2> SUFFICES ASSUME NEW l \in HuntLegs, att[l] = "answered", huntLeg'[l] = "in"
               PROVE  huntPc' # "returned" /\ l = winner
    OBVIOUS
  <2>1. l \in pendingChannels /\ huntLeg[l] = "in"
    BY <1>2 DEF pendingChannels, LegsFade
  <2>2. ~HuntUnanswered
    BY DEF HuntUnanswered, CourseInv
  <2>3. ~HuntGivesUp
    BY <2>1, HungUpFacts DEF HuntGivesUp
  <2>4. CASE finalizeAnswer
    BY <2>1, <2>4, HungUpFacts DEF finalizeAnswer
  <2>5. CASE AddToBridge
    BY <2>1, <2>5, HungUpFacts DEF AddToBridge, HuntReturns, CourseInv
  <2>6. CASE RecordHunt
    BY <2>1, <2>6, HungUpFacts DEF RecordHunt, HuntReturns, CourseInv
  <2>7. CASE TalkEnds
    <3>1. l = winner
      BY <2>1, <2>7 DEF TalkEnds, CourseInv
    <3>2. endSeen = "in"
      BY <2>1, <2>7, <3>1 DEF TalkEnds, CourseInv, HuntTypes
    <3> QED BY <2>7, <3>1, <3>2, HungUpFacts DEF TalkEnds
  <2> QED BY <2>2, <2>3, <2>4, <2>5, <2>6, <2>7
<1>9. CourseInv'
  BY <1>1, <1>2, <1>4, <1>5, <1>6, <1>7, <1>8 DEF CourseInv, Connecting, LegsFade, inboundEnded
<1>10. SequentialInv'
  <2> SUFFICES ASSUME strategy = "sequential", NEW l \in HuntLegs, huntLeg'[l] = "in",
                      att[l] \in Unanswered
               PROVE  FALSE
    BY <1>1, <1>4, <1>5 DEF SequentialInv
  <2>1. huntLeg[l] = "in" /\ huntPc = "unanswered"
    BY <1>2 DEF LegsFade, SequentialInv
  <2>2. HuntUnanswered
    BY <2>1 DEF HuntGivesUp, finalizeAnswer, AddToBridge, RecordHunt, TalkEnds
  <2> QED BY <2>2, HungUpFacts DEF HuntUnanswered, Unanswered
<1> QED BY <1>3, <1>9, <1>10

(* Every step of a hunt preserves the invariant.                            *)
LEMMA HuntInvStep ==
  ASSUME HuntInv, [HuntNext]_huntVars
  PROVE  HuntInv'
<1>1. CASE UNCHANGED huntVars
  BY <1>1 DEF huntVars, HuntInv, HuntTypes, AttemptInv, CourseInv, SequentialInv, inboundEnded
<1>2. CASE HuntExecutor
  BY <1>2, DialInvStep, AttemptInvStep, OutcomeInvStep DEF HuntExecutor
<1>3. CASE HuntChannels
  BY <1>3, ChannelInvStep, LegEntersStep, CallerEndsStep DEF HuntChannels
<1> QED BY <1>1, <1>2, <1>3 DEF HuntNext

-----------------------------------------------------------------------------
(* No leg that Stasis dialled stays up when nobody is left to talk to, but  *)
(* for the cases the three invariants name: direct calls (index.ts), hunts  *)
(* of any number of destinations (hunt.executor.ts) and transfers           *)
(* (executeTransfer).                                                       *)
THEOREM LegsReleasedHolds == CallsSpec => []LegsReleased
<1> DEFINE Inv == DirectInv /\ HuntInv /\ TransferInv
<1>1. CallsInit => Inv
  <2> SUFFICES ASSUME CallsInit PROVE Inv
    OBVIOUS
  <2>1. DirectInv
    BY DEF CallsInit, DialInit, DirectInv, CallFields
  <2>2. TransferInv
    BY DEF CallsInit, TransferInit, TransferInv, Joining
  <2>3. HuntTypes
    BY DEF CallsInit, HuntInit, HuntTypes
  <2>4. AttemptInv
    BY DEF CallsInit, HuntInit, AttemptInv
  <2>5. CourseInv /\ SequentialInv
    BY DEF CallsInit, HuntInit, CourseInv, SequentialInv, Connecting, OpenStates
  <2> QED BY <2>1, <2>2, <2>3, <2>4, <2>5 DEF HuntInv
<1>2. Inv /\ [CallsNext]_callsVars => Inv'
  BY CallsStep, DirectInvStep, HuntInvStep, TransferInvStep
<1>3. DirectInv => DirectLegsReleased
  BY DEF DirectInv, DirectLegsReleased, CallFields
<1>4. TransferInv => TransferLegsReleased
  BY DEF TransferInv, TransferLegsReleased, Ended
<1>5. HuntInv => HuntLegsReleased
  <2> SUFFICES ASSUME HuntInv, huntPc = "returned"
               PROVE  /\ huntResult = "done" => huntIn # "up"
                      /\ \A l \in HuntLegs : huntLeg[l] = "in" =>
                           /\ strategy = "group" /\ huntWaiter[l] = "answered"
                           /\ att[l] = "hangup" => inboundEnded
                           /\ att[l] \in Unanswered
    BY DEF HuntLegsReleased, Unanswered
  <2>1. \A l \in HuntLegs : huntLeg[l] = "in" =>
          huntWaiter[l] = "answered" /\ att[l] \in Unanswered
    BY DEF HuntInv, HuntTypes, AttemptInv, CourseInv, OpenStates, Unanswered
  <2> QED BY <2>1 DEF HuntInv, HuntTypes, AttemptInv, CourseInv, SequentialInv
<1>6. Inv => LegsReleased
  BY <1>3, <1>4, <1>5 DEF LegsReleased
<1> HIDE DEF Inv
<1> QED BY <1>1, <1>2, <1>6, PTL DEF CallsSpec
-----------------------------------------------------------------------------
(* Sessions.  Whoever drops a session for good, its StasisEnd or the catch  *)
(* block, is still to come: StasisEnd takes a session that is there, and a  *)
(* listener that registers one later finds a channel that refuses.          *)
SessionInv ==
  /\ chan \in [Calls -> {"new", "up", "dead", "gone"}]
  /\ callPc \in [Calls -> {"none", "routing", "answering", "bridging", "adding", "running",
                           "flowFailed", "failing", "unbridging", "hanging", "done"}]
  /\ sessions \subseteq Calls
  /\ SessionsHeard

(* Every step of Stasis, and of the call-logs listener, preserves it.       *)
LEMMA SessionInvStep ==
  ASSUME SessionInv, [CallNext]_callVars
  PROVE  SessionInv'
<1> USE DEF SessionInv, SessionsHeard, goto, At
<1>1. ASSUME NEW c \in Calls, StasisStart(c) \/ HangUp(c)
      PROVE  SessionInv'
  BY <1>1 DEF StasisStart, HangUp
<1>2. ASSUME NEW c \in Calls, RouteFound(c) \/ NoFlow(c) \/ Answer(c)
      PROVE  SessionInv'
  BY <1>2 DEF RouteFound, NoFlow, Answer
<1>3. ASSUME NEW c \in Calls, CreateBridge(c) \/ AddChannel(c)
      PROVE  SessionInv'
  BY <1>3 DEF CreateBridge, AddChannel
<1>4. ASSUME NEW c \in Calls, FlowReturns(c) \/ FlowFailed(c)
      PROVE  SessionInv'
  BY <1>4 DEF FlowReturns, FlowFailed
<1>5. ASSUME NEW c \in Calls, CatchPublish(c) \/ CatchUnbridge(c) \/ CatchHangup(c)
      PROVE  SessionInv'
  BY <1>5 DEF CatchPublish, CatchUnbridge, CatchHangup
<1>6. ASSUME NEW c \in Calls, StasisEnd(c)
      PROVE  SessionInv'
  BY <1>6 DEF StasisEnd
<1>7. CASE GracefulShutdown \/ DrainEnds
  BY <1>7 DEF GracefulShutdown, DrainEnds
<1>8. ASSUME NEW e \in logEvents, HandleCallEvent(e)
      PROVE  SessionInv'
  BY <1>8 DEF HandleCallEvent
<1>9. CASE UNCHANGED callVars
  BY <1>9 DEF callVars
<1> QED BY <1>1, <1>2, <1>3, <1>4, <1>5, <1>6, <1>7, <1>8, <1>9 DEF CallNext, ListenerStep

(* The callers of a conference.  A caller in the room has not finished      *)
(* leaving it, whichever of the two was first.                              *)
ConfInv ==
  /\ confChan \in [Attendees -> {"up", "dead", "gone"}]
  /\ confPc \in [Attendees -> {"lookup", "create", "dial", "add", "added", "joined", "returned"}]
  /\ leavePc \in [Attendees -> {"no", "leave", "publish", "done"}]
  /\ \A c \in Attendees : confPc[c] = "joined" => leavePc[c] # "done"
  /\ CallersHeard

(* Every step of the conference node preserves it.                          *)
LEMMA ConfInvStep ==
  ASSUME ConfInv, [ConfNext]_confVars
  PROVE  ConfInv'
<1> USE DEF ConfInv, CallersHeard, GoTo
<1>1. ASSUME NEW c \in Attendees,
             FindRoom(c) \/ getOrCreateRoom(c) \/ dialConferencePstnParticipants(c)
      PROVE  ConfInv'
  BY <1>1 DEF FindRoom, getOrCreateRoom, dialConferencePstnParticipants
<1>2. ASSUME NEW c \in Attendees, AddRequested(c) \/ AddRefused(c)
      PROVE  ConfInv'
  BY <1>2 DEF AddRequested, AddRefused
<1>3. ASSUME NEW c \in Attendees, Join(c)
      PROVE  ConfInv'
  <2>1. /\ confPc[c] = "added" /\ UNCHANGED <<confChan, leavePc>>
        /\ confPc' = [confPc EXCEPT ![c] = IF leavePc[c] = "done" THEN "returned" ELSE "joined"]
    BY <1>3 DEF Join
  <2> QED BY <2>1
<1>4. ASSUME NEW c \in Attendees, finish(c), UNCHANGED confPc,
             \/ UNCHANGED confChan
             \/ confChan' = [confChan EXCEPT ![c] = "gone"]
             \/ confChan' = [confChan EXCEPT ![c] = IF @ = "up" THEN "dead" ELSE @]
      PROVE  ConfInv'
  BY <1>4 DEF finish, Listening
<1>5. ASSUME NEW c \in Attendees, ConfEnds(c) \/ PutOut(c)
      PROVE  ConfInv'
  BY <1>4, <1>5 DEF ConfEnds, PutOut
<1>6. ASSUME NEW c \in Attendees, SoleSurvivorTimeout(c)
      PROVE  ConfInv'
  <2>1. UNCHANGED confPc
    BY <1>6 DEF SoleSurvivorTimeout
  <2>2. CASE UNCHANGED <<confChan, leavePc>>
    BY <2>1, <2>2
  <2>3. CASE ~UNCHANGED <<confChan, leavePc>>
    <3>1. PICK sole \in Attendees :
            /\ confChan' = [confChan EXCEPT ![sole] = IF @ = "up" THEN "dead" ELSE @]
            /\ finish(sole)
      BY <1>6, <2>3 DEF SoleSurvivorTimeout
    <3> QED BY <1>4, <2>1, <3>1
  <2> QED BY <2>2, <2>3
<1>7. ASSUME NEW c \in Attendees, LeaveRoom(c)
      PROVE  ConfInv'
  <2>1. leavePc[c] = "leave" /\ leavePc' = [leavePc EXCEPT ![c] = "publish"]
        /\ UNCHANGED <<confChan, confPc>>
    BY <1>7 DEF LeaveRoom
  <2> QED BY <2>1
<1>8. ASSUME NEW c \in Attendees, DestroyRoom(c) \/ startSoleSurvivorTimer(c)
      PROVE  ConfInv'
  <2>1. Left(c) /\ UNCHANGED confChan /\ leavePc[c] = "publish"
    BY <1>8 DEF DestroyRoom, startSoleSurvivorTimer
  <2> QED BY <2>1 DEF Left
<1>9. ASSUME NEW c \in Attendees, ConfHangsUp(c)
      PROVE  ConfInv'
  BY <1>9 DEF ConfHangsUp
<1>10. CASE UNCHANGED confVars
  BY <1>10 DEF confVars
<1> QED BY <1>1, <1>2, <1>3, <1>5, <1>6, <1>7, <1>8, <1>9, <1>10
        DEF ConfNext, ConfEnter, ConfLeave

(* The nodes that collect digits.  The timeout is armed by the step that    *)
(* begins to listen and cleared only by one that settles the attempt; the   *)
(* attempt that reaches the bound returns and resets both counters.         *)
InputInv == timeouts \in Nat /\ invalids \in Nat /\ InputTimed

(* Every step of the node preserves it.                                     *)
LEMMA InputInvStep ==
  ASSUME InputInv, [InputNext]_inputVars
  PROVE  InputInv'
<1> USE AttemptsAssumption DEF InputInv, InputTimed, inputConfig
<1>1. CASE StartNode \/ BeginAttempt \/ PromptEnds
  BY <1>1 DEF StartNode, BeginAttempt, PromptEnds, armTimeout
<1>2. ASSUME NEW d \in Digits, onDtmf(d)
      PROVE  InputInv'
  <2>1. /\ UNCHANGED <<timeouts, invalids>>
        /\ inputPc' = "settled" \/ UNCHANGED <<inputPc, inputTimer>>
    BY <1>2 DEF onDtmf, settle
  <2> QED BY <2>1
<1>3. CASE InterDigitTimeout \/ InputTimeout \/ CallerLeaves \/ onHangup
  BY <1>3 DEF InterDigitTimeout, InputTimeout, CallerLeaves, onHangup, settle
<1>4. CASE afterAttempt
  BY <1>4 DEF afterAttempt, InputReturns
<1>5. CASE UNCHANGED inputVars
  BY <1>5 DEF inputVars
<1> QED BY <1>1, <1>2, <1>3, <1>4, <1>5 DEF InputNext

(* Nothing in Stasis waits for what has passed: a session left at its       *)
(* call's end is the catch block's to drop (index.ts), a conference caller  *)
(* who has gone is on his way out or still to be refused                    *)
(* (conference.executor.ts), and a node that only listens has its timeout   *)
(* armed and attempts left (menu.executor.ts, executeGetDigits): for any    *)
(* calls, attendees, digits and bounds.                                     *)
THEOREM NobodyStrandedHolds == CallsSpec => []NobodyStranded
<1>1. CallsInit => SessionInv
  BY DEF CallsInit, CallInit, SessionInv, SessionsHeard
<1>2. CallsInit => ConfInv
  BY DEF CallsInit, ConfInit, ConfInv, CallersHeard
<1>3. CallsInit => InputInv
  BY AttemptsAssumption DEF CallsInit, InputInit, InputInv, InputTimed
<1>4. SessionInv /\ [CallsNext]_callsVars => SessionInv'
  BY CallsStep, SessionInvStep
<1>5. ConfInv /\ [CallsNext]_callsVars => ConfInv'
  BY CallsStep, ConfInvStep
<1>6. InputInv /\ [CallsNext]_callsVars => InputInv'
  BY CallsStep, InputInvStep
<1>7. SessionInv /\ ConfInv /\ InputInv => NobodyStranded
  BY DEF SessionInv, ConfInv, InputInv, NobodyStranded
<1> QED BY <1>1, <1>2, <1>3, <1>4, <1>5, <1>6, <1>7, PTL DEF CallsSpec
=============================================================================
