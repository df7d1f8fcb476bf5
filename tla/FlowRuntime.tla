------------------------------ MODULE FlowRuntime -----------------------------
(***************************************************************************)
(* The flow interpreter of one call: runFlow of stasis/src/runtime.ts with *)
(* its stack of subflows, the edge resolution of engine/edgeResolver.ts,   *)
(* the flows as flowLoader.ts loads them, and executeNode of nodes/index.ts*)
(* with the results its executors may return.                              *)
(*                                                                         *)
(* A flow is a record of nodes (key -> type) and edges; an edge without a  *)
(* condition has cond "null".  Several edges may carry the same condition: *)
(* the code takes the first of the array, the model any.                   *)
(***************************************************************************)
EXTENDS Naturals, Sequences, FiniteSets

CONSTANTS
  FlowIds, RootFlow,
  FlowNodes,    \* flow -> node key -> type
  FlowEdges,    \* flow -> set of [src, cond, branch, to]
  SubflowOf,    \* <<flow, menu node>> -> flow or "none": subflow_id
  BranchFlow,   \* <<flow, menu node, result>> -> flow or "none"
  BranchTarget, \* <<flow, menu node, result>> -> node key or "none"
  MaxStack      \* bound: subflows may call each other for ever

VARIABLES
  flowPc,      \* "enter", "execute", "route", "returned"
  flowStack,   \* frames [flow, menu]
  currentFlow, currentNode,
  nodeResult,
  channelUp,   \* the channel has not been hung up
  finalStatus, flowStatus,  \* the local variable; what runFlow returned
  flowEvents,  \* outcome events published by runFlow
  nodeLog      \* the call_node_logs row of the node: "none", "open", "closed"

flowVars == <<flowPc, flowStack, currentFlow, currentNode, nodeResult,
              channelUp, finalStatus, flowStatus, flowEvents, nodeLog>>

Keys(f) == DOMAIN FlowNodes[f]
TypeOf(f, k) == FlowNodes[f][k]

\* The start node, else the first one; a flow without nodes has none.
findEntryNode(f) ==
  LET starts == {k \in Keys(f) : TypeOf(f, k) = "start"}
  IN IF starts # {} THEN starts ELSE Keys(f)

\* loadFlowById: a published version of the flow, or null.
loadFlowById(f) == f \in FlowIds

FirstOf(candidates) ==
  LET found == {i \in DOMAIN candidates : candidates[i] # {}}
  IN IF found = {} THEN {}
     ELSE candidates[CHOOSE i \in found : \A j \in found : i <= j]

WithCond(es, cs) == {e \in es : e.cond \in cs}

resolveGetDigitsEdge(es, result) ==
  FirstOf(<<WithCond(es, {result}),
            IF result = "timeout" THEN {} ELSE WithCond(es, {"invalid"}),
            WithCond(es, {"default", "null"})>>)

\* The set of edges resolveNextEdge may return; none is null.
resolveNextEdge(k, type, result, edges) ==
  LET out == {e \in edges : e.src = k}
  IN IF type = "get_digits" THEN resolveGetDigitsEdge(out, result)
     ELSE IF \E e \in out : e.cond # "null"
     THEN FirstOf(<<WithCond(out, {result}), WithCond(out, {"default"}),
                    WithCond(out, {"null"})>>)
     ELSE FirstOf(<<{e \in out : e.branch = result},
                    {e \in out : e.branch = "default"},
                    WithCond(out, {"null"})>>)

IsWebhook(f, e) == e.to \in Keys(f) /\ TypeOf(f, e.to) = "webhook"

getRoutingEdgesExcludingWebhookTargets(f) ==
  {e \in FlowEdges[f] : ~IsWebhook(f, e)}

resolveWebhookEdge(f, k, type, result) ==
  resolveNextEdge(k, type, result, {e \in FlowEdges[f] : IsWebhook(f, e)})

isPostCompletionRoutableNode(type) ==
  type \in {"voicemail", "callback", "transfer", "hunt"}

\* executeBusinessHours looks the time up in the schedules; an executor that
\* plays a file goes on when it is over, or hangs up when it cannot.
BusinessHours == {"open", "closed"}
Playback == {"default", "hangup"}

\* What the executor of each type may return; "hangup" is also the result of
\* an executor that throws.
NodeResults(type) ==
  CASE type \in {"start", "set_variable", "branch", "group"} -> {"default"}
    [] type = "play_audio" -> Playback
    [] type = "get_digits" -> {"1", "timeout", "hangup"}
    [] type = "menu" -> {"1", "2", "hangup"}
    [] type = "business_hours" -> BusinessHours
    [] type \in {"transfer", "hunt"} -> {"done", "hangup", "route:n", "no_answer"}
    [] type \in {"voicemail", "callback"} -> {"done", "hangup"}
    [] type = "queue_login" -> {"authenticated", "failed", "hangup"}
    [] type = "queue" -> {"connected", "timeout", "hangup"}
    [] OTHER -> {"default", "done", "hangup"}

FlowInit ==
  /\ flowPc = "enter" /\ flowStack = <<>>
  /\ currentFlow = RootFlow
  /\ currentNode \in findEntryNode(RootFlow)
  /\ nodeResult = "none" /\ channelUp = TRUE
  /\ finalStatus = "completed" /\ flowStatus = "running"
  /\ flowEvents = <<>> /\ nodeLog = "none"

Returned(status) ==
  /\ flowPc' = "returned" /\ flowStatus' = status
  /\ finalStatus' = status
  /\ flowEvents' = Append(flowEvents, IF status = "failed" THEN "failed"
                                                           ELSE "ended")

GoOn(f, k, stack) ==
  /\ currentFlow' = f /\ currentNode' = k /\ flowStack' = stack
  /\ flowPc' = "enter"
  /\ UNCHANGED <<finalStatus, flowStatus, flowEvents>>

Stay == UNCHANGED <<currentFlow, currentNode, flowStack>>

\* returnToParentFlow with its caller's "continue", else the caller's break.
\* The frame is popped in any case.
ReturnToParentElse(status) ==
  IF flowStack = <<>> THEN Returned(status) /\ Stay
  ELSE LET frame == flowStack[Len(flowStack)]
           rest == SubSeq(flowStack, 1, Len(flowStack) - 1)
           es == resolveNextEdge(frame.menu, "menu", "complete",
                                 FlowEdges[frame.flow])
       IN IF es = {}
          THEN /\ Returned(status)
               /\ currentFlow' = frame.flow /\ flowStack' = rest
               /\ UNCHANGED currentNode
          ELSE \E e \in es : GoOn(frame.flow, e.to, rest)

\* The log row of a node; a failing statement is caught.
insertNodeLog == nodeLog' \in {"none", "open"}
updateNodeLog == nodeLog' \in IF nodeLog = "open" THEN {"open", "closed"}
                                                 ELSE {nodeLog}

\* The node is looked up and its log row inserted.
EnterNode ==
  /\ flowPc = "enter"
  /\ IF currentNode \in Keys(currentFlow)
     THEN /\ flowPc' = "execute"
          /\ insertNodeLog
          /\ Stay /\ UNCHANGED <<finalStatus, flowStatus, flowEvents>>
     ELSE ReturnToParentElse("failed") /\ UNCHANGED nodeLog
  /\ UNCHANGED <<nodeResult, channelUp>>

\* executeNode returns a result, or throws when its first telemetry cannot
\* be published; meanwhile the caller, or the node, may have hung up.
ExecuteNode ==
  /\ flowPc = "execute"
  /\ \/ /\ nodeResult' \in NodeResults(TypeOf(currentFlow, currentNode))
        /\ UNCHANGED finalStatus
     \/ nodeResult' = "hangup" /\ finalStatus' = "failed"
  /\ updateNodeLog
  /\ channelUp' \in {channelUp, FALSE}
  /\ flowPc' = "route"
  /\ Stay /\ UNCHANGED <<flowStatus, flowEvents>>

Type == TypeOf(currentFlow, currentNode)
Routing == flowPc = "route" /\ UNCHANGED <<nodeResult, nodeLog>>

PostCompletion == nodeResult = "done" /\ isPostCompletionRoutableNode(Type)

DoneEdges ==
  resolveNextEdge(currentNode, Type, "done",
                  getRoutingEdgesExcludingWebhookTargets(currentFlow))

\* A voicemail, callback, transfer or hunt that is done may have an edge to
\* go on by, or a webhook to call when the channel has ended.
RouteDone ==
  /\ Routing /\ PostCompletion
  /\ \/ \E e \in DoneEdges :
           /\ IF e.to \in Keys(currentFlow)
              THEN GoOn(currentFlow, e.to, flowStack)
              ELSE Returned("failed") /\ Stay
           /\ UNCHANGED channelUp
     \/ /\ DoneEdges = {}
        /\ resolveWebhookEdge(currentFlow, currentNode, Type, "done") # {}
        /\ channelUp' = FALSE     \* hangupAndWaitForSessionEnd
        /\ Returned(finalStatus) /\ Stay

\* Any other "done" or "hangup" hangs up, and goes on in the parent flow.
RouteHangup ==
  /\ Routing /\ nodeResult \in {"done", "hangup"}
  /\ ~(PostCompletion
         /\ (DoneEdges # {}
               \/ resolveWebhookEdge(currentFlow, currentNode, Type, "done") # {}))
  /\ channelUp' = FALSE
  /\ ReturnToParentElse(finalStatus)

\* "route:<key>" names the next node.
RouteNamed ==
  /\ Routing /\ nodeResult = "route:n"
  /\ GoOn(currentFlow, "n", flowStack)
  /\ UNCHANGED channelUp

NextEdges ==
  resolveNextEdge(currentNode, Type, nodeResult,
                  getRoutingEdgesExcludingWebhookTargets(currentFlow))

Ordinary == Routing /\ nodeResult \notin {"done", "hangup", "route:n"}

Push(sub, keys) ==
  \E k \in keys :
     GoOn(sub, k, Append(flowStack, [flow |-> currentFlow, menu |-> currentNode]))

\* The edge's target, here or in the menu's subflow.
RouteEdge ==
  /\ Ordinary /\ UNCHANGED channelUp
  /\ \E e \in NextEdges :
        LET sub == IF Type = "menu" THEN SubflowOf[<<currentFlow, currentNode>>]
                                    ELSE "none"
        IN IF e.to \in Keys(currentFlow) THEN GoOn(currentFlow, e.to, flowStack)
           ELSE IF sub = "none" \/ ~loadFlowById(sub)
           THEN ReturnToParentElse("failed")
           ELSE /\ Len(flowStack) < MaxStack
                /\ Push(sub, IF e.to \in Keys(sub) THEN {e.to}
                             ELSE IF findEntryNode(sub) # {} THEN findEntryNode(sub)
                             ELSE {e.to})

\* No edge: a menu may have a subflow for the branch.
RouteBranchSubflow ==
  /\ Ordinary /\ UNCHANGED channelUp
  /\ NextEdges = {} /\ Type = "menu"
  /\ LET sub == BranchFlow[<<currentFlow, currentNode, nodeResult>>]
     IN /\ sub # "none"
        /\ IF loadFlowById(sub) /\ findEntryNode(sub) # {}
           THEN Len(flowStack) < MaxStack /\ Push(sub, findEntryNode(sub))
           ELSE Returned("failed") /\ Stay

\* Or a node of its subflow as the branch's target.
RouteBranchTarget ==
  /\ Ordinary /\ UNCHANGED channelUp
  /\ NextEdges = {} /\ Type = "menu"
  /\ BranchFlow[<<currentFlow, currentNode, nodeResult>>] = "none"
  /\ LET sub == SubflowOf[<<currentFlow, currentNode>>]
         target == BranchTarget[<<currentFlow, currentNode, nodeResult>>]
     IN /\ target # "none"
        /\ IF sub # "none" /\ loadFlowById(sub) /\ target \in Keys(sub)
           THEN Len(flowStack) < MaxStack /\ Push(sub, {target})
           ELSE Returned("failed") /\ Stay

NoWayOn ==
  /\ Ordinary /\ NextEdges = {}
  /\ Type = "menu" =>
        LET b == <<currentFlow, currentNode, nodeResult>>
        IN BranchFlow[b] = "none" /\ BranchTarget[b] = "none"

\* An operator who has logged in stays on the line.
RouteLoggedIn ==
  /\ NoWayOn /\ Type = "queue_login" /\ nodeResult = "authenticated"
  /\ Returned(finalStatus) /\ Stay /\ UNCHANGED channelUp

\* Faulty variant: a dead end after a prompt is only logged.
RouteDeadEndPlayKeepsCall ==
  /\ NoWayOn /\ Type = "play_audio"
  /\ UNCHANGED channelUp
  /\ Returned(finalStatus) /\ Stay

\* A dead end after a prompt hangs up, even inside a subflow.
RouteDeadEndPlay ==
  /\ NoWayOn /\ Type = "play_audio"
  /\ channelUp' = FALSE
  /\ Returned(finalStatus) /\ Stay

RouteDeadEnd ==
  /\ NoWayOn /\ Type # "play_audio"
  /\ ~(Type = "queue_login" /\ nodeResult = "authenticated")
  /\ ReturnToParentElse("failed") /\ UNCHANGED channelUp

FlowNext ==
  \/ EnterNode \/ ExecuteNode \/ RouteDone \/ RouteHangup \/ RouteNamed
  \/ RouteEdge \/ RouteBranchSubflow \/ RouteBranchTarget \/ RouteLoggedIn
  \/ RouteDeadEndPlay \/ RouteDeadEnd

-----------------------------------------------------------------------------

(* A flow that ends as completed leaves nobody on a silent line: through   *)
(* every route, subflow and dead end the call has been hung up, except for *)
(* an operator who has logged in to a queue; and the outcome is published  *)
(* once, the one runFlow returns.                                          *)
CompletedFlowHangsUp ==
  /\ flowStatus = "completed" /\ channelUp
       => Type = "queue_login" /\ nodeResult = "authenticated"
  /\ Len(flowEvents) = (IF flowPc = "returned" THEN 1 ELSE 0)
  /\ flowPc = "returned" =>
       flowEvents[1] = (IF flowStatus = "failed" THEN "failed" ELSE "ended")
=============================================================================
