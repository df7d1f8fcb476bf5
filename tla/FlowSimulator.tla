---------------------------- MODULE FlowSimulator ----------------------------
(***************************************************************************)
(* components/FlowSimulator/FlowSimulator.tsx: the dry run of a flow in    *)
(* the editor.  It keeps a stack of the menus it went into and a stack of  *)
(* the flows it runs, and makes the page below show the flow of the top.   *)
(* A submenu is fetched from the server, and its answer is applied to the  *)
(* simulation as it was when the branch was pressed.                       *)
(***************************************************************************)
EXTENDS Sequences, FiniteSets, Naturals

CONSTANTS SimFlows,    \* the flow of the page and the flows of its submenus
          SimRoot,     \* rootFlowId
          SimNodes,    \* flow -> its nodes, and a type for each
          SimEdges,    \* flow -> its edges: [from, branch, to]
          SimSubmenus, \* flow -> its submenus: [from, branch, flow]
          MaxFetches   \* bound: answers outstanding

\* The editor draws an edge between nodes of its flow only (FlowCanvas), and a
\* submenu names a flow.
ASSUME SimAssumption ==
  /\ SimRoot \in SimFlows
  /\ \A f \in SimFlows : /\ \A e \in SimEdges[f] : e.to \in DOMAIN SimNodes[f]
                         /\ \A s \in SimSubmenus[f] : s.flow \in SimFlows

VARIABLES
  sim,      \* simState, or NoSim
  fetches,  \* the submenus asked for: [base, sub], base the state at that time
  simOpen,  \* the panel is mounted
  simPage,  \* currentFlowId of the page
  drawn     \* the flow whose nodes and edges the page passes down

simVars == <<sim, fetches, simOpen, simPage, drawn>>

NoSim == [node |-> "none"]

SimInit ==
  /\ sim = NoSim /\ fetches = {} /\ simOpen = FALSE
  /\ simPage \in SimFlows /\ drawn = simPage

Running == sim # NoSim /\ ~sim.done
Frame(s) == s.flows[Len(s.flows)]
SimType(f, n) == SimNodes[f][n]
getOutgoingEdges(f, n) == {e \in SimEdges[f] : e.from = n}
isTerminalType(t) == t \in {"hangup", "transfer", "voicemail", "hunt", "queue", "callback"}

\* The only edge, or the default one.
resolveAutoAdvance(f, n) ==
  {e.to : e \in IF Cardinality(getOutgoingEdges(f, n)) = 1 THEN getOutgoingEdges(f, n)
                ELSE {d \in getOutgoingEdges(f, n) : d.branch = "default"}}

(*************************** starting and ending ***************************)

OpenSim ==
  /\ ~simOpen /\ simOpen' = TRUE /\ sim' = NoSim
  /\ UNCHANGED <<fetches, simPage, drawn>>

CloseSim ==
  /\ simOpen /\ simOpen' = FALSE /\ sim' = NoSim
  /\ UNCHANGED <<fetches, simPage, drawn>>

\* What the page has drawn is taken for the main flow.
startSim ==
  /\ simOpen /\ sim = NoSim /\ "start" \in DOMAIN SimNodes[drawn]
  /\ sim' = [node |-> "start", done |-> FALSE, deadEnd |-> FALSE, menus |-> <<>>,
             flows |-> <<[id |-> 0, of |-> drawn]>>]
  /\ UNCHANGED <<fetches, simOpen, simPage, drawn>>

resetSim ==
  /\ simOpen /\ sim # NoSim
  /\ sim' = NoSim /\ simPage' = SimRoot
  /\ UNCHANGED <<fetches, simOpen, drawn>>

\* The page has loaded the flow it shows.
PageLoads ==
  /\ drawn # simPage /\ drawn' = simPage
  /\ UNCHANGED <<sim, fetches, simOpen, simPage>>

(********************************** steps **********************************)

\* Back to the menu with the flows left: on along its complete edge, else its
\* default one, else the simulation is over.
ReturnTo(s, flows) ==
  LET n == Len(s.menus)
      menu == s.menus[n]
      parent == flows[n].of
      out == getOutgoingEdges(parent, menu)
      next == {e.to : e \in IF \E e \in out : e.branch = "complete"
                            THEN {e \in out : e.branch = "complete"}
                            ELSE {e \in out : e.branch = "default"}}
      back == [s EXCEPT !.menus = SubSeq(s.menus, 1, n - 1), !.flows = flows]
  IN IF next = {} \/ menu \notin DOMAIN SimNodes[parent] THEN [back EXCEPT !.done = TRUE]
     ELSE [back EXCEPT !.node = CHOOSE t \in next : TRUE, !.deadEnd = FALSE]

\* Faulty variant: the submenu's flow stays on the stack.
returnKeepsFlow(s) == ReturnTo(s, s.flows)

returnFromSubmenu(s) == ReturnTo(s, SubSeq(s.flows, 1, Len(s.menus)))

\* The flow the page is told to show on the way back.
PageAfterReturn(s) ==
  IF Len(s.menus) > 1 THEN s.flows[Len(s.menus)].id ELSE SimRoot

\* A branch with an edge is followed, where a default edge that comes first
\* in the list serves for any branch.
advanceToBranch(b) ==
  /\ simOpen /\ Running
  /\ LET f == Frame(sim).of
         out == {e \in getOutgoingEdges(f, sim.node) : e.branch \in {b, "default"}}
         subs == {s \in SimSubmenus[f] : s.from = sim.node /\ s.branch = b /\ SimType(f, sim.node) = "menu"}
     IN \/ \E e \in out : sim' = [sim EXCEPT !.node = e.to, !.deadEnd = FALSE] /\ UNCHANGED fetches
        \/ /\ out = {} /\ UNCHANGED sim
           /\ Cardinality(fetches) < MaxFetches
           /\ \E s \in subs : fetches' = fetches \cup {[base |-> sim, sub |-> s.flow]}
        \/ out = {} /\ subs = {} /\ sim' = [sim EXCEPT !.done = TRUE] /\ UNCHANGED fetches
  /\ UNCHANGED <<simOpen, simPage, drawn>>

\* The submenu arrives: pushed onto the stacks of the state it was asked in.
SubflowArrives(q) ==
  /\ fetches' = fetches \ {q}
  /\ sim' = IF ~simOpen THEN sim
            ELSE IF "start" \notin DOMAIN SimNodes[q.sub] THEN [q.base EXCEPT !.done = TRUE]
            ELSE [q.base EXCEPT !.node = "start", !.deadEnd = FALSE,
                                !.menus = Append(@, q.base.node),
                                !.flows = Append(@, [id |-> q.sub, of |-> q.sub])]
  /\ simPage' = IF "start" \in DOMAIN SimNodes[q.sub] THEN q.sub ELSE simPage
  /\ UNCHANGED <<simOpen, drawn>>

SubflowFails(q) ==
  /\ fetches' = fetches \ {q}
  /\ UNCHANGED <<sim, simOpen, simPage, drawn>>

\* The end button of a node that may end the call.
completeCurrentStep ==
  /\ simOpen /\ Running
  /\ SimType(Frame(sim).of, sim.node) \in {"voicemail", "transfer", "hunt", "hangup", "callback"}
  /\ IF sim.menus # <<>>
     THEN sim' = returnFromSubmenu(sim) /\ simPage' = PageAfterReturn(sim)
     ELSE sim' = [sim EXCEPT !.done = TRUE] /\ UNCHANGED simPage
  /\ UNCHANGED <<fetches, simOpen, drawn>>

\* The effect run after each state: nodes without a choice are passed, and a
\* node without an edge leads back to the menu or is a dead end.
autoAdvance ==
  /\ simOpen /\ Running
  /\ LET f == Frame(sim).of
         t == SimType(f, sim.node)
         out == getOutgoingEdges(f, sim.node)
     IN \/ /\ t \in {"start", "group", "webhook"} /\ out # {}
           /\ \E to \in resolveAutoAdvance(f, sim.node) : sim' = [sim EXCEPT !.node = to, !.deadEnd = FALSE]
           /\ UNCHANGED simPage
        \/ /\ out = {} /\ ~isTerminalType(t) /\ sim.menus # <<>>
           /\ sim' = returnFromSubmenu(sim) /\ simPage' = PageAfterReturn(sim)
        \/ /\ out = {} /\ ~isTerminalType(t) /\ sim.menus = <<>> /\ ~sim.deadEnd
           /\ sim' = [sim EXCEPT !.deadEnd = TRUE] /\ UNCHANGED simPage
  /\ UNCHANGED <<fetches, simOpen, drawn>>

\* The buttons of the current step: the branches it has, those of a menu's
\* configuration, and open and closed.
Buttons ==
  IF ~Running THEN {}
  ELSE LET f == Frame(sim).of
           has == {e.branch : e \in getOutgoingEdges(f, sim.node)}
       IN CASE SimType(f, sim.node) = "menu" ->
                 (has \cup {s.branch : s \in SimSubmenus[f]} \cup {"1", "2"}) \ {"default"}
            [] SimType(f, sim.node) = "business_hours" -> {"open", "closed"}
            [] SimType(f, sim.node) = "play_audio" -> {"default"}
            [] SimType(f, sim.node) \in {"queue", "queue_login", "conference"} ->
                 IF has = {} THEN {"default"} ELSE has
            [] SimType(f, sim.node) \in {"start", "group", "webhook"} -> {}
            [] OTHER -> has

SimNext ==
  \/ OpenSim \/ CloseSim \/ startSim \/ resetSim \/ PageLoads
  \/ \E b \in Buttons : advanceToBranch(b)
  \/ \E q \in fetches : SubflowArrives(q) \/ SubflowFails(q)
  \/ completeCurrentStep \/ autoAdvance

-----------------------------------------------------------------------------
(* While a simulation runs, the node it stands on is a node of the flow on *)
(* top of its stack, there is one flow more than menus, and inside a       *)
(* submenu the page below shows that submenu: also when the answer for a   *)
(* submenu arrives after a reset, after another branch was taken, or       *)
(* after the answer for another one.                                       *)
SimulatorFramesAgree ==
  Running =>
    /\ Len(sim.flows) = Len(sim.menus) + 1
    /\ sim.node \in DOMAIN SimNodes[Frame(sim).of]
    /\ sim.menus # <<>> => simPage = Frame(sim).id
=============================================================================
