----------------------------- MODULE FlowCanvas -----------------------------
(***************************************************************************)
(* The flow editor's canvas: the nodes and edges of the flow on the screen *)
(* (useFlowCanvas), the selection, the clipboard and the mapping of what   *)
(* is saved and read back (FlowEditorPage.helpers).  Coordinates, labels   *)
(* and node configuration are left out: which group a node is dropped into *)
(* is a choice, and a node's configuration is its type and, for nodes of   *)
(* older flows, the menu whose group they belong to.                       *)
(***************************************************************************)
EXTENDS Naturals, FiniteSets, Functions

CONSTANTS CanvasIds,     \* identifiers of nodes
          PaletteTypes,  \* the types dropped from the palette
          Branches,      \* the digits a menu offers
          MaxCanvasEdges, \* bound: edges on the canvas
          MaxCopied      \* bound: nodes on the clipboard

\* The identifiers hold the nodes of a loaded flow and not the mark of a node
\* outside every group; the palette offers no second start node.
ASSUME CanvasAssumption ==
    /\ IsFiniteSet(CanvasIds) /\ {1, 2, 3} \subseteq CanvasIds /\ 0 \notin CanvasIds
    /\ "start" \notin PaletteTypes

VARIABLES cnodes,   \* the nodes on the canvas, by identifier
          cedges,   \* the edges: source, target and condition
          clip      \* the copied selection

canvasVars == <<cnodes, cedges, clip>>

NoParent == 0
StartId == 1
Plain == "default"

TerminalTypes == {"hangup", "transfer", "voicemail", "callback", "queue_login"}
StartTargets == {"play_audio", "menu", "business_hours", "transfer", "hunt", "queue", "queue_login", "hangup", "conference", "webhook", "callback", "voicemail"}
DigitSources == {"start", "play_audio", "menu", "business_hours", "webhook"}
LoginSources == {"start", "menu", "play_audio", "get_digits"}
NoVoicemail == {"queue_login", "hunt", "transfer", "queue"}

Kind(n) == cnodes[n].type
IsGroup(n) == Kind(n) = "group"
Placed == DOMAIN cnodes
Groups == {g \in Placed : IsGroup(g)}
\* identifiers are fresh (a time and an index): which one is immaterial
Unused == CanvasIds \ Placed
FreshIds == IF Unused = {} THEN {} ELSE {CHOOSE n \in Unused : TRUE}
\* buildCanvasNode, inside group p or on the pane
buildCanvasNode(type, p) == [type |-> type, parent |-> p, menu |-> NoParent]

\* Types a connection may join, whatever the handles.
TypesConnect(s, t) ==
    \/ t = "webhook"
    \/ /\ s \notin TerminalTypes
       /\ \/ s = "webhook" /\ t # "start"
          \/ /\ s # "webhook"
             /\ s = "start" => t \in StartTargets
             /\ t = "get_digits" => s \in DigitSources
             /\ t = "queue_login" => s \in LoginSources
             /\ t = "voicemail" => s \notin NoVoicemail

isValidBuilderConnection(s, t) == s # t /\ TypesConnect(Kind(s), Kind(t))

\* A menu's handles carry its digits; business hours are left to the palette.
Handles(s) == IF Kind(s) = "menu" THEN Branches ELSE {Plain}

\* The flow that is loaded: a start node, or a flow with a menu and a node
\* of that menu's group.
CanvasInit ==
    /\ cnodes \in {[n \in {StartId} |-> buildCanvasNode("start", NoParent)],
                   [n \in {StartId, 2, 3} |->
                      CASE n = 2 -> buildCanvasNode("menu", NoParent)
                        [] n = 3 -> [buildCanvasNode("hangup", NoParent) EXCEPT !.menu = 2]
                        [] OTHER -> buildCanvasNode("start", NoParent)]}
    /\ cedges = IF 2 \in Placed
                THEN {[s |-> StartId, t |-> 2, c |-> Plain]}
                     \cup {[s |-> 2, t |-> 3, c |-> b] : b \in Branches}
                ELSE {}
    /\ clip = [nodes |-> <<>>, edges |-> {}]

Touching(ns) == {e \in cedges : e.s \in ns \/ e.t \in ns}

---------------------------------------------------------------------------
(* Nodes.                                                                   *)

handleDrop ==
    \E n \in FreshIds, type \in PaletteTypes, p \in Groups \cup {NoParent} :
        /\ cnodes' = [m \in Placed \cup {n} |-> IF m = n THEN buildCanvasNode(type, p) ELSE cnodes[m]]
        /\ UNCHANGED <<cedges, clip>>

\* The node is left where it was dropped, or inside the group under it.
handleNodeDragStop ==
    \E n \in Placed, p \in Groups :
        /\ ~IsGroup(n)
        /\ cnodes' = [cnodes EXCEPT ![n].parent = p]
        /\ UNCHANGED <<cedges, clip>>

\* removeNodeFromGroup, for the nodes inside the groups gs.
Freed(ns, gs) == [n \in DOMAIN ns |-> IF ns[n].parent \in gs THEN [ns[n] EXCEPT !.parent = NoParent] ELSE ns[n]]

\* What deleting n takes with it: a menu takes the nodes of its group.
RemovedWith(n) == {n} \cup (IF Kind(n) = "menu" THEN {m \in Placed : cnodes[m].menu = n} ELSE {})

\* deleteNode for each of ns in turn; the start node stays.
deleteNodes(ns) ==
    LET gone == UNION {RemovedWith(n) : n \in {m \in ns : Kind(m) # "start"}}
        rest == Restrict(cnodes, Placed \ gone)
    IN /\ cnodes' = Freed(rest, {g \in gone : IsGroup(g)})
       /\ cedges' = cedges \ Touching(gone)
       /\ UNCHANGED clip

\* The button on a node; a group has none.
DeleteButton == \E n \in Placed : ~IsGroup(n) /\ deleteNodes({n})

---------------------------------------------------------------------------
(* Edges.                                                                   *)

\* A hunt node has one route besides its webhooks.
HuntRouted(s, t) ==
    /\ Kind(s) = "hunt" /\ Kind(t) # "webhook"
    /\ \E e \in cedges : e.s = s /\ Kind(e.t) # "webhook"

onConnect ==
    \E s, t \in Placed \ Groups : \E h \in Handles(s) :
        /\ isValidBuilderConnection(s, t)
        /\ ~HuntRouted(s, t)
        /\ [s |-> s, t |-> t, c |-> h] \notin cedges
        /\ Cardinality(cedges) < MaxCanvasEdges
        /\ cedges' = cedges \cup {[s |-> s, t |-> t, c |-> h]}
        /\ UNCHANGED <<cnodes, clip>>

\* The edge keeps its condition; a duplicate leaves everything as it was.
onReconnect ==
    \E e \in cedges, s, t \in Placed \ Groups :
        /\ isValidBuilderConnection(s, t)
        /\ [e EXCEPT !.s = s, !.t = t] \notin cedges
        /\ cedges' = (cedges \ {e}) \cup {[e EXCEPT !.s = s, !.t = t]}
        /\ UNCHANGED <<cnodes, clip>>

\* The condition typed for the selected edge of a menu or of get digits: a
\* digit, or nothing.
handleEdgeConditionChange ==
    \E e \in cedges, c \in Branches \cup {Plain} :
        /\ [e EXCEPT !.c = c] \notin cedges
        /\ Kind(e.s) \in {"menu", "get_digits"}
        /\ cedges' = (cedges \ {e}) \cup {[e EXCEPT !.c = c]}
        /\ UNCHANGED <<cnodes, clip>>

deleteEdge(e) ==
    /\ cedges' = cedges \ {e}
    /\ UNCHANGED <<cnodes, clip>>

---------------------------------------------------------------------------
(* Selection and groups.                                                    *)

\* What a click, a box or a key held selects: any of the nodes.
handleSelectionChange == SUBSET Placed

canGroupSelection(ns) ==
    Cardinality(ns) >= 2 /\ \A n \in ns : ~IsGroup(n) /\ cnodes[n].parent = NoParent

handleGroupSelection ==
    \E ns \in handleSelectionChange, g \in FreshIds :
        /\ canGroupSelection(ns)
        /\ cnodes' = [n \in Placed \cup {g} |->
                        IF n = g THEN buildCanvasNode("group", NoParent)
                        ELSE IF n \in ns THEN [cnodes[n] EXCEPT !.parent = g] ELSE cnodes[n]]
        /\ UNCHANGED <<cedges, clip>>

handleUngroupSelection ==
    \E g \in Groups :
        /\ cnodes' = Freed(Restrict(cnodes, Placed \ {g}), {g})
        /\ UNCHANGED <<cedges, clip>>

handleRemoveFromGroup ==
    \E n \in Placed :
        /\ ~IsGroup(n) /\ cnodes[n].parent # NoParent
        /\ cnodes' = [cnodes EXCEPT ![n].parent = NoParent]
        /\ UNCHANGED <<cedges, clip>>

\* Delete or Backspace: the selected edge, else the group is opened, else
\* the selected nodes go.
handleKeyDown ==
    \/ \E e \in cedges : deleteEdge(e)
    \/ handleUngroupSelection
    \/ \E ns \in handleSelectionChange :
        /\ ~ \E g \in Groups : ns = {g}
        /\ \E n \in ns : Kind(n) # "start"
        /\ deleteNodes(ns)

---------------------------------------------------------------------------
(* Copy and paste.                                                          *)

\* A group brings the nodes inside it.
expandClipboardSelectionNodes(ns) == ns \cup {n \in Placed : cnodes[n].parent \in ns}

buildClipboardSelection ==
    \E chosen \in handleSelectionChange \ {{}} :
        LET ns == expandClipboardSelectionNodes(chosen)
        IN /\ Cardinality(ns) <= MaxCopied
           /\ clip' = [nodes |-> Restrict(cnodes, ns), edges |-> {e \in cedges : e.s \in ns /\ e.t \in ns}]
           /\ UNCHANGED <<cnodes, cedges>>

\* Faulty variant: a copy stays in the group its original is in
PastedParentKept(id, p) == IF p \in DOMAIN id THEN id[p] ELSE p

\* A copy is put in the copy of its original's group, else in none.
PastedParent(id, p) == IF p \in DOMAIN id THEN id[p] ELSE NoParent

\* The nodes that are pasted: all that were copied but a start node.
Copied == {n \in DOMAIN clip.nodes : clip.nodes[n].type # "start"}

\* New identifiers for the copies; a copied start stands for the one there is.
CopyIds == CHOOSE f \in [DOMAIN clip.nodes -> Unused \cup {StartId}] :
              /\ IsInjective(f)
              /\ \A n \in DOMAIN f : f[n] = StartId <=> n \notin Copied

\* Node o as it is pasted.
Pasted(id, o) == [clip.nodes[o] EXCEPT !.parent = PastedParent(id, @)]

\* Edges into the copied start are dropped.
buildPastedClipboardSelection ==
    /\ Copied # {}
    /\ Cardinality(cedges) + Cardinality(clip.edges) <= MaxCanvasEdges
    /\ Cardinality(Copied) <= Cardinality(Unused)
    /\ LET id == CopyIds
       IN /\ cnodes' = [n \in Placed \cup {id[o] : o \in Copied} |->
                          IF n \in Placed THEN cnodes[n]
                          ELSE Pasted(id, CHOOSE o \in Copied : id[o] = n)]
          /\ cedges' = cedges \cup {[e EXCEPT !.s = id[e.s], !.t = id[e.t]] :
                                      e \in {d \in clip.edges : d.t \in Copied}}
    /\ UNCHANGED clip

---------------------------------------------------------------------------
(* What a save keeps and the next load shows: groups first, then their      *)
(* nodes; edges of a menu without a digit are not persisted.                *)
createSavePayload == {e \in cedges : Kind(e.s) = "menu" => e.c \in Branches}

SaveAndReload ==
    /\ cedges' = createSavePayload
    /\ UNCHANGED <<cnodes, clip>>

CanvasNext ==
    \/ handleDrop \/ handleNodeDragStop \/ DeleteButton
    \/ onConnect \/ onReconnect \/ handleEdgeConditionChange
    \/ handleGroupSelection \/ handleRemoveFromGroup \/ handleKeyDown
    \/ buildClipboardSelection \/ buildPastedClipboardSelection
    \/ SaveAndReload

---------------------------------------------------------------------------
(* However nodes are dropped, grouped, copied, pasted and deleted, the     *)
(* canvas is a flow that can be saved: one start node, no edge without     *)
(* both its nodes, none that the connection rules refuse, and no node      *)
(* inside a group that is gone.                                            *)
CanvasConsistent ==
    /\ {n \in Placed : Kind(n) = "start"} = {StartId}
    /\ \A e \in cedges : {e.s, e.t} \subseteq Placed /\ TypesConnect(Kind(e.s), Kind(e.t))
    /\ \A n \in Placed : cnodes[n].parent # NoParent => cnodes[n].parent \in Groups
=============================================================================
