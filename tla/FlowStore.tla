------------------------------- MODULE FlowStore ------------------------------
(***************************************************************************)
(* Call flows and their versions: flows.service.ts and templates.service.ts*)
(* of the backend.  A flow has numbered versions, each with node and edge  *)
(* rows and a snapshot; a root flow's snapshot also holds its submenu's.   *)
(* One root flow, one submenu of it and one copy imported from it when it  *)
(* is a template.  A request is a transaction, READ COMMITTED and without a*)
(* lock: an update or a rename writes from the version numbers it has read,*)
(* though others may have committed since.  Publishing and restoring number*)
(* their version after the latest they have read; the unique index on the  *)
(* numbers rolls them back when it is taken, so that they are single steps.*)
(* What the versions hold is read when a request commits.                  *)
(***************************************************************************)
EXTENDS Naturals, Sequences

CONSTANTS
  Payloads,    \* flows the editor may send: [body, layout, handles], what
               \* the flow does, where it is drawn, its edges' handles
  MaxVersions, \* bound on the versions of a flow
  StoreRequests \* the updates and renames under way at once

ASSUME PayloadAssumption ==
  Payloads \subseteq [body : STRING, layout : Nat, handles : BOOLEAN]

VARIABLES
  flowRow,     \* per flow: "absent", "present", "deleted"
  versions,    \* per flow: a sequence of [nodes, snapshot]
  currentVersionId,
  isTemplate,  \* the root flow is one of the seeded templates
  basis,     \* the numbers each update or rename under way has read
  overtaken    \* one has written from numbers that had changed since

storeVars == <<flowRow, versions, currentVersionId, isTemplate, basis, overtaken>>

StoredFlows == {"root", "sub", "copy"}
NoSub == [body |-> "none", layout |-> 0, handles |-> FALSE]

Latest(vs, f) == Len(vs[f])
Rows(vs, cur, f) == vs[f][cur[f]].nodes
Present(f) == flowRow[f] = "present"
Room(f) == Len(versions[f]) < MaxVersions

\* buildSnapshotFromPayload has no flowId; the root's has.
SubflowSnapshots(vs, cur, f) ==
  IF f = "root" /\ Present("sub") THEN Rows(vs, cur, "sub") ELSE NoSub

buildSnapshotForSave(f, nodes) ==
  [owner |-> IF f = "sub" THEN "none" ELSE f, nodes |-> nodes,
   sub |-> SubflowSnapshots(versions, currentVersionId, f)]

buildFullTreeSnapshot(vs, cur) ==
  [owner |-> "root", nodes |-> Rows(vs, cur, "root"),
   sub |-> SubflowSnapshots(vs, cur, "root")]

WithoutLayout(s) ==
  [s EXCEPT !.nodes.layout = 0, !.sub.layout = 0]

snapshotsAreStructurallyEqual(a, b) == WithoutLayout(a) = WithoutLayout(b)

replaceVersionSnapshot(vs, f, v, s) ==
  [vs EXCEPT ![f][v] = [nodes |-> s.nodes, snapshot |-> s]]

createStoredVersion(vs, f, s, nodes) ==
  [vs EXCEPT ![f] = Append(@, [nodes |-> nodes, snapshot |-> s])]

NotBegun == [flow |-> "none"]
Unread == [latest |-> 0, current |-> 0]
Numbers(f) == [latest |-> Latest(versions, f), current |-> currentVersionId[f]]

FlowStoreInit ==
  /\ isTemplate \in BOOLEAN
  /\ flowRow = [f \in StoredFlows |-> "absent"]
  /\ versions = [f \in StoredFlows |-> <<>>]
  /\ currentVersionId = [f \in StoredFlows |-> 0]
  /\ basis = [r \in StoreRequests |-> NotBegun]
  /\ overtaken = FALSE

\* A payload is refused, before anything is written, when a node lacks a
\* setting it needs ("unset"), or when there is no start node, a timeout is
\* out of range or an edge joins nodes that may not be joined ("unwired").
ValidNodes(p) == p.body # "unset"
ValidGraph(p) == ValidNodes(p) /\ p.body # "unwired"

create(f) ==
  /\ flowRow[f] = "absent" /\ f # "copy"
  /\ f = "sub" => Present("root")
  /\ flowRow' = [flowRow EXCEPT ![f] = "present"]
  /\ \E nodes \in {p \in Payloads : ValidGraph(p)} :
       versions' = [versions EXCEPT ![f] =
         <<[nodes |-> nodes, snapshot |-> buildSnapshotForSave(f, nodes)]>>]
  /\ currentVersionId' = [currentVersionId EXCEPT ![f] = 1]
  /\ UNCHANGED <<isTemplate, basis, overtaken>>

\* An update reads its flow's row and latest version, a rename the row.
readFlow(r, f) ==
  /\ Present(f) /\ basis[r] = NotBegun
  /\ basis' = [basis EXCEPT ![r] = [flow |-> f, own |-> Numbers(f), root |-> Unread]]
  /\ UNCHANGED <<flowRow, versions, currentVersionId, isTemplate, overtaken>>

\* An update of a submenu goes on to the root's row and latest version.
readRoot(r) ==
  /\ basis[r].flow = "sub" /\ Present("root") /\ basis[r].root = Unread
  /\ basis' = [basis EXCEPT ![r].root = Numbers("root")]
  /\ UNCHANGED <<flowRow, versions, currentVersionId, isTemplate, overtaken>>

\* It ends without writing: it is refused, nothing is to be changed, a flow
\* or a version is gone, or the number of a new version is taken.
requestEnds(r) ==
  /\ basis[r] # NotBegun
  /\ basis' = [basis EXCEPT ![r] = NotBegun]
  /\ UNCHANGED <<flowRow, versions, currentVersionId, isTemplate, overtaken>>

UpToDate(read) ==
  /\ Present(read.flow) /\ read.own = Numbers(read.flow)
  /\ read.root \in {Unread, Numbers("root")}

Commits(r) ==
  /\ basis[r] # NotBegun
  /\ basis' = [basis EXCEPT ![r] = NotBegun]
  /\ overtaken' = (overtaken \/ ~UpToDate(basis[r]))
  /\ UNCHANGED isTemplate

\* After a submenu is autosaved, the root's current version takes the tree.
AutoSaveRoot(f, v, vs, cur) ==
  IF f # "sub" THEN vs
  ELSE replaceVersionSnapshot(vs, "root", v, buildFullTreeSnapshot(vs, cur))

updateAutoSave(read, next) ==
  LET f == read.flow
      cur == [currentVersionId EXCEPT ![f] = read.own.latest]
      own == replaceVersionSnapshot(versions, f, read.own.latest, next)
  IN /\ versions' = AutoSaveRoot(f, read.root.current, own, cur)
     /\ currentVersionId' = cur

\* A save rewrites version v while only the layout has changed since the last
\* one, and adds one otherwise, which must be the first with its number.
SaveFlow(f, next, v, last, vs, cur) ==
  IF snapshotsAreStructurallyEqual(vs[f][last].snapshot, next)
  THEN {[versions |-> replaceVersionSnapshot(vs, f, v, next), current |-> cur]}
  ELSE {[versions |-> createStoredVersion(vs, f, next, next.nodes),
         current |-> [cur EXCEPT ![f] = n]] : n \in {last + 1} \cap {Latest(vs, f) + 1}}

SaveTree(saved, v) ==
  SaveFlow("root", buildFullTreeSnapshot(saved.versions, saved.current), v, v,
           saved.versions, saved.current)

\* The latest version of a root flow is read again, that of a submenu is not.
updateSave(read, next) ==
  LET f == read.flow
      v == read.own.latest
      last == IF f = "sub" THEN v ELSE Latest(versions, f)
  IN /\ Room(f) /\ (f = "sub" => Room("root"))
     /\ \E own \in SaveFlow(f, next, v, last, versions, [currentVersionId EXCEPT ![f] = v]) :
          \E all \in IF f = "sub" THEN SaveTree(own, read.root.latest) ELSE {own} :
             versions' = all.versions /\ currentVersionId' = all.current

\* update: a payload equal to the latest snapshot changes nothing.
update(r) ==
  LET read == basis[r]
  IN /\ Commits(r) /\ Present(read.flow)
     /\ read.flow = "sub" => read.root # Unread
     /\ \E nodes \in {p \in Payloads : ValidGraph(p)} :
          LET next == buildSnapshotForSave(read.flow, nodes)
          IN /\ next # versions[read.flow][read.own.latest].snapshot
             /\ updateAutoSave(read, next) \/ updateSave(read, next)
     /\ UNCHANGED flowRow

\* rename writes the whole row back, its current version included.
rename(r) ==
  /\ Commits(r) /\ Present(basis[r].flow)
  /\ currentVersionId' = [currentVersionId EXCEPT ![basis[r].flow] = basis[r].own.current]
  /\ UNCHANGED <<flowRow, versions>>

\* Saving the row of a flow deleted meanwhile inserts it again; an update
\* inserts the version it rewrites as well.
rowComesBack(r) ==
  LET f == basis[r].flow
  IN /\ Commits(r) /\ flowRow[f] = "deleted"
     /\ flowRow' = [flowRow EXCEPT ![f] = "present"]
     /\ currentVersionId' = [currentVersionId EXCEPT ![f] = basis[r].own.current]
     /\ \/ UNCHANGED versions
        \/ \E nodes \in {p \in Payloads : ValidGraph(p)} :
             versions' = createStoredVersion(versions, f, buildSnapshotForSave(f, nodes), nodes)

isImmediateHangupSnapshot(s) == s.nodes.body = "hangup"

\* Faulty variant: the new version does not become the current one
createVersionNotCurrent ==
  LET s == buildFullTreeSnapshot(versions, currentVersionId)
      previous == versions["root"][Latest(versions, "root")].snapshot
  IN /\ Present("root") /\ Room("root")
     /\ ~isImmediateHangupSnapshot(s)
     /\ ~snapshotsAreStructurallyEqual(previous, s)
     /\ versions' = createStoredVersion(versions, "root", s, s.nodes)
     /\ UNCHANGED <<currentVersionId, flowRow, isTemplate, basis, overtaken>>

\* Publishing the tree as it stands, unless the latest version is the same.
createVersion ==
  LET s == buildFullTreeSnapshot(versions, currentVersionId)
      previous == versions["root"][Latest(versions, "root")].snapshot
  IN /\ Present("root") /\ Room("root")
     /\ ~isImmediateHangupSnapshot(s)
     /\ ~snapshotsAreStructurallyEqual(previous, s)
     /\ versions' = createStoredVersion(versions, "root", s, s.nodes)
     /\ currentVersionId' = [currentVersionId EXCEPT !["root"] = Latest(versions', "root")]
     /\ UNCHANGED <<flowRow, isTemplate, basis, overtaken>>

\* The submenu of the snapshot is restored into the flow it came from,
\* which must still be there: otherwise the transaction is rolled back.
restoreSubflowSnapshots(vs, s) ==
  IF s.sub = NoSub THEN vs
  ELSE createStoredVersion(vs, "sub", [owner |-> "sub", nodes |-> s.sub, sub |-> NoSub], s.sub)

\* The restored edges lose their handles, the snapshot keeps them.
restoreVersion(f) ==
  /\ Present(f) /\ Room(f)
  /\ \E v \in DOMAIN versions[f] :
       LET s == versions[f][v].snapshot
           own == createStoredVersion(versions, f, s, [s.nodes EXCEPT !.handles = FALSE])
       IN /\ s.sub # NoSub => Present("sub") /\ Room("sub")
          /\ versions' = restoreSubflowSnapshots(own, s)
          /\ currentVersionId' =
               [g \in StoredFlows |-> IF g = f \/ (g = "sub" /\ s.sub # NoSub)
                                      THEN Latest(versions', g) ELSE currentVersionId[g]]
  /\ UNCHANGED <<flowRow, isTemplate, basis, overtaken>>

\* A flow goes with its submenus and all their versions.
remove(f) ==
  LET gone == IF f = "root" THEN {"root", "sub"} ELSE {f}
  IN /\ Present(f)
     /\ flowRow' = [g \in StoredFlows |-> IF g \in gone THEN "deleted" ELSE flowRow[g]]
     /\ versions' = [g \in StoredFlows |-> IF g \in gone THEN <<>> ELSE versions[g]]
     /\ currentVersionId' = [g \in StoredFlows |-> IF g \in gone THEN 0 ELSE currentVersionId[g]]
     /\ UNCHANGED <<isTemplate, basis, overtaken>>

\* The copy takes the template's snapshot as it is, submenu included.
importTemplate ==
  /\ isTemplate /\ Present("root") /\ flowRow["copy"] = "absent"
  /\ flowRow' = [flowRow EXCEPT !["copy"] = "present"]
  /\ LET v == versions["root"][currentVersionId["root"]]
     IN versions' = createStoredVersion(versions, "copy", v.snapshot,
                                        [v.nodes EXCEPT !.handles = FALSE])
  /\ currentVersionId' = [currentVersionId EXCEPT !["copy"] = 1]
  /\ UNCHANGED <<isTemplate, basis, overtaken>>

StoreRequest(r) ==
  \/ \E f \in StoredFlows : readFlow(r, f)
  \/ readRoot(r) \/ update(r) \/ rename(r) \/ rowComesBack(r) \/ requestEnds(r)

FlowStoreNext ==
  \/ \E f \in StoredFlows : create(f) \/ restoreVersion(f) \/ remove(f)
  \/ createVersion \/ importTemplate
  \/ \E r \in StoreRequests : StoreRequest(r)

\* A version that has a successor is never rewritten, unless an update or a
\* rename that others overtook has written: saves, autosaves of a submenu and
\* restores only touch the newest version of a flow, which the autosave
\* reaches through the root's currentVersionId.
HistoryKept ==
  [][~overtaken' =>
       \A f \in StoredFlows : flowRow'[f] = "present" =>
         \A v \in DOMAIN versions[f] :
           v < Len(versions[f]) => versions'[f][v] = versions[f][v]]_storeVars
===============================================================================
