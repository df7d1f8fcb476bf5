# Callytics: a TLA+ verification project

Callytics is a self-hosted IVR and call-centre system: Asterisk carries the
calls, the *Stasis* process (`stasis/`, TypeScript) controls them over ARI, a
NestJS *backend* (`backend/`) keeps rows in PostgreSQL and serves a React
front end, and Redis carries messages (pub/sub) and shared sets between them.

The modules here model the parts of that system in which several handlers,
requests, timers or processes work on the same state between awaits: everything
Stasis does with a call, the campaign dialer, the queue and the callback
executor, the backend services that keep rows in step with files, host rules
and containers, and the pages of the front end that have state of their own.
TLC checks them on small instances; TLAPS proves every invariant that the
passing runs check, their action properties and the one refinement, for every
value of the constants; liveness is TLC's.

Contents: inventory, plan, modules and how they correspond to the code, runs,
disagreements found, fairness, proofs, what is not modelled.

## Inventory

The hard behaviour is the same everywhere: Node runs one handler at a time but
switches at every `await`, so a handler reads state, awaits Redis, PostgreSQL
or ARI, and writes state that others have changed meanwhile. Nothing locks.

| Component | State | Operations | Talks to | What makes it correct |
|---|---|---|---|---|
| Campaign dialer (`stasis/src/campaign-executor.ts`) | `runtimes`: per campaign the queue, `activeByChannel`, `stopRequested`; retry timers | `startCampaign`, `stopCampaign`, `fillWindow`/`dialContact`, `handleStasisStart`, `handleChannelEnd` | ARI originate and channel events; `campaign:*` channels | one call per contact, bounded attempts, window, a final row means the dialer is done with the contact, stop stops |
| Campaign backend (`backend/src/campaigns`) | `campaigns.status`, `campaign_contacts` | CRUD, `schedule`, `stop` with a 30 s fallback, cron `startDueCampaigns`, subscriptions | the dialer | only scheduling makes a campaign run; a stopped one settles; completed means done |
| Call queue (`queue.executor.ts`, `queue_login.executor.ts`, `queueManager.ts`) | Redis: free and busy operators, waiting list, channel keys | queue node, login node, logout, `connectNextCustomer`, `onCustomerHangup` | ARI bridges and channel events | a customer goes to one operator, an operator to one customer, nobody is lost, logout removes |
| Callback (`callback-execute.ts`, `callbackManager.ts`, `backend/src/callbacks`) | `callbacks.status`; the waiter map | execute, cancel, status subscription; the two-leg execution | `callback:execute`, `callback:status:update`; ARI | legs are matched to a waiting execution, executions end, the row ends final |
| Call lifecycle (`stasis/src/index.ts`, `callSession.ts`; `backend/src/call-logs`) | sessions, `failedCalls`, bridges, the `call_logs` row | StasisStart, StasisEnd, ChannelDestroyed, shutdown drain; the listener's statements | everything in Stasis; `call:events` | a session ends with its call; a record is opened once, closed once and keeps its outcome |
| Direct outbound calls, trunk tests (`index.ts`, `directOutboundManager.ts`, `trunks.service.ts`) | the call object, legs, test states, a Redis key | dial, answer, cleanup; start, poll | ARI, Redis | legs are released, one outcome, a poll is answered in the end |
| Flow interpreter (`runtime.ts`, `edgeResolver.ts`, `flowLoader.ts`) | flow, current node, subflow stack | `runFlow` | node executors, rows | a completed flow leaves nobody on the line, one outcome |
| Menu and digit nodes, queue login | keys, timers, attempts, queues logged in | keys, timeouts, hangups | ARI, Redis | the branch taken is what was pressed; the node returns; the logout undoes the login |
| Hunt, transfer, conference, callback node | waiters, legs, rooms | ring strategies, joins, timeouts | ARI | no leg left behind; the node returns; one callback per request |
| Webhooks, recordings and retention, backup, audio files | delivery log, rows, files, archives, timers | attempts and retries, save, delete, prune, restore, convert | HTTP, file system, `pg_dump`, `ffmpeg` | no retry after a success that was seen; rows and files agree |
| Asterisk configuration, VPN, firewall | rows, generated files, WireGuard peers, relay state, host rules | requests that save a row and then act on the host | Asterisk, Docker, `wg`, `iptables` | what the row says is in force, also after failures and restarts |
| Operators, queues, settings, campaign desk | rows, PIN texts | CRUD in separate statements | Redis, migrations | a PIN shown works; totals are true |
| Flow storage | flows, versions, snapshots | save, autosave, version, restore, import | the editor | history is not rewritten |
| Packet capture, log tail, call quality, live events | Redis streams, offsets, rows | relays, consumer groups, timers | Asterisk, the pages | observed once; the worst is kept; the search is complete |
| Flow editor, simulator, softphone, trunk panel, dashboard (`frontend/src`) | canvas, loads and saves under way, stacks, sessions, intervals | user actions and late answers | the REST API, sockets, SIP | a flow is overwritten only by its own drawing; nothing runs on unnoticed |
| Diagnostics, preflight, forms and tables, deployment | none the system depends on | reads | | |

`PROJECT.json` lists each of them with its status, and under `hazards` the
places where this code can go wrong in a way a test hardly reaches, each with
the properties about it; those no property covers are at the end of this file.

## Plan

1. *(done)* `CampaignDialer`, `CampaignSystem`, with proof of the dialer's
   inductive invariant; `CampaignDesk` before them, and restarts of Stasis.
2. *(done)* `CallQueue`, `QueueLogin`.
3. *(done)* `Callback` with proof of its invariants; `CallbackNode`.
4. *(done)* `CallLifecycle`, which refines `CallRecord`; `DirectOutbound`,
   `TrunkTest`.
5. *(done)* `FlowRuntime`, `DigitInput`, `Hunt`, `Transfer`, `Conference`.
6. *(done)* The backend: `Webhooks`, `Recordings`, `Backup`, `Audio`,
   `SipConfig`, `Vpn`, `Firewall`, `Directory`, `FlowStore`, `Capture`,
   `CallQuality`, `LogTail`.
7. *(done)* The pages: `FlowCanvas`, `FlowEditor`, `FlowSimulator`,
   `Softphone`, `TrunkPanel`, `Dashboard`.
8. *(done)* Proofs: the refinement of `CallRecord`, the queue, the campaign,
   and every invariant of `MCCalls` and `MCPlatform`; what the dialer
   guarantees carried over to the whole system and across crashes.
9. *(done)* What the code does when steps that were taken as one come apart:
   failures after a campaign call was placed, a late schedule request, status
   updates out of order, refused ARI requests with both parties there, answers
   a webhook sender never reads, `deleteBackup` await by await, overlapping
   updates of a flow.
10. Overlapping cron passes and a second runtime of one campaign, reordered
    contact updates, a crash of the backend while a campaign is cancelling, an
    operator in the sets of several queues.

## Modules

In all of them an action is the code from one `await` to the next one at which
another handler can be observed; program counters (`startPc`, `dialPc`,
`custPc`, `opPc`, `pc`, `cronPc`, ...) say which await a handler is at.
Asterisk and Redis appear as the events and replies the code handles.
Definitions marked *faulty variant* are plausible bugs; they are used by no
action and exist to show that each property can fail.

### CampaignDialer

One campaign of `N` contacts. A channel is the pair of a contact and the number
of the attempt. `queue`, `active`, `stopRequested`, `registered` and `tries`
are the fields of the `CampaignRuntime` and its contact objects; `retries` are
the `setTimeout`s, `reporting` the `handleChannelEnd` calls looking for the
call log, `announcing` the `dialContact` calls past `activeByChannel.set`,
`starting` the `handleStasisStart` calls loading the flow; `ringing`,
`inStasis` and `leaving` are Asterisk's side of the channels; `rowStatus` the
contact rows.

`FillWindow` is one turn of the loop in `fillWindow`; it also does what the
caller does when the loop exits, because `handleChannelEnd` checks for
completion then (`dialCheck` remembers whose loop it is). Several loops may run
at once. A dial may be rejected before or by Asterisk, may be recorded, or its
response may be lost after Asterisk created the channel. `StasisEnd` brings no
cause, `ChannelDestroyed` one; whichever comes first handles the call. A publish
may throw, and ends the loop it is made in (`LoopThrows`). The catch of
`dialContact` also covers what follows `activeByChannel.set`: when counting the
call or publishing it fails, the contact is published as `failed` while its call
is up, and may be busy and dialed again. `misreported` remembers those contacts,
and `FinalContactsLeft` makes no claim about them.

Abstracted: `busy` stands for `busy` and `no_answer`, which the code treats
alike; displayed counters and the attempt-history rows are never read back;
`campaign:contact:update` takes effect when it is published (the handlers'
awaits in the backend are not split); a campaign is started once (see
`CampaignSystem`).
`DialerInv` is the inductive invariant of the proofs.

### CampaignSystem

Extends the dialer with the backend: the cron pass (select, conditional
update, unconditional publish), `stop` (read, publish, write, arm the
fallback), the fallback (read, write) and the subscription that writes
`completed` or `cancelled`. `toStasis` and `toBackend` are the Redis channels,
in order. The campaign is initially scheduled, due and complete enough to have
been scheduled (how it got there is `CampaignDesk`). `schedule` reads `draft`
and writes `scheduled` without asking again, so a second request may still have
to write (`LateSchedule`). It brings a campaign that runs, or was stopped, back to
`scheduled`, and a later cron pass runs it again; `rescheduled` remembers that.
`RestartedOnlyBySchedule` says that nothing else does. The second runtime a second
start message makes in Stasis is not modelled, and `DialerGuarantees` says nothing
of the contacts then. Cron passes follow one another. `StasisRestarts` is a crash
of the Stasis process: runtimes and timers are gone, messages meanwhile are
lost, and nothing reads back the running campaigns, while their channels live
on in Asterisk and end without a runtime. A crash of the backend
would lose the fallback timers too, and a cancelling campaign then waits for
another stop request.

### CallQueue

One queue. An operator logged in to several queues has one channel key for all
of them (`queue_login.executor.ts:409`), so that handlers of two queues can both
take it and give it two customers: the properties speak of the customers of the
modelled queue only. Every Redis command is a step of its own. `custPc`, `custOp`,
`custLeg` and `custNext` are the locals of a customer's `executeQueue` (with
`onCustomerHangup` and `connectNextCustomer`, which that handler runs), `opPc`
and `opCust` those of an operator's `executeQueueLogin`. `opChan[o]` holds the
number of the login call whose channel Redis names, so a stale channel of an
earlier login is visible. A hangup is heard only by a handler that listens at
that moment, exactly as the listeners are attached in the code. A caller who hangs up
after he was added to the bridge and before the handler listens
(`queue.executor.ts:267`) is heard by nobody: the handler talks for ever and the
operator stays busy. `QueueNodeSettles` therefore promises the release only to a
handler that listened while the caller was there. The LREM of a
caller who hangs up is not awaited before the connection is closed, so it may
be lost. ARI may refuse any request; Redis and PostgreSQL answer.

### Callback

One callback row and up to `MaxExecutes` execute requests, because the backend
reads the status, awaits and writes without a condition. Each execution dials
an operator leg and a customer leg; `waiter` is the map of
`callbackManager.ts`, keyed by callback and leg and therefore shared by the
executions: registering replaces, and a timer rejects whatever waiter it finds.
`held` is the channel each wait was answered with, which may have been
originated by another execution. The backend's subscriber starts an async handler
for each status message and none waits for another, so `HandleStatusUpdate` applies
them in any order, and an update may fail. A `dialing` update that lands after
`completed` leaves the row there for good; `astray` remembers that, or that a
final update was lost, and `RowSettled` holds otherwise. The two early returns of the Stasis side that
publish nothing test fields the backend always fills, and do not occur; a
customer without a trunk always takes the early failure, because the dial
string the backend builds for it is not one `parseCustomerTrunkEndpoint`
accepts.

### Calls: the modules of `MCCalls`

A leg is `up` (or `in` Stasis), `dead` once Asterisk has hung it up and
refuses requests, and `gone` when its end event was handled. An ARI request may
fail or lose its answer at any time; in the hunt and the transfer a hangup is taken
to succeed.

- `CallLifecycle`, `CallRecord`. `CallRecord` is the abstract specification of
  a call's record: opened once, closed once, a failure recorded before the end
  stays. `CallLifecycle` has the listeners, the sessions, the drain and the
  statements of the call-log listener, which may be lost, doubled or executed
  in any order; `CallLogRecords` says that it implements `CallRecord` under the
  mapping of the row. `SessionEnds` concerns the session that is created after
  the lookups and perhaps after the StasisEnd.
- `DirectOutbound`: the handler of a `#number` call, the waiter, and the
  cleanup any of four events may start. Excluded by name: a cleanup that began
  before the outbound leg was known (`blind`) cannot hang it up.
- `TrunkTest`: the test call and its Redis key. A state stored again by the
  originate's answer is removed by nobody; the report settles because the key
  expires.
- `FlowRuntime`, on the flows of `MCFlowGraph`: `runFlow` with subflows, branch
  targets, webhook edges and dead ends. Edge resolution is translated case by
  case; where several edges match, the model takes any.
- `DigitInput`: `menu` and `get_digits`. `get_digits` registers its listener on
  the client and on the channel (`nodes/index.ts:317`), so that one press
  counts twice in two-digit mode; `MenuAsPressed` is therefore about menus.
- `Hunt`, `Transfer`: each leg's own waiter and timeout. Known gaps the
  invariants name: a group leg that answered before its originate was read, when
  the caller had ended or that answer was lost; a transfer leg that answers when
  nobody waits, or whose join fails because the caller left. When a request of the
  transfer is refused with everybody there (a bridge, an `addChannel`, the
  recording), the catch returns and hangs up nobody, and the called party stays up
  (`trRefused`), although `docs/testing.md:139` expects no orphan channel. The hunt
  hangs the winner up in that case. A recording that cannot be saved sends a
  finished transfer down `on_no_answer`.
- `Conference`: two first joiners each make a room object for one bridge;
  called participants are never taken out of the room's set, and a caller who
  left before being added stays counted. A moderator reads whether the room is
  empty before he is added (`foundEmpty`). The node returns all the same.
- `CallbackNode`, `QueueLogin`. Handlers of customers take the operator out of a
  queue and put him back, also after he has logged out (`queueManager.ts:132`);
  `readded` remembers the queues where that was so, and `LogoutUndoesLogin` says
  that he is in no other when the node goes on. A Redis error half way through a
  login leaves the executor with the earlier queues still logged in; a repeated
  digit within 80 ms is lost.

### Platform: the modules of `MCPlatform`

- `SipConfig`: rows, files and what Asterisk loaded. Overlapping requests can
  leave files of an older read (`overlapped`); a crash between removing an ACL
  file and rewriting the endpoints leaves a dangling include until the start
  repairs it.
- `Vpn`: peers, relay tasks, keys. Known gaps: a peer revoked before its own
  `createPeer` added it stays live (`earlyRevoke`); overlapping relay tasks
  (`relayMixed`); revoked rows keep their address although the error for a full
  subnet (`vpn.service.ts:958`) advises to revoke one; two first requests for
  the relay's keys can store halves of different pairs.
- `Firewall`: one address. Expiry and whitelisting leave the DROP rule in
  place, and an unblock uses the mode configured now, so the converse of
  `BlockedIsEnforced` does not hold.
- `Recordings`: `persistSessionRecording` sets `endedAt` before it tests it, so
  the live recording is never stopped explicitly (`docs/how-it-works.md:171`
  says it is); a hangup during a voicemail leaves a file without a row.
- `Backup`: the dump contains its own row as running; a restore replaces the
  database before it looks at the volumes. After a restore nothing is claimed.
  `deleteBackup` is the lookup, the unlink and the row's deletion, each with the
  failure or crash that may follow; `safeUnlink` swallows its errors. Two ways to a
  stray archive are marked (`overlooked`) and excluded: an unlink that failed, and
  a job found complete after a deletion had unlinked and before it dropped the row.
  A crash leaves the running row, and the archive, of the job it ended.
- `Audio`: the ulaw file is never removed, and a removal during the conversion
  leaves files; neither makes a ready file unplayable.
- `Webhooks`: retries live in timers of the backend and die with it. What the
  target did (`received`) is kept apart from what the sender saw: an answer may be
  lost, or its body not read within the timeout, so the target may succeed twice.
  `DeliveredOnce` says when an attempt may follow one that succeeded: after a network
  error that the log shows and the settings retry.
- `FlowStore`, on the drawings of `MCPlatform`: versions of a root flow, its
  submenu and an imported copy. A request is a transaction, READ COMMITTED and
  without a lock. Updates and renames overlap: each reads version numbers (`basis`)
  and later writes from them. One that others have overtaken rewrites a version that
  has a successor, takes `currentVersionId` back, or brings a deleted flow back;
  `overtaken` remembers that, and `HistoryKept` holds otherwise. `createVersion` and
  `restoreVersion` are single steps: they add a version numbered after the latest
  they read, and the unique index on the numbers
  (`migrations/004_flow_versions.sql:4`) rolls back whichever comes second.
  `createSubflow` (`flows.service.ts:983`) is not called. Deleting a submenu
  makes older root versions unrestorable, and a restored version 1 of an
  imported copy writes into the template's submenu.
- `Directory`: every boot replays all migrations, of which one drops
  `operators.pin` and a later one adds it, so texts are lost at each restart,
  which is also what keeps them from becoming stale. The save of a stale entity
  can bring back a deleted operator.
- `CampaignDesk`: uploads, edits and scheduling in separate statements; two
  uploads can import a number twice, and the total still counts rows.
- `Capture`, `CallQuality`, `LogTail`: what is read once and what is lost. A
  relay that starts at `$` passes over packets; entries a consumer had read
  before a restart stay pending for ever, because its name is random; an error
  in one log line drops the rest of the pass. The search for the
  lines of a call is the loop of `filterByCallContextWithCorrelation`, a line
  at a time: nothing runs beside it, and as single turns it can be proved to
  reach the least closed set of lines. A line stands for the channels and
  bridges it names (`names`) and whatever can be found in it (`text`).
- `FlowCanvas`, `FlowEditor`, `FlowSimulator` (on the flows of `MCPlatform`):
  the drawing, the requests around it, the dry run. Four ways in which a drawing can
  still overwrite another flow are marked (`crossed`) and excluded:
  `FlowEditorPage.tsx:764`, `:449`, `:1489`, `:1128`. A late submenu answer can
  revive a simulation that was reset.
- `Softphone`, `TrunkPanel`, `Dashboard`: a second incoming call drops the first
  from the panel; a late poll answer shows the older test's status; calls that
  end while the dashboard is disconnected stay listed (`missed`).

### MC modules and proof modules

`MCDialer` and `MCQueue` instantiate one specification each; `CampaignSystem`
and `Callback` are checked as they stand. `MCCalls` and `MCPlatform` hold
several components that share no state in the code: `subject` is chosen in the initial
state and only that component moves, so that one run explores each of them
completely. `LegsReleased`, `PublishedOnce`, `NobodyStranded`, `SearchComplete`,
`RowsMatchFiles`, `VpnStateTrue`, `ObservedOnce`, `CanvasAndSimulator` and
`PagesKeepUp` join properties of one kind; each part has its own definition and
faulty variant. `DialerGuarantees` joins what the dialer guarantees with the
types of the whole system; the types of the callback and the queue are proved
(`CallbackTypeCorrect`, `QueueTypeCorrect`) and not run. The theorems are in
`CampaignDialerProofs`, `CampaignSystemProofs`, `CallQueueProofs`,
`CallbackProofs`, `CallsProofs` (about `MCCalls`), `PlatformProofs` and
`PagesProofs` (both about `MCPlatform`).

## Runs

| Run | Instance | Checks | Result |
|---|---|---|---|
| `dialer` | 2 contacts, window 1, 1 retry | `OneCallPerContact`, `AttemptsBounded`, `FinalContactsLeft`, `StopEndsDialing` | hold, 3.2 million states |
| `campaign` | 1 contact, window 1, no retry, 2 stops, 1 late schedule request, 1 restart of Stasis | `DialerGuarantees`, `RestartedOnlyBySchedule`, `StopSettles` | hold, 790 thousand states |
| `queue` | 2 customers, 2 operators (one with a PSTN number), 1 login each | `CustomerGivenOnce`, `OperatorAccounted`, `OneConversation` | hold, 1.2 million states |
| `queue_settles` | 2 customers, 1 operator, 2 logins | `QueueNodeSettles` | holds, 220 thousand states |
| `callback` | 2 executions and a cancel | `NoStaleWaiter`, `LegsHeldOnce`, `RowSettled`, `ExecutionSettles` | hold, 820 thousand states |
| `calls` | each component of `MCCalls` in turn: 1 call, 2 hunt legs, 2 conference callers, 2 digits, 2 queues | `LegsReleased`, `CompletedFlowHangsUp`, `MenuAsPressed`, `PublishedOnce`, `LogoutUndoesLogin`, `NobodyStranded`, `CallLogRecords` (refinement), `SessionEnds`, `DirectCallSettles`, `TestReportSettles`, `InputSettles`, `ConferenceReturns` | hold, 74 thousand states |
| `platform` | each component of `MCPlatform` in turn: 2 concurrent requests, 1 or 2 rows, 2 versions | `FilesFollowRows`, `VpnStateTrue`, `RowsMatchFiles`, `BlockedIsEnforced`, `CanvasAndSimulator`, `EditorWritesItsFlow`, `PagesKeepUp`, `ShownPinWorks`, `TotalsTrue`, `ObservedOnce`, `QualityKeepsWorst`, `SearchComplete`, `HistoryKept` | hold, 1.0 million states |
| `campaign_window` | as `dialer` | `WindowRespected` | violated |
| `campaign_completed` | 1 contact, 1 retry, nobody stops | `CompletedMeansDone` | violated |
| `campaign_contacts` | 2 contacts, pages of 1, no retry | `CompletedDialsAll` | violated |
| `queue_logout` | 1 operator, 2 logins | `LogoutRemoves` | violated |
| `callback_cancel` | 1 execution and a cancel | `CancelsOnlyPending` | violated |

Why the bounds are enough. *dialer*: two loops need a channel's end and a
retry timer at once, hence two contacts and one retry; a third contact or a
wider window adds loops of the same kinds, and the theorems cover every size.
`FewFinished` bounds how many finished messages pile up when stop messages
keep coming; nothing in the dialer reads them. *campaign*: the second stop is
what lets two handlers write a cancelling campaign, and one late schedule request
is enough to bring a campaign back from every status. Retries are the dialer's
(`dialer`, with one); the theorems cover any number here too. *queue*: two of each make
a hangup's `connectNextCustomer` compete with a login and with another
caller's pop. Properties about an operator are restricted to the first login
where they fail for the reason `LogoutRemoves` shows (what an earlier login
left behind); the second login is covered by the two one-operator runs.
*callback*: two executions are the least that share the waiters; the theorems
cover any number. *calls*: calls share no state but the session count, so one
is enough for the lifecycle; two legs make a group with a winner and a loser,
two callers race for a room. *platform*: the races are between two requests, or
a request and a background task, on one row; restarts, failures and retries are
bounded by the constants named for them. `NotExcluded` stops where a property
no longer claims anything (after a restore of the database, an overlooked archive,
an overtaken update, a crossing in the editor). `OnlyCopyUpdated` bounds the flow
store of a template: its requests do not overlap, and once it has been copied
only the copy is updated or renamed. A root and its submenu that are not a
template have two overlapping requests throughout.

Deadlock checking is off in all runs: calls end, requests are used up, and the
system may then be idle for ever.

## Disagreements found

- **Window** (`campaign-executor.ts:332`): the docs call max concurrency the
  maximum of simultaneous active calls; two loops can both pass the test
  before either originate is recorded.
- **Completion and retries** (`campaign-executor.ts:278`): a campaign is
  completed, and its runtime deleted, while retry timers run; the retried call
  is then hung up for want of a runtime.
- **Contacts past the page** (`campaign-executor.ts:449`,
  `campaigns.service.ts:330`): the dialer asks for 1000 contacts, the backend
  returns at most 200, and nobody asks again.
- **Logout** (`queueManager.ts:132`): a customer's handler puts an operator who
  logged out meanwhile back into the Redis sets.
- **Cancel** (`callbacks.service.ts:300`): cancel and execute race, and a
  callback being dialed is cancelled.

Seen in the code and not given a run: `queue.executor.ts:231` says PSTN members
are out of scope while the code below calls them; `pending` updates of a
contact insert no attempt row although the docs promise the full history; a
campaign all of whose dials fail without a channel never completes, because
only a channel's end checks for completion; an operator who logs in between a
caller's `sCard` and `rPush` is free while that caller waits. The gaps the
properties name are in the code as well: a stopped campaign put back by an
overlapping schedule request, a contact published as failed while its call is up,
an operator of two queues taken by both, a caller's hangup that is heard by nobody
while the bridge is built, a status update that overtakes another, a called party
left up by a refused transfer, an archive whose unlink failed, a webhook target
that succeeds twice, a flow's version rewritten by an overtaken update.

## Fairness

- *campaign*: the backend's begun handlers run to their end, its timers fire
  and its subscription is served (weak fairness of those actions). Users,
  called parties and the dialer owe nothing, so `StopSettles` rests on the
  fallback alone, as the code intends.
- *queue*: awaited commands of a caller's handler are answered, and the
  max-wait timer fires. Nobody has to log in, answer or hang up.
- *callback*: requests, the execution's own steps, the timers and the delivery
  of messages. Legs need not answer or hang up, so an execution may stay
  connected for ever, and `ExecutionSettles` says so.
- *calls*: a handler waiting for ARI gets an answer or an error, events that are
  due are delivered, timers fire and Redis drops expired keys. Callers and
  called parties need do nothing.
- *platform* has safety properties only: nothing there promises that a failing
  command succeeds in the end.

Node's event loop, `setTimeout` and an available Redis, PostgreSQL and ARI
justify these. Crashes are actions without fairness (`StasisRestarts`, the
restarts of the backend in the platform modules).

## Proofs

The theorems hold for every value of the constants that satisfies the named
assumptions; where a specification of `MCCalls` or `MCPlatform` chooses its
`subject`, one lemma per component (`FirewallSteps`, `CaptureSteps`, ...) says
that a step of another component leaves it alone, and the rest of the proof is
about the component's own next-state relation. Each proof has the same form: an
invariant `...Inv`, a lemma for every action that does something to it, a lemma
`...InvStep` for the whole step, and the theorem.

### Assumptions

Positive or natural numbers where the code has a number: `DialerAssumption`,
`MaxStopsAssumption`, `ExecutesAssumption`, `AttemptsAssumption`,
`HookAssumption`, `LogAssumption`, `CaptureAssumption`, `QualityAssumption`.
Names that are told apart: `QueueAssumption` and `RecordingAssumption` (the mark
for nobody is no customer, no two recordings share a file name),
`PinAssumption` (a PIN is not the mark for none), `SipAssumption` and
`PayloadAssumption` (the states a trunk's row and a drawing can be in).
`CanvasAssumption`: finitely many identifiers, among them those of the loaded
flow; the palette offers no start node. `SimAssumption`: edges lead to nodes of
their flow and submenus to flows, which is what the editor saves.

### Campaigns and callbacks

`CampaignDialerProofs`:

- `DialerTypeCorrect`;
- `DialerInvariant`: `DialerInv` is inductive together with `TypeOK`. Neither
  `OneCallPerContact` nor `FinalContactsLeft` is inductive alone. The argument
  is about where a contact can be: in the queue, being dialed, or *traced* by a
  channel (alive, active or waiting for a retry), in one of these only and with
  one channel (`QueuedAreUntraced`, `DialedAreUntraced`, `OneTrace`). The
  delicate point is the retry: a timer is armed only if the cause says busy,
  only `ChannelDestroyed` brings a cause, and the channel is gone by then;
  `StasisEnd`, after which the channel still exists, never arms one.
  `TriesBounded` carries the attempt count through timers and queue, and
  `FinalHaveLeft` extends `FinalContactsLeft` to the outcomes still being
  reported. `FillStep` is the lemma every action that turns the loop cites;
- `OneCallPerContactHolds`, `AttemptsBoundedHolds`, `FinalContactsLeftHolds`
  follow; `StopEndsDialingHolds` is an action property.

`CampaignSystemProofs`: `SystemTypeCorrect` (`SystemInv` counts the fallback
timers against the stop requests: each armed at most one) and, as an action
property, `RestartedOnlyByScheduleHolds`. `DialerGuaranteesHolds` carries
`OneCallPerContact`, `AttemptsBounded` and `FinalContactsLeft` over to the whole
system, where Stasis may crash. `DialerInv` is not an invariant there: it says
that a dialer which has not started has no calls, and after a crash there are
calls it has forgotten. `CrashInv` therefore has two modes. Either the dialer is
within `DialerInv` and the start message is sent and received once
(`StartedOnce`), so that a crash before it forgets nothing; or the dialer is
`Forgotten`: the start message is gone, nothing is queued, dialed or timed, and
the channels left in Asterisk only end. That the start message is sent once
needs that a pass past its UPDATE leaves nothing to find for the next one
(`CronOver`), which holds until a late schedule request writes (`RunInv`). The steps
of the first mode reuse
`InvStep` of the dialer. `StopEndsDialingEndToEnd` does the same for
`StopEndsDialing`. `StopIsTimed` is the part of `StopSettles` that is not about
time: a cancelling campaign has a timer that will cancel it, or a handler that
is about to.

`CallbackProofs`:

- `CallbackTypeCorrect`; `NoStaleWaiterHolds` (inductive with the types: every
  step that ends a wait also clears the map's entry for it);
- `RowSettledHolds`, from `LastIsFinal`: when the last execution ends, the last
  message it published is final, so the queue of messages ends with a final
  status or the row already has one, in whatever order the others are applied,
  until one is `astray`;
- `LegsHeldOnceHolds`, from `NoStaleWaiter`, `HeldAnswered` and `FreshLegs`: a
  channel is handed out when it stops ringing, and a held one never rings again.

### The queue

`CallQueueProofs`:

- `QueueTypeCorrect` (a handler that is at work for somebody names him);
- `CustomerGivenOnceHolds`: the list holds a customer once and only while nobody
  holds him and he has not been given away (`ListedAreFree`); whoever is held or
  given was pushed before (`GivenWerePushed`), so no second push follows;
- `OperatorAccountedHolds`, `OneConversationHolds`: in the first login an
  operator is entering and nowhere, or present in exactly one place, and the
  customer bridged with him is the one of the handler that marked him busy
  (`FirstLogin`, `EnteringNowhere`, `PresentSomewhere`, `Conversations`). The
  restriction to the first login is needed: `LogoutRemoves` fails.

### Calls

`CallsProofs`:

- `CallLogRecordsHolds`: `CallLifecycle` implements `CallRecord`. Every
  statement of the listener maps to a step of the abstract record or to a
  stutter, in any order of the events; `LogInv` says that a row with an end or a
  reason exists;
- `LegsReleasedHolds`, three arguments. Direct calls (`DirectInv`): the leg's
  channel is known only after it answered, and past its hangups the cleanup has
  left no leg up that it knew of. Transfer (`TransferInv`): the waiter's state
  bounds the leg's; a leg that has ended takes the caller with it. Hunt
  (`HuntInv`): an answered leg is the winner, being hung up, or still awaited,
  and the sequential strategy settles one attempt before the next;
- `PublishedOnceHolds`. An announced call is tracked by its caller's leg or
  has had its cleanup begun, and a caller who went before he was tracked cannot
  be bridged (`AnnouncedInv`); what is left of `DirectCallSettles` is that the
  handlers go on. For a callback, the flag `published` says whether the one
  request was sent (`CallbackInv`);
- `NobodyStrandedHolds`, three arguments about what is still to come. A session
  left at its call's end was registered too late, by a listener whose requests
  the channel refuses, so that the catch block drops it (`SessionInv`). A
  conference caller who has gone is still to be refused, or `finish` runs, and
  the node has not gone back to waiting behind it, whichever of the answer to
  `addChannel` and the caller's end came first (`ConfInv`). A node that only
  listens for digits has its timeout armed and attempts left (`InputInv`);
- `CompletedFlowHangsUpHolds`: `FlowInv` describes a running flow, which has
  published nothing, and a returned one;
- `MenuAsPressedHolds`: a menu hears each key once, so what it has collected is
  what was pressed in this attempt;
- `LogoutUndoesLoginHolds`: while he is being logged out the operator is only in
  queues still to be done and queues he was put back into, and the PIN that let him
  in is still there (`PinInv`).

### The backend's services

`PlatformProofs`:

- `BlockedIsEnforcedHolds`: a blocked row without a rule has a handler that is
  about to set the rule or to delete the row;
- `RowsMatchFilesHolds`: the file of a deletion under way is that of its row,
  and is gone before the row is (`DeletionsTrue`); the conversion has made what
  its program counter says (`AudioInv`); a backup that is not overlooked and whose
  job is over has no archive once a deletion is past its unlink, nor without a row,
  until a restore replaces the history (`BackupInv`);
- `VpnStateTrueHolds`: whoever is about to add a peer to the server has a row
  that nobody is revoking (`PeerInv`), and what the relay task under way has
  done so far is so (`RelayInv`), but for `earlyRevoke` and `relayMixed`;
- `FilesFollowRowsHolds`: requests are lists of steps, so `SipInv` says for each
  position in the list which files are right already (`ExtReached`,
  `RouteReached`, `TrunkReached`), and that without an overlap one request runs;
- `ShownPinWorksHolds`: a text kept in the column or the process is that of the
  row, or a request that will replace it is the only one about that operator
  (`DirectoryInv`);
- `TotalsTrueHolds`: an upload under way has not inserted the numbers it still
  holds (`CampaignInv`);
- `QualityKeepsWorstHolds`: a call's row is the worst of the reports merged so
  far, its score that of one of them (`RowOf`); the entries of the stream are
  numbered and a read takes the lowest, for which `RankOccupied` counts elements
  below one another;
- `ObservedOnceHolds`: three invariants. A delivery's program counter and rows
  agree, only its last row can be a success, and every attempt but the last that
  the target answered with success is logged as a network error (`HookInv`). A line handed over
  or in a pass lies before the offset, and no two passes share one (`TailInv`).
  Every packet has one entry among stream and batch, entries ascend, and a
  packet with a row has an entry no later than the one last asked for; the
  stream exceeds its length by no more than the trims under way (`CaptureInv`);
- `SearchCompleteHolds`: `SearchInv` is the invariant of the loop. What is
  included so far lies in every set of lines that is connected with the call
  (`OnlyConnected`), its tokens are those collected (`TokensOfFound`), and while
  a pass has changed nothing the lines behind it hold no token that would
  include them (`NothingMissed`); a pass that ends unchanged has all lines behind
  it. It ends: every pass followed by another one has included a line
  (`EveryPassIncluded`), so there are fewer than lines;
- `HistoryKeptHolds`, an action property: every request that was not overtaken
  maps the versions to ones that continue them (`Continues`), because a current
  version is the last of a present root and the autosave reaches no other
  (`StoreInv`); an update that was not overtaken writes from numbers that are still
  those of its flow and its root (`UpdateStep`), and a rename or a row that comes
  back changes no number without being overtaken (`RequestStep`).

### The pages

`PagesProofs`:

- `PagesKeepUpHolds`: `PhoneInv`, `PanelInv`, and for the dashboard `BoardInv`,
  which says of the events on the wire in which order they are about a call and
  what has been heard of it (`Behind`);
- `EditorWritesItsFlowHolds`: `EditorKeeps`: every drawing that is held by a
  load, a retry, a timer or a save is one of the flow it goes to. It is
  inductive only while nothing has `crossed`;
- `CanvasAndSimulatorHolds`: `CanvasInv` says of the canvas *and* of the
  clipboard that nodes are in groups and edges follow the rules; what was
  copied may have left its group behind, which is why the paste consults the
  identifiers it gives (`PasteStep`). `PasteNames` shows that there are such
  identifiers, one to one, when enough are unused. `SimInv` says that stack and
  menus have the same height and that a state a late answer may bring back was
  a running one.

### Only model-checked

- Liveness (`StopSettles`, `QueueNodeSettles`, `ExecutionSettles`,
  `SessionEnds`, `DirectCallSettles`, `TestReportSettles`, `InputSettles`,
  `ConferenceReturns`), which is beyond this prover; `StopIsTimed`,
  `PublishedOnce` and `NobodyStranded` are what can be said without time of
  `StopSettles`, `DirectCallSettles`, `SessionEnds`, `InputSettles` and
  `ConferenceReturns`: what the end waits for is on its way.
- The properties of the runs that are violated do not hold, and have no theorem.

## Not modelled

- Diagnostics and preflight, which only inspect; forms, tables and charts of the
  front end; start-up scripts, logging and number formatting; the deployment
  files.
- Parts of modelled components: internal calls between extensions, IP
  authentication of trunks, drafts of the editor that were never saved,
  an operator's other queues, a second runtime of a campaign scheduled again, hangups
  that ARI refuses in a hunt or a transfer, seeding of templates.
- Hazards no property covers, because no code or document promises anything
  there: overlapping cron passes that start a campaign twice
  (`campaigns.service.ts:550`); contact updates written out of order (`:599`);
  a max-wait timer that continues the flow of a caller who is talking
  (`queue.executor.ts:337`); answered legs left up by a failed callback
  execution (`callback-execute.ts:384`); a callback row that stays
  `dialing_operator` after a database error (`callback-execute.ts:200`) or a
  crash of the backend before its publish (`callbacks.service.ts:277`).
- Failures of PostgreSQL are modelled where the code catches them (the call-log
  listener, the configuration writers), not elsewhere.
