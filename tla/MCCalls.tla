-------------------------------- MODULE MCCalls --------------------------------
(***************************************************************************)
(* Model of the components of Stasis that handle one call, each checked in *)
(* turn: subject is chosen at first and names the component that moves.    *)
(* They share nothing with one another in the code but the ARI client, so  *)
(* the others stay in one of their initial states.                         *)
(***************************************************************************)
EXTENDS CallLifecycle, DirectOutbound, TrunkTest, MCFlowGraph, DigitInput,
        Hunt, Transfer, Conference, CallbackNode, QueueLogin

VARIABLE subject

callSubjects == {"lifecycle", "direct", "test", "flow", "input", "hunt",
                 "transfer", "conference", "callback", "login"}

\* The PINs of three operators: two share a first digit, one is short.
MCStaffPins == {<<"1", "2">>, <<"1", "1">>, <<"2">>}

CallsInit ==
  /\ subject \in callSubjects
  /\ CallInit /\ DialInit /\ TestInit /\ FlowInit /\ InputInit /\ HuntInit
  /\ TransferInit /\ ConfInit /\ CallbackNodeInit /\ PinInit
  /\ subject # "test" => testType = "inbound"
  /\ subject # "input" => /\ inputNode = "menu" /\ branches = {<<1>>}
                          /\ ~prompt /\ inputChan = "up"
  /\ subject # "hunt" => strategy = "group"
  /\ subject # "transfer" => ownBridge
  /\ subject # "conference" => moderator = {} /\ ~waitForModerator /\ ~dialsPstn
  /\ subject # "callback" => cbSource = "ani" /\ ~cbPstn /\ cbAni = "number"

callsVars == <<subject, callVars, dialVars, testVars, flowVars, inputVars,
               huntVars, trVars, confVars, cbVars, pinVars>>

\* Only the subject moves.
Only(s) ==
  /\ subject = s /\ UNCHANGED subject
  /\ IF s = "lifecycle" THEN TRUE ELSE UNCHANGED callVars
  /\ IF s = "direct" THEN TRUE ELSE UNCHANGED dialVars
  /\ IF s = "test" THEN TRUE ELSE UNCHANGED testVars
  /\ IF s = "flow" THEN TRUE ELSE UNCHANGED flowVars
  /\ IF s = "input" THEN TRUE ELSE UNCHANGED inputVars
  /\ IF s = "hunt" THEN TRUE ELSE UNCHANGED huntVars
  /\ IF s = "transfer" THEN TRUE ELSE UNCHANGED trVars
  /\ IF s = "conference" THEN TRUE ELSE UNCHANGED confVars
  /\ IF s = "callback" THEN TRUE ELSE UNCHANGED cbVars
  /\ IF s = "login" THEN TRUE ELSE UNCHANGED pinVars

CallsNext ==
  \/ Only("lifecycle") /\ CallNext
  \/ Only("direct") /\ DirectNext
  \/ Only("test") /\ TestNext
  \/ Only("flow") /\ FlowNext
  \/ Only("input") /\ InputNext
  \/ Only("hunt") /\ HuntNext
  \/ Only("transfer") /\ TransferNext
  \/ Only("conference") /\ ConfNext
  \/ Only("callback") /\ CallbackNodeNext
  \/ Only("login") /\ PinNext

\* What Node's event loop, Asterisk and the timers guarantee: a handler that
\* waits for an answer of ARI gets one or an error, an event that is due is
\* delivered, and a timer fires.  Callers need not do anything.
CallsFairness ==
  /\ \A c \in Calls : /\ WF_callVars(subject = "lifecycle" /\ ListenerStep(c))
                      /\ WF_callVars(subject = "lifecycle" /\ StasisEnd(c))
  /\ WF_dialVars(subject = "direct" /\ DialHandler)
  /\ WF_dialVars(subject = "direct" /\ DialCleanup)
  /\ WF_dialVars(subject = "direct" /\ OutboundEnters)
  /\ WF_dialVars(subject = "direct" /\ OutboundMoves)
  /\ WF_testVars(subject = "test" /\ TestHandler)
  /\ WF_testVars(subject = "test" /\ TestDestroyed)
  /\ WF_testVars(subject = "test" /\ TestStasisEnd)
  /\ WF_testVars(subject = "test" /\ StatusExpires)
  /\ WF_inputVars(subject = "input" /\ InputProgress)
  /\ \A c \in Attendees : /\ WF_confVars(subject = "conference" /\ ConfEnter(c))
                          /\ WF_confVars(subject = "conference" /\ ConfLeave(c))

CallsSpec == CallsInit /\ [][CallsNext]_callsVars /\ CallsFairness

\* No leg that this code dialled stays up when nobody is left to talk to:
\* direct outbound calls (index.ts), hunts (hunt.executor.ts) and transfers
\* (transfer.executor.ts) release what they dialled, but for the cases each
\* invariant excludes by name.
LegsReleased == DirectLegsReleased /\ HuntLegsReleased /\ TransferLegsReleased

(* What is announced is settled once: a direct call has one outcome        *)
(* (index.ts), a request for a callback one row (callback.executor.ts),    *)
(* whenever the caller hangs up.                                           *)
PublishedOnce == DirectOneOutcome /\ CallbackCreatedOnce

(* Nothing in Stasis waits for an event that has passed or a timer that is *)
(* not armed: sessions (index.ts), conference callers                      *)
(* (conference.executor.ts) and the nodes that collect digits              *)
(* (menu.executor.ts, executeGetDigits).                                   *)
NobodyStranded == SessionsHeard /\ CallersHeard /\ InputTimed
================================================================================
