------------------------------ MODULE TrunkPanel -------------------------------
(***************************************************************************)
(* The test panel of the trunks page: TrunksPage.tsx of the frontend.  An  *)
(* outbound or inbound test is started by a request; when it is answered   *)
(* the page polls the test's status every two seconds, and each poll is a  *)
(* request of its own, answered whenever.  The reference to an interval is *)
(* the only way to stop it.  One trunk, with its registration badge.       *)
(***************************************************************************)
EXTENDS Naturals, FiniteSets

CONSTANT MaxPanelTests  \* bound on the tests started

TestKinds == {"outbound", "inbound"}

VARIABLES
  testPanel,   \* activeTestPanel: "none", "outbound", "inbound"; "left": the
               \* page is unmounted
  shownTest,   \* per kind: the status shown, "none" at first
  submitting,  \* per kind: isSubmitting, which disables the start button
  pollRef,     \* per kind: outboundPollRef, inboundPollRef; 0 is null
  polls,       \* per kind: the tests whose interval is running
  starts,      \* [kind, test]: start requests not answered yet
  asks,        \* [kind, test]: status requests not answered yet
  testsMade,   \* how many tests have been started
  badge,       \* [shown, timer, armed]: the badge, badgeTimersRef, the
               \* timeouts that are running
  probes       \* testTrunk requests not answered yet

panelVars == <<testPanel, shownTest, submitting, pollRef, polls, starts, asks,
               testsMade, badge, probes>>

PanelInit ==
  /\ testPanel = "none" /\ testsMade = 0 /\ probes = 0
  /\ shownTest = [k \in TestKinds |-> "none"]
  /\ submitting = [k \in TestKinds |-> FALSE]
  /\ pollRef = [k \in TestKinds |-> 0] /\ polls = [k \in TestKinds |-> {}]
  /\ starts = {} /\ asks = {}
  /\ badge = [shown |-> FALSE, timer |-> 0, armed |-> {}]

\* resetOutboundTest and resetInboundTest, for the kinds ks.
resetTests(ks) ==
  /\ pollRef' = [k \in TestKinds |-> IF k \in ks THEN 0 ELSE pollRef[k]]
  /\ polls' = [k \in TestKinds |->
                 IF k \in ks THEN polls[k] \ {pollRef[k]} ELSE polls[k]]
  /\ shownTest' = [k \in TestKinds |-> IF k \in ks THEN "none" ELSE shownTest[k]]
  /\ submitting' = [k \in TestKinds |-> k \notin ks /\ submitting[k]]

\* The panel's menu entry: of the panel that is open it closes it, else it
\* opens a new one, of this trunk or of another.
toggleTestPanel(k) ==
  /\ testPanel # "left"
  /\ \/ testPanel = k /\ testPanel' = "none" /\ resetTests({k})
     \/ testPanel' = k /\ resetTests(TestKinds)
  /\ UNCHANGED <<starts, asks, testsMade, badge, probes>>

\* The close button, or a click outside the panel.
closeTestPanel ==
  /\ testPanel \in TestKinds
  /\ testPanel' = "none" /\ resetTests(TestKinds)
  /\ UNCHANGED <<starts, asks, testsMade, badge, probes>>

\* Opening a form, from the keyboard, hides the panel and leaves the tests.
openForm ==
  /\ testPanel \in TestKinds
  /\ testPanel' = "none"
  /\ UNCHANGED <<shownTest, submitting, pollRef, polls, starts, asks,
                 testsMade, badge, probes>>

\* handleStartOutboundTest without a number.
StartRefused ==
  /\ testPanel = "outbound" /\ ~submitting["outbound"]
  /\ shownTest' = [shownTest EXCEPT !["outbound"] = "failed"]
  /\ UNCHANGED <<testPanel, submitting, pollRef, polls, starts, asks,
                 testsMade, badge, probes>>

handleStartTest(k) ==
  /\ testPanel = k /\ ~submitting[k] /\ testsMade < MaxPanelTests
  /\ testsMade' = testsMade + 1
  /\ starts' = starts \cup {[kind |-> k, test |-> testsMade + 1]}
  /\ submitting' = [submitting EXCEPT ![k] = TRUE]
  /\ shownTest' = [shownTest EXCEPT ![k] = "dialing"]
  /\ UNCHANGED <<testPanel, pollRef, polls, asks, badge, probes>>

\* Faulty variant: the interval of the test before is not stopped
pollStatusBeside(k, t) ==
  /\ polls' = [polls EXCEPT ![k] = @ \cup {t}]
  /\ pollRef' = [pollRef EXCEPT ![k] = t]

\* pollOutboundStatus, pollInboundStatus: the interval of the test before
\* is stopped, and the one of t started.
pollStatus(k, t) ==
  /\ polls' = [polls EXCEPT ![k] = (@ \ {pollRef[k]}) \cup {t}]
  /\ pollRef' = [pollRef EXCEPT ![k] = t]

\* The request to start is answered, whatever the panel shows by then.
StartAnswered(s) ==
  /\ s \in starts /\ starts' = starts \ {s}
  /\ pollStatus(s.kind, s.test)
  /\ UNCHANGED <<testPanel, shownTest, submitting, asks, testsMade, badge, probes>>

StartFails(s) ==
  /\ s \in starts /\ starts' = starts \ {s}
  /\ shownTest' = [shownTest EXCEPT ![s.kind] = "failed"]
  /\ submitting' = [submitting EXCEPT ![s.kind] = FALSE]
  /\ UNCHANGED <<testPanel, pollRef, polls, asks, testsMade, badge, probes>>

PollTick(k) ==
  /\ \E t \in polls[k] : asks' = asks \cup {[kind |-> k, test |-> t]}
  /\ UNCHANGED <<testPanel, shownTest, submitting, pollRef, polls, starts,
                 testsMade, badge, probes>>

\* A status, or an error, is shown for whichever test the panel is at; at a
\* final one the kind's interval is stopped.
PollAnswered(a) ==
  /\ a \in asks /\ asks' = asks \ {a}
  /\ \E status \in {"dialing", "answered", "completed", "failed"} :
       /\ shownTest' = [shownTest EXCEPT ![a.kind] = status]
       /\ submitting' = [submitting EXCEPT ![a.kind] = status = "dialing"]
       /\ IF status \in {"completed", "failed"}
          THEN /\ polls' = [polls EXCEPT ![a.kind] = @ \ {pollRef[a.kind]}]
               /\ pollRef' = [pollRef EXCEPT ![a.kind] = 0]
          ELSE UNCHANGED <<polls, pollRef>>
  /\ UNCHANGED <<testPanel, starts, testsMade, badge, probes>>

\* The page is left: what the references name is stopped.
Unmount ==
  /\ testPanel # "left" /\ testPanel' = "left"
  /\ polls' = [k \in TestKinds |-> polls[k] \ {pollRef[k]}]
  /\ badge' = [badge EXCEPT !.armed = @ \ {badge.timer}]
  /\ UNCHANGED <<shownTest, submitting, pollRef, starts, asks, testsMade, probes>>

\* handleTest asks whether the trunk is reachable; each answer shows the
\* badge for eight seconds.
handleTest ==
  /\ testPanel # "left" /\ probes < 2 /\ probes' = probes + 1
  /\ UNCHANGED <<testPanel, shownTest, submitting, pollRef, polls, starts, asks,
                 testsMade, badge>>

TestShown ==
  /\ probes > 0 /\ probes' = probes - 1
  /\ \/ badge' = [shown |-> TRUE, timer |-> 3 - badge.timer,
                  armed |-> (badge.armed \ {badge.timer}) \cup {3 - badge.timer}]
          /\ badge.timer > 0
     \/ badge' = [shown |-> TRUE, timer |-> 1, armed |-> {1}] /\ badge.timer = 0
     \/ UNCHANGED badge     \* the request failed
  /\ UNCHANGED <<testPanel, shownTest, submitting, pollRef, polls, starts, asks,
                 testsMade>>

BadgeExpires ==
  /\ \E b \in badge.armed :
       badge' = [badge EXCEPT !.shown = FALSE, !.armed = @ \ {b}]
  /\ UNCHANGED <<testPanel, shownTest, submitting, pollRef, polls, starts, asks,
                 testsMade, probes>>

PanelNext ==
  \/ \E k \in TestKinds : toggleTestPanel(k) \/ handleStartTest(k) \/ PollTick(k)
  \/ \E s \in starts : StartAnswered(s) \/ StartFails(s)
  \/ \E a \in asks : PollAnswered(a)
  \/ closeTestPanel \/ openForm \/ StartRefused \/ Unmount
  \/ handleTest \/ TestShown \/ BadgeExpires

\* No poll runs on unnoticed: the interval that runs for a kind of test is
\* the one its reference names, so closing the panel, a new test or a final
\* status stops it, whatever order the requests are answered in; and a badge
\* on the page has its one timer.
PollsAreNamed ==
  /\ \A k \in TestKinds : polls[k] \subseteq {pollRef[k]}
  /\ badge.armed \subseteq {badge.timer}
  /\ badge.shown /\ testPanel # "left" => badge.armed # {}
===============================================================================
