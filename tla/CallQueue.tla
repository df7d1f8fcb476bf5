----------------------------- MODULE CallQueue ------------------------------
(***************************************************************************)
(* A call queue: the queue node a customer's flow runs (executeQueue,      *)
(* stasis/src/executors/queue.executor.ts), the login node an operator's   *)
(* flow runs (executeQueueLogin, queue_login.executor.ts) and the manager  *)
(* they share (stasis/src/engine/queueManager.ts), for one queue.  An      *)
(* operator logged in to several queues has the same channel in each, and  *)
(* the handlers of another queue may pop it as well: nothing here speaks   *)
(* of those.                                                               *)
(*                                                                         *)
(* All shared state is in Redis and every Redis command is awaited, so an  *)
(* action is one command, or one ARI request, with the code up to the next *)
(* one.  custPc and opPc say which command a handler awaits.  A customer   *)
(* comes once; an operator calls in up to MaxLogins times, and calls again *)
(* only when the login handler of the call before has returned, or waits   *)
(* for an event of a channel that is gone.  Prompts, hold music and PINs   *)
(* change nothing here; the queue and the operator rows exist.  Redis and  *)
(* the database answer; ARI may refuse any request.                        *)
(***************************************************************************)
EXTENDS Naturals, Sequences, FiniteSets

CONSTANTS
  Customers,     \* channels of callers that reach the queue node
  Operators,     \* the operators assigned to the queue
  PstnOperators, \* those with a number and a trunk to be called on
  MaxLogins,     \* how often an operator calls in
  None           \* no operator, no customer

ASSUME QueueAssumption ==
  /\ PstnOperators \subseteq Operators
  /\ MaxLogins \in Nat
  /\ None \notin Customers \cup Operators

VARIABLES
  free,      \* queue:<id>:operators
  busy,      \* queue:<id>:busy
  waiting,   \* queue:<id>:waiting
  opChan,    \* operator:<id>:channel: the login call it names, 0 if absent
  custKey,   \* customers whose queue:<id>:customer:<channel>:channel is set
  custPc,    \* where the customer's executeQueue is
  custUp,    \* customers whose channel is up
  custOp,    \* the operator executeQueue popped
  custLeg,   \* the operator channel it read: a login call, 0 for a PSTN call
  custNext,  \* the customer its connectNextCustomer popped
  opPc,      \* where the operator's executeQueueLogin is
  opUp,      \* operators whose login call is up
  logins,    \* login calls so far
  opCust,    \* the customer loginOperator popped
  bridges    \* pairs of a customer and an operator in a bridge

custVars == <<custPc, custUp, custOp, custLeg, custNext>>
opVars == <<opPc, opUp, logins, opCust>>
redisVars == <<free, busy, waiting, opChan, custKey>>
vars == <<free, busy, waiting, opChan, custKey, custPc, custUp, custOp,
          custLeg, custNext, opPc, opUp, logins, opCust, bridges>>

Settled == {"connected", "timeout", "abandoned", "failed"}

CustPc ==
  {"idle", "sCard", "sPop", "getChan", "putBack", "markBusy", "addCust",
   "addOp", "record", "talking", "relBusy", "relFree", "nextPop", "nextCust",
   "nextBack", "nextChan", "nextBusy", "nextBridge", "rPush", "waiting"} \cup Settled

OpPc ==
  {"out", "setChan", "lLen", "lPop", "bridge", "markBusy", "setKey", "goFree",
   "settling", "hold", "remFree", "remBusy", "delChan"}

QueueTypeOK ==
  /\ free \subseteq Operators
  /\ busy \subseteq Operators
  /\ waiting \in Seq(Customers)
  /\ opChan \in [Operators -> 0..MaxLogins]
  /\ custKey \subseteq Customers
  /\ custPc \in [Customers -> CustPc]
  /\ custUp \subseteq Customers
  /\ custOp \in [Customers -> Operators \cup {None}]
  /\ custLeg \in [Customers -> 0..MaxLogins]
  /\ custNext \in [Customers -> Customers \cup {None}]
  /\ opPc \in [Operators -> OpPc]
  /\ opUp \subseteq Operators
  /\ logins \in [Operators -> 0..MaxLogins]
  /\ opCust \in [Operators -> Customers \cup {None}]
  /\ bridges \subseteq Customers \X Operators

Init ==
  /\ free = {}
  /\ busy = {}
  /\ waiting = <<>>
  /\ opChan = [o \in Operators |-> 0]
  /\ custKey = {}
  /\ custPc = [c \in Customers |-> "idle"]
  /\ custUp = {}
  /\ custOp = [c \in Customers |-> None]
  /\ custLeg = [c \in Customers |-> 0]
  /\ custNext = [c \in Customers |-> None]
  /\ opPc = [o \in Operators |-> "out"]
  /\ opUp = {}
  /\ logins = [o \in Operators |-> 0]
  /\ opCust = [o \in Operators |-> None]
  /\ bridges = {}

-----------------------------------------------------------------------------
CustGo(c, to) == custPc' = [custPc EXCEPT ![c] = to]
OpGo(o, to) == opPc' = [opPc EXCEPT ![o] = to]

\* The operator's channel can be put in a bridge.
LegUp(o, leg) == leg = 0 \/ (leg = logins[o] /\ o \in opUp)

\* LREM of the first occurrence.
Without(c) ==
  LET at == {i \in DOMAIN waiting : waiting[i] = c}
      first == CHOOSE i \in at : \A j \in at : i <= j
  IN IF at = {} THEN waiting
     ELSE [i \in 1..(Len(waiting) - 1) |-> waiting[IF i < first THEN i ELSE i + 1]]

-----------------------------------------------------------------------------
(* executeQueue, with a free operator.                                      *)

Enter(c) ==
  /\ custPc[c] = "idle"
  /\ custUp' = custUp \cup {c}
  /\ CustGo(c, "sCard")
  /\ UNCHANGED <<redisVars, custOp, custLeg, custNext, opVars, bridges>>

CountFree(c) ==
  /\ custPc[c] = "sCard"
  /\ CustGo(c, IF free # {} THEN "sPop" ELSE "rPush")
  /\ UNCHANGED <<redisVars, custUp, custOp, custLeg, custNext, opVars, bridges>>

\* SPOP takes any member; none is left when another handler was faster.
PopFree(c) ==
  /\ custPc[c] = "sPop"
  /\ \/ \E o \in free :
          /\ free' = free \ {o}
          /\ custOp' = [custOp EXCEPT ![c] = o]
          /\ CustGo(c, "getChan")
     \/ free = {} /\ CustGo(c, "rPush") /\ UNCHANGED <<free, custOp>>
  /\ UNCHANGED <<busy, waiting, opChan, custKey, custUp, custLeg, custNext, opVars, bridges>>

\* The operator's number is called, if there is one and its trunk takes it;
\* an originate that ARI refuses ends the node with the operator popped.
originateQueuePstnMember(c) ==
  \/ CustGo(c, "putBack")
  \/ custOp[c] \in PstnOperators /\ \E to \in {"markBusy", "failed"} : CustGo(c, to)

GetOperatorChannel(c) ==
  /\ custPc[c] = "getChan"
  /\ custLeg' = [custLeg EXCEPT ![c] = opChan[custOp[c]]]
  /\ IF opChan[custOp[c]] # 0
     THEN CustGo(c, "markBusy")
     ELSE originateQueuePstnMember(c)
  /\ UNCHANGED <<redisVars, custUp, custOp, custNext, opVars, bridges>>

PutBack(c) ==
  /\ custPc[c] = "putBack"
  /\ free' = free \cup {custOp[c]}
  /\ CustGo(c, "rPush")
  /\ UNCHANGED <<busy, waiting, opChan, custKey, custUp, custOp, custLeg, custNext, opVars, bridges>>

MarkBusy(c) ==
  /\ custPc[c] = "markBusy"
  /\ busy' = busy \cup {custOp[c]}
  /\ CustGo(c, "addCust")
  /\ UNCHANGED <<free, waiting, opChan, custKey, custUp, custOp, custLeg, custNext, opVars, bridges>>

\* Create the bridge and add the customer, then the operator, and start the
\* recording if the node asks for one.  A refusal ends the node; the operator
\* stays in the busy set.
AddCustomer(c) ==
  /\ custPc[c] = "addCust"
  /\ \/ c \in custUp /\ CustGo(c, "addOp")
     \/ CustGo(c, "failed")
  /\ UNCHANGED <<redisVars, custUp, custOp, custLeg, custNext, opVars, bridges>>

AddOperator(c) ==
  /\ custPc[c] = "addOp"
  /\ \/ /\ LegUp(custOp[c], custLeg[c])
        /\ bridges' = bridges \cup ({c} \cap custUp) \X {custOp[c]}
        /\ \E to \in {"record", "talking"} : CustGo(c, to)
     \/ CustGo(c, "failed") /\ UNCHANGED bridges
  /\ UNCHANGED <<redisVars, custUp, custOp, custLeg, custNext, opVars>>

Record(c) ==
  /\ custPc[c] = "record"
  /\ \E to \in {"talking", "failed"} : CustGo(c, to)
  /\ UNCHANGED <<redisVars, custUp, custOp, custLeg, custNext, opVars, bridges>>

-----------------------------------------------------------------------------
(* onCustomerHangup and its connectNextCustomer, run by the customer's      *)
(* handler for the operator it talked to.                                   *)

ReleaseBusy(c) ==
  /\ custPc[c] = "relBusy"
  /\ busy' = busy \ {custOp[c]}
  /\ CustGo(c, "relFree")
  /\ UNCHANGED <<free, waiting, opChan, custKey, custUp, custOp, custLeg, custNext, opVars, bridges>>

ReleaseFree(c) ==
  /\ custPc[c] = "relFree"
  /\ free' = free \cup {custOp[c]}
  /\ CustGo(c, "nextPop")
  /\ UNCHANGED <<busy, waiting, opChan, custKey, custUp, custOp, custLeg, custNext, opVars, bridges>>

NextOperator(c) ==
  /\ custPc[c] = "nextPop"
  /\ \/ \E o \in free :
          /\ free' = free \ {o}
          /\ custOp' = [custOp EXCEPT ![c] = o]
          /\ CustGo(c, "nextCust")
     \/ free = {} /\ CustGo(c, "connected") /\ UNCHANGED <<free, custOp>>
  /\ UNCHANGED <<busy, waiting, opChan, custKey, custUp, custLeg, custNext, opVars, bridges>>

NextCustomer(c) ==
  /\ custPc[c] = "nextCust"
  /\ IF waiting # <<>>
     THEN /\ waiting' = Tail(waiting)
          /\ custNext' = [custNext EXCEPT ![c] = Head(waiting)]
          /\ CustGo(c, "nextChan")
     ELSE CustGo(c, "nextBack") /\ UNCHANGED <<waiting, custNext>>
  /\ UNCHANGED <<free, busy, opChan, custKey, custUp, custOp, custLeg, opVars, bridges>>

\* An operator without a channel goes back; the customer popped for it is
\* dropped.
NextChannel(c) ==
  /\ custPc[c] = "nextChan"
  /\ custLeg' = [custLeg EXCEPT ![c] = opChan[custOp[c]]]
  /\ IF opChan[custOp[c]] # 0
     THEN CustGo(c, "nextBusy") /\ UNCHANGED custNext
     ELSE CustGo(c, "nextBack") /\ custNext' = [custNext EXCEPT ![c] = None]
  /\ UNCHANGED <<redisVars, custUp, custOp, opVars, bridges>>

\* Faulty variant: without a customer the operator is not put back.
NextBackForgotten(c) ==
  /\ custPc[c] = "nextBack"
  /\ CustGo(c, "connected")
  /\ UNCHANGED <<redisVars, custUp, custOp, custLeg, custNext, opVars, bridges>>

NextBack(c) ==
  /\ custPc[c] = "nextBack"
  /\ free' = free \cup {custOp[c]}
  /\ CustGo(c, "connected")
  /\ UNCHANGED <<busy, waiting, opChan, custKey, custUp, custOp, custLeg, custNext, opVars, bridges>>

NextBusy(c) ==
  /\ custPc[c] = "nextBusy"
  /\ busy' = busy \cup {custOp[c]}
  /\ CustGo(c, "nextBridge")
  /\ UNCHANGED <<free, waiting, opChan, custKey, custUp, custOp, custLeg, custNext, opVars, bridges>>

\* bridgeChannels: a refusal is logged and nothing else.
BridgeChannels(d, o, leg) ==
  \/ d \in custUp /\ LegUp(o, leg) /\ bridges' = bridges \cup {<<d, o>>}
  \/ UNCHANGED bridges

NextBridge(c) ==
  /\ custPc[c] = "nextBridge"
  /\ BridgeChannels(custNext[c], custOp[c], custLeg[c])
  /\ custNext' = [custNext EXCEPT ![c] = None]
  /\ CustGo(c, "connected")
  /\ UNCHANGED <<redisVars, custUp, custOp, custLeg, opVars>>

-----------------------------------------------------------------------------
(* executeQueue, without one: the waiting list.                             *)

Push(c) ==
  /\ custPc[c] = "rPush"
  /\ waiting' = Append(waiting, c)
  /\ CustGo(c, "waiting")
  /\ UNCHANGED <<free, busy, opChan, custKey, custUp, custOp, custLeg, custNext, opVars, bridges>>

PollConnected(c) ==
  /\ custPc[c] = "waiting"
  /\ c \in custKey
  /\ CustGo(c, "connected")
  /\ UNCHANGED <<redisVars, custUp, custOp, custLeg, custNext, opVars, bridges>>

\* Faulty variant: the timer gives up a customer only if it was still listed.
MaxWaitListed(c) ==
  /\ custPc[c] = "waiting"
  /\ waiting # Without(c)
  /\ waiting' = Without(c)
  /\ CustGo(c, "timeout")
  /\ UNCHANGED <<free, busy, opChan, custKey, custUp, custOp, custLeg, custNext, opVars, bridges>>

MaxWait(c) ==
  /\ custPc[c] = "waiting"
  /\ waiting' = Without(c)
  /\ CustGo(c, "timeout")
  /\ UNCHANGED <<free, busy, opChan, custKey, custUp, custOp, custLeg, custNext, opVars, bridges>>

(* The customer hangs up.  A handler that does not listen at the moment     *)
(* misses it, and one that was building the bridge then listens for ever.   *)
(* The waiting handler sends LREM without waiting for it and    *)
(* closes its connection, so the command may not reach the server.          *)
CustomerHangup(c) ==
  /\ c \in custUp
  /\ custUp' = custUp \ {c}
  /\ bridges' = {b \in bridges : b[1] # c}
  /\ CASE custPc[c] = "talking" -> CustGo(c, "relBusy") /\ UNCHANGED waiting
       [] custPc[c] = "waiting" -> /\ CustGo(c, "abandoned")
                                   /\ waiting' \in {waiting, Without(c)}
       [] OTHER -> UNCHANGED <<custPc, waiting>>
  /\ UNCHANGED <<free, busy, opChan, custKey, custOp, custLeg, custNext, opVars>>

-----------------------------------------------------------------------------
(* executeQueueLogin: loginOperator, hold, logoutOperator.                  *)

Login(o) ==
  /\ opPc[o] = "out" \/ (opPc[o] = "hold" /\ o \notin opUp)
  /\ logins[o] < MaxLogins
  /\ logins' = [logins EXCEPT ![o] = @ + 1]
  /\ opUp' = opUp \cup {o}
  /\ bridges' = {b \in bridges : b[2] # o}   \* the call before is over
  /\ OpGo(o, "setChan")
  /\ UNCHANGED <<redisVars, custVars, opCust>>

SetChannel(o) ==
  /\ opPc[o] = "setChan"
  /\ opChan' = [opChan EXCEPT ![o] = logins[o]]
  /\ OpGo(o, "lLen")
  /\ UNCHANGED <<free, busy, waiting, custKey, custVars, opUp, logins, opCust, bridges>>

CountWaiting(o) ==
  /\ opPc[o] = "lLen"
  /\ OpGo(o, IF waiting # <<>> THEN "lPop" ELSE "goFree")
  /\ UNCHANGED <<redisVars, custVars, opUp, logins, opCust, bridges>>

\* Faulty variant: the customer is read from the list and not removed.
PopWaitingPeek(o) ==
  /\ opPc[o] = "lPop"
  /\ IF waiting # <<>>
     THEN /\ opCust' = [opCust EXCEPT ![o] = Head(waiting)]
          /\ OpGo(o, "bridge")
     ELSE OpGo(o, "goFree") /\ UNCHANGED opCust
  /\ UNCHANGED <<redisVars, custVars, opUp, logins, bridges>>

PopWaiting(o) ==
  /\ opPc[o] = "lPop"
  /\ IF waiting # <<>>
     THEN /\ waiting' = Tail(waiting)
          /\ opCust' = [opCust EXCEPT ![o] = Head(waiting)]
          /\ OpGo(o, "bridge")
     ELSE OpGo(o, "goFree") /\ UNCHANGED <<waiting, opCust>>
  /\ UNCHANGED <<free, busy, opChan, custKey, custVars, opUp, logins, bridges>>

LoginBridge(o) ==
  /\ opPc[o] = "bridge"
  /\ BridgeChannels(opCust[o], o, logins[o])
  /\ OpGo(o, "markBusy")
  /\ UNCHANGED <<redisVars, custVars, opUp, logins, opCust>>

LoginBusy(o) ==
  /\ opPc[o] = "markBusy"
  /\ busy' = busy \cup {o}
  /\ OpGo(o, "setKey")
  /\ UNCHANGED <<free, waiting, opChan, custKey, custVars, opUp, logins, opCust, bridges>>

\* Faulty variant: an operator with a customer is offered as free as well.
LoginKeyAndFree(o) ==
  /\ opPc[o] = "setKey"
  /\ custKey' = custKey \cup {opCust[o]}
  /\ opCust' = [opCust EXCEPT ![o] = None]
  /\ OpGo(o, "goFree")
  /\ UNCHANGED <<free, busy, waiting, opChan, custVars, opUp, logins, bridges>>

LoginKey(o) ==
  /\ opPc[o] = "setKey"
  /\ custKey' = custKey \cup {opCust[o]}
  /\ opCust' = [opCust EXCEPT ![o] = None]
  /\ OpGo(o, "settling")
  /\ UNCHANGED <<free, busy, waiting, opChan, custVars, opUp, logins, bridges>>

LoginFree(o) ==
  /\ opPc[o] = "goFree"
  /\ free' = free \cup {o}
  /\ OpGo(o, "settling")
  /\ UNCHANGED <<busy, waiting, opChan, custKey, custVars, opUp, logins, opCust, bridges>>

\* Hold audio and the success prompt are over: listen for # and for the end
\* of the channel.
Hold(o) ==
  /\ opPc[o] = "settling"
  /\ OpGo(o, "hold")
  /\ UNCHANGED <<redisVars, custVars, opUp, logins, opCust, bridges>>

PressHash(o) ==
  /\ opPc[o] = "hold"
  /\ o \in opUp
  /\ OpGo(o, "remFree")
  /\ UNCHANGED <<redisVars, custVars, opUp, logins, opCust, bridges>>

\* The operator hangs up; only the listener of hold hears of it.
OperatorHangup(o) ==
  /\ o \in opUp
  /\ opUp' = opUp \ {o}
  /\ bridges' = {b \in bridges : b[2] # o}
  /\ IF opPc[o] = "hold" THEN OpGo(o, "remFree") ELSE UNCHANGED opPc
  /\ UNCHANGED <<redisVars, custVars, logins, opCust>>

LogoutFree(o) ==
  /\ opPc[o] = "remFree"
  /\ free' = free \ {o}
  /\ OpGo(o, "remBusy")
  /\ UNCHANGED <<busy, waiting, opChan, custKey, custVars, opUp, logins, opCust, bridges>>

LogoutBusy(o) ==
  /\ opPc[o] = "remBusy"
  /\ busy' = busy \ {o}
  /\ OpGo(o, "delChan")
  /\ UNCHANGED <<free, waiting, opChan, custKey, custVars, opUp, logins, opCust, bridges>>

LogoutChannel(o) ==
  /\ opPc[o] = "delChan"
  /\ opChan' = [opChan EXCEPT ![o] = 0]
  /\ OpGo(o, "out")
  /\ UNCHANGED <<free, busy, waiting, custKey, custVars, opUp, logins, opCust, bridges>>

-----------------------------------------------------------------------------
\* What the customer's handler does by itself.
HandlerStep(c) ==
  \/ CountFree(c) \/ PopFree(c) \/ GetOperatorChannel(c) \/ PutBack(c)
  \/ MarkBusy(c) \/ AddCustomer(c) \/ AddOperator(c) \/ Record(c)
  \/ ReleaseBusy(c) \/ ReleaseFree(c) \/ NextOperator(c) \/ NextCustomer(c)
  \/ NextChannel(c) \/ NextBack(c) \/ NextBusy(c) \/ NextBridge(c)
  \/ Push(c)

CustomerStep(c) ==
  Enter(c) \/ HandlerStep(c) \/ PollConnected(c) \/ MaxWait(c) \/ CustomerHangup(c)

OperatorStep(o) ==
  \/ Login(o) \/ SetChannel(o) \/ CountWaiting(o) \/ PopWaiting(o)
  \/ LoginBridge(o) \/ LoginBusy(o) \/ LoginKey(o) \/ LoginFree(o) \/ Hold(o)
  \/ PressHash(o) \/ OperatorHangup(o)
  \/ LogoutFree(o) \/ LogoutBusy(o) \/ LogoutChannel(o)

Next ==
  \/ \E c \in Customers : CustomerStep(c)
  \/ \E o \in Operators : OperatorStep(o)

\* Awaited commands are answered and the max-wait timer fires.
Fairness == \A c \in Customers : WF_vars(HandlerStep(c)) /\ WF_vars(MaxWait(c))

Spec == Init /\ [][Next]_vars /\ Fairness

-----------------------------------------------------------------------------
\* The customers a handler has popped from the waiting list and not bridged.
HeldByOperator(c) ==
  {o \in Operators : opCust[o] = c /\ opPc[o] \in {"bridge", "markBusy", "setKey"}}
HeldByCustomer(c) == {d \in Customers : custNext[d] = c}

(* A waiting customer is given to one operator: the logins and the hangups  *)
(* that look for a customer run at the same time, and none of them takes    *)
(* one that another took, or leaves it in the list.                         *)
CustomerGivenOnce ==
  \A c \in Customers :
    /\ Cardinality(HeldByOperator(c)) + Cardinality(HeldByCustomer(c)) <= 1
    /\ (\E i \in DOMAIN waiting : waiting[i] = c) =>
         /\ HeldByOperator(c) = {} /\ HeldByCustomer(c) = {}
         /\ c \notin custKey
         /\ \A o \in Operators : <<c, o>> \notin bridges

\* The handlers that popped the operator and have not marked it yet.
Popped(o) ==
  {c \in Customers :
     /\ custOp[c] = o
     /\ custPc[c] \in {"getChan", "putBack", "markBusy", "relFree", "nextCust",
                       "nextBack", "nextChan", "nextBusy"}}

(* An operator on hold in the first login is in exactly one place: offered  *)
(* in the free set, taken by one handler, or in the busy set.  (A later     *)
(* login may find what an earlier one left behind, see LogoutRemoves.)      *)
OperatorAccounted ==
  \A o \in Operators :
    opPc[o] = "hold" /\ logins[o] = 1 =>
      /\ Cardinality(Popped(o)) <= 1
      /\ o \in free => Popped(o) = {} /\ o \notin busy
      /\ o \in busy => Popped(o) = {}
      /\ o \in free \/ o \in busy \/ Popped(o) # {}

(* In the first login the handlers of the queue let an operator talk to one *)
(* of its customers at a time, and do not offer it to another of them while *)
(* talking.  Customers of another queue the operator is logged in to are    *)
(* not counted: that queue's handlers do not look here.                     *)
OneConversation ==
  \A o \in Operators :
    logins[o] = 1 /\ opPc[o] = "hold" =>
      /\ Cardinality({b \in bridges : b[2] = o}) <= 1
      /\ (\E b \in bridges : b[2] = o) => o \notin free

(* A customer who enters the queue node gets a result or a handler that     *)
(* listens to its conversation: no race of pops, logins and hangups leaves  *)
(* the node waiting for ever, since the timer does not depend on the list.  *)
(* Once the handler listens to a customer whose channel is up, the end of   *)
(* that channel releases the operator.  (A customer who hangs up while the  *)
(* bridge is built is not heard: its handler listens in vain and the        *)
(* operator stays in the busy set.)                                         *)
QueueNodeSettles ==
  \A c \in Customers :
    /\ custPc[c] = "sCard" ~> custPc[c] \in Settled \cup {"talking"}
    /\ [](custPc[c] = "talking" /\ c \in custUp =>
            [](c \notin custUp => <>(custPc[c] = "connected")))

(* queueManager.ts, logoutOperator: "Logout an operator and remove from all *)
(* Redis state."                                                            *)
LogoutRemoves ==
  \A o \in Operators : opPc[o] = "out" => o \notin free \cup busy
=============================================================================
