--------------------------- MODULE CallQueueProofs ---------------------------
(***************************************************************************)
(* Proofs about the call queue, for any customers, operators and number of *)
(* logins: type correctness, that a waiting customer is given to one       *)
(* operator, and that an operator in the first login is in one place and   *)
(* in one conversation.                                                    *)
(***************************************************************************)
EXTENDS CallQueue, SequenceTheorems, FiniteSetTheorems, TLAPS

-----------------------------------------------------------------------------
(* The inductive invariant about customers.  A customer is pushed once, and *)
(* from then on is in one of these states; the others have never been in    *)
(* the waiting list.                                                        *)
Listed == {"waiting", "abandoned"}
Pushed == Listed \cup {"timeout", "connected"}
Unbridged == {"idle", "sCard", "sPop", "getChan", "putBack", "markBusy",
              "addCust", "addOp", "rPush"}

InList(c) == \E i \in 1..Len(waiting) : waiting[i] = c

OpHolds(o, c) == opCust[o] = c /\ opPc[o] \in {"bridge", "markBusy", "setKey"}
CustHolds(d, c) == custNext[d] = c

ListedOnce == \A i, j \in 1..Len(waiting) : waiting[i] = waiting[j] => i = j

\* A listed customer waits, or has left without being removed; nobody holds
\* it and it has never been given away.
ListedAreFree ==
  \A c \in Customers : InList(c) =>
    /\ custPc[c] \in Listed
    /\ c \notin custKey
    /\ \A o \in Operators : ~OpHolds(o, c) /\ <<c, o>> \notin bridges
    /\ \A d \in Customers : ~CustHolds(d, c)

\* A customer held or given away was pushed once.
GivenWerePushed ==
  \A c \in Customers :
    /\ (\E o \in Operators : OpHolds(o, c)) => custPc[c] \in Pushed
    /\ (\E d \in Customers : CustHolds(d, c)) => custPc[c] \in Pushed
    /\ c \in custKey => custPc[c] \in Pushed
    /\ custPc[c] \in Unbridged => \A o \in Operators : <<c, o>> \notin bridges

\* At most one handler holds a customer.
HeldOnce ==
  \A c \in Customers :
    /\ \A o, p \in Operators : OpHolds(o, c) /\ OpHolds(p, c) => o = p
    /\ \A d, e \in Customers : CustHolds(d, c) /\ CustHolds(e, c) => d = e
    /\ \A o \in Operators, d \in Customers : ~(OpHolds(o, c) /\ CustHolds(d, c))

CustomerInv == ListedOnce /\ ListedAreFree /\ GivenWerePushed /\ HeldOnce

-----------------------------------------------------------------------------
(* The inductive invariant about operators in their first login.  Taken are *)
(* the states of a handler that popped an operator and has not marked it,   *)
(* Marked those of one that has.                                            *)
Taken == {"getChan", "putBack", "markBusy", "relFree", "nextCust", "nextBack",
          "nextChan", "nextBusy"}
Marked == {"addCust", "addOp", "record", "talking", "relBusy", "nextBridge"}

Engages(c, o) == custOp[c] = o /\ custPc[c] \in Taken \cup Marked

\* Not yet logged in, or logging in and neither offered nor busy so far.
Entering(o) ==
  \/ logins[o] = 0
  \/ logins[o] = 1 /\ opPc[o] \in {"setChan", "lLen", "lPop", "bridge", "markBusy", "goFree"}

Present(o) == logins[o] = 1 /\ opPc[o] \in {"setKey", "settling", "hold"}

FirstLogin ==
  \A o \in Operators :
    /\ logins[o] = 0 => opPc[o] = "out"
    /\ logins[o] = 1 /\ opPc[o] \notin {"setChan", "out"} => opChan[o] # 0

EnteringNowhere ==
  \A o \in Operators : Entering(o) =>
    /\ o \notin free /\ o \notin busy
    /\ \A c \in Customers : ~Engages(c, o)
    /\ opPc[o] # "markBusy" => \A c \in Customers : <<c, o>> \notin bridges

\* An operator who is present is offered, busy, or taken by one handler.
PresentSomewhere ==
  \A o \in Operators : Present(o) =>
    /\ \A c, d \in Customers : Engages(c, o) /\ Engages(d, o) => c = d
    /\ o \in free => o \notin busy /\ \A c \in Customers : ~Engages(c, o)
    /\ \A c \in Customers : custOp[c] = o /\ custPc[c] \in Taken => o \notin busy
    /\ \A c \in Customers : custOp[c] = o /\ custPc[c] \in Marked => o \in busy
    /\ o \in free \/ o \in busy \/ \E c \in Customers : Engages(c, o)

\* The conversations of an operator who has not logged out.
Conversations ==
  \A o \in Operators : Entering(o) \/ Present(o) =>
    /\ \A c, d \in Customers : <<c, o>> \in bridges /\ <<d, o>> \in bridges => c = d
    /\ Present(o) /\ o \notin busy => \A c \in Customers : <<c, o>> \notin bridges
    /\ \A c, d \in Customers :
         Engages(c, o) /\ <<d, o>> \in bridges => custPc[c] \in {"record", "talking"} /\ d = c

OperatorInv == FirstLogin /\ EnteringNowhere /\ PresentSomewhere /\ Conversations

-----------------------------------------------------------------------------
(* A set whose elements are all equal has at most one.                      *)
LEMMA AtMostOne ==
  ASSUME NEW S, \A x, y \in S : x = y
  PROVE  Cardinality(S) \in {0, 1} /\ (S = {} => Cardinality(S) = 0)
<1>1. CASE S = {}
  BY <1>1, FS_EmptySet
<1>2. CASE S # {}
  <2>1. PICK x \in S : TRUE
    BY <1>2
  <2>2. S = {x}
    BY <2>1
  <2> QED BY <1>2, <2>2, FS_Singleton
<1> QED BY <1>1, <1>2

(* LREM removes a customer that is listed once, and moves nobody else.      *)
LEMMA WithoutFacts ==
  ASSUME NEW c \in Customers, waiting \in Seq(Customers), ListedOnce
  PROVE  /\ Without(c) \in Seq(Customers)
         /\ \A i \in 1..Len(Without(c)) : \E j \in 1..Len(waiting) : Without(c)[i] = waiting[j]
         /\ \A i, j \in 1..Len(Without(c)) : Without(c)[i] = Without(c)[j] => i = j
         /\ \A i \in 1..Len(Without(c)) : Without(c)[i] # c
<1> DEFINE at == {i \in DOMAIN waiting : waiting[i] = c}
           first == CHOOSE i \in at : \A j \in at : i <= j
           short == [i \in 1..(Len(waiting) - 1) |-> waiting[IF i < first THEN i ELSE i + 1]]
<1>1. CASE at = {}
  <2>1. Without(c) = waiting
    BY <1>1 DEF Without
  <2>2. \A i \in 1..Len(waiting) : waiting[i] # c
    BY <1>1
  <2> QED BY <2>1, <2>2 DEF ListedOnce
<1>2. CASE at # {}
  <2>1. Without(c) = short
    BY <1>2 DEF Without
  <2>2. \A i, j \in at : i = j
    BY DEF ListedOnce
  <2>3. PICK k \in at : at = {k} /\ k <= k
    BY <1>2, <2>2
  <2>4. first \in at
    BY <2>3
  <2> HIDE DEF first
  <2>5. first \in 1..Len(waiting) /\ waiting[first] = c
    BY <2>4
  <2>6. \A i \in 1..(Len(waiting) - 1) :
          /\ (IF i < first THEN i ELSE i + 1) \in 1..Len(waiting)
          /\ short[i] = waiting[IF i < first THEN i ELSE i + 1]
          /\ short[i] \in Customers
    BY <2>5
  <2>7. short \in Seq(Customers) /\ Len(short) = Len(waiting) - 1
    <3>1. Len(waiting) - 1 \in Nat
      BY <2>5
    <3>2. short \in [1..(Len(waiting) - 1) -> Customers]
      BY <2>6
    <3> QED BY <3>1, <3>2
  <2>8. \A i \in 1..Len(short) : \E j \in 1..Len(waiting) : short[i] = waiting[j]
    BY <2>6, <2>7
  <2>9. /\ \A i, j \in 1..Len(short) : short[i] = short[j] => i = j
        /\ \A i \in 1..Len(short) : short[i] # c
    BY <2>5, <2>6, <2>7 DEF ListedOnce
  <2> HIDE DEF short
  <2> QED BY <2>1, <2>7, <2>8, <2>9
<1> QED BY <1>1, <1>2

-----------------------------------------------------------------------------
(* A handler that is at work for an operator, or for a customer, has one.   *)
Holders ==
  /\ \A c \in Customers : custPc[c] \in Taken \cup Marked => custOp[c] \in Operators
  /\ \A o \in Operators :
       opPc[o] \in {"bridge", "markBusy", "setKey"} => opCust[o] \in Customers

TypeInv == QueueTypeOK /\ Holders

(* The steps of a customer's handler keep the types.                        *)
LEMMA CustomerTypeStep ==
  ASSUME TypeInv, ListedOnce, NEW c \in Customers, CustomerStep(c)
  PROVE  TypeInv'
<1> USE QueueAssumption DEF CustPc, OpPc, Settled, Taken, Marked, TypeInv, QueueTypeOK,
       Holders, CustGo, OpGo, redisVars, opVars, custVars
<1>1. CASE Enter(c)
  BY <1>1 DEF Enter
<1>2. CASE CountFree(c)
  BY <1>2 DEF CountFree
<1>3. CASE PopFree(c)
  <2>1. CASE free = {} /\ CustGo(c, "rPush") /\ UNCHANGED <<free, custOp>>
    BY <1>3, <2>1 DEF PopFree
  <2>2. ASSUME NEW o \in free, free' = free \ {o}, custOp' = [custOp EXCEPT ![c] = o],
               CustGo(c, "getChan")
        PROVE  TypeInv'
    BY <1>3, <2>2 DEF PopFree
  <2> QED BY <1>3, <2>1, <2>2 DEF PopFree
<1>4. CASE GetOperatorChannel(c)
  <2>1. opChan[custOp[c]] \in 0..MaxLogins
    BY <1>4 DEF GetOperatorChannel
  <2>2. \E to \in {"markBusy", "putBack", "failed"} : CustGo(c, to)
    BY <1>4 DEF GetOperatorChannel, originateQueuePstnMember
  <2> QED BY <1>4, <2>1, <2>2 DEF GetOperatorChannel
<1>5. CASE PutBack(c)
  BY <1>5 DEF PutBack
<1>6. CASE MarkBusy(c)
  BY <1>6 DEF MarkBusy
<1>7. CASE AddCustomer(c)
  <2>1. CASE CustGo(c, "addOp")
    BY <1>7, <2>1 DEF AddCustomer
  <2>2. CASE CustGo(c, "failed")
    BY <1>7, <2>2 DEF AddCustomer
  <2> QED BY <1>7, <2>1, <2>2 DEF AddCustomer
<1>8. CASE AddOperator(c)
  <2>1. ASSUME NEW to \in {"record", "talking"}, CustGo(c, to),
               bridges' = bridges \cup ({c} \cap custUp) \X {custOp[c]}
        PROVE  TypeInv'
    BY <1>8, <2>1 DEF AddOperator
  <2>2. CASE CustGo(c, "failed") /\ UNCHANGED bridges
    BY <1>8, <2>2 DEF AddOperator
  <2> QED BY <1>8, <2>1, <2>2 DEF AddOperator
<1>9. CASE ReleaseBusy(c)
  BY <1>9 DEF ReleaseBusy
<1>10. CASE ReleaseFree(c)
  BY <1>10 DEF ReleaseFree
<1>11. CASE NextOperator(c)
  <2>1. CASE free = {} /\ CustGo(c, "connected") /\ UNCHANGED <<free, custOp>>
    BY <1>11, <2>1 DEF NextOperator
  <2>2. ASSUME NEW o \in free, free' = free \ {o}, custOp' = [custOp EXCEPT ![c] = o],
               CustGo(c, "nextCust")
        PROVE  TypeInv'
    BY <1>11, <2>2 DEF NextOperator
  <2> QED BY <1>11, <2>1, <2>2 DEF NextOperator
<1>12. CASE NextCustomer(c)
  <2>1. CASE waiting = <<>>
    BY <1>12, <2>1 DEF NextCustomer
  <2>2. CASE waiting # <<>>
    <3>1. Tail(waiting) \in Seq(Customers) /\ Head(waiting) \in Customers
      BY <2>2
    <3>2. QueueTypeOK'
      <4>1. waiting' \in Seq(Customers)
        BY <1>12, <2>2, <3>1 DEF NextCustomer
      <4>2. PICK h \in Customers : custNext' = [custNext EXCEPT ![c] = h]
        BY <1>12, <2>2, <3>1 DEF NextCustomer
      <4>3. CustGo(c, "nextChan")
        BY <1>12, <2>2 DEF NextCustomer
      <4>4. UNCHANGED <<free, busy, opChan, custKey, custUp, custOp, custLeg, opVars, bridges>>
        BY <1>12 DEF NextCustomer
      <4> QED BY <4>1, <4>2, <4>3, <4>4
    <3>3. Holders'
      BY <1>12, <2>2 DEF NextCustomer
    <3> QED BY <3>2, <3>3
  <2> QED BY <2>1, <2>2
<1>13. CASE NextChannel(c)
  BY <1>13, ZenonT(40) DEF NextChannel
<1>14. CASE NextBack(c)
  BY <1>14 DEF NextBack
<1>15. CASE NextBusy(c)
  BY <1>15 DEF NextBusy
<1>16. CASE NextBridge(c)
  BY <1>16 DEF NextBridge, BridgeChannels
<1>17. CASE Push(c)
  BY <1>17 DEF Push
<1>18. CASE PollConnected(c)
  BY <1>18 DEF PollConnected
<1>19. CASE MaxWait(c)
  BY <1>19, WithoutFacts DEF MaxWait
<1>20. CASE CustomerHangup(c)
  <2>1. waiting' \in Seq(Customers) /\ bridges' \subseteq bridges
    BY <1>20, WithoutFacts DEF CustomerHangup
  <2>2. CASE custPc[c] = "talking"
    BY <1>20, <2>1, <2>2 DEF CustomerHangup
  <2>3. CASE custPc[c] = "waiting"
    BY <1>20, <2>1, <2>3, ZenonT(40) DEF CustomerHangup
  <2>4. CASE custPc[c] \notin {"talking", "waiting"}
    BY <1>20, <2>1, <2>4 DEF CustomerHangup
  <2> QED BY <2>2, <2>3, <2>4
<1>21. CASE Record(c)
  BY <1>21 DEF Record
<1> QED BY <1>1, <1>2, <1>3, <1>4, <1>5, <1>6, <1>7, <1>8, <1>9, <1>10, <1>11, <1>12, <1>13, <1>14, <1>15, <1>16, <1>17, <1>18, <1>19, <1>20, <1>21 DEF CustomerStep, HandlerStep

(* The steps of an operator's login keep the types.                         *)
LEMMA OperatorTypeStep ==
  ASSUME TypeInv, NEW o \in Operators, OperatorStep(o)
  PROVE  TypeInv'
<1> USE QueueAssumption DEF CustPc, OpPc, Settled, Taken, Marked, TypeInv, QueueTypeOK,
       Holders, CustGo, OpGo, redisVars, opVars, custVars
<1>1. CASE Login(o)
  BY <1>1 DEF Login
<1>2. CASE SetChannel(o)
  BY <1>2 DEF SetChannel
<1>3. CASE CountWaiting(o)
  BY <1>3 DEF CountWaiting
<1>4. CASE PopWaiting(o)
  <2>1. CASE waiting = <<>>
    BY <1>4, <2>1 DEF PopWaiting
  <2>2. CASE waiting # <<>>
    <3>1. Tail(waiting) \in Seq(Customers) /\ Head(waiting) \in Customers
      BY <2>2
    <3>2. QueueTypeOK'
      <4>1. waiting' \in Seq(Customers)
        BY <1>4, <2>2, <3>1 DEF PopWaiting
      <4>2. PICK h \in Customers : opCust' = [opCust EXCEPT ![o] = h]
        BY <1>4, <2>2, <3>1 DEF PopWaiting
      <4>3. OpGo(o, "bridge")
        BY <1>4, <2>2 DEF PopWaiting
      <4>4. UNCHANGED <<free, busy, opChan, custKey, custVars, opUp, logins, bridges>>
        BY <1>4 DEF PopWaiting
      <4> QED BY <4>1, <4>2, <4>3, <4>4
    <3>3. Holders'
      BY <1>4, <2>2, <3>1 DEF PopWaiting
    <3> QED BY <3>2, <3>3
  <2> QED BY <2>1, <2>2
<1>5. CASE LoginBridge(o)
  BY <1>5 DEF LoginBridge, BridgeChannels
<1>6. CASE LoginBusy(o)
  BY <1>6 DEF LoginBusy
<1>7. CASE LoginKey(o)
  BY <1>7 DEF LoginKey
<1>8. CASE LoginFree(o)
  BY <1>8 DEF LoginFree
<1>9. CASE Hold(o)
  BY <1>9 DEF Hold
<1>10. CASE PressHash(o)
  BY <1>10 DEF PressHash
<1>11. CASE OperatorHangup(o)
  BY <1>11 DEF OperatorHangup
<1>12. CASE LogoutFree(o)
  BY <1>12 DEF LogoutFree
<1>13. CASE LogoutBusy(o)
  BY <1>13 DEF LogoutBusy
<1>14. CASE LogoutChannel(o)
  BY <1>14 DEF LogoutChannel
<1> QED BY <1>1, <1>2, <1>3, <1>4, <1>5, <1>6, <1>7, <1>8, <1>9, <1>10, <1>11, <1>12, <1>13, <1>14 DEF OperatorStep

-----------------------------------------------------------------------------
(* A step that takes nobody from the waiting list into a handler's hands    *)
(* and puts nobody on it.  It may drop customers from the list, and may     *)
(* bridge or mark one who is not listed and was pushed.                     *)
Kept ==
  /\ ListedOnce'
  /\ \A x \in Customers :
       /\ InList(x)' => InList(x) /\ custPc'[x] \in Listed
       /\ custPc[x] \in Pushed => custPc'[x] \in Pushed
       /\ custPc'[x] \in Unbridged => custPc[x] \in Unbridged
       /\ x \in custKey' => x \in custKey \/ (~InList(x) /\ custPc'[x] \in Pushed)
       /\ \A o \in Operators :
            /\ OpHolds(o, x)' => OpHolds(o, x)
            /\ <<x, o>> \in bridges' =>
                 <<x, o>> \in bridges \/ (~InList(x) /\ custPc'[x] \notin Unbridged)
       /\ \A d \in Customers : CustHolds(d, x)' => CustHolds(d, x)

(* Such a step preserves the invariant about customers.                     *)
LEMMA KeptStep ==
  ASSUME CustomerInv, Kept
  PROVE  CustomerInv'
<1>1. ListedOnce'
  BY DEF Kept
<1>2. ListedAreFree'
  BY DEF Kept, CustomerInv, ListedAreFree
<1>3. GivenWerePushed'
  BY DEF Kept, CustomerInv, GivenWerePushed
<1>4. HeldOnce'
  BY DEF Kept, CustomerInv, HeldOnce
<1> QED BY <1>1, <1>2, <1>3, <1>4 DEF CustomerInv

(* The steps of a customer's handler that leave the list alone.             *)
LEMMA HandlerKept ==
  ASSUME TypeInv, CustomerInv, NEW c \in Customers, UNCHANGED <<waiting, custKey, opPc, opCust>>,
         custPc' = [custPc EXCEPT ![c] = custPc'[c]],
         InList(c) => custPc'[c] \in Listed,
         custPc[c] \in Pushed => custPc'[c] \in Pushed,
         custPc'[c] \in Unbridged => custPc[c] \in Unbridged,
         \A d, x \in Customers : CustHolds(d, x)' => CustHolds(d, x),
         \A x \in Customers, o \in Operators : <<x, o>> \in bridges' =>
           <<x, o>> \in bridges \/ (~InList(x) /\ custPc'[x] \notin Unbridged)
  PROVE  CustomerInv'
<1>1. ListedOnce' /\ \A x \in Customers : InList(x)' <=> InList(x)
  BY DEF CustomerInv, ListedOnce, InList
<1>2. \A x \in Customers : x # c => custPc'[x] = custPc[x]
  BY DEF TypeInv, QueueTypeOK
<1>3. \A x \in Customers : InList(x) => custPc[x] \in Listed
  BY DEF CustomerInv, ListedAreFree
<1>4. \A x \in Customers, o \in Operators : OpHolds(o, x)' => OpHolds(o, x)
  BY DEF OpHolds
<1>5. Kept
  <2> SUFFICES ASSUME NEW x \in Customers
               PROVE  /\ InList(x)' => InList(x) /\ custPc'[x] \in Listed
                      /\ custPc[x] \in Pushed => custPc'[x] \in Pushed
                      /\ custPc'[x] \in Unbridged => custPc[x] \in Unbridged
    BY <1>1, <1>4 DEF Kept
  <2> QED BY <1>1, <1>2, <1>3
<1> QED BY <1>5, KeptStep

(* The steps of a customer's handler that touch neither the list nor a      *)
(* conversation.                                                            *)
LEMMA HandlerInvStep ==
  ASSUME TypeInv, CustomerInv, NEW c \in Customers,
         \/ Enter(c) \/ CountFree(c) \/ PopFree(c) \/ GetOperatorChannel(c) \/ PutBack(c)
         \/ MarkBusy(c) \/ AddCustomer(c) \/ ReleaseBusy(c) \/ ReleaseFree(c)
         \/ NextOperator(c) \/ NextBack(c) \/ NextBusy(c) \/ Record(c)
  PROVE  CustomerInv'
<1> USE DEF TypeInv, QueueTypeOK, CustGo, redisVars, opVars, custVars
<1>1. UNCHANGED <<waiting, custKey, opPc, opCust, custNext, bridges>>
  BY DEF Enter, CountFree, PopFree, GetOperatorChannel, PutBack, MarkBusy, AddCustomer,
         ReleaseBusy, ReleaseFree, NextOperator, NextBack, NextBusy, Record
<1>2. custPc[c] \notin Pushed
  BY DEF Enter, CountFree, PopFree, GetOperatorChannel, PutBack, MarkBusy, AddCustomer,
         ReleaseBusy, ReleaseFree, NextOperator, NextBack, NextBusy, Record, Pushed, Listed
<1>3. /\ custPc' = [custPc EXCEPT ![c] = custPc'[c]]
      /\ custPc'[c] \in Unbridged => custPc[c] \in Unbridged
  <2>1. CASE Enter(c)
    BY <2>1 DEF Enter, Unbridged
  <2>2. CASE CountFree(c)
    BY <2>2 DEF CountFree, Unbridged
  <2>3. CASE PopFree(c)
    BY <2>3 DEF PopFree, Unbridged
  <2>4. CASE GetOperatorChannel(c)
    BY <2>4 DEF GetOperatorChannel, Unbridged, originateQueuePstnMember
  <2>5. CASE PutBack(c)
    BY <2>5 DEF PutBack, Unbridged
  <2>6. CASE MarkBusy(c)
    BY <2>6 DEF MarkBusy, Unbridged
  <2>7. CASE AddCustomer(c)
    BY <2>7 DEF AddCustomer, Unbridged
  <2>8. CASE ReleaseBusy(c)
    BY <2>8 DEF ReleaseBusy, Unbridged
  <2>9. CASE ReleaseFree(c)
    BY <2>9 DEF ReleaseFree, Unbridged
  <2>10. CASE NextOperator(c)
    BY <2>10 DEF NextOperator, Unbridged
  <2>11. CASE NextBack(c)
    BY <2>11 DEF NextBack, Unbridged
  <2>12. CASE NextBusy(c)
    BY <2>12 DEF NextBusy, Unbridged
  <2>13. CASE Record(c)
    BY <2>13 DEF Record, Unbridged
  <2> QED BY <2>1, <2>2, <2>3, <2>4, <2>5, <2>6, <2>7, <2>8, <2>9, <2>10, <2>11, <2>12, <2>13
<1>4. InList(c) => custPc[c] \in Pushed
  BY DEF CustomerInv, ListedAreFree, Pushed
<1>5. \A d, x \in Customers : CustHolds(d, x)' => CustHolds(d, x)
  BY <1>1 DEF CustHolds
<1> QED BY <1>1, <1>2, <1>3, <1>4, <1>5, HandlerKept

(* The steps in which a customer's handler connects someone, or gives up    *)
(* on the customer it holds.                                                *)
LEMMA ConnectInvStep ==
  ASSUME TypeInv, CustomerInv, NEW c \in Customers,
         AddOperator(c) \/ NextChannel(c) \/ NextBridge(c) \/ PollConnected(c)
  PROVE  CustomerInv'
<1> USE DEF TypeInv, QueueTypeOK, CustGo, redisVars, opVars, custVars
<1>1. InList(c) => custPc[c] \in Listed /\ c \notin custKey
  BY DEF CustomerInv, ListedAreFree
<1>2. CASE AddOperator(c)
  <2>1. /\ UNCHANGED <<waiting, custKey, opPc, opCust, custNext>>
        /\ custPc[c] = "addOp"
    BY <1>2 DEF AddOperator
  <2>2. ~InList(c)
    BY <1>1, <2>1 DEF Listed
  <2>3. \A d, x \in Customers : CustHolds(d, x)' => CustHolds(d, x)
    BY <2>1 DEF CustHolds
  <2>4. ASSUME NEW to \in {"record", "talking"}, CustGo(c, to),
               bridges' = bridges \cup ({c} \cap custUp) \X {custOp[c]}
        PROVE  CustomerInv'
    <3>1. /\ custPc' = [custPc EXCEPT ![c] = custPc'[c]]
          /\ custPc'[c] \in {"record", "talking"}
      BY <2>4
    <3>2. \A x \in Customers, o \in Operators :
            <<x, o>> \in bridges' => <<x, o>> \in bridges \/ x = c
      BY <2>4
    <3> QED BY <2>1, <2>2, <2>3, <3>1, <3>2, HandlerKept DEF Pushed, Unbridged, Listed
  <2>5. CASE CustGo(c, "failed") /\ UNCHANGED bridges
    <3>1. custPc' = [custPc EXCEPT ![c] = custPc'[c]] /\ custPc'[c] = "failed"
      BY <2>5
    <3> QED BY <2>1, <2>2, <2>3, <2>5, <3>1, HandlerKept DEF Pushed, Unbridged, Listed
  <2> QED BY <1>2, <2>4, <2>5 DEF AddOperator
<1>3. CASE NextChannel(c)
  <2>1. UNCHANGED <<waiting, custKey, opPc, opCust, bridges>> /\ custPc[c] = "nextChan"
    BY <1>3 DEF NextChannel
  <2>2. /\ custPc' = [custPc EXCEPT ![c] = custPc'[c]]
        /\ custPc'[c] \in {"nextBusy", "nextBack"}
    BY <1>3 DEF NextChannel
  <2>3. \A d, x \in Customers : CustHolds(d, x)' => CustHolds(d, x)
    BY <1>3, QueueAssumption DEF NextChannel, CustHolds
  <2> QED BY <1>1, <2>1, <2>2, <2>3, HandlerKept DEF Pushed, Unbridged, Listed
<1>4. CASE NextBridge(c)
  <2>1. UNCHANGED <<waiting, custKey, opPc, opCust>> /\ custPc[c] = "nextBridge"
    BY <1>4 DEF NextBridge
  <2>2. custPc' = [custPc EXCEPT ![c] = custPc'[c]] /\ custPc'[c] = "connected"
    BY <1>4 DEF NextBridge
  <2>3. \A d, x \in Customers : CustHolds(d, x)' => CustHolds(d, x)
    BY <1>4, QueueAssumption DEF NextBridge, CustHolds
  <2>4. \A x \in Customers, o \in Operators : <<x, o>> \in bridges' =>
           <<x, o>> \in bridges \/ CustHolds(c, x)
    BY <1>4 DEF NextBridge, BridgeChannels, CustHolds
  <2>5. \A x \in Customers : CustHolds(c, x) => ~InList(x) /\ custPc[x] \in Pushed
    BY DEF CustomerInv, ListedAreFree, GivenWerePushed
  <2>6. \A x \in Customers : CustHolds(c, x) => custPc'[x] \notin Unbridged
    BY <2>1, <2>2, <2>5 DEF Pushed, Listed, Unbridged
  <2> QED BY <1>1, <2>1, <2>2, <2>3, <2>4, <2>5, <2>6, HandlerKept DEF Pushed, Unbridged, Listed
<1>5. CASE PollConnected(c)
  <2>1. /\ UNCHANGED <<waiting, custKey, opPc, opCust, custNext, bridges>>
        /\ custPc[c] = "waiting" /\ c \in custKey
    BY <1>5 DEF PollConnected
  <2>2. custPc' = [custPc EXCEPT ![c] = custPc'[c]] /\ custPc'[c] = "connected"
    BY <1>5 DEF PollConnected
  <2>3. \A d, x \in Customers : CustHolds(d, x)' => CustHolds(d, x)
    BY <2>1 DEF CustHolds
  <2> QED BY <1>1, <2>1, <2>2, <2>3, HandlerKept DEF Pushed, Unbridged, Listed
<1> QED BY <1>2, <1>3, <1>4, <1>5

(* The max-wait timer and the customer's hangup remove the customer from    *)
(* the list, or leave a listed customer that nobody waits for.              *)
LEMMA LeaveInvStep ==
  ASSUME TypeInv, CustomerInv, NEW c \in Customers, MaxWait(c) \/ CustomerHangup(c)
  PROVE  CustomerInv'
<1> USE DEF TypeInv, QueueTypeOK, CustGo, redisVars, opVars, custVars
<1> DEFINE Removed == waiting' = Without(c)
<1>1. /\ UNCHANGED <<custKey, opPc, opCust, custNext>>
      /\ bridges' \subseteq bridges
      /\ waiting' = waiting \/ Removed
  BY DEF MaxWait, CustomerHangup
<1>2. \A x \in Customers : x # c => custPc'[x] = custPc[x]
  BY DEF MaxWait, CustomerHangup
<1>3. \/ custPc'[c] = custPc[c]
      \/ custPc[c] = "talking" /\ custPc'[c] = "relBusy"
      \/ custPc[c] = "waiting" /\ custPc'[c] = "timeout" /\ Removed
      \/ custPc[c] = "waiting" /\ custPc'[c] = "abandoned"
  BY DEF MaxWait, CustomerHangup
<1>4. /\ ListedOnce'
      /\ \A x \in Customers : InList(x)' => InList(x)
      /\ Removed => ~InList(c)'
  <2>1. CASE Removed
    <3> DEFINE w == Without(c)
    <3>1. waiting \in Seq(Customers) /\ ListedOnce
      BY DEF CustomerInv
    <3>2. /\ \A j \in 1..Len(w) : \E k \in 1..Len(waiting) : w[j] = waiting[k]
          /\ \A j, k \in 1..Len(w) : w[j] = w[k] => j = k
          /\ \A j \in 1..Len(w) : w[j] # c
      BY <3>1, WithoutFacts
    <3>3. waiting' = w
      BY <2>1
    <3> HIDE DEF w, Removed
    <3> QED BY <3>2, <3>3 DEF ListedOnce, InList
  <2>2. CASE waiting' = waiting /\ ~Removed
    BY <2>2 DEF CustomerInv, ListedOnce, InList
  <2> QED BY <1>1, <2>1, <2>2
<1>5. \A x \in Customers : InList(x) => custPc[x] \in Listed
  BY DEF CustomerInv, ListedAreFree
<1>6. \A x \in Customers :
        /\ \A o \in Operators : OpHolds(o, x)' => OpHolds(o, x)
        /\ \A d \in Customers : CustHolds(d, x)' => CustHolds(d, x)
  BY <1>1 DEF OpHolds, CustHolds
<1> HIDE DEF Removed
<1>7. \A x \in Customers : InList(x)' => InList(x) /\ custPc'[x] \in Listed
  BY <1>2, <1>3, <1>4, <1>5 DEF Listed
<1>8. \A x \in Customers :
        /\ custPc[x] \in Pushed => custPc'[x] \in Pushed
        /\ custPc'[x] \in Unbridged => custPc[x] \in Unbridged
  BY <1>2, <1>3 DEF Pushed, Listed, Unbridged
<1>9. Kept
  BY <1>1, <1>4, <1>6, <1>7, <1>8 DEF Kept
<1> QED BY <1>9, KeptStep

(* A customer is pushed once, behind the others.                            *)
LEMMA PushInvStep ==
  ASSUME TypeInv, CustomerInv, NEW c \in Customers, Push(c)
  PROVE  CustomerInv'
<1>1. /\ UNCHANGED <<custKey, opPc, opCust, custNext, bridges>>
      /\ custPc[c] = "rPush" /\ custPc' = [custPc EXCEPT ![c] = "waiting"]
      /\ waiting' = Append(waiting, c)
  BY DEF Push, CustGo, opVars
<1>2. \A x \in Customers : custPc'[x] = IF x = c THEN "waiting" ELSE custPc[x]
  BY <1>1 DEF TypeInv, QueueTypeOK
<1>3. ~InList(c)
  BY <1>1 DEF CustomerInv, ListedAreFree, Listed
<1>4. Len(waiting) \in Nat /\ Len(waiting') = Len(waiting) + 1
      /\ \A i \in 1..Len(waiting') : waiting'[i] = IF i = Len(waiting) + 1 THEN c ELSE waiting[i]
  BY <1>1 DEF TypeInv, QueueTypeOK
<1>5. ListedOnce'
  BY <1>3, <1>4 DEF CustomerInv, ListedOnce, InList
<1>6. \A x \in Customers : InList(x)' => InList(x) \/ x = c
  BY <1>4 DEF InList
<1>7. \A x \in Customers :
        /\ \A o \in Operators : OpHolds(o, x)' <=> OpHolds(o, x)
        /\ \A d \in Customers : CustHolds(d, x)' <=> CustHolds(d, x)
  BY <1>1 DEF OpHolds, CustHolds
<1>8. /\ c \notin custKey
      /\ \A o \in Operators : ~OpHolds(o, c) /\ <<c, o>> \notin bridges
      /\ \A d \in Customers : ~CustHolds(d, c)
  BY <1>1 DEF CustomerInv, GivenWerePushed, Pushed, Listed, Unbridged
<1>9. ListedAreFree'
  BY <1>1, <1>2, <1>6, <1>7, <1>8 DEF CustomerInv, ListedAreFree, Listed
<1>10. GivenWerePushed'
  BY <1>1, <1>2, <1>7, <1>8 DEF CustomerInv, GivenWerePushed, Pushed, Listed, Unbridged
<1>11. HeldOnce'
  BY <1>7 DEF CustomerInv, HeldOnce
<1> QED BY <1>5, <1>9, <1>10, <1>11 DEF CustomerInv

(* A pop takes the first of the list and nobody else.                       *)
LEMMA PopFacts ==
  ASSUME TypeInv, CustomerInv, waiting # <<>>, waiting' = Tail(waiting)
  PROVE  /\ Head(waiting) \in Customers /\ InList(Head(waiting))
         /\ ListedOnce'
         /\ \A x \in Customers : InList(x)' => InList(x) /\ x # Head(waiting)
<1>1. waiting \in Seq(Customers) /\ ListedOnce
  BY DEF TypeInv, QueueTypeOK, CustomerInv
<1>2. Len(waiting) \in Nat /\ Len(waiting) > 0
  BY <1>1
<1>3. Head(waiting) = waiting[1] /\ 1 \in 1..Len(waiting)
  BY <1>1, <1>2
<1>4. /\ Len(waiting') = Len(waiting) - 1
      /\ \A i \in 1..Len(waiting') : waiting'[i] = waiting[i + 1] /\ i + 1 \in 1..Len(waiting)
  BY <1>1, <1>2
<1>5. Head(waiting) \in Customers /\ InList(Head(waiting))
  BY <1>1, <1>3 DEF InList
<1>6. ListedOnce'
  BY <1>1, <1>2, <1>4 DEF ListedOnce
<1>7. \A x \in Customers : InList(x)' => InList(x) /\ x # Head(waiting)
  BY <1>1, <1>2, <1>3, <1>4 DEF ListedOnce, InList
<1> QED BY <1>5, <1>6, <1>7

(* connectNextCustomer pops a customer.                                     *)
LEMMA NextCustomerInvStep ==
  ASSUME TypeInv, CustomerInv, NEW c \in Customers, NextCustomer(c)
  PROVE  CustomerInv'
<1> USE DEF TypeInv, QueueTypeOK, CustGo, opVars
<1>1. UNCHANGED <<custKey, opPc, opCust, bridges>> /\ custPc[c] = "nextCust"
  BY DEF NextCustomer
<1>2. /\ custPc' = [custPc EXCEPT ![c] = custPc'[c]]
      /\ custPc'[c] \in {"nextChan", "nextBack"}
  BY DEF NextCustomer
<1>3. ~InList(c)
  BY <1>1 DEF CustomerInv, ListedAreFree, Listed
<1>4. CASE waiting = <<>>
  <2>1. waiting' = waiting /\ custNext' = custNext
    BY <1>4 DEF NextCustomer
  <2>2. \A d, x \in Customers : CustHolds(d, x)' => CustHolds(d, x)
    BY <2>1 DEF CustHolds
  <2> QED BY <1>1, <1>2, <1>3, <2>1, <2>2, HandlerKept DEF Pushed, Listed, Unbridged
<1>5. CASE waiting # <<>>
  <2> DEFINE h == Head(waiting)
  <2>1. waiting' = Tail(waiting) /\ custNext' = [custNext EXCEPT ![c] = h]
    BY <1>5 DEF NextCustomer
  <2>2. /\ h \in Customers /\ InList(h)
        /\ ListedOnce'
        /\ \A x \in Customers : InList(x)' => InList(x) /\ x # h
    BY <1>5, <2>1, PopFacts
  <2> HIDE DEF h
  <2>3. /\ \A o \in Operators : ~OpHolds(o, h)
        /\ \A d \in Customers : ~CustHolds(d, h)
        /\ custPc[h] \in Listed /\ h # c
    BY <1>3, <2>2 DEF CustomerInv, ListedAreFree
  <2>4. \A x \in Customers, o \in Operators : OpHolds(o, x)' <=> OpHolds(o, x)
    BY <1>1 DEF OpHolds
  <2>5. \A x, d \in Customers : CustHolds(d, x)' => CustHolds(d, x) \/ (d = c /\ x = h)
    BY <2>1 DEF CustHolds
  <2>6. \A x \in Customers : x # c => custPc'[x] = custPc[x]
    BY <1>2
  <2>7. custPc'[c] \notin Pushed \cup Unbridged
    BY <1>2 DEF Pushed, Listed, Unbridged
  <2>8. custPc[c] \notin Pushed
    BY <1>1 DEF Pushed, Listed
  <2>9. ListedAreFree'
    BY <1>1, <1>3, <2>2, <2>4, <2>5, <2>6 DEF CustomerInv, ListedAreFree
  <2>10. GivenWerePushed'
    BY <1>1, <2>3, <2>4, <2>5, <2>6, <2>7, <2>8 DEF CustomerInv, GivenWerePushed, Pushed
  <2>11. HeldOnce'
    BY <2>3, <2>4, <2>5 DEF CustomerInv, HeldOnce
  <2> QED BY <2>2, <2>9, <2>10, <2>11 DEF CustomerInv
<1> QED BY <1>4, <1>5

(* The steps of a login that take no customer: they may end a conversation, *)
(* bridge the customer in hand, or mark it as given.                        *)
LEMMA LoginInvStep ==
  ASSUME TypeInv, CustomerInv, NEW o \in Operators, OperatorStep(o), ~PopWaiting(o)
  PROVE  CustomerInv'
<1> USE DEF TypeInv, QueueTypeOK, OpGo, redisVars, custVars
<1>1. UNCHANGED <<waiting, custPc, custNext>>
  BY DEF OperatorStep, LoginBridge, LoginKey, Login, SetChannel, CountWaiting, LoginBusy, LoginFree,
         Hold, PressHash, OperatorHangup, LogoutFree, LogoutBusy, LogoutChannel
<1>2. \A x \in Customers, p \in Operators : OpHolds(p, x)' => OpHolds(p, x)
  <2>1. CASE Login(o)
    BY <2>1 DEF Login, OpHolds
  <2>2. CASE SetChannel(o)
    BY <2>2 DEF SetChannel, OpHolds
  <2>3. CASE CountWaiting(o)
    BY <2>3 DEF CountWaiting, OpHolds
  <2>4. CASE LoginBusy(o)
    BY <2>4 DEF LoginBusy, OpHolds
  <2>5. CASE LoginFree(o)
    BY <2>5 DEF LoginFree, OpHolds
  <2>6. CASE Hold(o)
    BY <2>6 DEF Hold, OpHolds
  <2>7. CASE PressHash(o)
    BY <2>7 DEF PressHash, OpHolds
  <2>8. CASE OperatorHangup(o)
    BY <2>8 DEF OperatorHangup, OpHolds
  <2>9. CASE LogoutFree(o)
    BY <2>9 DEF LogoutFree, OpHolds
  <2>10. CASE LogoutBusy(o)
    BY <2>10 DEF LogoutBusy, OpHolds
  <2>11. CASE LogoutChannel(o)
    BY <2>11 DEF LogoutChannel, OpHolds
  <2>12. CASE LoginBridge(o)
    BY <2>12 DEF LoginBridge, OpHolds
  <2>13. CASE LoginKey(o)
    BY <2>13, QueueAssumption DEF LoginKey, OpHolds
  <2> QED BY <2>1, <2>2, <2>3, <2>4, <2>5, <2>6, <2>7, <2>8, <2>9, <2>10, <2>11, <2>12, <2>13 DEF OperatorStep
<1>3. \A x \in Customers : x \in custKey' => x \in custKey \/ OpHolds(o, x)
  BY DEF OperatorStep, OpHolds, LoginBridge, LoginKey, Login, SetChannel, CountWaiting, LoginBusy,
         LoginFree, Hold, PressHash, OperatorHangup, LogoutFree, LogoutBusy, LogoutChannel
<1>4. \A x \in Customers, p \in Operators :
        <<x, p>> \in bridges' => <<x, p>> \in bridges \/ OpHolds(o, x)
  BY DEF OperatorStep, OpHolds, BridgeChannels, LoginBridge, LoginKey, Login, SetChannel, CountWaiting,
         LoginBusy, LoginFree, Hold, PressHash, OperatorHangup, LogoutFree, LogoutBusy, LogoutChannel
<1>5. \A x \in Customers : OpHolds(o, x) => ~InList(x) /\ custPc[x] \in Pushed
  BY DEF CustomerInv, ListedAreFree, GivenWerePushed
<1>6. \A x \in Customers : custPc[x] \in Pushed => custPc[x] \notin Unbridged
  BY DEF Pushed, Listed, Unbridged
<1>7. ListedOnce' /\ \A x \in Customers : InList(x)' <=> InList(x)
  BY <1>1 DEF CustomerInv, ListedOnce, InList
<1>8. \A x \in Customers : InList(x) => custPc[x] \in Listed
  BY DEF CustomerInv, ListedAreFree
<1>9. \A x, d \in Customers : CustHolds(d, x)' => CustHolds(d, x)
  BY <1>1 DEF CustHolds
<1>10. Kept
  BY <1>1, <1>2, <1>3, <1>4, <1>5, <1>6, <1>7, <1>8, <1>9 DEF Kept
<1> QED BY <1>10, KeptStep

(* loginOperator pops a customer.                                           *)
LEMMA PopWaitingInvStep ==
  ASSUME TypeInv, CustomerInv, NEW o \in Operators, PopWaiting(o)
  PROVE  CustomerInv'
<1> USE DEF TypeInv, QueueTypeOK, OpGo, custVars
<1>1. UNCHANGED <<custKey, custPc, custNext, bridges>> /\ opPc[o] = "lPop"
  BY DEF PopWaiting
<1>2. \A x, d \in Customers : CustHolds(d, x)' <=> CustHolds(d, x)
  BY <1>1 DEF CustHolds
<1>3. CASE waiting = <<>>
  <2>1. waiting' = waiting /\ opCust' = opCust /\ opPc' = [opPc EXCEPT ![o] = "goFree"]
    BY <1>3 DEF PopWaiting
  <2>2. \A x \in Customers, p \in Operators : OpHolds(p, x)' => OpHolds(p, x)
    BY <2>1 DEF OpHolds
  <2>3. ListedOnce' /\ \A x \in Customers : InList(x)' <=> InList(x)
    BY <2>1 DEF CustomerInv, ListedOnce, InList
  <2>4. \A x \in Customers : InList(x) => custPc[x] \in Listed
    BY DEF CustomerInv, ListedAreFree
  <2>5. Kept
    BY <1>1, <1>2, <2>2, <2>3, <2>4 DEF Kept
  <2> QED BY <2>5, KeptStep
<1>4. CASE waiting # <<>>
  <2> DEFINE h == Head(waiting)
  <2>1. /\ waiting' = Tail(waiting) /\ opCust' = [opCust EXCEPT ![o] = h]
        /\ opPc' = [opPc EXCEPT ![o] = "bridge"]
    BY <1>4 DEF PopWaiting
  <2>2. /\ h \in Customers /\ InList(h)
        /\ ListedOnce'
        /\ \A x \in Customers : InList(x)' => InList(x) /\ x # h
    BY <1>4, <2>1, PopFacts
  <2> HIDE DEF h
  <2>3. /\ \A p \in Operators : ~OpHolds(p, h)
        /\ \A d \in Customers : ~CustHolds(d, h)
        /\ custPc[h] \in Listed
    BY <2>2 DEF CustomerInv, ListedAreFree
  <2>4. \A x \in Customers, p \in Operators :
          OpHolds(p, x)' => OpHolds(p, x) \/ (p = o /\ x = h)
    BY <2>1 DEF OpHolds
  <2>5. ListedAreFree'
    BY <1>1, <1>2, <2>2, <2>4 DEF CustomerInv, ListedAreFree
  <2>6. GivenWerePushed'
    BY <1>1, <1>2, <2>3, <2>4 DEF CustomerInv, GivenWerePushed, Pushed
  <2>7. HeldOnce'
    BY <1>2, <2>3, <2>4 DEF CustomerInv, HeldOnce
  <2> QED BY <2>2, <2>5, <2>6, <2>7 DEF CustomerInv
<1> QED BY <1>3, <1>4

(* The types and the invariant about customers are inductive.               *)
LEMMA CustomerInvariant == Spec => [](TypeInv /\ CustomerInv)
<1>1. Init => TypeInv
  <2> SUFFICES ASSUME Init PROVE TypeInv
    OBVIOUS
  <2>1. waiting \in Seq(Customers)
    BY DEF Init
  <2>2. MaxLogins \in Nat /\ 0 \in 0..MaxLogins
    BY QueueAssumption
  <2>3. QueueTypeOK
    BY <2>1, <2>2 DEF Init, QueueTypeOK, CustPc, OpPc
  <2>4. Holders
    BY DEF Init, Holders, Taken, Marked
  <2> QED BY <2>3, <2>4 DEF TypeInv
<1>2. Init => CustomerInv
  <2> SUFFICES ASSUME Init PROVE CustomerInv
    OBVIOUS
  <2>1. waiting = <<>> /\ Len(waiting) = 0
    BY DEF Init
  <2>2. ListedOnce /\ \A x \in Customers : ~InList(x)
    BY <2>1 DEF ListedOnce, InList
  <2>3. \A x \in Customers :
          /\ \A o \in Operators : ~OpHolds(o, x)
          /\ \A d \in Customers : ~CustHolds(d, x)
    BY QueueAssumption DEF Init, OpHolds, CustHolds
  <2>4. ListedAreFree /\ GivenWerePushed /\ HeldOnce
    BY <2>2, <2>3 DEF Init, ListedAreFree, GivenWerePushed, HeldOnce
  <2> QED BY <2>2, <2>4 DEF CustomerInv
<1>3. TypeInv /\ CustomerInv /\ [Next]_vars => TypeInv' /\ CustomerInv'
  <2> SUFFICES ASSUME TypeInv, CustomerInv, [Next]_vars
               PROVE  TypeInv' /\ CustomerInv'
    OBVIOUS
  <2>1. ASSUME NEW c \in Customers, CustomerStep(c)
        PROVE  TypeInv' /\ CustomerInv'
    <3>1. TypeInv'
      BY <2>1, CustomerTypeStep DEF CustomerInv
    <3>2. CustomerInv'
      BY <2>1, HandlerInvStep, ConnectInvStep, LeaveInvStep, PushInvStep, NextCustomerInvStep
         DEF CustomerStep, HandlerStep
    <3> QED BY <3>1, <3>2
  <2>2. ASSUME NEW o \in Operators, OperatorStep(o)
        PROVE  TypeInv' /\ CustomerInv'
    BY <2>2, OperatorTypeStep, LoginInvStep, PopWaitingInvStep
  <2>3. CASE UNCHANGED vars
    <3>1. TypeInv'
      BY <2>3 DEF vars, TypeInv, QueueTypeOK, Holders
    <3>2. ListedOnce' /\ ListedAreFree' /\ GivenWerePushed' /\ HeldOnce'
      BY <2>3 DEF vars, CustomerInv, ListedOnce, ListedAreFree, GivenWerePushed, HeldOnce,
                  InList, OpHolds, CustHolds
    <3> QED BY <3>1, <3>2 DEF CustomerInv
  <2> QED BY <2>1, <2>2, <2>3 DEF Next
<1> QED BY <1>1, <1>2, <1>3, PTL DEF Spec

(* Type correctness of the queue, whatever the customers, the operators and *)
(* the number of logins.                                                    *)
THEOREM QueueTypeCorrect == Spec => []QueueTypeOK
<1>1. TypeInv => QueueTypeOK
  BY DEF TypeInv
<1> QED BY <1>1, CustomerInvariant, PTL

(* A waiting customer is given to one operator: no two of the logins and    *)
(* hangups that look for a customer hold the same one, and a customer still *)
(* in the waiting list is held by nobody, marked as given by nobody and in  *)
(* no conversation (LPOP in queueManager.ts and queue.executor.ts).         *)
THEOREM CustomerGivenOnceHolds == Spec => []CustomerGivenOnce
<1>1. TypeInv /\ CustomerInv => CustomerGivenOnce
  <2> SUFFICES ASSUME TypeInv, CustomerInv, NEW c \in Customers
               PROVE  /\ Cardinality(HeldByOperator(c)) + Cardinality(HeldByCustomer(c)) <= 1
                      /\ (\E i \in DOMAIN waiting : waiting[i] = c) =>
                           /\ HeldByOperator(c) = {} /\ HeldByCustomer(c) = {}
                           /\ c \notin custKey
                           /\ \A o \in Operators : <<c, o>> \notin bridges
    BY DEF CustomerGivenOnce
  <2>1. /\ \A o, p \in HeldByOperator(c) : o = p
        /\ \A d, e \in HeldByCustomer(c) : d = e
        /\ HeldByOperator(c) = {} \/ HeldByCustomer(c) = {}
    BY DEF CustomerInv, HeldOnce, HeldByOperator, HeldByCustomer, OpHolds, CustHolds
  <2>2. Cardinality(HeldByOperator(c)) + Cardinality(HeldByCustomer(c)) <= 1
    <3>1. /\ Cardinality(HeldByOperator(c)) \in {0, 1}
          /\ HeldByOperator(c) = {} => Cardinality(HeldByOperator(c)) = 0
      BY <2>1, AtMostOne
    <3>2. /\ Cardinality(HeldByCustomer(c)) \in {0, 1}
          /\ HeldByCustomer(c) = {} => Cardinality(HeldByCustomer(c)) = 0
      BY <2>1, AtMostOne
    <3> QED BY <2>1, <3>1, <3>2
  <2>3. ASSUME NEW i \in DOMAIN waiting, waiting[i] = c
        PROVE  /\ HeldByOperator(c) = {} /\ HeldByCustomer(c) = {}
               /\ c \notin custKey
               /\ \A o \in Operators : <<c, o>> \notin bridges
    <3>1. InList(c)
      BY <2>3 DEF InList, TypeInv, QueueTypeOK
    <3> QED BY <3>1 DEF CustomerInv, ListedAreFree, HeldByOperator, HeldByCustomer,
                        OpHolds, CustHolds
  <2> QED BY <2>2, <2>3
<1> QED BY <1>1, CustomerInvariant, PTL

-----------------------------------------------------------------------------
(* A step that leaves the engagements of the operators as they are          *)
(* preserves the invariant about operators.                                 *)
LEMMA QuietStep ==
  ASSUME TypeInv, OperatorInv, UNCHANGED <<free, busy, custOp, opPc, logins, opChan>>,
         bridges' \subseteq bridges,
         \A x \in Customers :
           /\ custPc'[x] \in Taken <=> custPc[x] \in Taken
           /\ custPc'[x] \in Marked <=> custPc[x] \in Marked
           /\ custPc[x] \in {"record", "talking"} =>
                \/ custPc'[x] \in {"record", "talking"}
                \/ \A o \in Operators : <<x, o>> \notin bridges'
  PROVE  OperatorInv'
<1> USE DEF OperatorInv
<1>1. \A o \in Operators : (Entering(o)' <=> Entering(o)) /\ (Present(o)' <=> Present(o))
  BY DEF Entering, Present
<1>2. \A x \in Customers, o \in Operators : Engages(x, o)' <=> Engages(x, o)
  BY DEF Engages
<1>3. FirstLogin'
  BY DEF FirstLogin
<1>4. EnteringNowhere'
  BY <1>1, <1>2 DEF EnteringNowhere
<1>5. PresentSomewhere'
  BY <1>1, <1>2 DEF PresentSomewhere
<1>6. Conversations'
  BY <1>1, <1>2 DEF Conversations
<1> QED BY <1>3, <1>4, <1>5, <1>6

(* SPOP takes an offered operator: the handler that popped it is the only   *)
(* one engaged with it.                                                     *)
LEMMA PopOperatorStep ==
  ASSUME TypeInv, OperatorInv, NEW c \in Customers, NEW o \in free, free' = free \ {o},
         custOp' = [custOp EXCEPT ![c] = o], UNCHANGED <<busy, opPc, logins, opChan, bridges>>,
         custPc' = [custPc EXCEPT ![c] = custPc'[c]], custPc'[c] \in Taken,
         custPc[c] \notin Taken \cup Marked
  PROVE  OperatorInv'
<1> USE DEF OperatorInv
<1>1. \A p \in Operators : (Entering(p)' <=> Entering(p)) /\ (Present(p)' <=> Present(p))
  BY DEF Entering, Present
<1>2. o \in Operators
  BY DEF TypeInv, QueueTypeOK
<1>3. \A x \in Customers : x # c => custPc'[x] = custPc[x] /\ custOp'[x] = custOp[x]
  BY DEF TypeInv, QueueTypeOK
<1>4. custOp'[c] = o /\ custPc'[c] \notin Marked
  BY DEF TypeInv, QueueTypeOK, Taken, Marked
<1>5. /\ \A x \in Customers, p \in Operators :
           Engages(x, p)' <=> (Engages(x, p) /\ x # c) \/ (x = c /\ p = o)
      /\ \A p \in Operators : ~Engages(c, p)
  BY <1>3, <1>4 DEF Engages
<1>6. ~Entering(o)
  BY <1>2 DEF EnteringNowhere
<1>7. Present(o) => o \notin busy /\ \A x \in Customers : ~Engages(x, o) /\ <<x, o>> \notin bridges
  BY <1>2 DEF PresentSomewhere, Conversations
<1>8. FirstLogin'
  BY DEF FirstLogin
<1>9. EnteringNowhere'
  BY <1>1, <1>5, <1>6 DEF EnteringNowhere
<1>10. PresentSomewhere'
  <2> SUFFICES ASSUME NEW p \in Operators, Present(p)
               PROVE  /\ \A x, y \in Customers : Engages(x, p)' /\ Engages(y, p)' => x = y
                      /\ p \in free' => p \notin busy' /\ \A x \in Customers : ~Engages(x, p)'
                      /\ \A x \in Customers :
                           custOp'[x] = p /\ custPc'[x] \in Taken => p \notin busy'
                      /\ \A x \in Customers :
                           custOp'[x] = p /\ custPc'[x] \in Marked => p \in busy'
                      /\ p \in free' \/ p \in busy' \/ \E x \in Customers : Engages(x, p)'
    BY <1>1 DEF PresentSomewhere
  <2>1. CASE p = o
    BY <1>3, <1>4, <1>5, <1>7, <2>1 DEF Engages
  <2>2. CASE p # o
    BY <1>3, <1>4, <1>5, <2>2 DEF PresentSomewhere
  <2> QED BY <2>1, <2>2
<1>11. Conversations'
  <2> SUFFICES ASSUME NEW p \in Operators, Entering(p) \/ Present(p)
               PROVE  /\ \A x, y \in Customers :
                           <<x, p>> \in bridges /\ <<y, p>> \in bridges => x = y
                      /\ Present(p) /\ p \notin busy => \A x \in Customers : <<x, p>> \notin bridges
                      /\ \A x, y \in Customers : Engages(x, p)' /\ <<y, p>> \in bridges =>
                           custPc'[x] \in {"record", "talking"} /\ y = x
    BY <1>1 DEF Conversations
  <2>1. CASE p = o
    BY <1>6, <1>7, <2>1
  <2>2. CASE p # o
    BY <1>3, <1>5, <2>2 DEF Conversations
  <2> QED BY <2>1, <2>2
<1> QED BY <1>8, <1>9, <1>10, <1>11

(* A handler that has marked an operator and gives up leaves it in the busy *)
(* set; so does one whose originate is refused, for an operator who is not  *)
(* logged in.                                                               *)
LEMMA GiveUpStep ==
  ASSUME TypeInv, OperatorInv, NEW c \in Customers,
         UNCHANGED <<free, busy, custOp, opPc, logins, opChan, bridges>>,
         custPc' = [custPc EXCEPT ![c] = "failed"],
         custPc[c] \in Marked \/ (custPc[c] = "getChan" /\ opChan[custOp[c]] = 0)
  PROVE  OperatorInv'
<1> USE DEF OperatorInv
<1>1. \A p \in Operators : (Entering(p)' <=> Entering(p)) /\ (Present(p)' <=> Present(p))
  BY DEF Entering, Present
<1>2. \A x \in Customers : x # c => custPc'[x] = custPc[x]
  BY DEF TypeInv, QueueTypeOK
<1>3. custPc'[c] \notin Taken \cup Marked
  BY DEF TypeInv, QueueTypeOK, Taken, Marked
<1>4. \A x \in Customers, p \in Operators : Engages(x, p)' <=> Engages(x, p) /\ x # c
  BY <1>2, <1>3 DEF Engages
<1>5. \A p \in Operators : Present(p) /\ Engages(c, p) => p \in busy
  BY DEF Present, Engages, FirstLogin, PresentSomewhere
<1>6. FirstLogin'
  BY DEF FirstLogin
<1>7. EnteringNowhere'
  BY <1>1, <1>4 DEF EnteringNowhere
<1>8. PresentSomewhere'
  BY <1>1, <1>2, <1>3, <1>4, <1>5 DEF PresentSomewhere
<1>9. Conversations'
  BY <1>1, <1>2, <1>4 DEF Conversations
<1> QED BY <1>6, <1>7, <1>8, <1>9

(* The steps of a customer's handler preserve the invariant about           *)
(* operators.                                                               *)
LEMMA CustomerOperatorStep ==
  ASSUME TypeInv, OperatorInv, NEW c \in Customers, CustomerStep(c)
  PROVE  OperatorInv'
<1> USE DEF TypeInv, QueueTypeOK, Holders, CustGo, redisVars, opVars
<1>1. CASE Enter(c) \/ CountFree(c) \/ NextCustomer(c) \/ NextChannel(c) \/ Push(c)
           \/ PollConnected(c) \/ MaxWait(c)
  <2>1. UNCHANGED <<free, busy, custOp, opPc, logins, opChan, bridges>>
    BY <1>1 DEF Enter, CountFree, NextCustomer, NextChannel, Push, PollConnected, MaxWait
  <2>2. /\ custPc' = [custPc EXCEPT ![c] = custPc'[c]]
        /\ custPc[c] \notin {"record", "talking"}
        /\ custPc'[c] \in Taken <=> custPc[c] \in Taken
        /\ custPc'[c] \in Marked <=> custPc[c] \in Marked
    BY <1>1 DEF Enter, CountFree, NextCustomer, NextChannel, Push, PollConnected, MaxWait,
                Taken, Marked
  <2> QED BY <2>1, <2>2, QuietStep
<1>2. CASE PopFree(c)
  <2>1. CASE free = {} /\ CustGo(c, "rPush") /\ UNCHANGED <<free, custOp>>
    BY <1>2, <2>1, QuietStep DEF PopFree, Taken, Marked
  <2>2. ASSUME NEW o \in free, free' = free \ {o}, custOp' = [custOp EXCEPT ![c] = o],
               CustGo(c, "getChan")
        PROVE  OperatorInv'
    <3>1. UNCHANGED <<busy, opPc, logins, opChan, bridges>> /\ custPc[c] = "sPop"
      BY <1>2 DEF PopFree
    <3>2. custPc' = [custPc EXCEPT ![c] = custPc'[c]] /\ custPc'[c] = "getChan"
      BY <2>2
    <3> QED BY <2>2, <3>1, <3>2, PopOperatorStep DEF Taken, Marked
  <2> QED BY <1>2, <2>1, <2>2 DEF PopFree
<1>3. CASE NextOperator(c)
  <2>1. CASE free = {} /\ CustGo(c, "connected") /\ UNCHANGED <<free, custOp>>
    BY <1>3, <2>1, QuietStep DEF NextOperator, Taken, Marked
  <2>2. ASSUME NEW o \in free, free' = free \ {o}, custOp' = [custOp EXCEPT ![c] = o],
               CustGo(c, "nextCust")
        PROVE  OperatorInv'
    <3>1. UNCHANGED <<busy, opPc, logins, opChan, bridges>> /\ custPc[c] = "nextPop"
      BY <1>3 DEF NextOperator
    <3>2. custPc' = [custPc EXCEPT ![c] = custPc'[c]] /\ custPc'[c] = "nextCust"
      BY <2>2
    <3> QED BY <2>2, <3>1, <3>2, PopOperatorStep DEF Taken, Marked
  <2> QED BY <1>3, <2>1, <2>2 DEF NextOperator
<1>4. CASE GetOperatorChannel(c)
  <2>1. /\ UNCHANGED <<free, busy, custOp, opPc, logins, opChan, bridges>>
        /\ custPc[c] = "getChan"
    BY <1>4 DEF GetOperatorChannel
  <2>2. CASE \E to \in {"markBusy", "putBack"} : CustGo(c, to)
    BY <2>1, <2>2, QuietStep DEF Taken, Marked
  <2>3. CASE CustGo(c, "failed") /\ opChan[custOp[c]] = 0
    BY <2>1, <2>3, GiveUpStep
  <2> QED BY <1>4, <2>2, <2>3 DEF GetOperatorChannel, originateQueuePstnMember
<1>5. CASE AddCustomer(c)
  <2>1. /\ UNCHANGED <<free, busy, custOp, opPc, logins, opChan, bridges>>
        /\ custPc[c] = "addCust"
    BY <1>5 DEF AddCustomer
  <2>2. CASE CustGo(c, "addOp")
    BY <2>1, <2>2, QuietStep DEF Taken, Marked
  <2>3. CASE CustGo(c, "failed")
    BY <2>1, <2>3, GiveUpStep DEF Marked
  <2> QED BY <1>5, <2>2, <2>3 DEF AddCustomer
<1>6. CASE CustomerHangup(c)
  <2>1. UNCHANGED <<free, busy, custOp, opPc, logins, opChan>>
    BY <1>6 DEF CustomerHangup
  <2>2. bridges' \subseteq bridges /\ \A o \in Operators : <<c, o>> \notin bridges'
    BY <1>6 DEF CustomerHangup
  <2>3. /\ \A x \in Customers : x # c => custPc'[x] = custPc[x]
        /\ \/ custPc'[c] = custPc[c]
           \/ custPc[c] = "talking" /\ custPc'[c] = "relBusy"
           \/ custPc[c] = "waiting" /\ custPc'[c] = "abandoned"
    BY <1>6 DEF CustomerHangup
  <2> QED BY <2>1, <2>2, <2>3, QuietStep DEF Taken, Marked
<1>15. CASE Record(c)
  <2>1. /\ UNCHANGED <<free, busy, custOp, opPc, logins, opChan, bridges>>
        /\ custPc[c] = "record"
    BY <1>15 DEF Record
  <2>2. CASE CustGo(c, "talking")
    BY <2>1, <2>2, QuietStep DEF Taken, Marked
  <2>3. CASE CustGo(c, "failed")
    BY <2>1, <2>3, GiveUpStep DEF Marked
  <2> QED BY <1>15, <2>2, <2>3 DEF Record
<1> USE DEF OperatorInv, Engages, Entering, Present, Taken, Marked
<1>7. CASE PutBack(c)
  <2>1. FirstLogin'
    BY <1>7 DEF PutBack, FirstLogin
  <2>2. EnteringNowhere'
    BY <1>7 DEF PutBack, EnteringNowhere, FirstLogin
  <2>3. PresentSomewhere'
    BY <1>7 DEF PutBack, EnteringNowhere, PresentSomewhere, FirstLogin
  <2>4. Conversations'
    BY <1>7 DEF PutBack, EnteringNowhere, PresentSomewhere, Conversations,
           FirstLogin
  <2> QED BY <2>1, <2>2, <2>3, <2>4
<1>8. CASE MarkBusy(c)
  <2>1. FirstLogin'
    BY <1>8 DEF MarkBusy, FirstLogin
  <2>2. EnteringNowhere'
    BY <1>8 DEF MarkBusy, EnteringNowhere, FirstLogin
  <2>3. PresentSomewhere'
    BY <1>8 DEF MarkBusy, EnteringNowhere, PresentSomewhere, FirstLogin
  <2>4. Conversations'
    BY <1>8 DEF MarkBusy, EnteringNowhere, PresentSomewhere, Conversations,
           FirstLogin
  <2> QED BY <2>1, <2>2, <2>3, <2>4
<1>9. CASE AddOperator(c)
  <2>1. FirstLogin'
    BY <1>9 DEF AddOperator, FirstLogin
  <2>2. EnteringNowhere'
    BY <1>9 DEF AddOperator, EnteringNowhere, FirstLogin
  <2>3. CASE CustGo(c, "failed") /\ UNCHANGED bridges
    <3>1. UNCHANGED <<free, busy, custOp, opPc, logins, opChan>> /\ custPc[c] = "addOp"
      BY <1>9 DEF AddOperator
    <3> QED BY <2>3, <3>1, GiveUpStep
  <2>4. ASSUME NEW to \in {"record", "talking"}, CustGo(c, to),
               bridges' = bridges \cup ({c} \cap custUp) \X {custOp[c]}
        PROVE  OperatorInv'
    <3>1. /\ UNCHANGED <<free, busy, custOp, opPc, logins, opChan>>
          /\ custPc[c] = "addOp" /\ custPc'[c] = to
          /\ \A x \in Customers : x # c => custPc'[x] = custPc[x]
      BY <1>9, <2>4 DEF AddOperator
    <3>2. \A x \in Customers, p \in Operators :
            <<x, p>> \in bridges' => <<x, p>> \in bridges \/ (x = c /\ p = custOp[c])
      BY <2>4
    <3>3. \A x \in Customers, p \in Operators : Engages(x, p)' <=> Engages(x, p)
      BY <3>1
    <3>4. PresentSomewhere'
      BY <3>1, <3>3 DEF PresentSomewhere
    <3>5. Engages(c, custOp[c]) /\ custOp[c] \in Operators
      BY <3>1
    <3>6. Present(custOp[c]) => custOp[c] \in busy /\ \A x \in Customers :
                                  /\ Engages(x, custOp[c]) => x = c
                                  /\ <<x, custOp[c]>> \notin bridges
      BY <3>1, <3>5 DEF PresentSomewhere, Conversations
    <3>7. ~Entering(custOp[c])
      BY <3>5 DEF EnteringNowhere
    <3>8. Conversations'
      <4>1. \A p \in Operators : (Entering(p)' <=> Entering(p)) /\ (Present(p)' <=> Present(p))
        BY <3>1
      <4> SUFFICES ASSUME NEW p \in Operators, Entering(p) \/ Present(p)
                   PROVE  /\ \A x, y \in Customers :
                               <<x, p>> \in bridges' /\ <<y, p>> \in bridges' => x = y
                          /\ Present(p) /\ p \notin busy => \A x \in Customers : <<x, p>> \notin bridges'
                          /\ \A x, y \in Customers : Engages(x, p) /\ <<y, p>> \in bridges' =>
                               custPc'[x] \in {"record", "talking"} /\ y = x
        BY <3>1, <3>3, <4>1 DEF Conversations
      <4>2. CASE p = custOp[c]
        <5>1. Present(p) /\ p \in busy
          BY <3>6, <3>7, <4>2
        <5>2. \A x \in Customers : <<x, p>> \in bridges' => x = c
          BY <3>2, <3>6, <4>2, <5>1
        <5>3. \A x \in Customers : Engages(x, p) => x = c
          BY <3>6, <4>2, <5>1
        <5> QED BY <3>1, <5>1, <5>2, <5>3
      <4>3. CASE p # custOp[c]
        <5>1. /\ \A x \in Customers : <<x, p>> \in bridges' => <<x, p>> \in bridges
              /\ \A x \in Customers : Engages(x, p) => x # c
          BY <3>2, <4>3
        <5> QED BY <3>1, <5>1 DEF Conversations
      <4> QED BY <4>2, <4>3
    <3> QED BY <2>1, <2>2, <3>4, <3>8
  <2> QED BY <1>9, <2>3, <2>4 DEF AddOperator
<1>10. CASE ReleaseBusy(c)
  <2>1. FirstLogin'
    BY <1>10 DEF ReleaseBusy, FirstLogin
  <2>2. EnteringNowhere'
    BY <1>10 DEF ReleaseBusy, EnteringNowhere, FirstLogin
  <2>3. PresentSomewhere'
    BY <1>10 DEF ReleaseBusy, EnteringNowhere, PresentSomewhere, FirstLogin
  <2>4. Conversations'
    BY <1>10 DEF ReleaseBusy, EnteringNowhere, PresentSomewhere, Conversations,
           FirstLogin
  <2> QED BY <2>1, <2>2, <2>3, <2>4
<1>11. CASE ReleaseFree(c)
  <2>1. FirstLogin'
    BY <1>11 DEF ReleaseFree, FirstLogin
  <2>2. EnteringNowhere'
    BY <1>11 DEF ReleaseFree, EnteringNowhere, FirstLogin
  <2>3. PresentSomewhere'
    BY <1>11 DEF ReleaseFree, EnteringNowhere, PresentSomewhere, FirstLogin
  <2>4. Conversations'
    BY <1>11 DEF ReleaseFree, EnteringNowhere, PresentSomewhere, Conversations,
           FirstLogin
  <2> QED BY <2>1, <2>2, <2>3, <2>4
<1>12. CASE NextBack(c)
  <2>1. FirstLogin'
    BY <1>12 DEF NextBack, FirstLogin
  <2>2. EnteringNowhere'
    BY <1>12 DEF NextBack, EnteringNowhere, FirstLogin
  <2>3. PresentSomewhere'
    BY <1>12 DEF NextBack, EnteringNowhere, PresentSomewhere, FirstLogin
  <2>4. Conversations'
    BY <1>12 DEF NextBack, EnteringNowhere, PresentSomewhere, Conversations,
           FirstLogin
  <2> QED BY <2>1, <2>2, <2>3, <2>4
<1>13. CASE NextBusy(c)
  <2>1. FirstLogin'
    BY <1>13 DEF NextBusy, FirstLogin
  <2>2. EnteringNowhere'
    BY <1>13 DEF NextBusy, EnteringNowhere, FirstLogin
  <2>3. PresentSomewhere'
    BY <1>13 DEF NextBusy, EnteringNowhere, PresentSomewhere, FirstLogin
  <2>4. Conversations'
    BY <1>13 DEF NextBusy, EnteringNowhere, PresentSomewhere, Conversations,
           FirstLogin
  <2> QED BY <2>1, <2>2, <2>3, <2>4
<1>14. CASE NextBridge(c)
  <2>1. FirstLogin'
    BY <1>14 DEF NextBridge, BridgeChannels, FirstLogin
  <2>2. EnteringNowhere'
    BY <1>14 DEF NextBridge, BridgeChannels, EnteringNowhere, FirstLogin
  <2>3. PresentSomewhere'
    BY <1>14 DEF NextBridge, BridgeChannels, EnteringNowhere, PresentSomewhere, FirstLogin
  <2>4. Conversations'
    <3>1. /\ UNCHANGED <<free, busy, custOp, opPc, logins, opChan>>
          /\ custPc[c] = "nextBridge" /\ custPc'[c] = "connected"
          /\ \A x \in Customers : x # c => custPc'[x] = custPc[x]
      BY <1>14 DEF NextBridge
    <3>2. \A x \in Customers, p \in Operators :
            <<x, p>> \in bridges' =>
              <<x, p>> \in bridges \/ (x = custNext[c] /\ p = custOp[c])
      BY <1>14 DEF NextBridge, BridgeChannels
    <3>3. \A x \in Customers, p \in Operators : Engages(x, p)' => Engages(x, p) /\ x # c
      BY <3>1
    <3>4. Engages(c, custOp[c]) /\ custOp[c] \in Operators
      BY <3>1
    <3>5. Present(custOp[c]) => custOp[c] \in busy /\ \A x \in Customers :
                                  /\ Engages(x, custOp[c]) => x = c
                                  /\ <<x, custOp[c]>> \notin bridges
      BY <3>1, <3>4 DEF PresentSomewhere, Conversations
    <3>6. ~Entering(custOp[c])
      BY <3>4 DEF EnteringNowhere
    <3>7. \A p \in Operators : (Entering(p)' <=> Entering(p)) /\ (Present(p)' <=> Present(p))
      BY <3>1
    <3> SUFFICES ASSUME NEW p \in Operators, Entering(p) \/ Present(p)
                 PROVE  /\ \A x, y \in Customers :
                             <<x, p>> \in bridges' /\ <<y, p>> \in bridges' => x = y
                        /\ Present(p) /\ p \notin busy => \A x \in Customers : <<x, p>> \notin bridges'
                        /\ \A x, y \in Customers : Engages(x, p)' /\ <<y, p>> \in bridges' =>
                             custPc'[x] \in {"record", "talking"} /\ y = x
      BY <3>1, <3>7 DEF Conversations
    <3>8. CASE p = custOp[c]
      <4>1. Present(p) /\ p \in busy
        BY <3>5, <3>6, <3>8
      <4>2. \A x \in Customers : <<x, p>> \in bridges' => x = custNext[c]
        BY <3>2, <3>5, <3>8, <4>1
      <4>3. \A x \in Customers : ~Engages(x, p)'
        BY <3>3, <3>5, <3>8, <4>1
      <4> QED BY <4>1, <4>2, <4>3
    <3>9. CASE p # custOp[c]
      <4>1. \A x \in Customers : <<x, p>> \in bridges' => <<x, p>> \in bridges
        BY <3>2, <3>9
      <4> QED BY <3>1, <3>3, <4>1 DEF Conversations
    <3> QED BY <3>8, <3>9
  <2> QED BY <2>1, <2>2, <2>3, <2>4
<1> QED BY <1>1, <1>2, <1>3, <1>4, <1>5, <1>6, <1>7, <1>8, <1>9, <1>10, <1>11, <1>12, <1>13, <1>14, <1>15 DEF CustomerStep, HandlerStep

(* The steps of a login preserve the invariant about operators.             *)
LEMMA OperatorOperatorStep ==
  ASSUME TypeInv, OperatorInv, NEW o \in Operators, OperatorStep(o)
  PROVE  OperatorInv'
<1> USE QueueAssumption DEF TypeInv, QueueTypeOK, Holders, OpGo, redisVars, custVars, OperatorInv,
            Engages, Entering, Present, Taken, Marked
<1>1. CASE Login(o)
  <2>1. FirstLogin'
    BY <1>1 DEF Login, FirstLogin
  <2>2. EnteringNowhere'
    BY <1>1 DEF Login, EnteringNowhere, FirstLogin
  <2>3. PresentSomewhere'
    BY <1>1 DEF Login, EnteringNowhere, PresentSomewhere, FirstLogin
  <2>4. Conversations'
    BY <1>1 DEF Login, EnteringNowhere, PresentSomewhere, Conversations,
           FirstLogin
  <2> QED BY <2>1, <2>2, <2>3, <2>4
<1>2. CASE SetChannel(o)
  <2>1. FirstLogin'
    BY <1>2 DEF SetChannel, FirstLogin
  <2>2. EnteringNowhere'
    BY <1>2 DEF SetChannel, EnteringNowhere, FirstLogin
  <2>3. PresentSomewhere'
    BY <1>2 DEF SetChannel, EnteringNowhere, PresentSomewhere, FirstLogin
  <2>4. Conversations'
    BY <1>2 DEF SetChannel, EnteringNowhere, PresentSomewhere, Conversations,
           FirstLogin
  <2> QED BY <2>1, <2>2, <2>3, <2>4
<1>3. CASE CountWaiting(o)
  <2>1. FirstLogin'
    BY <1>3 DEF CountWaiting, FirstLogin
  <2>2. EnteringNowhere'
    BY <1>3 DEF CountWaiting, EnteringNowhere, FirstLogin
  <2>3. PresentSomewhere'
    BY <1>3 DEF CountWaiting, EnteringNowhere, PresentSomewhere, FirstLogin
  <2>4. Conversations'
    BY <1>3 DEF CountWaiting, EnteringNowhere, PresentSomewhere, Conversations,
           FirstLogin
  <2> QED BY <2>1, <2>2, <2>3, <2>4
<1>4. CASE PopWaiting(o)
  <2>1. UNCHANGED <<free, busy, opChan, custVars, logins, bridges>> /\ opPc[o] = "lPop"
    BY <1>4 DEF PopWaiting
  <2>2. \E to \in {"bridge", "goFree"} : opPc' = [opPc EXCEPT ![o] = to]
    BY <1>4 DEF PopWaiting
  <2>3. FirstLogin'
    BY <2>1, <2>2 DEF FirstLogin
  <2>4. EnteringNowhere'
    BY <2>1, <2>2 DEF EnteringNowhere
  <2>5. PresentSomewhere'
    BY <2>1, <2>2 DEF PresentSomewhere
  <2>6. Conversations'
    BY <2>1, <2>2 DEF Conversations
  <2> QED BY <2>3, <2>4, <2>5, <2>6
<1>5. CASE LoginBridge(o)
  <2>1. FirstLogin'
    BY <1>5 DEF LoginBridge, BridgeChannels, FirstLogin
  <2>2. EnteringNowhere'
    BY <1>5 DEF LoginBridge, BridgeChannels, EnteringNowhere, FirstLogin
  <2>3. PresentSomewhere'
    BY <1>5 DEF LoginBridge, BridgeChannels, EnteringNowhere, PresentSomewhere, FirstLogin
  <2>4. Conversations'
    BY <1>5 DEF LoginBridge, BridgeChannels, EnteringNowhere, PresentSomewhere, Conversations,
           FirstLogin
  <2> QED BY <2>1, <2>2, <2>3, <2>4
<1>6. CASE LoginBusy(o)
  <2>1. FirstLogin'
    BY <1>6 DEF LoginBusy, FirstLogin
  <2>2. EnteringNowhere'
    BY <1>6 DEF LoginBusy, EnteringNowhere, FirstLogin
  <2>3. PresentSomewhere'
    BY <1>6 DEF LoginBusy, EnteringNowhere, PresentSomewhere, FirstLogin
  <2>4. Conversations'
    BY <1>6 DEF LoginBusy, EnteringNowhere, PresentSomewhere, Conversations,
           FirstLogin
  <2> QED BY <2>1, <2>2, <2>3, <2>4
<1>7. CASE LoginKey(o)
  <2>1. FirstLogin'
    BY <1>7 DEF LoginKey, FirstLogin
  <2>2. EnteringNowhere'
    BY <1>7 DEF LoginKey, EnteringNowhere, FirstLogin
  <2>3. PresentSomewhere'
    BY <1>7 DEF LoginKey, EnteringNowhere, PresentSomewhere, FirstLogin
  <2>4. Conversations'
    BY <1>7 DEF LoginKey, EnteringNowhere, PresentSomewhere, Conversations,
           FirstLogin
  <2> QED BY <2>1, <2>2, <2>3, <2>4
<1>8. CASE LoginFree(o)
  <2>1. FirstLogin'
    BY <1>8 DEF LoginFree, FirstLogin
  <2>2. EnteringNowhere'
    BY <1>8 DEF LoginFree, EnteringNowhere, FirstLogin
  <2>3. PresentSomewhere'
    BY <1>8 DEF LoginFree, EnteringNowhere, PresentSomewhere, FirstLogin
  <2>4. Conversations'
    BY <1>8 DEF LoginFree, EnteringNowhere, PresentSomewhere, Conversations,
           FirstLogin
  <2> QED BY <2>1, <2>2, <2>3, <2>4
<1>9. CASE Hold(o)
  <2>1. FirstLogin'
    BY <1>9 DEF Hold, FirstLogin
  <2>2. EnteringNowhere'
    BY <1>9 DEF Hold, EnteringNowhere, FirstLogin
  <2>3. PresentSomewhere'
    BY <1>9 DEF Hold, EnteringNowhere, PresentSomewhere, FirstLogin
  <2>4. Conversations'
    BY <1>9 DEF Hold, EnteringNowhere, PresentSomewhere, Conversations,
           FirstLogin
  <2> QED BY <2>1, <2>2, <2>3, <2>4
<1>10. CASE PressHash(o)
  <2>1. FirstLogin'
    BY <1>10 DEF PressHash, FirstLogin
  <2>2. EnteringNowhere'
    BY <1>10 DEF PressHash, EnteringNowhere, FirstLogin
  <2>3. PresentSomewhere'
    BY <1>10 DEF PressHash, EnteringNowhere, PresentSomewhere, FirstLogin
  <2>4. Conversations'
    BY <1>10 DEF PressHash, EnteringNowhere, PresentSomewhere, Conversations,
           FirstLogin
  <2> QED BY <2>1, <2>2, <2>3, <2>4
<1>11. CASE OperatorHangup(o)
  <2>1. FirstLogin'
    BY <1>11 DEF OperatorHangup, FirstLogin
  <2>2. EnteringNowhere'
    BY <1>11 DEF OperatorHangup, EnteringNowhere, FirstLogin
  <2>3. PresentSomewhere'
    BY <1>11 DEF OperatorHangup, EnteringNowhere, PresentSomewhere, FirstLogin
  <2>4. Conversations'
    BY <1>11 DEF OperatorHangup, EnteringNowhere, PresentSomewhere, Conversations,
           FirstLogin
  <2> QED BY <2>1, <2>2, <2>3, <2>4
<1>12. CASE LogoutFree(o)
  <2>1. FirstLogin'
    BY <1>12 DEF LogoutFree, FirstLogin
  <2>2. EnteringNowhere'
    BY <1>12 DEF LogoutFree, EnteringNowhere, FirstLogin
  <2>3. PresentSomewhere'
    BY <1>12 DEF LogoutFree, EnteringNowhere, PresentSomewhere, FirstLogin
  <2>4. Conversations'
    BY <1>12 DEF LogoutFree, EnteringNowhere, PresentSomewhere, Conversations,
           FirstLogin
  <2> QED BY <2>1, <2>2, <2>3, <2>4
<1>13. CASE LogoutBusy(o)
  <2>1. FirstLogin'
    BY <1>13 DEF LogoutBusy, FirstLogin
  <2>2. EnteringNowhere'
    BY <1>13 DEF LogoutBusy, EnteringNowhere, FirstLogin
  <2>3. PresentSomewhere'
    BY <1>13 DEF LogoutBusy, EnteringNowhere, PresentSomewhere, FirstLogin
  <2>4. Conversations'
    BY <1>13 DEF LogoutBusy, EnteringNowhere, PresentSomewhere, Conversations,
           FirstLogin
  <2> QED BY <2>1, <2>2, <2>3, <2>4
<1>14. CASE LogoutChannel(o)
  <2>1. FirstLogin'
    BY <1>14 DEF LogoutChannel, FirstLogin
  <2>2. EnteringNowhere'
    BY <1>14 DEF LogoutChannel, EnteringNowhere, FirstLogin
  <2>3. PresentSomewhere'
    BY <1>14 DEF LogoutChannel, EnteringNowhere, PresentSomewhere, FirstLogin
  <2>4. Conversations'
    BY <1>14 DEF LogoutChannel, EnteringNowhere, PresentSomewhere, Conversations,
           FirstLogin
  <2> QED BY <2>1, <2>2, <2>3, <2>4
<1> QED BY <1>1, <1>2, <1>3, <1>4, <1>5, <1>6, <1>7, <1>8, <1>9, <1>10, <1>11, <1>12, <1>13, <1>14 DEF OperatorStep

(* The invariant about operators holds of every reachable state.            *)
LEMMA OperatorInvariant == Spec => [](TypeInv /\ OperatorInv)
<1>1. Init => OperatorInv
  BY DEF Init, OperatorInv, FirstLogin, EnteringNowhere, PresentSomewhere, Conversations,
         Entering, Present, Engages, Taken, Marked
<1>2. TypeInv /\ OperatorInv /\ [Next]_vars => OperatorInv'
  <2> SUFFICES ASSUME TypeInv, OperatorInv, [Next]_vars
               PROVE  OperatorInv'
    OBVIOUS
  <2>1. CASE UNCHANGED vars
    BY <2>1, QuietStep DEF vars
  <2> QED BY <2>1, CustomerOperatorStep, OperatorOperatorStep DEF Next
<1> QED BY <1>1, <1>2, CustomerInvariant, PTL DEF Spec

(* An operator on hold in the first login is offered, busy, or popped by    *)
(* exactly one handler, and only one of these: SPOP and the sets of         *)
(* queueManager.ts never lose an operator and never give one to two         *)
(* handlers, however many of them run.                                      *)
THEOREM OperatorAccountedHolds == Spec => []OperatorAccounted
<1>1. TypeInv /\ OperatorInv => OperatorAccounted
  <2> SUFFICES ASSUME TypeInv, OperatorInv, NEW o \in Operators, opPc[o] = "hold", logins[o] = 1
               PROVE  /\ Cardinality(Popped(o)) <= 1
                      /\ o \in free => Popped(o) = {} /\ o \notin busy
                      /\ o \in busy => Popped(o) = {}
                      /\ o \in free \/ o \in busy \/ Popped(o) # {}
    BY DEF OperatorAccounted
  <2>1. Present(o)
    BY DEF Present
  <2>2. \A c \in Customers : c \in Popped(o) <=> custOp[c] = o /\ custPc[c] \in Taken
    BY DEF Popped, Taken
  <2>3. \A c \in Customers : Engages(c, o) => c \in Popped(o) \/ o \in busy
    BY <2>1, <2>2 DEF OperatorInv, PresentSomewhere, Engages
  <2>4. \A c \in Customers : c \in Popped(o) => Engages(c, o) /\ o \notin busy
    BY <2>1, <2>2 DEF OperatorInv, PresentSomewhere, Engages
  <2>5. Popped(o) \subseteq Customers
    BY DEF Popped
  <2>6. \A c, d \in Popped(o) : c = d
    BY <2>1, <2>4, <2>5 DEF OperatorInv, PresentSomewhere
  <2>7. Cardinality(Popped(o)) <= 1
    <3>1. Cardinality(Popped(o)) \in {0, 1}
      BY <2>6, AtMostOne
    <3> QED BY <3>1
  <2>8. o \in free => Popped(o) = {} /\ o \notin busy
    BY <2>1, <2>4, <2>5 DEF OperatorInv, PresentSomewhere
  <2>9. o \in free \/ o \in busy \/ Popped(o) # {}
    BY <2>1, <2>3 DEF OperatorInv, PresentSomewhere
  <2>10. o \in busy => Popped(o) = {}
    BY <2>4, <2>5
  <2> QED BY <2>7, <2>8, <2>9, <2>10
<1> QED BY <1>1, OperatorInvariant, PTL

(* An operator in the first login talks to one customer of the queue at a   *)
(* time, and is not offered to another of them meanwhile (bridgeChannels,   *)
(* queueManager.ts).  The queue's own handlers are meant: another queue the *)
(* operator is logged in to may pop the same channel.                       *)
THEOREM OneConversationHolds == Spec => []OneConversation
<1>1. TypeInv /\ OperatorInv => OneConversation
  <2> SUFFICES ASSUME TypeInv, OperatorInv, NEW o \in Operators, logins[o] = 1, opPc[o] = "hold"
               PROVE  /\ Cardinality({b \in bridges : b[2] = o}) <= 1
                      /\ (\E b \in bridges : b[2] = o) => o \notin free
    BY DEF OneConversation
  <2> DEFINE talks == {b \in bridges : b[2] = o}
  <2>1. Present(o)
    BY DEF Present
  <2>2. \A b \in talks : b[1] \in Customers /\ b = <<b[1], o>> /\ <<b[1], o>> \in bridges
    <3> SUFFICES ASSUME NEW b \in talks
                 PROVE  b[1] \in Customers /\ b = <<b[1], o>>
      OBVIOUS
    <3>1. b \in Customers \X Operators /\ b[2] = o
      BY DEF TypeInv, QueueTypeOK
    <3> QED BY <3>1
  <2>3. \A c, d \in Customers : <<c, o>> \in bridges /\ <<d, o>> \in bridges => c = d
    BY <2>1 DEF OperatorInv, Conversations
  <2>4. \A b, d \in talks : b = d
    BY <2>2, <2>3
  <2>5. Cardinality(talks) <= 1
    <3>1. Cardinality(talks) \in {0, 1}
      BY <2>4, AtMostOne
    <3> QED BY <3>1
  <2>6. \A b \in talks : o \in busy
    BY <2>1, <2>2 DEF OperatorInv, Conversations
  <2>7. o \in busy => o \notin free
    BY <2>1 DEF OperatorInv, PresentSomewhere
  <2> QED BY <2>5, <2>6, <2>7
<1> QED BY <1>1, OperatorInvariant, PTL
=============================================================================
