--------------------------- MODULE CallbackProofs ---------------------------
(***************************************************************************)
(* Proofs about callbacks, for every number of execute requests: type      *)
(* correctness, that the shared waiters never go stale, that legs are held *)
(* once, and that the row of a callback nobody works on is final.          *)
(***************************************************************************)
EXTENDS Callback, SequenceTheorems, TLAPS

(* No execution is numbered 0, the value of an empty waiter.                *)
LEMMA NotZero == 0 \notin Executions
BY ExecutesAssumption DEF Executions

Pc == BackendPc \cup LegPc \cup BridgePc
Chan == [Leg -> [Executions -> {"none", "ringing", "up", "gone"}]]

(* Moving one execution, publishing and ending a channel keep the types.    *)
LEMMA GoType ==
  ASSUME CallbackTypeOK, NEW e \in Executions, NEW to \in Pc, Go(e, to)
  PROVE  pc' \in [Executions -> Pc]
BY DEF CallbackTypeOK, Go, Pc

(* A published status is a message the backend understands.                 *)
LEMMA PublishType ==
  ASSUME CallbackTypeOK, NEW new \in Status, publishStatus(new)
  PROVE  toBackend' \in Seq(Status)
BY AppendProperties DEF CallbackTypeOK, publishStatus

(* Taking one message out of the list leaves the others in their order.     *)
LEMMA TakenOut ==
  ASSUME NEW S, NEW s \in Seq(S), NEW i \in 1..Len(s)
  PROVE  LET t == SubSeq(s, 1, i - 1) \o SubSeq(s, i + 1, Len(s)) IN
         /\ t \in Seq(S)
         /\ Len(t) = Len(s) - 1
         /\ \A j \in 1..(Len(s) - 1) : t[j] = IF j < i THEN s[j] ELSE s[j + 1]
<1> DEFINE a == SubSeq(s, 1, i - 1)
           b == SubSeq(s, i + 1, Len(s))
<1>1. Len(s) \in Nat /\ i \in 1..Len(s)
  OBVIOUS
<1>2. a \in Seq(S) /\ Len(a) = i - 1 /\ \A j \in 1..(i - 1) : a[j] = s[j]
  BY <1>1, SubSeqProperties
<1>3. /\ b \in Seq(S) /\ Len(b) = Len(s) - i
      /\ \A j \in 1..(Len(s) - i) : b[j] = s[i + j]
  BY <1>1, SubSeqProperties
<1> HIDE DEF a, b
<1>4. /\ a \o b \in Seq(S)
      /\ Len(a \o b) = Len(s) - 1
      /\ \A j \in 1..(Len(s) - 1) : (a \o b)[j] = IF j <= i - 1 THEN a[j] ELSE b[j - (i - 1)]
  <2>1. /\ a \o b \in Seq(S)
        /\ Len(a \o b) = Len(a) + Len(b)
        /\ \A j \in 1..(Len(a) + Len(b)) :
             (a \o b)[j] = IF j <= Len(a) THEN a[j] ELSE b[j - Len(a)]
    BY <1>2, <1>3, ConcatProperties
  <2>2. Len(a) + Len(b) = Len(s) - 1
    BY <1>1, <1>2, <1>3
  <2> QED BY <1>2, <2>1, <2>2
<1>5. \A j \in 1..(Len(s) - 1) : (a \o b)[j] = IF j < i THEN s[j] ELSE s[j + 1]
  <2> TAKE j \in 1..(Len(s) - 1)
  <2>1. CASE j < i
    BY <1>1, <1>2, <1>4, <2>1
  <2>2. CASE ~(j < i)
    <3>1. j - (i - 1) \in 1..(Len(s) - i) /\ i + (j - (i - 1)) = j + 1
      BY <1>1, <2>2
    <3> QED BY <1>1, <1>3, <1>4, <2>2, <3>1
  <2> QED BY <2>1, <2>2
<1> QED BY <1>4, <1>5 DEF a, b

(* So does an execution that fails and says so.                             *)
LEMMA FailType ==
  ASSUME CallbackTypeOK, NEW e \in Executions, FailStatus(e)
  PROVE  pc' \in [Executions -> Pc] /\ toBackend' \in Seq(Status)
<1>1. "failed" \in Status /\ "done" \in Pc
  BY DEF Status, Terminal, Pc, BridgePc
<1> QED BY <1>1, GoType, PublishType DEF FailStatus

(* A channel of a leg moves from one of its states to another.              *)
LEMMA ChanType ==
  ASSUME CallbackTypeOK, NEW l \in Leg, NEW x \in Executions \cup {0},
         NEW to \in {"none", "ringing", "up", "gone"}
  PROVE  [chan EXCEPT ![l][x] = to] \in Chan
BY DEF CallbackTypeOK, Chan

(* A wait is answered with the channel of some execution.                   *)
LEMMA HeldType ==
  ASSUME CallbackTypeOK, NEW l \in Leg, NEW w \in Executions, NEW x \in Executions
  PROVE  [held EXCEPT ![w][l] = x] \in [Executions -> [Leg -> Executions \cup {0}]]
BY DEF CallbackTypeOK

(* Every step keeps the types.                                              *)
LEMMA TypeStep == CallbackTypeOK /\ [Next]_vars => CallbackTypeOK'
<1> SUFFICES ASSUME CallbackTypeOK, [Next]_vars PROVE CallbackTypeOK'
  OBVIOUS
<1>1. ASSUME NEW e \in Executions, ExecuteRead(e) \/ RequestStep(e)
      PROVE  CallbackTypeOK'
  BY <1>1 DEF ExecuteRead, RequestStep, ExecuteUpdate, ExecutePublish, BackendPc, Status,
     CallbackTypeOK, Go
<1>2. ASSUME NEW e \in Executions, ExecutionStep(e)
      PROVE  CallbackTypeOK'
  <2>1. CASE Receive(e) \/ ExecutionThrows(e) \/ OperatorUnanswered(e)
    <3>1. "originate" \in Pc
      BY DEF Pc, LegPc
    <3>2. pc' \in [Executions -> Pc] /\ toBackend' \in Seq(Status)
      BY <2>1, <3>1, GoType, FailType
         DEF Receive, ExecutionThrows, OperatorUnanswered, CallbackTypeOK
    <3> QED BY <2>1, <3>2 DEF Receive, ExecutionThrows, OperatorUnanswered, CallbackTypeOK, Pc
  <2>2. CASE Originate(e)
    <3>1. "response" \in Pc /\ leg[e] \in Leg
      BY DEF Pc, LegPc, CallbackTypeOK
    <3>2. pc' \in [Executions -> Pc] /\ chan' \in Chan
      BY <2>2, <3>1, GoType, ChanType DEF Originate
    <3> QED BY <2>2, <3>2 DEF Originate, CallbackTypeOK, Pc, Chan
  <2>3. CASE Register(e)
    <3>1. "wait" \in Pc
      BY DEF Pc, LegPc
    <3>2. pc' \in [Executions -> Pc]
      BY <2>3, <3>1, GoType DEF Register
    <3> QED BY <2>3, <3>2 DEF Register, CallbackTypeOK, Pc
  <2>4. CASE WaitTimeout(e)
    <3>1. "unanswered" \in Pc
      BY DEF Pc, LegPc
    <3>2. pc' \in [Executions -> Pc]
      BY <2>4, <3>1 DEF WaitTimeout, CallbackTypeOK, Pc
    <3>3. waiter' \in [Leg -> Executions \cup {0}]
      BY <2>4 DEF WaitTimeout, CallbackTypeOK
    <3> QED BY <2>4, <3>2, <3>3 DEF WaitTimeout, CallbackTypeOK, Pc
  <2>5. CASE OperatorAnswered(e) \/ CustomerAnswered(e)
    <3>1. /\ {"originate", "addOperator"} \subseteq Pc
          /\ {"dialing_customer", "bridged"} \subseteq Status
      BY DEF Pc, LegPc, BridgePc, Status
    <3>2. pc' \in [Executions -> Pc] /\ toBackend' \in Seq(Status)
      BY <2>5, <3>1, GoType, PublishType DEF OperatorAnswered, CustomerAnswered
    <3>3. leg' \in [Executions -> Leg]
      BY <2>5 DEF OperatorAnswered, CustomerAnswered, CallbackTypeOK, Leg
    <3> QED BY <2>5, <3>2, <3>3 DEF OperatorAnswered, CustomerAnswered, CallbackTypeOK, Pc
  <2>6. CASE CustomerUnanswered(e)
    <3>1. "operator" \in Leg /\ held[e]["operator"] \in Executions \cup {0}
      BY DEF Leg, CallbackTypeOK
    <3>2. chan' \in Chan
      BY <2>6, <3>1, ChanType DEF CustomerUnanswered, HangUp
    <3>3. pc' \in [Executions -> Pc] /\ toBackend' \in Seq(Status)
      BY <2>6, FailType DEF CustomerUnanswered
    <3> QED BY <2>6, <3>2, <3>3 DEF CustomerUnanswered, CallbackTypeOK, Pc, Chan
  <2>7. CASE AddOperator(e) \/ AddCustomer(e)
    BY <2>7 DEF AddOperator, AddCustomer, BridgePc, CallbackTypeOK, Go
  <2>8. CASE Complete(e)
    <3>1. "completed" \in Status /\ "done" \in Pc
      BY DEF Status, Terminal, Pc, BridgePc
    <3>2. pc' \in [Executions -> Pc] /\ toBackend' \in Seq(Status)
      BY <2>8, <3>1, GoType, PublishType DEF Complete
    <3>3. chan' \in Chan
      BY <2>8 DEF Complete, CallbackTypeOK, Chan
    <3> QED BY <2>8, <3>2, <3>3 DEF Complete, CallbackTypeOK, Pc, Chan
  <2> QED BY <1>2, <2>1, <2>2, <2>3, <2>4, <2>5, <2>6, <2>7, <2>8 DEF ExecutionStep
<1>3. ASSUME NEW e \in Executions, NEW l \in Leg, LegEnters(e, l)
      PROVE  CallbackTypeOK'
  <2>1. CASE waiter[l] = 0
    <3>1. chan' \in Chan
      BY <1>3, <2>1, ChanType DEF LegEnters
    <3> QED BY <1>3, <2>1, <3>1 DEF LegEnters, CallbackTypeOK, Chan
  <2>2. CASE waiter[l] # 0
    <3>1. waiter[l] \in Executions /\ "answered" \in Pc
      BY <2>2 DEF CallbackTypeOK, Pc, LegPc
    <3>2. chan' \in Chan /\ pc' \in [Executions -> Pc]
      BY <1>3, <2>2, <3>1, ChanType, GoType, ZenonT(40) DEF LegEnters
    <3>3. waiter' \in [Leg -> Executions \cup {0}]
      BY <1>3, <2>2 DEF LegEnters, CallbackTypeOK
    <3>4. held' \in [Executions -> [Leg -> Executions \cup {0}]]
      <4>1. held' = [held EXCEPT ![waiter[l]][l] = e]
        BY <1>3, <2>2 DEF LegEnters
      <4> QED BY <3>1, <4>1, HeldType
    <3> QED BY <1>3, <3>2, <3>3, <3>4 DEF LegEnters, CallbackTypeOK, Chan, Pc
  <2> QED BY <2>1, <2>2
<1>4. ASSUME NEW e \in Executions, NEW l \in Leg, LegEnds(e, l)
      PROVE  CallbackTypeOK'
  <2>1. chan' \in Chan
    BY <1>4, ChanType DEF LegEnds
  <2>2. pc' \in [Executions -> Pc]
    BY <1>4 DEF LegEnds, CallbackTypeOK, Pc, BridgePc
  <2> QED BY <1>4, <2>1, <2>2 DEF LegEnds, CallbackTypeOK, Chan, Pc
<1>5. CASE CancelRead \/ CancelUpdate
  BY <1>5 DEF CancelRead, CancelUpdate, Status, Terminal, CallbackTypeOK
<1>6. CASE HandleStatusUpdate
  <2>1. PICK i \in 1..Len(toBackend) :
          /\ toBackend' = SubSeq(toBackend, 1, i - 1) \o SubSeq(toBackend, i + 1, Len(toBackend))
          /\ status' \in {status, toBackend[i]} /\ astray' \in BOOLEAN
    BY <1>6 DEF HandleStatusUpdate, CallbackTypeOK
  <2>2. toBackend \in Seq(Status) /\ toBackend[i] \in Status
    BY DEF CallbackTypeOK
  <2>3. toBackend' \in Seq(Status)
    BY <2>1, <2>2, TakenOut
  <2>4. status' \in Status
    BY <2>1, <2>2 DEF CallbackTypeOK
  <2>5. UNCHANGED <<cancelPc, pc, leg, waiter, held, chan>>
    BY <1>6 DEF HandleStatusUpdate
  <2> QED BY <2>1, <2>3, <2>4, <2>5 DEF CallbackTypeOK
<1>7. CASE UNCHANGED vars
  BY <1>7 DEF vars, CallbackTypeOK
<1> QED BY <1>1, <1>2, <1>3, <1>4, <1>5, <1>6, <1>7 DEF Next

(* Type correctness of the callback model.                                  *)
THEOREM CallbackTypeCorrect == Spec => []CallbackTypeOK
<1>1. Init => CallbackTypeOK
  <2> SUFFICES ASSUME Init PROVE CallbackTypeOK
    OBVIOUS
  <2>1. astray \in BOOLEAN
    BY DEF Init
  <2> QED BY <2>1 DEF Init, CallbackTypeOK, Status, BackendPc, Leg
<1>2. QED
  BY <1>1, TypeStep, PTL DEF Spec

-----------------------------------------------------------------------------
(* The waiters.  A step of an execution that does not wait, and that leaves *)
(* the map alone, makes no waiter stale.                                    *)
LEMMA OwnStepKeepsWaiters ==
  ASSUME CallbackTypeOK, NoStaleWaiter, NEW e \in Executions, pc[e] # "wait",
         \A x \in Executions : x # e => pc'[x] = pc[x] /\ leg'[x] = leg[x],
         waiter' = waiter
  PROVE  NoStaleWaiter'
BY DEF CallbackTypeOK, NoStaleWaiter

(* Every step leaves only waiters somebody waits for.                       *)
LEMMA WaiterStep == CallbackTypeOK /\ NoStaleWaiter /\ [Next]_vars => NoStaleWaiter'
<1> SUFFICES ASSUME CallbackTypeOK, NoStaleWaiter, [Next]_vars PROVE NoStaleWaiter'
  OBVIOUS
<1>1. ASSUME NEW e \in Executions, ExecuteRead(e) \/ RequestStep(e) PROVE NoStaleWaiter'
  BY <1>1, OwnStepKeepsWaiters
     DEF ExecuteRead, RequestStep, ExecuteUpdate, ExecutePublish, Go, CallbackTypeOK
<1>2. ASSUME NEW e \in Executions, ExecutionStep(e) PROVE NoStaleWaiter'
  <2>1. CASE \/ Receive(e) \/ Originate(e) \/ ExecutionThrows(e)
             \/ OperatorUnanswered(e) \/ CustomerUnanswered(e)
    BY <2>1, OwnStepKeepsWaiters DEF Receive, Originate, ExecutionThrows, FailStatus,
       OperatorUnanswered, CustomerUnanswered, Go, CallbackTypeOK
  <2>2. CASE OperatorAnswered(e) \/ CustomerAnswered(e)
    BY <2>2, OwnStepKeepsWaiters DEF OperatorAnswered, CustomerAnswered, Go, CallbackTypeOK
  <2>3. CASE AddOperator(e) \/ AddCustomer(e) \/ Complete(e)
    BY <2>3, OwnStepKeepsWaiters DEF AddOperator, AddCustomer, Complete, Go, CallbackTypeOK
  <2>4. CASE Register(e)
    BY <2>4 DEF Register, Go, NoStaleWaiter, CallbackTypeOK
  <2>5. CASE WaitTimeout(e)
    BY <2>5 DEF WaitTimeout, NoStaleWaiter, CallbackTypeOK
  <2> QED BY <1>2, <2>1, <2>2, <2>3, <2>4, <2>5 DEF ExecutionStep
<1>3. ASSUME NEW e \in Executions, NEW l \in Leg, LegEnters(e, l) PROVE NoStaleWaiter'
  <2>1. CASE waiter[l] = 0
    BY <1>3, <2>1 DEF LegEnters, NoStaleWaiter
  <2>2. CASE waiter[l] # 0
    <3>1. /\ waiter[l] \in Executions /\ leg[waiter[l]] = l /\ leg' = leg
          /\ \A m \in Leg : waiter'[m] = IF m = l THEN 0 ELSE waiter[m]
          /\ \A x \in Executions : x # waiter[l] => pc'[x] = pc[x]
      BY <1>3, <2>2 DEF LegEnters, Go, NoStaleWaiter, CallbackTypeOK
    <3>2. \A m \in Leg : waiter[m] \in Executions \cup {0}
      BY DEF CallbackTypeOK
    <3> QED BY <3>1, <3>2 DEF NoStaleWaiter
  <2> QED BY <2>1, <2>2
<1>4. ASSUME NEW e \in Executions, NEW l \in Leg, LegEnds(e, l) PROVE NoStaleWaiter'
  BY <1>4 DEF LegEnds, NoStaleWaiter, CallbackTypeOK
<1>5. CASE CancelRead \/ CancelUpdate \/ HandleStatusUpdate \/ UNCHANGED vars
  BY <1>5 DEF CancelRead, CancelUpdate, HandleStatusUpdate, vars, NoStaleWaiter
<1> QED BY <1>1, <1>2, <1>3, <1>4, <1>5 DEF Next

(* No waiter in the map is stale, however many executions share it.         *)
THEOREM NoStaleWaiterHolds == Spec => []NoStaleWaiter
<1>1. Init => NoStaleWaiter
  BY DEF Init, NoStaleWaiter
<1>2. QED
  BY <1>1, WaiterStep, CallbackTypeCorrect, PTL DEF Spec

-----------------------------------------------------------------------------
(* The last message or the row.                                             *)

\* An execution that is under way after the step leaves nothing to show.
LEMMA ActiveIsNotQuiet ==
  ASSUME NEW e \in Executions, pc'[e] \notin {"idle", "done"}
  PROVE  LastIsFinal'
BY DEF LastIsFinal, Quiet

(* A final status that is published last is the last message.               *)
LEMMA FinalPublished ==
  ASSUME CallbackTypeOK, NEW new \in Terminal, publishStatus(new)
  PROVE  LastIsFinal'
<1>1. new \in Status
  BY DEF Status
<1>2. toBackend' # <<>> /\ toBackend'[Len(toBackend')] = new
  BY <1>1, AppendProperties DEF CallbackTypeOK, publishStatus
<1> QED BY <1>2 DEF LastIsFinal

(* Every step leaves a final status to be shown in the end.                 *)
LEMMA LastStep == CallbackTypeOK /\ LastIsFinal /\ [Next]_vars => LastIsFinal'
<1> SUFFICES ASSUME CallbackTypeOK, LastIsFinal, [Next]_vars PROVE LastIsFinal'
  OBVIOUS
<1>1. ASSUME NEW e \in Executions, ExecuteRead(e) \/ RequestStep(e) PROVE LastIsFinal'
  BY <1>1, ActiveIsNotQuiet
     DEF ExecuteRead, RequestStep, ExecuteUpdate, ExecutePublish, Go, CallbackTypeOK
<1>2. ASSUME NEW e \in Executions, ExecutionStep(e) PROVE LastIsFinal'
  <2>1. CASE FailStatus(e)
    <3>1. "failed" \in Terminal
      BY DEF Terminal
    <3> QED BY <2>1, <3>1, FinalPublished DEF FailStatus
  <2>2. CASE Complete(e)
    <3>1. "completed" \in Terminal
      BY DEF Terminal
    <3> QED BY <2>2, <3>1, FinalPublished DEF Complete
  <2>3. CASE \/ Go(e, "originate") \/ Originate(e) \/ Register(e) \/ WaitTimeout(e)
             \/ CustomerAnswered(e) \/ AddOperator(e) \/ AddCustomer(e)
    BY <2>3, ActiveIsNotQuiet DEF Originate, Register, WaitTimeout, CustomerAnswered,
       AddOperator, AddCustomer, Go, CallbackTypeOK
  <2> QED BY <1>2, <2>1, <2>2, <2>3 DEF ExecutionStep, Receive, ExecutionThrows,
          OperatorUnanswered, OperatorAnswered, CustomerUnanswered
<1>3. ASSUME NEW e \in Executions, NEW l \in Leg, LegEnters(e, l) PROVE LastIsFinal'
  <2>1. CASE waiter[l] = 0
    BY <1>3, <2>1 DEF LegEnters, LastIsFinal, Quiet
  <2>2. CASE waiter[l] # 0
    <3>1. waiter[l] \in Executions /\ pc'[waiter[l]] = "answered"
      BY <1>3, <2>2 DEF LegEnters, Go, CallbackTypeOK
    <3> QED BY <3>1, ActiveIsNotQuiet
  <2> QED BY <2>1, <2>2
<1>4. ASSUME NEW e \in Executions, NEW l \in Leg, LegEnds(e, l) PROVE LastIsFinal'
  <2>1. Quiet' => Quiet
    BY <1>4 DEF LegEnds, Quiet, CallbackTypeOK
  <2> QED BY <1>4, <2>1 DEF LegEnds, LastIsFinal
<1>5. CASE CancelRead \/ CancelUpdate \/ UNCHANGED vars
  BY <1>5 DEF CancelRead, CancelUpdate, vars, LastIsFinal, Quiet, Terminal
<1>6. CASE HandleStatusUpdate
  <2>1. PICK i \in 1..Len(toBackend) :
          /\ toBackend' = SubSeq(toBackend, 1, i - 1) \o SubSeq(toBackend, i + 1, Len(toBackend))
          /\ \/ /\ status' = toBackend[i]
                /\ astray' = (astray \/ (toBackend[i] \in Terminal /\ OlderPending(i)))
             \/ astray' = (astray \/ toBackend[i] \in Terminal)
    BY <1>6 DEF HandleStatusUpdate
  <2>2. toBackend \in Seq(Status) /\ Len(toBackend) \in Nat
    BY DEF CallbackTypeOK
  <2>3. Quiet' = Quiet
    BY <1>6 DEF HandleStatusUpdate, Quiet
  <2>4. /\ toBackend' \in Seq(Status)
        /\ Len(toBackend') = Len(toBackend) - 1
        /\ \A j \in 1..(Len(toBackend) - 1) :
             toBackend'[j] = IF j < i THEN toBackend[j] ELSE toBackend[j + 1]
    BY <2>1, <2>2, TakenOut
  <2> SUFFICES ASSUME Quiet, ~astray'
               PROVE  IF toBackend' = <<>>
                      THEN status' \in Terminal \cup {"pending"}
                      ELSE toBackend'[Len(toBackend')] \in Terminal
    BY <2>3 DEF LastIsFinal
  <2>5. toBackend # <<>> /\ ~astray
    BY <2>1, <2>2 DEF CallbackTypeOK
  <2>6. toBackend[Len(toBackend)] \in Terminal
    BY <2>5 DEF LastIsFinal
  <2>7. CASE i # Len(toBackend)
    <3>1. /\ Len(toBackend') \in 1..(Len(toBackend) - 1) /\ ~(Len(toBackend') < i)
          /\ Len(toBackend') + 1 = Len(toBackend)
      BY <2>2, <2>4, <2>7
    <3>2. toBackend' # <<>>
      BY <3>1
    <3>3. toBackend'[Len(toBackend')] = toBackend[Len(toBackend)]
      BY <2>4, <3>1
    <3> QED BY <2>6, <3>2, <3>3
  <2>8. CASE i = Len(toBackend)
    <3>1. status' = toBackend[i] /\ \A j \in 1..(i - 1) : toBackend[j] \in Terminal
      BY <2>1, <2>6, <2>8 DEF OlderPending
    <3>2. CASE Len(toBackend) = 1
      BY <2>4, <2>6, <2>8, <3>1, <3>2, EmptySeq
    <3>3. CASE Len(toBackend) # 1
      <4>1. Len(toBackend') \in 1..(i - 1) /\ Len(toBackend') < i
        BY <2>2, <2>4, <2>8, <3>3
      <4>2. toBackend' # <<>>
        BY <4>1
      <4>3. toBackend'[Len(toBackend')] = toBackend[Len(toBackend')]
        BY <2>4, <2>8, <4>1
      <4> QED BY <3>1, <4>1, <4>2, <4>3
    <3> QED BY <3>2, <3>3
  <2> QED BY <2>7, <2>8
<1> QED BY <1>1, <1>2, <1>3, <1>4, <1>5, <1>6 DEF Next

(* The row of a callback that nobody works on any more is final, unless a   *)
(* final update failed or was applied before an older one that is not       *)
(* final, as the subscriber's concurrent handlers allow.                    *)
THEOREM RowSettledHolds == Spec => []RowSettled
<1>1. Init => LastIsFinal
  BY DEF Init, LastIsFinal
<1>2. LastIsFinal => RowSettled
  BY DEF LastIsFinal, RowSettled, Quiet
<1>3. QED
  BY <1>1, <1>2, LastStep, CallbackTypeCorrect, PTL DEF Spec

-----------------------------------------------------------------------------
(* The legs.                                                                *)

HeldOnce ==
  \A e, f \in Executions, l \in Leg :
    held[e][l] # 0 /\ held[e][l] = held[f][l] => e = f

LegInv == HeldOnce /\ HeldAnswered /\ FreshLegs

\* A channel is answered, or was never created, for good.
LegsForward ==
  \A l \in Leg, x \in Executions :
    /\ chan[l][x] \in {"up", "gone"} => chan'[l][x] \in {"up", "gone"}
    /\ chan[l][x] = "none" => chan'[l][x] = "none"

\* Steps of one execution that keep its leg: they need only look at their pc.
LEMMA OwnStepKeepsLegs ==
  ASSUME CallbackTypeOK, LegInv, UNCHANGED <<held, leg>>, LegsForward,
         NEW e \in Executions,
         \A x \in Executions : x # e => pc'[x] = pc[x],
         pc'[e] # "answered",
         pc'[e] \in BridgePc \ {"done"} => leg[e] = "customer" /\ held[e]["customer"] # 0,
         pc'[e] \in BackendPc \cup {"originate"} => chan[leg[e]][e] = "none"
  PROVE  LegInv'
<1> USE DEF LegInv
<1>1. HeldOnce'
  BY DEF HeldOnce
<1>2. \A x \in Executions, l \in Leg :
        held'[x][l] # 0 => chan'[l][held'[x][l]] \in {"up", "gone"}
  BY DEF HeldAnswered, CallbackTypeOK, LegsForward
<1>3. HeldAnswered'
  BY <1>2 DEF HeldAnswered
<1>4. FreshLegs'
  BY DEF FreshLegs, LegsForward, CallbackTypeOK, Leg
<1> QED BY <1>1, <1>3, <1>4

(* Every step keeps what is known of the legs that are held.                *)
LEMMA LegStep ==
  ASSUME CallbackTypeOK, NoStaleWaiter, LegInv, [Next]_vars
  PROVE  LegInv'
<1>1. ASSUME NEW e \in Executions, ExecuteRead(e) \/ RequestStep(e)
      PROVE  LegInv'
  <2>1. pc[e] \in BackendPc /\ pc'[e] \in BackendPc /\ UNCHANGED <<held, leg, chan>>
    BY <1>1 DEF ExecuteRead, RequestStep, ExecuteUpdate, ExecutePublish, Go, BackendPc,
       CallbackTypeOK
  <2>2. \A x \in Executions : x # e => pc'[x] = pc[x]
    BY <1>1 DEF ExecuteRead, RequestStep, ExecuteUpdate, ExecutePublish, Go, CallbackTypeOK
  <2>3. pc'[e] # "answered" /\ pc'[e] \notin BridgePc
    BY <2>1 DEF BackendPc, BridgePc
  <2>4. chan[leg[e]][e] = "none"
    BY <2>1 DEF LegInv, FreshLegs
  <2>5. LegsForward
    BY <2>1 DEF LegsForward
  <2> QED BY <2>1, <2>2, <2>3, <2>4, <2>5, OwnStepKeepsLegs
<1>2. ASSUME NEW e \in Executions, ExecutionStep(e)
      PROVE  LegInv'
  <2>1. CASE Receive(e) \/ ExecutionThrows(e) \/ OperatorUnanswered(e) \/ Register(e)
             \/ AddOperator(e) \/ AddCustomer(e)
    <3>1. UNCHANGED <<held, leg, chan>>
      BY <2>1 DEF Receive, ExecutionThrows, OperatorUnanswered, Register, AddOperator,
         AddCustomer
    <3>2. /\ pc'[e] \in {"originate", "done", "wait", "addCustomer", "talking"}
          /\ \A x \in Executions : x # e => pc'[x] = pc[x]
          /\ pc'[e] \in {"addCustomer", "talking"} => pc[e] \in {"addOperator", "addCustomer"}
          /\ pc'[e] = "originate" => pc[e] = "sent"
      BY <2>1 DEF Receive, ExecutionThrows, OperatorUnanswered, Register, FailStatus, Go,
         AddOperator, AddCustomer, CallbackTypeOK
    <3>3. LegsForward
      BY <3>1 DEF LegsForward
    <3>4. /\ pc'[e] # "answered"
          /\ pc'[e] \in BridgePc \ {"done"} => leg[e] = "customer" /\ held[e]["customer"] # 0
      BY <3>2 DEF LegInv, HeldAnswered, BridgePc
    <3>5. pc'[e] \in BackendPc \cup {"originate"} => chan[leg[e]][e] = "none"
      BY <3>2 DEF LegInv, FreshLegs, BackendPc
    <3> QED BY <3>1, <3>2, <3>3, <3>4, <3>5, OwnStepKeepsLegs
  <2>2. CASE Originate(e)
    <3> DEFINE l == leg[e]
    <3>1. /\ l \in Leg /\ chan[l][e] = "none" /\ UNCHANGED <<held, leg>>
          /\ pc'[e] = "response" /\ \A x \in Executions : x # e => pc'[x] = pc[x]
      BY <2>2 DEF Originate, Go, CallbackTypeOK, LegInv, FreshLegs
    <3>2. \A m \in Leg, x \in Executions :
            chan'[m][x] = IF m = l /\ x = e THEN "ringing" ELSE chan[m][x]
      BY <2>2, <3>1 DEF Originate, CallbackTypeOK
    <3>3. HeldOnce'
      BY <3>1 DEF LegInv, HeldOnce
    <3>4. \A x \in Executions, m \in Leg :
            held'[x][m] # 0 => chan'[m][held'[x][m]] \in {"up", "gone"}
      <4> SUFFICES ASSUME NEW x \in Executions, NEW m \in Leg, held[x][m] # 0
                   PROVE  chan'[m][held[x][m]] \in {"up", "gone"}
        BY <3>1
      <4>1. held[x][m] \in Executions
        BY DEF CallbackTypeOK
      <4>2. chan[m][held[x][m]] \in {"up", "gone"}
        BY DEF LegInv, HeldAnswered
      <4>3. ~(m = l /\ held[x][m] = e)
        BY <3>1, <4>2
      <4> QED BY <3>2, <4>1, <4>2, <4>3
    <3>5. HeldAnswered'
      BY <3>1, <3>4 DEF LegInv, HeldAnswered, BridgePc
    <3>6. FreshLegs'
      <4> SUFFICES ASSUME NEW x \in Executions
                   PROVE  /\ pc'[x] \in BackendPc \cup {"originate"} => chan'[leg[x]][x] = "none"
                          /\ leg[x] = "operator" => chan'["customer"][x] = "none"
        BY <3>1 DEF FreshLegs
      <4>1. leg[x] \in Leg /\ "customer" \in Leg
        BY DEF CallbackTypeOK, Leg
      <4>2. pc'[e] \notin BackendPc \cup {"originate"}
        BY <3>1 DEF BackendPc
      <4> QED BY <3>1, <3>2, <4>1, <4>2 DEF LegInv, FreshLegs
    <3> QED BY <3>3, <3>5, <3>6 DEF LegInv
  <2>3. CASE WaitTimeout(e)
    <3>1. /\ UNCHANGED <<held, leg, chan>>
          /\ \A x \in Executions : pc'[x] = pc[x] \/ pc'[x] = "unanswered"
      BY <2>3 DEF WaitTimeout, CallbackTypeOK
    <3> QED BY <3>1 DEF LegInv, HeldOnce, HeldAnswered, FreshLegs, BridgePc, BackendPc
  <2>4. CASE OperatorAnswered(e)
    <3>1. /\ UNCHANGED <<held, chan>> /\ pc[e] = "answered" /\ leg[e] = "operator"
          /\ pc'[e] = "originate" /\ leg'[e] = "customer"
          /\ \A x \in Executions : x # e => pc'[x] = pc[x] /\ leg'[x] = leg[x]
      BY <2>4 DEF OperatorAnswered, Go, CallbackTypeOK
    <3> QED BY <3>1 DEF LegInv, HeldOnce, HeldAnswered, FreshLegs, BridgePc
  <2>5. CASE CustomerAnswered(e)
    <3>1. /\ UNCHANGED <<held, leg, chan>> /\ pc[e] = "answered" /\ leg[e] = "customer"
          /\ pc'[e] = "addOperator"
          /\ \A x \in Executions : x # e => pc'[x] = pc[x]
      BY <2>5 DEF CustomerAnswered, Go, CallbackTypeOK
    <3> QED BY <3>1 DEF LegInv, HeldOnce, HeldAnswered, FreshLegs, BackendPc
  <2>6. CASE CustomerUnanswered(e) \/ Complete(e)
    <3>1. /\ UNCHANGED <<held, leg>> /\ pc'[e] = "done"
          /\ \A x \in Executions : x # e => pc'[x] = pc[x]
      BY <2>6 DEF CustomerUnanswered, Complete, FailStatus, Go, CallbackTypeOK
    <3>2. \A l \in Leg, x \in Executions :
            chan'[l][x] = chan[l][x] \/ (x = held[e][l] /\ chan'[l][x] = "gone")
      <4>1. CASE CustomerUnanswered(e)
        BY <4>1 DEF CustomerUnanswered, HangUp, CallbackTypeOK
      <4>2. CASE Complete(e)
        BY <4>2 DEF Complete, CallbackTypeOK
      <4> QED BY <2>6, <4>1, <4>2
    <3>3. LegsForward
      BY <3>2, NotZero DEF LegsForward, LegInv, HeldAnswered
    <3>4. pc'[e] # "answered" /\ pc'[e] \notin BridgePc \ {"done"}
      BY <3>1
    <3>5. pc'[e] \notin BackendPc \cup {"originate"}
      BY <3>1 DEF BackendPc
    <3> QED BY <3>1, <3>3, <3>4, <3>5, OwnStepKeepsLegs
  <2> QED BY <1>2, <2>1, <2>2, <2>3, <2>4, <2>5, <2>6 DEF ExecutionStep
<1>3. ASSUME NEW e \in Executions, NEW l \in Leg, LegEnters(e, l)
      PROVE  LegInv'
  <2>1. chan[l][e] = "ringing" /\ leg' = leg
    BY <1>3 DEF LegEnters
  <2>2. LegsForward
    <3>1. \A m \in Leg, x \in Executions :
            chan'[m][x] = chan[m][x] \/ (m = l /\ x = e)
      BY <1>3 DEF LegEnters, CallbackTypeOK
    <3> QED BY <2>1, <3>1 DEF LegsForward
  <2>3. CASE waiter[l] = 0
    <3>1. UNCHANGED <<held, pc, leg>>
      BY <1>3, <2>3 DEF LegEnters
    <3>2. HeldOnce' /\ FreshLegs'
      BY <2>2, <3>1 DEF LegInv, HeldOnce, FreshLegs, LegsForward, CallbackTypeOK, Leg
    <3>3. HeldAnswered'
      BY <2>2, <3>1 DEF LegInv, HeldAnswered, LegsForward, CallbackTypeOK
    <3> QED BY <3>2, <3>3 DEF LegInv
  <2>4. CASE waiter[l] # 0
    <3> DEFINE w == waiter[l]
    <3>1. w \in Executions /\ pc[w] = "wait" /\ leg[w] = l
      BY <2>4 DEF NoStaleWaiter, CallbackTypeOK
    <3>2. /\ pc'[w] = "answered" /\ \A x \in Executions : x # w => pc'[x] = pc[x]
          /\ chan'[l][e] = "up"
          /\ \A x \in Executions, m \in Leg :
               held'[x][m] = IF x = w /\ m = l THEN e ELSE held[x][m]
      BY <1>3, <2>4, <3>1 DEF LegEnters, Go, CallbackTypeOK
    <3>3. \A x \in Executions : held[x][l] # e
      BY <2>1, NotZero DEF LegInv, HeldAnswered
    <3>4. HeldOnce'
      BY <3>2, <3>3 DEF LegInv, HeldOnce
    <3>5. \A x \in Executions, m \in Leg :
            held'[x][m] # 0 => chan'[m][held'[x][m]] \in {"up", "gone"}
      <4> SUFFICES ASSUME NEW x \in Executions, NEW m \in Leg, held'[x][m] # 0
                   PROVE  chan'[m][held'[x][m]] \in {"up", "gone"}
        OBVIOUS
      <4>1. CASE x = w /\ m = l
        BY <3>2, <4>1
      <4>2. CASE ~(x = w /\ m = l)
        <5>1. held'[x][m] = held[x][m] /\ held[x][m] \in Executions
          BY <3>2, <4>2 DEF CallbackTypeOK
        <5>2. chan[m][held[x][m]] \in {"up", "gone"}
          BY <5>1 DEF LegInv, HeldAnswered
        <5> QED BY <2>2, <5>1, <5>2 DEF LegsForward
      <4> QED BY <4>1, <4>2
    <3>6. \A x \in Executions, m \in Leg : held[x][m] # 0 => held'[x][m] # 0
      BY <3>2, NotZero
    <3>7. HeldAnswered'
      <4>1. \A x \in Executions : leg[x] \in Leg
        BY DEF CallbackTypeOK
      <4>2. {"operator", "customer"} \subseteq Leg
        BY DEF Leg
      <4>3. held'[w][l] # 0 /\ pc'[w] \notin BridgePc
        BY <3>1, <3>2, NotZero DEF BridgePc
      <4> QED BY <2>1, <3>1, <3>2, <3>5, <3>6, <4>1, <4>2, <4>3 DEF LegInv, HeldAnswered
    <3>8. FreshLegs'
      <4>1. pc'[w] \notin BackendPc \cup {"originate"}
        BY <3>2 DEF BackendPc
      <4>2. \A x \in Executions : leg[x] \in Leg
        BY DEF CallbackTypeOK
      <4>3. "customer" \in Leg
        BY DEF Leg
      <4> QED BY <2>1, <2>2, <3>2, <4>1, <4>2, <4>3 DEF LegInv, FreshLegs, LegsForward
    <3> QED BY <3>4, <3>7, <3>8 DEF LegInv
  <2> QED BY <2>3, <2>4
<1>4. ASSUME NEW e \in Executions, NEW l \in Leg, LegEnds(e, l)
      PROVE  LegInv'
  <2>1. /\ UNCHANGED <<held, leg>>
        /\ \A x \in Executions : pc'[x] = pc[x] \/ (pc[x] = "talking" /\ pc'[x] = "ended")
    BY <1>4 DEF LegEnds, CallbackTypeOK
  <2>2. LegsForward
    BY <1>4 DEF LegEnds, LegsForward, CallbackTypeOK
  <2>3. HeldOnce'
    BY <2>1 DEF LegInv, HeldOnce
  <2>4. HeldAnswered'
    <3>1. \A x \in Executions, m \in Leg :
            held'[x][m] # 0 => chan'[m][held'[x][m]] \in {"up", "gone"}
      BY <2>1, <2>2 DEF LegInv, HeldAnswered, LegsForward, CallbackTypeOK
    <3> QED BY <2>1, <3>1 DEF LegInv, HeldAnswered, BridgePc
  <2>5. FreshLegs'
    BY <2>1, <2>2 DEF LegInv, FreshLegs, LegsForward, CallbackTypeOK, Leg, BackendPc
  <2> QED BY <2>3, <2>4, <2>5 DEF LegInv
<1>5. CASE CancelRead \/ CancelUpdate \/ HandleStatusUpdate \/ UNCHANGED vars
  <2>1. UNCHANGED <<held, leg, chan, pc>>
    BY <1>5 DEF CancelRead, CancelUpdate, HandleStatusUpdate, vars
  <2> QED BY <2>1 DEF LegInv, HeldOnce, HeldAnswered, FreshLegs
<1> QED BY <1>1, <1>2, <1>3, <1>4, <1>5 DEF Next

(* No channel is held by two executions, and only answered legs are bridged. *)
THEOREM LegsHeldOnceHolds == Spec => []LegsHeldOnce
<1>1. Init => LegInv
  BY DEF Init, LegInv, HeldOnce, HeldAnswered, FreshLegs, Leg, BridgePc
<1>2. CallbackTypeOK /\ NoStaleWaiter /\ LegInv /\ [Next]_vars => LegInv'
  BY LegStep
<1>3. LegInv => LegsHeldOnce
  <2> SUFFICES ASSUME LegInv PROVE LegsHeldOnce
    OBVIOUS
  <2>1. ASSUME NEW e \in Executions, pc[e] \in BridgePc \ {"done"}, NEW l \in Leg
        PROVE  held[e][l] # 0 /\ chan[l][held[e][l]] \in {"up", "gone"}
    BY <2>1 DEF LegInv, HeldAnswered, Leg
  <2> QED BY <2>1 DEF LegInv, HeldOnce, LegsHeldOnce
<1>4. QED
  BY <1>1, <1>2, <1>3, CallbackTypeCorrect, NoStaleWaiterHolds, PTL DEF Spec
=============================================================================
