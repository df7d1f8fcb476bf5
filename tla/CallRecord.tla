----------------------------- MODULE CallRecord -----------------------------
(***************************************************************************)
(* What the call log promises of every call, whatever events are lost,     *)
(* repeated or handled out of order: a record is opened once, is closed    *)
(* once, a call that failed before its record was closed stays failed, and *)
(* a closed record never turns into a failed one.  CallLifecycle           *)
(* implements this specification.                                          *)
(***************************************************************************)
CONSTANT RecordedCalls

VARIABLES
  outcome,   \* "absent", "open", "completed" or "failed"
  closed     \* calls whose record has an end

recordVars == <<outcome, closed>>

RecordInit ==
  /\ outcome = [c \in RecordedCalls |-> "absent"]
  /\ closed = {}

Open(c) ==
  /\ outcome[c] = "absent"
  /\ outcome' = [outcome EXCEPT ![c] = "open"]
  /\ UNCHANGED closed

Close(c) ==
  /\ outcome[c] # "absent"
  /\ c \notin closed
  /\ closed' = closed \cup {c}
  /\ UNCHANGED outcome

Complete(c) ==
  /\ outcome[c] = "open"
  /\ outcome' = [outcome EXCEPT ![c] = "completed"]
  /\ UNCHANGED closed

\* A failure opens the record if need be, and closes it.
Fail(c) ==
  /\ c \notin closed
  /\ outcome' = [outcome EXCEPT ![c] = "failed"]
  /\ closed' = closed \cup {c}

RecordNext ==
  \E c \in RecordedCalls : Open(c) \/ Close(c) \/ Complete(c) \/ Fail(c)

RecordSpec == RecordInit /\ [][RecordNext]_recordVars
=============================================================================
