------------------------------ MODULE DigitInput ------------------------------
(***************************************************************************)
(* Keys pressed by a caller: the menu node (executors/menu.executor.ts)    *)
(* and the get_digits node (executeGetDigits of nodes/index.ts), with the  *)
(* timers of timeoutResolver.ts.                                           *)
(*                                                                         *)
(* A press is a digit.  A node with a two-digit branch waits for a second  *)
(* press after the first.  The menu starts its timeout when its prompt is  *)
(* over; get_digits at once.  The menu listens for keys on the ARI client, *)
(* get_digits on the client and on the channel, and the ARI library calls  *)
(* both for each key.                                                      *)
(***************************************************************************)
EXTENDS Naturals, Sequences

CONSTANTS Digits, MaxAttempts, MaxPresses

ASSUME AttemptsAssumption == MaxAttempts \in Nat \ {0}

VARIABLES
  inputNode,     \* "menu" or "get_digits"
  branches,      \* the configured branches, sequences of one or two digits
  prompt,        \* there is a prompt to play
  inputPc,       \* "idle", "attempt", "prompting", "listening", "settled", "returned"
  inputTimer,    \* the timeout is armed
  interTimer,    \* the timer between two digits is armed
  collected,     \* digits collected in this attempt
  pressedKeys,   \* keys pressed in this attempt (history)
  attemptResult, inputResult,
  timeouts, invalids,
  inputChan      \* "up", "ending" (its StasisEnd is on its way), "ended"

inputVars == <<inputNode, branches, prompt, inputPc, inputTimer, interTimer,
               collected, pressedKeys, attemptResult, inputResult, timeouts,
               invalids, inputChan>>

inputConfig == <<inputNode, branches, prompt>>

InputInit ==
  /\ inputNode \in {"menu", "get_digits"}
  /\ branches \in {{<<d>>} : d \in Digits} \cup
                   {{<<d, e>>} : d \in Digits, e \in Digits}
  /\ prompt \in BOOLEAN
  /\ inputPc = "idle" /\ inputTimer = FALSE /\ interTimer = FALSE
  /\ collected = <<>> /\ pressedKeys = <<>>
  /\ attemptResult = "none" /\ inputResult = "none"
  /\ timeouts = 0 /\ invalids = 0
  /\ inputChan \in {"up", "ended"}   \* the node may start on an ended call

hasDoubleDigitBranch == \E b \in branches : Len(b) = 2

\* The interpreter executes the node.
StartNode ==
  /\ inputPc = "idle" /\ inputPc' = "attempt"
  /\ UNCHANGED <<inputConfig, inputTimer, interTimer, collected, pressedKeys,
                 attemptResult, inputResult, timeouts, invalids, inputChan>>

\* Faulty variant: a menu without a prompt waits for ever.
armTimeoutAfterPrompt == inputTimer' = FALSE

\* Without a prompt the menu arms its timeout at once.
armTimeout == inputTimer' = TRUE

\* collectMenuAttempt, or the get_digits node, adds its listeners and plays.
BeginAttempt ==
  /\ inputPc = "attempt"
  /\ inputPc' = IF prompt THEN "prompting" ELSE "listening"
  /\ IF inputNode = "get_digits" \/ ~prompt THEN armTimeout
                                            ELSE inputTimer' = FALSE
  /\ collected' = <<>> /\ pressedKeys' = <<>> /\ interTimer' = FALSE
  /\ UNCHANGED <<inputConfig, attemptResult, inputResult, timeouts, invalids,
                 inputChan>>

\* The prompt is refused (the node fails) or over.
PromptEnds ==
  /\ inputPc = "prompting"
  /\ \/ /\ inputPc' = "listening" /\ armTimeout /\ inputChan # "ended"
        /\ UNCHANGED attemptResult
     \/ /\ inputPc' = "settled" /\ attemptResult' = "error"
        /\ UNCHANGED inputTimer
  /\ UNCHANGED <<inputConfig, interTimer, collected, pressedKeys, inputResult,
                 timeouts, invalids, inputChan>>

Waiting == inputPc \in {"prompting", "listening"}

settle(r) ==
  /\ inputPc' = "settled" /\ attemptResult' = r
  /\ inputTimer' = FALSE /\ interTimer' = FALSE

\* The outcome of the digits collected: a branch of the menu, or invalid.
resolveMenuDigit(ds) ==
  IF inputNode = "get_digits" \/ ds \in branches THEN "digits" ELSE "invalid"

\* Faulty variant: the menu listens on both emitters as well.
listenersTwice == 2

\* How often a key is delivered to the node's listener.
listeners == IF inputNode = "menu" THEN 1 ELSE 2

\* onDtmf, once or twice for the key.
onDtmf(d) ==
  /\ Waiting /\ inputChan = "up" /\ Len(pressedKeys) < MaxPresses
  /\ pressedKeys' = Append(pressedKeys, d)
  /\ LET ds == IF hasDoubleDigitBranch /\ listeners = 2
               THEN SubSeq(collected \o <<d, d>>, 1, 2)
               ELSE Append(collected, d)
     IN /\ collected' = ds
        /\ IF ~hasDoubleDigitBranch \/ Len(ds) >= 2
           THEN settle(resolveMenuDigit(ds))
           ELSE interTimer' = TRUE /\ UNCHANGED <<inputPc, attemptResult, inputTimer>>
  /\ UNCHANGED <<inputConfig, inputResult, timeouts, invalids, inputChan>>

InterDigitTimeout ==
  /\ Waiting /\ interTimer
  /\ settle(resolveMenuDigit(collected))
  /\ UNCHANGED <<inputConfig, collected, pressedKeys, inputResult, timeouts,
                 invalids, inputChan>>

InputTimeout ==
  /\ Waiting /\ inputTimer
  /\ settle("timeout")
  /\ UNCHANGED <<inputConfig, collected, pressedKeys, inputResult, timeouts,
                 invalids, inputChan>>

CallerLeaves ==
  /\ inputChan = "up"
  /\ inputChan' = "ending"
  /\ UNCHANGED <<inputConfig, inputPc, inputTimer, interTimer, collected,
                 pressedKeys, attemptResult, inputResult, timeouts, invalids>>

\* StasisEnd: a listener that is there settles the attempt; between two
\* attempts there is none.
onHangup ==
  /\ inputChan = "ending"
  /\ inputChan' = "ended"
  /\ IF Waiting THEN settle("hangup")
     ELSE UNCHANGED <<inputPc, attemptResult, inputTimer, interTimer>>
  /\ UNCHANGED <<inputConfig, collected, pressedKeys, inputResult, timeouts,
                 invalids>>

InputReturns(r) ==
  /\ inputResult' = r /\ inputPc' = "returned"
  /\ timeouts' = 0 /\ invalids' = 0

\* The loop of executeMenu; get_digits returns what it got.
afterAttempt ==
  /\ inputPc = "settled"
  /\ \/ /\ inputNode = "get_digits" \/ attemptResult \in {"digits", "hangup", "error"}
        /\ InputReturns(IF attemptResult = "error" THEN "hangup" ELSE attemptResult)
     \/ /\ inputNode = "menu" /\ attemptResult = "timeout"
        /\ IF timeouts + 1 >= MaxAttempts THEN InputReturns("hangup")
           ELSE /\ timeouts' = timeouts + 1 /\ inputPc' = "attempt"
                /\ UNCHANGED <<invalids, inputResult>>
     \/ /\ inputNode = "menu" /\ attemptResult = "invalid"
        /\ IF invalids + 1 >= MaxAttempts THEN InputReturns("hangup")
           ELSE /\ invalids' = invalids + 1 /\ inputPc' = "attempt"
                /\ UNCHANGED <<timeouts, inputResult>>
  /\ UNCHANGED <<inputConfig, inputTimer, interTimer, collected, pressedKeys,
                 attemptResult, inputChan>>

InputNext ==
  \/ StartNode \/ BeginAttempt \/ PromptEnds \/ \E d \in Digits : onDtmf(d)
  \/ InterDigitTimeout \/ InputTimeout \/ CallerLeaves \/ onHangup
  \/ afterAttempt

\* Requests are answered and timers fire; callers press nothing for sure.
InputProgress == BeginAttempt \/ PromptEnds \/ InputTimeout \/ afterAttempt

-----------------------------------------------------------------------------

(* A menu answers with the keys the caller pressed: whatever order keys,   *)
(* both timers, the end of the prompt and a hangup come in, a branch it    *)
(* returns is what was pressed in that attempt, key for key.               *)
MenuAsPressed ==
  inputNode = "menu" /\ inputPc = "returned" /\ inputResult = "digits"
    => collected = pressedKeys /\ collected \in branches

(* A node that does nothing but listen has a timer, whatever keys, prompts  *)
(* and hangups came before, and it does not begin attempts for ever.        *)
InputTimed ==
  /\ inputPc = "listening" => inputTimer
  /\ timeouts < MaxAttempts /\ invalids < MaxAttempts

(* The node always returns, also when the call had ended before it began   *)
(* or ends between two attempts, and no listener hears of it.              *)
InputSettles == (inputPc = "attempt") ~> (inputPc = "returned")
=============================================================================
