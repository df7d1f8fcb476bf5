------------------------------- MODULE LogTail -------------------------------
(***************************************************************************)
(* backend/src/asterisk-logs/asterisk-logs.service.ts: the timer that      *)
(* hands new lines of Asterisk's log to the firewall, beside a log that    *)
(* grows and is rotated, and the search for the lines of one call, which   *)
(* follows channels and bridges from line to line.                         *)
(***************************************************************************)
EXTENDS Naturals, Sequences, FiniteSets

CONSTANTS LogTokens,  \* names of channels and bridges
          LogNeedles, \* identifiers and numbers of calls
          MaxLines,   \* bound: lines ever written
          MaxTicks,   \* bound: passes of the timer under way
          SearchLines \* bound: lines a search looks at

ASSUME LogAssumption == MaxLines \in Nat \ {0} /\ SearchLines \in Nat

VARIABLES
  logFile,   \* the lines of the file, in order
  lines,     \* lines ever written
  offset,    \* lastReadOffset, in lines
  ticks,     \* the passes under way: the lines each still has to hand over
  handed,    \* line -> times it was handed to the firewall
  search     \* the search for a call: its lines, the indices included so far,
             \* the tokens they name, the line it is at, whether this pass has
             \* included one, and the earlier passes, which nothing reads

logVars == <<logFile, lines, offset, ticks, handed, search>>

NoSearch == [pc |-> "none", lines |-> <<>>, needles |-> {}, found |-> {}, tokens |-> {},
             at |-> 1, changed |-> FALSE, passes |-> 0]

\* A file that is there is not read from its beginning.
LogInit ==
  /\ logFile \in {<<>>, <<1>>} /\ lines = Len(logFile) /\ offset = lines
  /\ ticks = {} /\ handed = [l \in 1..MaxLines |-> 0] /\ search = NoSearch

AsteriskLogs ==
  /\ lines < MaxLines /\ lines' = lines + 1 /\ logFile' = Append(logFile, lines')
  /\ UNCHANGED <<offset, ticks, handed, search>>

LogRotates ==
  /\ logFile # <<>> /\ logFile' = <<>>
  /\ UNCHANGED <<lines, offset, ticks, handed, search>>

\* Faulty variant: a file of another size is read from its beginning.
ReadFromChanged == IF Len(logFile) # offset THEN 0 ELSE offset

\* Where the pass reads from: a file that is shorter than the offset is new.
ReadFrom == IF Len(logFile) < offset THEN 0 ELSE offset

\* A pass of the timer reads the lines after the offset and moves it; the
\* next pass may come while the lines are being handed over.
processNewSecurityLines ==
  /\ Cardinality(ticks) < MaxTicks /\ offset' = Len(logFile)
  /\ ticks' = IF Len(logFile) = ReadFrom THEN ticks
              ELSE ticks \cup {SubSeq(logFile, ReadFrom + 1, Len(logFile))}
  /\ UNCHANGED <<logFile, lines, handed, search>>

\* A line is handed over (parseSecurityLog, processLogEvent), or an error ends
\* the pass and its other lines are lost.
HandOver(t) ==
  /\ handed' = [handed EXCEPT ![Head(t)] = @ + 1]
  /\ \E left \in {Tail(t), <<>>} : ticks' = (ticks \ {t}) \cup ({left} \ {<<>>})
  /\ UNCHANGED <<logFile, lines, offset, search>>

(********************************** search *********************************)

\* A line is told by the channels and bridges it names, which the search
\* collects, and all that can be found in its text, names among others.
LogLine == {line \in [names : SUBSET LogTokens, text : SUBSET (LogTokens \cup LogNeedles)] :
              line.names \subseteq line.text}

matchesCallNeedle(line, needles) == line.text \cap needles # {}
matchesCorrelationContext(line, tokens) == line.text \cap tokens # {}
collectCorrelationTokens(ls, found) == UNION {ls[i].names : i \in found}

\* getLogs for one call, up to the lines that match; without one it is over.
getLogs ==
  /\ search.pc = "none"
  /\ \E ls \in [1..SearchLines -> LogLine], needles \in SUBSET LogNeedles \ {{}} :
       LET hits == {i \in DOMAIN ls : matchesCallNeedle(ls[i], needles)}
       IN search' = [NoSearch EXCEPT !.pc = IF hits = {} THEN "done" ELSE "scan",
                                     !.lines = ls, !.needles = needles, !.found = hits,
                                     !.tokens = collectCorrelationTokens(ls, hits)]
  /\ UNCHANGED <<logFile, lines, offset, ticks, handed>>

\* A line that holds a token of those included is included, and its own
\* tokens count at once.
ScanLine ==
  /\ search.pc = "scan" /\ search.at \in DOMAIN search.lines
  /\ LET line == search.lines[search.at] IN
     search' = IF search.at \in search.found \/ ~matchesCorrelationContext(line, search.tokens)
               THEN [search EXCEPT !.at = @ + 1]
               ELSE [search EXCEPT !.at = @ + 1, !.found = @ \cup {search.at},
                                   !.tokens = @ \cup line.names, !.changed = TRUE]
  /\ UNCHANGED <<logFile, lines, offset, ticks, handed>>

\* Faulty variant: a single pass.
EndSinglePass ==
  /\ search.pc = "scan" /\ search.at \notin DOMAIN search.lines
  /\ search' = [search EXCEPT !.pc = "done"]
  /\ UNCHANGED <<logFile, lines, offset, ticks, handed>>

\* Faulty variant: changed is not reset.
EndPassStillChanged ==
  /\ search.pc = "scan" /\ search.at \notin DOMAIN search.lines
  /\ search' = IF search.changed THEN [search EXCEPT !.at = 1, !.passes = @ + 1]
               ELSE [search EXCEPT !.pc = "done"]
  /\ UNCHANGED <<logFile, lines, offset, ticks, handed>>

\* Another pass if this one has included a line.
EndPass ==
  /\ search.pc = "scan" /\ search.at \notin DOMAIN search.lines
  /\ search' = IF search.changed
               THEN [search EXCEPT !.at = 1, !.changed = FALSE, !.passes = @ + 1]
               ELSE [search EXCEPT !.pc = "done"]
  /\ UNCHANGED <<logFile, lines, offset, ticks, handed>>

\* Nothing else runs meanwhile; a turn of the loop is a step of its own so
\* that the loop can be reasoned about.
filterByCallContextWithCorrelation == ScanLine \/ EndPass

SearchNext == getLogs \/ filterByCallContextWithCorrelation

TailNext ==
  \/ AsteriskLogs \/ LogRotates \/ processNewSecurityLines
  \/ \E t \in ticks : HandOver(t)

-----------------------------------------------------------------------------
(* No line of the log is handed to the firewall twice, though passes of    *)
(* the timer overlap and the log is rotated: an attempt counts once.       *)
SecurityLineOnce == \A l \in 1..MaxLines : handed[l] <= 1

(* The search finds the lines connected with the call, all of them and no  *)
(* other: its result contains the lines that match and every line that     *)
(* holds the channel or bridge another one of them names, in whatever      *)
(* order they stand in the log, and lies in every set that is so.          *)
SearchIsClosure ==
  LET ls == search.lines
      Closed(S) == /\ \A i \in DOMAIN ls : ls[i].text \cap search.needles # {} => i \in S
                   /\ \A i \in S, j \in DOMAIN ls : ls[i].names \cap ls[j].text # {} => j \in S
  IN search.pc = "done" =>
       /\ Closed(search.found)
       /\ \A S \in SUBSET DOMAIN ls : Closed(S) => search.found \subseteq S

(* The loop over the log ends: there are fewer passes that are followed by *)
(* another one than there are lines.                                       *)
SearchEnds == search.found # {} => search.passes < SearchLines

(* The correlated search is right and ends.                                *)
SearchComplete == SearchIsClosure /\ SearchEnds
=============================================================================
