----------------------------- MODULE CallQuality -----------------------------
(***************************************************************************)
(* The voice quality of a call, from Asterisk's RTCP reports to the row in *)
(* call_quality: stasis/src/sipTrafficMonitor.ts reads the manager's       *)
(* socket, handlers/rtcp-ami.handler.ts pairs two reports of a channel and *)
(* adds the worse values to a Redis stream, and QualityService             *)
(* (backend/src/quality/quality.service.ts) reads the stream in a consumer *)
(* group and merges each entry into the call's row.                        *)
(***************************************************************************)
EXTENDS Naturals, Integers, Sequences, FiniteSets, FiniteSetsExt

CONSTANTS QualityCalls, \* channels with RTP
          Jitters,      \* jitter values, ms
          Losses,       \* packet loss values, percent
          MaxReports,   \* bound: reports
          StreamMax,    \* entries the stream keeps (1000 in the code)
          BatchSize     \* entries of one read (25 in the code)

ASSUME QualityAssumption == Jitters \cup Losses \subseteq Nat /\ BatchSize \in Nat

VARIABLES
  ami,        \* the manager's socket: "off", "on" or "lost"
  accumulator,\* channel -> the report waiting for its pair, or NoReport
  adding,     \* entries on their way to the stream
  entries,    \* the stream: entries not trimmed
  delivered,  \* ids handed out by the group
  reading,    \* the batch the consumer works on
  consumer,   \* "off" or "on"
  quality,    \* call -> its row, or NoReport
  merged,     \* entries merged into a row (history)
  reports     \* reports so far

qualityVars == <<ami, accumulator, adding, entries, delivered, reading, consumer, quality, merged, reports>>

NoReport == [jitter |-> -1]

QualityInit ==
  /\ ami = "off" /\ consumer = "off"
  /\ accumulator = [c \in QualityCalls |-> NoReport]
  /\ quality = [c \in QualityCalls |-> NoReport]
  /\ adding = {} /\ entries = {} /\ delivered = 0 /\ reading = <<>> /\ merged = {}
  /\ reports = 0

\* The score in hundredths, from a rating in tenths; the factors are the
\* code's.
computeMos(d) ==
  LET r == 932 - 2 * d.jitter - 25 * d.loss
      score == 100 + (35 * r + (7 * r * (r - 600) * (1000 - r)) \div 100000) \div 100
  IN IF r <= 0 THEN 100 ELSE IF r >= 1000 THEN 500
     ELSE Max({100, Min({500, score})})

Grade(mos) == IF mos >= 400 THEN "good" ELSE IF mos >= 300 THEN "fair" ELSE "poor"

worseDirection(a, b) ==
  [jitter |-> Max({a.jitter, b.jitter}), loss |-> Max({a.loss, b.loss})]

(********************************** reports ********************************)

\* The monitor logs in and asks for events; a lost socket is not opened again
\* before the process restarts.
startSipTrafficMonitor ==
  /\ ami = "off" /\ ami' \in {"on", "lost"}
  /\ UNCHANGED <<accumulator, adding, entries, delivered, reading, consumer, quality, merged, reports>>

SocketLost ==
  /\ ami = "on" /\ ami' = "lost"
  /\ UNCHANGED <<accumulator, adding, entries, delivered, reading, consumer, quality, merged, reports>>

StasisRestarts ==
  /\ ami # "off" /\ ami' = "off"
  /\ accumulator' = [c \in QualityCalls |-> NoReport] /\ adding' = {}
  /\ UNCHANGED <<entries, delivered, reading, consumer, quality, merged, reports>>

\* Any two reports of a channel make a pair, whatever their direction.
handleAmiRtcpEvent(c) ==
  /\ ami = "on" /\ reports < MaxReports /\ reports' = reports + 1
  /\ \E j \in Jitters, l \in Losses :
       LET d == [jitter |-> j, loss |-> l]
           w == worseDirection(accumulator[c], d)
       IN IF accumulator[c] = NoReport
          THEN accumulator' = [accumulator EXCEPT ![c] = d] /\ UNCHANGED adding
          ELSE /\ accumulator' = [accumulator EXCEPT ![c] = NoReport]
               /\ adding' = adding \cup {[id |-> reports', call |-> c, jitter |-> w.jitter, loss |-> w.loss]}
  /\ UNCHANGED <<ami, entries, delivered, reading, consumer, quality, merged>>

\* A report without a jitter value, or of no channel, is skipped; the parser
\* keeps a report whose second part has not come.
ReportSkipped ==
  /\ ami = "on" /\ reports < MaxReports /\ reports' = reports + 1
  /\ UNCHANGED <<ami, accumulator, adding, entries, delivered, reading, consumer, quality, merged>>

\* StasisEnd of the channel.
ChannelEnds(c) ==
  /\ accumulator[c] # NoReport
  /\ accumulator' = [accumulator EXCEPT ![c] = NoReport]
  /\ UNCHANGED <<ami, adding, entries, delivered, reading, consumer, quality, merged, reports>>

\* XADD, then XTRIM to the newest entries; requests overlap, so ids follow the
\* order of arrival.
AddEntry(e) ==
  /\ adding' = adding \ {e}
  /\ LET last == Max({x.seq : x \in entries} \cup {delivered})
         all == entries \cup {[seq |-> last + 1, of |-> e]}
     IN entries' = {x \in all : Cardinality({y \in all : y.seq > x.seq}) < StreamMax}
  /\ UNCHANGED <<ami, accumulator, delivered, reading, consumer, quality, merged, reports>>

AddFails(e) ==
  /\ adding' = adding \ {e}
  /\ UNCHANGED <<ami, accumulator, entries, delivered, reading, consumer, quality, merged, reports>>

(********************************* consumer ********************************)

\* onModuleInit: without Redis the consumer never starts.
QualityStarts ==
  /\ consumer = "off" /\ consumer' = "on"
  /\ UNCHANGED <<ami, accumulator, adding, entries, delivered, reading, quality, merged, reports>>

\* The process ends, or the loop is left by an error: what was read is not
\* read again, for the loop asks for new entries only.
QualityStops ==
  /\ consumer = "on" /\ consumer' = "off" /\ reading' = <<>>
  /\ UNCHANGED <<ami, accumulator, adding, entries, delivered, quality, merged, reports>>

ReadBatch ==
  /\ consumer = "on" /\ reading = <<>>
  /\ \E n \in 1..BatchSize :
       LET new == {x \in entries : x.seq > delivered}
           got == {x \in new : Cardinality({y \in new : y.seq < x.seq}) < n}
       IN /\ new # {} /\ Cardinality(got) = n
          /\ (n = BatchSize \/ got = new)
          /\ reading' = [i \in 1..n |-> (CHOOSE x \in got : Cardinality({y \in got : y.seq < x.seq}) = i - 1).of]
          /\ delivered' = Max({x.seq : x \in got})
  /\ UNCHANGED <<ami, accumulator, adding, entries, consumer, quality, merged, reports>>

\* Faulty variant: the row takes the values of the last entry.
LastWins(row, e) ==
  [jitter |-> e.jitter, loss |-> e.loss, mos |-> computeMos(e), grade |-> Grade(computeMos(e))]

\* The worst of each value; the grade follows from the score kept.
upsertQuality(row, e) ==
  IF row = NoReport
  THEN [jitter |-> e.jitter, loss |-> e.loss, mos |-> computeMos(e), grade |-> Grade(computeMos(e))]
  ELSE IF computeMos(e) < row.mos \/ e.jitter > row.jitter \/ e.loss > row.loss
  THEN LET mos == Min({row.mos, computeMos(e)})
       IN [jitter |-> Max({row.jitter, e.jitter}), loss |-> Max({row.loss, e.loss}),
           mos |-> mos, grade |-> Grade(mos)]
  ELSE row

\* One entry is merged and acknowledged.
processStreamMessage ==
  /\ reading # <<>>
  /\ quality' = [quality EXCEPT ![Head(reading).call] = upsertQuality(@, Head(reading))]
  /\ merged' = merged \cup {Head(reading)} /\ reading' = Tail(reading)
  /\ UNCHANGED <<ami, accumulator, adding, entries, delivered, consumer, reports>>

\* An error of the database: the rest of the batch is given up.
ProcessFails ==
  /\ reading # <<>> /\ reading' = <<>>
  /\ UNCHANGED <<ami, accumulator, adding, entries, delivered, consumer, quality, merged, reports>>

QualityNext ==
  \/ startSipTrafficMonitor \/ SocketLost \/ StasisRestarts
  \/ \E c \in QualityCalls : handleAmiRtcpEvent(c) \/ ChannelEnds(c)
  \/ ReportSkipped
  \/ \E e \in adding : AddEntry(e) \/ AddFails(e)
  \/ QualityStarts \/ QualityStops \/ ReadBatch \/ processStreamMessage \/ ProcessFails

-----------------------------------------------------------------------------
(* A call's row is at least as bad as every report merged into it, in each *)
(* of its values, and its grade is that of the worst score, in whatever    *)
(* order overlapping requests put the reports into the stream and whatever *)
(* restarts lie between them.                                              *)
QualityKeepsWorst ==
  \A e \in merged :
    LET row == quality[e.call]
    IN /\ row # NoReport
       /\ row.jitter >= e.jitter /\ row.loss >= e.loss /\ row.mos <= computeMos(e)
       /\ row.grade = Grade(Min({computeMos(x) : x \in {y \in merged : y.call = e.call}}))
=============================================================================
