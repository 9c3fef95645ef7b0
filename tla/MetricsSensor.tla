---------------------------- MODULE MetricsSensor ----------------------------
(***************************************************************************)
(* The sensors that follow a metrics file while it grows: the response     *)
(* time and the throughput of RAIN (rain/sensors.hpp), the throughput of   *)
(* YCSB (ycsb/sensors.hpp).  The three differ in what they make of a line. *)
(*                                                                         *)
(* The file is a sequence of units, so that a line can be there in part:   *)
(* a line is LineLen times its number, and 0 is the newline.  A writer     *)
(* begins the file anew for every run, as the status dumper of the YCSB    *)
(* driver does once the ramp-up is over; what an earlier one writes in the *)
(* file is there until then.                                               *)
(***************************************************************************)
EXTENDS Naturals, Sequences

CONSTANTS
  Sensors,    \* the kinds of sensor considered
  LineLen,    \* units of a line
  MaxLines,   \* bound: lines ever written
  ZeroLines,  \* the lines whose elapsed time is zero
  MaxRuns,    \* bound: how often the file is begun anew
  MaxResets   \* bound: how often the sensor is reset

ASSUME SensorsAssumption == Sensors \subseteq {"response_time", "throughput", "ycsb"}
ASSUME LinesAssumption == LineLen \in Nat \ {0} /\ MaxLines \in Nat
ASSUME SensorBoundsAssumption == MaxRuns \in Nat /\ MaxResets \in Nat

VARIABLES
  sensor,          \* its kind; it never changes
  file,            \* the contents of metrics_file_
  line, written,   \* the writer: the line it writes next, and how much of it is there
  begun, resets,   \* how often the file was begun and the sensor reset
  pc,              \* the sampler: outside do_sense(), or in its loop
  stream,          \* ifs_: closed, good, or at the end of the file
  pos,             \* its get position
  fpos,            \* fpos_
  base,            \* first_obs_ts is set
  obs,             \* obs_
  read, sensed, skipped, \* history since the last reset: lines read, observations
                         \* delivered, lines that only set first_obs_ts
  clean            \* history: since then the file has only grown below what was read

writerVars == <<file, line, written, begun>>
historyVars == <<read, sensed, skipped>>
vars == <<sensor, writerVars, resets, pc, stream, pos, fpos, base, obs, historyVars, clean>>

-----------------------------------------------------------------------------
Newline == 0
Whole(n) == [i \in 1..LineLen |-> n]

TypeOK ==
  /\ sensor \in Sensors
  /\ file \in Seq(0..MaxLines) /\ line \in 1..(MaxLines + 1) /\ written \in 0..LineLen
  /\ begun \in 0..MaxRuns /\ resets \in 0..MaxResets
  /\ pc \in {"idle", "loop"} /\ stream \in {"closed", "good", "eof"}
  /\ pos \in Nat /\ fpos \in Nat /\ base \in BOOLEAN
  /\ obs \in Seq(Seq(1..MaxLines)) /\ read \in Seq(Seq(1..MaxLines))
  /\ sensed \in Seq(Seq(1..MaxLines)) /\ skipped \in Nat
  /\ clean \in BOOLEAN

Init ==
  /\ sensor \in Sensors
  /\ file = <<>> /\ line = 1 /\ written = 0 /\ begun = 0 /\ resets = 0
  /\ pc = "idle" /\ stream = "closed" /\ pos = 0 /\ fpos = 0 /\ base = FALSE
  /\ obs = <<>> /\ read = <<>> /\ sensed = <<>> /\ skipped = 0
  /\ clean = TRUE

-----------------------------------------------------------------------------
(* The writer *)

\* std::ofstream ofs(status_file): what was in the file is gone.
BeginFile ==
  /\ begun < MaxRuns /\ line <= MaxLines
  /\ begun' = begun + 1
  /\ file' = <<>> /\ written' = 0
  /\ line' = IF written = 0 THEN line ELSE line + 1
  /\ clean' = (read = <<>> /\ pos = 0 /\ fpos = 0)
  /\ UNCHANGED <<sensor, resets, pc, stream, pos, fpos, base, obs, historyVars>>

\* A line reaches the file in pieces; it may be empty.
Write ==
  /\ line <= MaxLines
  /\ \/ /\ written < LineLen
        /\ file' = Append(file, line) /\ written' = written + 1 /\ line' = line
     \/ /\ written \in {0, LineLen}
        /\ file' = Append(file, Newline) /\ written' = 0 /\ line' = line + 1
  /\ UNCHANGED <<sensor, begun, resets, pc, stream, pos, fpos, base, obs, historyVars, clean>>

-----------------------------------------------------------------------------
(* The sensor *)

BugOpen ==
  IF file = <<>> THEN stream' = "closed" /\ pos' = pos
  ELSE stream' = "good" /\ pos' = 0

\* Opened at its end, the file is read on from fpos_, unless that is its end.  A file
\* that is not there can not be opened, which comes to the same as an empty one.
Open ==
  IF fpos = Len(file) THEN stream' = "closed" /\ pos' = pos
  ELSE stream' = "good" /\ pos' = fpos

\* do_sense() up to its loop; the stream is never good here.
SenseBegin ==
  /\ pc = "idle" /\ pc' = "loop"
  /\ obs' = <<>> /\ base' = FALSE
  /\ Open
  /\ UNCHANGED <<sensor, writerVars, resets, fpos, historyVars, clean>>

Ends == {j \in (pos + 1)..Len(file) : file[j] = Newline}

BugTextTo(end) == SubSeq(file, pos + 1, end)

\* std::getline(): the line that the newline at `end' ends
TextTo(end) == SubSeq(file, pos + 1, end - 1)

\* What the kinds of sensor make of a line that is not empty.  RAIN's throughput needs
\* the time stamp of an earlier line of the same do_sense(); a line whose beginning is
\* missing may have none.  YCSB's skips an elapsed time of zero.
Observe(text) ==
  \/ /\ \/ sensor = "response_time"
        \/ sensor = "throughput" /\ base
        \/ sensor = "ycsb" /\ (text = Whole(text[1]) => text[1] \notin ZeroLines)
     /\ obs' = Append(obs, text) /\ UNCHANGED <<base, skipped>>
  \/ /\ sensor = "throughput" /\ ~base
     /\ base' \in IF text = Whole(text[1]) THEN {TRUE} ELSE BOOLEAN
     /\ skipped' = skipped + 1 /\ UNCHANGED obs
  \/ /\ sensor = "ycsb" /\ (text = Whole(text[1]) => text[1] \in ZeroLines)
     /\ skipped' = skipped + 1 /\ UNCHANGED <<base, obs>>

BugReadLine ==
  /\ pc = "loop" /\ stream = "good"
  /\ fpos' = pos
  /\ LET end == IF Ends = {} THEN Len(file) + 1 ELSE CHOOSE j \in Ends : \A i \in Ends : j <= i
         text == TextTo(end)
     IN  /\ pos' = end
         /\ stream' = IF Ends = {} THEN "eof" ELSE "good"
         /\ IF text = <<>> THEN UNCHANGED <<obs, base, skipped, read>>
            ELSE Observe(text) /\ read' = Append(read, text)
  /\ UNCHANGED <<sensor, writerVars, resets, pc, sensed, clean>>

\* One pass of the loop: fpos_ is where the line begins.  The last line is left alone
\* until its newline is there.
ReadLine ==
  /\ pc = "loop" /\ stream = "good"
  /\ fpos' = pos
  /\ IF Ends = {}
     THEN stream' = "eof" /\ UNCHANGED <<pos, obs, base, skipped, read>>
     ELSE LET end == CHOOSE j \in Ends : \A i \in Ends : j <= i
              text == TextTo(end)
          IN  /\ pos' = end /\ stream' = stream
              /\ IF text = <<>> THEN UNCHANGED <<obs, base, skipped, read>>
                 ELSE Observe(text) /\ read' = Append(read, text)
  /\ UNCHANGED <<sensor, writerVars, resets, pc, sensed, clean>>

\* The manager takes the observations.
SenseEnd ==
  /\ pc = "loop" /\ stream # "good" /\ pc' = "idle"
  /\ sensed' = sensed \o obs
  /\ UNCHANGED <<sensor, writerVars, resets, stream, pos, fpos, base, obs, read, skipped, clean>>

BugReset ==
  /\ pc = "idle" /\ resets < MaxResets
  /\ resets' = resets + 1
  /\ stream' = "closed" /\ pos' = 0 /\ obs' = <<>>
  /\ read' = <<>> /\ sensed' = <<>> /\ skipped' = 0 /\ clean' = TRUE
  /\ UNCHANGED <<sensor, writerVars, pc, fpos, base>>

\* do_reset(): the file is read again from its beginning.
Reset ==
  /\ pc = "idle" /\ resets < MaxResets
  /\ resets' = resets + 1
  /\ stream' = "closed" /\ pos' = 0 /\ fpos' = 0 /\ obs' = <<>>
  /\ read' = <<>> /\ sensed' = <<>> /\ skipped' = 0 /\ clean' = TRUE
  /\ UNCHANGED <<sensor, writerVars, pc, base>>

Next == BeginFile \/ Write \/ SenseBegin \/ ReadLine \/ SenseEnd \/ Reset

Spec == Init /\ [][Next]_vars

\* The sampler goes on sampling; nobody has to write or to reset.
FairSpec == Spec /\ WF_vars(SenseBegin) /\ WF_vars(ReadLine) /\ WF_vars(SenseEnd)

-----------------------------------------------------------------------------
(* Properties *)

\* The lines in the file that are complete and not empty
Complete == {file[j - 1] : j \in {i \in 2..Len(file) : file[i] = Newline /\ file[i - 1] # Newline}}

\* As long as the file only grows, the lines read are its first complete lines: each is read
\* whole, and none before a complete line that precedes it in the file, however the writer's
\* pieces and the passes of the loop interleave; every line read is delivered, except those
\* that only set first_obs_ts or have no elapsed time.
LinesReadInOrder ==
  LET delivered == IF pc = "loop" THEN sensed \o obs ELSE sensed
  IN  /\ clean => \A i \in 1..Len(read) :
                    /\ \E n \in Complete : read[i] = Whole(n)
                    /\ \A n \in Complete : n < read[i][1] => \E k \in 1..(i - 1) : read[k] = Whole(n)
      /\ Len(read) = Len(delivered) + skipped
      /\ sensor = "response_time" => delivered = read

\* Even when the file is begun anew below the sensor, which then skips what is written up
\* to its old position and may start in the middle of a line, no line is read twice.
NoLineTwice == \A i, j \in 1..Len(read) : i < j => read[i][1] < read[j][1]

\* do_sense() leaves no line behind: when it finds nothing more to read, or does not open the
\* file at all, every line that is complete by then has been read, while the file only grows.
PassReadsAll ==
  [][clean /\ pc' = "loop" /\ stream' # "good" =>
       \A n \in Complete : \E i \in 1..Len(read) : read[i] = Whole(n)]_<<pc, stream>>

\* Every line is read once it is complete, unless the file is begun anew.
EveryLineRead ==
  \A n \in 1..MaxLines :
    LET there == clean /\ n \in Complete
    IN  there ~> (~there \/ \E i \in 1..Len(read) : read[i] = Whole(n))
=============================================================================
