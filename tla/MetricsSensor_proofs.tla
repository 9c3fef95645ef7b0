-------------------------- MODULE MetricsSensor_proofs --------------------------
(***************************************************************************)
(* Proofs about MetricsSensor, for lines of every length, any number of    *)
(* lines, of files and of resets, and every kind of sensor.                *)
(***************************************************************************)
EXTENDS MetricsSensor, SequenceTheorems, WellFoundedInduction, TLAPS

-----------------------------------------------------------------------------
(* The invariant                                                           *)

Texts == Seq(1..MaxLines)

TypeInv ==
  /\ sensor \in Sensors
  /\ file \in Seq(0..MaxLines) /\ line \in 1..(MaxLines + 1) /\ written \in 0..LineLen
  /\ begun \in 0..MaxRuns /\ resets \in 0..MaxResets
  /\ pc \in {"idle", "loop"} /\ stream \in {"closed", "good", "eof"}
  /\ pos \in Nat /\ fpos \in Nat /\ base \in BOOLEAN /\ clean \in BOOLEAN

\* The newline at j ends a line.
EndsLine(j) == file[j] = Newline /\ file[j - 1] # Newline

\* The writer is at the end of the file; before it the lines follow each other, and those that
\* have ended are whole.
FileInv ==
  /\ written <= Len(file)
  /\ Len(file) = written \/ file[Len(file) - written] = Newline
  /\ \A i \in 1..Len(file) : IF i > Len(file) - written THEN file[i] = line ELSE file[i] < line
  /\ \A i, j \in 1..Len(file) :
       i < j /\ file[i] # Newline /\ file[j] # Newline =>
         /\ file[i] <= file[j]
         /\ \A k \in i..j : file[k] = Newline => file[i] < file[j]
  /\ \A j \in 2..Len(file) : EndsLine(j) =>
       /\ j > LineLen /\ \A i \in (j - LineLen)..(j - 1) : file[i] = file[j - 1]
       /\ j - LineLen = 1 \/ file[(j - LineLen) - 1] = Newline

\* Outside its loop the sensor goes on where it was.  What it has read is behind everything that
\* it is going to read, in this file or in the next.
ReadInv ==
  /\ pc = "idle" => stream # "good"
  /\ stream # "good" => pos = fpos
  /\ read \in Seq(Texts)
  /\ \A i \in 1..Len(read) : read[i] # <<>> /\ read[i][1] < line
  /\ \A i \in 1..Len(read), p \in (pos + 1)..Len(file) :
       file[p] # Newline => read[i][1] < file[p]
  /\ NoLineTwice

\* While the file only grows the sensor is at the beginning of a line, and the lines before it
\* are those that it has read.
CleanInv ==
  clean =>
    /\ pos <= Len(file) /\ (pos = 0 \/ file[pos] = Newline)
    /\ \A i \in 1..Len(read) : \E j \in 2..pos : EndsLine(j) /\ read[i] = Whole(file[j - 1])
    /\ \A j \in 2..pos : EndsLine(j) => \E i \in 1..Len(read) : read[i] = Whole(file[j - 1])

\* Every line that was read was delivered or skipped.
DeliveryInv ==
  LET delivered == IF pc = "loop" THEN sensed \o obs ELSE sensed
  IN  /\ obs \in Seq(Texts) /\ sensed \in Seq(Texts) /\ skipped \in Nat
      /\ Len(read) = Len(delivered) + skipped
      /\ sensor = "response_time" => delivered = read

Inv == TypeInv /\ FileInv /\ ReadInv /\ CleanInv /\ DeliveryInv

LEMMA Numbers ==
  /\ LineLen \in Nat /\ LineLen > 0 /\ MaxLines \in Nat /\ MaxRuns \in Nat /\ MaxResets \in Nat
  /\ Newline = 0
BY LinesAssumption, SensorBoundsAssumption DEF Newline

LEMMA FileUnits ==
  ASSUME TypeInv
  PROVE  /\ Len(file) \in Nat /\ line \in Nat /\ written \in Nat /\ line > 0 /\ written <= LineLen
         /\ \A i \in 1..Len(file) : file[i] \in Nat /\ file[i] <= MaxLines
         /\ pos \in Nat
BY Numbers, LenProperties, ElementOfSeq DEF TypeInv

\* A line that was read has a number.
LEMMA ReadTexts ==
  ASSUME ReadInv, NEW i \in 1..Len(read)
  PROVE  read[i] \in Texts /\ Len(read[i]) \in Nat \ {0} /\ read[i][1] \in 1..MaxLines
<1>1. read[i] \in Texts /\ read[i] # <<>>
  BY ElementOfSeq DEF ReadInv
<1>2. Len(read[i]) \in Nat /\ Len(read[i]) # 0
  BY <1>1, LenProperties, EmptySeq, SeqEqual DEF Texts
<1>3. 1 \in 1..Len(read[i])
  BY <1>2
<1>4. read[i][1] \in 1..MaxLines
  BY <1>1, <1>3, ElementOfSeq DEF Texts
<1>5. QED
  BY <1>1, <1>2, <1>4

LEMMA NoText ==
  ASSUME NEW S
  PROVE  <<>> \in Seq(S) /\ Len(<<>>) = 0 /\ <<>> \o <<>> = <<>>
BY EmptySeq, ConcatEmptySeq

LEMMA InitInv == Init => Inv
<1> SUFFICES ASSUME Init PROVE Inv
  OBVIOUS
<1>1. /\ file = <<>> /\ read = <<>> /\ obs = <<>> /\ sensed = <<>> /\ Len(<<>>) = 0
      /\ <<>> \o <<>> = <<>> /\ pos = 0 /\ written = 0 /\ pc = "idle"
      /\ stream = "closed" /\ fpos = 0 /\ skipped = 0
  BY NoText DEF Init
<1>2. TypeInv
  <2>1. /\ <<>> \in Seq(0..MaxLines) /\ 1 \in 1..(MaxLines + 1) /\ 0 \in 0..LineLen
        /\ 0 \in 0..MaxRuns /\ 0 \in 0..MaxResets
    BY Numbers, EmptySeq
  <2>2. QED
    BY <2>1 DEF Init, TypeInv
<1>3. FileInv
  BY <1>1 DEF FileInv
<1>4. ReadInv
  BY <1>1, NoText DEF ReadInv, NoLineTwice
<1>5. CleanInv
  BY <1>1 DEF CleanInv
<1>6. DeliveryInv
  BY <1>1, NoText DEF DeliveryInv
<1>7. QED
  BY <1>2, <1>3, <1>4, <1>5, <1>6 DEF Inv

-----------------------------------------------------------------------------
(* The writer                                                              *)

LEMMA BeginFileKeeps ==
  ASSUME Inv, BeginFile
  PROVE  Inv'
<1>1. /\ TypeInv /\ FileInv /\ ReadInv /\ CleanInv /\ DeliveryInv
      /\ begun < MaxRuns /\ line <= MaxLines /\ begun' = begun + 1
      /\ file' = <<>> /\ written' = 0 /\ line' = IF written = 0 THEN line ELSE line + 1
      /\ clean' = (read = <<>> /\ pos = 0 /\ fpos = 0)
      /\ UNCHANGED <<sensor, resets, pc, stream, pos, fpos, base, obs, read, sensed, skipped>>
  BY DEF Inv, BeginFile, historyVars
<1>2. Len(file') = 0 /\ file' \in Seq(0..MaxLines)
  BY <1>1, NoText
<1>3. TypeInv'
  BY <1>1, <1>2, Numbers DEF TypeInv
<1>4. FileInv'
  BY <1>1, <1>2 DEF FileInv
<1>5. ReadInv'
  <2>1. \A i \in 1..Len(read) : read[i][1] < line'
    <3>1. CASE line' = line
      BY <1>1, <3>1 DEF ReadInv
    <3>2. CASE line' = line + 1
      BY <1>1, <3>2, ReadTexts, FileUnits DEF ReadInv
    <3>3. QED
      BY <1>1, <3>1, <3>2
  <2>2. (pos + 1)..Len(file') = {}
    BY <1>1, <1>2 DEF TypeInv
  <2>3. QED
    BY <1>1, <2>1, <2>2 DEF ReadInv, NoLineTwice
<1>6. CleanInv'
  <2>1. SUFFICES ASSUME clean' PROVE CleanInv'
    BY DEF CleanInv
  <2>2. read = <<>> /\ pos = 0
    BY <1>1, <2>1
  <2>3. pos' = 0 /\ Len(read') = 0
    BY <1>1, <2>2, NoText
  <2>4. QED
    BY <1>2, <2>3 DEF CleanInv
<1>7. DeliveryInv'
  BY <1>1 DEF DeliveryInv
<1>8. QED
  BY <1>3, <1>4, <1>5, <1>6, <1>7 DEF Inv

\* A unit more at the end of the file leaves those before it as they are.
LEMMA Grown ==
  ASSUME TypeInv, NEW u \in 0..MaxLines, file' = Append(file, u)
  PROVE  /\ file' \in Seq(0..MaxLines) /\ Len(file') = Len(file) + 1 /\ file'[Len(file) + 1] = u
         /\ \A i \in 1..Len(file) : file'[i] = file[i]
BY AppendProperties DEF TypeInv

LEMMA WriteKeepsRest ==
  ASSUME Inv, NEW u \in 0..MaxLines, u \in {Newline, line}, file' = Append(file, u),
         line' \in {line, line + 1},
         UNCHANGED <<sensor, begun, resets, pc, stream, pos, fpos, base, obs, historyVars, clean>>
  PROVE  ReadInv' /\ CleanInv' /\ DeliveryInv'
<1>1. TypeInv /\ FileInv /\ ReadInv /\ CleanInv /\ DeliveryInv
  BY DEF Inv
<1>2. /\ Len(file') = Len(file) + 1 /\ file'[Len(file) + 1] = u
      /\ \A i \in 1..Len(file) : file'[i] = file[i]
  BY <1>1, Grown
<1>3. /\ UNCHANGED <<pc, stream, pos, fpos, obs, read, sensed, skipped, clean, sensor>>
      /\ Len(file) \in Nat /\ pos \in Nat
  BY <1>1, FileUnits DEF historyVars
<1>4. \A i \in 1..Len(read) : read[i][1] < line'
  BY <1>1, ReadTexts, FileUnits DEF ReadInv
<1>5. ASSUME NEW i \in 1..Len(read), NEW p \in (pos + 1)..Len(file'), file'[p] # Newline
      PROVE  read[i][1] < file'[p]
  <2>1. CASE p = Len(file) + 1
    BY <1>1, <1>2, <1>5, <2>1 DEF ReadInv
  <2>2. CASE p \in (pos + 1)..Len(file)
    BY <1>1, <1>2, <1>3, <1>5, <2>2 DEF ReadInv
  <2>3. QED
    BY <1>2, <1>3, <2>1, <2>2
<1>6. ReadInv'
  BY <1>1, <1>3, <1>4, <1>5 DEF ReadInv, NoLineTwice
<1>7. CleanInv'
  <2>1. SUFFICES ASSUME clean PROVE CleanInv'
    BY <1>3 DEF CleanInv
  <2>2. pos <= Len(file) /\ (pos = 0 \/ file[pos] = Newline)
    BY <1>1, <2>1 DEF CleanInv
  <2>3. \A j \in 2..pos : file'[j] = file[j] /\ file'[j - 1] = file[j - 1]
    BY <1>2, <1>3, <2>2
  <2>4. pos <= Len(file') /\ (pos = 0 \/ file'[pos] = Newline)
    BY <1>2, <1>3, <2>2
  <2>5. \A j \in 2..pos : EndsLine(j)' <=> EndsLine(j)
    BY <2>3 DEF EndsLine
  <2>6. QED
    BY <1>1, <1>3, <2>1, <2>3, <2>4, <2>5 DEF CleanInv
<1>8. DeliveryInv'
  BY <1>1, <1>3 DEF DeliveryInv
<1>9. QED
  BY <1>6, <1>7, <1>8

\* What is said of the lines in the file does not change when it grows.
LEMMA OldLines ==
  ASSUME TypeInv, FileInv, NEW u \in 0..MaxLines, file' = Append(file, u)
  PROVE  /\ \A i, j \in 1..Len(file) :
              i < j /\ file'[i] # Newline /\ file'[j] # Newline =>
                /\ file'[i] <= file'[j]
                /\ \A k \in i..j : file'[k] = Newline => file'[i] < file'[j]
         /\ \A j \in 2..Len(file) : EndsLine(j)' =>
              /\ j > LineLen /\ \A i \in (j - LineLen)..(j - 1) : file'[i] = file'[j - 1]
              /\ j - LineLen = 1 \/ file'[(j - LineLen) - 1] = Newline
<1>1. Len(file) \in Nat /\ LineLen \in Nat /\ \A i \in 1..Len(file) : file'[i] = file[i]
  BY Grown, FileUnits, Numbers
<1>2. ASSUME NEW i \in 1..Len(file), NEW j \in 1..Len(file), i < j,
             file'[i] # Newline, file'[j] # Newline
      PROVE  file'[i] <= file'[j] /\ \A k \in i..j : file'[k] = Newline => file'[i] < file'[j]
  <2>1. \A k \in i..j : file'[k] = file[k]
    BY <1>1
  <2>2. QED
    BY <1>1, <1>2, <2>1 DEF FileInv
<1>3. ASSUME NEW j \in 2..Len(file), EndsLine(j)'
      PROVE  /\ j > LineLen /\ \A i \in (j - LineLen)..(j - 1) : file'[i] = file'[j - 1]
             /\ j - LineLen = 1 \/ file'[(j - LineLen) - 1] = Newline
  <2>1. file'[j] = file[j] /\ file'[j - 1] = file[j - 1] /\ EndsLine(j)
    BY <1>1, <1>3 DEF EndsLine
  <2>2. /\ j > LineLen /\ \A i \in (j - LineLen)..(j - 1) : file[i] = file[j - 1]
        /\ j - LineLen = 1 \/ file[(j - LineLen) - 1] = Newline
    BY <2>1 DEF FileInv
  <2>3. \A i \in (j - LineLen)..(j - 1) : i \in 1..Len(file)
    BY <1>1, <2>2
  <2>4. j - LineLen # 1 => (j - LineLen) - 1 \in 1..Len(file)
    BY <1>1, <2>2
  <2>5. QED
    BY <1>1, <2>1, <2>2, <2>3, <2>4
<1>4. QED
  BY <1>2, <1>3

\* A piece of a line
LEMMA WriteUnitKeeps ==
  ASSUME Inv, written < LineLen, line <= MaxLines, file' = Append(file, line),
         written' = written + 1, line' = line
  PROVE  FileInv'
<1> DEFINE n == Len(file)
<1>1. TypeInv /\ FileInv /\ line \in 0..MaxLines
  BY FileUnits, Numbers DEF Inv
<1>2. /\ Len(file') = n + 1 /\ file'[n + 1] = line
      /\ \A i \in 1..n : file'[i] = file[i]
  BY <1>1, Grown
<1>3. /\ n \in Nat /\ written \in Nat /\ line \in Nat /\ line # Newline /\ LineLen \in Nat
      /\ \A i \in 1..n : file[i] \in Nat
      /\ written <= n
  BY <1>1, FileUnits, Numbers DEF FileInv
<1>4. \A i \in 1..(n + 1) : i \in 1..n \/ i = n + 1
  BY <1>3
<1>5. written' <= n + 1 /\ (n + 1 = written' \/ file'[(n + 1) - written'] = Newline)
  <2>1. n = written \/ (n - written \in 1..n /\ file[n - written] = Newline)
    BY <1>1, <1>3 DEF FileInv
  <2>2. (n + 1) - written' = n - written /\ written' = written + 1
    BY <1>3
  <2>3. n # written => file'[n - written] = Newline
    BY <1>2, <2>1
  <2>4. n # written => file'[(n + 1) - written'] = Newline
    BY <2>2, <2>3
  <2>5. written' <= n + 1
    BY <1>3, <2>2
  <2>6. n = written => n + 1 = written'
    BY <2>2
  <2>7. QED
    BY <2>4, <2>5, <2>6
<1>6. \A i \in 1..(n + 1) :
        IF i > (n + 1) - written' THEN file'[i] = line' ELSE file'[i] < line'
  <2>1. ASSUME NEW i \in 1..n
        PROVE  IF i > (n + 1) - written' THEN file'[i] = line' ELSE file'[i] < line'
    BY <1>1, <1>2, <1>3 DEF FileInv
  <2>2. QED
    BY <1>2, <1>3, <1>4, <2>1
<1>7. ASSUME NEW i \in 1..(n + 1), NEW j \in 1..(n + 1), i < j,
             file'[i] # Newline, file'[j] # Newline
      PROVE  file'[i] <= file'[j] /\ \A k \in i..j : file'[k] = Newline => file'[i] < file'[j]
  <2>1. i \in 1..n /\ file'[i] = file[i]
    BY <1>2, <1>3, <1>4, <1>7
  <2>2. CASE j \in 1..n
    BY <1>1, <1>7, <2>1, <2>2, OldLines
  <2>3. CASE j = n + 1
    <3>1. file'[j] = line /\ file[i] <= line
      BY <1>1, <1>2, <1>3, <2>1, <2>3 DEF FileInv
    <3>2. ASSUME NEW k \in i..j, file'[k] = Newline
          PROVE  file[i] < line
      <4>1. k \in 1..n /\ file[k] = Newline
        BY <1>2, <1>3, <2>1, <2>3, <3>1, <3>2
      <4>2. k <= n - written
        BY <1>1, <1>3, <4>1 DEF FileInv
      <4>3. QED
        BY <1>1, <1>3, <2>1, <3>2, <4>2 DEF FileInv
    <3>3. QED
      BY <2>1, <3>1, <3>2
  <2>4. QED
    BY <1>4, <2>2, <2>3
<1>8. ASSUME NEW j \in 2..(n + 1), EndsLine(j)'
      PROVE  /\ j > LineLen /\ \A i \in (j - LineLen)..(j - 1) : file'[i] = file'[j - 1]
             /\ j - LineLen = 1 \/ file'[(j - LineLen) - 1] = Newline
  <2>1. j \in 2..n
    BY <1>2, <1>3, <1>8 DEF EndsLine
  <2>2. QED
    BY <1>1, <1>8, <2>1, OldLines
<1>9. QED
  BY <1>2, <1>5, <1>6, <1>7, <1>8 DEF FileInv

\* The end of a line
LEMMA WriteNewlineKeeps ==
  ASSUME Inv, written \in {0, LineLen}, line <= MaxLines, file' = Append(file, Newline),
         written' = 0, line' = line + 1
  PROVE  FileInv'
<1> DEFINE n == Len(file)
<1>1. TypeInv /\ FileInv /\ Newline \in 0..MaxLines
  BY Numbers DEF Inv
<1>2. /\ Len(file') = n + 1 /\ file'[n + 1] = Newline
      /\ \A i \in 1..n : file'[i] = file[i]
  BY <1>1, Grown
<1>3. /\ n \in Nat /\ written \in Nat /\ line \in Nat /\ LineLen \in Nat /\ LineLen > 0
      /\ \A i \in 1..n : file[i] \in Nat
      /\ written <= n
  BY <1>1, FileUnits, Numbers DEF FileInv
<1>4. \A i \in 1..(n + 1) : i \in 1..n \/ i = n + 1
  BY <1>3
<1>5. written' <= n + 1 /\ file'[(n + 1) - written'] = Newline
  <2>1. (n + 1) - written' = n + 1 /\ written' <= n + 1
    BY <1>3
  <2>2. QED
    BY <1>2, <2>1
<1>6. \A i \in 1..(n + 1) :
        IF i > (n + 1) - written' THEN file'[i] = line' ELSE file'[i] < line'
  <2>1. ASSUME NEW i \in 1..n
        PROVE  file'[i] < line'
    BY <1>1, <1>2, <1>3 DEF FileInv
  <2>2. file'[n + 1] < line'
    BY <1>2, <1>3, Numbers
  <2>3. \A i \in 1..(n + 1) : ~(i > (n + 1) - written')
    BY <1>3
  <2>4. QED
    BY <1>4, <2>1, <2>2, <2>3
<1>7. ASSUME NEW i \in 1..(n + 1), NEW j \in 1..(n + 1), i < j,
             file'[i] # Newline, file'[j] # Newline
      PROVE  file'[i] <= file'[j] /\ \A k \in i..j : file'[k] = Newline => file'[i] < file'[j]
  <2>1. i \in 1..n /\ j \in 1..n
    BY <1>2, <1>4, <1>7
  <2>2. QED
    BY <1>1, <1>7, <2>1, OldLines
<1>8. ASSUME NEW j \in 2..(n + 1), EndsLine(j)'
      PROVE  /\ j > LineLen /\ \A i \in (j - LineLen)..(j - 1) : file'[i] = file'[j - 1]
             /\ j - LineLen = 1 \/ file'[(j - LineLen) - 1] = Newline
  <2>1. CASE j \in 2..n
    BY <1>1, <1>8, <2>1, OldLines
  <2>2. CASE j = n + 1
    <3>1. n \in 1..n /\ file'[j - 1] = file[n] /\ file[n] # Newline
      BY <1>2, <1>3, <1>8, <2>2 DEF EndsLine
    <3>2. written = LineLen
      <4>1. written = 0 => file[n] = Newline
        BY <1>1, <1>3, <3>1 DEF FileInv
      <4>2. QED
        BY <3>1, <4>1
    <3>3. \A i \in ((n - LineLen) + 1)..n : i \in 1..n /\ file[i] = line
      BY <1>1, <1>3, <3>2 DEF FileInv
    <3>4. j > LineLen /\ j - LineLen = (n - LineLen) + 1 /\ j - 1 = n
      BY <1>3, <2>2, <3>2
    <3>5. \A i \in (j - LineLen)..(j - 1) : file'[i] = file'[j - 1]
      BY <1>2, <1>3, <3>1, <3>3, <3>4
    <3>6. j - LineLen # 1 => file'[(j - LineLen) - 1] = Newline
      <4>1. (j - LineLen) - 1 = n - LineLen
        BY <1>3, <2>2
      <4>2. n = LineLen \/ file[n - LineLen] = Newline
        BY <1>1, <3>2 DEF FileInv
      <4>3. n # LineLen => n - LineLen \in 1..n
        BY <1>3, <3>2
      <4>4. j - LineLen # 1 => n # LineLen
        BY <1>3, <2>2
      <4>5. QED
        BY <1>2, <4>1, <4>2, <4>3, <4>4
    <3>7. QED
      BY <3>4, <3>5, <3>6
  <2>3. QED
    BY <1>3, <1>4, <2>1, <2>2
<1>9. QED
  BY <1>2, <1>5, <1>6, <1>7, <1>8 DEF FileInv

LEMMA WriteKeeps ==
  ASSUME Inv, Write
  PROVE  Inv'
<1>1. /\ TypeInv /\ line <= MaxLines
      /\ UNCHANGED <<sensor, begun, resets, pc, stream, pos, fpos, base, obs, historyVars, clean>>
  BY DEF Inv, Write
<1>2. /\ line \in 0..MaxLines /\ Newline \in 0..MaxLines /\ line + 1 \in 1..(MaxLines + 1)
      /\ 0 \in 0..LineLen
  BY <1>1, FileUnits, Numbers
<1>3. CASE written < LineLen /\ file' = Append(file, line) /\ written' = written + 1 /\ line' = line
  <2>1. FileInv'
    BY <1>1, <1>3, WriteUnitKeeps
  <2>2. ReadInv' /\ CleanInv' /\ DeliveryInv'
    BY <1>1, <1>2, <1>3, WriteKeepsRest
  <2>3. written' \in 0..LineLen /\ file' \in Seq(0..MaxLines)
    BY <1>1, <1>2, <1>3, FileUnits, Numbers, Grown
  <2>4. TypeInv'
    BY <1>1, <1>3, <2>3 DEF TypeInv
  <2>5. QED
    BY <2>1, <2>2, <2>4 DEF Inv
<1>4. CASE /\ written \in {0, LineLen} /\ file' = Append(file, Newline)
           /\ written' = 0 /\ line' = line + 1
  <2>1. FileInv'
    BY <1>1, <1>4, WriteNewlineKeeps
  <2>2. ReadInv' /\ CleanInv' /\ DeliveryInv'
    BY <1>1, <1>2, <1>4, WriteKeepsRest
  <2>3. file' \in Seq(0..MaxLines)
    BY <1>1, <1>2, <1>4, Grown
  <2>4. TypeInv'
    BY <1>1, <1>2, <1>4, <2>3 DEF TypeInv
  <2>5. QED
    BY <2>1, <2>2, <2>4 DEF Inv
<1>5. QED
  BY <1>3, <1>4 DEF Write

-----------------------------------------------------------------------------
(* What the sensor reads                                                   *)

\* The newline that ends the next line
NextEnd == CHOOSE j \in Ends : \A i \in Ends : j <= i

LEMMA FirstEnd ==
  ASSUME TypeInv, Ends # {}
  PROVE  /\ NextEnd \in (pos + 1)..Len(file) /\ file[NextEnd] = Newline
         /\ \A i \in (pos + 1)..(NextEnd - 1) : file[i] # Newline
<1>1. Ends \subseteq Nat /\ Len(file) \in Nat /\ pos \in Nat
  BY FileUnits DEF Ends
<1>2. PICK x \in Ends : \A y \in Ends : ~(<<y, x>> \in OpToRel(<, Nat))
  BY <1>1, NatLessThanWellFounded, WFMin
<1>3. ASSUME NEW y \in Ends
      PROVE  x <= y
  <2>1. x \in Nat /\ y \in Nat
    BY <1>1
  <2>2. y < x => <<y, x>> \in OpToRel(<, Nat)
    BY <2>1 DEF OpToRel
  <2>3. ~(y < x)
    BY <1>2, <2>2
  <2>4. QED
    BY <2>1, <2>3
<1>4. NextEnd \in Ends /\ \A i \in Ends : NextEnd <= i
  BY <1>3 DEF NextEnd
<1>5. ASSUME NEW i \in (pos + 1)..(NextEnd - 1), file[i] = Newline
      PROVE  FALSE
  <2>1. i \in Ends
    BY <1>1, <1>4, <1>5 DEF Ends
  <2>2. QED
    BY <1>1, <1>4, <2>1
<1>6. QED
  BY <1>4, <1>5 DEF Ends

\* The text of the next line is what is left of that line.  Its number is smaller than those
\* of the lines behind it, and greater than those of the lines read before.
LEMMA NextText ==
  ASSUME TypeInv, FileInv, Ends # {}
  PROVE  LET t == TextTo(NextEnd)
         IN  /\ t \in Texts /\ Len(t) = (NextEnd - pos) - 1
             /\ \A i \in 1..Len(t) : t[i] = file[pos + i]
             /\ t = <<>> <=> NextEnd = pos + 1
             /\ t # <<>> =>
                  /\ pos + 1 \in (pos + 1)..Len(file) /\ t[1] = file[pos + 1]
                  /\ t[1] # Newline /\ t[1] < line
                  /\ \A p \in (NextEnd + 1)..Len(file) : file[p] # Newline => t[1] < file[p]
<1> DEFINE e == NextEnd
           t == TextTo(e)
<1>1. /\ e \in (pos + 1)..Len(file) /\ file[e] = Newline
      /\ \A i \in (pos + 1)..(e - 1) : file[i] # Newline
  BY FirstEnd
<1>2. /\ Len(file) \in Nat /\ pos \in Nat /\ line \in Nat /\ written \in Nat /\ line > 0
      /\ \A i \in 1..Len(file) : file[i] \in Nat /\ file[i] <= MaxLines
      /\ MaxLines \in Nat /\ e \in Nat
  BY <1>1, FileUnits, Numbers
<1> HIDE DEF e
<1>3. \A i \in (pos + 1)..(e - 1) : file[i] \in 1..MaxLines
  BY <1>1, <1>2, Numbers
<1>4. /\ t \in Texts /\ Len(t) = (IF pos + 1 <= e - 1 THEN ((e - 1) - (pos + 1)) + 1 ELSE 0)
      /\ \A i \in 1..(((e - 1) - (pos + 1)) + 1) : t[i] = file[((pos + 1) + i) - 1]
  BY <1>2, <1>3, SubSeqProperties DEF TextTo, Texts
<1>5. Len(t) = (e - pos) - 1 /\ \A i \in 1..Len(t) : t[i] = file[pos + i]
  <2>1. Len(t) = (e - pos) - 1
    BY <1>1, <1>2, <1>4
  <2>2. ASSUME NEW i \in 1..Len(t)
        PROVE  t[i] = file[pos + i]
    <3>1. i \in 1..(((e - 1) - (pos + 1)) + 1) /\ ((pos + 1) + i) - 1 = pos + i
      BY <1>2, <2>1
    <3>2. QED
      BY <1>4, <3>1
  <2>3. QED
    BY <2>1, <2>2
<1>6. t = <<>> <=> Len(t) = 0
  BY <1>4, NoText, SeqEqual DEF Texts
<1>7. t = <<>> <=> e = pos + 1
  BY <1>1, <1>2, <1>5, <1>6
<1>8. ASSUME t # <<>>
      PROVE  /\ pos + 1 \in (pos + 1)..Len(file) /\ t[1] = file[pos + 1]
             /\ t[1] # Newline /\ t[1] < line
             /\ \A p \in (e + 1)..Len(file) : file[p] # Newline => t[1] < file[p]
  <2>1. /\ pos + 1 \in (pos + 1)..(e - 1) /\ 1 \in 1..Len(t)
        /\ pos + 1 \in 1..Len(file) /\ pos + 1 < e /\ e <= Len(file)
    BY <1>1, <1>2, <1>5, <1>7, <1>8
  <2>2. t[1] = file[pos + 1] /\ t[1] # Newline
    BY <1>1, <1>5, <2>1
  <2>3. e <= Len(file) - written
    <3>1. e \in 1..Len(file) /\ file[e] # line
      BY <1>1, <1>2, Numbers
    <3>2. QED
      BY <1>2, <3>1 DEF FileInv
  <2>4. file[pos + 1] < line
    BY <1>2, <2>1, <2>3 DEF FileInv
  <2>5. ASSUME NEW p \in (e + 1)..Len(file), file[p] # Newline
        PROVE  file[pos + 1] < file[p]
    <3>1. p \in 1..Len(file) /\ e \in (pos + 1)..p /\ pos + 1 < p
      BY <1>2, <2>1
    <3>2. QED
      BY <1>1, <2>1, <2>2, <2>5, <3>1 DEF FileInv
  <2>6. QED
    BY <2>1, <2>2, <2>4, <2>5
<1>9. QED
  BY <1>4, <1>5, <1>7, <1>8 DEF e

\* From the beginning of a line on, the next line is empty, or it is whole.
LEMMA NextLine ==
  ASSUME TypeInv, FileInv, Ends # {}, pos = 0 \/ file[pos] = Newline, pos <= Len(file)
  PROVE  LET t == TextTo(NextEnd)
         IN  /\ t = <<>> => \/ NextEnd = 1 \/ ~EndsLine(NextEnd)
             /\ t # <<>> => /\ NextEnd \in 2..Len(file) /\ EndsLine(NextEnd)
                            /\ t = Whole(file[NextEnd - 1])
<1> DEFINE e == NextEnd
           t == TextTo(e)
           q == (e - LineLen) - 1
<1>1. /\ e \in (pos + 1)..Len(file) /\ file[e] = Newline
      /\ \A i \in (pos + 1)..(e - 1) : file[i] # Newline
  BY FirstEnd
<1>2. /\ Len(file) \in Nat /\ pos \in Nat /\ MaxLines \in Nat /\ e \in Nat
      /\ LineLen \in Nat /\ LineLen > 0
      /\ \A i \in 1..Len(file) : file[i] \in Nat /\ file[i] <= MaxLines
  BY <1>1, FileUnits, Numbers
<1>3. /\ t \in Texts /\ Len(t) = (e - pos) - 1
      /\ \A i \in 1..Len(t) : t[i] = file[pos + i]
      /\ t = <<>> <=> e = pos + 1
  BY NextText
<1> HIDE DEF e, t
<1>4. CASE t = <<>>
  <2>1. e = pos + 1
    BY <1>3, <1>4
  <2>2. e = 1 \/ file[e - 1] = Newline
    BY <1>2, <2>1
  <2>3. QED
    BY <1>4, <2>2 DEF EndsLine, e, t
<1>5. CASE t # <<>>
  <2>1. e - 1 \in (pos + 1)..(e - 1) /\ e \in 2..Len(file)
    BY <1>1, <1>2, <1>3, <1>5
  <2>2. EndsLine(e)
    BY <1>1, <2>1 DEF EndsLine
  <2>3. /\ e > LineLen /\ \A i \in (e - LineLen)..(e - 1) : file[i] = file[e - 1]
        /\ e - LineLen = 1 \/ file[(e - LineLen) - 1] = Newline
    BY <2>1, <2>2 DEF FileInv
  <2>4. q \in Nat /\ q < e /\ (q = 0 \/ file[q] = Newline)
    BY <1>2, <2>3
  <2>5. q <= pos
    <3>1. q \notin (pos + 1)..(e - 1)
      BY <1>1, <1>2, <2>4
    <3>2. QED
      BY <1>2, <2>4, <3>1
  <2>6. pos <= q
    <3>1. ASSUME pos > q
          PROVE  FALSE
      <4>1. pos \in (e - LineLen)..(e - 1)
        BY <1>1, <1>2, <3>1
      <4>2. file[pos] = file[e - 1] /\ pos # 0
        BY <1>2, <2>3, <2>4, <3>1, <4>1
      <4>3. QED
        BY <2>2, <4>2 DEF EndsLine
    <3>2. QED
      BY <1>2, <2>4, <3>1
  <2>7. Len(t) = LineLen /\ pos = (e - LineLen) - 1
    BY <1>2, <1>3, <2>4, <2>5, <2>6
  <2>8. file[e - 1] \in 1..MaxLines
    <3>1. e - 1 \in 1..Len(file) /\ file[e - 1] # Newline
      BY <1>1, <1>2, <2>1
    <3>2. QED
      BY <1>2, <3>1, Numbers
  <2>9. ASSUME NEW i \in 1..LineLen
        PROVE  t[i] = file[e - 1]
    <3>1. t[i] = file[pos + i]
      BY <1>3, <2>7
    <3>2. pos + i \in (e - LineLen)..(e - 1)
      BY <1>2, <2>7
    <3>3. QED
      BY <2>3, <3>1, <3>2
  <2>10. t = Whole(file[e - 1])
    <3>1. /\ Whole(file[e - 1]) \in Texts /\ Len(Whole(file[e - 1])) = LineLen
          /\ \A i \in 1..LineLen : Whole(file[e - 1])[i] = file[e - 1]
      BY <1>2, <2>8 DEF Whole, Texts
    <3>2. QED
      BY <1>3, <2>7, <2>9, <3>1, SeqEqual DEF Texts
  <2>11. QED
    BY <1>5, <2>1, <2>2, <2>10 DEF e, t
<1>6. QED
  BY <1>4, <1>5 DEF e, t

-----------------------------------------------------------------------------
(* The sensor                                                              *)

LEMMA SenseBeginKeeps ==
  ASSUME Inv, SenseBegin
  PROVE  Inv'
<1>1. /\ TypeInv /\ FileInv /\ ReadInv /\ CleanInv /\ DeliveryInv
      /\ pc = "idle" /\ pc' = "loop" /\ obs' = <<>> /\ base' = FALSE /\ stream # "good"
      /\ UNCHANGED <<sensor, file, line, written, begun, resets, fpos, read, sensed, skipped, clean>>
  BY DEF Inv, ReadInv, SenseBegin, writerVars, historyVars
<1>2. pos' = pos /\ pos = fpos /\ stream' \in {"closed", "good"}
  BY <1>1 DEF ReadInv, SenseBegin, Open
<1>3. TypeInv'
  BY <1>1, <1>2 DEF TypeInv
<1>4. FileInv'
  BY <1>1 DEF FileInv, EndsLine
<1>5. ReadInv'
  BY <1>1, <1>2 DEF ReadInv, NoLineTwice
<1>6. CleanInv'
  <2>1. \A j : EndsLine(j)' <=> EndsLine(j)
    BY <1>1 DEF EndsLine
  <2>2. QED
    BY <1>1, <1>2, <2>1 DEF CleanInv
<1>7. DeliveryInv'
  <2>1. sensed \in Seq(Texts) /\ sensed \o <<>> = sensed /\ <<>> \in Seq(Texts)
    BY <1>1, ConcatEmptySeq, EmptySeq DEF DeliveryInv
  <2>2. QED
    BY <1>1, <2>1 DEF DeliveryInv
<1>8. QED
  BY <1>3, <1>4, <1>5, <1>6, <1>7 DEF Inv

LEMMA SenseEndKeeps ==
  ASSUME Inv, SenseEnd
  PROVE  Inv'
<1>1. /\ TypeInv /\ FileInv /\ ReadInv /\ CleanInv /\ DeliveryInv
      /\ pc = "loop" /\ stream # "good" /\ pc' = "idle" /\ sensed' = sensed \o obs
      /\ UNCHANGED <<sensor, file, line, written, begun, resets, stream, pos, fpos, base, obs,
                     read, skipped, clean>>
  BY DEF Inv, SenseEnd, writerVars
<1>2. TypeInv'
  BY <1>1 DEF TypeInv
<1>3. FileInv'
  BY <1>1 DEF FileInv, EndsLine
<1>4. ReadInv'
  BY <1>1 DEF ReadInv, NoLineTwice
<1>5. CleanInv'
  <2>1. \A j : EndsLine(j)' <=> EndsLine(j)
    BY <1>1 DEF EndsLine
  <2>2. QED
    BY <1>1, <2>1 DEF CleanInv
<1>6. DeliveryInv'
  <2>1. sensed \in Seq(Texts) /\ obs \in Seq(Texts)
    BY <1>1 DEF DeliveryInv
  <2>2. sensed \o obs \in Seq(Texts)
    BY <2>1, ConcatProperties
  <2>3. QED
    BY <1>1, <2>2 DEF DeliveryInv
<1>7. QED
  BY <1>2, <1>3, <1>4, <1>5, <1>6 DEF Inv

LEMMA ResetKeeps ==
  ASSUME Inv, Reset
  PROVE  Inv'
<1>1. /\ TypeInv /\ FileInv /\ pc = "idle" /\ resets < MaxResets /\ resets' = resets + 1
      /\ stream' = "closed" /\ pos' = 0 /\ fpos' = 0 /\ obs' = <<>>
      /\ read' = <<>> /\ sensed' = <<>> /\ skipped' = 0 /\ clean' = TRUE
      /\ UNCHANGED <<sensor, file, line, written, begun, pc, base>>
  BY DEF Inv, Reset, writerVars
<1>2. Len(read') = 0 /\ <<>> \in Seq(Texts) /\ Len(file) \in Nat
  BY <1>1, NoText, FileUnits
<1>3. TypeInv'
  <2>1. resets' \in 0..MaxResets
    BY <1>1, Numbers DEF TypeInv
  <2>2. QED
    BY <1>1, <2>1 DEF TypeInv
<1>4. FileInv'
  BY <1>1 DEF FileInv, EndsLine
<1>5. ReadInv'
  BY <1>1, <1>2 DEF ReadInv, NoLineTwice
<1>6. CleanInv'
  BY <1>1, <1>2 DEF CleanInv
<1>7. DeliveryInv'
  BY <1>1, <1>2 DEF DeliveryInv
<1>8. QED
  BY <1>3, <1>4, <1>5, <1>6, <1>7 DEF Inv

\* A line is read, or nothing.
LEMMA ReadLineCases ==
  ASSUME Inv, ReadLine
  PROVE  /\ pc = "loop" /\ stream = "good" /\ fpos' = pos
         /\ UNCHANGED <<sensor, file, line, written, begun, resets, pc, sensed, clean>>
         /\ \/ Ends = {} /\ stream' = "eof" /\ UNCHANGED <<pos, obs, base, skipped, read>>
            \/ /\ Ends # {} /\ pos' = NextEnd /\ stream' = stream
               /\ TextTo(NextEnd) = <<>> /\ UNCHANGED <<obs, base, skipped, read>>
            \/ /\ Ends # {} /\ pos' = NextEnd /\ stream' = stream
               /\ TextTo(NextEnd) # <<>> /\ Observe(TextTo(NextEnd))
               /\ read' = Append(read, TextTo(NextEnd))
BY DEF ReadLine, NextEnd, writerVars

\* A line that was read is delivered or skipped.
LEMMA ObserveDelivers ==
  ASSUME Inv, pc = "loop", NEW t \in Texts, Observe(t), read' = Append(read, t),
         UNCHANGED <<sensor, pc, sensed>>
  PROVE  DeliveryInv' /\ base' \in BOOLEAN
<1>1. /\ TypeInv /\ obs \in Seq(Texts) /\ sensed \in Seq(Texts) /\ skipped \in Nat
      /\ read \in Seq(Texts)
      /\ Len(read) = Len(sensed \o obs) + skipped
      /\ sensor = "response_time" => sensed \o obs = read
  BY DEF Inv, DeliveryInv, ReadInv
<1>2. /\ sensed \o obs \in Seq(Texts) /\ Len(sensed \o obs) \in Nat
  BY <1>1, ConcatProperties, LenProperties
<1>3. Len(read') = Len(read) + 1 /\ Len(read) \in Nat
  BY <1>1, AppendProperties, LenProperties
<1>4. CASE obs' = Append(obs, t) /\ UNCHANGED <<base, skipped>>
  <2>1. obs' \in Seq(Texts) /\ sensed \o obs' = Append(sensed \o obs, t)
    <3>1. /\ obs' = obs \o <<t>> /\ <<t>> \in Seq(Texts)
          /\ Append(sensed \o obs, t) = (sensed \o obs) \o <<t>>
      BY <1>1, <1>2, <1>4, AppendIsConcat
    <3>2. sensed \o (obs \o <<t>>) = (sensed \o obs) \o <<t>>
      BY <1>1, <3>1, ConcatAssociative
    <3>3. obs' \in Seq(Texts)
      BY <1>1, <3>1, ConcatProperties
    <3>4. QED
      BY <3>1, <3>2, <3>3
  <2>2. Len(sensed \o obs') = Len(sensed \o obs) + 1
    BY <1>2, <2>1, AppendProperties
  <2>3. Len(read') = Len(sensed \o obs') + skipped
    BY <1>1, <1>2, <1>3, <2>2
  <2>4. sensor = "response_time" => sensed \o obs' = read'
    BY <1>1, <2>1
  <2>5. QED
    BY <1>1, <1>4, <2>1, <2>3, <2>4 DEF DeliveryInv, TypeInv
<1>5. CASE skipped' = skipped + 1 /\ obs' = obs /\ sensor # "response_time"
  <2>1. base' \in BOOLEAN
    BY <1>1, <1>5 DEF Observe, TypeInv
  <2>2. Len(read') = Len(sensed \o obs) + skipped'
    BY <1>1, <1>2, <1>3, <1>5
  <2>3. QED
    BY <1>1, <1>5, <2>1, <2>2 DEF DeliveryInv
<1>6. QED
  BY <1>4, <1>5 DEF Observe

\* The sensor goes past a line; what it has read stays behind what it is going to read, and
\* while the file only grows it has read the lines before it.
LEMMA NoneReadKeeps ==
  ASSUME TypeInv, FileInv, ReadInv, CleanInv, pc = "loop", Ends # {}, TextTo(NextEnd) = <<>>,
         pos' = NextEnd, fpos' = pos, stream = "good",
         UNCHANGED <<file, line, pc, stream, read, clean>>
  PROVE  ReadInv' /\ CleanInv'
<1>1. /\ NextEnd \in (pos + 1)..Len(file) /\ file[NextEnd] = Newline
      /\ Len(file) \in Nat /\ pos \in Nat
      /\ \A i \in (pos + 1)..(NextEnd - 1) : file[i] # Newline
  BY FirstEnd, FileUnits
<1>2. ReadInv'
  <2>1. (pos' + 1)..Len(file) \subseteq (pos + 1)..Len(file)
    BY <1>1
  <2>2. QED
    BY <2>1 DEF ReadInv, NoLineTwice
<1>3. CleanInv'
  <2>1. SUFFICES ASSUME clean PROVE CleanInv'
    BY DEF CleanInv
  <2>2. pos <= Len(file) /\ (pos = 0 \/ file[pos] = Newline)
    BY <2>1 DEF CleanInv
  <2>3. NextEnd = 1 \/ ~EndsLine(NextEnd)
    BY <2>2, NextLine
  <2>4. \A j : EndsLine(j)' <=> EndsLine(j)
    BY DEF EndsLine
  <2>5. NextEnd = pos + 1
    BY NextText
  <2>6. \A j \in 2..NextEnd : EndsLine(j) => j \in 2..pos
    BY <1>1, <2>3, <2>5
  <2>7. \A i \in 1..Len(read) : \E j \in 2..NextEnd : EndsLine(j) /\ read[i] = Whole(file[j - 1])
    <3>1. 2..pos \subseteq 2..NextEnd
      BY <1>1, <2>5
    <3>2. QED
      BY <2>1, <3>1 DEF CleanInv
  <2>8. \A j \in 2..NextEnd : EndsLine(j) => \E i \in 1..Len(read) : read[i] = Whole(file[j - 1])
    BY <2>1, <2>6 DEF CleanInv
  <2>9. pos' <= Len(file') /\ file'[pos'] = Newline
    BY <1>1
  <2>10. \A i \in 1..Len(read') : \E j \in 2..pos' : EndsLine(j)' /\ read'[i] = Whole(file'[j - 1])
    BY <2>4, <2>7
  <2>11. \A j \in 2..pos' : EndsLine(j)' => \E i \in 1..Len(read') : read'[i] = Whole(file'[j - 1])
    BY <2>4, <2>8
  <2>12. QED
    BY <2>9, <2>10, <2>11 DEF CleanInv
<1>4. QED
  BY <1>2, <1>3

LEMMA OneReadKeeps ==
  ASSUME TypeInv, FileInv, ReadInv, CleanInv, pc = "loop", Ends # {}, TextTo(NextEnd) # <<>>,
         pos' = NextEnd, fpos' = pos, stream = "good", read' = Append(read, TextTo(NextEnd)),
         UNCHANGED <<file, line, pc, stream, clean>>
  PROVE  ReadInv' /\ CleanInv'
<1> DEFINE t == TextTo(NextEnd)
           n == Len(read) + 1
<1>1. /\ NextEnd \in (pos + 1)..Len(file) /\ file[NextEnd] = Newline
      /\ Len(file) \in Nat /\ pos \in Nat
      /\ \A i \in (pos + 1)..(NextEnd - 1) : file[i] # Newline
  BY FirstEnd, FileUnits
<1>2. /\ t \in Texts /\ pos + 1 \in (pos + 1)..Len(file) /\ t[1] = file[pos + 1]
      /\ t[1] # Newline /\ t[1] < line
      /\ \A p \in (NextEnd + 1)..Len(file) : file[p] # Newline => t[1] < file[p]
  BY NextText
<1>3. /\ read \in Seq(Texts) /\ Len(read) \in Nat /\ read' \in Seq(Texts) /\ Len(read') = n
      /\ read'[n] = t /\ \A i \in 1..Len(read) : read'[i] = read[i]
  BY <1>2, AppendProperties, LenProperties DEF ReadInv
<1> HIDE DEF t
<1>4. \A i \in 1..n : i \in 1..Len(read) \/ i = n
  BY <1>3
<1>5. \A i \in 1..Len(read) : read[i][1] < t[1]
  BY <1>2 DEF ReadInv
<1>6. ReadInv'
  <2>1. (pos' + 1)..Len(file) \subseteq (pos + 1)..Len(file)
    BY <1>1
  <2>2. \A i \in 1..n : read'[i] # <<>> /\ read'[i][1] < line
    BY <1>2, <1>3, <1>4 DEF ReadInv, t
  <2>3. \A i \in 1..n, p \in (pos' + 1)..Len(file) : file[p] # Newline => read'[i][1] < file[p]
    BY <1>2, <1>3, <1>4, <2>1 DEF ReadInv
  <2>4. \A i, j \in 1..n : i < j => read'[i][1] < read'[j][1]
    <3>1. ASSUME NEW i \in 1..n, NEW j \in 1..n, i < j
          PROVE  read'[i][1] < read'[j][1]
      <4>1. i \in 1..Len(read)
        BY <1>3, <1>4, <3>1
      <4>2. QED
        BY <1>3, <1>4, <1>5, <3>1, <4>1 DEF ReadInv, NoLineTwice
    <3>2. QED
      BY <3>1
  <2>5. QED
    BY <1>3, <2>2, <2>3, <2>4 DEF ReadInv, NoLineTwice
<1>7. CleanInv'
  <2>1. SUFFICES ASSUME clean PROVE CleanInv'
    BY DEF CleanInv
  <2>2. pos <= Len(file) /\ (pos = 0 \/ file[pos] = Newline)
    BY <2>1 DEF CleanInv
  <2>3. NextEnd \in 2..Len(file) /\ EndsLine(NextEnd) /\ t = Whole(file[NextEnd - 1])
    BY <2>2, NextLine DEF t
  <2>4. \A j : EndsLine(j)' <=> EndsLine(j)
    BY DEF EndsLine
  <2>5. \A i \in 1..n : \E j \in 2..NextEnd : EndsLine(j) /\ read'[i] = Whole(file[j - 1])
    <3>1. ASSUME NEW i \in 1..Len(read)
          PROVE  \E j \in 2..NextEnd : EndsLine(j) /\ read'[i] = Whole(file[j - 1])
      <4>1. PICK j \in 2..pos : EndsLine(j) /\ read[i] = Whole(file[j - 1])
        BY <2>1 DEF CleanInv
      <4>2. j \in 2..NextEnd
        BY <1>1, <2>3
      <4>3. QED
        BY <1>3, <4>1, <4>2
    <3>2. \E j \in 2..NextEnd : EndsLine(j) /\ read'[n] = Whole(file[j - 1])
      <4>1. NextEnd \in 2..NextEnd
        BY <2>3
      <4>2. QED
        BY <1>3, <2>3, <4>1
    <3>3. QED
      BY <1>4, <3>1, <3>2
  <2>6. \A j \in 2..NextEnd : EndsLine(j) => \E i \in 1..n : read'[i] = Whole(file[j - 1])
    <3>1. ASSUME NEW j \in 2..NextEnd, EndsLine(j)
          PROVE  \E i \in 1..n : read'[i] = Whole(file[j - 1])
      <4>1. CASE j = NextEnd
        <5>1. n \in 1..n
          BY <1>3
        <5>2. QED
          BY <1>3, <2>3, <4>1, <5>1
      <4>2. CASE j # NextEnd
        <5>1. j \in 2..pos
          <6>1. j \notin (pos + 1)..(NextEnd - 1)
            BY <1>1, <3>1 DEF EndsLine
          <6>2. QED
            BY <1>1, <2>3, <4>2, <6>1
        <5>2. PICK i \in 1..Len(read) : read[i] = Whole(file[j - 1])
          BY <2>1, <3>1, <5>1 DEF CleanInv
        <5>3. i \in 1..n /\ read'[i] = Whole(file[j - 1])
          BY <1>3, <5>2
        <5>4. QED
          BY <5>3
      <4>3. QED
        BY <4>1, <4>2
    <3>2. QED
      BY <3>1
  <2>7. pos' <= Len(file') /\ file'[pos'] = Newline
    BY <1>1
  <2>8. \A i \in 1..Len(read') : \E j \in 2..pos' : EndsLine(j)' /\ read'[i] = Whole(file'[j - 1])
    BY <1>3, <2>4, <2>5
  <2>9. \A j \in 2..pos' : EndsLine(j)' => \E i \in 1..Len(read') : read'[i] = Whole(file'[j - 1])
    BY <1>3, <2>4, <2>6
  <2>10. QED
    BY <2>7, <2>8, <2>9 DEF CleanInv
<1>8. QED
  BY <1>6, <1>7

LEMMA ReadLineKeeps ==
  ASSUME Inv, ReadLine
  PROVE  Inv'
<1>1. /\ TypeInv /\ FileInv /\ ReadInv /\ CleanInv /\ DeliveryInv
      /\ pc = "loop" /\ stream = "good" /\ fpos' = pos
      /\ UNCHANGED <<sensor, file, line, written, begun, resets, pc, sensed, clean>>
  BY ReadLineCases DEF Inv
<1>2. FileInv'
  BY <1>1 DEF FileInv, EndsLine
<1>3. ASSUME Ends = {}, stream' = "eof", UNCHANGED <<pos, obs, base, skipped, read>>
      PROVE  Inv'
  <2>1. TypeInv'
    BY <1>1, <1>3 DEF TypeInv
  <2>2. ReadInv'
    BY <1>1, <1>3 DEF ReadInv, NoLineTwice
  <2>3. CleanInv'
    BY <1>1, <1>3 DEF CleanInv, EndsLine
  <2>4. DeliveryInv'
    BY <1>1, <1>3 DEF DeliveryInv
  <2>5. QED
    BY <1>2, <2>1, <2>2, <2>3, <2>4 DEF Inv
<1>4. ASSUME Ends # {}, pos' = NextEnd, stream' = stream, TextTo(NextEnd) = <<>>,
             UNCHANGED <<obs, base, skipped, read>>
      PROVE  Inv'
  <2>1. pos' \in Nat
    BY <1>1, <1>4, FirstEnd, FileUnits
  <2>2. TypeInv'
    BY <1>1, <1>4, <2>1 DEF TypeInv
  <2>3. ReadInv' /\ CleanInv'
    BY <1>1, <1>4, NoneReadKeeps
  <2>4. DeliveryInv'
    BY <1>1, <1>4 DEF DeliveryInv
  <2>5. QED
    BY <1>2, <2>2, <2>3, <2>4 DEF Inv
<1>5. ASSUME Ends # {}, pos' = NextEnd, stream' = stream, TextTo(NextEnd) # <<>>,
             Observe(TextTo(NextEnd)), read' = Append(read, TextTo(NextEnd))
      PROVE  Inv'
  <2>1. TextTo(NextEnd) \in Texts
    BY <1>1, <1>5, NextText
  <2>2. DeliveryInv' /\ base' \in BOOLEAN
    BY <1>1, <1>5, <2>1, ObserveDelivers
  <2>3. pos' \in Nat
    BY <1>1, <1>5, FirstEnd, FileUnits
  <2>4. TypeInv'
    BY <1>1, <1>5, <2>2, <2>3 DEF TypeInv
  <2>5. ReadInv' /\ CleanInv'
    BY <1>1, <1>5, OneReadKeeps
  <2>6. QED
    BY <1>2, <2>2, <2>4, <2>5 DEF Inv
<1>6. QED
  <2>1. \/ Ends = {} /\ stream' = "eof" /\ UNCHANGED <<pos, obs, base, skipped, read>>
        \/ /\ Ends # {} /\ pos' = NextEnd /\ stream' = stream
           /\ TextTo(NextEnd) = <<>> /\ UNCHANGED <<obs, base, skipped, read>>
        \/ /\ Ends # {} /\ pos' = NextEnd /\ stream' = stream
           /\ TextTo(NextEnd) # <<>> /\ Observe(TextTo(NextEnd))
           /\ read' = Append(read, TextTo(NextEnd))
    BY ReadLineCases
  <2>2. CASE Ends = {} /\ stream' = "eof" /\ UNCHANGED <<pos, obs, base, skipped, read>>
    BY <1>3, <2>2
  <2>3. CASE /\ Ends # {} /\ pos' = NextEnd /\ stream' = stream
             /\ TextTo(NextEnd) = <<>> /\ UNCHANGED <<obs, base, skipped, read>>
    BY <1>4, <2>3
  <2>4. CASE /\ Ends # {} /\ pos' = NextEnd /\ stream' = stream
             /\ TextTo(NextEnd) # <<>> /\ Observe(TextTo(NextEnd))
             /\ read' = Append(read, TextTo(NextEnd))
    BY <1>5, <2>4
  <2>5. QED
    BY <2>1, <2>2, <2>3, <2>4

LEMMA StutterKeeps ==
  ASSUME Inv, UNCHANGED vars
  PROVE  Inv'
<1>1. /\ TypeInv /\ FileInv /\ ReadInv /\ CleanInv /\ DeliveryInv
      /\ UNCHANGED <<sensor, file, line, written, begun, resets, pc, stream, pos, fpos, base, obs,
                     read, sensed, skipped, clean>>
  BY DEF Inv, vars, writerVars, historyVars
<1>2. TypeInv'
  BY <1>1 DEF TypeInv
<1>3. FileInv'
  BY <1>1 DEF FileInv, EndsLine
<1>4. ReadInv'
  BY <1>1 DEF ReadInv, NoLineTwice
<1>5. CleanInv'
  BY <1>1 DEF CleanInv, EndsLine
<1>6. DeliveryInv'
  BY <1>1 DEF DeliveryInv
<1>7. QED
  BY <1>2, <1>3, <1>4, <1>5, <1>6 DEF Inv

LEMMA InvKept == Inv /\ [Next]_vars => Inv'
<1> SUFFICES ASSUME Inv, [Next]_vars PROVE Inv'
  OBVIOUS
<1>1. CASE BeginFile
  BY <1>1, BeginFileKeeps
<1>2. CASE Write
  BY <1>2, WriteKeeps
<1>3. CASE SenseBegin
  BY <1>3, SenseBeginKeeps
<1>4. CASE ReadLine
  BY <1>4, ReadLineKeeps
<1>5. CASE SenseEnd
  BY <1>5, SenseEndKeeps
<1>6. CASE Reset
  BY <1>6, ResetKeeps
<1>7. CASE UNCHANGED vars
  BY <1>7, StutterKeeps
<1>8. QED
  BY <1>1, <1>2, <1>3, <1>4, <1>5, <1>6, <1>7 DEF Next

LEMMA InvInvariant == Spec => []Inv
BY InitInv, InvKept, PTL DEF Spec

-----------------------------------------------------------------------------
(* What the invariant says                                                 *)

LEMMA InvTypes == Inv => TypeOK
BY DEF Inv, TypeInv, ReadInv, DeliveryInv, Texts, TypeOK

\* Every variable has its type.
THEOREM SensorTypes == Spec => []TypeOK
BY InvInvariant, InvTypes, PTL

\* No line is read twice, even when the file is begun anew below the sensor.
THEOREM SensorReadsOnce == Spec => []NoLineTwice
<1>1. Inv => NoLineTwice
  BY DEF Inv, ReadInv
<1>2. QED
  BY <1>1, InvInvariant, PTL

\* A complete line in the file: where it ends, and what its number is
LEMMA CompleteLine ==
  ASSUME TypeInv, NEW n \in Complete
  PROVE  /\ n \in 1..MaxLines /\ Whole(n)[1] = n
         /\ \E j \in 2..Len(file) : EndsLine(j) /\ n = file[j - 1]
<1>1. PICK j \in 2..Len(file) : file[j] = Newline /\ file[j - 1] # Newline /\ n = file[j - 1]
  BY DEF Complete
<1>2. j - 1 \in 1..Len(file) /\ Len(file) \in Nat
  BY FileUnits
<1>3. n \in 1..MaxLines
  BY <1>1, <1>2, FileUnits, Numbers
<1>4. 1 \in 1..LineLen
  BY Numbers
<1>5. Whole(n)[1] = n
  BY <1>4 DEF Whole
<1>6. QED
  BY <1>1, <1>3, <1>5 DEF EndsLine

LEMMA InvReadsInOrder == Inv => LinesReadInOrder
<1> SUFFICES ASSUME Inv PROVE LinesReadInOrder
  OBVIOUS
<1>1. TypeInv /\ FileInv /\ ReadInv /\ CleanInv /\ DeliveryInv
  BY DEF Inv
<1>2. Len(file) \in Nat /\ pos \in Nat /\ Len(read) \in Nat
  BY <1>1, FileUnits, LenProperties DEF ReadInv
<1>3. ASSUME clean, NEW i \in 1..Len(read)
      PROVE  \E n \in Complete : read[i] = Whole(n)
  <2>1. PICK j \in 2..pos : EndsLine(j) /\ read[i] = Whole(file[j - 1])
    BY <1>1, <1>3 DEF CleanInv
  <2>2. j \in 2..Len(file)
    BY <1>1, <1>2, <1>3 DEF CleanInv
  <2>3. file[j - 1] \in Complete
    BY <2>1, <2>2 DEF Complete, EndsLine
  <2>4. QED
    BY <2>1, <2>3
<1>4. ASSUME clean, NEW i \in 1..Len(read), NEW n \in Complete, n < read[i][1]
      PROVE  \E k \in 1..(i - 1) : read[k] = Whole(n)
  <2>1. PICK j \in 2..Len(file) : EndsLine(j) /\ n = file[j - 1]
    BY <1>1, CompleteLine
  <2>2. n \in Nat /\ Whole(n)[1] = n /\ read[i][1] \in Nat
    BY <1>1, CompleteLine, ReadTexts
  <2>3. j <= pos
    <3>1. ASSUME j > pos
          PROVE  FALSE
      <4>1. pos # j - 1
        BY <1>1, <1>3, <1>4, <2>1 DEF CleanInv, EndsLine
      <4>2. j - 1 \in (pos + 1)..Len(file) /\ file[j - 1] # Newline
        BY <1>2, <2>1, <3>1, <4>1 DEF EndsLine
      <4>3. read[i][1] < file[j - 1]
        BY <1>1, <4>2 DEF ReadInv
      <4>4. QED
        BY <1>4, <2>1, <2>2, <4>3
    <3>2. QED
      BY <1>2, <3>1
  <2>4. PICK k \in 1..Len(read) : read[k] = Whole(n)
    BY <1>1, <1>2, <1>4, <2>1, <2>3 DEF CleanInv
  <2>5. k < i
    <3>1. read[k][1] < read[i][1] /\ read[k][1] \in Nat
      BY <1>4, <2>2, <2>4
    <3>2. ~(i < k) /\ i # k
      BY <1>1, <2>2, <3>1 DEF ReadInv, NoLineTwice
    <3>3. QED
      BY <1>2, <3>2
  <2>6. QED
    BY <1>2, <2>4, <2>5
<1>5. QED
  BY <1>1, <1>3, <1>4 DEF LinesReadInOrder, DeliveryInv

\* While the file only grows, the lines that were read are the first complete lines of the
\* file, whole and in order, and each was delivered or skipped.
THEOREM SensorReadsInOrder == Spec => []LinesReadInOrder
BY InvInvariant, InvReadsInOrder, PTL

\* Where nothing more is to be read, all that is complete has been read.
LEMMA NothingLeft ==
  ASSUME Inv, clean, Ends = {}, NEW n \in Complete
  PROVE  \E i \in 1..Len(read) : read[i] = Whole(n)
<1>1. PICK j \in 2..Len(file) : EndsLine(j) /\ n = file[j - 1]
  BY CompleteLine DEF Inv
<1>2. j \in 2..pos
  <2>1. Len(file) \in Nat /\ pos \in Nat
    BY FileUnits DEF Inv
  <2>2. j \notin (pos + 1)..Len(file)
    BY <1>1 DEF Ends, EndsLine
  <2>3. QED
    BY <2>1, <2>2
<1>3. QED
  BY <1>1, <1>2 DEF Inv, CleanInv

\* No call of do_sense() leaves a complete line behind, wherever the writer is.
THEOREM SensorPassReadsAll == Spec => PassReadsAll
<1> DEFINE AllRead == \A n \in Complete : \E i \in 1..Len(read) : read[i] = Whole(n)
<1>1. ASSUME Inv, SenseBegin, clean, stream' # "good"
      PROVE  AllRead
  <2>1. pos = fpos /\ fpos = Len(file) /\ Len(file) \in Nat
    BY <1>1, FileUnits DEF Inv, ReadInv, SenseBegin, Open
  <2>2. Ends = {}
    BY <2>1 DEF Ends
  <2>3. QED
    BY <1>1, <2>2, NothingLeft
<1>2. ASSUME Inv, ReadLine, clean, stream' # "good"
      PROVE  AllRead
  <2>1. Ends = {}
    BY <1>2 DEF ReadLine
  <2>2. QED
    BY <1>2, <2>1, NothingLeft
<1>3. ASSUME Inv, Next, clean, pc' = "loop", stream' # "good", <<pc, stream>>' # <<pc, stream>>
      PROVE  AllRead
  <2>1. CASE BeginFile \/ Write \/ SenseEnd \/ Reset
    BY <1>3, <2>1 DEF BeginFile, Write, SenseEnd, Reset
  <2>2. QED
    BY <1>1, <1>2, <1>3, <2>1 DEF Next
<1>4. Inv /\ [Next]_vars =>
        [clean /\ pc' = "loop" /\ stream' # "good" => AllRead]_<<pc, stream>>
  BY <1>3 DEF vars
<1>5. QED
  BY <1>4, InvInvariant, PTL DEF Spec, PassReadsAll
=============================================================================
