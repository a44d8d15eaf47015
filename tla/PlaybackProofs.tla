--------------------------- MODULE PlaybackProofs ---------------------------
(***************************************************************************)
(* What a recording looks like on disk, for every MAX_PLAYBACK_EVENTS and  *)
(* every number of events: as long as the signal handler does not          *)
(* interrupt a record, the file is never damaged and every record has its  *)
(* place, at every step of playbackRecordEvent and of the handler.         *)
(***************************************************************************)
EXTENDS Playback, FiniteSetTheorems, SequenceTheorems, WellFoundedInduction, TLAPS

MAX == MAX_PLAYBACK_EVENTS

(* The length of the file after n events and the event at its i-th place: up
   to MAX events in order; then the newer ones from the front over the older
   ones; and from twice MAX on in order again, and growing. *)
layoutLen(n) == IF n <= MAX THEN n ELSE IF n <= 2 * MAX THEN MAX ELSE n - MAX
layout(n, i) == IF i <= n - MAX THEN i + MAX ELSE i
HasLayout(f, n) ==
    Len(f) = layoutLen(n) /\ \A i \in 1 .. Len(f) : f[i] = layout(n, i)

(* The engine thread has an event and its record is not in the file yet. *)
recording == epc \in {"test", "seek", "write"}
(* Events of which a record has been written. *)
inFile == IF recording THEN made - 1 ELSE made

(* The first record was overwritten out of turn, by the newest event. *)
Overwrote ==
    /\ Len(file) = layoutLen(made - 1) /\ Len(file) > 0
    /\ file[1] = made
    /\ \A i \in 2 .. Len(file) : file[i] = layout(made - 1, i)

(* What is in a file that is not damaged follows from the number of events,
   but for the first record if the signal handler interrupted the last one. *)
RingLayout ==
    ~damaged => \/ HasLayout(file, inFile)
                \/ raced /\ ~recording /\ Overwrote

Types ==
    /\ file \in Seq(Int)
    /\ made \in Nat
    /\ hpc \in {"none", "fill", "seek", "write", "exit"}
    /\ epc \in {"idle", "test", "seek", "write", "flush", "gone"}

(* At most the event being recorded has not been counted. *)
Counted ==
    /\ event_cnt = IF epc = "idle" THEN made ELSE made - 1
    /\ event_cnt \in Nat

(* Where the stream is: behind the record written last, or at the front once
   the engine thread has sent it there; and after the handler has moved it,
   at the start of the file or behind the header. *)
WriterPosition ==
    /\ phase = "record" /\ hpc \in {"none", "fill", "seek"} =>
         pos = IF inFile < MAX \/ (inFile = MAX /\ epc # "write")
               THEN inFile ELSE inFile - MAX
    /\ phase = "record" /\ hpc \in {"write", "exit"} /\ recording =>
         pos \in {StartOfFile, 0}
    /\ epc = "seek" => event_cnt = MAX

(* The handler and a record exclude each other unless the handler came in
   between, and then raced says so. *)
Exclusion ==
    /\ hpc = "none" => ~raced /\ epc # "gone"
    /\ hpc # "none" /\ ~raced => epc = "idle"
    /\ phase = "record" /\ hpc = "write" /\ ~raced => pos = StartOfFile

IInv == /\ Types /\ RingLayout /\ Counted /\ WriterPosition /\ Exclusion
        /\ OnlyRacesDamage
-----------------------------------------------------------------------------
(* What overwriting a record does to a file of records. *)
LEMMA Overwritten ==
    ASSUME NEW f \in Seq(Int), NEW k \in 1 .. Len(f), NEW v \in Int,
           NEW g, g = [f EXCEPT ![k] = v]
    PROVE  /\ g \in Seq(Int) /\ Len(g) = Len(f)
           /\ \A i \in 1 .. Len(f) : g[i] = IF i = k THEN v ELSE f[i]
OBVIOUS

(* What appending a record does to it. *)
LEMMA Appended ==
    ASSUME NEW f \in Seq(Int), NEW v \in Int, NEW g, g = Append(f, v)
    PROVE  /\ g \in Seq(Int) /\ Len(g) = Len(f) + 1
           /\ \A i \in 1 .. Len(f) : g[i] = f[i]
           /\ g[Len(f) + 1] = v
OBVIOUS

(* Event n + 1, written where the engine thread stands after n events, turns
   the layout of n events into that of n + 1. *)
LEMMA NextRecord ==
    ASSUME NEW f \in Seq(Int), NEW n \in Nat, HasLayout(f, n),
           NEW p, p = IF n < MAX THEN n ELSE n - MAX
    PROVE  /\ written(f, p, n + 1) \in Seq(Int)
           /\ HasLayout(written(f, p, n + 1), n + 1)
<1> USE MaxAssumption DEF MAX
<1> DEFINE g == written(f, p, n + 1)
<1>1. CASE p < Len(f)
  <2>1. /\ MAX <= n /\ p = n - MAX /\ p \in Nat /\ p + 1 \in 1 .. Len(f)
        /\ Len(f) = MAX /\ n < 2 * MAX
    BY <1>1 DEF HasLayout, layoutLen
  <2>2. g = [f EXCEPT ![p + 1] = n + 1]
    BY <1>1 DEF written
  <2> HIDE DEF g
  <2>3. /\ g \in Seq(Int) /\ Len(g) = Len(f)
        /\ \A i \in 1 .. Len(f) : g[i] = IF i = p + 1 THEN n + 1 ELSE f[i]
    BY <2>1, <2>2, Overwritten
  <2>4. Len(g) = layoutLen(n + 1)
    BY <2>1, <2>3 DEF layoutLen
  <2>5. ASSUME NEW i \in 1 .. Len(g) PROVE g[i] = layout(n + 1, i)
    <3>1. g[i] = IF i = p + 1 THEN n + 1 ELSE layout(n, i)
      BY <2>3 DEF HasLayout
    <3> QED
      BY <2>1, <2>3, <3>1 DEF layout
  <2> QED
    BY <2>3, <2>4, <2>5 DEF HasLayout, g
<1>2. CASE ~(p < Len(f))
  <2>1. /\ p = Len(f) /\ Len(f) \in Nat
        /\ n < MAX \/ n >= 2 * MAX
    BY <1>2 DEF HasLayout, layoutLen
  <2>2. g = Append(f, n + 1)
    BY <1>2 DEF written
  <2> HIDE DEF g
  <2>3. /\ g \in Seq(Int) /\ Len(g) = Len(f) + 1
        /\ \A i \in 1 .. Len(f) : g[i] = f[i]
        /\ g[Len(f) + 1] = n + 1
    BY <2>2, Appended
  <2>4. Len(g) = layoutLen(n + 1)
    <3>1. Len(f) = layoutLen(n) /\ MAX \in Nat /\ n \in Nat /\ Len(f) \in Nat
      BY <2>1 DEF HasLayout
    <3>2. CASE n < MAX
      BY ONLY <2>3, <3>1, <3>2 DEF layoutLen
    <3>3. CASE n >= 2 * MAX
      BY ONLY <2>3, <3>1, <3>3 DEF layoutLen
    <3> QED
      BY <2>1, <3>2, <3>3
  <2>5. ASSUME NEW i \in 1 .. Len(g) PROVE g[i] = layout(n + 1, i)
    <3>1. CASE i = Len(f) + 1
      BY <2>1, <2>3, <3>1 DEF layout
    <3>2. CASE i \in 1 .. Len(f)
      <4>1. g[i] = layout(n, i)
        BY <2>3, <3>2 DEF HasLayout
      <4> QED
        BY <2>1, <3>2, <4>1 DEF layout
    <3> QED
      BY <2>1, <2>3, <3>1, <3>2
  <2> QED
    BY <2>3, <2>4, <2>5 DEF HasLayout, g
<1> QED
  BY <1>1, <1>2

(* The same record, written over the first one instead. *)
LEMMA FirstRecord ==
    ASSUME NEW f \in Seq(Int), NEW n \in Nat, HasLayout(f, n),
           NEW g, g = written(f, 0, n + 1)
    PROVE  \/ HasLayout(g, n + 1)
           \/ /\ Len(g) = layoutLen(n) /\ Len(g) > 0
              /\ g[1] = n + 1
              /\ \A i \in 2 .. Len(g) : g[i] = layout(n, i)
<1> USE MaxAssumption DEF MAX
<1>1. CASE Len(f) = 0
  <2>1. n = 0
    BY <1>1 DEF HasLayout, layoutLen
  <2> QED
    BY <2>1, NextRecord
<1>2. CASE Len(f) > 0
  <2>1. g = [f EXCEPT ![1] = n + 1]
    BY <1>2 DEF written
  <2>2. /\ g \in Seq(Int) /\ Len(g) = Len(f)
        /\ \A i \in 1 .. Len(f) : g[i] = IF i = 1 THEN n + 1 ELSE f[i]
    BY <1>2, <2>1, Overwritten
  <2>3. /\ Len(g) = layoutLen(n) /\ Len(g) > 0 /\ g[1] = n + 1
        /\ \A i \in 2 .. Len(g) : g[i] = layout(n, i)
    BY <1>2, <2>2 DEF HasLayout
  <2> QED
    BY <2>3
<1> QED
  BY <1>1, <1>2

(* playbackFileInit leaves an empty ring behind the header. *)
LEMMA InitIInv == Init => IInv
<1> SUFFICES ASSUME Init PROVE IInv
  OBVIOUS
<1> USE MaxAssumption DEF Init
<1>1. Types
  BY DEF Types
<1>2. RingLayout
  BY DEF RingLayout, HasLayout, layoutLen, layout, inFile, recording, MAX
<1>3. Counted /\ WriterPosition
  BY DEF WriterPosition, Counted, inFile, recording, MAX
<1>4. Exclusion /\ OnlyRacesDamage
  BY DEF Exclusion, OnlyRacesDamage
<1> QED
  BY <1>1, <1>2, <1>3, <1>4 DEF IInv

(* The one step that changes the file of a recording: the record goes where
   the layout has its place, or, if the handler has been there, over the first
   record or into the header. *)
LEMMA WriteStep == IInv /\ recordWrite => IInv'
<1> SUFFICES ASSUME IInv, recordWrite PROVE IInv'
  OBVIOUS
<1> USE MaxAssumption DEF MAX, IInv, Types
<1>1. /\ phase = "record" /\ epc = "write" /\ epc' = "flush"
      /\ UNCHANGED <<made, event_cnt, hpc, raced, phase>>
  BY DEF recordWrite, handlerVars
<1>2. /\ recording /\ ~recording' /\ inFile = made - 1 /\ inFile' = made
      /\ made - 1 \in Nat /\ event_cnt = made - 1
  BY <1>1 DEF recording, inFile, Counted
<1>3. Counted' /\ (hpc = "none" => ~raced)
  BY <1>1 DEF Counted, Exclusion
<1>4. CASE pos = StartOfFile
  <2>1. damaged' /\ file' = file /\ pos' = pos
    BY <1>4 DEF recordWrite
  <2>2. raced /\ hpc \in {"write", "exit"}
    BY <1>1, <1>2, <1>4 DEF WriterPosition, Exclusion, StartOfFile
  <2> QED
    BY <1>1, <1>2, <1>3, <2>1, <2>2
       DEF RingLayout, WriterPosition, Exclusion, OnlyRacesDamage
<1>5. CASE pos # StartOfFile
  <2>1. /\ file' = written(file, pos, (made - 1) + 1) /\ pos' = pos + 1
        /\ damaged' = damaged
    BY <1>2, <1>5 DEF recordWrite
  <2>2. ~damaged => HasLayout(file, made - 1)
    BY <1>2 DEF RingLayout
  <2>3. OnlyRacesDamage'
    BY <1>1, <2>1 DEF OnlyRacesDamage
  <2>4. file' \in Seq(Int)
    <3>1. pos \in Nat
      BY <1>1, <1>2, <1>5 DEF WriterPosition, StartOfFile
    <3>2. CASE pos < Len(file)
      BY <2>1, <3>1, <3>2, Overwritten DEF written
    <3>3. CASE ~(pos < Len(file))
      BY <2>1, <3>3, Appended DEF written
    <3> QED
      BY <3>2, <3>3
  <2>5. CASE hpc \in {"none", "fill", "seek"}
    <3>1. pos = IF made - 1 < MAX THEN made - 1 ELSE (made - 1) - MAX
      BY <1>1, <1>2, <2>5 DEF WriterPosition
    <3>2. ~damaged => HasLayout(file', made)
      BY <1>2, <2>1, <2>2, <3>1, NextRecord
    <3>3. RingLayout'
      BY <1>2, <2>1, <3>2 DEF RingLayout, HasLayout, layoutLen, layout
    <3>4. WriterPosition'
      BY <1>1, <1>2, <2>1, <2>5, <3>1 DEF WriterPosition
    <3> QED
      BY <1>1, <1>3, <2>3, <2>4, <2>5, <3>3, <3>4 DEF Exclusion
  <2>6. CASE hpc \in {"write", "exit"}
    <3>1. pos = 0 /\ raced
      BY <1>1, <1>2, <1>5, <2>6 DEF WriterPosition, Exclusion
    <3>2. ASSUME ~damaged PROVE HasLayout(file', made) \/ Overwrote'
      <4>1. /\ HasLayout(file, made - 1)
            /\ file' = written(file, 0, (made - 1) + 1)
        BY <2>1, <2>2, <3>1, <3>2
      <4>2. \/ HasLayout(file', (made - 1) + 1)
            \/ /\ Len(file') = layoutLen(made - 1) /\ Len(file') > 0
               /\ file'[1] = (made - 1) + 1
               /\ \A i \in 2 .. Len(file') : file'[i] = layout(made - 1, i)
        BY ONLY <1>2, <4>1, FirstRecord, IInv DEF IInv, Types
      <4> QED
        BY <1>1, <1>2, <4>2 DEF Overwrote, layoutLen, layout
    <3>3. RingLayout'
      BY <1>1, <1>2, <2>1, <3>1, <3>2
         DEF RingLayout, HasLayout, layoutLen, layout
    <3>4. WriterPosition'
      BY <1>1, <1>2, <2>6 DEF WriterPosition
    <3> QED
      BY <1>1, <1>3, <2>3, <2>4, <2>6, <3>1, <3>3, <3>4 DEF Exclusion
  <2> QED
    BY <2>5, <2>6
<1> QED
  BY <1>4, <1>5

(* A step that leaves the file and the writer alone keeps the layout. *)
LEMMA FileKept ==
    ASSUME IInv, UNCHANGED <<file, damaged, made, epc>>, raced => raced'
    PROVE  RingLayout'
<1>1. inFile' = inFile /\ recording' = recording
  BY DEF inFile, recording
<1> QED
  BY <1>1 DEF IInv, RingLayout, HasLayout, Overwrote, layoutLen, layout, MAX

(* Every other step of the engine thread moves the stream or counts. *)
LEMMA EngineStep ==
    IInv /\ (engineIO \/ recordTest \/ recordSeek \/ recordEnd) => IInv'
<1> SUFFICES ASSUME IInv, engineIO \/ recordTest \/ recordSeek \/ recordEnd
             PROVE  IInv'
  OBVIOUS
<1> USE MaxAssumption DEF MAX, IInv, Types, fileVars, handlerVars
<1>1. file' = file /\ damaged' = damaged /\ UNCHANGED <<hpc, raced, phase>>
  BY DEF engineIO, recordTest, recordSeek, recordEnd
<1>2. Types'
  BY <1>1 DEF engineIO, recordTest, recordSeek, recordEnd
<1>3. OnlyRacesDamage'
  BY <1>1 DEF OnlyRacesDamage
<1>4. Counted' /\ inFile' = inFile
  BY DEF engineIO, recordTest, recordSeek, recordEnd, Counted, inFile,
         recording
<1>5. RingLayout'
  <2>1. CASE engineIO
    <3>1. ~raced
      BY <2>1 DEF engineIO, Exclusion, cancelled
    <3> QED
      BY <1>1, <1>4, <3>1 DEF RingLayout, HasLayout, layoutLen, layout
  <2>2. CASE recordTest \/ recordSeek
    <3>1. recording
      BY <2>2 DEF recordTest, recordSeek, recording
    <3> QED
      BY <1>1, <1>4, <3>1 DEF RingLayout, HasLayout, layoutLen, layout
  <2>3. CASE recordEnd
    <3>1. ~recording' /\ made' = made
      BY <2>3 DEF recordEnd, recording
    <3> QED
      BY <1>1, <1>4, <3>1
         DEF RingLayout, HasLayout, Overwrote, layoutLen, layout
  <2> QED
    BY <2>1, <2>2, <2>3
<1>6. WriterPosition'
  <2> USE DEF WriterPosition, Counted, inFile, recording
  <2>1. CASE engineIO
    <3>1. hpc = "none" /\ pos' = pos /\ epc = "idle" /\ epc' = "test"
      BY <2>1 DEF engineIO, cancelled
    <3> QED
      BY <1>1, <1>4, <3>1
  <2>2. CASE recordTest
    <3>1. /\ pos' = pos /\ event_cnt' = event_cnt /\ epc = "test"
          /\ epc' = IF event_cnt = MAX THEN "seek" ELSE "write"
      BY <2>2 DEF recordTest
    <3> QED
      BY <1>1, <1>4, <3>1
  <2>3. CASE recordSeek
    <3>1. /\ pos' = 0 /\ event_cnt' = event_cnt /\ event_cnt = MAX
          /\ epc = "seek" /\ epc' = "write"
      BY <2>3 DEF recordSeek
    <3>2. inFile = event_cnt
      BY <3>1
    <3>3. MAX \in Nat \ {0} /\ MAX - MAX = 0
      BY ONLY MaxAssumption DEF MAX
    <3> HIDE DEF inFile, MAX
    <3> QED
      BY <1>1, <1>4, <3>1, <3>2, <3>3
  <2>4. CASE recordEnd
    <3>1. pos' = pos /\ epc = "flush" /\ epc' \in {"idle", "gone"}
      BY <2>4 DEF recordEnd
    <3> QED
      BY <1>1, <1>4, <3>1
  <2> QED
    BY <2>1, <2>2, <2>3, <2>4
<1>7. Exclusion'
  BY <1>1
     DEF engineIO, recordTest, recordSeek, recordEnd, Exclusion, cancelled
<1> QED
  BY <1>2, <1>3, <1>4, <1>5, <1>6, <1>7

(* The signal handler does not touch the records; it damages the file only if
   the engine thread has moved the stream between its seek and its write. *)
LEMMA HandlerStep == IInv /\ (handleSignal \/ Handler) => IInv'
<1> SUFFICES ASSUME IInv, handleSignal \/ Handler PROVE IInv'
  OBVIOUS
<1> USE MaxAssumption
    DEF MAX, IInv, Types, fileVars, engineVars, handlerVars, Handler
<1>1. file' = file /\ UNCHANGED <<made, event_cnt, epc>>
  BY DEF handleSignal, shutdownFill, shutdownSeek, shutdownWrite, exit
<1>2. inFile' = inFile /\ recording' = recording
  BY <1>1 DEF inFile, recording
<1>3. Types' /\ Counted'
  BY <1>1 DEF handleSignal, shutdownFill, shutdownSeek, shutdownWrite, exit,
              Counted
<1>4. CASE handleSignal
  <2>1. ~raced /\ damaged' = damaged /\ UNCHANGED <<pos, phase>>
    BY <1>4 DEF handleSignal, Exclusion
  <2>2. RingLayout'
    BY <1>1, <2>1, FileKept
  <2>3. hpc = "none" /\ hpc' = "fill" /\ (~raced' => epc = "idle")
    BY <1>4 DEF handleSignal
  <2>4. WriterPosition'
    BY <1>1, <1>2, <2>1, <2>3 DEF WriterPosition
  <2>5. Exclusion' /\ OnlyRacesDamage'
    BY <1>1, <2>1, <2>3 DEF Exclusion, OnlyRacesDamage
  <2> QED
    BY <1>3, <2>2, <2>4, <2>5
<1>5. CASE shutdownFill \/ shutdownSeek \/ exit
  <2>1. damaged' = damaged /\ raced' = raced
    BY <1>5 DEF shutdownFill, shutdownSeek, exit
  <2>2. RingLayout' /\ OnlyRacesDamage'
    BY <1>1, <2>1, FileKept DEF OnlyRacesDamage
  <2> QED
    BY <1>1, <1>2, <1>3, <1>5, <2>1, <2>2
       DEF shutdownFill, shutdownSeek, exit, WriterPosition, Exclusion
<1>6. CASE shutdownWrite
  <2>1. raced' = raced /\ phase' = phase /\ hpc' = "exit"
    BY <1>6 DEF shutdownWrite
  <2>2. CASE pos = StartOfFile
    <3>1. damaged' = damaged /\ pos' = 0
      BY <1>6, <2>2 DEF shutdownWrite
    <3>2. RingLayout' /\ OnlyRacesDamage'
      BY <1>1, <2>1, <3>1, FileKept DEF OnlyRacesDamage
    <3> QED
      BY <1>1, <1>2, <1>3, <1>6, <2>1, <3>1, <3>2
         DEF shutdownWrite, WriterPosition, Exclusion
  <2>3. CASE pos # StartOfFile
    <3>1. damaged' /\ pos' = pos /\ raced
      BY <1>6, <2>3 DEF shutdownWrite, Exclusion
    <3> QED
      BY <1>1, <1>2, <1>3, <1>6, <2>1, <3>1
         DEF shutdownWrite, WriterPosition, Exclusion, OnlyRacesDamage,
             RingLayout
  <2> QED
    BY <2>2, <2>3
<1> QED
  BY <1>4, <1>5, <1>6

(* After a crash, and while another peepd plays the file, nobody writes. *)
LEMMA ReaderStep == IInv /\ (crash \/ playbackGo \/ Player) => IInv'
<1> SUFFICES ASSUME IInv, crash \/ playbackGo \/ Player PROVE IInv'
  OBVIOUS
<1> USE DEF IInv, Types, fileVars, engineVars, handlerVars
<1>1. /\ UNCHANGED <<file, damaged, made, event_cnt, epc, hpc, raced>>
      /\ phase' # "record"
  BY DEF crash, playbackGo, Player, playRecord, playRewind, playAgain,
         loopEnd
<1>2. RingLayout'
  BY <1>1, FileKept
<1>3. Counted' /\ WriterPosition' /\ Exclusion' /\ OnlyRacesDamage'
  BY <1>1 DEF Counted, WriterPosition, Exclusion, OnlyRacesDamage, recording
<1> QED
  BY <1>1, <1>2, <1>3

(* The layout and what protects it hold in every state. *)
THEOREM Layout == Spec => []IInv
<1>1. IInv /\ [Next]_vars => IInv'
  <2> SUFFICES ASSUME IInv, [Next]_vars PROVE IInv'
    OBVIOUS
  <2>1. CASE UNCHANGED vars
    <3>1. RingLayout'
      BY <2>1, FileKept
         DEF vars, fileVars, engineVars, handlerVars
    <3> QED
      BY <2>1, <3>1
         DEF vars, fileVars, engineVars, handlerVars, IInv, Types, Counted,
             WriterPosition, Exclusion, OnlyRacesDamage, inFile, recording
  <2>2. CASE Next
    BY <2>2, WriteStep, EngineStep, HandlerStep, ReaderStep DEF Next, Engine
  <2> QED
    BY <2>1, <2>2
<1> QED
  BY <1>1, InitIInv, PTL DEF Spec

(* playbackFileShutdown damages the file only if the signal came while the
   engine thread was in the middle of a record. *)
THEOREM DamageNeedsRace == Spec => []OnlyRacesDamage
<1>1. IInv => OnlyRacesDamage
  BY DEF IInv
<1> QED
  BY <1>1, Layout, PTL

(* Where the layout of n events has an event that is among the newest. *)
LEMMA Place ==
    ASSUME NEW n \in Nat, NEW e \in 1 .. n, e > n - MAX
    PROVE  \E i \in 1 .. layoutLen(n) : layout(n, i) = e
<1> USE MaxAssumption DEF MAX, layoutLen, layout
<1>1. CASE e <= MAX
  <2>1. e \in 1 .. layoutLen(n) /\ layout(n, e) = e
    BY <1>1
  <2> QED
    BY ONLY <2>1
<1>2. CASE e > MAX
  <2>1. e - MAX \in 1 .. layoutLen(n) /\ layout(n, e - MAX) = e
    BY <1>2
  <2> QED
    BY ONLY <2>1
<1> QED
  BY <1>1, <1>2

(* At most one of the newest events is missing from a file that is not
   damaged, and none if no record was interrupted. *)
LEMMA Missing ==
    ASSUME IInv, ~damaged
    PROVE  \/ newest \ records = {}
           \/ raced /\ \E x : newest \ records \subseteq {x}
<1> USE MaxAssumption DEF MAX
<1>0. /\ made \in Nat /\ event_cnt \in Nat
      /\ event_cnt = made \/ event_cnt = made - 1
      /\ inFile = made \/ (inFile = made - 1 /\ event_cnt = made - 1)
  BY DEF IInv, Types, Counted, inFile, recording
<1>1. CASE HasLayout(file, inFile)
  <2>1. ASSUME NEW e \in newest PROVE e \in records
    <3>1. /\ inFile \in Nat /\ e \in 1 .. inFile /\ e > inFile - MAX
      BY <1>0 DEF newest
    <3>2. PICK i \in 1 .. layoutLen(inFile) : layout(inFile, i) = e
      BY <3>1, Place
    <3> QED
      BY <1>1, <3>2 DEF HasLayout, records
  <2> QED
    BY <2>1
<1>2. CASE raced /\ ~recording /\ Overwrote
  <2>0. Len(file) = layoutLen(made - 1) /\ Len(file) > 0 /\ file[1] = made
    BY <1>2 DEF Overwrote
  <2>1. ASSUME NEW e \in newest, e \notin records
        PROVE  e = layout(made - 1, 1)
    <3>1. e # made
      <4>1. 1 \in 1 .. Len(file)
        BY <2>0 DEF IInv, Types
      <4> QED
        BY <2>0, <2>1, <4>1 DEF records
    <3>2. made - 1 \in Nat /\ e \in 1 .. made - 1 /\ e > (made - 1) - MAX
      BY <1>0, <3>1 DEF newest
    <3>3. PICK i \in 1 .. layoutLen(made - 1) : layout(made - 1, i) = e
      BY <3>2, Place
    <3>4. i \in 2 .. Len(file) => file[i] = e
      BY <1>2, <3>3 DEF Overwrote
    <3>5. i \in 1 .. Len(file) /\ file[i] # e
      BY <2>0, <2>1, <3>3 DEF records
    <3>6. i = 1
      BY <3>4, <3>5 DEF IInv, Types
    <3> QED
      BY <3>3, <3>6
  <2> QED
    BY <1>2, <2>1
<1> QED
  BY <1>1, <1>2 DEF IInv, RingLayout

(* However many events are recorded, and wherever a crash or the signal handler
   stops playbackRecordEvent, the file has the newest MAX_PLAYBACK_EVENTS, or
   all but one of them if the handler interrupted a record. *)
THEOREM RingKeepsNewest == Spec => []NewestKept
<1>1. IInv => NewestKept
  <2> SUFFICES ASSUME IInv, ~damaged
               PROVE  Cardinality(newest \ records) <= (IF raced THEN 1 ELSE 0)
    BY DEF NewestKept
  <2>1. CASE newest \ records = {}
    BY <2>1, FS_EmptySet
  <2>2. CASE raced /\ \E x : newest \ records \subseteq {x}
    <3>1. PICK x : newest \ records \subseteq {x}
      BY <2>2
    <3>2. IsFiniteSet({x}) /\ Cardinality({x}) = 1
      BY FS_Singleton
    <3>3. /\ Cardinality(newest \ records) <= Cardinality({x})
      BY <3>1, <3>2, FS_Subset
    <3> QED
      BY <2>2, <3>2, <3>3
  <2> QED
    BY <2>1, <2>2, Missing
<1> QED
  BY <1>1, Layout, PTL

-----------------------------------------------------------------------------
(* What is on disk and where the stream is, in numbers.                    *)
Bounded ==
    /\ TypeOK
    /\ Len(file) <= inFile
    /\ closing.start_pos \in 0 .. Len(file) /\ header.start_pos \in 0 .. Len(file)
    /\ phase \in {"play", "exited"} => pos \in Nat
    /\ phase \in {"record", "stopped"} => start = None /\ heard = <<>>

(* A set of numbers that is not empty has a smallest one.                  *)
LEMMA SmallestBelow ==
    ASSUME NEW T \in SUBSET Nat, T # {}
    PROVE  \E z \in T : \A y \in T : z <= y
<1> DEFINE R == OpToRel(<, Nat)
<1>1. R = {p \in Nat \X Nat : p[1] < p[2]}
  BY DEF OpToRel
<1>2. IsWellFoundedOn(R, Nat)
  BY NatLessThanWellFounded
<1> HIDE DEF R
<1>3. PICK x \in T : \A y \in T : ~(<<y, x>> \in R)
  BY <1>2, WFMin
<1>4. \A y \in T : ~(y < x)
  BY <1>1, <1>3
<1> QED
  BY <1>4

LEMMA Smallest ==
    ASSUME NEW T \in SUBSET Nat, T # {}
    PROVE  Min(T) \in T
<1>1. \E z \in T : \A y \in T : z <= y
  BY SmallestBelow
<1> QED
  BY <1>1, Zenon DEF Min

(* The searches of playback end at a record, or find none.                 *)
LEMMA FirstOffsetTyped ==
    ASSUME Len(file) \in Nat, NEW p \in 0 .. Len(file)
    PROVE  /\ playbackFindFirstOffset(p) \in 0 .. Len(file)
           /\ p < Len(file) => playbackFindFirstOffset(p) < Len(file)
<1> DEFINE earlier == {i \in p + 1 .. Len(file) - 1 : file[i + 1] < file[p + 1]}
<1>1. playbackFindFirstOffset(p) = IF earlier = {} THEN p ELSE Min(earlier)
  BY DEF playbackFindFirstOffset
<1>2. CASE earlier = {}
  BY <1>1, <1>2
<1>3. CASE earlier # {}
  <2>1. earlier \in SUBSET Nat /\ \A i \in earlier : i \in p + 1 .. Len(file) - 1
    OBVIOUS
  <2> HIDE DEF earlier
  <2>2. Min(earlier) \in p + 1 .. Len(file) - 1
    BY <1>3, <2>1, Smallest
  <2> QED
    BY <1>1, <1>3, <2>2
<1> QED
  BY <1>2, <1>3

LEMMA FoundTyped ==
    ASSUME Len(file) \in Nat, Len(file) > 0, NEW t, NEW s \in Nat
    PROVE  found(t, s) = None \/ found(t, s) \in 0 .. Len(file) - 1
<1> DEFINE n == Len(file)
           hits == {k \in 0 .. n - 1 : file[((s + k) % n) + 1] >= t}
<1>1. found(t, s) = IF hits = {} THEN None ELSE (s + Min(hits)) % n
  BY DEF found
<1>2. CASE hits # {}
  <2>1. hits \in SUBSET Nat /\ \A k \in hits : k \in Nat
    OBVIOUS
  <2> HIDE DEF hits
  <2>2. Min(hits) \in Nat
    BY <1>2, <2>1, Smallest
  <2>3. (s + Min(hits)) % n \in 0 .. n - 1
    BY <2>2
  <2> QED
    BY <1>1, <1>2, <2>3
<1>3. CASE hits = {}
  BY <1>1, <1>3
<1> QED
  BY <1>2, <1>3

LEMMA WindowTyped ==
    ASSUME Len(file) \in Nat, Len(file) > 0, Len(file) <= MaxEvents,
           NEW from, NEW to, NEW w \in window(from, to)
    PROVE  w[1] \in 0 .. Len(file) - 1 /\ w[2] \in Positions
<1> DEFINE first == playbackFindFirstOffset(0)
           at == found(from, first)
           begin == IF at = None THEN 0 ELSE at
           stream == IF at = None THEN first ELSE at + 1
           notFound == IF first = 0 THEN 0 ELSE begin - 1
           second == playbackFindFirstOffset(stream)
           ends == playbackFindTime(to, second)
           last == IF to = None THEN Positions
                   ELSE {IF q = None THEN notFound ELSE q : q \in ends}
<1>1. w \in {begin} \X last
  BY DEF window
<1>2. first \in 0 .. Len(file) - 1
  BY FirstOffsetTyped
<1> HIDE DEF first
<1>3. at = None \/ at \in 0 .. Len(file) - 1
  BY <1>2, FoundTyped
<1> HIDE DEF at
<1>4. begin \in 0 .. Len(file) - 1 /\ stream \in 0 .. Len(file)
  BY <1>2, <1>3
<1>5. notFound \in Positions
  BY <1>4, MaxEventsAssumption DEF Positions, StartOfFile
<1> HIDE DEF begin, stream, notFound
<1>6. second \in 0 .. Len(file)
  BY <1>4, FirstOffsetTyped
<1> HIDE DEF second
<1>7. \A q \in ends : q = None \/ q \in Positions
  <2>1. 0 .. Len(file) - 1 \subseteq Positions /\ Len(file) - 1 \in Positions
    BY MaxEventsAssumption DEF Positions, StartOfFile
  <2>2. \A q \in ends : q = found(to, second) \/ q = Len(file) - 1
    BY DEF playbackFindTime
  <2>3. found(to, second) = None \/ found(to, second) \in 0 .. Len(file) - 1
    BY <1>6, FoundTyped
  <2> QED
    BY <2>1, <2>2, <2>3
<1> HIDE DEF ends
<1>8. last \subseteq Positions
  BY <1>5, <1>7
<1> HIDE DEF last
<1> QED
  BY <1>1, <1>4, <1>8

Records == 1 .. MaxEvents
Headers == [start_pos : Positions, end_t : Nat, written : 0 .. MaxEvents]

(* What playbackGo decides: the times, where it begins and where it is to  *)
(* end.                                                                    *)
LEMMA Chosen ==
    ASSUME playbackGo
    PROVE  /\ start' \in Times \cup {None} /\ end' \in Times \cup {None}
           /\ pos' = IF start_pos' < Len(file) THEN start_pos' ELSE start_pos' - 1
           /\ start' = None =>
                /\ end' = None /\ end_pos' = StartOfFile
                /\ start_pos' = IF header.end_t # 0 THEN header.start_pos
                                ELSE playbackFindFirstOffset(0)
           /\ start' # None =>
                /\ start' \in Times /\ (end' # None => end' \in Times /\ start' < end')
                /\ \E w \in window(start', end') : start_pos' = w[1] /\ end_pos' = w[2]
<1>2. PICK from \in Times \cup {None} :
      \E to \in IF from = None THEN {None} ELSE (from + 1 .. MaxEvents + 1) \cup {None} :
      \E w \in IF from = None THEN wholeFile ELSE window(from, to) :
          /\ start' = from /\ end' = to
          /\ start_pos' = w[1] /\ end_pos' = w[2]
          /\ pos' = IF w[1] < Len(file) THEN w[1] ELSE w[1] - 1
  BY Zenon DEF playbackGo
<1>3. PICK to \in IF from = None THEN {None} ELSE (from + 1 .. MaxEvents + 1) \cup {None} :
      \E w \in IF from = None THEN wholeFile ELSE window(from, to) :
          /\ start' = from /\ end' = to
          /\ start_pos' = w[1] /\ end_pos' = w[2]
          /\ pos' = IF w[1] < Len(file) THEN w[1] ELSE w[1] - 1
  BY <1>2, Zenon
<1>4. PICK w \in IF from = None THEN wholeFile ELSE window(from, to) :
          /\ start' = from /\ end' = to
          /\ start_pos' = w[1] /\ end_pos' = w[2]
          /\ pos' = IF w[1] < Len(file) THEN w[1] ELSE w[1] - 1
  BY <1>3, Zenon
<1>5. /\ to \in Times \cup {None}
      /\ from # None /\ to # None => to \in Times /\ from < to
      /\ from = None => to = None
  BY <1>2, <1>3, MaxEventsAssumption DEF Times
<1>6. from = None => /\ w[1] = IF header.end_t # 0 THEN header.start_pos
                                ELSE playbackFindFirstOffset(0)
                     /\ w[2] = StartOfFile
  <2>1. from = None => w \in wholeFile
    BY <1>4
  <2> QED
    BY <2>1 DEF wholeFile
<1>7. from # None => w \in window(from, to)
  BY <1>4
<1> QED
  BY <1>2, <1>4, <1>5, <1>6, <1>7

(* Where a playback of any file with records begins.                       *)
LEMMA PlaybackBegins ==
    ASSUME Bounded, playbackGo
    PROVE  /\ {start', end'} \subseteq Times \cup {None}
           /\ start_pos' \in Positions /\ end_pos' \in Positions
           /\ pos' \in 0 .. Len(file)
<1>1. /\ Len(file) \in Nat /\ Len(file) > 0 /\ Len(file) <= MaxEvents
      /\ header.start_pos \in 0 .. Len(file)
  <2>1. file # <<>> /\ file \in Seq(1 .. MaxEvents)
    BY DEF playbackGo, Bounded, TypeOK
  <2>2. Len(file) <= inFile /\ made \in 0 .. MaxEvents /\ inFile <= made
    BY DEF Bounded, TypeOK, inFile
  <2>3. inFile \in Int
    BY <2>2 DEF inFile
  <2>4. header.start_pos \in 0 .. Len(file)
    BY DEF Bounded
  <2>5. Len(file) \in Nat /\ Len(file) > 0
    BY <2>1
  <2> HIDE DEF inFile
  <2> QED
    BY <2>2, <2>3, <2>4, <2>5, MaxEventsAssumption
<1>2. start_pos' \in 0 .. Len(file) /\ end_pos' \in Positions
  <2>1. CASE start' = None
    <3>1. /\ start_pos' \in {header.start_pos, playbackFindFirstOffset(0)}
          /\ end_pos' = StartOfFile
      BY <2>1, Chosen
    <3>2. playbackFindFirstOffset(0) \in 0 .. Len(file)
      BY <1>1, FirstOffsetTyped
    <3>3. StartOfFile \in Positions
      BY MaxEventsAssumption DEF StartOfFile, Positions
    <3> QED
      BY <1>1, <3>1, <3>2, <3>3
  <2>2. CASE start' # None
    <3>1. PICK w \in window(start', end') : start_pos' = w[1] /\ end_pos' = w[2]
      BY <2>2, Chosen
    <3>2. w[1] \in 0 .. Len(file) - 1 /\ w[2] \in Positions
      BY <1>1, WindowTyped
    <3> QED
      BY <1>1, <3>1, <3>2
  <2> QED
    BY <2>1, <2>2
<1>3. /\ start_pos' \in Positions
      /\ (IF start_pos' < Len(file) THEN start_pos' ELSE start_pos' - 1) \in 0 .. Len(file)
  <2>1. PICK p \in 0 .. Len(file) : p = start_pos'
    BY <1>2
  <2>2. p \in Positions /\ (IF p < Len(file) THEN p ELSE p - 1) \in 0 .. Len(file)
    BY <1>1, MaxEventsAssumption DEF Positions, StartOfFile
  <2> QED
    BY <2>1, <2>2
<1> QED
  BY <1>2, <1>3, Chosen

(* Every step keeps the stream inside the file.                            *)
LEMMA BoundedInductive == IInv /\ Bounded /\ [Next]_vars => Bounded'
<1> SUFFICES ASSUME IInv, Bounded, [Next]_vars PROVE Bounded'
  OBVIOUS
<1> USE MaxEventsAssumption DEF fileVars, engineVars, handlerVars, playVars
<1> HIDE DEF IInv, Bounded
<1>t. /\ file \in Seq(Records) /\ header \in Headers /\ closing \in Headers
      /\ pos \in StartOfFile .. Len(file)
      /\ made \in 0 .. MaxEvents /\ event_cnt \in 0 .. made
      /\ heard \in Seq(Records)
  BY DEF Bounded, TypeOK, Records, Headers
<1>u. ASSUME file' \in Seq(Records), header' \in Headers, closing' \in Headers,
             pos' \in StartOfFile .. Len(file'), damaged' \in BOOLEAN,
             made' \in 0 .. MaxEvents, event_cnt' \in 0 .. made',
             heard' \in Seq(Records),
             epc' \in {"idle", "test", "seek", "write", "flush", "gone"},
             hpc' \in {"none", "fill", "seek", "write", "exit"},
             {loopback_flag', raced', replayed'} \subseteq BOOLEAN,
             phase' \in {"record", "stopped", "play", "exited"},
             {start', end'} \subseteq Times \cup {None},
             start_pos' \in Positions, end_pos' \in Positions, errno' \in Errnos
      PROVE  TypeOK'
  BY <1>u DEF TypeOK, Records, Headers
<1>1. CASE engineIO \/ recordTest \/ recordSeek \/ recordEnd
  <2>1. UNCHANGED <<file, header, damaged, closing, hpc, raced, phase, playVars>>
    BY <1>1 DEF engineIO, recordTest, recordSeek, recordEnd
  <2>2. /\ inFile' = inFile
        /\ epc' \in {"idle", "test", "seek", "write", "flush", "gone"}
        /\ loopback_flag' \in BOOLEAN /\ made' \in 0 .. MaxEvents
        /\ event_cnt' \in 0 .. made'
    <3>1. CASE engineIO
      BY <1>t, <3>1 DEF engineIO, inFile, recording, Bounded, TypeOK
    <3>2. CASE recordTest
      BY <1>t, <3>2 DEF recordTest, inFile, recording, Bounded, TypeOK
    <3>3. CASE recordSeek
      BY <1>t, <3>3 DEF recordSeek, inFile, recording, Bounded, TypeOK
    <3>4. CASE recordEnd
      <4>1. event_cnt = made - 1
        BY <3>4 DEF recordEnd, IInv, Counted
      <4> QED
        BY <1>t, <3>4, <4>1 DEF recordEnd, inFile, recording, Bounded, TypeOK
    <3> QED
      BY <1>1, <3>1, <3>2, <3>3, <3>4
  <2>3. pos' \in {pos, 0} /\ phase = "record"
    BY <1>1 DEF engineIO, recordTest, recordSeek, recordEnd
  <2>4. pos' \in StartOfFile .. Len(file)
    <3>1. Len(file) \in Nat
      BY <1>t
    <3> QED
      BY <1>t, <2>3, <3>1 DEF StartOfFile
  <2>5. TypeOK'
    BY <1>t, <1>u, <2>1, <2>2, <2>4 DEF Bounded, TypeOK
  <2> QED
    BY <2>1, <2>2, <2>3, <2>5 DEF Bounded
<1>2. CASE recordWrite
  <2>1. /\ UNCHANGED <<header, made, event_cnt, loopback_flag, closing, hpc, raced,
                       phase, playVars>>
        /\ epc = "write" /\ epc' = "flush" /\ phase = "record"
    BY <1>2 DEF recordWrite
  <2>2. made \in Records /\ inFile = made - 1 /\ inFile' = made
    BY <1>t, <2>1 DEF IInv, Counted, Records, inFile, recording
  <2>3. Len(file) \in Nat /\ Len(file) <= made - 1
    BY <1>t, <2>2 DEF Bounded
  <2>4. /\ file' \in Seq(Records) /\ Len(file') \in Nat /\ Len(file) <= Len(file')
        /\ Len(file') <= made
        /\ pos' \in StartOfFile .. Len(file') /\ damaged' \in BOOLEAN
    <3>1. CASE pos = StartOfFile
      BY <1>2, <1>t, <2>2, <2>3, <3>1 DEF recordWrite, Bounded, TypeOK
    <3>2. CASE pos # StartOfFile /\ pos < Len(file)
      <4>1. file' = [file EXCEPT ![pos + 1] = made] /\ pos' = pos + 1 /\ damaged' = damaged
        BY <1>2, <3>2 DEF recordWrite, written
      <4>2. file' \in Seq(Records) /\ Len(file') = Len(file)
        <5>1. pos + 1 \in 1 .. Len(file)
          BY <1>t, <2>3, <3>2 DEF StartOfFile
        <5> HIDE DEF Records
        <5> QED
          BY <1>t, <2>2, <4>1, <5>1
      <4> QED
        BY <1>t, <2>2, <2>3, <3>2, <4>1, <4>2 DEF StartOfFile, Bounded, TypeOK
    <3>3. CASE pos # StartOfFile /\ ~(pos < Len(file))
      <4>1. file' = Append(file, made) /\ pos' = pos + 1 /\ damaged' = damaged
        BY <1>2, <3>3 DEF recordWrite, written
      <4>2. file' \in Seq(Records) /\ Len(file') = Len(file) + 1
        BY <1>t, <2>2, <4>1
      <4> QED
        BY <1>t, <2>2, <2>3, <3>3, <4>1, <4>2 DEF StartOfFile, Bounded, TypeOK
    <3> QED
      BY <3>1, <3>2, <3>3
  <2>5. TypeOK'
    BY <1>t, <1>u, <2>1, <2>4 DEF Bounded, TypeOK
  <2>6. closing.start_pos \in 0 .. Len(file') /\ header.start_pos \in 0 .. Len(file')
    BY <2>3, <2>4 DEF Bounded
  <2> QED
    BY <2>1, <2>2, <2>4, <2>5, <2>6 DEF Bounded
<1>3. CASE handleSignal \/ Handler \/ crash
  <2>1. /\ UNCHANGED <<file, made, event_cnt, loopback_flag, epc, playVars>>
        /\ phase = "record" /\ phase' \in {"record", "stopped"} /\ inFile' = inFile
    BY <1>3 DEF handleSignal, Handler, shutdownFill, shutdownSeek, shutdownWrite, exit,
                crash, inFile, recording
  <2>2. /\ hpc' \in {"none", "fill", "seek", "write", "exit"}
        /\ raced' \in BOOLEAN /\ damaged' \in BOOLEAN
    BY <1>3 DEF handleSignal, Handler, shutdownFill, shutdownSeek, shutdownWrite, exit,
                crash, Bounded, TypeOK
  <2>3. pos' \in {pos, 0, StartOfFile}
    BY <1>3 DEF handleSignal, Handler, shutdownFill, shutdownSeek, shutdownWrite, exit,
                crash
  <2>4. pos' \in StartOfFile .. Len(file)
    <3>1. Len(file) \in Nat
      BY <1>t
    <3> QED
      BY <1>t, <2>3, <3>1 DEF StartOfFile
  <2>5. header' \in {header, closing}
    BY <1>3 DEF handleSignal, Handler, shutdownFill, shutdownSeek, shutdownWrite, exit,
                crash
  <2>6. closing' \in Headers /\ closing'.start_pos \in 0 .. Len(file)
    <3>1. CASE shutdownFill
      <4>1. closing' = [start_pos |-> IF loopback_flag THEN pos ELSE 0,
                        end_t |-> made + 1, written |-> event_cnt]
            /\ phase = "record" /\ hpc = "fill"
        BY <3>1 DEF shutdownFill
      <4>2. pos \in Int /\ pos >= 0
        <5>1. inFile \in Nat /\ pos = IF inFile < MAX \/ (inFile = MAX /\ epc # "write")
                                      THEN inFile ELSE inFile - MAX
          BY <4>1 DEF IInv, WriterPosition, Counted, inFile, recording, Types
        <5> QED
          BY <5>1, MaxAssumption DEF MAX
      <4>3. Len(file) \in Nat /\ Len(file) <= made
        <5>1. Len(file) \in Nat /\ Len(file) <= inFile
          BY <1>t DEF Bounded
        <5> QED
          BY <1>t, <5>1 DEF inFile
      <4>4. (IF loopback_flag THEN pos ELSE 0) \in 0 .. Len(file)
        BY <1>t, <4>2, <4>3
      <4>5. 0 .. Len(file) \subseteq Positions
        BY <1>t, <4>3 DEF Positions, StartOfFile
      <4> QED
        BY <1>t, <4>1, <4>4, <4>5 DEF Headers
    <3>2. CASE ~shutdownFill
      <4>1. closing' = closing
        BY <1>3, <3>2 DEF handleSignal, Handler, shutdownSeek, shutdownWrite, exit, crash
      <4> QED
        BY <1>t, <4>1 DEF Bounded
    <3> QED
      BY <3>1, <3>2
  <2>7. header' \in Headers /\ header'.start_pos \in 0 .. Len(file)
    BY <1>t, <2>5 DEF Bounded
  <2>8. TypeOK'
    BY <1>t, <1>u, <2>1, <2>2, <2>4, <2>6, <2>7 DEF Bounded, TypeOK
  <2> QED
    BY <2>1, <2>6, <2>7, <2>8 DEF Bounded
<1>4. CASE playbackGo
  <2>1. /\ UNCHANGED <<fileVars, engineVars, handlerVars, errno, heard, replayed>>
        /\ phase' = "play" /\ inFile' = inFile
    BY <1>4 DEF playbackGo, inFile, recording
  <2>2. /\ {start', end'} \subseteq Times \cup {None}
        /\ start_pos' \in Positions /\ end_pos' \in Positions
        /\ pos' \in 0 .. Len(file)
    BY <1>4, PlaybackBegins
  <2>3. pos' \in Nat /\ pos' \in StartOfFile .. Len(file)
    BY <1>t, <2>2 DEF StartOfFile
  <2>4. TypeOK'
    BY <1>t, <1>u, <2>1, <2>2, <2>3 DEF Bounded, TypeOK
  <2> QED
    BY <2>1, <2>3, <2>4 DEF Bounded
<1>5. CASE Player
  <2>1. /\ UNCHANGED <<fileVars, engineVars, handlerVars, start, end, start_pos, end_pos,
                       errno>>
        /\ phase = "play" /\ phase' \in {"play", "exited"} /\ inFile' = inFile
        /\ replayed' \in {replayed, TRUE}
    BY <1>5 DEF Player, playRecord, playRewind, playAgain, loopEnd, inFile, recording
  <2>2. pos \in Nat /\ Len(file) \in Nat
    BY <1>t, <2>1 DEF Bounded
  <2>3. /\ pos' \in {pos, 0} \/ (pos' = pos + 1 /\ pos < Len(file))
        /\ heard' = heard \/ (pos < Len(file) /\ heard' = Append(heard, file[pos + 1]))
    BY <1>5 DEF Player, playRecord, playRewind, playAgain
  <2>4. pos' \in Nat /\ pos' \in StartOfFile .. Len(file)
    BY <1>t, <2>2, <2>3 DEF StartOfFile
  <2>5. heard' \in Seq(Records)
    <3>1. pos < Len(file) => file[pos + 1] \in Records
      BY <1>t, <2>2
    <3> QED
      BY <1>t, <2>3, <3>1
  <2>6. TypeOK'
    BY <1>t, <1>u, <2>1, <2>4, <2>5 DEF Bounded, TypeOK
  <2> QED
    BY <2>1, <2>4, <2>6 DEF Bounded
<1>6. CASE UNCHANGED vars
  <2>1. TypeOK' /\ inFile' = inFile
    BY <1>6 DEF vars, Bounded, TypeOK, inFile, recording
  <2> QED
    BY <1>6, <2>1 DEF vars, Bounded
<1> QED
  BY <1>1, <1>2, <1>3, <1>4, <1>5, <1>6 DEF Next, Engine

LEMMA AlwaysBounded == Spec => []Bounded
<1>1. Init => Bounded
  <2> SUFFICES ASSUME Init PROVE Bounded
    OBVIOUS
  <2> USE MaxEventsAssumption DEF Init
  <2>1. EmptyHeader \in Headers /\ StartOfFile \in Positions /\ 0 \in Positions
    BY DEF EmptyHeader, Headers, Positions, StartOfFile
  <2>2. TypeOK
    <3>1. Len(<<>>) = 0 /\ <<>> \in Seq(1 .. MaxEvents)
      OBVIOUS
    <3>2. /\ 0 \in 0 .. MaxEvents /\ 0 \in 0 .. 0 /\ 0 \in StartOfFile .. 0
      BY DEF StartOfFile
    <3>3. {header, closing} \subseteq Headers
      BY <2>1
    <3>4. file \in Seq(1 .. MaxEvents) /\ heard \in Seq(1 .. MaxEvents)
      BY <3>1
    <3>5. /\ pos \in StartOfFile .. Len(file) /\ made \in 0 .. MaxEvents
          /\ event_cnt \in 0 .. made
      BY <3>1, <3>2
    <3>6. /\ damaged \in BOOLEAN /\ {loopback_flag, raced, replayed} \subseteq BOOLEAN
          /\ {start, end} \subseteq Times \cup {None}
      BY Zenon
    <3> HIDE DEF Headers
    <3>7. /\ epc \in {"idle", "test", "seek", "write", "flush", "gone"}
          /\ hpc \in {"none", "fill", "seek", "write", "exit"}
          /\ phase \in {"record", "stopped", "play", "exited"}
          /\ start_pos \in Positions /\ end_pos \in Positions /\ errno \in Errnos
      BY <2>1
    <3> HIDE DEF Init
    <3> QED
      BY <3>3, <3>4, <3>5, <3>6, <3>7, Zenon DEF TypeOK, Headers
  <2>3. EmptyHeader.start_pos = 0 /\ inFile = 0 /\ Len(file) = 0
    BY DEF EmptyHeader, inFile, recording
  <2> QED
    BY <2>2, <2>3 DEF Bounded
<1> QED
  BY <1>1, BoundedInductive, Layout, PTL DEF Spec

(* Type correctness of the recording and of the playback: wherever a crash *)
(* or a race left the file, the stream of playbackGo stays inside of it    *)
(* and each record that is played is one of the file.                      *)
THEOREM TypeCorrect == Spec => []TypeOK
<1>1. Bounded => TypeOK
  BY DEF Bounded
<1> QED
  BY <1>1, AlwaysBounded, PTL

-----------------------------------------------------------------------------
(* A file that no handler has interrupted is a rotation of the events that *)
(* are in it: from place s + 1 on to the end and from the front.           *)
Rotated(f, s, m) ==
    /\ s \in 0 .. Len(f) - 1
    /\ \A i \in 1 .. Len(f) :
          f[i] = IF i > s THEN m + (i - 1 - s) ELSE m + (i - 1 - s) + Len(f)
rotation == IF MAX < inFile /\ inFile < 2 * MAX THEN inFile - MAX ELSE 0
oldest == IF inFile <= MAX THEN 1
          ELSE IF inFile < 2 * MAX THEN inFile - MAX + 1 ELSE MAX + 1

(* The header of a recording that was closed without a race has the place  *)
(* where the stream was.                                                   *)
Closed ==
    /\ loopback_flag <=> IF epc = "test" THEN made - 1 > MAX ELSE made > MAX
    /\ ~raced /\ hpc \in {"seek", "write", "exit"} =>
         closing.start_pos = IF made > MAX THEN made - MAX ELSE 0
    /\ ~raced /\ header.end_t # 0 =>
         hpc = "exit" /\ header.start_pos = closing.start_pos

LEMMA ClosedInductive == IInv /\ Bounded /\ Closed /\ [Next]_vars => Closed'
<1> SUFFICES ASSUME IInv, Bounded, Closed, [Next]_vars PROVE Closed'
  OBVIOUS
<1> USE MaxAssumption DEF MAX, fileVars, engineVars, handlerVars
<1>0. /\ made \in Nat /\ loopback_flag \in BOOLEAN
      /\ event_cnt = IF epc = "idle" THEN made ELSE made - 1
      /\ hpc = "none" => ~raced
      /\ hpc # "none" /\ ~raced => epc = "idle"
      /\ phase = "record" /\ hpc = "write" /\ ~raced => pos = StartOfFile
  BY DEF IInv, Types, Counted, Exclusion, Bounded, TypeOK
<1>1. CASE engineIO
  <2>1. /\ epc = "idle" /\ epc' = "test" /\ made' = made + 1 /\ hpc = "none"
        /\ UNCHANGED <<header, closing, hpc, raced, loopback_flag>>
    BY <1>1 DEF engineIO, cancelled
  <2> QED
    BY <1>0, <2>1 DEF Closed
<1>2. CASE recordTest \/ recordSeek \/ recordWrite \/ recordEnd
  <2>1. /\ epc # "idle" /\ epc' # "test" /\ UNCHANGED <<header, closing, hpc, raced, made>>
    BY <1>2 DEF recordTest, recordSeek, recordWrite, recordEnd
  <2>2. hpc = "none" \/ raced
    BY <1>0, <2>1
  <2>3. loopback_flag' <=> (made > MAX)
    <3>1. CASE recordTest
      <4>1. /\ loopback_flag' = (loopback_flag \/ event_cnt = MAX)
            /\ epc = "test"
        BY <3>1 DEF recordTest
      <4>2. event_cnt = made - 1 /\ (loopback_flag <=> made - 1 > MAX)
        BY <1>0, <4>1 DEF Closed
      <4>3. (made - 1 > MAX \/ made - 1 = MAX) <=> made > MAX
        BY <1>0
      <4> QED
        BY <4>1, <4>2, <4>3
    <3>2. CASE recordSeek \/ recordWrite \/ recordEnd
      BY <3>2 DEF recordSeek, recordWrite, recordEnd, Closed
    <3> QED
      BY <1>2, <3>1, <3>2
  <2> QED
    BY <2>1, <2>2, <2>3 DEF Closed
<1>3. CASE handleSignal
  <2>1. /\ hpc = "none" /\ hpc' = "fill"
        /\ UNCHANGED <<header, closing, made, epc, loopback_flag>>
    BY <1>3 DEF handleSignal
  <2> QED
    BY <1>0, <2>1 DEF Closed
<1>4. CASE shutdownFill
  <2>1. /\ hpc = "fill" /\ hpc' = "seek" /\ phase = "record"
        /\ closing'.start_pos = IF loopback_flag THEN pos ELSE 0
        /\ UNCHANGED <<header, made, epc, loopback_flag, raced>>
    BY <1>4 DEF shutdownFill
  <2>2. ASSUME ~raced PROVE closing'.start_pos = IF made > MAX THEN made - MAX ELSE 0
    <3>1. epc = "idle"
      BY <1>0, <2>1, <2>2
    <3>2. /\ loopback_flag <=> (made > MAX)
          /\ pos = IF made < MAX \/ made = MAX THEN made ELSE made - MAX
      BY <2>1, <3>1 DEF Closed, IInv, WriterPosition, inFile, recording
    <3>3. made > MAX => ~(made < MAX \/ made = MAX)
      BY <1>0
    <3> HIDE DEF MAX
    <3> QED
      BY <2>1, <3>2, <3>3
  <2> HIDE DEF MAX
  <2> QED
    BY <2>1, <2>2 DEF Closed
<1>5. CASE shutdownSeek
  <2>1. /\ hpc = "seek" /\ hpc' = "write"
        /\ UNCHANGED <<header, closing, made, epc, loopback_flag, raced>>
    BY <1>5 DEF shutdownSeek
  <2> QED
    BY <2>1 DEF Closed
<1>6. CASE shutdownWrite
  <2>1. /\ hpc = "write" /\ hpc' = "exit" /\ phase = "record"
        /\ header' = IF pos = StartOfFile THEN closing ELSE header
        /\ UNCHANGED <<closing, made, epc, loopback_flag, raced>>
    BY <1>6 DEF shutdownWrite
  <2> QED
    BY <1>0, <2>1 DEF Closed
<1>7. CASE exit \/ crash \/ playbackGo \/ Player \/ UNCHANGED vars
  <2>1. UNCHANGED <<header, closing, hpc, made, epc, loopback_flag, raced>>
    BY <1>7 DEF exit, crash, playbackGo, Player, playRecord, playRewind, playAgain, vars
  <2> QED
    BY <2>1 DEF Closed
<1> QED
  BY <1>1, <1>2, <1>3, <1>4, <1>5, <1>6, <1>7 DEF Next, Engine, Handler

-----------------------------------------------------------------------------
(* Playback of a file that was recorded without a race. *)

(* The layout is a rotation.                                               *)
LEMMA LayoutRotated ==
    ASSUME IInv, ~raced, ~damaged, file # <<>>
    PROVE  /\ Rotated(file, rotation, oldest) /\ rotation \in Nat /\ oldest \in Nat
           /\ Len(file) \in Nat /\ Len(file) > 0
<1> USE MaxAssumption DEF MAX
<1>1. inFile \in Nat /\ file \in Seq(Int)
  BY DEF IInv, Types, Counted, inFile, recording
<1>2. HasLayout(file, inFile)
  BY DEF IInv, RingLayout
<1>3. Len(file) \in Nat /\ Len(file) > 0
  BY <1>1
<1> HIDE DEF inFile
<1>4. rotation \in Nat /\ oldest \in Nat /\ rotation <= Len(file) - 1
  BY <1>1, <1>2, <1>3 DEF rotation, oldest, HasLayout, layoutLen
<1>5. ASSUME NEW i \in 1 .. Len(file)
      PROVE  file[i] = IF i > rotation THEN oldest + (i - 1 - rotation)
                       ELSE oldest + (i - 1 - rotation) + Len(file)
  <2>1. file[i] = layout(inFile, i) /\ Len(file) = layoutLen(inFile)
    BY <1>2 DEF HasLayout
  <2> QED
    BY <1>1, <2>1 DEF layout, layoutLen, rotation, oldest
<1> QED
  BY <1>3, <1>4, <1>5 DEF Rotated

LEMMA LeastIs ==
    ASSUME NEW T \in SUBSET Int, NEW x \in T, \A y \in T : x <= y
    PROVE  Min(T) = x
<1> DEFINE m == Min(T)
<1>1. m \in T /\ \A y \in T : m <= y
  BY Zenon DEF Min
<1> HIDE DEF m
<1>2. m = x
  BY <1>1
<1> QED
  BY <1>2 DEF m

(* The events of a rotation, and where its oldest record is found.         *)
LEMMA RotatedRecords ==
    ASSUME NEW s \in Nat, NEW m \in Nat, Rotated(file, s, m),
           Len(file) \in Nat, Len(file) > 0
    PROVE  records = m .. m + Len(file) - 1 /\ Min(records) = m
<1>1. ASSUME NEW r \in m .. m + Len(file) - 1 PROVE r \in records
  <2>1. CASE r - m < Len(file) - s
    <3> DEFINE i == r - m + s + 1
    <3>1. i \in 1 .. Len(file) /\ i > s /\ m + (i - 1 - s) = r
      BY <2>1
    <3> HIDE DEF i
    <3>2. file[i] = r
      BY <3>1 DEF Rotated
    <3> QED
      BY <3>1, <3>2 DEF records
  <2>2. CASE ~(r - m < Len(file) - s)
    <3> DEFINE i == r - m + s - Len(file) + 1
    <3>0. s \in 0 .. Len(file) - 1
      BY DEF Rotated
    <3>1. i \in 1 .. Len(file) /\ ~(i > s) /\ m + (i - 1 - s) + Len(file) = r
      BY <2>2, <3>0
    <3> HIDE DEF i
    <3>2. file[i] = m + (i - 1 - s) + Len(file)
      BY <3>1 DEF Rotated
    <3> QED
      BY <3>1, <3>2 DEF records
  <2> QED
    BY <2>1, <2>2
<1>2. ASSUME NEW i \in 1 .. Len(file) PROVE file[i] \in m .. m + Len(file) - 1
  BY DEF Rotated
<1>3. records = m .. m + Len(file) - 1
  BY <1>1, <1>2 DEF records
<1>4. Min(m .. m + Len(file) - 1) = m
  <2> DEFINE T == m .. m + Len(file) - 1
  <2>1. T \in SUBSET Int /\ m \in T /\ \A y \in T : m <= y
    OBVIOUS
  <2> HIDE DEF T
  <2>2. Min(T) = m
    BY <2>1, LeastIs
  <2> QED
    BY <2>2 DEF T
<1> QED
  BY <1>3, <1>4

LEMMA RotatedFirst ==
    ASSUME NEW s \in Nat, NEW m \in Nat, Rotated(file, s, m),
           Len(file) \in Nat, Len(file) > 0
    PROVE  playbackFindFirstOffset(0) = s
<1> DEFINE earlier == {i \in 0 + 1 .. Len(file) - 1 : file[i + 1] < file[0 + 1]}
<1>1. playbackFindFirstOffset(0) = IF earlier = {} THEN 0 ELSE Min(earlier)
  BY DEF playbackFindFirstOffset
<1>2. file[0 + 1] = IF s = 0 THEN m ELSE m - s + Len(file)
  BY DEF Rotated
<1>3. \A i \in 1 .. Len(file) - 1 :
        file[i + 1] = IF i >= s THEN m + (i - s) ELSE m + (i - s) + Len(file)
  BY DEF Rotated
<1>4. s <= Len(file) - 1
  BY DEF Rotated
<1>5. CASE s = 0
  <2>1. earlier = {}
    BY <1>2, <1>3, <1>5
  <2> QED
    BY <1>1, <1>5, <2>1
<1>6. CASE s # 0
  <2>1. /\ earlier \in SUBSET Int /\ s \in earlier
        /\ \A i \in earlier : s <= i
    BY <1>2, <1>3, <1>4, <1>6
  <2> HIDE DEF earlier
  <2>2. Min(earlier) = s
    BY <2>1, LeastIs
  <2> QED
    BY <1>1, <2>1, <2>2
<1> QED
  BY <1>5, <1>6

playing == phase \in {"play", "exited"}

(* A playback of the whole file has gone as far as it has heard records,   *)
(* before or behind the end of the file.                                   *)
WholePlayed ==
    playing /\ start = None /\ startKnown =>
        /\ start_pos = rotation /\ end_pos = StartOfFile
        /\ Len(heard) <= Len(file)
        /\ \A i \in 1 .. Len(heard) : heard[i] = oldest + (i - 1)
        /\ phase = "play" =>
             \/ pos = start_pos + Len(heard)
             \/ /\ start_pos > 0 /\ pos = start_pos + Len(heard) - Len(file)
                /\ pos < start_pos
        /\ phase = "exited" => Len(heard) = Len(file)

(* What a playback does not change.                                        *)
Playable == playing => file # <<>> /\ ~damaged

LEMMA PlayKeeps ==
    ASSUME Player \/ UNCHANGED vars
    PROVE  /\ UNCHANGED <<file, header, damaged, raced, event_cnt, start, end, start_pos,
                         end_pos>>
           /\ inFile' = inFile /\ rotation' = rotation /\ oldest' = oldest
           /\ records' = records /\ startKnown' = startKnown
           /\ Player => phase = "play"
<1>1. /\ UNCHANGED <<file, header, damaged, raced, event_cnt, made, epc, start, end,
                     start_pos, end_pos>>
      /\ Player => phase = "play"
  BY DEF Player, playRecord, playRewind, playAgain, fileVars, engineVars, handlerVars,
         playVars, vars
<1>2. inFile' = inFile
  BY <1>1 DEF inFile, recording
<1> QED
  BY <1>1, <1>2 DEF rotation, oldest, records, startKnown

LEMMA PlayableInductive == Playable /\ [Next]_vars => Playable'
<1> SUFFICES ASSUME Playable, [Next]_vars PROVE Playable'
  OBVIOUS
<1>1. CASE Player \/ UNCHANGED vars
  <2>1. playing' => playing
    BY <1>1 DEF playing, Player, playRecord, playRewind, playAgain, vars
  <2> QED
    BY <1>1, <2>1, PlayKeeps DEF Playable
<1>2. CASE playbackGo
  BY <1>2 DEF playbackGo, fileVars, Playable
<1>3. CASE Engine \/ handleSignal \/ Handler \/ crash
  <2>1. ~playing'
    BY <1>3 DEF Engine, engineIO, recordTest, recordSeek, recordWrite, recordEnd,
                handleSignal, Handler, shutdownFill, shutdownSeek, shutdownWrite, exit,
                crash, playing
  <2> QED
    BY <2>1 DEF Playable
<1> QED
  BY <1>1, <1>2, <1>3 DEF Next

(* A step of the playback: one more record, or the end of the file.        *)
LEMMA PlayStep ==
    ASSUME Bounded, Player
    PROVE  /\ pos \in Nat /\ Len(heard) \in Nat /\ Len(file) \in Nat
           /\ phase' = "play" \/ phase' = "exited"
           /\ \/ /\ pos < Len(file) /\ pos' = pos + 1
                 /\ Len(heard') = Len(heard) + 1
                 /\ \A i \in 1 .. Len(heard) : heard'[i] = heard[i]
                 /\ heard'[Len(heard) + 1] = file[pos + 1]
                 /\ phase' = "exited" <=> pos + 1 \in {start_pos, end_pos}
              \/ /\ pos = Len(file) /\ pos' = 0 /\ heard' = heard
                 /\ phase' = "exited" <=> 0 \in {start_pos, end_pos}
              \/ /\ pos = Len(file) /\ pos' = pos /\ heard' = heard
                 /\ phase' = "exited" <=> pos \in {start_pos, end_pos}
<1>1. /\ file \in Seq(Records) /\ heard \in Seq(Records) /\ phase = "play"
      /\ pos \in Nat
  BY PlayKeeps DEF Bounded, TypeOK, Records
<1>2. Len(heard) \in Nat /\ Len(file) \in Nat
  BY <1>1
<1>3. phase' = "play" \/ phase' = "exited"
  BY <1>1 DEF Player, playRecord, playRewind, playAgain, loopEnd
<1>4. CASE playRecord
  <2>1. /\ pos < Len(file) /\ pos' = pos + 1
        /\ heard' = Append(heard, file[pos + 1])
        /\ phase' = "exited" <=> pos + 1 \in {start_pos, end_pos}
    BY <1>1, <1>4 DEF playRecord, loopEnd
  <2>2. file[pos + 1] \in Records
    BY <1>1, <1>2, <2>1
  <2>3. /\ Len(heard') = Len(heard) + 1
        /\ \A i \in 1 .. Len(heard) : heard'[i] = heard[i]
        /\ heard'[Len(heard) + 1] = file[pos + 1]
    <3> HIDE DEF Records
    <3> QED
      BY <1>1, <2>1, <2>2, AppendProperties
  <2> QED
    BY <1>1, <1>2, <1>3, <2>1, <2>3
<1>5. CASE playRewind
  BY <1>1, <1>2, <1>3, <1>5 DEF playRewind, loopEnd, playVars
<1>6. CASE playAgain
  BY <1>1, <1>2, <1>3, <1>6 DEF playAgain, loopEnd
<1> QED
  BY <1>4, <1>5, <1>6 DEF Player

LEMMA WholeInductive ==
    IInv /\ Bounded /\ Closed /\ Playable /\ WholePlayed /\ [Next]_vars => WholePlayed'
<1> SUFFICES ASSUME IInv, Bounded, Closed, Playable, WholePlayed, [Next]_vars
             PROVE  WholePlayed'
  OBVIOUS
<1>1. CASE Player
  <2> SUFFICES ASSUME start' = None, startKnown'
               PROVE  /\ start_pos' = rotation' /\ end_pos' = StartOfFile
                      /\ Len(heard') <= Len(file')
                      /\ \A i \in 1 .. Len(heard') : heard'[i] = oldest' + (i - 1)
                      /\ phase' = "play" =>
                           \/ pos' = start_pos' + Len(heard')
                           \/ /\ start_pos' > 0
                              /\ pos' = start_pos' + Len(heard') - Len(file')
                              /\ pos' < start_pos'
                      /\ phase' = "exited" => Len(heard') = Len(file')
    BY DEF WholePlayed
  <2>1. /\ UNCHANGED <<file, header, damaged, raced, event_cnt, start, end, start_pos,
                      end_pos>>
        /\ inFile' = inFile /\ rotation' = rotation /\ oldest' = oldest
        /\ startKnown /\ phase = "play" /\ start = None /\ ~raced /\ playing
    BY <1>1, PlayKeeps DEF startKnown, playing
  <2>2. /\ start_pos = rotation /\ end_pos = StartOfFile
        /\ Len(heard) <= Len(file)
        /\ \A i \in 1 .. Len(heard) : heard[i] = oldest + (i - 1)
        /\ \/ pos = start_pos + Len(heard)
           \/ /\ start_pos > 0 /\ pos = start_pos + Len(heard) - Len(file)
              /\ pos < start_pos
    BY <2>1 DEF WholePlayed
  <2>3. /\ Rotated(file, rotation, oldest) /\ rotation \in Nat /\ oldest \in Nat
        /\ Len(file) \in Nat /\ Len(file) > 0
    BY <2>1, LayoutRotated DEF Playable
  <2>4. /\ rotation <= Len(file) - 1
        /\ \A i \in 1 .. Len(file) :
              file[i] = IF i > rotation THEN oldest + (i - 1 - rotation)
                        ELSE oldest + (i - 1 - rotation) + Len(file)
    BY <2>3 DEF Rotated
  <2>5. pos \in Nat /\ Len(heard) \in Nat
    BY <1>1, PlayStep
  <2> HIDE DEF rotation, oldest
  <2>6. CASE /\ pos < Len(file) /\ pos' = pos + 1
             /\ Len(heard') = Len(heard) + 1
             /\ \A i \in 1 .. Len(heard) : heard'[i] = heard[i]
             /\ heard'[Len(heard) + 1] = file[pos + 1]
             /\ phase' = "exited" <=> pos + 1 \in {start_pos, end_pos}
    <3>1. pos + 1 \in 1 .. Len(file)
      BY <2>3, <2>5, <2>6
    <3>2. file[pos + 1] = oldest + Len(heard) /\ Len(heard) + 1 <= Len(file)
      <4>0. PICK p \in 1 .. Len(file) : p = pos + 1
        BY <3>1
      <4>p. file[p] = IF p > rotation THEN oldest + (p - 1 - rotation)
                      ELSE oldest + (p - 1 - rotation) + Len(file)
        BY <2>4
      <4>1. CASE pos = start_pos + Len(heard)
        <5>1. p > rotation /\ oldest + (p - 1 - rotation) = oldest + Len(heard)
          BY <2>2, <2>3, <2>5, <4>0, <4>1
        <5>2. Len(heard) + 1 <= Len(file)
          BY <2>2, <2>3, <2>5, <2>6, <4>1
        <5> QED
          BY <4>0, <4>p, <5>1, <5>2
      <4>2. CASE start_pos > 0 /\ pos = start_pos + Len(heard) - Len(file) /\ pos < start_pos
        <5>1. /\ ~(p > rotation) /\ Len(heard) + 1 <= Len(file)
              /\ oldest + (p - 1 - rotation) + Len(file) = oldest + Len(heard)
          BY <2>2, <2>3, <2>5, <4>0, <4>2
        <5> QED
          BY <4>0, <4>p, <5>1
      <4> QED
        BY <2>2, <4>1, <4>2
    <3>3. \A i \in 1 .. Len(heard') : heard'[i] = oldest + (i - 1)
      <4> SUFFICES ASSUME NEW i \in 1 .. Len(heard) + 1 PROVE heard'[i] = oldest + (i - 1)
        BY <2>6
      <4>1. CASE i = Len(heard) + 1
        <5>1. i - 1 = Len(heard)
          BY <2>5, <4>1
        <5> QED
          BY <2>6, <3>2, <4>1, <5>1
      <4>2. CASE i # Len(heard) + 1
        <5>1. i \in 1 .. Len(heard)
          BY <2>5, <4>2
        <5> QED
          BY <2>2, <2>6, <5>1
      <4> QED
        BY <4>1, <4>2
    <3>4. phase' = "exited" <=> pos + 1 = start_pos
      BY <2>2, <2>5, <2>6 DEF StartOfFile
    <3>5. phase' = "exited" => Len(heard') = Len(file)
      BY <2>2, <2>3, <2>5, <2>6, <3>4
    <3>6. phase' = "play" => \/ pos' = start_pos + Len(heard')
                             \/ /\ start_pos > 0
                                /\ pos' = start_pos + Len(heard') - Len(file)
                                /\ pos' < start_pos
      BY <2>2, <2>3, <2>5, <2>6, <3>4
    <3> QED
      BY <2>1, <2>2, <2>6, <3>2, <3>3, <3>5, <3>6
  <2>7. CASE /\ pos = Len(file) /\ pos' = 0 /\ heard' = heard
             /\ phase' = "exited" <=> 0 \in {start_pos, end_pos}
    <3>1. pos = start_pos + Len(heard)
      BY <2>2, <2>3, <2>4, <2>5, <2>7
    <3>2. phase' = "exited" <=> start_pos = 0
      BY <2>2, <2>7 DEF StartOfFile
    <3> QED
      BY <2>1, <2>2, <2>3, <2>5, <2>7, <3>1, <3>2
  <2>8. CASE /\ pos = Len(file) /\ pos' = pos /\ heard' = heard
             /\ phase' = "exited" <=> pos \in {start_pos, end_pos}
    <3>1. pos # start_pos /\ pos # end_pos
      BY <2>2, <2>3, <2>4, <2>5, <2>8 DEF StartOfFile
    <3> QED
      BY <2>1, <2>2, <2>8, <3>1
  <2> QED
    BY <1>1, <2>6, <2>7, <2>8, PlayStep
<1>2. CASE playbackGo
  <2> SUFFICES ASSUME start' = None, startKnown' PROVE WholePlayed'
    BY DEF WholePlayed
  <2>1. /\ UNCHANGED <<file, header, damaged, raced, event_cnt, made, epc, hpc, closing,
                       heard>>
        /\ phase = "stopped" /\ phase' = "play" /\ file # <<>> /\ ~damaged
    BY <1>2 DEF playbackGo, fileVars, engineVars, handlerVars
  <2>2. /\ inFile' = inFile /\ rotation' = rotation /\ oldest' = oldest
        /\ startKnown /\ ~raced /\ heard = <<>>
    BY <2>1 DEF inFile, recording, rotation, oldest, startKnown, Bounded
  <2>3. /\ Rotated(file, rotation, oldest) /\ rotation \in Nat /\ oldest \in Nat
        /\ Len(file) \in Nat /\ Len(file) > 0
    BY <2>1, <2>2, LayoutRotated
  <2>4. /\ end_pos' = StartOfFile
        /\ start_pos' = IF header.end_t # 0 THEN header.start_pos
                        ELSE playbackFindFirstOffset(0)
        /\ pos' = IF start_pos' < Len(file) THEN start_pos' ELSE start_pos' - 1
    BY <1>2, Chosen
  <2>5. start_pos' = rotation
    <3>1. CASE header.end_t = 0
      BY <2>3, <2>4, <3>1, RotatedFirst
    <3>2. CASE header.end_t # 0
      <4>1. hpc = "exit" /\ header.start_pos = IF made > MAX THEN made - MAX ELSE 0
        BY <2>2, <3>2 DEF Closed
      <4>2. epc = "idle" /\ event_cnt = made /\ inFile = made /\ made \in Nat
        BY <2>2, <4>1 DEF IInv, Exclusion, Counted, inFile, recording, Types
      <4>3. made < 2 * MAX
        BY <2>2, <3>2, <4>2 DEF startKnown, MAX
      <4> QED
        BY <2>4, <3>2, <4>1, <4>2, <4>3, MaxAssumption DEF rotation, MAX
    <3> QED
      BY <3>1, <3>2
  <2>6. pos' = start_pos' /\ Len(heard') = 0
    BY <2>1, <2>2, <2>3, <2>4, <2>5 DEF Rotated
  <2>7. pos' = start_pos' + Len(heard') /\ 0 <= Len(file)
    BY <2>3, <2>5, <2>6
  <2> HIDE DEF rotation, oldest
  <2> QED
    BY <2>1, <2>2, <2>4, <2>5, <2>6, <2>7 DEF WholePlayed
<1>3. CASE Engine \/ handleSignal \/ Handler \/ crash
  <2>1. ~playing'
    BY <1>3 DEF Engine, engineIO, recordTest, recordSeek, recordWrite, recordEnd,
                handleSignal, Handler, shutdownFill, shutdownSeek, shutdownWrite, exit,
                crash, playing
  <2> QED
    BY <2>1 DEF WholePlayed
<1>4. CASE UNCHANGED vars
  <2>1. UNCHANGED <<phase, pos, heard, playing>>
    BY <1>4 DEF vars, playVars, playing
  <2>2. /\ UNCHANGED <<file, start, start_pos, end_pos>>
        /\ rotation' = rotation /\ oldest' = oldest /\ startKnown' = startKnown
    BY <1>4, PlayKeeps
  <2> QED
    BY <2>1, <2>2 DEF WholePlayed
<1> QED
  BY <1>1, <1>2, <1>3, <1>4 DEF Next

LEMMA AlwaysWhole == Spec => [](IInv /\ Bounded /\ Closed /\ Playable /\ WholePlayed)
<1>1. Init => Closed /\ Playable /\ WholePlayed
  <2> SUFFICES ASSUME Init PROVE Closed /\ Playable /\ WholePlayed
    OBVIOUS
  <2>1. ~playing
    BY DEF Init, playing
  <2>2. Closed
    BY MaxAssumption DEF Init, Closed, EmptyHeader, MAX
  <2> QED
    BY <2>1, <2>2 DEF Playable, WholePlayed
<1> QED
  BY <1>1, Layout, AlwaysBounded, ClosedInductive, PlayableInductive, WholeInductive, PTL
     DEF Spec

(* A playback without a start time, after a crash or after a regular end   *)
(* of fewer than twice MAX_PLAYBACK_EVENTS events, plays the file in the   *)
(* order of recording from its oldest record on, and all of it if it ends. *)
THEOREM WholeFileInOrder == Spec => []PlayedInOrder
<1>1. IInv /\ Bounded /\ Closed /\ Playable /\ WholePlayed => PlayedInOrder
  <2> SUFFICES ASSUME IInv, Bounded, Playable, WholePlayed,
                      start = None, startKnown, heard # <<>>
               PROVE  /\ heard = [i \in 1 .. Len(heard) |-> Min(records) + i - 1]
                      /\ phase = "exited" => {heard[i] : i \in 1 .. Len(heard)} = records
    BY DEF PlayedInOrder
  <2>1. playing
    BY DEF Bounded, TypeOK, playing
  <2>2. /\ Len(heard) <= Len(file)
        /\ \A i \in 1 .. Len(heard) : heard[i] = oldest + (i - 1)
        /\ phase = "exited" => Len(heard) = Len(file)
    BY <2>1 DEF WholePlayed
  <2>3. /\ Rotated(file, rotation, oldest) /\ rotation \in Nat /\ oldest \in Nat
        /\ Len(file) \in Nat /\ Len(file) > 0
    BY <2>1, LayoutRotated DEF Playable, startKnown
  <2>4. records = oldest .. oldest + Len(file) - 1 /\ Min(records) = oldest
    BY <2>3, RotatedRecords
  <2>5. heard \in Seq(Records) /\ Len(heard) \in Nat
    BY DEF Bounded, TypeOK, Records
  <2> HIDE DEF oldest
  <2>6. \A i \in 1 .. Len(heard) : heard[i] = oldest + i - 1
    BY <2>2, <2>3, <2>5
  <2>7. heard = [i \in 1 .. Len(heard) |-> heard[i]]
    BY <2>5
  <2>8. heard = [i \in 1 .. Len(heard) |-> oldest + i - 1]
    BY <2>6, <2>7
  <2>9. ASSUME phase = "exited" PROVE {heard[i] : i \in 1 .. Len(heard)} = records
    <3>1. \A i \in 1 .. Len(heard) : heard[i] \in oldest .. oldest + Len(file) - 1
      BY <2>2, <2>3, <2>5, <2>6
    <3>2. \A r \in oldest .. oldest + Len(file) - 1 :
            r - oldest + 1 \in 1 .. Len(heard) /\ heard[r - oldest + 1] = r
      BY <2>2, <2>3, <2>5, <2>6, <2>9
    <3> QED
      BY <2>4, <3>1, <3>2
  <2> QED
    BY <2>4, <2>8, <2>9
<1> QED
  BY <1>1, AlwaysWhole, PTL

(* The first record that is not earlier than the start time.               *)
earliest == IF oldest < start THEN start ELSE oldest

WindowStart ==
    playing /\ start # None /\ ~raced /\ (\E r \in records : r >= start) =>
        /\ start_pos < Len(file) /\ file[start_pos + 1] = earliest
        /\ heard = <<>> => pos = start_pos /\ phase = "play"
        /\ heard # <<>> => heard[1] = earliest

(* A playback that is to end behind the place where it began goes from the *)
(* one to the other.                                                       *)
windowed ==
    /\ playing /\ start # None /\ end # None /\ ~raced
    /\ \E r \in records : r >= start /\ r < end
    /\ start_pos < end_pos
WindowEnd ==
    windowed =>
        /\ end_pos < Len(file)
        /\ \A i \in start_pos .. end_pos : file[i + 1] = earliest + (i - start_pos)
        /\ file[end_pos + 1] = end
        /\ pos = start_pos + Len(heard)
        /\ \A i \in 1 .. Len(heard) : heard[i] = earliest + (i - 1)
        /\ IF phase = "play" THEN pos < end_pos ELSE pos = end_pos

(* A position up to once around a file of n records.                       *)
LEMMA Around ==
    ASSUME NEW n \in Nat, n > 0, NEW a \in Nat, a < 2 * n
    PROVE  a % n = IF a < n THEN a ELSE a - n
<1>1. CASE a < n
  BY <1>1
<1>2. CASE a \in n .. 2 * n - 1
  <2>1. a % n = a - n
    BY <1>2
  <2> QED
    BY <1>2, <2>1
<1> QED
  BY <1>1, <1>2

(* What a search from position p around the file finds.                    *)
LEMMA FoundIs ==
    ASSUME NEW n \in Nat, n = Len(file), n > 0, NEW p \in 0 .. n, NEW t \in Int,
           \A j \in 0 .. n - 1 : file[j + 1] \in Int
    PROVE  \/ found(t, p) = None /\ \A j \in 0 .. n - 1 : file[j + 1] < t
           \/ /\ found(t, p) \in 0 .. n - 1 /\ file[found(t, p) + 1] >= t
              /\ found(t, p) >= p =>
                   \A j \in 0 .. n - 1 : p <= j /\ j < found(t, p) => file[j + 1] < t
              /\ found(t, p) < p =>
                   \A j \in 0 .. n - 1 : p <= j \/ j < found(t, p) => file[j + 1] < t
<1> DEFINE hits == {k \in 0 .. n - 1 : file[((p + k) % n) + 1] >= t}
           x == Min(hits)
           q == (p + x) % n
<1>1. found(t, p) = IF hits = {} THEN None ELSE q
  BY DEF found
<1>2. ASSUME NEW k \in 0 .. n - 1
      PROVE  (p + k) % n = IF p + k < n THEN p + k ELSE p + k - n
  <2>1. PICK a \in Nat : a = p + k
    OBVIOUS
  <2>2. a < 2 * n
    BY <2>1
  <2>3. a % n = IF a < n THEN a ELSE a - n
    BY <2>2, Around
  <2> QED
    BY <2>1, <2>3
<1>3. ASSUME NEW j \in 0 .. n - 1
      PROVE  \E k \in 0 .. n - 1 : k = (IF j >= p THEN j - p ELSE j - p + n) /\ (p + k) % n = j
  <2>1. PICK k \in 0 .. n - 1 : k = IF j >= p THEN j - p ELSE j - p + n
    <3>1. (IF j >= p THEN j - p ELSE j - p + n) \in 0 .. n - 1
      OBVIOUS
    <3> QED
      BY <3>1, Zenon
  <2>2. (IF p + k < n THEN p + k ELSE p + k - n) = j
    BY <2>1
  <2> QED
    BY <1>2, <2>1, <2>2
<1>4. CASE hits = {}
  <2>1. ASSUME NEW j \in 0 .. n - 1 PROVE file[j + 1] < t
    <3>1. PICK k \in 0 .. n - 1 : (p + k) % n = j
      BY <1>3
    <3>2. ~(file[j + 1] >= t)
      BY <1>4, <3>1
    <3> QED
      BY <3>2
  <2> QED
    BY <1>1, <1>4, <2>1
<1>5. CASE hits # {}
  <2>1. x \in hits /\ \A k \in hits : x <= k
    <3>1. hits \in SUBSET Nat
      OBVIOUS
    <3> HIDE DEF hits
    <3>2. x \in hits
      BY <1>5, <3>1, Smallest
    <3>3. \E z \in hits : \A k \in hits : z <= k
      BY <1>5, <3>1, SmallestBelow
    <3> QED
      BY <3>2, <3>3, Zenon DEF Min
  <2>2. x \in 0 .. n - 1 /\ file[q + 1] >= t
    BY <2>1
  <2>3. ASSUME NEW k \in 0 .. n - 1, k < x PROVE file[((p + k) % n) + 1] < t
    <3>1. k \notin hits
      <4> HIDE DEF hits, x
      <4> QED
        BY <2>1, <2>2, <2>3
    <3>2. ~(file[((p + k) % n) + 1] >= t) /\ (p + k) % n \in 0 .. n - 1
      BY <1>2, <3>1
    <3> HIDE DEF hits
    <3> QED
      BY <3>2
  <2>4. found(t, p) = q
    BY <1>1, <1>5
  <2>5. q = IF p + x < n THEN p + x ELSE p + x - n
    BY <1>2, <2>2
  <2> HIDE DEF hits, x, q
  <2>6. q \in 0 .. n - 1
    BY <2>2, <2>5
  <2>7. ASSUME NEW j \in 0 .. n - 1,
               IF q >= p THEN p <= j /\ j < q ELSE p <= j \/ j < q
        PROVE  file[j + 1] < t
    <3>1. PICK k \in 0 .. n - 1 : /\ k = IF j >= p THEN j - p ELSE j - p + n
                                  /\ (p + k) % n = j
      BY <1>3
    <3>2. k < x
      BY <2>2, <2>5, <2>6, <2>7, <3>1
    <3> QED
      BY <2>3, <3>1, <3>2
  <2>8. q >= p => \A j \in 0 .. n - 1 : p <= j /\ j < q => file[j + 1] < t
    BY <2>7
  <2>9. q < p => \A j \in 0 .. n - 1 : p <= j \/ j < q => file[j + 1] < t
    <3>1. q < p => ~(q >= p)
      BY <2>6
    <3> QED
      BY <2>7, <3>1
  <2> QED
    BY <2>2, <2>4, <2>6, <2>8, <2>9
<1> QED
  BY <1>4, <1>5

(* What playbackFindFirstOffset finds from position p.                     *)
LEMMA FirstOffsetIs ==
    ASSUME NEW n \in Nat, n = Len(file), NEW p \in 0 .. n,
           \A j \in 0 .. n - 1 : file[j + 1] \in Int
    PROVE  LET r == playbackFindFirstOffset(p)
           IN  \/ r = p /\ \A j \in p + 1 .. n - 1 : ~(file[j + 1] < file[p + 1])
               \/ /\ r \in p + 1 .. n - 1 /\ file[r + 1] < file[p + 1]
                  /\ \A j \in p + 1 .. n - 1 : file[j + 1] < file[p + 1] => r <= j
<1> DEFINE earlier == {i \in p + 1 .. n - 1 : file[i + 1] < file[p + 1]}
           r == playbackFindFirstOffset(p)
<1>1. r = IF earlier = {} THEN p ELSE Min(earlier)
  BY DEF playbackFindFirstOffset
<1>2. CASE earlier = {}
  BY <1>1, <1>2
<1>3. CASE earlier # {}
  <2>1. earlier \in SUBSET Nat
    OBVIOUS
  <2>2. r \in earlier /\ \A k \in earlier : r <= k
    <3> HIDE DEF earlier, r
    <3>1. Min(earlier) \in earlier
      BY <1>3, <2>1, Smallest
    <3>2. \E z \in earlier : \A k \in earlier : z <= k
      BY <1>3, <2>1, SmallestBelow
    <3>3. \A k \in earlier : Min(earlier) <= k
      BY <3>2, Zenon DEF Min
    <3> QED
      BY <1>1, <1>3, <3>1, <3>3
  <2> HIDE DEF r
  <2> QED
    BY <2>2 DEF r
<1> QED
  BY <1>2, <1>3

LEMMA RotatedAt ==
    ASSUME NEW s \in Nat, NEW m \in Nat, Rotated(file, s, m),
           NEW n \in Nat, n = Len(file), n > 0
    PROVE  /\ s < n
           /\ \A j \in 0 .. n - 1 :
                file[j + 1] = IF j >= s THEN m + (j - s) ELSE m + (j - s) + n
           /\ \A j \in 0 .. n - 1 : file[j + 1] \in Int
<1>1. s < n
  BY DEF Rotated
<1>2. ASSUME NEW j \in 0 .. n - 1
      PROVE  file[j + 1] = IF j >= s THEN m + (j - s) ELSE m + (j - s) + n
  <2>1. PICK i \in 1 .. n : i = j + 1
    OBVIOUS
  <2>2. file[i] = IF i > s THEN m + (i - 1 - s) ELSE m + (i - 1 - s) + n
    BY DEF Rotated
  <2>3. (i > s <=> j >= s) /\ i - 1 - s = j - s
    BY <2>1
  <2> QED
    BY <2>1, <2>2, <2>3
<1>3. ASSUME NEW j \in 0 .. n - 1 PROVE file[j + 1] \in Int
  BY <1>2
<1> QED
  BY <1>1, <1>2, <1>3

(* Where a window begins: at the first record that is not earlier.         *)
LEMMA BeginsAt ==
    ASSUME NEW s \in Nat, NEW m \in Nat, Rotated(file, s, m),
           NEW n \in Nat, n = Len(file), n > 0,
           NEW t \in Int, t <= m + n - 1
    PROVE  /\ found(t, s) \in 0 .. n - 1
           /\ file[found(t, s) + 1] = IF m < t THEN t ELSE m
<1> DEFINE b == found(t, s)
           v(j) == IF j >= s THEN m + (j - s) ELSE m + (j - s) + n
<1>1. s < n /\ \A j \in 0 .. n - 1 : file[j + 1] = v(j) /\ file[j + 1] \in Int
  BY RotatedAt
<1>2. \/ b = None /\ \A j \in 0 .. n - 1 : file[j + 1] < t
      \/ /\ b \in 0 .. n - 1 /\ file[b + 1] >= t
         /\ b >= s => \A j \in 0 .. n - 1 : s <= j /\ j < b => file[j + 1] < t
         /\ b < s => \A j \in 0 .. n - 1 : s <= j \/ j < b => file[j + 1] < t
  <2>1. s \in 0 .. n /\ \A j \in 0 .. n - 1 : file[j + 1] \in Int
    BY <1>1, RotatedAt
  <2> QED
    BY <2>1, FoundIs
<1> HIDE DEF b
<1>3. ~(\A j \in 0 .. n - 1 : v(j) < t)
  <2>1. CASE s = 0
    <3>1. n - 1 \in 0 .. n - 1 /\ v(n - 1) = m + n - 1
      BY <2>1
    <3> HIDE DEF v
    <3> QED
      BY <3>1
  <2>2. CASE s > 0
    <3>1. s - 1 \in 0 .. n - 1 /\ v(s - 1) = m + n - 1
      BY <1>1, <2>2
    <3> HIDE DEF v
    <3> QED
      BY <3>1
  <2> QED
    BY <2>1, <2>2
<1>4. /\ b \in 0 .. n - 1 /\ v(b) >= t
      /\ b >= s => \A j \in 0 .. n - 1 : s <= j /\ j < b => v(j) < t
      /\ b < s => \A j \in 0 .. n - 1 : s <= j \/ j < b => v(j) < t
  BY <1>1, <1>2, <1>3
<1>5. v(b) = IF m < t THEN t ELSE m
  <2>1. CASE b = s
    BY <1>4, <2>1
  <2>2. CASE b > s
    <3>1. b - 1 \in 0 .. n - 1 /\ s <= b - 1 /\ b - 1 < b /\ b >= s
      BY <1>4, <2>2
    <3>2. v(b - 1) < t
      BY <1>4, <3>1
    <3> QED
      BY <1>4, <2>2, <3>1, <3>2
  <2>3. CASE b < s /\ b = 0
    <3>1. n - 1 \in 0 .. n - 1 /\ s <= n - 1 /\ s \in 0 .. n - 1 /\ s <= s
      BY <1>1
    <3>2. v(n - 1) < t /\ v(s) < t
      <4> HIDE DEF v
      <4> QED
        BY <1>4, <2>3, <3>1
    <3> QED
      BY <1>1, <1>4, <2>3, <3>2
  <2>4. CASE b < s /\ b > 0
    <3>1. b - 1 \in 0 .. n - 1 /\ b - 1 < b /\ s \in 0 .. n - 1 /\ s <= s
      BY <1>1, <1>4, <2>4
    <3>2. v(b - 1) < t /\ v(s) < t
      BY <1>4, <2>4, <3>1
    <3> QED
      BY <1>4, <2>4, <3>1, <3>2
  <2> QED
    BY <1>4, <2>1, <2>2, <2>3, <2>4
<1>6. file[b + 1] = v(b)
  BY <1>1, <1>4
<1> QED
  BY <1>4, <1>5, <1>6 DEF b

(* Where it ends, if that is behind the place where it begins.             *)
Ascends(b, q, t) ==
    /\ q \in 0 .. Len(file) - 1 /\ file[q + 1] = t
    /\ \A i \in b .. q : file[i + 1] = file[b + 1] + (i - b)

LEMMA EndsAt ==
    ASSUME NEW s \in Nat, NEW m \in Nat, Rotated(file, s, m),
           NEW n \in Nat, n = Len(file), n > 0,
           NEW b \in 0 .. n - 1, NEW t \in Int, file[b + 1] < t,
           NEW q \in playbackFindTime(t, playbackFindFirstOffset(b + 1)),
           q # None, b < q
    PROVE  Ascends(b, q, t)
<1> DEFINE v(j) == IF j >= s THEN m + (j - s) ELSE m + (j - s) + n
           r == playbackFindFirstOffset(b + 1)
<1>1. s < n /\ \A j \in 0 .. n - 1 : file[j + 1] = v(j) /\ file[j + 1] \in Int
  BY RotatedAt
<1>2. b + 1 \in 0 .. n /\ b + 1 - 1 = b
  OBVIOUS
<1>3. \/ r = b + 1 /\ \A j \in b + 1 + 1 .. n - 1 : ~(file[j + 1] < file[b + 1 + 1])
      \/ /\ r \in b + 1 + 1 .. n - 1 /\ file[r + 1] < file[b + 1 + 1]
         /\ \A j \in b + 1 + 1 .. n - 1 : file[j + 1] < file[b + 1 + 1] => r <= j
  BY <1>1, <1>2, FirstOffsetIs
<1>4. q = found(t, r) \/ (r = n /\ q = n - 1)
  BY DEF playbackFindTime
<1> HIDE DEF r
<1>5. b + 1 < n => file[b + 1 + 1] = v(b + 1)
  <2>1. b + 1 < n => b + 1 \in 0 .. n - 1
    OBVIOUS
  <2> HIDE DEF v
  <2> QED
    BY <1>1, <2>1
<1>6. \/ r = b + 1 /\ (b + 1 < n => \A j \in b + 1 + 1 .. n - 1 : ~(v(j) < v(b + 1)))
      \/ /\ r \in b + 1 + 1 .. n - 1 /\ v(r) < v(b + 1)
         /\ \A j \in b + 1 + 1 .. n - 1 : v(j) < v(b + 1) => r <= j
  <2>0. \A j \in b + 1 + 1 .. n - 1 : j \in 0 .. n - 1
    OBVIOUS
  <2>1. CASE r = b + 1 /\ \A j \in b + 1 + 1 .. n - 1 : ~(file[j + 1] < file[b + 1 + 1])
    <3> HIDE DEF v
    <3> QED
      BY <1>1, <1>5, <2>0, <2>1
  <2>2. CASE /\ r \in b + 1 + 1 .. n - 1 /\ file[r + 1] < file[b + 1 + 1]
             /\ \A j \in b + 1 + 1 .. n - 1 : file[j + 1] < file[b + 1 + 1] => r <= j
    <3>1. b + 1 < n
      BY <2>2
    <3> HIDE DEF v
    <3> QED
      BY <1>1, <1>5, <2>0, <2>2, <3>1
  <2> QED
    BY <1>3, <2>1, <2>2
<1>7. r = IF b >= s THEN b + 1 ELSE s
  <2>1. CASE b >= s
    BY <1>1, <1>6, <2>1
  <2>2. CASE b < s /\ b + 1 = s
    BY <1>1, <1>6, <2>2
  <2>3. CASE b < s /\ b + 1 # s
    <3>1. s \in b + 1 + 1 .. n - 1 /\ v(s) < v(b + 1)
      BY <1>1, <2>3
    <3>2. r \in b + 1 + 1 .. n - 1 /\ v(r) < v(b + 1) /\ r <= s
      <4>1. b + 1 < n
        BY <3>1
      <4> HIDE DEF v
      <4> QED
        BY <1>6, <3>1, <4>1
    <3> QED
      BY <1>1, <2>3, <3>2
  <2> QED
    BY <2>1, <2>2, <2>3
<1>8. r \in 0 .. n
  BY <1>1, <1>7
<1>9. r # n \/ q # n - 1
  <2>1. ASSUME r = n, q = n - 1 PROVE FALSE
    BY <1>1, <1>7, <2>1
  <2> QED
    BY <2>1
<1>10. q = found(t, r)
  BY <1>4, <1>9
<1>11. /\ q \in 0 .. n - 1 /\ file[q + 1] >= t
       /\ q >= r => \A j \in 0 .. n - 1 : r <= j /\ j < q => file[j + 1] < t
       /\ q < r => \A j \in 0 .. n - 1 : r <= j \/ j < q => file[j + 1] < t
  BY <1>1, <1>8, <1>10, FoundIs
<1>12. v(b) < t /\ v(q) >= t /\ file[b + 1] = v(b) /\ file[q + 1] = v(q)
  BY <1>1, <1>11
<1>13. q - 1 \in 0 .. n - 1 /\ v(q - 1) < t
  <2>1. q - 1 \in 0 .. n - 1 /\ q - 1 < q
    BY <1>11
  <2>2. CASE q - 1 = b
    BY <1>12, <2>1, <2>2
  <2>3. CASE q - 1 # b
    <3>2. CASE b >= s
      <4>1. q >= r /\ r <= q - 1
        BY <1>7, <1>11, <2>3, <3>2
      <4>2. file[q - 1 + 1] < t
        BY <1>11, <2>1, <4>1
      <4> HIDE DEF v
      <4> QED
        BY <1>1, <2>1, <4>2
    <3>3. CASE b < s /\ q < r
      <4>1. file[q - 1 + 1] < t
        BY <1>11, <2>1, <3>3
      <4> HIDE DEF v
      <4> QED
        BY <1>1, <2>1, <4>1
    <3>4. CASE b < s /\ ~(q < r)
      BY <1>1, <1>7, <1>11, <1>12, <3>4
    <3> QED
      BY <3>2, <3>3, <3>4
  <2> QED
    BY <2>1, <2>2, <2>3
<1>14. b >= s \/ q < s
  BY <1>1, <1>11, <1>12
<1>15. v(q) = t
  BY <1>11, <1>12, <1>13, <1>14
<1>16. ASSUME NEW i \in b .. q PROVE file[i + 1] = file[b + 1] + (i - b)
  <2>1. i \in 0 .. n - 1 /\ v(i) = v(b) + (i - b)
    BY <1>11, <1>14
  <2>2. file[i + 1] = v(i)
    BY <1>1, <2>1
  <2> HIDE DEF v
  <2> QED
    BY <1>12, <2>1, <2>2
<1> HIDE DEF v
<1> QED
  BY <1>11, <1>12, <1>15, <1>16 DEF Ascends

(* The window of a start time and an end time.                             *)
LEMMA WindowIs ==
    ASSUME NEW s \in Nat, NEW m \in Nat, Rotated(file, s, m),
           NEW n \in Nat, n = Len(file), n > 0,
           NEW from \in Int, from <= m + n - 1, NEW to, NEW w \in window(from, to),
           NEW e, e = IF m < from THEN from ELSE m
    PROVE  /\ w[1] \in 0 .. n - 1 /\ file[w[1] + 1] = e
           /\ to \in Int /\ e < to /\ w[1] < w[2] =>
                /\ w[2] \in 0 .. n - 1 /\ file[w[2] + 1] = to
                /\ \A i \in w[1] .. w[2] : file[i + 1] = e + (i - w[1])
<1> DEFINE first == playbackFindFirstOffset(0)
           at == found(from, first)
           begin == IF at = None THEN 0 ELSE at
           stream == IF at = None THEN first ELSE at + 1
           notFound == IF first = 0 THEN 0 ELSE begin - 1
           ends == playbackFindTime(to, playbackFindFirstOffset(stream))
           last == IF to = None THEN Positions
                   ELSE {IF q = None THEN notFound ELSE q : q \in ends}
<1>1. w \in {begin} \X last
  BY DEF window
<1>2. first = s
  BY RotatedFirst
<1>3. at \in 0 .. n - 1 /\ file[at + 1] = e
  <2>1. /\ found(from, s) \in 0 .. n - 1
        /\ file[found(from, s) + 1] = IF m < from THEN from ELSE m
    BY BeginsAt
  <2> QED
    BY <1>2, <2>1
<1> HIDE DEF first, at
<1>4. at # None
  BY <1>3, NoneAssumption
<1>5. begin = at /\ stream = at + 1
  BY <1>4
<1>6. notFound \in Int /\ ~(at < notFound)
  BY <1>3, <1>5
<1> HIDE DEF begin, stream, notFound, ends, last
<1>7. w[1] = at /\ w[2] \in last
  BY <1>1, <1>5
<1>8. ASSUME to \in Int, e < to, at < w[2]
      PROVE  /\ w[2] \in 0 .. n - 1 /\ file[w[2] + 1] = to
             /\ \A i \in at .. w[2] : file[i + 1] = e + (i - at)
  <2>1. to # None
    BY <1>8, NoneAssumption
  <2>2. PICK q \in ends : w[2] = IF q = None THEN notFound ELSE q
    BY <1>7, <2>1 DEF last
  <2>3. q # None /\ w[2] = q
    BY <1>6, <1>8, <2>2
  <2>5. file[at + 1] < to /\ at < q
    BY <1>3, <1>8, <2>3
  <2>6. /\ q \in 0 .. n - 1 /\ file[q + 1] = to
        /\ \A i \in at .. q : file[i + 1] = file[at + 1] + (i - at)
    <3>1. PICK b \in 0 .. n - 1 : b = at
      BY <1>3
    <3>2. /\ file[b + 1] < to /\ b < q
          /\ q \in playbackFindTime(to, playbackFindFirstOffset(b + 1))
      BY <1>5, <2>5, <3>1 DEF ends
    <3>3. Ascends(b, q, to)
      BY <1>8, <2>3, <3>2, EndsAt
    <3> QED
      BY <3>1, <3>3, Zenon DEF Ascends
  <2> QED
    BY <1>3, <2>3, <2>6
<1> QED
  BY <1>3, <1>7, <1>8

LEMMA WindowInductive ==
    IInv /\ Bounded /\ Playable /\ WindowStart /\ WindowEnd /\ [Next]_vars
      => WindowStart' /\ WindowEnd'
<1> SUFFICES ASSUME IInv, Bounded, Playable, WindowStart, WindowEnd, [Next]_vars
             PROVE  WindowStart' /\ WindowEnd'
  OBVIOUS
<1>1. CASE Player
  <2>1. /\ UNCHANGED <<file, header, damaged, raced, event_cnt, start, end, start_pos,
                       end_pos>>
        /\ oldest' = oldest /\ records' = records /\ phase = "play" /\ playing
        /\ earliest' = earliest
    BY <1>1, PlayKeeps DEF playing, earliest
  <2>2. /\ pos \in Nat /\ Len(heard) \in Nat /\ Len(file) \in Nat
        /\ phase' = "play" \/ phase' = "exited"
    BY <1>1, PlayStep
  <2>3. heard \in Seq(Records) /\ heard' \in Seq(Records)
    <3>1. Bounded'
      BY BoundedInductive
    <3> QED
      BY <3>1 DEF Bounded, TypeOK, Records
  <2>4. /\ heard = <<>> <=> Len(heard) = 0
        /\ heard' = <<>> <=> Len(heard') = 0
    BY <2>3
  <2>a. CASE /\ pos < Len(file) /\ pos' = pos + 1
             /\ Len(heard') = Len(heard) + 1
             /\ \A i \in 1 .. Len(heard) : heard'[i] = heard[i]
             /\ heard'[Len(heard) + 1] = file[pos + 1]
             /\ phase' = "exited" <=> pos + 1 \in {start_pos, end_pos}
    <3>1. ASSUME start # None, ~raced, \E r \in records : r >= start
          PROVE  /\ start_pos < Len(file) /\ file[start_pos + 1] = earliest
                 /\ heard' # <<>> /\ heard'[1] = earliest
      <4>1. /\ start_pos < Len(file) /\ file[start_pos + 1] = earliest
            /\ heard = <<>> => pos = start_pos
            /\ heard # <<>> => heard[1] = earliest
        BY <2>1, <3>1 DEF WindowStart
      <4>2. heard' # <<>>
        BY <2>2, <2>4, <2>a
      <4>3. CASE heard = <<>>
        BY <2>4, <2>a, <4>1, <4>2, <4>3
      <4>4. CASE heard # <<>>
        <5>1. 1 \in 1 .. Len(heard)
          BY <2>2, <2>4, <4>4
        <5> QED
          BY <2>a, <4>1, <4>2, <4>4, <5>1
      <4> QED
        BY <4>3, <4>4
    <3>2. WindowStart'
      BY <2>1, <3>1 DEF WindowStart
    <3>3. ASSUME windowed'
          PROVE  /\ end_pos < Len(file)
                 /\ \A i \in start_pos .. end_pos : file[i + 1] = earliest + (i - start_pos)
                 /\ file[end_pos + 1] = end
                 /\ pos' = start_pos + Len(heard')
                 /\ \A i \in 1 .. Len(heard') : heard'[i] = earliest + (i - 1)
                 /\ IF phase' = "play" THEN pos' < end_pos ELSE pos' = end_pos
      <4>0. start_pos \in Int /\ end_pos \in Int /\ start_pos < end_pos
        BY <2>1, <3>3 DEF windowed, Bounded, TypeOK, Positions
      <4>1. /\ end_pos < Len(file)
            /\ \A i \in start_pos .. end_pos : file[i + 1] = earliest + (i - start_pos)
            /\ file[end_pos + 1] = end
            /\ pos = start_pos + Len(heard)
            /\ \A i \in 1 .. Len(heard) : heard[i] = earliest + (i - 1)
            /\ pos < end_pos
        BY <2>1, <3>3 DEF WindowEnd, windowed
      <4>2. pos \in start_pos .. end_pos /\ pos - start_pos = Len(heard)
        BY <2>2, <4>0, <4>1
      <4>3. file[pos + 1] = earliest + Len(heard)
        BY <4>1, <4>2
      <4>4. ASSUME NEW i \in 1 .. Len(heard) + 1 PROVE heard'[i] = earliest + (i - 1)
        <5>1. CASE i = Len(heard) + 1
          <6>1. i - 1 = Len(heard)
            BY <2>2, <5>1
          <6> QED
            BY <2>a, <4>3, <5>1, <6>1
        <5>2. CASE i # Len(heard) + 1
          <6>1. i \in 1 .. Len(heard)
            BY <2>2, <5>2
          <6> QED
            BY <2>a, <4>1, <6>1
        <5> QED
          BY <5>1, <5>2
      <4>5. pos + 1 # start_pos /\ pos' = start_pos + Len(heard')
        BY <2>2, <2>a, <4>0, <4>1
      <4>6. IF phase' = "play" THEN pos' < end_pos ELSE pos' = end_pos
        BY <2>2, <2>a, <4>0, <4>1, <4>5
      <4> QED
        BY <2>a, <4>1, <4>4, <4>5, <4>6
    <3>4. WindowEnd'
      BY <2>1, <3>3 DEF WindowEnd
    <3> QED
      BY <3>2, <3>4
  <2>b. CASE pos = Len(file) /\ heard' = heard
    <3>1. ASSUME start # None, ~raced, \E r \in records : r >= start
          PROVE  /\ start_pos < Len(file) /\ file[start_pos + 1] = earliest
                 /\ heard # <<>> /\ heard[1] = earliest
      <4>1. /\ start_pos < Len(file) /\ file[start_pos + 1] = earliest
            /\ heard = <<>> => pos = start_pos
            /\ heard # <<>> => heard[1] = earliest
        BY <2>1, <3>1 DEF WindowStart
      <4> QED
        BY <2>2, <2>b, <4>1
    <3>2. WindowStart'
      BY <2>1, <2>b, <3>1 DEF WindowStart
    <3>3. ASSUME windowed' PROVE FALSE
      <4>1. pos < end_pos /\ end_pos < Len(file)
        BY <2>1, <3>3 DEF WindowEnd, windowed
      <4>2. end_pos \in Int
        BY DEF Bounded, TypeOK, Positions
      <4> QED
        BY <2>2, <2>b, <4>1, <4>2
    <3> QED
      BY <3>2, <3>3 DEF WindowEnd
  <2> QED
    BY <1>1, <2>a, <2>b, PlayStep
<1>2. CASE playbackGo
  <2>1. /\ UNCHANGED <<file, header, damaged, raced, event_cnt, made, epc, heard>>
        /\ phase = "stopped" /\ phase' = "play" /\ file # <<>> /\ ~damaged
    BY <1>2 DEF playbackGo, fileVars, engineVars, handlerVars
  <2>2. /\ oldest' = oldest /\ records' = records /\ heard = <<>> /\ heard' = <<>>
    BY <2>1 DEF inFile, recording, oldest, records, Bounded
  <2>3. ASSUME start' # None, ~raced, \E r \in records : r >= start'
        PROVE  /\ start_pos' < Len(file) /\ file[start_pos' + 1] = earliest'
               /\ pos' = start_pos'
               /\ end' # None /\ start_pos' < end_pos'
                  /\ (\E r \in records : r >= start' /\ r < end')
                  => /\ end_pos' < Len(file)
                     /\ \A i \in start_pos' .. end_pos' :
                           file[i + 1] = earliest' + (i - start_pos')
                     /\ file[end_pos' + 1] = end'
                     /\ pos' = start_pos' + 0 /\ pos' < end_pos'
    <3>1. /\ Rotated(file, rotation, oldest) /\ rotation \in Nat /\ oldest \in Nat
          /\ Len(file) \in Nat /\ Len(file) > 0
      BY <2>1, <2>3, LayoutRotated
    <3>2. records = oldest .. oldest + Len(file) - 1
      BY <3>1, RotatedRecords
    <3>3. /\ start' \in Int /\ (end' # None => end' \in Int)
          /\ pos' = IF start_pos' < Len(file) THEN start_pos' ELSE start_pos' - 1
          /\ \E w \in window(start', end') : start_pos' = w[1] /\ end_pos' = w[2]
      BY <1>2, <2>3, Chosen DEF Times
    <3> HIDE DEF rotation, oldest, records
    <3>4. PICK from \in Int : from = start'
      BY <3>3
    <3>5. PICK to : to = end'
      OBVIOUS
    <3>6. PICK w \in window(from, to) : start_pos' = w[1] /\ end_pos' = w[2]
      BY <3>3, <3>4, <3>5
    <3>7. PICK e : e = IF oldest < from THEN from ELSE oldest
      OBVIOUS
    <3>8. earliest' = e
      BY <2>2, <3>4, <3>7 DEF earliest
    <3>9. from <= oldest + Len(file) - 1
      BY <2>3, <3>1, <3>2, <3>4
    <3>10. /\ w[1] \in 0 .. Len(file) - 1 /\ file[w[1] + 1] = e
           /\ to \in Int /\ e < to /\ w[1] < w[2] =>
                /\ w[2] \in 0 .. Len(file) - 1 /\ file[w[2] + 1] = to
                /\ \A i \in w[1] .. w[2] : file[i + 1] = e + (i - w[1])
      BY <3>1, <3>7, <3>9, WindowIs
    <3>11. w[1] < Len(file) /\ w[1] + 0 = w[1]
      BY <3>1, <3>10
    <3>12. ASSUME to # None, w[1] < w[2], \E r \in records : r >= from /\ r < to
           PROVE  /\ w[2] < Len(file) /\ file[w[2] + 1] = to
                  /\ \A i \in w[1] .. w[2] : file[i + 1] = e + (i - w[1])
      <4>1. to \in Int
        BY <3>3, <3>5, <3>12
      <4>2. e < to
        BY <3>1, <3>2, <3>7, <3>12, <4>1
      <4>3. w[2] \in 0 .. Len(file) - 1 => w[2] < Len(file)
        BY <3>1
      <4> QED
        BY <3>10, <3>12, <4>1, <4>2, <4>3
    <3> QED
      BY <3>3, <3>4, <3>5, <3>6, <3>8, <3>10, <3>11, <3>12
  <2>4. WindowStart'
    BY <2>1, <2>2, <2>3 DEF WindowStart
  <2>5. ASSUME windowed'
        PROVE  /\ end_pos' < Len(file)
               /\ \A i \in start_pos' .. end_pos' :
                     file[i + 1] = earliest' + (i - start_pos')
               /\ file[end_pos' + 1] = end'
               /\ pos' = start_pos' + 0 /\ pos' < end_pos'
    BY <2>1, <2>2, <2>3, <2>5 DEF windowed
  <2>6. Len(heard') = 0 /\ \A i \in 1 .. 0 : heard'[i] = earliest' + (i - 1)
    BY <2>2
  <2>7. WindowEnd'
    BY <2>1, <2>5, <2>6 DEF WindowEnd
  <2> QED
    BY <2>4, <2>7
<1>3. CASE Engine \/ handleSignal \/ Handler \/ crash
  <2>1. ~playing'
    BY <1>3 DEF Engine, engineIO, recordTest, recordSeek, recordWrite, recordEnd,
                handleSignal, Handler, shutdownFill, shutdownSeek, shutdownWrite, exit,
                crash, playing
  <2> QED
    BY <2>1 DEF WindowStart, WindowEnd, windowed
<1>4. CASE UNCHANGED vars
  <2>1. UNCHANGED <<phase, pos, heard, playing>>
    BY <1>4 DEF vars, playVars, playing
  <2>2. /\ UNCHANGED <<file, raced, start, end, start_pos, end_pos>>
        /\ records' = records /\ earliest' = earliest
    BY <1>4, PlayKeeps DEF earliest
  <2> QED
    BY <2>1, <2>2 DEF WindowStart, WindowEnd, windowed
<1> QED
  BY <1>1, <1>2, <1>3, <1>4 DEF Next

(* With a start time playbackGo begins with the first record that is not   *)
(* earlier; and if the position of the end time is behind it, exactly the  *)
(* records between the two times are played, wherever in the file they are *)
(* and however often the recording has gone round.                         *)
THEOREM WindowIsPlayed == Spec => []WindowPlayed
<1>1. Init => WindowStart /\ WindowEnd
  BY DEF Init, WindowStart, WindowEnd, windowed, playing
<1>2. IInv /\ Bounded /\ Playable /\ WindowStart /\ WindowEnd => WindowPlayed
  <2> DEFINE later(t) == {r \in records : r >= t}
  <2> SUFFICES ASSUME IInv, Bounded, Playable, WindowStart, WindowEnd,
                      start # None, ~raced, heard # <<>>
               PROVE  /\ later(start) # {} => heard[1] = Min(later(start))
                      /\ /\ phase = "exited" /\ end # None /\ start_pos < end_pos
                         /\ later(start) \ later(end) # {}
                         => {heard[i] : i \in 1 .. Len(heard)} = later(start) \ later(end)
    BY DEF WindowPlayed
  <2>1. playing
    BY DEF Bounded, TypeOK, playing
  <2>2. /\ Rotated(file, rotation, oldest) /\ rotation \in Nat /\ oldest \in Nat
        /\ Len(file) \in Nat /\ Len(file) > 0
    BY <2>1, LayoutRotated DEF Playable
  <2>3. records = oldest .. oldest + Len(file) - 1
    BY <2>2, RotatedRecords
  <2>4. start \in Int /\ (end # None => end \in Int) /\ Len(heard) \in Nat
    BY DEF Bounded, TypeOK, Times
  <2> HIDE DEF oldest, rotation, records
  <2>5. earliest \in Int /\ earliest >= oldest /\ earliest >= start
        /\ \A r \in records : r >= start => r >= earliest
    BY <2>2, <2>3, <2>4 DEF earliest
  <2>6. ASSUME later(start) # {} PROVE heard[1] = Min(later(start))
    <3>1. heard[1] = earliest
      BY <2>1, <2>6 DEF WindowStart
    <3>2. earliest \in records
      <4>1. PICK r \in records : r >= start
        BY <2>6
      <4> QED
        BY <2>2, <2>3, <2>4, <4>1 DEF earliest
    <3>3. /\ later(start) \in SUBSET Int /\ earliest \in later(start)
          /\ \A y \in later(start) : earliest <= y
      BY <2>2, <2>3, <2>4, <2>5, <3>2
    <3> HIDE DEF later
    <3>4. Min(later(start)) = earliest
      BY <3>3, LeastIs
    <3> QED
      BY <3>1, <3>4
  <2>7. ASSUME phase = "exited", end # None, start_pos < end_pos,
               later(start) \ later(end) # {}
        PROVE  {heard[i] : i \in 1 .. Len(heard)} = later(start) \ later(end)
    <3>1. PICK r \in records : r >= start /\ ~(r >= end)
      BY <2>7
    <3>2. r < end
      BY <2>2, <2>3, <2>4, <2>7, <3>1
    <3>3. windowed
      BY <2>1, <2>7, <3>1, <3>2 DEF windowed
    <3>4. /\ end_pos < Len(file)
          /\ \A i \in start_pos .. end_pos : file[i + 1] = earliest + (i - start_pos)
          /\ file[end_pos + 1] = end
          /\ pos = start_pos + Len(heard) /\ pos = end_pos
          /\ \A i \in 1 .. Len(heard) : heard[i] = earliest + (i - 1)
      BY <2>7, <3>3 DEF WindowEnd
    <3>5. start_pos \in Int /\ end_pos \in Int /\ pos \in Nat
      BY <2>1 DEF Bounded, TypeOK, Positions, playing
    <3>6. end_pos \in start_pos .. end_pos /\ end_pos - start_pos = Len(heard)
      BY <2>4, <2>7, <3>4, <3>5
    <3>7. end = earliest + Len(heard)
      BY <3>4, <3>6
    <3>8. end <= oldest + Len(file) - 1
      <4>1. 0 <= end_pos /\ end_pos + 1 \in 1 .. Len(file)
        BY <2>2, <3>4, <3>5
      <4>2. file[end_pos + 1] \in records
        BY <4>1 DEF records
      <4> QED
        BY <2>2, <2>3, <3>4, <4>2
    <3>9. later(start) \ later(end) = earliest .. end - 1
      <4>1. ASSUME NEW x \in earliest .. end - 1 PROVE x \in later(start) \ later(end)
        BY <2>2, <2>3, <2>4, <2>5, <2>7, <3>8
      <4>2. ASSUME NEW x \in later(start) \ later(end) PROVE x \in earliest .. end - 1
        BY <2>2, <2>3, <2>4, <2>5, <2>7
      <4> QED
        BY <4>1, <4>2
    <3>10. \A i \in 1 .. Len(heard) : heard[i] \in earliest .. end - 1
      BY <2>4, <2>5, <3>4, <3>7
    <3>11. ASSUME NEW x \in earliest .. end - 1
           PROVE  \E i \in 1 .. Len(heard) : heard[i] = x
      <4>1. PICK i \in 1 .. Len(heard) : i = x - earliest + 1
        BY <2>4, <2>5, <3>7
      <4>2. earliest + (i - 1) = x
        BY <2>5, <4>1
      <4> QED
        BY <3>4, <4>2
    <3> HIDE DEF later
    <3> QED
      BY <3>9, <3>10, <3>11
  <2> QED
    BY <2>6, <2>7
<1> QED
  BY <1>1, <1>2, AlwaysWhole, WindowInductive, PTL DEF Spec
=============================================================================
