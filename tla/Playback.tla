------------------------------ MODULE Playback ------------------------------
(***************************************************************************)
(* server/playback.c: the engine thread records every event in a file      *)
(* that is meant to be a ring of MAX_PLAYBACK_EVENTS records; the main     *)
(* thread completes the header in its signal handler while the engine      *)
(* thread may be in the middle of a record.  Later another peepd plays the *)
(* file back.                                                              *)
(*                                                                         *)
(* A record is the time of its event, and the n-th event happens at time   *)
(* n.  A position in the file is the number of records before it: 0 is     *)
(* right behind the header, Len(file) the end, and -1 the start of the     *)
(* file.  What a write in the wrong place leaves behind is not modelled    *)
(* further than that the file is damaged.                                  *)
(***************************************************************************)
EXTENDS Integers, Sequences, FiniteSetsExt

CONSTANTS MAX_PLAYBACK_EVENTS,
          MaxEvents,    \* how many events are recorded at most
          Errnos,       \* what errno may be when playback hits the end
          None

ASSUME MaxAssumption == MAX_PLAYBACK_EVENTS \in Nat \ {0}
ASSUME MaxEventsAssumption == MaxEvents \in Nat
ASSUME ErrnosAssumption == Errnos \subseteq {"EINTR", "other"}
ASSUME NoneAssumption == None \notin Int

StartOfFile == -1
Times == 1 .. MaxEvents + 1
Positions == StartOfFile .. MaxEvents

VARIABLES file, header,        \* the file: its records and its header
          pos,                 \* ftell (stream)
          damaged,
          made,                \* events that engineIO was given
          event_cnt, loopback_flag,
          epc,                 \* step of the engine thread
          hpc,                 \* step of the main thread's signal handler
          closing,             \* the header as the handler fills it in
          raced,               \* the handler interrupted a record
          phase,               \* "record", "stopped", "play", "exited"
          start, end,          \* --start-time and --end-time
          start_pos, end_pos,  \* locals of playbackGo
          errno,
          heard, replayed      \* records played; the last one played again

fileVars == <<file, header, damaged>>
engineVars == <<made, event_cnt, loopback_flag, epc>>
handlerVars == <<hpc, closing, raced>>
playVars == <<start, end, start_pos, end_pos, errno, heard, replayed>>
vars == <<fileVars, pos, engineVars, handlerVars, phase, playVars>>

EmptyHeader == [start_pos |-> 0, end_t |-> 0, written |-> 0]

(* playbackFileInit in RECORD_MODE: the header is on disk at once. *)
Init ==
    /\ file = <<>> /\ header = EmptyHeader /\ damaged = FALSE
    /\ pos = 0
    /\ made = 0 /\ event_cnt = 0 /\ loopback_flag = FALSE
    /\ epc = "idle"
    /\ hpc = "none" /\ closing = EmptyHeader /\ raced = FALSE
    /\ phase = "record"
    /\ start = None /\ end = None /\ start_pos = 0 /\ end_pos = StartOfFile
    /\ errno \in Errnos
    /\ heard = <<>> /\ replayed = FALSE

cancelled == hpc # "none"

(***************************************************************************)
(* Recording.  playbackRecordEvent runs in the engine thread.              *)
(***************************************************************************)
(* engineIO is given an event; a cancelled thread ends while it waits. *)
engineIO ==
    /\ phase = "record" /\ epc = "idle" /\ ~cancelled
    /\ made < MaxEvents
    /\ made' = made + 1
    /\ epc' = "test"
    /\ UNCHANGED <<fileVars, pos, event_cnt, loopback_flag, handlerVars,
                   phase, playVars>>

(* Fault: >= for ==, the position is reset for every further event. *)
recordTestAgain ==
    /\ phase = "record" /\ epc = "test"
    /\ loopback_flag' = (loopback_flag \/ event_cnt >= MAX_PLAYBACK_EVENTS)
    /\ epc' = IF event_cnt >= MAX_PLAYBACK_EVENTS THEN "seek" ELSE "write"
    /\ UNCHANGED <<fileVars, pos, made, event_cnt, handlerVars, phase,
                   playVars>>

(* The counter is compared with the maximum: only the one event that finds
   it equal is written to the front. *)
recordTest ==
    /\ phase = "record" /\ epc = "test"
    /\ loopback_flag' = (loopback_flag \/ event_cnt = MAX_PLAYBACK_EVENTS)
    /\ epc' = IF event_cnt = MAX_PLAYBACK_EVENTS THEN "seek" ELSE "write"
    /\ UNCHANGED <<fileVars, pos, made, event_cnt, handlerVars, phase,
                   playVars>>

recordSeek ==
    /\ phase = "record" /\ epc = "seek"
    /\ pos' = 0
    /\ epc' = "write"
    /\ UNCHANGED <<fileVars, made, event_cnt, loopback_flag, handlerVars,
                   phase, playVars>>

(* fwrite: overwrites the record at the position or extends the file.  In
   front of the header's place, the header is overwritten instead. *)
written(f, p, e) ==
    IF p < Len(f) THEN [f EXCEPT ![p + 1] = e] ELSE Append(f, e)

recordWrite ==
    /\ phase = "record" /\ epc = "write"
    /\ IF pos = StartOfFile
       THEN damaged' = TRUE /\ UNCHANGED <<file, pos>>
       ELSE /\ file' = written(file, pos, made)
            /\ pos' = pos + 1
            /\ UNCHANGED damaged
    /\ epc' = "flush"
    /\ UNCHANGED <<header, made, event_cnt, loopback_flag, handlerVars,
                   phase, playVars>>

(* Fault: the event is counted twice. *)
recordEndTwice ==
    /\ phase = "record" /\ epc = "flush"
    /\ event_cnt' = event_cnt + 2 /\ epc' = "idle"
    /\ UNCHANGED <<fileVars, pos, made, loopback_flag, handlerVars, phase,
                   playVars>>

(* The write inside fflush is where a cancelled thread may end. *)
recordEnd ==
    /\ phase = "record" /\ epc = "flush"
    /\ \/ event_cnt' = event_cnt + 1 /\ epc' = "idle"
       \/ cancelled /\ epc' = "gone" /\ UNCHANGED event_cnt
    /\ UNCHANGED <<fileVars, pos, made, loopback_flag, handlerVars, phase,
                   playVars>>

(***************************************************************************)
(* The end of the recording.  handleSignal cancels the engine thread but   *)
(* does not wait for it; then it calls playbackFileShutdown.               *)
(***************************************************************************)
handleSignal ==
    /\ phase = "record" /\ hpc = "none"
    /\ hpc' = "fill"
    /\ raced' = (epc # "idle")
    /\ UNCHANGED <<fileVars, pos, engineVars, closing, phase, playVars>>

(* Fault: the start of the ring is not looked for. *)
shutdownFillFirst ==
    /\ phase = "record" /\ hpc = "fill"
    /\ closing' = [start_pos |-> 0, end_t |-> made + 1, written |-> event_cnt]
    /\ hpc' = "seek"
    /\ UNCHANGED <<fileVars, pos, engineVars, raced, phase, playVars>>

shutdownFill ==
    /\ phase = "record" /\ hpc = "fill"
    /\ closing' = [start_pos |-> IF loopback_flag THEN pos ELSE 0,
                   end_t |-> made + 1,
                   written |-> event_cnt]
    /\ hpc' = "seek"
    /\ UNCHANGED <<fileVars, pos, engineVars, raced, phase, playVars>>

(* Fault: the header is written without a seek. *)
shutdownSeekMissing ==
    /\ phase = "record" /\ hpc = "seek"
    /\ hpc' = "write"
    /\ UNCHANGED <<fileVars, pos, engineVars, closing, raced, phase, playVars>>

shutdownSeek ==
    /\ phase = "record" /\ hpc = "seek"
    /\ pos' = StartOfFile
    /\ hpc' = "write"
    /\ UNCHANGED <<fileVars, engineVars, closing, raced, phase, playVars>>

shutdownWrite ==
    /\ phase = "record" /\ hpc = "write"
    /\ IF pos = StartOfFile
       THEN header' = closing /\ pos' = 0 /\ UNCHANGED damaged
       ELSE damaged' = TRUE /\ UNCHANGED <<header, pos>>
    /\ hpc' = "exit"
    /\ UNCHANGED <<file, engineVars, closing, raced, phase, playVars>>

exit ==
    /\ phase = "record" /\ hpc = "exit"
    /\ phase' = "stopped"
    /\ UNCHANGED <<fileVars, pos, engineVars, handlerVars, playVars>>

(* peepd is killed, or the machine goes down.  A record or a header that was
   not flushed is not on disk, as if the crash had come before its fwrite. *)
crash ==
    /\ phase = "record"
    /\ phase' = "stopped"
    /\ UNCHANGED <<fileVars, pos, engineVars, handlerVars, playVars>>

(***************************************************************************)
(* Playback.                                                               *)
(***************************************************************************)
(* Fault: takes the file for one that never went round. *)
playbackFindFirstOffsetNever(p) == p

(* The position of the first record that is earlier than the one at p, the
   position the stream is at; p if there is none. *)
playbackFindFirstOffset(p) ==
    LET earlier == {i \in p + 1 .. Len(file) - 1 : file[i + 1] < file[p + 1]}
    IN IF earlier = {} THEN p ELSE Min(earlier)

(* The position of the first record of time t or later, once around the file
   from position s; None stands for the 0 that is returned. *)
found(t, s) ==
    LET n == Len(file)
        hits == {k \in 0 .. n - 1 : file[((s + k) % n) + 1] >= t}
    IN IF hits = {} THEN None ELSE (s + Min(hits)) % n

(* At the end of the file the first fread fails and the uninitialised record
   may look late enough: the last record is returned. *)
playbackFindTime(t, s) ==
    {found(t, s)} \cup IF s = Len(file) THEN {Len(file) - 1} ELSE {}

(* The values start_pos and end_pos get when a start time is given.  Without
   an end time end_pos is not initialised. *)
window(from, to) ==
    LET first == playbackFindFirstOffset(0)
        at == found(from, first)
        begin == IF at = None THEN 0 ELSE at
        stream == IF at = None THEN first ELSE at + 1
        notFound == IF first = 0 THEN 0 ELSE begin - 1
        ends == playbackFindTime(to, playbackFindFirstOffset(stream))
    IN {begin} \X
       (IF to = None THEN Positions
        ELSE {IF q = None THEN notFound ELSE q : q \in ends})

(* No start time: from the position in the header if the file was closed, and
   to a position that is never reached. *)
wholeFile ==
    {<<IF header.end_t # 0 THEN header.start_pos ELSE playbackFindFirstOffset(0),
       StartOfFile>>}

(* Another peepd is started in PLAY_MODE on a file that has records.  It reads
   the first record and steps back over it; if there was nothing to read it
   steps back all the same. *)
playbackGo ==
    /\ phase = "stopped" /\ ~damaged /\ file # <<>>
    /\ \E from \in Times \cup {None} :
       \E to \in IF from = None THEN {None} ELSE (from + 1 .. MaxEvents + 1) \cup {None} :
       \E w \in IF from = None THEN wholeFile ELSE window(from, to) :
          /\ start' = from /\ end' = to
          /\ start_pos' = w[1] /\ end_pos' = w[2]
          /\ pos' = IF w[1] < Len(file) THEN w[1] ELSE w[1] - 1
    /\ phase' = "play"
    /\ UNCHANGED <<fileVars, engineVars, handlerVars, errno, heard, replayed>>

(* Fault: the end position is not looked at. *)
loopEndAround(p) == phase' = IF p = start_pos THEN "exited" ELSE phase

(* The condition at the foot of the loop; after it main returns. *)
loopEnd(p) == phase' = IF p \in {start_pos, end_pos} THEN "exited" ELSE phase

playRecord ==
    /\ phase = "play" /\ pos < Len(file)
    /\ heard' = Append(heard, file[pos + 1])
    /\ pos' = pos + 1
    /\ loopEnd(pos + 1)
    /\ UNCHANGED <<fileVars, engineVars, handlerVars, start, end, start_pos,
                   end_pos, errno, replayed>>

(* fread fails at the end of the file.  It does not set errno there. *)
playRewind ==
    /\ phase = "play" /\ pos = Len(file) /\ errno = "EINTR"
    /\ pos' = 0
    /\ loopEnd(0)
    /\ UNCHANGED <<fileVars, engineVars, handlerVars, playVars>>

playAgain ==
    /\ phase = "play" /\ pos = Len(file) /\ errno # "EINTR"
    /\ replayed' = TRUE
    /\ loopEnd(pos)
    /\ UNCHANGED <<fileVars, pos, engineVars, handlerVars, start, end,
                   start_pos, end_pos, errno, heard>>

Engine == engineIO \/ recordTest \/ recordSeek \/ recordWrite \/ recordEnd
Handler == shutdownFill \/ shutdownSeek \/ shutdownWrite \/ exit
Player == playRecord \/ playRewind \/ playAgain
Next == Engine \/ handleSignal \/ Handler \/ crash \/ playbackGo \/ Player

Spec == Init /\ [][Next]_vars
(* A peepd that plays back has nothing else to do and is given the processor. *)
FairSpec == Spec /\ WF_vars(Player)

(***************************************************************************)
(* Properties.                                                             *)
(***************************************************************************)
TypeOK ==
    /\ file \in Seq(1 .. MaxEvents) /\ damaged \in BOOLEAN
    /\ pos \in StartOfFile .. Len(file)
    /\ {header, closing} \subseteq
         [start_pos : Positions, end_t : Nat, written : 0 .. MaxEvents]
    /\ made \in 0 .. MaxEvents /\ event_cnt \in 0 .. made
    /\ epc \in {"idle", "test", "seek", "write", "flush", "gone"}
    /\ hpc \in {"none", "fill", "seek", "write", "exit"}
    /\ {loopback_flag, raced, replayed} \subseteq BOOLEAN
    /\ phase \in {"record", "stopped", "play", "exited"}
    /\ {start, end} \subseteq Times \cup {None}
    /\ start_pos \in Positions /\ end_pos \in Positions
    /\ errno \in Errnos
    /\ heard \in Seq(1 .. MaxEvents)

records == {file[i] : i \in 1 .. Len(file)}
(* The events a ring of MAX_PLAYBACK_EVENTS records has to hold. *)
newest == {e \in 1 .. event_cnt : e > made - MAX_PLAYBACK_EVENTS}

(* However often the writer has passed the end of the ring, and wherever a
   crash or the signal handler stops it, the newest MAX_PLAYBACK_EVENTS events
   that playbackRecordEvent has finished are in the file; a handler that
   interrupts a record can cost one of them (its position has become that of
   the first record) or, if it has just moved to the header, the file. *)
NewestKept ==
    ~damaged => Cardinality(newest \ records) <= (IF raced THEN 1 ELSE 0)

(* The handler cannot damage a file whose engine thread was waiting. *)
OnlyRacesDamage == damaged => raced

(* Where playback starts in time order: after a crash, and after a regular end
   if fewer than twice MAX_PLAYBACK_EVENTS events came. *)
startKnown ==
    /\ ~raced
    /\ header.end_t # 0 => event_cnt < 2 * MAX_PLAYBACK_EVENTS

(* Without a start time what is played begins with the oldest record of the
   file and follows the order of recording without a gap, across the end of the
   file too; if playback ends at all, every record has been heard. *)
PlayedInOrder ==
    start = None /\ startKnown /\ heard # <<>> =>
      /\ heard = [i \in 1 .. Len(heard) |-> Min(records) + i - 1]
      /\ phase = "exited" => {heard[i] : i \in 1 .. Len(heard)} = records

(* With a start and an end time the first record heard is the first one not
   earlier than the start time, if there is one; and a playback that ends in
   front of the record it was to end at has heard every record between the two
   times and no other, unless there is none. *)
WindowPlayed ==
    start # None /\ ~raced /\ heard # <<>> =>
      LET later(t) == {r \in records : r >= t}
      IN /\ later(start) # {} => heard[1] = Min(later(start))
         /\ /\ phase = "exited" /\ end # None /\ start_pos < end_pos
            /\ later(start) \ later(end) # {}
            => {heard[i] : i \in 1 .. Len(heard)} = later(start) \ later(end)

(* Playback ends if an end time is given and its position lies behind the one
   it starts at; or else if errno happens to be EINTR at the end of the file. *)
PlaybackEnds ==
    /\ phase = "play"
    /\ errno = "EINTR" \/ (end # None /\ start_pos < end_pos)
    ~> phase = "exited"
=============================================================================
