------------------------- MODULE EngineMixerProofs -------------------------
(***************************************************************************)
(* The safety properties of the engine and mixer threads, for any number   *)
(* of channels, any queue size and any number of events.  The inductive    *)
(* invariant is built in four layers, each proved with the help of the     *)
(* ones before it: the threads' locals, the queue, the sound strings and   *)
(* the agreement on the channels.                                          *)
(***************************************************************************)
EXTENDS EngineMixer, FiniteSetTheorems, TLAPS

(* What the threads' locals hold at each step.  mlock is held exactly in   *)
(* "fill"; engineIO's bestc stays -1 as long as it searches, because the   *)
(* tests that may replace it want it to be 0 already.                      *)
Locals ==
    /\ \A t \in Threads : mlock = t <=> pc[t] = "fill"
    /\ EngineHolds => ev["engine"] \in Event /\ ev["engine"].id <= arrived
    /\ MixerHolds => ev["mixer"] \in Event /\ ev["mixer"].id <= arrived
    /\ \A e \in pool : e.id <= arrived
    /\ At("engine", Choosing) => chan["engine"] \in Chans
    /\ At("engine", {"scan"}) => chan["engine"] = -1
TypeInv == TypeOK /\ Locals

(* The queue is finite, which gives Cardinality its meaning.               *)
QueueInv == IsFiniteSet(pool) /\ QueueSafe

(* Events are told apart by their number, also from those that are still   *)
(* to come: no two owners have the same one.                               *)
StringInv ==
    /\ StringsOwned
    /\ \A e, f \in pool : e.id = f.id => e = f
    /\ EngineHolds => \A e \in pool : e.id # ev["engine"].id
    /\ MixerHolds => \A e \in pool : e.id # ev["mixer"].id

(* Why the threads agree while they do not contend: the channel the engine *)
(* has claimed is idle and unmarked until it is filled; the channel the    *)
(* mixer has cleared stays silent; the mark it is about to clear is set,   *)
(* or the engine is about to set it; and a sound that is being filled has  *)
(* length 0, so the mixer, which has just moved on, cannot find its end.   *)
Claimed ==
    /\ At("engine", {"claim", "add", "store", "fill"})
          => startt[chan["engine"]] = 0
    /\ At("engine", {"claim"}) => chan["engine"] \notin Playing
    /\ At("engine", {"fill"}) => /\ chan["engine"] \in Playing
                                 /\ len[chan["engine"]] = 0
Cleared ==
    /\ At("mixer", {"unsched", "queue", "dequeue"})
          => chan["mixer"] \notin Playing
    /\ At("mixer", {"unsched"}) => \/ startt[chan["mixer"]] = 1
                                   \/ On("engine", {"sched"}, chan["mixer"])
    /\ At("mixer", {"remove"}) => ~On("engine", {"fill"}, chan["mixer"])
    /\ At("mixer", {"fill"}) => chan["mixer"] \in Playing
SilentIsEmpty == \A c \in Chans \ Playing : len[c] = 0
Agreement ==
    /\ ~Contending
    /\ BusyIsMarked /\ NeverBusy /\ NeverInterrupts /\ SoundStays /\ alive
    /\ Claimed /\ Cleared /\ SilentIsEmpty
Moved == At("mixer", {"done"}) => pos[chan["mixer"]] # 0
CoherentInv == ~contended => Agreement /\ Moved /\ CountIsExact

-----------------------------------------------------------------------------
USE no_ebuffsAssumption, MaxEventsAssumption, UintRangeAssumption

(* The parts of an event that the threads store separately.                *)
LEMMA EventFields ==
  ASSUME NEW e \in Event
  PROVE  /\ e.id \in 1 .. MaxEvents /\ e.id \in Nat
         /\ e.prior \in Nat /\ e.len \in Nat /\ e.len \in Lens
         /\ e # NoEvent
  <1>1. e.id \in 1 .. MaxEvents /\ e.prior \in Priors /\ e.len \in Lens
    BY DEF Event
  <1>2. e # NoEvent
    BY NoEventAssumption DEF Event
  <1>3. e.id \in Nat
    BY ONLY <1>1, MaxEventsAssumption
  <1>4. e.prior \in Nat
    BY ONLY <1>1, PriorsAssumption
  <1>5. e.len \in Nat
    BY ONLY <1>1, LensAssumption
  <1> QED BY ONLY <1>1, <1>2, <1>3, <1>4, <1>5

(* The cap on positions is a number.                                       *)
LEMMA PosBoundNat == PosBound \in Nat
  BY PosBoundAssumption

(* Channel numbers and unsigned counters wrap.                             *)
LEMMA ModRange ==
  ASSUME NEW n \in Nat \ {0}, NEW i \in Nat
  PROVE  i % n \in 0 .. n - 1
  OBVIOUS

(* What a thread that runs one of the shared procedures works on.          *)
LEMMA SharedLocals ==
  ASSUME TypeInv, NEW t \in Threads
  PROVE  /\ pc[t] \in Choosing => chan[t] \in Chans
         /\ pc[t] \in {"add", "store", "fill", "sched"} => ev[t] \in Event
  BY DEF TypeInv, TypeOK, Locals, Threads, Choosing, At, EngineHolds,
         MixerHolds

(* Everything starts idle.                                                 *)
LEMMA TypeInit == Init => TypeInv
  <1> SUFFICES ASSUME Init PROVE TypeOK /\ Locals
    BY DEF TypeInv
  <1>0. pc["engine"] = "wait" /\ pc["mixer"] = "visit"
        /\ pc = [t \in Threads |-> pc[t]] /\ chan = [t \in Threads |-> chan[t]]
        /\ chan["engine"] = -1 /\ chan["mixer"] = 0
    BY DEF Init, Threads
  <1>1. TypeOK
    <2>1. pc \in [Threads -> EngineSteps \union MixerSteps]
          /\ pc["engine"] \in EngineSteps /\ pc["mixer"] \in MixerSteps
      BY <1>0 DEF Threads, EngineSteps, MixerSteps
    <2>2. chan \in [Threads -> Chans \union {-1}] /\ 0 \in Chans
      BY <1>0 DEF Threads, Chans
    <2>3. contended \in BOOLEAN
      BY DEF Init
    <2>4. /\ snd \in [Chans -> Event \union {NoEvent}]
          /\ len \in [Chans -> Nat] /\ pos \in [Chans -> 0 .. PosBound]
          /\ startt \in [Chans -> {0, 1}] /\ priorit \in [Chans -> Nat]
          /\ ev \in [Threads -> Event \union {NoEvent}]
          /\ str \in [1 .. MaxEvents -> {"none", "held", "freed", "lost"}]
      BY PosBoundNat DEF Init
    <2>5. /\ dyn_buf_cnt \in 0 .. UintRange - 1 /\ lastc \in Chans
          /\ pool \subseteq Event /\ mlock = "free" /\ ind \in Chans
          /\ mpos \in 0 .. PosBound /\ arrived \in 0 .. MaxEvents
          /\ state \in 0 .. MaxEvents
      BY <2>2, PosBoundNat DEF Init
    <2> QED BY <1>0, <2>1, <2>2, <2>3, <2>4, <2>5 DEF TypeOK
  <1>2. Locals
    BY <1>0 DEF Init, Locals, Threads, EngineHolds, MixerHolds, At, Choosing
  <1> QED BY <1>1, <1>2

(* The procedures that both threads run keep the locals' meaning.          *)
LEMMA TypeShared ==
  ASSUME TypeInv, NEW t \in Threads, Shared(t), contended' \in BOOLEAN
  PROVE  TypeInv'
  <1> USE DEF TypeInv
  <1> USE SharedLocals DEF goto, channels, sched, Choosing
  <1>0. pc \in [Threads -> EngineSteps \union MixerSteps]
        /\ pc' = [pc EXCEPT ![t] = pc'[t]]
    BY DEF TypeOK, Shared, mixerAddEvent, mixerAddEventLock, mixerAddEventFill,
           scheduleEvent, mixerRemoveEvent, engineSchedulerInit
  <1>1. CASE mixerAddEvent(t)
    <2>1. TypeOK'
      BY <1>1 DEF mixerAddEvent, TypeOK, Threads, EngineSteps, MixerSteps
    <2>2. Locals'
      BY <1>1 DEF mixerAddEvent, TypeOK, Locals, Threads, At, EngineHolds,
                  MixerHolds
    <2> QED BY <2>1, <2>2
  <1>2. CASE mixerAddEventLock(t)
    <2>1. TypeOK'
      BY <1>2 DEF mixerAddEventLock, TypeOK, Threads, EngineSteps, MixerSteps
    <2>2. Locals'
      BY <1>2 DEF mixerAddEventLock, TypeOK, Locals, Threads, At, EngineHolds,
                  MixerHolds
    <2> QED BY <2>1, <2>2
  <1>3. CASE mixerAddEventFill(t)
    <2>0. dyn_buf_cnt' \in 0 .. UintRange - 1
      BY <1>3, ModRange DEF mixerAddEventFill, TypeOK
    <2>1. TypeOK'
      BY <1>3, <2>0, EventFields
         DEF mixerAddEventFill, TypeOK, Threads, EngineSteps, MixerSteps
    <2>2. Locals'
      BY <1>3 DEF mixerAddEventFill, TypeOK, Locals, Threads, At, EngineHolds,
                  MixerHolds
    <2> QED BY <2>1, <2>2
  <1>4. CASE scheduleEvent(t)
    <2>1. TypeOK'
      BY <1>4, EventFields DEF scheduleEvent, TypeOK, Threads, EngineSteps, MixerSteps
    <2>2. Locals'
      BY <1>4 DEF scheduleEvent, TypeOK, Locals, Threads, At, EngineHolds,
                  MixerHolds
    <2> QED BY <2>1, <2>2
  <1>5. CASE mixerRemoveEvent(t)
    <2>0. dyn_buf_cnt' \in 0 .. UintRange - 1
      <3>1. dyn_buf_cnt + UintRange - 1 \in Nat /\ UintRange \in Nat \ {0}
        BY DEF TypeOK
      <3>2. (dyn_buf_cnt + UintRange - 1) % UintRange \in 0 .. UintRange - 1
        BY ONLY <3>1, ModRange
      <3> QED BY <1>5, <3>2 DEF mixerRemoveEvent
    <2>1. /\ snd' \in [Chans -> Event \union {NoEvent}]
          /\ len' \in [Chans -> Nat]
      BY <1>5 DEF mixerRemoveEvent, TypeOK
    <2>5. pos' \in [Chans -> 0 .. PosBound]
      <3>1. pos \in [Chans -> 0 .. PosBound] /\ 0 \in 0 .. PosBound
        BY PosBoundNat DEF TypeOK
      <3>2. pos' = [pos EXCEPT ![chan[t]] = 0]
        BY <1>5 DEF mixerRemoveEvent
      <3> QED BY ONLY <3>1, <3>2
    <2>3. /\ pc' \in [Threads -> EngineSteps \union MixerSteps]
          /\ pc'["engine"] \in EngineSteps
          /\ pc'["mixer"] \in MixerSteps
      BY <1>5 DEF mixerRemoveEvent, TypeOK, Threads, EngineSteps, MixerSteps
    <2>4. TypeOK'
      BY <1>5, <2>0, <2>1, <2>3, <2>5 DEF mixerRemoveEvent, TypeOK
    <2>2. Locals'
      BY <1>5 DEF mixerRemoveEvent, TypeOK, Locals, Threads, At, EngineHolds,
                  MixerHolds
    <2> QED BY <2>2, <2>4
  <1>6. CASE engineSchedulerInit(t)
    <2>1. TypeOK'
      BY <1>6 DEF engineSchedulerInit, TypeOK, Threads, EngineSteps, MixerSteps
    <2>2. Locals'
      BY <1>6 DEF engineSchedulerInit, TypeOK, Locals, Threads, At, EngineHolds,
                  MixerHolds
    <2> QED BY <2>1, <2>2
  <1> QED BY <1>1, <1>2, <1>3, <1>4, <1>5, <1>6 DEF Shared

(* So do the steps of engineLoop and engineIO.  The search ends with -1 or *)
(* with a channel that was not marked.                                     *)
LEMMA ScanResult ==
  ASSUME TypeInv, engineIOScan
  PROVE  LET c == (lastc + ind) % no_ebuffs IN
         /\ c \in Chans
         /\ ind' \in Chans /\ lastc' \in Chans
         /\ \/ /\ startt[c] = 0
               /\ chan' = [chan EXCEPT !["engine"] = c]
               /\ pc' = [pc EXCEPT !["engine"] = "claim"]
            \/ /\ startt[c] # 0
               /\ chan' = [chan EXCEPT !["engine"] = -1]
               /\ \E step \in {"scan", "full"} :
                     pc' = [pc EXCEPT !["engine"] = step]
  <1> DEFINE c == (lastc + ind) % no_ebuffs
  <1>1. pc["engine"] = "scan" /\ chan["engine"] = -1
        /\ lastc \in Nat /\ ind \in Nat /\ lastc \in Chans
    BY DEF TypeInv, TypeOK, Locals, At, engineIOScan, Chans
  <1>2. c \in 0 .. no_ebuffs - 1
    BY <1>1, ModRange
  <1>3. ind' \in 0 .. no_ebuffs - 1
    BY <1>1, ModRange DEF engineIOScan
  <1>4. CASE startt[c] = 0
    <2>1. /\ chan' = [chan EXCEPT !["engine"] = c]
          /\ lastc' = (c + 1) % no_ebuffs
          /\ pc' = [pc EXCEPT !["engine"] = "claim"]
      BY <1>4 DEF engineIOScan, goto
    <2>2. c + 1 \in Nat
      BY <1>2
    <2>3. lastc' \in 0 .. no_ebuffs - 1
      <3> HIDE DEF c
      <3> QED BY <2>1, <2>2, ModRange
    <2> QED BY <1>2, <1>3, <1>4, <2>1, <2>3 DEF Chans
  <1>5. CASE startt[c] # 0
    <2>1. bestcAfter(chan["engine"], c) = -1
      BY <1>1 DEF bestcAfter
    <2> HIDE DEF c
    <2>2. /\ chan' = [chan EXCEPT !["engine"] = -1]
          /\ lastc' = lastc
          /\ pc' = [pc EXCEPT !["engine"] = IF ind = no_ebuffs - 1 THEN "full" ELSE "scan"]
      BY <1>5, <2>1 DEF engineIOScan, goto, c
    <2> QED BY <1>1, <1>2, <1>3, <1>5, <2>2 DEF Chans, c
  <1> QED BY <1>4, <1>5

LEMMA TypeEngine ==
  ASSUME TypeInv, contended' \in BOOLEAN,
         \/ engineLoop \/ engineIOScan \/ engineIOFull \/ engineIOEnqueue
         \/ engineIOInterrupt \/ engineIOEnd
  PROVE  TypeInv'
  <1> USE DEF TypeInv, goto, channels, sched
  <1>d. ASSUME NEW e \in Event, NEW fate \in {"held", "freed", "lost"},
               deliver(e, fate)
        PROVE  /\ arrived' = e.id /\ arrived \in Nat /\ arrived' \in Nat
               /\ arrived' = arrived + 1
               /\ arrived' \in 0 .. MaxEvents
               /\ str' \in [1 .. MaxEvents -> {"none", "held", "freed", "lost"}]
               /\ \A f \in Event : f.id <= arrived => f.id <= arrived'
    BY <1>d, EventFields DEF deliver, TypeOK
  <1>1. ASSUME NEW e \in Event, engineLoopDiscard(e) \/ engineIOState(e)
        PROVE  TypeInv'
    <2>0. /\ arrived' \in 0 .. MaxEvents
          /\ str' \in [1 .. MaxEvents -> {"none", "held", "freed", "lost"}]
          /\ state' \in 0 .. MaxEvents
          /\ \A f \in Event : f.id <= arrived => f.id <= arrived'
          /\ UNCHANGED <<channels, sched, lastc, pool, pc, chan, ev, ind, mpos>>
      BY <1>1, <1>d DEF engineLoopDiscard, engineIOState, TypeOK
    <2>1. TypeOK'
      BY <2>0 DEF TypeOK
    <2>2. Locals'
      BY <2>0 DEF TypeOK, Locals, At, EngineHolds, MixerHolds
    <2> QED BY <2>1, <2>2
  <1>2. ASSUME NEW e \in Event, engineIOEvent(e) PROVE TypeInv'
    <2>0. /\ arrived' \in 0 .. MaxEvents /\ arrived' = e.id /\ e.id <= arrived'
          /\ str' \in [1 .. MaxEvents -> {"none", "held", "freed", "lost"}]
          /\ \A f \in Event : f.id <= arrived => f.id <= arrived'
          /\ ind' \in Chans
      BY <1>2, <1>d DEF engineIOEvent, Chans
    <2>1. TypeOK'
      BY <1>2, <2>0 DEF engineIOEvent, TypeOK, Threads, EngineSteps
    <2>2. Locals'
      BY <1>2, <2>0
         DEF engineIOEvent, deliver, TypeOK, Locals, At, Threads,
             EngineHolds, MixerHolds, Choosing
    <2> QED BY <2>1, <2>2
  <1>3. CASE engineIOScan
    <2> DEFINE c == (lastc + ind) % no_ebuffs
    <2>1. pc["engine"] = "scan"
          /\ UNCHANGED <<channels, sched, pool, ev, mpos, arrived, str, state>>
      BY <1>3 DEF engineIOScan
    <2>2. PICK best \in Chans \union {-1}, step \in {"claim", "scan", "full"} :
             /\ ind' \in Chans /\ lastc' \in Chans
             /\ chan' = [chan EXCEPT !["engine"] = best]
             /\ pc' = [pc EXCEPT !["engine"] = step]
             /\ step = "claim" <=> best # -1
      <3>1. c # -1
        BY <1>3, ScanResult DEF Chans
      <3> QED BY <1>3, <3>1, ScanResult
    <2>3. TypeOK'
      BY <2>1, <2>2 DEF TypeOK, Threads, EngineSteps
    <2>4. Locals'
      BY <2>1, <2>2 DEF TypeOK, Locals, At, Threads, EngineHolds, MixerHolds,
                        Choosing
    <2> QED BY <2>3, <2>4
  <1>4. CASE engineIOFull
    <2>0. ev["engine"].id \in 1 .. MaxEvents
      BY <1>4, EventFields DEF Locals, At, EngineHolds, engineIOFull
    <2>3. /\ UNCHANGED <<snd, len, pos, dyn_buf_cnt, startt, priorit, lastc, pool,
                         mlock, chan, ev, ind, mpos, arrived, state>>
          /\ pc["engine"] = "full"
      BY <1>4 DEF engineIOFull
    <2>4. PICK step \in {"wait", "enqueue"} : pc' = [pc EXCEPT !["engine"] = step]
      BY <1>4 DEF engineIOFull
    <2>5. /\ pc' \in [Threads -> EngineSteps \union MixerSteps]
          /\ pc'["engine"] = step /\ step \in EngineSteps
          /\ pc'["mixer"] = pc["mixer"]
      BY <2>4 DEF TypeOK, Threads, EngineSteps
    <2>6. str' \in [1 .. MaxEvents -> {"none", "held", "freed", "lost"}]
      BY <1>4, <2>0 DEF engineIOFull, TypeOK
    <2>1. TypeOK'
      BY <2>3, <2>5, <2>6 DEF TypeOK
    <2>2. Locals'
      BY <2>3, <2>5 DEF TypeOK, Locals, At, Threads, EngineHolds, MixerHolds,
                        Choosing
    <2> QED BY <2>1, <2>2
  <1>5. CASE engineIOEnqueue
    <2>0. ev["engine"] \in Event
      BY <1>5 DEF Locals, At, EngineHolds, engineIOEnqueue
    <2>1. TypeOK'
      BY <1>5, <2>0 DEF engineIOEnqueue, TypeOK, Threads, EngineSteps
    <2>2. Locals'
      BY <1>5 DEF engineIOEnqueue, TypeOK, Locals, At, Threads, EngineHolds,
                  MixerHolds, Choosing
    <2> QED BY <2>1, <2>2
  <1>6. CASE engineIOInterrupt
    <2>1. TypeOK'
      BY <1>6 DEF engineIOInterrupt, TypeOK, Threads, EngineSteps
    <2>2. Locals'
      BY <1>6 DEF engineIOInterrupt, TypeOK, Locals, At, Threads, EngineHolds,
                  MixerHolds, Choosing
    <2> QED BY <2>1, <2>2
  <1>7. CASE engineIOEnd
    <2>0. ev["engine"].id \in 1 .. MaxEvents
      BY <1>7, EventFields DEF Locals, At, EngineHolds, engineIOEnd
    <2>1. TypeOK'
      BY <1>7, <2>0 DEF engineIOEnd, TypeOK, Threads, EngineSteps
    <2>2. Locals'
      BY <1>7 DEF engineIOEnd, TypeOK, Locals, At, Threads, EngineHolds,
                  MixerHolds, Choosing
    <2> QED BY <2>1, <2>2
  <1> QED BY <1>1, <1>2, <1>3, <1>4, <1>5, <1>6, <1>7 DEF engineLoop

(* And those of mixer and mixerAddOldEvent.                                *)
LEMMA TypeMixer ==
  ASSUME TypeInv, contended' \in BOOLEAN,
         \/ mixerVisit \/ mixerPlay \/ mixerLoad \/ mixerMove \/ mixerDone
         \/ mixerQueueTest \/ mixerAddOldEvent \/ mixerAddOldEventEnd
  PROVE  TypeInv'
  <1> USE DEF TypeInv, goto, channels, sched
  <1>0. (chan["mixer"] + 1) % no_ebuffs \in Chans
    <2>1. chan["mixer"] + 1 \in Nat
      BY DEF TypeOK, Chans
    <2> QED BY <2>1, ModRange DEF Chans
  <1>n. /\ nextChan \in [Threads -> Chans \union {-1}]
        /\ nextChan["mixer"] \in Chans
        /\ nextChan["engine"] = chan["engine"]
    BY <1>0 DEF nextChan, TypeOK, Threads
  <1>1. CASE mixerVisit
    <2>3. /\ UNCHANGED <<snd, len, pos, dyn_buf_cnt, startt, priorit, lastc, pool,
                         mlock, ev, ind, mpos, arrived, str, state>>
          /\ chan' = nextChan \/ UNCHANGED chan
      BY <1>1 DEF mixerVisit
    <2>4. /\ pc' \in [Threads -> EngineSteps \union MixerSteps]
          /\ pc'["engine"] \in EngineSteps
          /\ pc'["mixer"] \in MixerSteps
      BY <1>1 DEF mixerVisit, TypeOK, Threads, MixerSteps
    <2>1. TypeOK'
      BY <1>n, <2>3, <2>4 DEF TypeOK
    <2>2. Locals'
      BY <1>1, <1>n DEF mixerVisit, TypeOK, Locals, At, Threads, EngineHolds,
                  MixerHolds
    <2> QED BY <2>1, <2>2
  <1>2. CASE mixerPlay
    <2>1. TypeOK'
      BY <1>2 DEF mixerPlay, TypeOK, Threads, MixerSteps
    <2>2. Locals'
      BY <1>2 DEF mixerPlay, TypeOK, Locals, At, Threads, EngineHolds,
                  MixerHolds
    <2> QED BY <2>1, <2>2
  <1>2a. CASE mixerLoad
    <2>1. TypeOK'
      BY <1>2a DEF mixerLoad, TypeOK, Threads, MixerSteps
    <2>2. Locals'
      BY <1>2a DEF mixerLoad, TypeOK, Locals, At, Threads, EngineHolds,
                   MixerHolds
    <2> QED BY <2>1, <2>2
  <1>2b. CASE mixerMove
    <2>0. advance(mpos) \in 0 .. PosBound
      BY PosBoundNat DEF advance, STEREO, TypeOK
    <2>3. pos' \in [Chans -> 0 .. PosBound]
      BY <1>2b, <2>0 DEF mixerMove, TypeOK
    <2>1. TypeOK'
      BY <1>2b, <2>3 DEF mixerMove, TypeOK, Threads, MixerSteps
    <2>2. Locals'
      BY <1>2b DEF mixerMove, TypeOK, Locals, At, Threads, EngineHolds,
                   MixerHolds
    <2> QED BY <2>1, <2>2
  <1>3. CASE mixerDone
    <2>4. /\ pc' \in [Threads -> EngineSteps \union MixerSteps]
          /\ pc'["engine"] \in EngineSteps
          /\ pc'["mixer"] \in MixerSteps
      BY <1>3 DEF mixerDone, TypeOK, Threads, MixerSteps
    <2>1. TypeOK'
      BY <1>3, <1>n, <2>4 DEF mixerDone, TypeOK
    <2>5. /\ UNCHANGED <<mlock, pool, ev, arrived>>
          /\ chan' = nextChan \/ UNCHANGED chan
          /\ pc["mixer"] = "done" /\ pc'["mixer"] \in {"remove", "visit"}
          /\ pc'["engine"] = pc["engine"]
      BY <1>3 DEF mixerDone, TypeOK, Threads
    <2>2. Locals'
      BY <1>n, <2>5 DEF Locals, At, Threads, EngineHolds, MixerHolds
    <2> QED BY <2>1, <2>2
  <1>4. CASE mixerQueueTest
    <2>3. /\ UNCHANGED <<snd, len, pos, dyn_buf_cnt, startt, priorit, lastc, pool,
                         mlock, ev, ind, mpos, arrived, str, state>>
          /\ chan' = nextChan \/ UNCHANGED chan
          /\ pc["mixer"] = "queue"
      BY <1>4 DEF mixerQueueTest
    <2>4. PICK step \in {"visit", "dequeue"} : pc' = [pc EXCEPT !["mixer"] = step]
      BY <1>4 DEF mixerQueueTest
    <2>5. /\ pc' \in [Threads -> EngineSteps \union MixerSteps]
          /\ pc'["mixer"] = step /\ step \in MixerSteps
          /\ pc'["engine"] = pc["engine"]
      BY <2>4 DEF TypeOK, Threads, MixerSteps
    <2>1. TypeOK'
      BY <1>n, <2>3, <2>5 DEF TypeOK
    <2>2. Locals'
      BY <1>n, <2>3, <2>5 DEF Locals, At, Threads, EngineHolds, MixerHolds
    <2> QED BY <2>1, <2>2
  <1>5. CASE mixerAddOldEvent
    <2>1. PICK e \in pool, step \in {"free", "add"} :
             /\ pool' = pool \ {e}
             /\ ev' = [ev EXCEPT !["mixer"] = e]
             /\ pc' = [pc EXCEPT !["mixer"] = step]
      BY <1>5 DEF mixerAddOldEvent
    <2>2. pc["mixer"] = "dequeue" /\ e \in Event
          /\ UNCHANGED <<channels, sched, lastc, chan, ind, mpos, arrived, str,
                         state>>
      BY <1>5 DEF mixerAddOldEvent, TypeOK
    <2>3. TypeOK'
      BY <2>1, <2>2 DEF TypeOK, Threads, MixerSteps
    <2>4. Locals'
      BY <2>1, <2>2 DEF TypeOK, Locals, At, Threads, EngineHolds, MixerHolds
    <2> QED BY <2>3, <2>4
  <1>6. CASE mixerAddOldEventEnd
    <2>0. ev["mixer"].id \in 1 .. MaxEvents
      BY <1>6, EventFields DEF Locals, At, MixerHolds, mixerAddOldEventEnd
    <2>1. TypeOK'
      BY <1>6, <1>n, <2>0 DEF mixerAddOldEventEnd, TypeOK, Threads, MixerSteps
    <2>2. Locals'
      BY <1>6, <1>n DEF mixerAddOldEventEnd, TypeOK, Locals, At, Threads,
                        EngineHolds, MixerHolds
    <2> QED BY <2>1, <2>2
  <1> QED BY <1>1, <1>2, <1>2a, <1>2b, <1>3, <1>4, <1>5, <1>6

(* Every step of either thread keeps the first layer.                      *)
LEMMA TypeNext == TypeInv /\ [Next]_vars => TypeInv'
  <1> SUFFICES ASSUME TypeInv, [Next]_vars PROVE TypeInv'
    OBVIOUS
  <1>1. CASE Next
    <2>1. contended' \in BOOLEAN
      BY <1>1 DEF Next, TypeInv, TypeOK
    <2>2. "engine" \in Threads /\ "mixer" \in Threads
      BY DEF Threads
    <2> QED
      BY <1>1, <2>1, <2>2, TypeShared, TypeEngine, TypeMixer
         DEF Next, EngineStep, MixerStep
  <1>2. CASE UNCHANGED vars
    BY <1>2 DEF vars, channels, sched, TypeInv, TypeOK, Locals, At,
                EngineHolds, MixerHolds
  <1> QED BY <1>1, <1>2

LEMMA AlwaysTypeInv == Spec => []TypeInv
  BY TypeInit, TypeNext, PTL DEF Spec

(* Type correctness of the engine and mixer threads (server/engine.c,      *)
(* server/mixer.c): every channel number they use is that of a channel,    *)
(* and positions and counters stay in their ranges.                        *)
THEOREM TypeCorrect == Spec => []TypeOK
  <1>1. TypeInv => TypeOK
    BY DEF TypeInv
  <1> QED BY AlwaysTypeInv, <1>1, PTL

-----------------------------------------------------------------------------
(* The queue and the sound strings.  Only three steps concern the queue.   *)
QueueSteps == engineIOFull \/ engineIOEnqueue \/ mixerQueueTest
              \/ mixerAddOldEvent

(* Any other step leaves the queue alone and brings neither thread to one  *)
(* of the steps in which it relies on the outcome of a test of the queue.  *)
LEMMA OtherSteps ==
  ASSUME TypeInv, Next, ~QueueSteps
  PROVE  /\ pool' = pool
         /\ At("engine", {"enqueue"})' => At("engine", {"enqueue"})
         /\ At("mixer", {"dequeue"})' => At("mixer", {"dequeue"})
  <1> USE DEF goto, channels, sched, At, Threads, QueueSteps
  <1>0. pc \in [Threads -> EngineSteps \union MixerSteps]
    BY DEF TypeInv, TypeOK
  <1>1. ASSUME NEW t \in Threads, Shared(t)
        PROVE  /\ pool' = pool
               /\ pc'["engine"] = "enqueue" => pc["engine"] = "enqueue"
               /\ pc'["mixer"] = "dequeue" => pc["mixer"] = "dequeue"
    BY <1>0, <1>1
       DEF Shared, mixerAddEvent, mixerAddEventLock, mixerAddEventFill,
           scheduleEvent, mixerRemoveEvent, engineSchedulerInit
  <1>2. CASE engineLoop
    BY <1>0, <1>2 DEF engineLoop, engineLoopDiscard, engineIOState, engineIOEvent
  <1>3. CASE engineIOScan
    BY <1>0, <1>3, ScanResult DEF engineIOScan
  <1>4. CASE engineIOInterrupt \/ engineIOEnd
    BY <1>0, <1>4 DEF engineIOInterrupt, engineIOEnd
  <1>5. CASE mixerVisit \/ mixerPlay \/ mixerLoad \/ mixerMove \/ mixerDone
             \/ mixerAddOldEventEnd
    BY <1>0, <1>5 DEF mixerVisit, mixerPlay, mixerLoad, mixerMove, mixerDone,
                      mixerAddOldEventEnd
  <1>6. Shared("engine") \/ Shared("mixer") =>
               /\ pool' = pool
               /\ pc'["engine"] = "enqueue" => pc["engine"] = "enqueue"
               /\ pc'["mixer"] = "dequeue" => pc["mixer"] = "dequeue"
    BY <1>1
  <1> QED
    BY <1>2, <1>3, <1>4, <1>5, <1>6 DEF Next, EngineStep, MixerStep

LEMMA QueueNext == TypeInv /\ QueueInv /\ [Next]_vars => QueueInv'
  <1> SUFFICES ASSUME TypeInv, QueueInv, [Next]_vars PROVE QueueInv'
    OBVIOUS
  <1> USE queueSizeAssumption DEF goto, channels, sched, At, QueueInv, QueueSafe
  <1>0. pc \in [Threads -> EngineSteps \union MixerSteps]
        /\ Cardinality(pool) \in Nat
    BY FS_CardinalityType DEF TypeInv, TypeOK
  <1>1. CASE engineIOFull
    BY <1>0, <1>1 DEF engineIOFull, Threads
  <1>2. CASE engineIOEnqueue
    <2>1. pool' = pool \union {ev["engine"]} /\ Cardinality(pool) < queueSize
          /\ pc'["engine"] = "wait"
      BY <1>0, <1>2 DEF engineIOEnqueue, Threads
    <2>2. /\ IsFiniteSet(pool')
          /\ \/ Cardinality(pool') = Cardinality(pool)
             \/ Cardinality(pool') = Cardinality(pool) + 1
      BY <2>1, FS_AddElement
    <2> QED BY <1>0, <2>1, <2>2
  <1>3. CASE mixerQueueTest
    BY <1>0, <1>3 DEF mixerQueueTest, Threads
  <1>4. CASE mixerAddOldEvent
    <2>1. PICK e \in pool : pool' = pool \ {e}
      BY <1>4 DEF mixerAddOldEvent
    <2>2. pc'["mixer"] # "dequeue" /\ pc'["engine"] = pc["engine"]
      BY <1>0, <1>4 DEF mixerAddOldEvent, Threads
    <2>3. IsFiniteSet(pool') /\ Cardinality(pool') = Cardinality(pool) - 1
      BY <1>0, <2>1, FS_RemoveElement
    <2> QED BY <1>0, <2>2, <2>3
  <1>5. CASE Next /\ ~QueueSteps
    BY <1>5, OtherSteps
  <1>6. CASE UNCHANGED vars
    BY <1>6 DEF vars
  <1> QED BY <1>1, <1>2, <1>3, <1>4, <1>5, <1>6 DEF QueueSteps

(* engineIO tests mixerQueueFull, and the mixer mixerQueueEmpty, without   *)
(* qlock and before they act.  The queue nevertheless never holds more     *)
(* than queueSize events and mixerDequeue never finds it empty, because    *)
(* only the engine adds and only the mixer removes.                        *)
THEOREM QueueStaysSafe == Spec => []QueueSafe
  <1>1. Init => QueueInv
    BY FS_EmptySet, queueSizeAssumption DEF Init, QueueInv, QueueSafe, At
  <1>2. QueueInv => QueueSafe
    BY DEF QueueInv
  <1> QED BY <1>1, <1>2, QueueNext, AlwaysTypeInv, PTL DEF Spec

-----------------------------------------------------------------------------
(* The steps that neither hand an event on nor touch a string.             *)
QuietSteps ==
    \/ \E t \in Threads : Shared(t)
    \/ engineIOScan \/ engineIOInterrupt
    \/ mixerVisit \/ mixerPlay \/ mixerLoad \/ mixerMove \/ mixerDone
    \/ mixerQueueTest

LEMMA QuietHolds ==
  ASSUME TypeInv, QuietSteps
  PROVE  /\ UNCHANGED <<pool, str, ev, arrived>>
         /\ EngineHolds' <=> EngineHolds
         /\ MixerHolds' <=> MixerHolds
  <1> USE DEF goto, channels, sched, At, Threads, EngineHolds, MixerHolds
  <1>0. pc \in [Threads -> EngineSteps \union MixerSteps]
    BY DEF TypeInv, TypeOK
  <1>1. CASE \E t \in Threads : Shared(t)
    <2>1. PICK t \in Threads : Shared(t)
      BY <1>1
    <2>2. UNCHANGED <<pool, str, ev, arrived>>
      BY <2>1
         DEF Shared, mixerAddEvent, mixerAddEventLock, mixerAddEventFill,
             scheduleEvent, mixerRemoveEvent, engineSchedulerInit
    <2>3. /\ \A u \in Threads : u # t => pc'[u] = pc[u]
          /\ pc[t] # "wait" /\ pc'[t] # "wait"
          /\ t = "mixer" =>
               (pc'[t] \in {"add", "store", "fill", "sched", "free"}
                  <=> pc[t] \in {"add", "store", "fill", "sched", "free"})
      BY <1>0, <2>1
         DEF Shared, mixerAddEvent, mixerAddEventLock, mixerAddEventFill,
             scheduleEvent, mixerRemoveEvent, engineSchedulerInit
    <2> QED BY <2>2, <2>3
  <1>2. CASE engineIOScan
    BY <1>0, <1>2, ScanResult DEF engineIOScan
  <1>3. CASE engineIOInterrupt
    BY <1>0, <1>3 DEF engineIOInterrupt
  <1>4. CASE mixerVisit \/ mixerPlay \/ mixerLoad \/ mixerMove \/ mixerDone
             \/ mixerQueueTest
    BY <1>0, <1>4 DEF mixerVisit, mixerPlay, mixerLoad, mixerMove, mixerDone,
                      mixerQueueTest
  <1> QED BY <1>1, <1>2, <1>3, <1>4 DEF QuietSteps

LEMMA StringNext == TypeInv /\ StringInv /\ [Next]_vars => StringInv'
  <1> SUFFICES ASSUME TypeInv, StringInv, [Next]_vars PROVE StringInv'
    OBVIOUS
  <1> USE DEF goto, channels, sched, At, EngineHolds, MixerHolds
  <1>0. /\ pc \in [Threads -> EngineSteps \union MixerSteps]
        /\ str \in [1 .. MaxEvents -> {"none", "held", "freed", "lost"}]
        /\ ev \in [Threads -> Event \union {NoEvent}]
        /\ pool \subseteq Event
        /\ arrived \in Nat
    BY DEF TypeInv, TypeOK
  <1>f. \A f \in Event : f.id \in 1 .. MaxEvents /\ f.id \in Nat
    BY EventFields
  <1>1. ASSUME NEW e \in Event, NEW fate \in {"held", "freed", "lost"},
               deliver(e, fate)
        PROVE  \A f \in Event : f.id <= arrived =>
                  str'[f.id] = str[f.id] /\ f.id # e.id
    BY <1>0, <1>1, <1>f DEF deliver
  <1>2. ASSUME NEW e \in Event, engineLoopDiscard(e) \/ engineIOState(e)
        PROVE  StringInv'
    <2>1. /\ pc["engine"] = "wait" /\ UNCHANGED <<pool, ev, pc>>
          /\ \A f \in Event : f.id <= arrived => str'[f.id] = str[f.id]
      BY <1>1, <1>2 DEF engineLoopDiscard, engineIOState, deliver
    <2> QED
      BY <1>0, <2>1 DEF StringInv, StringsOwned, TypeInv, Locals
  <1>3. ASSUME NEW e \in Event, engineIOEvent(e) PROVE StringInv'
    <2>1. /\ pc'["engine"] = "scan" /\ pc'["mixer"] = pc["mixer"]
          /\ ev'["engine"] = e /\ ev'["mixer"] = ev["mixer"]
          /\ pool' = pool /\ str'[e.id] = "held"
          /\ \A f \in Event : f.id <= arrived =>
                str'[f.id] = str[f.id] /\ f.id # e.id
      BY <1>0, <1>1, <1>3, <1>f DEF engineIOEvent, deliver, Threads
    <2> QED
      BY <1>0, <2>1 DEF StringInv, StringsOwned, TypeInv, Locals
  <1>4. CASE engineIOFull
    <2>1. PICK step \in {"wait", "enqueue"} :
             /\ pc["engine"] = "full"
             /\ pc' = [pc EXCEPT !["engine"] = step]
             /\ step = "enqueue" => str' = str
             /\ step = "wait" => str' = [str EXCEPT ![ev["engine"].id] = "lost"]
             /\ UNCHANGED <<pool, ev>>
      BY <1>4 DEF engineIOFull
    <2>2. \A f \in Event : f.id # ev["engine"].id => str'[f.id] = str[f.id]
      BY <1>0, <1>f, <2>1 DEF TypeInv, Locals
    <2>3. pc'["engine"] = step /\ pc'["mixer"] = pc["mixer"]
      BY <1>0, <2>1 DEF Threads
    <2> QED
      BY <1>0, <2>1, <2>2, <2>3 DEF StringInv, StringsOwned, TypeInv, Locals
  <1>5. CASE engineIOEnqueue
    <2>1. /\ pc["engine"] = "enqueue" /\ pc'["engine"] = "wait"
          /\ pc'["mixer"] = pc["mixer"] /\ UNCHANGED <<ev, str>>
          /\ pool' = pool \union {ev["engine"]}
      BY <1>0, <1>5 DEF engineIOEnqueue, Threads
    <2> QED
      BY <1>0, <2>1 DEF StringInv, StringsOwned
  <1>6. CASE engineIOEnd
    <2>1. /\ pc["engine"] = "free" /\ pc'["engine"] = "wait"
          /\ pc'["mixer"] = pc["mixer"] /\ UNCHANGED <<ev, pool>>
          /\ str' = [str EXCEPT ![ev["engine"].id] = "freed"]
      BY <1>0, <1>6 DEF engineIOEnd, Threads
    <2>2. \A f \in Event : f.id # ev["engine"].id => str'[f.id] = str[f.id]
      BY <1>0, <1>f, <2>1
    <2> QED
      BY <1>0, <2>1, <2>2 DEF StringInv, StringsOwned, TypeInv, Locals
  <1>7. CASE mixerAddOldEvent
    <2>1. PICK e \in pool, step \in {"free", "add"} :
             /\ pool' = pool \ {e}
             /\ ev' = [ev EXCEPT !["mixer"] = e]
             /\ pc' = [pc EXCEPT !["mixer"] = step]
             /\ str' = str
      BY <1>7 DEF mixerAddOldEvent
    <2>2. /\ pc'["mixer"] = step /\ pc'["engine"] = pc["engine"]
          /\ ev'["mixer"] = e /\ ev'["engine"] = ev["engine"]
      BY <1>0, <2>1 DEF Threads
    <2> QED
      BY <2>1, <2>2 DEF StringInv, StringsOwned
  <1>8. CASE mixerAddOldEventEnd
    <2>1. /\ pc["mixer"] = "free" /\ pc'["mixer"] = "visit"
          /\ pc'["engine"] = pc["engine"] /\ UNCHANGED <<ev, pool>>
          /\ str' = [str EXCEPT ![ev["mixer"].id] = "freed"]
      BY <1>0, <1>8 DEF mixerAddOldEventEnd, Threads
    <2>2. \A f \in Event : f.id # ev["mixer"].id => str'[f.id] = str[f.id]
      BY <1>0, <1>f, <2>1
    <2> QED
      BY <1>0, <2>1, <2>2 DEF StringInv, StringsOwned, TypeInv, Locals
  <1>9. CASE QuietSteps
    BY <1>9, QuietHolds DEF StringInv, StringsOwned
  <1>10. CASE UNCHANGED vars
    BY <1>10 DEF vars, StringInv, StringsOwned
  <1> QED
    BY <1>2, <1>3, <1>4, <1>5, <1>6, <1>7, <1>8, <1>9, <1>10
       DEF Next, engineLoop, EngineStep, MixerStep, QuietSteps, Threads

(* Every sound string has one owner: the string of a waiting event is      *)
(* still allocated, engineIO and mixerAddOldEvent free each string once,   *)
(* and never one the other thread works with.                              *)
THEOREM StringsHaveOneOwner == Spec => []StringsOwned
  <1>1. Init => StringInv
    BY DEF Init, StringInv, StringsOwned, At, EngineHolds, MixerHolds
  <1>2. StringInv => StringsOwned
    BY DEF StringInv
  <1> QED BY <1>1, <1>2, StringNext, AlwaysTypeInv, PTL DEF Spec

-----------------------------------------------------------------------------
(* The agreement of the two threads on the channels.  First the engine's   *)
(* steps, as long as they do not lead into the window of Contending.       *)
LEMMA AgreementEngine ==
  ASSUME TypeInv, Agreement, engineLoop \/ EngineStep, ~Contending'
  PROVE  Agreement'
  <1> DEFINE E == pc["engine"]
             M == pc["mixer"]
             ce == chan["engine"]
             cm == chan["mixer"]
  <1> USE DEF goto, channels, sched, At, On, Threads
  <1>0. /\ pc \in [Threads -> EngineSteps \union MixerSteps]
        /\ chan \in [Threads -> Chans \union {-1}]
        /\ snd \in [Chans -> Event \union {NoEvent}]
        /\ len \in [Chans -> Nat]
        /\ startt \in [Chans -> {0, 1}]
        /\ cm \in Chans
    BY DEF TypeInv, TypeOK
  <1>c. E \in Choosing => ce \in Chans
    BY DEF TypeInv, Locals
  <1>1. CASE engineLoop
    <2>1. /\ E = "wait" /\ pc'["engine"] \in {"wait", "scan"}
          /\ pc'["mixer"] = M /\ chan'["mixer"] = cm
          /\ UNCHANGED <<snd, len, startt>>
      BY <1>0, <1>1 DEF engineLoop, deliver, engineLoopDiscard, engineIOState,
                        engineIOEvent
    <2> QED
      BY <2>1 DEF Agreement, BusyIsMarked, NeverBusy, NeverInterrupts,
         SoundStays, alive, Claimed, Cleared, SilentIsEmpty, Playing
  <1>2. CASE mixerAddEvent("engine")
    <2>1. /\ E = "add" /\ pc'["engine"] = "store" /\ pc'["mixer"] = M
          /\ UNCHANGED <<snd, len, startt, chan>>
      BY <1>0, <1>2, <1>c DEF mixerAddEvent, Agreement, NeverBusy, Playing, Choosing
    <2> QED
      BY <2>1 DEF Agreement, BusyIsMarked, NeverBusy, NeverInterrupts,
         SoundStays, alive, Claimed, Cleared, SilentIsEmpty, Playing
  <1>3. CASE mixerAddEventLock("engine")
    <2>1. /\ E = "store" /\ pc'["engine"] = "fill" /\ pc'["mixer"] = M
          /\ UNCHANGED <<len, startt, chan>>
          /\ snd' = [snd EXCEPT ![ce] = ev["engine"]]
          /\ ev["engine"] # NoEvent /\ ce \in Chans /\ ce \notin Playing
      BY <1>0, <1>3, <1>c, EventFields
         DEF mixerAddEventLock, TypeInv, Locals, Agreement, NeverBusy, Choosing,
             EngineHolds
    <2>2. Playing' = Playing \union {ce}
      BY <1>0, <2>1 DEF Playing
    <2> QED
      BY <1>0, <2>1, <2>2 DEF Agreement, BusyIsMarked, NeverBusy, NeverInterrupts,
         SoundStays, alive, Claimed, Cleared, SilentIsEmpty, Contending
  <1>4. CASE mixerAddEventFill("engine")
    <2>1. /\ E = "fill" /\ pc'["engine"] = "sched" /\ pc'["mixer"] = M
          /\ UNCHANGED <<snd, startt, chan>>
          /\ ce \in Chans /\ ce \in Playing
          /\ \A c \in Chans : c # ce => len'[c] = len[c]
      BY <1>0, <1>4, <1>c DEF mixerAddEventFill, Agreement, Claimed, Choosing
    <2> QED
      BY <1>0, <2>1 DEF Agreement, BusyIsMarked, NeverBusy, NeverInterrupts,
         SoundStays, alive, Claimed, Cleared, SilentIsEmpty, Contending, Playing
  <1>5. CASE scheduleEvent("engine")
    <2>1. /\ E = "sched" /\ pc'["engine"] = "free" /\ pc'["mixer"] = M
          /\ UNCHANGED <<snd, len, chan>>
          /\ ce \in Chans /\ startt'[ce] = 1
          /\ \A c \in Chans : c # ce => startt'[c] = startt[c]
      BY <1>0, <1>5, <1>c DEF scheduleEvent, Choosing
    <2> QED
      BY <1>0, <2>1 DEF Agreement, BusyIsMarked, NeverBusy, NeverInterrupts,
         SoundStays, alive, Claimed, Cleared, SilentIsEmpty, Contending, Playing
  <1>6. CASE mixerRemoveEvent("engine") \/ engineSchedulerInit("engine")
    BY <1>6 DEF mixerRemoveEvent, engineSchedulerInit, Agreement, NeverInterrupts
  <1>7. CASE engineIOScan
    <2> DEFINE c == (lastc + ind) % no_ebuffs
    <2>0. /\ E = "scan" /\ pc'["mixer"] = M /\ chan'["mixer"] = cm
          /\ UNCHANGED <<snd, len, startt>>
      BY <1>0, <1>7, ScanResult DEF engineIOScan
    <2>1. CASE pc'["engine"] \in {"scan", "full"}
      BY <1>0, <2>0, <2>1 DEF Agreement, BusyIsMarked, NeverBusy, NeverInterrupts,
         SoundStays, alive, Claimed, Cleared, SilentIsEmpty, Playing
    <2>2. CASE pc'["engine"] \notin {"scan", "full"}
      <3>1. pc'["engine"] = "claim" /\ startt[c] = 0 /\ c \in Chans
            /\ chan'["engine"] = c
        BY <1>0, <1>7, <2>2, ScanResult
      <3> HIDE DEF c
      <3>2. c \notin Playing
        BY <2>0, <3>1 DEF Agreement, BusyIsMarked, Contending
      <3>3. Playing' = Playing
        BY <2>0 DEF Playing
      <3> QED
        BY <1>0, <2>0, <3>1, <3>2, <3>3
           DEF Agreement, BusyIsMarked, NeverBusy, NeverInterrupts, SoundStays,
               alive, Claimed, Cleared, SilentIsEmpty
    <2> QED BY <2>1, <2>2
  <1>8. CASE engineIOFull \/ engineIOEnqueue \/ engineIOEnd
    <2>1. /\ E \in {"full", "enqueue", "free"}
          /\ pc'["engine"] \in {"wait", "enqueue"}
          /\ pc'["mixer"] = M /\ UNCHANGED <<chan, snd, len, startt>>
      BY <1>0, <1>8 DEF engineIOFull, engineIOEnqueue, engineIOEnd
    <2> QED
      BY <2>1 DEF Agreement, BusyIsMarked, NeverBusy, NeverInterrupts,
         SoundStays, alive, Claimed, Cleared, SilentIsEmpty, Playing
  <1>9. CASE engineIOInterrupt
    <2>1. /\ E = "claim" /\ pc'["engine"] = "add"
          /\ pc'["mixer"] = M /\ UNCHANGED <<chan, snd, len, startt>>
      BY <1>0, <1>9 DEF engineIOInterrupt, Agreement, Claimed
    <2> QED
      BY <2>1 DEF Agreement, BusyIsMarked, NeverBusy, NeverInterrupts,
         SoundStays, alive, Claimed, Cleared, SilentIsEmpty, Playing
  <1> QED
    BY <1>1, <1>2, <1>3, <1>4, <1>5, <1>6, <1>7, <1>8, <1>9
       DEF EngineStep, Shared

(* Then the mixer's.  It moves on only along its own channel, and what it  *)
(* finds there has not been changed behind its back.                       *)
LEMMA AgreementMixer ==
  ASSUME TypeInv, Agreement, Moved, MixerStep, ~Contending'
  PROVE  Agreement'
  <1> DEFINE E == pc["engine"]
             M == pc["mixer"]
             ce == chan["engine"]
             cm == chan["mixer"]
  <1> USE DEF goto, channels, sched, At, On, Threads
  <1>0. /\ pc \in [Threads -> EngineSteps \union MixerSteps]
        /\ chan \in [Threads -> Chans \union {-1}]
        /\ snd \in [Chans -> Event \union {NoEvent}]
        /\ len \in [Chans -> Nat]
        /\ startt \in [Chans -> {0, 1}]
        /\ cm \in Chans
    BY DEF TypeInv, TypeOK
  <1>c. E \in Choosing => ce \in Chans
    BY DEF TypeInv, Locals
  <1>n. nextChan["engine"] = ce
    BY <1>0 DEF nextChan
  <1>1. CASE mixerAddEvent("mixer")
    <2>1. /\ M = "add" /\ pc'["mixer"] = "store" /\ pc'["engine"] = E
          /\ UNCHANGED <<snd, len, startt, chan>>
      BY <1>0, <1>1 DEF mixerAddEvent, Agreement, NeverBusy, Playing
    <2> QED
      BY <2>1 DEF Agreement, BusyIsMarked, NeverBusy, NeverInterrupts,
         SoundStays, alive, Claimed, Cleared, SilentIsEmpty, Playing
  <1>2. CASE mixerAddEventLock("mixer")
    <2>1. /\ M = "store" /\ pc'["mixer"] = "fill" /\ pc'["engine"] = E
          /\ UNCHANGED <<len, startt, chan>>
          /\ snd' = [snd EXCEPT ![cm] = ev["mixer"]]
          /\ ev["mixer"] # NoEvent /\ cm \notin Playing
      BY <1>0, <1>2, EventFields
         DEF mixerAddEventLock, TypeInv, Locals, Agreement, NeverBusy,
             MixerHolds
    <2>2. Playing' = Playing \union {cm}
      BY <1>0, <2>1 DEF Playing
    <2> QED
      BY <1>0, <1>c, <2>1, <2>2 DEF Agreement, BusyIsMarked, NeverBusy,
         NeverInterrupts, SoundStays, alive, Claimed, Cleared, SilentIsEmpty,
         Contending, Choosing
  <1>3. CASE mixerAddEventFill("mixer")
    <2>1. /\ M = "fill" /\ pc'["mixer"] = "sched" /\ pc'["engine"] = E
          /\ UNCHANGED <<snd, startt, chan>>
          /\ \A c \in Chans : c # cm => len'[c] = len[c]
      BY <1>0, <1>3 DEF mixerAddEventFill
    <2>2. E # "fill" /\ cm \in Playing
      BY <1>3 DEF mixerAddEventFill, TypeInv, Locals, Agreement, Cleared
    <2> QED
      BY <1>0, <2>1, <2>2 DEF Agreement, BusyIsMarked, NeverBusy, NeverInterrupts,
         SoundStays, alive, Claimed, Cleared, SilentIsEmpty, Contending, Playing
  <1>4. CASE scheduleEvent("mixer")
    <2>1. /\ M = "sched" /\ pc'["mixer"] = "free" /\ pc'["engine"] = E
          /\ UNCHANGED <<snd, len, chan>>
          /\ startt'[cm] = 1
          /\ \A c \in Chans : c # cm => startt'[c] = startt[c]
      BY <1>0, <1>4 DEF scheduleEvent
    <2> QED
      BY <1>0, <1>c, <2>1 DEF Agreement, BusyIsMarked, NeverBusy,
         NeverInterrupts, SoundStays, alive, Claimed, Cleared, SilentIsEmpty,
         Contending, Playing, Choosing
  <1>5. CASE mixerRemoveEvent("mixer")
    <2>1. /\ M = "remove" /\ pc'["mixer"] = "unsched" /\ pc'["engine"] = E
          /\ UNCHANGED <<startt, chan>>
          /\ snd' = [snd EXCEPT ![cm] = NoEvent]
          /\ len'[cm] = 0 /\ \A c \in Chans : c # cm => len'[c] = len[c]
          /\ cm \in Playing
      BY <1>0, <1>5 DEF mixerRemoveEvent, Agreement, SoundStays
    <2>2. Playing' = Playing \ {cm}
      BY <1>0, <2>1 DEF Playing
    <2>3. startt[cm] = 1 \/ (E = "sched" /\ ce = cm)
      BY <1>0, <2>1 DEF Agreement, BusyIsMarked, Cleared
    <2> QED
      BY <1>0, <1>c, <2>1, <2>2, <2>3 DEF Agreement, BusyIsMarked, NeverBusy,
         NeverInterrupts, SoundStays, alive, Claimed, Cleared, SilentIsEmpty,
         Choosing
  <1>6. CASE engineSchedulerInit("mixer")
    <2>1. /\ M = "unsched" /\ pc'["mixer"] = "queue" /\ pc'["engine"] = E
          /\ UNCHANGED <<snd, len, chan>>
          /\ startt'[cm] = 0
          /\ \A c \in Chans : c # cm => startt'[c] = startt[c]
      BY <1>0, <1>6 DEF engineSchedulerInit
    <2> QED
      BY <1>0, <1>c, <2>1 DEF Agreement, BusyIsMarked, NeverBusy,
         NeverInterrupts, SoundStays, alive, Claimed, Cleared, SilentIsEmpty,
         Playing, Choosing
  <1>7. CASE mixerVisit \/ mixerPlay \/ mixerLoad \/ mixerMove
    <2>1. /\ M \in {"visit", "play", "load", "move"}
          /\ pc'["mixer"] \in {"visit", "play", "load", "move", "done"}
          /\ pc'["engine"] = E /\ chan'["engine"] = ce
          /\ UNCHANGED <<snd, len, startt>>
          /\ pc'["mixer"] # "visit" => chan' = chan /\ cm \in Playing
      BY <1>0, <1>7, <1>n
         DEF mixerVisit, mixerPlay, mixerLoad, mixerMove, Agreement, SoundStays,
             Playing
    <2> QED
      BY <2>1 DEF Agreement, BusyIsMarked, NeverBusy, NeverInterrupts,
         SoundStays, alive, Claimed, Cleared, SilentIsEmpty, Playing
  <1>8. CASE mixerDone
    <2>1. /\ M = "done" /\ pc'["engine"] = E /\ chan'["engine"] = ce
          /\ UNCHANGED <<snd, len, startt>>
          /\ \/ pc'["mixer"] = "visit"
             \/ pc'["mixer"] = "remove" /\ chan' = chan
                /\ pos[cm] = len[cm]
      BY <1>0, <1>8, <1>n DEF mixerDone
    <2>2. cm \in Playing /\ pos[cm] # 0
      BY <2>1 DEF Agreement, SoundStays, Moved
    <2> QED
      BY <2>1, <2>2 DEF Agreement, BusyIsMarked, NeverBusy,
         NeverInterrupts, SoundStays, alive, Claimed, Cleared, SilentIsEmpty,
         Playing
  <1>9. CASE mixerQueueTest \/ mixerAddOldEvent \/ mixerAddOldEventEnd
    <2>1. /\ M \in {"queue", "dequeue", "free"} /\ pc'["engine"] = E
          /\ chan'["engine"] = ce /\ UNCHANGED <<snd, len, startt>>
          /\ \/ pc'["mixer"] \in {"visit", "free"}
             \/ pc'["mixer"] \in {"dequeue", "add"} /\ chan' = chan
                /\ M \in {"queue", "dequeue"}
      BY <1>0, <1>9, <1>n DEF mixerQueueTest, mixerAddOldEvent,
                              mixerAddOldEventEnd
    <2> QED
      BY <2>1 DEF Agreement, BusyIsMarked, NeverBusy, NeverInterrupts,
         SoundStays, alive, Claimed, Cleared, SilentIsEmpty, Playing
  <1> QED
    BY <1>1, <1>2, <1>3, <1>4, <1>5, <1>6, <1>7, <1>8, <1>9
       DEF MixerStep, Shared

(* The mixer has just advanced the position when it compares it with len,  *)
(* and only an interruption would have reset it.                           *)
LEMMA MovedNext ==
  ASSUME TypeInv, Agreement, Moved, engineLoop \/ EngineStep \/ MixerStep
  PROVE  Moved'
  <1> USE DEF goto, channels, sched, At, Threads
  <1>0. /\ pc \in [Threads -> EngineSteps \union MixerSteps]
        /\ chan \in [Threads -> Chans \union {-1}]
        /\ chan["mixer"] \in Chans
        /\ pos \in [Chans -> 0 .. PosBound]
    BY DEF TypeInv, TypeOK
  <1>1. CASE mixerMove
    <2>1. chan["mixer"] \in Playing
      BY <1>1 DEF mixerMove, Agreement, SoundStays
    <2>2. snd[chan["mixer"]] \in Event
      BY <2>1 DEF Playing, TypeInv, TypeOK
    <2>3. snd[chan["mixer"]].len \in Nat /\ snd[chan["mixer"]].len < PosBound
      BY <2>2, EventFields, PosBoundAssumption
    <2>4. PosBound > 0 /\ mpos \in Nat
      BY <2>3, PosBoundNat DEF TypeInv, TypeOK
    <2>5. advance(mpos) # 0
      BY <2>4, PosBoundNat DEF advance, STEREO
    <2> QED BY <1>0, <1>1, <2>5 DEF mixerMove, Moved
  <1>2. CASE mixerRemoveEvent("engine") \/ engineSchedulerInit("engine")
    BY <1>2 DEF mixerRemoveEvent, engineSchedulerInit, Agreement, NeverInterrupts
  <1>3. CASE \/ Shared("mixer") \/ mixerVisit \/ mixerPlay \/ mixerLoad
             \/ mixerDone \/ mixerQueueTest \/ mixerAddOldEvent
             \/ mixerAddOldEventEnd
    <2>1. pc'["mixer"] # "done"
      BY <1>0, <1>3
         DEF Shared, mixerAddEvent, mixerAddEventLock, mixerAddEventFill,
             scheduleEvent, mixerRemoveEvent, engineSchedulerInit, mixerVisit,
             mixerPlay, mixerLoad, mixerDone, mixerQueueTest, mixerAddOldEvent,
             mixerAddOldEventEnd
    <2> QED BY <2>1 DEF Moved
  <1>4. CASE \/ mixerAddEvent("engine") \/ mixerAddEventLock("engine")
             \/ mixerAddEventFill("engine") \/ scheduleEvent("engine")
             \/ engineIOFull \/ engineIOEnqueue \/ engineIOInterrupt
             \/ engineIOEnd \/ engineIOScan \/ engineLoop
    <2>1. /\ pc'["mixer"] = pc["mixer"] /\ chan'["mixer"] = chan["mixer"]
          /\ pos' = pos
      BY <1>0, <1>4, ScanResult
         DEF mixerAddEvent, mixerAddEventLock, mixerAddEventFill, scheduleEvent,
             engineIOFull, engineIOEnqueue, engineIOInterrupt, engineIOEnd,
             engineIOScan, engineLoop, engineLoopDiscard, engineIOState,
             engineIOEvent
    <2> QED BY <2>1 DEF Moved
  <1> QED BY <1>1, <1>2, <1>3, <1>4 DEF EngineStep, MixerStep, Shared

-----------------------------------------------------------------------------
(* mlock makes the threads fill their channels one at a time.              *)
LEMMA FillingOne ==
  TypeInv => Cardinality(Filling) = IF mlock = "free" THEN 0 ELSE 1
  <1> SUFFICES ASSUME TypeInv
               PROVE  Cardinality(Filling) = IF mlock = "free" THEN 0 ELSE 1
    OBVIOUS
  <1>1. mlock \in {"engine", "mixer", "free"}
        /\ \A t \in Threads : t \in Filling <=> mlock = t
    BY DEF TypeInv, TypeOK, Locals, Filling, At, Threads
  <1>2. CASE mlock = "free"
    <2>1. Filling = {}
      BY <1>1, <1>2 DEF Filling, Threads
    <2> QED BY <1>2, <2>1, FS_EmptySet
  <1>3. CASE mlock # "free"
    <2>1. Filling = {mlock}
      BY <1>1, <1>3 DEF Filling, Threads
    <2> QED BY <1>3, <2>1, FS_Singleton
  <1> QED BY <1>2, <1>3

(* There are at most no_ebuffs channels to play.                           *)
LEMMA PlayingFinite ==
  /\ IsFiniteSet(Playing) /\ Cardinality(Playing) \in Nat
  /\ Cardinality(Playing) <= no_ebuffs
  <1>1. 0 \in Int /\ no_ebuffs - 1 \in Int
    OBVIOUS
  <1>2. IsFiniteSet(Chans) /\ Cardinality(Chans) = no_ebuffs
    BY <1>1, FS_Interval DEF Chans
  <1>3. Playing \in SUBSET Chans
    BY DEF Playing
  <1> HIDE DEF Playing
  <1>4. IsFiniteSet(Playing) /\ Cardinality(Playing) <= Cardinality(Chans)
    BY <1>2, <1>3, FS_Subset
  <1> QED BY <1>2, <1>4, FS_CardinalityType

(* The unsigned counter neither overflows nor goes below 0.                *)
LEMMA CountUp ==
  ASSUME NEW n \in Nat, n + 1 < UintRange
  PROVE  (n + 1) % UintRange = n + 1
  OBVIOUS

LEMMA CountDown ==
  ASSUME NEW n \in Nat, n > 0, n < UintRange
  PROVE  (n + UintRange - 1) % UintRange = n - 1
  <1>1. /\ n - 1 \in 0 .. UintRange - 1 /\ UintRange \in Nat \ {0}
        /\ n + UintRange - 1 = (n - 1) + UintRange
    OBVIOUS
  <1>2. ((n - 1) + UintRange) % UintRange = n - 1
    BY <1>1
  <1> QED BY <1>1, <1>2

(* dyn_buf_cnt follows the channels: a store under mlock adds one playing  *)
(* channel that is counted before mlock is given back, a removal takes one *)
(* away together with its count.                                           *)
LEMMA CountNext ==
  ASSUME TypeInv, TypeInv', Agreement, CountIsExact,
         engineLoop \/ EngineStep \/ MixerStep
  PROVE  CountIsExact'
  <1> USE DEF goto, channels, sched
  <1>0. /\ chan \in [Threads -> Chans \union {-1}]
        /\ snd \in [Chans -> Event \union {NoEvent}]
        /\ dyn_buf_cnt \in 0 .. UintRange - 1
        /\ "engine" \in Threads /\ "mixer" \in Threads
    BY DEF TypeInv, TypeOK, Threads
  <1>f. /\ Cardinality(Filling) = IF mlock = "free" THEN 0 ELSE 1
        /\ Cardinality(Filling)' = IF mlock' = "free" THEN 0 ELSE 1
    <2>1. (Cardinality(Filling) = IF mlock = "free" THEN 0 ELSE 1)'
      BY FillingOne, PTL
    <2> QED BY <2>1, FillingOne
  <1>1. ASSUME NEW t \in Threads, mixerAddEventLock(t) PROVE CountIsExact'
    <2>1. chan[t] \in Chans /\ ev[t] # NoEvent /\ chan[t] \notin Playing
      BY <1>1, SharedLocals, EventFields
         DEF mixerAddEventLock, Choosing, Agreement, NeverBusy, At
    <2>2. Playing' = Playing \union {chan[t]}
      BY <1>0, <1>1, <2>1 DEF mixerAddEventLock, Playing
    <2>3. Cardinality(Playing') = Cardinality(Playing) + 1
      BY <2>1, <2>2, PlayingFinite, FS_AddElement
    <2>4. mlock = "free" /\ mlock' # "free" /\ dyn_buf_cnt' = dyn_buf_cnt
      BY <1>1 DEF mixerAddEventLock, Threads
    <2> QED BY <1>0, <1>f, <2>3, <2>4, PlayingFinite DEF CountIsExact
  <1>2. ASSUME NEW t \in Threads, mixerAddEventFill(t) PROVE CountIsExact'
    <2>1. mlock = t /\ t # "free" /\ mlock' = "free"
      BY <1>2 DEF mixerAddEventFill, TypeInv, Locals, Threads
    <2>2. Playing' = Playing
      BY <1>2 DEF mixerAddEventFill, Playing
    <2>3. dyn_buf_cnt + 1 = Cardinality(Playing)
      BY <1>f, <2>1 DEF CountIsExact
    <2>4. dyn_buf_cnt' = dyn_buf_cnt + 1
      BY <1>0, <1>2, <2>3, PlayingFinite, CountUp DEF mixerAddEventFill
    <2> QED BY <1>f, <2>1, <2>2, <2>3, <2>4, PlayingFinite DEF CountIsExact
  <1>3. ASSUME NEW t \in Threads, mixerRemoveEvent(t) PROVE CountIsExact'
    <2>1. t = "mixer" /\ chan[t] \in Playing /\ chan[t] \in Chans
      BY <1>3, SharedLocals
         DEF mixerRemoveEvent, Threads, Agreement, SoundStays, NeverInterrupts,
             At, Choosing
    <2>2. Playing' = Playing \ {chan[t]}
      BY <1>0, <1>3, <2>1 DEF mixerRemoveEvent, Playing
    <2>3. Cardinality(Playing') = Cardinality(Playing) - 1
      BY <2>1, <2>2, PlayingFinite, FS_RemoveElement
    <2>4. Cardinality(Playing) # 0
      BY <2>1, PlayingFinite, FS_EmptySet
    <2>5. mlock = "free" /\ mlock' = "free" /\ dyn_buf_cnt = Cardinality(Playing)
      BY <1>0, <1>3, <1>f DEF mixerRemoveEvent, CountIsExact
    <2>6. dyn_buf_cnt' = dyn_buf_cnt - 1
      BY <1>0, <1>3, <2>4, <2>5, PlayingFinite, CountDown DEF mixerRemoveEvent
    <2> QED BY <1>f, <2>3, <2>5, <2>6, PlayingFinite DEF CountIsExact
  <1>4. ASSUME NEW t \in Threads,
               mixerAddEvent(t) \/ scheduleEvent(t) \/ engineSchedulerInit(t)
        PROVE  UNCHANGED <<snd, dyn_buf_cnt, mlock>>
    BY <1>4 DEF mixerAddEvent, scheduleEvent, engineSchedulerInit
  <1>5. CASE engineLoop
    BY <1>5, <1>f DEF engineLoop, engineLoopDiscard, engineIOState, engineIOEvent,
                CountIsExact, Playing
  <1>6. CASE engineIOScan \/ engineIOFull \/ engineIOEnqueue
             \/ engineIOInterrupt \/ engineIOEnd
    BY <1>6, <1>f DEF engineIOScan, engineIOFull, engineIOEnqueue, engineIOInterrupt,
                engineIOEnd, CountIsExact, Playing
  <1>7. CASE mixerVisit \/ mixerPlay \/ mixerLoad \/ mixerMove \/ mixerDone
             \/ mixerQueueTest \/ mixerAddOldEvent \/ mixerAddOldEventEnd
    BY <1>7, <1>f DEF mixerVisit, mixerPlay, mixerLoad, mixerMove, mixerDone,
                mixerQueueTest, mixerAddOldEvent, mixerAddOldEventEnd,
                CountIsExact, Playing
  <1>8. UNCHANGED <<snd, dyn_buf_cnt, mlock>> => CountIsExact'
    BY <1>f DEF CountIsExact, Playing
  <1> QED
    BY <1>0, <1>1, <1>2, <1>3, <1>4, <1>5, <1>6, <1>7, <1>8
       DEF EngineStep, MixerStep, Shared

(* Together: the agreement lasts until the threads contend.                *)
LEMMA CoherentNext ==
  TypeInv /\ TypeInv' /\ CoherentInv /\ [Next]_vars => CoherentInv'
  <1> SUFFICES ASSUME TypeInv, TypeInv', CoherentInv, [Next]_vars, ~contended'
               PROVE  Agreement' /\ Moved' /\ CountIsExact'
    BY DEF CoherentInv
  <1>1. CASE Next
    <2>1. ~contended /\ ~Contending'
      BY <1>1 DEF Next
    <2>2. Agreement /\ Moved /\ CountIsExact
      BY <2>1 DEF CoherentInv
    <2>3. Agreement'
      BY <1>1, <2>1, <2>2, AgreementEngine, AgreementMixer DEF Next
    <2>4. CountIsExact'
      BY <1>1, <2>2, CountNext DEF Next
    <2>5. Moved'
      BY <1>1, <2>2, MovedNext DEF Next
    <2> QED BY <2>3, <2>4, <2>5
  <1>2. CASE UNCHANGED vars
    <2>1. Agreement /\ Moved /\ CountIsExact
      BY <1>2 DEF CoherentInv, vars
    <2>2. Agreement'
      BY <1>2, <2>1 DEF vars, channels, sched, Agreement, Contending,
         BusyIsMarked, NeverBusy, NeverInterrupts, SoundStays, alive, Claimed,
         Cleared, SilentIsEmpty, Playing, At, On
    <2>3. CountIsExact'
      BY <1>2, <2>1 DEF vars, channels, sched, CountIsExact, Playing, Filling, At
    <2>4. Moved'
      BY <1>2, <2>1 DEF vars, channels, Moved, At
    <2> QED BY <2>2, <2>3, <2>4
  <1> QED BY <1>1, <1>2

(* As long as the engine never chooses a channel that the mixer has just   *)
(* cleared and not yet left, the unlocked reads of sched[] and snd_buf do  *)
(* no harm, whatever the number of channels: a playing channel is marked   *)
(* busy, no sound is interrupted or taken away under the mixer, and        *)
(* dyn_buf_cnt is exact.                                                   *)
THEOREM CoherentUntilContended == Spec => []UncontendedCoherent
  <1>1. Init => CoherentInv
    <2> SUFFICES ASSUME Init PROVE Agreement /\ Moved /\ CountIsExact
      BY DEF CoherentInv
    <2>1. Playing = {} /\ pc["engine"] = "wait" /\ pc["mixer"] = "visit"
      BY DEF Init, Playing
    <2>2. Agreement
      BY <2>1 DEF Init, Agreement, Contending, BusyIsMarked, NeverBusy,
         NeverInterrupts, SoundStays, alive, Claimed, Cleared, SilentIsEmpty,
         At, On, Threads
    <2>3. Filling = {}
      BY <2>1 DEF Filling, Threads, At
    <2>4. CountIsExact
      BY <2>1, <2>3, FS_EmptySet DEF Init, CountIsExact
    <2>5. Moved
      BY <2>1 DEF Moved, At
    <2> QED BY <2>2, <2>4, <2>5
  <1>2. CoherentInv => UncontendedCoherent
    BY DEF CoherentInv, Agreement, UncontendedCoherent
  <1> QED BY <1>1, <1>2, CoherentNext, AlwaysTypeInv, PTL DEF Spec
=============================================================================
