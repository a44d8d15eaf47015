---------------------------- MODULE EngineMixer ----------------------------
(***************************************************************************)
(* The two threads that share the event channels of peepd: the engine      *)
(* thread (main.c engineLoop, engine.c engineIO) assigns an event to an    *)
(* idle channel or puts it into the mixer queue, the mixer thread (main.c  *)
(* doMixing, mixer.c mixer) plays the channels sample by sample and, when  *)
(* a sound ends, takes the next event from the queue.                      *)
(*                                                                         *)
(* mixerAddEvent, mixerRemoveEvent and engineSchedulerInit run in both     *)
(* threads; t names the thread, chan[t] the channel it works on (bestc or  *)
(* j), ev[t] its event.  A step ends wherever the other thread can see a   *)
(* difference: at every unlocked read of shared state and inside the mlock *)
(* section of mixerAddEvent, which the mixer reads without the mutex.      *)
(* The queue is the pool that MixerQueue is shown to implement.            *)
(***************************************************************************)
EXTENDS Integers, FiniteSets

CONSTANTS no_ebuffs,   \* number of event channels
          queueSize,   \* capacity of the mixer queue
          MaxEvents,   \* how many events the servers deliver in a behaviour
          Priors,      \* priorities a client may send
          Lens,        \* lengths of the loaded sounds, in samples
          Kinds,       \* what engineLoop can find out about an event
          Expired,     \* whether mixerAddOldEvent may find an event too old
          PosBound,    \* where a position past the end of a sound is capped
          UintRange,   \* number of values of an unsigned int
          NoEvent      \* a NULL snd_buf

STEREO == 2
Event == [id: 1 .. MaxEvents, prior: Priors, len: Lens]
Chans == 0 .. no_ebuffs - 1
Threads == {"engine", "mixer"}

ASSUME no_ebuffsAssumption == no_ebuffs \in Nat \ {0}
ASSUME queueSizeAssumption == queueSize \in Nat
ASSUME MaxEventsAssumption == MaxEvents \in Nat
ASSUME PriorsAssumption == Priors \subseteq Nat
ASSUME LensAssumption == Lens \subseteq Nat \ {0}
ASSUME PosBoundAssumption == PosBound \in Nat /\ \A l \in Lens : l < PosBound
ASSUME KindsAssumption == Kinds \subseteq {"EVENT_T", "STATE_T", "unknown"}
ASSUME ExpiredAssumption == Expired \subseteq BOOLEAN
ASSUME UintRangeAssumption == UintRange \in Nat /\ UintRange > no_ebuffs
ASSUME NoEventAssumption ==
    NoEvent \notin [id: 1 .. MaxEvents, prior: Priors, len: Lens]

VARIABLES
    snd, len, pos,      \* ebuffs[c].snd_buf (as the event it plays), .len, .pos
    dyn_buf_cnt,        \* number of channels counted as playing
    startt, priorit,    \* sched[c]: 0 when idle, else 1 for "some time"
    lastc,              \* where the next search for a channel starts
    pool,               \* the events in the mixer queue
    mlock,              \* holder of the mixer mutex, or "free"
    pc, chan, ev,       \* per thread: step, channel, event
    ind,                \* engineIO's loop counter
    mpos,               \* the position the mixer has just read
    arrived,            \* number of events delivered so far
    str,                \* what became of each event's sound string
    state,              \* the STATE_T event last applied to the state channel
    contended           \* history: see Contending

channels == <<snd, len, pos, dyn_buf_cnt, mlock>>
sched == <<startt, priorit>>
vars == <<channels, sched, lastc, pool, pc, chan, ev, ind, mpos, arrived,
          str, state, contended>>

Init ==
    /\ snd = [c \in Chans |-> NoEvent]
    /\ len = [c \in Chans |-> 0]
    /\ pos = [c \in Chans |-> 0]
    /\ dyn_buf_cnt = 0
    /\ startt = [c \in Chans |-> 0]
    /\ priorit = [c \in Chans |-> 0]
    /\ lastc = 0
    /\ pool = {}
    /\ mlock = "free"
    /\ pc = [engine |-> "wait", mixer |-> "visit"]
    /\ chan = [engine |-> -1, mixer |-> 0]
    /\ ev = [t \in Threads |-> NoEvent]
    /\ ind = 0
    /\ mpos = 0
    /\ arrived = 0
    /\ str = [i \in 1 .. MaxEvents |-> "none"]
    /\ state = 0
    /\ contended = FALSE

goto(t, step) == pc' = [pc EXCEPT ![t] = step]

-----------------------------------------------------------------------------
(* Procedures of mixer.c and engine.c that both threads run.               *)

(* mixerAddEvent: "Is the voicing free?", asked without mlock.  Both       *)
(* callers ignore the result, so MIXER_CHAN_BUSY is followed by "sched".   *)
mixerAddEvent(t) ==
    /\ pc[t] = "add"
    /\ goto(t, IF snd[chan[t]] # NoEvent THEN "sched" ELSE "store")
    /\ UNCHANGED <<channels, sched, lastc, pool, chan, ev, ind, mpos,
                   arrived, str, state>>

(* threadLock (&mlock), then the first of the stores. *)
mixerAddEventLock(t) ==
    /\ pc[t] = "store"
    /\ mlock = "free"
    /\ mlock' = t
    /\ snd' = [snd EXCEPT ![chan[t]] = ev[t]]
    /\ goto(t, "fill")
    /\ UNCHANGED <<len, pos, dyn_buf_cnt, sched, lastc, pool, chan, ev, ind,
                   mpos, arrived, str, state>>

(* Mutant: mlock is not given back. *)
mixerAddEventFillNoUnlock(t) ==
    /\ pc[t] = "fill"
    /\ len' = [len EXCEPT ![chan[t]] = ev[t].len]
    /\ dyn_buf_cnt' = (dyn_buf_cnt + 1) % UintRange
    /\ goto(t, "sched")
    /\ UNCHANGED <<snd, pos, mlock, sched, lastc, pool, chan, ev, ind, mpos,
                   arrived, str, state>>

(* The other stores (pos is not among them), then the unlock. *)
mixerAddEventFill(t) ==
    /\ pc[t] = "fill"
    /\ len' = [len EXCEPT ![chan[t]] = ev[t].len]
    /\ dyn_buf_cnt' = (dyn_buf_cnt + 1) % UintRange
    /\ mlock' = "free"
    /\ goto(t, "sched")
    /\ UNCHANGED <<snd, pos, sched, lastc, pool, chan, ev, ind, mpos,
                   arrived, str, state>>

(* Mutant: only the engine thread marks the channel. *)
scheduleEventEngineOnly(t) ==
    /\ pc[t] = "sched"
    /\ startt' = [startt EXCEPT ![chan[t]] = IF t = "engine" THEN 1 ELSE @]
    /\ priorit' = [priorit EXCEPT ![chan[t]] = ev[t].prior]
    /\ goto(t, "free")
    /\ UNCHANGED <<channels, lastc, pool, chan, ev, ind, mpos, arrived, str,
                   state>>

(* The assignment to sched[] that follows mixerAddEvent in both callers. *)
scheduleEvent(t) ==
    /\ pc[t] = "sched"
    /\ startt' = [startt EXCEPT ![chan[t]] = 1]
    /\ priorit' = [priorit EXCEPT ![chan[t]] = ev[t].prior]
    /\ goto(t, "free")
    /\ UNCHANGED <<channels, lastc, pool, chan, ev, ind, mpos, arrived, str,
                   state>>

(* mixerRemoveEvent, under mlock... *)
mixerRemoveEvent(t) ==
    /\ pc[t] = "remove"
    /\ mlock = "free"
    /\ snd' = [snd EXCEPT ![chan[t]] = NoEvent]
    /\ len' = [len EXCEPT ![chan[t]] = 0]
    /\ pos' = [pos EXCEPT ![chan[t]] = 0]
    /\ dyn_buf_cnt' = (dyn_buf_cnt + UintRange - 1) % UintRange
    /\ goto(t, "unsched")
    /\ UNCHANGED <<mlock, sched, lastc, pool, chan, ev, ind, mpos, arrived,
                   str, state>>

(* ... and its call of engineSchedulerInit (j, 0, 0, 0).  tlock is held    *)
(* for these assignments and those of scheduleEvent only, so each section  *)
(* is one step; the return that leaves tlock locked is for sched == NULL,  *)
(* and engineInit has allocated sched before the threads are started.      *)
engineSchedulerInit(t) ==
    /\ pc[t] = "unsched"
    /\ startt' = [startt EXCEPT ![chan[t]] = 0]
    /\ priorit' = [priorit EXCEPT ![chan[t]] = 0]
    /\ goto(t, IF t = "engine" THEN "add" ELSE "queue")
    /\ UNCHANGED <<channels, lastc, pool, chan, ev, ind, mpos, arrived, str,
                   state>>

-----------------------------------------------------------------------------
(* The engine thread: engineLoop and engineIO.                             *)

deliver(e, fate) ==
    /\ pc["engine"] = "wait"
    /\ e.id = arrived + 1
    /\ arrived' = e.id
    /\ str' = [str EXCEPT ![e.id] = fate]

(* engineLoop gets an event whose sound is not in the sound table or has   *)
(* another type: "continue", without freeing the sound string.             *)
engineLoopDiscard(e) ==
    /\ "unknown" \in Kinds
    /\ deliver(e, "lost")
    /\ UNCHANGED <<channels, sched, lastc, pool, pc, chan, ev, ind, mpos,
                   state>>

(* engineIO on a STATE_T event: the state channel's settings change and    *)
(* the string is freed.                                                    *)
engineIOState(e) ==
    /\ "STATE_T" \in Kinds
    /\ deliver(e, "freed")
    /\ state' = e.id
    /\ UNCHANGED <<channels, sched, lastc, pool, pc, chan, ev, ind, mpos>>

(* engineIO on an EVENT_T event: the search for a channel begins. *)
engineIOEvent(e) ==
    /\ "EVENT_T" \in Kinds
    /\ deliver(e, "held")
    /\ ev' = [ev EXCEPT !["engine"] = e]
    /\ chan' = [chan EXCEPT !["engine"] = -1]
    /\ ind' = 0
    /\ goto("engine", "scan")
    /\ UNCHANGED <<channels, sched, lastc, pool, mpos, state>>

(* "Now choose the sound with the lowest priority": the two tests that may *)
(* replace bestc by c.                                                     *)
bestcAfter(bestc, c) ==
    IF bestc = 0 /\ \/ priorit[bestc] < priorit[c]
                    \/ priorit[bestc] = priorit[c] /\ startt[bestc] > startt[c]
    THEN c ELSE bestc

(* One iteration of the search.  sched[] is read without tlock. *)
engineIOScan ==
    /\ pc["engine"] = "scan"
    /\ LET c == (lastc + ind) % no_ebuffs
           best == IF startt[c] = 0 THEN c
                   ELSE bestcAfter(chan["engine"], c)
           found == startt[c] = 0 \/ (ind = no_ebuffs - 1 /\ best # -1)
       IN  /\ chan' = [chan EXCEPT !["engine"] = best]
           /\ ind' = (ind + 1) % no_ebuffs
           /\ lastc' = IF found THEN (best + 1) % no_ebuffs ELSE lastc
           /\ goto("engine", IF found THEN "claim"
                             ELSE IF ind = no_ebuffs - 1 THEN "full"
                             ELSE "scan")
    /\ UNCHANGED <<channels, sched, pool, ev, mpos, arrived, str, state>>

(* Mutant: the queue counts as full one event too late. *)
engineIOFullLate ==
    /\ pc["engine"] = "full"
    /\ IF Cardinality(pool) > queueSize
       THEN /\ goto("engine", "wait")
            /\ str' = [str EXCEPT ![ev["engine"].id] = "lost"]
       ELSE /\ goto("engine", "enqueue")
            /\ UNCHANGED str
    /\ UNCHANGED <<channels, sched, lastc, pool, chan, ev, ind, mpos,
                   arrived, state>>

(* bestc == -1: a full queue discards the event, string and all. *)
engineIOFull ==
    /\ pc["engine"] = "full"
    /\ IF Cardinality(pool) = queueSize
       THEN /\ goto("engine", "wait")
            /\ str' = [str EXCEPT ![ev["engine"].id] = "lost"]
       ELSE /\ goto("engine", "enqueue")
            /\ UNCHANGED str
    /\ UNCHANGED <<channels, sched, lastc, pool, chan, ev, ind, mpos,
                   arrived, state>>

(* Mutant: no early return, so the string is freed as well. *)
engineIOEnqueueFallsThrough ==
    /\ pc["engine"] = "enqueue"
    /\ pool' = pool \union {ev["engine"]}
    /\ goto("engine", "free")
    /\ UNCHANGED <<channels, sched, lastc, chan, ev, ind, mpos, arrived, str,
                   state>>

(* Otherwise the event is queued and engineIO returns, string untouched. *)
engineIOEnqueue ==
    /\ pc["engine"] = "enqueue"
    /\ pool' = pool \union {ev["engine"]}
    /\ goto("engine", "wait")
    /\ UNCHANGED <<channels, sched, lastc, chan, ev, ind, mpos, arrived, str,
                   state>>

(* "Interrupt the channel if playing": sched[bestc] is read again. *)
engineIOInterrupt ==
    /\ pc["engine"] = "claim"
    /\ goto("engine", IF startt[chan["engine"]] # 0 THEN "remove" ELSE "add")
    /\ UNCHANGED <<channels, sched, lastc, pool, chan, ev, ind, mpos,
                   arrived, str, state>>

engineIOEnd ==
    /\ pc["engine"] = "free"
    /\ str' = [str EXCEPT ![ev["engine"].id] = "freed"]
    /\ goto("engine", "wait")
    /\ UNCHANGED <<channels, sched, lastc, pool, chan, ev, ind, mpos,
                   arrived, state>>

-----------------------------------------------------------------------------
(* The mixer thread: mixer and mixerAddOldEvent.                           *)

(* Mutants: the channel index is not wrapped; not advanced. *)
nextChanNoWrap == [chan EXCEPT !["mixer"] = @ + 1]
nextChanStuck == chan

(* The for loop over the channels, inside the loop over the samples. *)
nextChan == [chan EXCEPT !["mixer"] = (@ + 1) % no_ebuffs]

(* "Should we skip this sound?" *)
mixerVisit ==
    /\ pc["mixer"] = "visit"
    /\ IF snd[chan["mixer"]] = NoEvent
       THEN chan' = nextChan /\ UNCHANGED pc
       ELSE goto("mixer", "play") /\ UNCHANGED chan
    /\ UNCHANGED <<channels, sched, lastc, pool, ev, ind, mpos, arrived, str,
                   state>>

(* snd_buf[pos] is read again, once for each ear; with snd_buf gone the    *)
(* process is.                                                             *)
mixerPlay ==
    /\ pc["mixer"] = "play"
    /\ goto("mixer", IF snd[chan["mixer"]] = NoEvent THEN "crash" ELSE "load")
    /\ UNCHANGED <<channels, sched, lastc, pool, chan, ev, ind, mpos, arrived,
                   str, state>>

(* pos += STEREO loads the position afresh ... *)
mixerLoad ==
    /\ pc["mixer"] = "load"
    /\ mpos' = pos[chan["mixer"]]
    /\ goto("mixer", "move")
    /\ UNCHANGED <<channels, sched, lastc, pool, chan, ev, ind, arrived, str,
                   state>>

(* ... and stores it.  Past every length the position is capped, it can no *)
(* longer meet len.                                                        *)
advance(p) == IF p + STEREO > PosBound THEN PosBound ELSE p + STEREO

mixerMove ==
    /\ pc["mixer"] = "move"
    /\ pos' = [pos EXCEPT ![chan["mixer"]] = advance(mpos)]
    /\ goto("mixer", "done")
    /\ UNCHANGED <<snd, len, dyn_buf_cnt, mlock, sched, lastc, pool, chan, ev,
                   ind, mpos, arrived, str, state>>

(* "See if a sound is done": pos and len are both read again. *)
mixerDone ==
    /\ pc["mixer"] = "done"
    /\ IF pos[chan["mixer"]] = len[chan["mixer"]]
       THEN goto("mixer", "remove") /\ UNCHANGED chan
       ELSE goto("mixer", "visit") /\ chan' = nextChan
    /\ UNCHANGED <<channels, sched, lastc, pool, ev, ind, mpos, arrived, str,
                   state>>

(* mixerQueueEmpty. *)
mixerQueueTest ==
    /\ pc["mixer"] = "queue"
    /\ IF pool = {}
       THEN goto("mixer", "visit") /\ chan' = nextChan
       ELSE goto("mixer", "dequeue") /\ UNCHANGED chan
    /\ UNCHANGED <<channels, sched, lastc, pool, ev, ind, mpos, arrived, str,
                   state>>

(* mixerAddOldEvent: mixerDequeue and the test of the event's age. *)
mixerAddOldEvent ==
    /\ pc["mixer"] = "dequeue"
    /\ \E e \in pool, expired \in Expired :
          /\ pool' = pool \ {e}
          /\ ev' = [ev EXCEPT !["mixer"] = e]
          /\ goto("mixer", IF expired THEN "free" ELSE "add")
    /\ UNCHANGED <<channels, sched, lastc, chan, ind, mpos, arrived, str,
                   state>>

(* The string and the event are freed; on to the next channel. *)
mixerAddOldEventEnd ==
    /\ pc["mixer"] = "free"
    /\ str' = [str EXCEPT ![ev["mixer"].id] = "freed"]
    /\ goto("mixer", "visit")
    /\ chan' = nextChan
    /\ UNCHANGED <<channels, sched, lastc, pool, ev, ind, mpos, arrived,
                   state>>

-----------------------------------------------------------------------------
Shared(t) ==
    \/ mixerAddEvent(t) \/ mixerAddEventLock(t) \/ mixerAddEventFill(t)
    \/ scheduleEvent(t) \/ mixerRemoveEvent(t) \/ engineSchedulerInit(t)

engineLoop ==
    \E e \in Event :
        engineLoopDiscard(e) \/ engineIOState(e) \/ engineIOEvent(e)

EngineStep ==
    Shared("engine") \/ engineIOScan \/ engineIOFull \/ engineIOEnqueue
    \/ engineIOInterrupt \/ engineIOEnd

MixerStep ==
    Shared("mixer") \/ mixerVisit \/ mixerPlay \/ mixerLoad \/ mixerMove
    \/ mixerDone \/ mixerQueueTest \/ mixerAddOldEvent \/ mixerAddOldEventEnd

alive == pc["mixer"] # "crash"

(* The window in which the two threads can undo each other's work: the     *)
(* engine has chosen the channel whose sched[] entry the mixer has just    *)
(* cleared and on which it may yet place an old event.                     *)
Contending ==
    /\ pc["mixer"] \in {"queue", "dequeue", "add", "store", "fill", "sched"}
    /\ pc["engine"] \in {"claim", "remove", "unsched", "add", "store", "fill"}
    /\ chan["engine"] = chan["mixer"]

Next ==
    /\ alive
    /\ engineLoop \/ EngineStep \/ MixerStep
    /\ contended' = (contended \/ Contending')

Spec == Init /\ [][Next]_vars

(* Both threads keep running (pthreads are scheduled, mlock is held for a  *)
(* few assignments); nobody owes the engine a new event.                   *)
Fairness == /\ WF_vars(Next /\ EngineStep) /\ WF_vars(Next /\ MixerStep)

FairSpec == Spec /\ Fairness

-----------------------------------------------------------------------------
(* Properties. *)

(* The shared state and the threads' locals have the declared shapes.      *)
EngineSteps == {"wait", "scan", "full", "enqueue", "claim", "remove",
                "unsched", "add", "store", "fill", "sched", "free"}
MixerSteps == {"visit", "play", "load", "move", "done", "remove", "unsched",
               "queue", "dequeue", "add", "store", "fill", "sched", "free",
               "crash"}
TypeOK ==
    /\ snd \in [Chans -> Event \union {NoEvent}]
    /\ len \in [Chans -> Nat]
    /\ pos \in [Chans -> 0 .. PosBound]
    /\ dyn_buf_cnt \in 0 .. UintRange - 1
    /\ startt \in [Chans -> {0, 1}]
    /\ priorit \in [Chans -> Nat]
    /\ lastc \in Chans
    /\ pool \subseteq Event
    /\ mlock \in Threads \union {"free"}
    /\ pc \in [Threads -> EngineSteps \union MixerSteps]
    /\ pc["engine"] \in EngineSteps
    /\ pc["mixer"] \in MixerSteps
    /\ chan \in [Threads -> Chans \union {-1}]
    /\ chan["mixer"] \in Chans
    /\ ev \in [Threads -> Event \union {NoEvent}]
    /\ ind \in Chans
    /\ mpos \in 0 .. PosBound
    /\ arrived \in 0 .. MaxEvents
    /\ str \in [1 .. MaxEvents -> {"none", "held", "freed", "lost"}]
    /\ state \in 0 .. MaxEvents
    /\ contended \in BOOLEAN

Playing == {c \in Chans : snd[c] # NoEvent}
At(t, steps) == pc[t] \in steps
On(t, steps, c) == At(t, steps) /\ chan[t] = c
Choosing == {"claim", "remove", "unsched", "add", "store", "fill", "sched"}

(* The unlocked tests of the queue are good enough: it never holds more    *)
(* than queueSize events, and mixerAddOldEvent never finds it empty.       *)
QueueSafe ==
    /\ Cardinality(pool) <= queueSize
    /\ At("engine", {"enqueue"}) => Cardinality(pool) < queueSize
    /\ At("mixer", {"dequeue"}) => pool # {}

(* Every sound string has one owner at a time: a waiting event's string is *)
(* allocated (the mixer looks its sound up), and neither thread frees a    *)
(* string that is gone or that the other thread still has.                 *)
EngineHolds == ~At("engine", {"wait"})
MixerHolds == At("mixer", {"add", "store", "fill", "sched", "free"})
StringsOwned ==
    /\ \A e \in pool : str[e.id] = "held"
    /\ EngineHolds => str[ev["engine"].id] = "held" /\ ev["engine"] \notin pool
    /\ MixerHolds => str[ev["mixer"].id] = "held" /\ ev["mixer"] \notin pool
    /\ EngineHolds /\ MixerHolds => ev["engine"].id # ev["mixer"].id

(* As long as the engine never chose a channel that the mixer had cleared  *)
(* and not yet left, the two threads agree although sched[] and            *)
(* snd_buf are written under different mutexes and read under none:        *)
(*  - a channel that plays is marked busy, except while it is being        *)
(*    assigned, so mixerAddEvent never finds its channel busy;             *)
(*  - the engine never interrupts a sound, and the mixer never reads a     *)
(*    sound that has been taken away;                                      *)
(*  - dyn_buf_cnt is the number of playing channels.                       *)
BusyIsMarked ==
    \A c \in Playing : startt[c] = 0 =>
        On("engine", {"fill", "sched"}, c) \/ On("mixer", {"fill", "sched"}, c)
NeverBusy == \A t \in Threads : At(t, {"add", "store"}) => chan[t] \notin Playing
NeverInterrupts == ~At("engine", {"remove", "unsched"})
SoundStays ==
    At("mixer", {"play", "load", "move", "done", "remove"})
        => chan["mixer"] \in Playing
Filling == {t \in Threads : At(t, {"fill"})}
CountIsExact == dyn_buf_cnt + Cardinality(Filling) = Cardinality(Playing)
UncontendedCoherent ==
    ~contended => /\ BusyIsMarked /\ NeverBusy /\ NeverInterrupts
                  /\ SoundStays /\ alive /\ CountIsExact

(* The engine thread comes back for the next event whatever the mixer      *)
(* does, and the mixer comes round to every channel: no deadlock on mlock. *)
EngineReturns == EngineHolds ~> (At("engine", {"wait"}) \/ ~alive)
MixerGoesRound == \A c \in Chans : []<>(On("mixer", {"visit"}, c) \/ ~alive)

-----------------------------------------------------------------------------
(* What the comments and the manual say of this code, and it does not do.  *)

(* peep-server.tex: a queued event is played "as soon as a channel frees   *)
(* up", so no event waits while every channel is silent and no thread is   *)
(* about to do anything about it.                                          *)
NoneWaitsInSilence ==
    pool # {} /\ At("engine", {"wait"}) /\ At("mixer", {"visit"})
        => Playing # {}

=============================================================================
