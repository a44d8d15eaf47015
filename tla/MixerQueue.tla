----------------------------- MODULE MixerQueue -----------------------------
(***************************************************************************)
(* server/mixer_queue.c: the heap in which events wait for a mixing        *)
(* channel, with the two threads that use it.  The engine thread tests     *)
(* mixerQueueFull and then calls mixerEnqueue (engine.c, engineIO); the    *)
(* mixer thread tests mixerQueueEmpty and then calls mixerDequeue          *)
(* (mixer.c, mixer and mixerAddOldEvent).  Both tests are made WITHOUT     *)
(* qlock, the two operations hold it.  Every iteration of the loops in     *)
(* bubbleUp and bubbleDown is a step, so the heap needs no recursion.      *)
(***************************************************************************)
EXTENDS Naturals, FiniteSets

CONSTANTS queueSize,  \* slots of the heap (EVENT_QUEUE_ENTRIES)
          MaxEvents,  \* how many events reach the engine in a behaviour
          Priors,     \* the priorities a client may send
          NoEvent     \* an empty slot (NULL)

ASSUME queueSizeAssumption == queueSize \in Nat \ {0}
ASSUME MaxEventsAssumption == MaxEvents \in Nat
ASSUME PriorsAssumption == Priors \subseteq Nat
ASSUME NoEventAssumption == NoEvent \notin [id: 1 .. MaxEvents, prior: Priors]

VARIABLES heap,       \* heap[0 .. queueSize - 1]
          top,        \* number of events in the heap
          qlock,      \* holder of the mutex, or "free"
          epc,        \* where the engine thread is
          epos,       \* bubbleUp's pos
          eev,        \* new_event
          mpc,        \* where the mixer thread is
          mpos,       \* bubbleDown's pos
          res,        \* mixerDequeue's res
          arrived,    \* number of events that have reached engineIO (history)
          accepted,   \* those engineIO has not discarded (history)
          taken       \* events mixerDequeue has returned (history)

evars == <<epc, epos, eev, arrived, accepted>>
mvars == <<mpc, mpos, res, taken>>
vars == <<heap, top, qlock, evars, mvars>>

(* Events are numbered in the order in which they reach engineIO. *)
Event == [id: 1 .. MaxEvents, prior: Priors]
Slots == 0 .. queueSize - 1

-----------------------------------------------------------------------------
(* mixerQueueInit: calloc'd slots, top = 0, qlock initialised. *)
mixerQueueInit ==
    /\ heap = [i \in Slots |-> NoEvent]
    /\ top = 0
    /\ qlock = "free"

Init ==
    /\ mixerQueueInit
    /\ epc = "idle" /\ epos = 0 /\ eev = NoEvent /\ arrived = 0
    /\ accepted = {}
    /\ mpc = "idle" /\ mpos = 0 /\ res = NoEvent /\ taken = {}

(* Mutants: the tests are off by one. *)
mixerQueueEmptyLate == top < 0
mixerQueueFullLate == top > queueSize

(* The unlocked tests. *)
mixerQueueEmpty == top = 0
mixerQueueFull == top = queueSize

(* Mutant: the saved entry is not written back. *)
swapNoTemp(i, j) == [heap EXCEPT ![i] = heap[j]]

(* swap(i, j) *)
swap(i, j) == [heap EXCEPT ![i] = heap[j], ![j] = heap[i]]

-----------------------------------------------------------------------------
(* The engine thread. *)

(* An event found no channel: engineIO discards it if the queue is full... *)
engineDiscard(e) ==
    /\ epc = "idle"
    /\ e.id = arrived + 1
    /\ mixerQueueFull
    /\ arrived' = e.id
    /\ UNCHANGED <<heap, top, qlock, epc, epos, eev, accepted, mvars>>

(* ... and otherwise calls mixerEnqueue. *)
engineAccept(e) ==
    /\ epc = "idle"
    /\ e.id = arrived + 1
    /\ ~mixerQueueFull
    /\ arrived' = e.id
    /\ accepted' = accepted \union {e}
    /\ eev' = e
    /\ epc' = "lock"
    /\ UNCHANGED <<heap, top, qlock, epos, mvars>>

(* mixerEnqueue up to the call of bubbleUp. *)
mixerEnqueue ==
    /\ epc = "lock"
    /\ qlock = "free"
    /\ qlock' = "engine"
    /\ epos' = top
    /\ heap' = [heap EXCEPT ![top] = eev]
    /\ epc' = "bubbleUp"
    /\ UNCHANGED <<top, eev, arrived, accepted, mvars>>

(* parent = (pos + 1) / 2 *)
parent(pos) == (pos + 1) \div 2

(* Mutant: equal priorities are exchanged too. *)
bubbleUpTies ==
    /\ epc = "bubbleUp"
    /\ LET p == parent(epos) IN
       IF heap[p].prior >= heap[epos].prior
       THEN /\ heap' = swap(p, epos)
            /\ epos' = p
            /\ epc' = IF p = 0 THEN "top" ELSE "bubbleUp"
       ELSE /\ epc' = "top"
            /\ UNCHANGED <<heap, epos>>
    /\ UNCHANGED <<top, qlock, eev, arrived, accepted, mvars>>

(* One iteration of bubbleUp.  The branch for a negative parent cannot be  *)
(* taken; a parent equal to 0 sets done and then still compares.           *)
bubbleUp ==
    /\ epc = "bubbleUp"
    /\ LET p == parent(epos) IN
       IF heap[p].prior > heap[epos].prior
       THEN /\ heap' = swap(p, epos)
            /\ epos' = p
            /\ epc' = IF p = 0 THEN "top" ELSE "bubbleUp"
       ELSE /\ epc' = "top"
            /\ UNCHANGED <<heap, epos>>
    /\ UNCHANGED <<top, qlock, eev, arrived, accepted, mvars>>

(* top++ and the unlock. *)
mixerEnqueueEnd ==
    /\ epc = "top"
    /\ top' = top + 1
    /\ qlock' = "free"
    /\ epc' = "idle"
    /\ UNCHANGED <<heap, epos, eev, arrived, accepted, mvars>>

-----------------------------------------------------------------------------
(* The mixer thread. *)

(* A sound has ended and the queue is not empty: mixerAddOldEvent. *)
mixerAddOldEvent ==
    /\ mpc = "idle"
    /\ ~mixerQueueEmpty
    /\ mpc' = "lock"
    /\ UNCHANGED <<heap, top, qlock, evars, mpos, res, taken>>

(* mixerDequeue takes the mutex. *)
mixerDequeueLock ==
    /\ mpc = "lock"
    /\ qlock = "free"
    /\ qlock' = "mixer"
    /\ mpc' = "take"
    /\ UNCHANGED <<heap, top, evars, mpos, res, taken>>

(* res = heap[0]; heap[0] = heap[--top]; bubbleDown (0) begins. *)
mixerDequeue ==
    /\ mpc = "take"
    /\ res' = heap[0]
    /\ taken' = taken \union {heap[0]}
    /\ top' = top - 1
    /\ heap' = [heap EXCEPT ![0] = heap[top - 1]]
    /\ mpos' = 0
    /\ mpc' = "bubbleDown"
    /\ UNCHANGED <<qlock, evars>>

(* The child bubbleDown compares with: the smaller one, the left one on a  *)
(* tie or when there is no right one.                                      *)
child(pos) ==
    LET l == (pos + 1) * 2 - 1
        r == (pos + 1) * 2
    IN  IF r < top /\ heap[r].prior < heap[l].prior THEN r ELSE l

(* One iteration of bubbleDown; with a left child only, it is the last. *)
bubbleDown ==
    /\ mpc = "bubbleDown"
    /\ LET l == (mpos + 1) * 2 - 1
           c == child(mpos)
       IN IF l < top /\ heap[c].prior < heap[mpos].prior
          THEN /\ heap' = swap(mpos, c)
               /\ mpos' = c
               /\ mpc' = IF l + 1 < top THEN "bubbleDown" ELSE "unlock"
          ELSE /\ mpc' = "unlock"
               /\ UNCHANGED <<heap, mpos>>
    /\ UNCHANGED <<top, qlock, evars, res, taken>>

(* Mutant: the size is decreased a second time. *)
mixerDequeueEndTwice ==
    /\ mpc = "unlock"
    /\ top' = IF top > 0 THEN top - 1 ELSE 0
    /\ qlock' = "free"
    /\ mpc' = "idle"
    /\ UNCHANGED <<heap, evars, mpos, res, taken>>

(* The unlock and the return. *)
mixerDequeueEnd ==
    /\ mpc = "unlock"
    /\ qlock' = "free"
    /\ mpc' = "idle"
    /\ UNCHANGED <<heap, top, evars, mpos, res, taken>>

-----------------------------------------------------------------------------
Engine ==
    \/ \E e \in Event : engineDiscard(e) \/ engineAccept(e)
    \/ mixerEnqueue \/ bubbleUp \/ mixerEnqueueEnd

Mixer == mixerAddOldEvent \/ mixerDequeueLock \/ mixerDequeue
         \/ bubbleDown \/ mixerDequeueEnd

Next == Engine \/ Mixer

Spec == Init /\ [][Next]_vars

(* Both threads finish what they have begun (pthreads are scheduled and    *)
(* qlock is only held for a bounded loop); nobody owes the engine an event *)
(* nor the mixer the end of a sound.                                       *)
Fairness ==
    /\ WF_vars(mixerEnqueue) /\ WF_vars(bubbleUp) /\ WF_vars(mixerEnqueueEnd)
    /\ WF_vars(mixerDequeueLock) /\ WF_vars(mixerDequeue)
    /\ WF_vars(bubbleDown) /\ WF_vars(mixerDequeueEnd)

FairSpec == Spec /\ Fairness

-----------------------------------------------------------------------------
(* Properties. *)

(* The mixer queue's state has the shape the declarations give it.         *)
TypeOK ==
    /\ heap \in [Slots -> Event \union {NoEvent}]
    /\ top \in 0 .. queueSize
    /\ qlock \in {"free", "engine", "mixer"}
    /\ epc \in {"idle", "lock", "bubbleUp", "top"}
    /\ epos \in Slots
    /\ eev \in Event \union {NoEvent}
    /\ mpc \in {"idle", "lock", "take", "bubbleDown", "unlock"}
    /\ mpos \in Slots
    /\ res \in Event \union {NoEvent}
    /\ arrived \in 0 .. MaxEvents
    /\ accepted \subseteq Event
    /\ taken \subseteq Event

(* The slots that hold an event: while mixerEnqueue runs, the slot at top  *)
(* is used before top counts it.                                           *)
Inserting == epc \in {"bubbleUp", "top"}
Used == IF Inserting THEN 0 .. top ELSE 0 .. top - 1

(* mixerEnqueue's store and every slot the bubbling loops touch are inside *)
(* the array and hold an event, although mixerQueueFull and                *)
(* mixerQueueEmpty were evaluated without qlock and top may have moved     *)
(* since: one thread only adds, the other only removes.                    *)
SlotsInBounds ==
    /\ epc = "lock" => top < queueSize
    /\ Inserting => top < queueSize /\ epos \in Used /\ parent(epos) \in Used
    /\ mpc \in {"lock", "take"} => top > 0
    /\ mpc = "bubbleDown" => mpos < top \/ mpos = 0
    /\ \A i \in Used : heap[i] \in Event

(* No event is lost or duplicated by the swaps of bubbleUp and bubbleDown, *)
(* by heap[0] = heap[--top] or by top++: the events engineIO has accepted  *)
(* are those in the heap, those handed out and the one in mixerEnqueue's   *)
(* hands; these three are disjoint, and no event is in two slots.          *)
Inhand == IF epc = "lock" THEN {eev} ELSE {}
Contents == {heap[i] : i \in Used}
NothingLostOrDoubled ==
    /\ \A i, j \in Used : heap[i] = heap[j] => i = j
    /\ Contents \intersect taken = {}
    /\ Inhand \intersect (Contents \union taken) = {}
    /\ accepted = Contents \union taken \union Inhand
    /\ mpc \in {"bubbleDown", "unlock"} => res \in taken

(* qlock is held exactly by the thread inside an operation, the events of  *)
(* the heap arrived before the next one, and mixerEnqueue's own event is   *)
(* in the heap until it is counted.  With the three properties above this  *)
(* makes an inductive invariant.                                           *)
LockHeld ==
    /\ qlock = "engine" <=> Inserting
    /\ qlock = "mixer" <=> mpc \in {"take", "bubbleDown", "unlock"}
ArrivedBefore ==
    /\ \A i \in Used : heap[i].id <= arrived
    /\ \A e \in taken : e.id <= arrived
    /\ epc # "idle" => eev \in Event /\ eev.id <= arrived
    /\ Inserting => eev \in Contents
IInv == TypeOK /\ LockHeld /\ SlotsInBounds /\ NothingLostOrDoubled
        /\ ArrivedBefore

(* The queue as the two threads see it implements the bounded pool: an     *)
(* event enters it when mixerEnqueue counts it (top++) and leaves it in    *)
(* mixerDequeue.                                                           *)
Waiting == IF Inserting THEN Contents \ {eev} ELSE Contents
Pool == INSTANCE EventPool WITH Events <- Event, Capacity <- queueSize,
                                pool <- Waiting, taken <- taken
ImplementsPool == Pool!Spec

(* bubbleUp and bubbleDown terminate and the operations give qlock back,   *)
(* so neither thread waits for the queue forever.                          *)
OperationsEnd ==
    /\ (epc # "idle") ~> (epc = "idle")
    /\ (mpc # "idle") ~> (mpc = "idle")

(* mixer_queue.h: the file implements "a priority queue", so the event     *)
(* mixerDequeue is about to take has the best (smallest) priority number   *)
(* of those waiting.  bubbleUp's parent computation makes this false.      *)
PriorityOrder ==
    mpc = "take" => \A i \in Used : heap[0].prior <= heap[i].prior
=============================================================================
