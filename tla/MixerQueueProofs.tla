-------------------------- MODULE MixerQueueProofs --------------------------
(***************************************************************************)
(* The safety properties of the mixer queue, for every queueSize, every    *)
(* set of priorities and any number of events.                             *)
(***************************************************************************)
EXTENDS MixerQueue, FiniteSetTheorems, TLAPS

USE queueSizeAssumption, MaxEventsAssumption, PriorsAssumption,
    NoEventAssumption

(* mixerQueueInit and the idle threads satisfy the inductive invariant.    *)
LEMMA InitIInv == Init => IInv
  BY DEF Init, mixerQueueInit, IInv, TypeOK, LockHeld, SlotsInBounds,
         NothingLostOrDoubled, ArrivedBefore, Used, Inserting, Inhand,
         Contents, Slots, Event

(* Two arrays that hold each other's entries hold the same set of entries. *)
LEMMA SameEntries ==
  ASSUME NEW U, NEW g, NEW h,
         \A k \in U : \E l \in U : g[k] = h[l],
         \A k \in U : \E l \in U : h[k] = g[l]
  PROVE  {g[k] : k \in U} = {h[k] : k \in U}
  OBVIOUS

(* bubbleUp's parent of a used slot is a used slot.                        *)
LEMMA HalfBelow ==
  ASSUME NEW n \in Nat, NEW t \in Nat, n <= t
  PROVE  (n + 1) \div 2 \in 0 .. t
  OBVIOUS

(* swap exchanges two used slots: the slots keep their type, hold the same *)
(* events as before, and stay distinct.                                    *)
LEMMA SwapPermutes ==
  ASSUME NEW U \in SUBSET Slots, NEW i \in U, NEW j \in U,
         NEW h \in [Slots -> Event \union {NoEvent}], NEW g,
         g = [h EXCEPT ![i] = h[j], ![j] = h[i]],
         \A k \in U : h[k] \in Event,
         \A k, l \in U : h[k] = h[l] => k = l
  PROVE  /\ g \in [Slots -> Event \union {NoEvent}]
         /\ \A k \in U : g[k] \in Event
         /\ {g[k] : k \in U} = {h[k] : k \in U}
         /\ \A k, l \in U : g[k] = g[l] => k = l
  <1>1. g \in [Slots -> Event \union {NoEvent}]
    OBVIOUS
  <1>2. \A k \in U : g[k] = IF k = j THEN h[i]
                            ELSE IF k = i THEN h[j] ELSE h[k]
    OBVIOUS
  <1>3. \A k \in U : g[k] \in Event
    BY <1>2
  <1>4. {g[k] : k \in U} = {h[k] : k \in U}
    <2>1. ASSUME NEW k \in U PROVE \E l \in U : g[k] = h[l]
      BY <1>2
    <2>2. ASSUME NEW k \in U PROVE \E l \in U : h[k] = g[l]
      <3>1. CASE k = i
        BY <3>1, <1>2
      <3>2. CASE k = j
        BY <3>2, <1>2
      <3>3. CASE k # i /\ k # j
        BY <3>3, <1>2
      <3> QED BY <3>1, <3>2, <3>3
    <2>3. /\ \A k \in U : \E l \in U : g[k] = h[l]
          /\ \A k \in U : \E l \in U : h[k] = g[l]
      BY <2>1, <2>2
    <2> QED BY ONLY <2>3, SameEntries
  <1>5. \A k, l \in U : g[k] = g[l] => k = l
    BY <1>2
  <1> QED BY <1>1, <1>3, <1>4, <1>5

(* One iteration of bubbleUp leaves the events of the heap where they are  *)
(* or exchanges two of them, and its position stays on a used slot.        *)
LEMMA BubbleUpPermutes ==
  ASSUME IInv, bubbleUp
  PROVE  /\ Inserting /\ Inserting' /\ Used = 0 .. top /\ Used' = 0 .. top
         /\ top < queueSize /\ Used \subseteq Slots
         /\ heap' \in [Slots -> Event \union {NoEvent}]
         /\ \A k \in Used' : heap'[k] \in Event
         /\ Contents' = Contents
         /\ \A k, l \in Used' : heap'[k] = heap'[l] => k = l
         /\ epos' \in Used
  <1> DEFINE p == parent(epos)
  <1> USE DEF IInv, bubbleUp, mvars
  <1>t. top \in Nat /\ queueSize \in Nat /\ top <= queueSize
    BY DEF TypeOK
  <1>1. /\ Inserting /\ Inserting' /\ Used = 0 .. top /\ Used' = 0 .. top
        /\ top < queueSize /\ epos \in Used /\ p \in Used /\ Used \subseteq Slots
    BY <1>t DEF SlotsInBounds, Used, Inserting, Slots
  <1>2. \A k \in Used : heap[k] \in Event
    BY DEF SlotsInBounds
  <1>3. \A k, l \in Used : heap[k] = heap[l] => k = l
    BY DEF NothingLostOrDoubled
  <1>4. heap \in [Slots -> Event \union {NoEvent}]
    BY DEF TypeOK
  <1>5. /\ heap' \in [Slots -> Event \union {NoEvent}]
        /\ \A k \in Used' : heap'[k] \in Event
        /\ Contents' = Contents
        /\ \A k, l \in Used' : heap'[k] = heap'[l] => k = l
        /\ epos' \in Used
    <2>1. CASE heap' = swap(p, epos) /\ epos' = p
      <3>1. PICK q \in Used : q = p
        BY <1>1
      <3>2. heap' = [heap EXCEPT ![q] = heap[epos], ![epos] = heap[q]]
        BY <2>1, <3>1 DEF swap
      <3> HIDE DEF p, bubbleUp
      <3>3. /\ heap' \in [Slots -> Event \union {NoEvent}]
            /\ \A k \in Used : heap'[k] \in Event
            /\ {heap'[k] : k \in Used} = {heap[k] : k \in Used}
            /\ \A k, l \in Used : heap'[k] = heap'[l] => k = l
        BY <3>2, <1>1, <1>2, <1>3, <1>4, SwapPermutes
      <3>4. Contents' = Contents
        BY <3>3, <1>1 DEF Contents
      <3> QED BY <2>1, <3>1, <3>3, <3>4, <1>1
    <2>2. CASE heap' = heap /\ epos' = epos
      BY <2>2, <1>1, <1>2, <1>3, <1>4 DEF Contents
    <2> QED BY <2>1, <2>2
  <1> QED BY <1>1, <1>5

(* The same for one iteration of bubbleDown.                               *)
LEMMA BubbleDownPermutes ==
  ASSUME IInv, bubbleDown
  PROVE  /\ ~Inserting /\ ~Inserting' /\ Used = 0 .. top - 1 /\ Used' = Used
         /\ Used \subseteq Slots
         /\ heap' \in [Slots -> Event \union {NoEvent}]
         /\ \A k \in Used' : heap'[k] \in Event
         /\ Contents' = Contents
         /\ \A k, m \in Used' : heap'[k] = heap'[m] => k = m
         /\ mpos' \in Used \/ mpos' = mpos
  <1> DEFINE c == child(mpos)
             l == (mpos + 1) * 2 - 1
  <1> USE DEF IInv, bubbleDown, evars
  <1>t. top \in Nat /\ queueSize \in Nat /\ top <= queueSize
    BY DEF TypeOK
  <1>1. /\ ~Inserting /\ ~Inserting' /\ Used = 0 .. top - 1
        /\ Used' = Used /\ Used \subseteq Slots
    BY <1>t DEF Used, Inserting, LockHeld, Slots
  <1>2. \A k \in Used : heap[k] \in Event
    BY DEF SlotsInBounds
  <1>3. \A k, m \in Used : heap[k] = heap[m] => k = m
    BY DEF NothingLostOrDoubled
  <1>4. heap \in [Slots -> Event \union {NoEvent}] /\ mpos \in Nat
    BY DEF TypeOK, Slots
  <1>5. /\ heap' \in [Slots -> Event \union {NoEvent}]
        /\ \A k \in Used' : heap'[k] \in Event
        /\ Contents' = Contents
        /\ \A k, m \in Used' : heap'[k] = heap'[m] => k = m
        /\ mpos' \in Used \/ mpos' = mpos
    <2>1. CASE l < top /\ heap' = swap(mpos, c) /\ mpos' = c
      <3>1. mpos \in Used /\ c \in Used
        BY <1>t, <2>1, <1>1, <1>4 DEF child
      <3>2. PICK q \in Used : q = c
        BY <3>1
      <3>3. heap' = [heap EXCEPT ![mpos] = heap[q], ![q] = heap[mpos]]
        BY <2>1, <3>2 DEF swap
      <3> HIDE DEF c, bubbleDown
      <3>4. /\ heap' \in [Slots -> Event \union {NoEvent}]
            /\ \A k \in Used : heap'[k] \in Event
            /\ {heap'[k] : k \in Used} = {heap[k] : k \in Used}
            /\ \A k, m \in Used : heap'[k] = heap'[m] => k = m
        BY <3>1, <3>3, <1>1, <1>2, <1>3, <1>4, SwapPermutes
      <3>5. Contents' = Contents
        BY <3>4, <1>1 DEF Contents
      <3> QED BY <2>1, <3>2, <3>4, <3>5, <1>1
    <2>2. CASE heap' = heap /\ mpos' = mpos
      BY <2>2, <1>1, <1>2, <1>3, <1>4 DEF Contents
    <2> QED BY <2>1, <2>2
  <1> QED BY <1>1, <1>5

(* heap[0] = heap[--top] takes the event of slot 0 out of the heap, and no *)
(* other: the last used slot moves into the hole.                          *)
LEMMA DequeueContents ==
  ASSUME IInv, mixerDequeue
  PROVE  Contents' = Contents \ {heap[0]} /\ heap[0] \in Contents
  <1> USE DEF IInv, mixerDequeue, evars
  <1>1. /\ ~Inserting /\ ~Inserting' /\ top \in Nat /\ top > 0
        /\ Used = 0 .. top - 1 /\ Used' = 0 .. top - 2 /\ top <= queueSize
    BY DEF TypeOK, SlotsInBounds, Used, Inserting, LockHeld
  <1>2. \A i \in Used' : heap'[i] = heap[IF i = 0 THEN top - 1 ELSE i]
    BY <1>1 DEF TypeOK, Slots
  <1>3. \A x, y \in Used : heap[x] = heap[y] => x = y
    BY DEF NothingLostOrDoubled
  <1>4. heap[0] \in Contents
    BY <1>1 DEF Contents
  <1>5. Contents' = Contents \ {heap[0]}
    <2>1. ASSUME NEW i \in Used' PROVE heap'[i] \in Contents \ {heap[0]}
      <3>1. PICK k \in Used : k = IF i = 0 THEN top - 1 ELSE i
        BY <1>1
      <3>2. k # 0 /\ 0 \in Used
        BY <1>1, <3>1
      <3>3. heap'[i] = heap[k] /\ heap[k] # heap[0]
        BY <1>2, <1>3, <3>1, <3>2
      <3> QED BY <3>3 DEF Contents
    <2>2. ASSUME NEW k \in Used, heap[k] # heap[0] PROVE heap[k] \in Contents'
      <3>1. k # 0
        BY <2>2
      <3>2. PICK i \in Used' : k = IF i = 0 THEN top - 1 ELSE i
        <4>1. CASE k = top - 1
          BY <1>1, <3>1, <4>1
        <4>2. CASE k # top - 1
          BY <1>1, <3>1, <4>2
        <4> QED BY <4>1, <4>2
      <3> QED BY <1>2, <3>2 DEF Contents
    <2> QED BY <2>1, <2>2 DEF Contents
  <1> QED BY <1>4, <1>5

-----------------------------------------------------------------------------
(* Every step of either thread preserves the inductive invariant.  The     *)
(* interesting steps are the store of mixerEnqueue (the new event is not   *)
(* in the heap yet), the swaps (lemma SwapPermutes) and the removal of     *)
(* heap[0] (the last used slot moves into the hole).                       *)
LEMMA NextIInv == IInv /\ [Next]_vars => IInv'
  <1> SUFFICES ASSUME IInv, [Next]_vars PROVE IInv'
    OBVIOUS
  <1> USE DEF IInv
  <1>t. /\ top \in Nat /\ queueSize \in Nat /\ top <= queueSize
        /\ arrived \in Nat
    BY DEF TypeOK
  <1>1. ASSUME NEW e \in Event, engineDiscard(e) PROVE IInv'
    <2> USE <1>1 DEF engineDiscard, mvars
    <2>1. TypeOK' /\ LockHeld' /\ SlotsInBounds' /\ NothingLostOrDoubled'
      BY <1>t DEF TypeOK, Event, LockHeld, SlotsInBounds, Inserting, Used,
                  NothingLostOrDoubled, Contents, Inhand
    <2>2. ArrivedBefore'
      BY <1>t DEF TypeOK, Event, ArrivedBefore, Used, Inserting, Contents,
                  SlotsInBounds
    <2> QED BY <2>1, <2>2
  <1>2. ASSUME NEW e \in Event, engineAccept(e) PROVE IInv'
    <2> USE <1>2 DEF engineAccept, mvars
    <2>1. Used' = Used /\ Contents' = Contents /\ ~Inserting /\ ~Inserting'
      BY DEF Used, Inserting, Contents
    <2>2. TypeOK' /\ LockHeld'
      BY <1>t, <2>1 DEF TypeOK, Event, LockHeld
    <2>3. SlotsInBounds'
      BY <1>t, <2>1, <2>2 DEF TypeOK, SlotsInBounds, mixerQueueFull
    <2>4. e \notin Contents /\ e \notin taken
      BY <1>t DEF ArrivedBefore, Contents
    <2>5. NothingLostOrDoubled'
      BY <2>1, <2>4 DEF NothingLostOrDoubled, Inhand
    <2>6. ArrivedBefore'
      BY <1>t, <2>1 DEF ArrivedBefore, Event, TypeOK, SlotsInBounds
    <2> QED BY <2>2, <2>3, <2>5, <2>6
  <1>3. CASE mixerEnqueue
    <2> USE <1>3 DEF mixerEnqueue, mvars
    <2>1. top < queueSize /\ Used = 0 .. top - 1 /\ Used' = 0 .. top
          /\ Inserting' /\ ~Inserting
      BY DEF SlotsInBounds, Used, Inserting
    <2>2. eev \in Event /\ eev.id <= arrived
      BY DEF ArrivedBefore
    <2>3. TypeOK' /\ LockHeld'
      BY <1>t, <2>1, <2>2 DEF TypeOK, LockHeld, Slots, Inserting
    <2>4. heap'[top] = eev /\ \A i \in Used : heap'[i] = heap[i]
      BY <1>t, <2>1 DEF TypeOK, Slots
    <2>5. \A i \in Used' : i \in Used \/ i = top
      BY <1>t, <2>1
    <2>6. Contents' = Contents \union {eev}
      BY <1>t, <2>1, <2>4, <2>5 DEF Contents
    <2>7. SlotsInBounds'
      BY <1>t, <2>1, <2>2, <2>4, <2>5 DEF SlotsInBounds, parent, LockHeld
    <2>8. NothingLostOrDoubled'
      <3>1. eev \notin Contents /\ eev \notin taken
        BY DEF NothingLostOrDoubled, Inhand
      <3>2. \A i, j \in Used' : heap'[i] = heap'[j] => i = j
        BY <2>4, <2>5, <3>1 DEF NothingLostOrDoubled, Contents
      <3> QED BY <2>6, <3>1, <3>2 DEF NothingLostOrDoubled, Inhand
    <2>9. ArrivedBefore'
      BY <2>2, <2>4, <2>5, <2>6 DEF ArrivedBefore
    <2> QED BY <2>3, <2>7, <2>8, <2>9
  <1>4. CASE bubbleUp
    <2> USE <1>4 DEF bubbleUp, mvars
    <2>1. /\ Inserting /\ Inserting' /\ Used = 0 .. top /\ Used' = 0 .. top
          /\ top < queueSize
      BY BubbleUpPermutes
    <2>5. /\ heap' \in [Slots -> Event \union {NoEvent}]
          /\ \A k \in Used' : heap'[k] \in Event
          /\ Contents' = Contents
          /\ \A k, l \in Used' : heap'[k] = heap'[l] => k = l
          /\ epos' \in Used /\ Used \subseteq Slots
      BY BubbleUpPermutes
    <2>6. TypeOK' /\ LockHeld'
      BY <1>t, <2>1, <2>5 DEF TypeOK, LockHeld, Inserting
    <2>7. SlotsInBounds'
      <3>1. epos' \in Nat /\ epos' <= top
        BY <1>t, <2>1, <2>5
      <3>2. (epos' + 1) \div 2 \in 0 .. top
        BY ONLY <1>t, <3>1, HalfBelow
      <3>3. epc' # "lock" /\ mpc' = mpc /\ mpc \notin {"take", "bubbleDown"}
        BY DEF LockHeld, Inserting
      <3> QED BY <1>t, <2>1, <2>5, <3>2, <3>3 DEF SlotsInBounds, parent
    <2>8. NothingLostOrDoubled'
      BY <2>5 DEF NothingLostOrDoubled, Inhand
    <2>9. ArrivedBefore'
      <3>1. \A k \in Used' : \E l \in Used : heap'[k] = heap[l]
        BY <2>5 DEF Contents
      <3> QED BY <2>5, <2>1, <3>1 DEF ArrivedBefore
    <2> QED BY <2>6, <2>7, <2>8, <2>9
  <1>5. CASE mixerEnqueueEnd
    <2> USE <1>5 DEF mixerEnqueueEnd, mvars
    <2>1. /\ Inserting /\ ~Inserting' /\ top < queueSize
          /\ Used = 0 .. top /\ Used' = 0 .. top /\ Contents' = Contents
      BY <1>t DEF SlotsInBounds, Used, Inserting, Contents
    <2>2. TypeOK' /\ LockHeld'
      BY <1>t, <2>1 DEF TypeOK, LockHeld, Inserting
    <2>3. SlotsInBounds'
      BY <1>t, <2>1 DEF SlotsInBounds, LockHeld
    <2>4. NothingLostOrDoubled' /\ ArrivedBefore'
      BY <2>1 DEF NothingLostOrDoubled, ArrivedBefore, Inhand
    <2> QED BY <2>2, <2>3, <2>4
  <1>6. CASE mixerAddOldEvent
    <2> USE <1>6 DEF mixerAddOldEvent, evars
    <2>1. Used' = Used /\ Contents' = Contents /\ Inserting' = Inserting
      BY DEF Used, Inserting, Contents
    <2>2. TypeOK' /\ LockHeld' /\ SlotsInBounds'
      BY <1>t, <2>1 DEF TypeOK, LockHeld, SlotsInBounds, mixerQueueEmpty
    <2>3. NothingLostOrDoubled' /\ ArrivedBefore'
      BY <2>1 DEF NothingLostOrDoubled, ArrivedBefore, Inhand
    <2> QED BY <2>2, <2>3
  <1>7. CASE mixerDequeueLock
    <2> USE <1>7 DEF mixerDequeueLock, evars
    <2>1. Used' = Used /\ Contents' = Contents /\ Inserting' = Inserting
      BY DEF Used, Inserting, Contents
    <2>2. TypeOK' /\ LockHeld' /\ SlotsInBounds'
      BY <1>t, <2>1 DEF TypeOK, LockHeld, SlotsInBounds
    <2>3. NothingLostOrDoubled' /\ ArrivedBefore'
      BY <2>1 DEF NothingLostOrDoubled, ArrivedBefore, Inhand
    <2> QED BY <2>2, <2>3
  <1>8. CASE mixerDequeue
    <2> USE <1>8 DEF mixerDequeue, evars
    <2>1. /\ ~Inserting /\ ~Inserting' /\ top > 0
          /\ Used = 0 .. top - 1 /\ Used' = 0 .. top - 2
      BY <1>t DEF SlotsInBounds, Used, Inserting, LockHeld
    <2>2. heap[0] \in Event /\ heap[top - 1] \in Event
      BY <1>t, <2>1 DEF SlotsInBounds
    <2>3. TypeOK' /\ LockHeld'
      BY <1>t, <2>1, <2>2 DEF TypeOK, LockHeld, Slots
    <2>4. \A i \in Used' : heap'[i] = heap[IF i = 0 THEN top - 1 ELSE i]
      BY <1>t, <2>1 DEF TypeOK, Slots
    <2>5. \A i \in Used' : i \in Used /\ i # top - 1
      BY <1>t, <2>1
    <2>6. SlotsInBounds'
      BY <1>t, <2>1, <2>2, <2>4, <2>5 DEF SlotsInBounds
    <2>7. \A x, y \in Used : heap[x] = heap[y] => x = y
      BY DEF NothingLostOrDoubled
    <2>8. 0 \in Used /\ top - 1 \in Used
      BY <1>t, <2>1
    <2>9. \A i, j \in Used' : heap'[i] = heap'[j] => i = j
      BY <2>4, <2>5, <2>7, <2>8
    <2>10. \A i \in Used' : heap'[i] \in Contents /\ heap'[i] # heap[0]
      BY <1>t, <2>1, <2>4, <2>5, <2>7, <2>8 DEF Contents
    <2>11. NothingLostOrDoubled'
      <3>1. Contents' \intersect taken' = {}
        BY <2>10 DEF Contents, NothingLostOrDoubled
      <3>2. Inhand' \intersect (Contents' \union taken') = {}
        <4>1. Contents' \union taken' \subseteq Contents \union taken
          BY <2>8, <2>10 DEF Contents
        <4> QED BY <4>1 DEF Inhand, NothingLostOrDoubled
      <3>3. accepted' = Contents' \union taken' \union Inhand'
        <4>1. /\ accepted' = accepted /\ Inhand' = Inhand
              /\ taken' = taken \union {heap[0]}
          BY DEF Inhand
        <4>2. accepted = Contents \union taken \union Inhand
          BY DEF NothingLostOrDoubled
        <4>3. Contents' = Contents \ {heap[0]} /\ heap[0] \in Contents
          BY DequeueContents
        <4> QED BY ONLY <4>1, <4>2, <4>3
      <3>4. res' \in taken'
        OBVIOUS
      <3> QED BY <2>9, <3>1, <3>2, <3>3, <3>4 DEF NothingLostOrDoubled
    <2>12. ArrivedBefore'
      BY <2>1, <2>4, <2>5, <2>8 DEF ArrivedBefore
    <2> QED BY <2>3, <2>6, <2>11, <2>12
  <1>9. CASE bubbleDown
    <2> USE <1>9 DEF bubbleDown, evars
    <2>1. ~Inserting /\ ~Inserting' /\ Used = 0 .. top - 1 /\ Used' = Used
      BY BubbleDownPermutes
    <2>5. /\ heap' \in [Slots -> Event \union {NoEvent}]
          /\ \A k \in Used' : heap'[k] \in Event
          /\ Contents' = Contents
          /\ \A k, m \in Used' : heap'[k] = heap'[m] => k = m
          /\ mpos' \in Used \/ mpos' = mpos
          /\ Used \subseteq Slots
      BY BubbleDownPermutes
    <2>6. TypeOK' /\ LockHeld'
      BY <1>t, <2>1, <2>5 DEF TypeOK, LockHeld, Inserting
    <2>7. SlotsInBounds'
      BY <1>t, <2>1, <2>5 DEF SlotsInBounds
    <2>8. NothingLostOrDoubled'
      BY <2>5 DEF NothingLostOrDoubled, Inhand
    <2>9. ArrivedBefore'
      <3>1. \A k \in Used' : \E m \in Used : heap'[k] = heap[m]
        BY <2>5 DEF Contents
      <3> QED BY <2>5, <2>1, <3>1 DEF ArrivedBefore
    <2> QED BY <2>6, <2>7, <2>8, <2>9
  <1>10. CASE mixerDequeueEnd
    <2> USE <1>10 DEF mixerDequeueEnd, evars
    <2>1. Used' = Used /\ Contents' = Contents /\ Inserting' = Inserting
      BY DEF Used, Inserting, Contents
    <2>2. TypeOK' /\ LockHeld' /\ SlotsInBounds'
      BY <1>t, <2>1 DEF TypeOK, LockHeld, SlotsInBounds
    <2>3. NothingLostOrDoubled' /\ ArrivedBefore'
      BY <2>1 DEF NothingLostOrDoubled, ArrivedBefore, Inhand
    <2> QED BY <2>2, <2>3
  <1>11. CASE UNCHANGED vars
    BY <1>11 DEF vars, evars, mvars, TypeOK, LockHeld, SlotsInBounds,
       NothingLostOrDoubled, ArrivedBefore, Used, Inserting, Contents, Inhand
  <1> QED
    BY <1>1, <1>2, <1>3, <1>4, <1>5, <1>6, <1>7, <1>8, <1>9, <1>10, <1>11
       DEF Next, Engine, Mixer

-----------------------------------------------------------------------------
(* The inductive invariant holds of every state of the mixer queue.        *)
LEMMA AlwaysIInv == Spec => []IInv
  BY InitIInv, NextIInv, PTL DEF Spec

(* Type correctness of the mixer queue (server/mixer_queue.c).             *)
THEOREM TypeCorrect == Spec => []TypeOK
  <1>1. IInv => TypeOK
    BY DEF IInv
  <1> QED BY AlwaysIInv, <1>1, PTL

(* The unlocked tests mixerQueueFull and mixerQueueEmpty are good enough:  *)
(* the store of mixerEnqueue and the loops never leave the used slots of   *)
(* the heap, and mixerDequeue never runs on an empty one.                  *)
THEOREM StaysInBounds == Spec => []SlotsInBounds
  <1>1. IInv => SlotsInBounds
    BY DEF IInv
  <1> QED BY AlwaysIInv, <1>1, PTL

(* mixerEnqueue and mixerDequeue neither lose nor duplicate an event.      *)
THEOREM EventsConserved == Spec => []NothingLostOrDoubled
  <1>1. IInv => NothingLostOrDoubled
    BY DEF IInv
  <1> QED BY AlwaysIInv, <1>1, PTL

-----------------------------------------------------------------------------
(* The heap holds at most as many events as it has used slots.             *)
LEMMA ContentsBound ==
  ASSUME IInv
  PROVE  /\ IsFiniteSet(Contents)
         /\ Cardinality(Contents) \in Nat
         /\ Cardinality(Contents) <= IF Inserting THEN top + 1 ELSE top
  <1> DEFINE n == IF Inserting THEN top + 1 ELSE top
             f == [k \in Used |-> heap[k]]
  <1>1. top \in Nat /\ n \in Nat
    BY DEF IInv, TypeOK
  <1>2. Used = 0 .. n - 1
    BY <1>1 DEF Used
  <1>3. IsFiniteSet(Used) /\ Cardinality(Used) = n
    <2> HIDE DEF n
    <2>1. 0 \in Int /\ n - 1 \in Int
      BY <1>1
    <2>2. IsFiniteSet(0 .. n - 1)
          /\ Cardinality(0 .. n - 1) = IF 0 > n - 1 THEN 0 ELSE n - 1 - 0 + 1
      BY ONLY <2>1, FS_Interval
    <2> QED BY <1>1, <1>2, <2>2
  <1>4. f \in Surjection(Used, Contents)
    BY DEF Surjection, Contents
  <1>5. IsFiniteSet(Contents) /\ Cardinality(Contents) <= Cardinality(Used)
    <2> HIDE DEF f
    <2> QED BY <1>3, <1>4, FS_Surjection
  <1>6. Cardinality(Contents) \in Nat
    BY <1>5, FS_CardinalityType
  <1> QED BY <1>3, <1>5, <1>6

(* mixerEnqueueEnd is the moment an event enters the pool: the slot it was *)
(* stored in was free, so the pool was not full, and it is counted once.   *)
LEMMA EnqueueIsPut ==
  ASSUME IInv, mixerEnqueueEnd
  PROVE  Pool!Put(eev) /\ eev \in Event
  <1> USE DEF IInv, mixerEnqueueEnd, mvars
  <1>1. /\ Inserting /\ ~Inserting' /\ top \in Nat /\ top < queueSize
        /\ Used' = Used /\ Contents' = Contents
    BY DEF TypeOK, SlotsInBounds, Used, Inserting, Contents
  <1>2. Waiting = Contents \ {eev} /\ Waiting' = Contents
    BY <1>1 DEF Waiting
  <1>3. eev \in Contents /\ eev \in Event /\ eev \notin taken
    BY <1>1 DEF ArrivedBefore, NothingLostOrDoubled, Inserting
  <1>4. Cardinality(Waiting) < queueSize
    <2>1. Cardinality(Contents) \in Nat /\ Cardinality(Contents) <= top + 1
          /\ IsFiniteSet(Contents)
      BY <1>1, ContentsBound
    <2>2. Cardinality(Contents \ {eev}) = Cardinality(Contents) - 1
      BY <1>3, <2>1, FS_RemoveElement
    <2> QED BY <1>1, <1>2, <2>1, <2>2
  <1>5. eev \in Event \ (Waiting \union taken)
    BY <1>2, <1>3
  <1>6. Waiting' = Waiting \union {eev} /\ taken' = taken
    BY <1>2, <1>3
  <1>7. Pool!Cardinality(Waiting) = Cardinality(Waiting)
    BY DEF Pool!Cardinality, Cardinality
  <1> HIDE DEF IInv, mixerEnqueueEnd
  <1> QED BY <1>3, <1>4, <1>5, <1>6, <1>7 DEF Pool!Put

(* mixerDequeue takes the event of slot 0 out of the pool: the entry moved *)
(* into slot 0 is the one that the decreased top no longer covers.         *)
LEMMA DequeueIsTake ==
  ASSUME IInv, mixerDequeue
  PROVE  Pool!Take(heap[0]) /\ heap[0] \in Event
  <1> USE DEF IInv, mixerDequeue, evars
  <1>1. /\ ~Inserting /\ ~Inserting' /\ top \in Nat /\ top > 0
        /\ Used = 0 .. top - 1 /\ Used' = 0 .. top - 2 /\ top <= queueSize
    BY DEF TypeOK, SlotsInBounds, Used, Inserting, LockHeld
  <1>4. heap[0] \in Event /\ heap[0] \in Contents
    BY <1>1 DEF SlotsInBounds, Contents
  <1>6. Waiting = Contents /\ Waiting' = Contents'
    BY <1>1 DEF Waiting
  <1> QED BY <1>4, <1>6, DequeueContents DEF Pool!Take

(* The queue implements the bounded pool of EventPool: whatever the two    *)
(* threads' interleaving and whatever the priorities, mixerEnqueue adds    *)
(* one event that was never there before and only while fewer than         *)
(* queueSize wait, mixerDequeue removes one that waits, and no iteration   *)
(* of bubbleUp or bubbleDown is visible from outside.                      *)
THEOREM QueueImplementsPool == Spec => ImplementsPool
  <1>1. Init => Pool!Init
    BY DEF Init, mixerQueueInit, Pool!Init, Waiting, Contents, Used, Inserting
  <1>2. IInv /\ [Next]_vars => [Pool!Next]_(Pool!vars)
    <2> SUFFICES ASSUME IInv, [Next]_vars
                 PROVE  Pool!Next \/ UNCHANGED <<Waiting, taken>>
      BY DEF Pool!vars
    <2>1. ASSUME NEW e \in Event, engineDiscard(e) \/ engineAccept(e)
          PROVE  UNCHANGED <<Waiting, taken>>
      BY <2>1 DEF engineDiscard, engineAccept, mvars, Waiting, Contents, Used,
                  Inserting
    <2>2. CASE mixerEnqueue
      <3> USE <2>2 DEF IInv, mixerEnqueue, mvars
      <3>1. /\ ~Inserting /\ Inserting' /\ top \in Nat /\ top < queueSize
            /\ Used = 0 .. top - 1 /\ Used' = 0 .. top
        BY DEF TypeOK, SlotsInBounds, Used, Inserting
      <3>2. heap'[top] = eev /\ \A i \in Used : heap'[i] = heap[i]
        BY <3>1 DEF TypeOK, Slots
      <3>3. \A i \in Used' : i \in Used \/ i = top
        BY <3>1
      <3>4. Contents' = Contents \union {eev}
        BY <3>1, <3>2, <3>3 DEF Contents
      <3>5. eev \notin Contents
        BY DEF NothingLostOrDoubled, Inhand
      <3> QED BY <3>1, <3>4, <3>5 DEF Waiting
    <2>3. CASE bubbleUp
      BY <2>3, BubbleUpPermutes DEF bubbleUp, mvars, Waiting
    <2>4. CASE mixerEnqueueEnd
      BY <2>4, EnqueueIsPut DEF Pool!Next
    <2>5. CASE mixerAddOldEvent \/ mixerDequeueLock \/ mixerDequeueEnd
      BY <2>5 DEF mixerAddOldEvent, mixerDequeueLock, mixerDequeueEnd, evars,
                  Waiting, Contents, Used, Inserting
    <2>6. CASE mixerDequeue
      BY <2>6, DequeueIsTake DEF Pool!Next
    <2>7. CASE bubbleDown
      BY <2>7, BubbleDownPermutes DEF bubbleDown, evars, Waiting
    <2>8. CASE UNCHANGED vars
      BY <2>8 DEF vars, evars, mvars, Waiting, Contents, Used, Inserting
    <2> QED
      BY <2>1, <2>2, <2>3, <2>4, <2>5, <2>6, <2>7, <2>8 DEF Next, Engine, Mixer
  <1> QED BY AlwaysIInv, <1>1, <1>2, PTL DEF Spec, ImplementsPool, Pool!Spec
=============================================================================
