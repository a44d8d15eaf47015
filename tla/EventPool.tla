----------------------------- MODULE EventPool -----------------------------
(***************************************************************************)
(* What server/mixer_queue.c promises the two threads that use it, and     *)
(* server/engine_queue.c as long as its operations do not meet: a pool of  *)
(* waiting events of bounded size.  An event goes in at most once, comes   *)
(* out at most once, and nothing comes out that did not go in.  The pool   *)
(* says nothing about the ORDER in which events come out: mixer_queue.c    *)
(* means to order them by priority and does not (run MixerQueueOrder), and *)
(* engine_queue.c, called a queue, returns the newest.                     *)
(***************************************************************************)
EXTENDS Naturals, FiniteSets

CONSTANTS Events,     \* the events that may be put in the pool
          Capacity    \* how many may wait at once: queueSize

VARIABLES pool,       \* the events waiting
          taken       \* the events already taken out, for good

vars == <<pool, taken>>

Init == pool = {} /\ taken = {}

(* mixerEnqueue, called when the pool is not full. *)
Put(e) ==
    /\ e \in Events \ (pool \union taken)
    /\ Cardinality(pool) < Capacity
    /\ pool' = pool \union {e}
    /\ UNCHANGED taken

(* mixerDequeue: some waiting event leaves. *)
Take(e) ==
    /\ e \in pool
    /\ pool' = pool \ {e}
    /\ taken' = taken \union {e}

Next == \E e \in Events : Put(e) \/ Take(e)

Spec == Init /\ [][Next]_vars
=============================================================================
