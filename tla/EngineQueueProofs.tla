------------------------- MODULE EngineQueueProofs -------------------------
(***************************************************************************)
(* The engine queue's list, for any number of servlets and events and      *)
(* every interleaving of their operations.  Types hold in all of them; the *)
(* shape of the list, and the pool of events that it implements, until two *)
(* operations meet in the list or sem_wait fails.                          *)
(***************************************************************************)
EXTENDS EngineQueue, FiniteSetTheorems, SequenceTheorems, TLAPS

USE MaxEventsAssumption, NULLAssumption

(* The elements that the threads have in hand.                             *)
InHand == \A p \in Servlets : pc[p] # "idle" => d[p] \in Elements
TypeInv == TypeOK /\ InHand

(* The list starts empty and the threads idle.                             *)
LEMMA TypeInit == Init => TypeInv
  <1> SUFFICES ASSUME Init PROVE TypeOK /\ InHand
    BY DEF TypeInv
  <1>1. fault \in BOOLEAN /\ met \in BOOLEAN /\ failed \in BOOLEAN
    BY DEF Init
  <1>2. out \in Seq(Elements \union {NULL})
    BY DEF Init
  <1>3. TypeOK
    BY <1>1, <1>2 DEF Init, TypeOK, Link
  <1>4. InHand
    BY DEF Init, InHand
  <1> QED BY <1>3, <1>4

(* A thread that follows a dead pointer changes nothing else.              *)
LEMMA CrashType ==
  ASSUME TypeInv, crash, UNCHANGED <<met, failed>> PROVE TypeInv'
  BY DEF TypeInv, TypeOK, InHand, crash, list, servletVars, engineVars

(* Every load and store of the shared pointers keeps them pointers, also   *)
(* when operations overlap.                                                *)
LEMMA TypeNext == TypeInv /\ [Next]_vars => TypeInv'
  <1> SUFFICES ASSUME TypeInv, [Next]_vars PROVE TypeInv'
    OBVIOUS
  <1> USE DEF TypeInv, list, engineVars, servletVars, goto
  <1>a. ASSUME NEW n, live(n) PROVE n \in Elements
    BY <1>a DEF live
  <1>1. ASSUME NEW p \in Servlets, engineEnqueue(p) PROVE TypeInv'
    <2>1. made + 1 \in Elements /\ made' \in 0 .. MaxEvents
      BY <1>1 DEF engineEnqueue, TypeOK, Elements
    <2>b. met' \in BOOLEAN
      BY <1>1 DEF engineEnqueue, TypeOK
    <2>2. TypeOK'
      BY <1>1, <2>1, <2>b DEF engineEnqueue, TypeOK, Link
    <2>3. InHand'
      BY <1>1, <2>1 DEF engineEnqueue, TypeOK, InHand
    <2> QED BY <2>2, <2>3
  <1>2. ASSUME NEW p \in Servlets, enqueueTest(p) PROVE TypeInv'
    BY <1>2 DEF enqueueTest, TypeOK, InHand
  <1>3. ASSUME NEW p \in Servlets, enqueueFirst(p) PROVE TypeInv'
    <2>1. d[p] \in Elements
      BY <1>3 DEF enqueueFirst, InHand
    <2> QED BY <1>3, <2>1 DEF enqueueFirst, malloc, TypeOK, InHand, Link
  <1>4. ASSUME NEW p \in Servlets, enqueueFirstInit(p) PROVE TypeInv'
    <2>1. d[p] \in Elements
      BY <1>4 DEF enqueueFirstInit, InHand
    <2>2. CASE ~live(head)
      BY <1>4, <2>2, CrashType DEF enqueueFirstInit
    <2>3. CASE live(head)
      BY <1>4, <1>a, <2>1, <2>3 DEF enqueueFirstInit, TypeOK, InHand, Link
    <2> QED BY <2>2, <2>3
  <1>5. ASSUME NEW p \in Servlets, enqueueFirstTail(p) PROVE TypeInv'
    BY <1>5 DEF enqueueFirstTail, TypeOK, InHand
  <1>6. ASSUME NEW p \in Servlets, enqueueWalk(p) PROVE TypeInv'
    <2>1. CASE ~live(cur_pos[p])
      BY <1>6, <2>1, CrashType DEF enqueueWalk
    <2>2. CASE live(cur_pos[p])
      BY <1>6, <2>2 DEF enqueueWalk, TypeOK, InHand
    <2> QED BY <2>1, <2>2
  <1>7. ASSUME NEW p \in Servlets, enqueueAdvance(p) PROVE TypeInv'
    <2>1. CASE ~live(cur_pos[p])
      BY <1>7, <2>1, CrashType DEF enqueueAdvance
    <2>2. CASE live(cur_pos[p])
      BY <1>7, <1>a, <2>2 DEF enqueueAdvance, TypeOK, InHand
    <2> QED BY <2>1, <2>2
  <1>8. ASSUME NEW p \in Servlets, enqueueAppend(p) PROVE TypeInv'
    <2>1. d[p] \in Elements
      BY <1>8 DEF enqueueAppend, InHand
    <2>2. CASE ~live(cur_pos[p])
      BY <1>8, <2>2, CrashType DEF enqueueAppend
    <2>3. CASE live(cur_pos[p])
      BY <1>8, <1>a, <2>1, <2>3 DEF enqueueAppend, malloc, TypeOK, InHand, Link
    <2> QED BY <2>2, <2>3
  <1>9. ASSUME NEW p \in Servlets, enqueueAppendInit(p) PROVE TypeInv'
    <2>1. d[p] \in Elements
      BY <1>9 DEF enqueueAppendInit, InHand
    <2>2. CASE ~live(cur_pos[p]) \/ ~live(next[cur_pos[p]])
      BY <1>9, <2>2, CrashType DEF enqueueAppendInit
    <2>3. CASE live(cur_pos[p]) /\ live(next[cur_pos[p]])
      BY <1>9, <1>a, <2>1, <2>3 DEF enqueueAppendInit, TypeOK, InHand, Link
    <2> QED BY <2>2, <2>3
  <1>10. ASSUME NEW p \in Servlets, enqueueAppendTail(p) PROVE TypeInv'
    <2>1. CASE ~live(cur_pos[p])
      BY <1>10, <2>1, CrashType DEF enqueueAppendTail
    <2>2. CASE live(cur_pos[p])
      BY <1>10, <1>a, <2>2 DEF enqueueAppendTail, TypeOK, InHand
    <2> QED BY <2>1, <2>2
  <1>11. ASSUME NEW p \in Servlets, semaphoreRelease(p) PROVE TypeInv'
    BY <1>11 DEF semaphoreRelease, TypeOK, InHand
  <1>12. CASE semaphoreAcquire
    <2>1. met' \in BOOLEAN /\ semaphore' \in Nat
      BY <1>12 DEF semaphoreAcquire, TypeOK
    <2> QED BY <1>12, <2>1 DEF semaphoreAcquire, TypeOK, InHand
  <1>13. CASE semaphoreAcquireFails
    BY <1>13 DEF semaphoreAcquireFails, TypeOK, InHand
  <1>14. CASE engineDequeue
    <2>1. CASE ~live(tail)
      BY <1>14, <2>1, CrashType DEF engineDequeue
    <2>2. CASE live(tail)
      BY <1>14, <1>a, <2>2 DEF engineDequeue, TypeOK, InHand
    <2> QED BY <2>1, <2>2
  <1>15. CASE dequeueTest
    <2>1. CASE ~live(tail)
      BY <1>15, <2>1, CrashType DEF dequeueTest
    <2>2. CASE live(tail)
      BY <1>15, <2>2 DEF dequeueTest, TypeOK, InHand
    <2> QED BY <2>1, <2>2
  <1>16. CASE dequeueBack
    <2>1. CASE ~live(tail)
      BY <1>16, <2>1, CrashType DEF dequeueBack
    <2>2. CASE live(tail)
      BY <1>16, <1>a, <2>2 DEF dequeueBack, TypeOK, InHand
    <2> QED BY <2>1, <2>2
  <1>17. CASE dequeueFree
    <2>1. CASE ~live(tail) \/ (next[tail] # NULL /\ ~live(next[tail]))
      BY <1>17, <2>1, CrashType DEF dequeueFree
    <2>2. CASE ~(~live(tail) \/ (next[tail] # NULL /\ ~live(next[tail])))
      <3>1. mem' \in [Elements -> {"unused", "live", "freed"}]
        BY <1>17, <2>2 DEF dequeueFree, free, TypeOK
      <3> QED BY <1>17, <2>2, <3>1 DEF dequeueFree, TypeOK, InHand
    <2> QED BY <2>1, <2>2
  <1>18. CASE dequeueUnlink
    <2>1. CASE ~live(tail)
      BY <1>18, <2>1, CrashType DEF dequeueUnlink
    <2>2. CASE live(tail)
      <3>1. Append(out, temp) \in Seq(Elements \union {NULL})
        BY DEF TypeOK
      <3>2. next' \in [Elements -> Link]
        BY <1>18, <2>2 DEF dequeueUnlink, TypeOK, Link
      <3> QED BY <1>18, <2>2, <3>1, <3>2 DEF dequeueUnlink, TypeOK, InHand
    <2> QED BY <2>1, <2>2
  <1>19. CASE dequeueLast
    <2>1. CASE tail # NULL /\ ~live(tail)
      BY <1>19, <2>1, CrashType DEF dequeueLast
    <2>2. CASE ~(tail # NULL /\ ~live(tail))
      <3>1. mem' \in [Elements -> {"unused", "live", "freed"}]
        BY <1>19, <2>2 DEF dequeueLast, free, TypeOK
      <3> QED BY <1>19, <2>2, <3>1 DEF dequeueLast, TypeOK, InHand
    <2> QED BY <2>1, <2>2
  <1>20. CASE dequeueClearHead
    BY <1>20 DEF dequeueClearHead, TypeOK, InHand, Link
  <1>21. CASE dequeueClear
    <2>1. Append(out, temp) \in Seq(Elements \union {NULL})
      BY DEF TypeOK
    <2> QED BY <1>21, <2>1 DEF dequeueClear, TypeOK, InHand, Link
  <1>22. CASE UNCHANGED vars
    BY <1>22 DEF vars, TypeOK, InHand
  <1> QED
    BY <1>1, <1>2, <1>3, <1>4, <1>5, <1>6, <1>7, <1>8, <1>9, <1>10, <1>11,
       <1>12, <1>13, <1>14, <1>15, <1>16, <1>17, <1>18, <1>19, <1>20, <1>21,
       <1>22 DEF Next, Enqueue, Dequeue

LEMMA AlwaysTypeInv == Spec => []TypeInv
  BY TypeInit, TypeNext, PTL DEF Spec

(* Type correctness of server/engine_queue.c, however the operations       *)
(* overlap: whatever engineEnqueue and engineDequeue do to the links, they *)
(* hold NULL, an element or what malloc left there, and the semaphore is   *)
(* never negative.                                                         *)
THEOREM TypeCorrect == Spec => []TypeOK
  <1>1. TypeInv => TypeOK
    BY DEF TypeInv
  <1> QED BY AlwaysTypeInv, <1>1, PTL

-----------------------------------------------------------------------------
(* The list as a function of its pointers: S holds its elements.           *)
Linked(S, h, nx, pv) ==
    /\ Oldest(S, h)
    /\ \A n \in S : /\ Oldest({m \in S : m > n}, nx[n])
                    /\ Newest({m \in S : m < n}, pv[n])

-----------------------------------------------------------------------------
(* Facts about linked lists: what the links of an element of S say, in     *)
(* terms of the other elements.                                            *)
NextIs(S, n, x) == \/ x = NULL /\ \A m \in S : m <= n
                   \/ x \in S /\ n < x /\ \A m \in S : m <= n \/ x <= m
PrevIs(S, n, x) == \/ x = NULL /\ \A m \in S : n <= m
                   \/ x \in S /\ x < n /\ \A m \in S : n <= m \/ m <= x

LEMMA LinkMeaning ==
  ASSUME NEW S \in SUBSET Nat, NULL \notin S, NEW n \in S, NEW x
  PROVE  /\ Oldest({m \in S : m > n}, x) <=> NextIs(S, n, x)
         /\ Newest({m \in S : m < n}, x) <=> PrevIs(S, n, x)
  <1>0. \A m \in S : m \in Nat
    OBVIOUS
  <1>1. \A m \in S : (m > n <=> ~(m <= n)) /\ (m < n <=> ~(n <= m))
    BY <1>0
  <1>2. ASSUME Oldest({m \in S : m > n}, x) PROVE NextIs(S, n, x)
    BY <1>0, <1>1, <1>2 DEF Oldest, NextIs
  <1>3. ASSUME NextIs(S, n, x) PROVE Oldest({m \in S : m > n}, x)
    BY <1>0, <1>1, <1>3 DEF Oldest, NextIs
  <1>4. ASSUME Newest({m \in S : m < n}, x) PROVE PrevIs(S, n, x)
    BY <1>0, <1>1, <1>4 DEF Newest, PrevIs
  <1>5. ASSUME PrevIs(S, n, x) PROVE Newest({m \in S : m < n}, x)
    BY <1>0, <1>1, <1>5 DEF Newest, PrevIs
  <1> QED BY <1>2, <1>3, <1>4, <1>5

LEMMA LinkedMeaning ==
  ASSUME NEW S \in SUBSET Nat, NULL \notin S, NEW h, NEW nx, NEW pv
  PROVE  Linked(S, h, nx, pv) <=>
            Oldest(S, h) /\ \A n \in S : NextIs(S, n, nx[n]) /\ PrevIs(S, n, pv[n])
  BY LinkMeaning DEF Linked

(* The newest element is the only one without a successor...               *)
LEMMA NextOf ==
  ASSUME NEW S \in SUBSET Nat, NULL \notin S, NEW h, NEW nx, NEW pv,
         Linked(S, h, nx, pv), NEW c \in S
  PROVE  /\ nx[c] = NULL => Newest(S, c)
         /\ nx[c] # NULL => nx[c] \in S
  <1>1. NextIs(S, c, nx[c])
    BY LinkedMeaning
  <1> QED BY <1>1 DEF NextIs, Newest

(* ... and enqueueAppend links a newer element behind it.                  *)
LEMMA AppendLinked ==
  ASSUME NEW S \in SUBSET Nat, NULL \notin S, NEW h, NEW e \in Nat, e # NULL,
         \A m \in S : m < e, NEW c \in S, Newest(S, c),
         NEW nx, NEW pv, Linked(S, h, nx, pv), NEW nx2, NEW pv2,
         nx2[c] = e, nx2[e] = NULL, pv2[e] = c,
         \A n \in S : pv2[n] = pv[n] /\ (n # c => nx2[n] = nx[n])
  PROVE  Linked(S \union {e}, h, nx2, pv2) /\ Newest(S \union {e}, e)
  <1> DEFINE T == S \union {e}
  <1>0. /\ \A m \in S : m \in Nat /\ m < e /\ m <= c
        /\ T \in SUBSET Nat /\ NULL \notin T /\ c < e
    BY DEF Newest
  <1>1. Oldest(T, h) /\ Newest(T, e)
    <2>1. h \in S /\ \A m \in S : h <= m
      BY DEF Linked, Oldest
    <2>2. h \in T /\ \A m \in T : h <= m
      BY <1>0, <2>1
    <2>3. e \in T /\ \A m \in T : m <= e
      BY <1>0
    <2>4. T # {}
      OBVIOUS
    <2> QED BY <2>2, <2>3, <2>4 DEF Oldest, Newest
  <1>2. \A n \in S : NextIs(S, n, nx[n]) /\ PrevIs(S, n, pv[n])
    BY LinkedMeaning
  <1>3. ASSUME NEW n \in S PROVE NextIs(T, n, nx2[n]) /\ PrevIs(T, n, pv2[n])
    <2>1. NextIs(T, n, nx2[n])
      <3>1. CASE n = c
        <4>1. e \in T /\ n < e /\ \A m \in T : m <= n \/ e <= m
          BY <1>0, <3>1
        <4> QED BY <3>1, <4>1 DEF NextIs
      <3>2. CASE n # c
        <4>1. n < c /\ nx2[n] = nx[n]
          BY <1>0, <3>2
        <4>4. ~(c <= n) /\ NextIs(S, n, nx[n])
          BY <1>0, <1>2, <4>1
        <4>2. nx[n] \in S /\ n < nx[n] /\ \A m \in S : m <= n \/ nx[n] <= m
          BY <4>4 DEF NextIs
        <4>3. nx[n] <= e
          <5>1. PICK x \in S : x = nx[n]
            BY <4>2
          <5>2. x \in Nat /\ x < e
            BY <1>0
          <5> QED BY <5>1, <5>2
        <4> QED BY <4>1, <4>2, <4>3 DEF NextIs
      <3> QED BY <3>1, <3>2
    <2>2. PrevIs(T, n, pv2[n])
      BY <1>0, <1>2 DEF PrevIs
    <2> QED BY <2>1, <2>2
  <1>4. NextIs(T, e, nx2[e]) /\ PrevIs(T, e, pv2[e])
    BY <1>0 DEF NextIs, PrevIs
  <1>5. \A n \in T : NextIs(T, n, nx2[n]) /\ PrevIs(T, n, pv2[n])
    BY <1>3, <1>4
  <1> HIDE DEF T
  <1>6. Linked(T, h, nx2, pv2)
    BY <1>0, <1>1, <1>5, LinkedMeaning
  <1> QED BY <1>1, <1>6 DEF T

(* Going back from the newest element leads to the newest of the others,   *)
(* whose successor it is...                                                *)
LEMMA PrevOf ==
  ASSUME NEW S \in SUBSET Nat, NULL \notin S, NEW h, NEW nx, NEW pv,
         Linked(S, h, nx, pv), NEW e \in S, Newest(S, e), pv[e] # NULL
  PROVE  /\ pv[e] \in S \ {e} /\ nx[pv[e]] = e /\ Newest(S \ {e}, pv[e])
  <1> DEFINE T == S \ {e}
  <1>c. PICK c : c = pv[e]
    OBVIOUS
  <1>0. \A m \in S : m \in Nat /\ m <= e
    BY DEF Newest
  <1>1. \A n \in S : NextIs(S, n, nx[n]) /\ PrevIs(S, n, pv[n])
    BY LinkedMeaning
  <1>2. c \in S /\ c < e /\ \A m \in T : m <= c
    BY <1>0, <1>1, <1>c DEF PrevIs
  <1>3. c \in T /\ Newest(T, c)
    BY <1>0, <1>2 DEF Newest
  <1>4. nx[c] = e
    <2>0. ~(e <= c) /\ NextIs(S, c, nx[c])
      BY <1>0, <1>1, <1>2
    <2>1. nx[c] \in S /\ c < nx[c]
      BY <2>0 DEF NextIs
    <2>2. PICK x \in S : x = nx[c] /\ c < x
      BY <2>1
    <2>3. ~(x <= c)
      BY <1>0, <1>2, <2>2
    <2>4. x \notin T
      BY <1>2, <2>3
    <2> QED BY <2>2, <2>4
  <1> QED BY <1>3, <1>4, <1>c

(* ... and with its link cut the others remain a list.                     *)
LEMMA UnlinkLinked ==
  ASSUME NEW S \in SUBSET Nat, NULL \notin S, NEW h, NEW nx, NEW pv,
         Linked(S, h, nx, pv), NEW e \in S, Newest(S, e), pv[e] # NULL,
         NEW nx2, nx2[pv[e]] = NULL, \A n \in S : n # pv[e] => nx2[n] = nx[n]
  PROVE  Linked(S \ {e}, h, nx2, pv)
  <1> DEFINE T == S \ {e}
  <1>c. PICK c : c = pv[e]
    OBVIOUS
  <1>0. \A m \in S : m \in Nat /\ m <= e
    BY DEF Newest
  <1>1. \A n \in S : NextIs(S, n, nx[n]) /\ PrevIs(S, n, pv[n])
    BY LinkedMeaning
  <1>2. c \in S /\ c < e /\ \A m \in T : m <= c
    BY <1>0, <1>1, <1>c DEF PrevIs
  <1>3. c \in T /\ T \in SUBSET Nat /\ NULL \notin T
    BY <1>0, <1>2
  <1>4. Oldest(T, h)
    <2>1. h \in S /\ \A m \in S : h <= m
      BY DEF Linked, Oldest
    <2>2. h # e
      BY <1>0, <1>2, <2>1
    <2> QED BY <1>3, <2>1, <2>2 DEF Oldest
  <1>5. ASSUME NEW n \in T PROVE NextIs(T, n, nx2[n]) /\ PrevIs(T, n, pv[n])
    <2>1. NextIs(T, n, nx2[n])
      BY <1>0, <1>1, <1>2, <1>c DEF NextIs
    <2>2. PrevIs(T, n, pv[n])
      BY <1>0, <1>1, <1>2 DEF PrevIs
    <2> QED BY <2>1, <2>2
  <1> HIDE DEF T
  <1>6. Linked(T, h, nx2, pv)
    BY <1>3, <1>4, <1>5, LinkedMeaning
  <1> QED BY <1>6 DEF T

(* A newest element without a predecessor is alone.                        *)
LEMMA LastAlone ==
  ASSUME NEW S \in SUBSET Nat, NULL \notin S, NEW h, NEW nx, NEW pv,
         Linked(S, h, nx, pv), NEW e \in S, Newest(S, e), pv[e] = NULL
  PROVE  S = {e}
  <1>1. \A m \in S : m \in Nat /\ m <= e
    BY DEF Newest
  <1>2. PrevIs(S, e, NULL)
    BY LinkedMeaning
  <1>3. \A m \in S : e <= m
    BY <1>2 DEF PrevIs
  <1>4. \A m \in S : m = e
    BY <1>1, <1>3
  <1> QED BY <1>4

-----------------------------------------------------------------------------
(* The live elements are numbers, and finitely many.                       *)
LEMMA LiveFinite ==
  /\ Live \in SUBSET Nat /\ NULL \notin Live /\ Live \subseteq Elements
  /\ IsFiniteSet(Live)
  <1>1. Live \in SUBSET Elements /\ Elements \in SUBSET Nat /\ NULL \notin Live
    BY DEF Live, Elements
  <1>2. 1 \in Int /\ MaxEvents \in Int
    OBVIOUS
  <1>3. IsFiniteSet(Elements)
    BY <1>2, FS_Interval DEF Elements
  <1> HIDE DEF Live
  <1>4. IsFiniteSet(Live)
    BY <1>1, <1>3, FS_Subset
  <1> QED BY <1>1, <1>4

-----------------------------------------------------------------------------
(* What holds until two operations meet in the list.                       *)

(* One operation at a time is in the list.                                 *)
Alone ==
    /\ epc # "acquire" => \A p \in Servlets : ~busy(p)
    /\ \A p, q \in Servlets : busy(p) /\ busy(q) => p = q

(* Elements are allocated in the order of the calls.                       *)
Searching(p) == pc[p] \in {"test", "first", "walk", "advance", "append"}
Fresh ==
    /\ \A n \in Elements : n > made => mem[n] = "unused"
    /\ \A p \in Servlets : /\ busy(p) => d[p] = made
                           /\ Searching(p) => mem[d[p]] = "unused"

(* An element has no event until it is initialised, and then its own.      *)
Raw(p) == pc[p] \in {"init1", "init2"}
EventInv ==
    /\ \A n \in Elements : mem[n] = "unused" => event[n] = NULL
    /\ \A n \in Live : event[n] = n \/ \E p \in Servlets : Raw(p) /\ d[p] = n
    /\ \A p \in Servlets : Raw(p) => event[d[p]] = NULL

(* The semaphore is released after an element is linked, and acquired      *)
(* before one is freed.                                                    *)
Linking(p) == pc[p] \in {"init1", "tail1", "init2", "tail2"}
Acquired == epc \in {"read", "test", "back", "free", "last"}
CountInv ==
    Cardinality(Live) =
        semaphore + Cardinality(Releasing)
        + (IF Acquired \/ \E p \in Servlets : Linking(p) THEN 1 ELSE 0)

(* What engineDequeue returned it has freed, and it returns an event once. *)
Freeing == epc \in {"unlink", "clear", "cleartail"}
OutInv ==
    /\ \A i \in DOMAIN out : out[i] \in Elements /\ mem[out[i]] = "freed"
    /\ Freeing => /\ temp \in Elements /\ mem[temp] = "freed"
                  /\ \A i \in DOMAIN out : out[i] # temp

(* The list between operations.                                            *)
Whole == Linked(Live, head, next, prev) /\ Newest(Live, tail)

(* What each step of the operations knows.                                 *)
Cut(c) == [next EXCEPT ![c] = NULL]
ServletAt(p) ==
    /\ Searching(p) => Whole
    /\ pc[p] = "test" => cur_pos[p] = head
    /\ pc[p] = "first" => Live = {}
    /\ pc[p] \in {"walk", "advance", "append"} => cur_pos[p] \in Live
    /\ pc[p] = "advance" => next[cur_pos[p]] # NULL
    /\ pc[p] = "append" => next[cur_pos[p]] = NULL
    /\ pc[p] \in {"init1", "tail1"} => Live = {d[p]} /\ head = d[p]
    /\ pc[p] \in {"tail1", "tail2"} => Linked(Live, head, next, prev)
    /\ pc[p] \in {"init2", "tail2"} =>
          /\ d[p] \in Live /\ cur_pos[p] \in Live \ {d[p]}
          /\ next[cur_pos[p]] = d[p]
    /\ pc[p] = "init2" =>
          /\ \A m \in Live \ {d[p]} : m < d[p]
          /\ Newest(Live \ {d[p]}, cur_pos[p])
          /\ Linked(Live \ {d[p]}, head, Cut(cur_pos[p]), prev)
    /\ pc[p] = "tail2" => Newest(Live, d[p])
EngineAt ==
    /\ epc \in {"read", "test", "back", "last"} => Whole /\ tail \in Live
    /\ epc \in {"test", "back", "last"} => temp = tail
    /\ epc = "back" => prev[tail] # NULL
    /\ epc = "last" => prev[tail] = NULL
    /\ epc = "free" => /\ temp \in Live /\ Newest(Live, temp)
                       /\ Linked(Live, head, next, prev)
                       /\ tail = prev[temp] /\ tail # NULL
    /\ epc = "unlink" => /\ tail \in Live /\ Newest(Live, tail)
                         /\ Linked(Live, head, Cut(tail), prev)
    /\ epc \in {"clear", "cleartail"} => Live = {}
    /\ epc = "cleartail" => head = NULL
QueueInv == /\ ~fault
            /\ Alone /\ Fresh /\ EventInv /\ CountInv /\ OutInv
            /\ quiet => Whole
            /\ EngineAt
            /\ \A p \in Servlets : ServletAt(p)

(* A step of the only servlet in the list, or of one that enters it when   *)
(* nobody is in it.                                                        *)
LEMMA ServletFrame ==
  ASSUME TypeInv, QueueInv, NEW p \in Servlets, busy(p) \/ quiet,
         NEW st, goto(p, st), UNCHANGED epc
  PROVE  /\ epc = "acquire" /\ epc' = "acquire" /\ EngineAt' /\ ~fault
         /\ pc'[p] = st /\ \A q \in Servlets : q # p => pc'[q] = pc[q] /\ ~busy(q)
         /\ Alone'
         /\ \A q \in Servlets : q # p => ServletAt(q)'
         /\ ~Acquired /\ ~Acquired' /\ ~Freeing'
         /\ (\E q \in Servlets : Linking(q)) <=> Linking(p)
         /\ (\E q \in Servlets : Linking(q))' <=>
               st \in {"init1", "tail1", "init2", "tail2"}
         /\ quiet' => st \in {"idle", "release"}
  <1>1. pc'[p] = st /\ \A q \in Servlets : q # p => pc'[q] = pc[q]
    BY DEF goto, TypeInv, TypeOK
  <1>2. epc = "acquire" /\ \A q \in Servlets : q # p => ~busy(q)
    BY DEF QueueInv, Alone, quiet
  <1>3. \A q \in Servlets : q # p => pc'[q] = pc[q] /\ pc[q] \in {"idle", "release"}
    BY <1>1, <1>2 DEF busy
  <1>4. Alone'
    BY <1>1, <1>2, <1>3 DEF Alone, busy
  <1>5. \A q \in Servlets : q # p => ServletAt(q)'
    BY <1>3 DEF ServletAt, Searching
  <1>6. EngineAt' /\ ~Acquired /\ ~Acquired' /\ ~Freeing' /\ ~fault
    BY <1>2 DEF EngineAt, Acquired, Freeing, QueueInv
  <1>7. (\E q \in Servlets : Linking(q)) <=> Linking(p)
    BY <1>3 DEF Linking
  <1>8. (\E q \in Servlets : Linking(q))' <=>
               st \in {"init1", "tail1", "init2", "tail2"}
    BY <1>1, <1>3 DEF Linking
  <1>9. quiet' => st \in {"idle", "release"}
    BY <1>1 DEF quiet, busy
  <1> QED BY <1>1, <1>2, <1>3, <1>4, <1>5, <1>6, <1>7, <1>8, <1>9

(* The servlets about to release the semaphore.                            *)
LEMMA ReleasingStep ==
  ASSUME TypeInv, NEW p \in Servlets, NEW st, goto(p, st)
  PROVE  /\ Cardinality(Releasing) \in Nat
         /\ pc[p] # "release" /\ st # "release" => Releasing' = Releasing
         /\ pc[p] # "release" /\ st = "release" =>
               Cardinality(Releasing') = Cardinality(Releasing) + 1
         /\ pc[p] = "release" /\ st # "release" =>
               Cardinality(Releasing') = Cardinality(Releasing) - 1
  <1>1. pc'[p] = st /\ \A q \in Servlets : q # p => pc'[q] = pc[q]
    BY DEF goto, TypeInv, TypeOK
  <1>2. Releasing \subseteq Servlets
    BY DEF Releasing
  <1>3. IsFiniteSet(Releasing) /\ Cardinality(Releasing) \in Nat
    BY <1>2, ServletsAssumption, FS_Subset, FS_CardinalityType
  <1>4. pc[p] # "release" /\ st # "release" => Releasing' = Releasing
    BY <1>1 DEF Releasing
  <1>5. pc[p] # "release" /\ st = "release" =>
          p \notin Releasing /\ Releasing' = Releasing \union {p}
    BY <1>1 DEF Releasing
  <1>6. pc[p] = "release" /\ st # "release" =>
          p \in Releasing /\ Releasing' = Releasing \ {p}
    BY <1>1 DEF Releasing
  <1> HIDE DEF Releasing
  <1> QED BY <1>3, <1>4, <1>5, <1>6, FS_AddElement, FS_RemoveElement

(* A servlet that searches the list, and sets tail, leaves the elements    *)
(* alone.                                                                  *)
LEMMA ServletKeeps ==
  ASSUME TypeInv, QueueInv, NEW p \in Servlets, busy(p), ~Raw(p),
         NEW st, goto(p, st), st \notin {"init1", "init2", "idle"},
         Searching(p) \/ st \notin {"test", "first", "walk", "advance", "append"},
         UNCHANGED <<event, mem, d, made, epc, temp, out>>
  PROVE  Fresh' /\ EventInv' /\ OutInv' /\ Live' = Live
  <1>1. /\ epc' = "acquire" /\ pc'[p] = st
        /\ \A q \in Servlets : q # p => pc'[q] = pc[q] /\ ~busy(q)
        /\ ~Freeing'
    BY ServletFrame
  <1>2. Live' = Live
    BY DEF Live
  <1>3. Fresh'
    BY <1>1 DEF QueueInv, Fresh, busy, Searching
  <1>4. \A q \in Servlets : Raw(q)' <=> Raw(q)
    BY <1>1 DEF Raw, busy
  <1>5. EventInv'
    BY <1>2, <1>4 DEF QueueInv, EventInv
  <1>6. OutInv'
    BY <1>1 DEF QueueInv, OutInv
  <1> QED BY <1>2, <1>3, <1>5, <1>6

(* engineEnqueue, step by step.                                            *)
LEMMA EnqueueInv ==
  ASSUME TypeInv, QueueInv, NEW p \in Servlets, Enqueue(p), ~disturbed'
  PROVE  QueueInv'
  <1> USE DEF servletVars, engineVars, list
  <1>t. /\ d \in [Servlets -> Elements \union {NULL}]
        /\ cur_pos \in [Servlets -> Link]
        /\ event \in [Elements -> Elements \union {NULL}]
        /\ mem \in [Elements -> {"unused", "live", "freed"}]
        /\ next \in [Elements -> Link] /\ prev \in [Elements -> Link]
        /\ semaphore \in Nat /\ made \in Nat
        /\ pc[p] # "idle" => d[p] \in Elements
    BY DEF TypeInv, TypeOK, InHand
  <1>s. /\ Live \in SUBSET Nat /\ NULL \notin Live /\ Live \subseteq Elements
        /\ IsFiniteSet(Live) /\ Cardinality(Live) \in Nat
    BY LiveFinite, FS_CardinalityType
  <1>l. ASSUME NEW n \in Live PROVE live(n)
    BY <1>l, <1>s DEF live, Live
  <1>i. ServletAt(p) /\ (quiet => Whole) /\ CountInv /\ Fresh /\ EventInv /\ OutInv
    BY DEF QueueInv
  <1>1. CASE engineEnqueue(p)
    <2> USE <1>1 DEF engineEnqueue
    <2>1. quiet
      BY DEF disturbed
    <2>2. /\ epc = "acquire" /\ epc' = "acquire" /\ EngineAt' /\ ~fault
          /\ pc'[p] = "test" /\ Alone'
          /\ \A q \in Servlets : q # p => pc'[q] = pc[q] /\ ~busy(q)
          /\ \A q \in Servlets : q # p => ServletAt(q)'
          /\ ~Acquired /\ ~Acquired' /\ ~Freeing'
          /\ ~\E q \in Servlets : Linking(q)
          /\ ~(\E q \in Servlets : Linking(q))'
          /\ ~quiet'
      BY <2>1, ServletFrame DEF Linking
    <2>3. /\ d'[p] = made' /\ made' = made + 1 /\ made' \in Elements
          /\ \A q \in Servlets : q # p => d'[q] = d[q]
          /\ cur_pos'[p] = head
          /\ UNCHANGED <<head, tail, event, next, prev, mem, semaphore, epc,
                         temp, out, fault>>
      BY <1>t DEF Elements
    <2>4. Live' = Live /\ Releasing' = Releasing
      BY <2>2, ReleasingStep DEF Live
    <2>5. Fresh'
      <3>1. \A n \in Elements : n > made' => n > made
        BY <1>t, <2>3 DEF Elements
      <3>2. mem[made'] = "unused"
        BY <1>t, <1>i, <2>3 DEF Fresh
      <3> QED BY <1>i, <2>2, <2>3, <3>1, <3>2 DEF Fresh, busy, Searching
    <2>6. EventInv'
      <3>1. \A q \in Servlets : ~Raw(q) /\ ~Raw(q)'
        BY <2>1, <2>2 DEF Raw, busy, quiet
      <3> QED BY <1>i, <2>3, <2>4, <3>1 DEF EventInv
    <2>7. CountInv' /\ OutInv'
      BY <1>i, <2>2, <2>3, <2>4 DEF CountInv, OutInv
    <2>8. Whole'
      BY <1>i, <2>1, <2>3, <2>4 DEF Whole
    <2>9. ServletAt(p)'
      BY <2>2, <2>3, <2>8 DEF ServletAt, Searching
    <2> QED BY <2>2, <2>3, <2>5, <2>6, <2>7, <2>9 DEF QueueInv
  <1>2. CASE enqueueTest(p)
    <2> USE <1>2 DEF enqueueTest
    <2> DEFINE st == IF head = NULL THEN "first" ELSE "walk"
    <2>1. pc[p] = "test" /\ busy(p) /\ ~Raw(p) /\ Searching(p) /\ goto(p, st)
          /\ st \in {"first", "walk"}
      BY DEF busy, Raw, Searching
    <2>2. Fresh' /\ EventInv' /\ OutInv' /\ Live' = Live
      BY <2>1, ServletKeeps
    <2>3. /\ EngineAt' /\ ~fault /\ pc'[p] = st /\ Alone'
          /\ \A q \in Servlets : q # p => ServletAt(q)'
          /\ ~Acquired /\ ~Acquired'
          /\ ~\E q \in Servlets : Linking(q)
          /\ ~(\E q \in Servlets : Linking(q))'
          /\ ~quiet'
      BY <2>1, ServletFrame DEF Linking
    <2>4. Releasing' = Releasing
      BY <2>1, ReleasingStep
    <2>5. CountInv'
      BY <1>i, <2>2, <2>3, <2>4 DEF CountInv
    <2>6. Whole /\ Whole'
      BY <1>i, <2>1, <2>2 DEF Whole, ServletAt
    <2>7. (head = NULL => Live = {}) /\ (head # NULL => head \in Live)
      BY <1>s, <2>6 DEF Whole, Linked, Oldest
    <2>8. ServletAt(p)'
      BY <1>i, <2>1, <2>2, <2>3, <2>6, <2>7 DEF ServletAt, Searching
    <2> QED BY <2>2, <2>3, <2>5, <2>8 DEF QueueInv
  <1>3. CASE enqueueFirst(p)
    <2> USE <1>3 DEF enqueueFirst
    <2> DEFINE e == d[p]
    <2>1. /\ pc[p] = "first" /\ busy(p) /\ goto(p, "init1") /\ Live = {}
          /\ e \in Elements /\ mem[e] = "unused" /\ e = made /\ event[e] = NULL
      BY <1>t, <1>i DEF busy, ServletAt, Fresh, Searching, EventInv
    <2>2. /\ EngineAt' /\ ~fault /\ pc'[p] = "init1" /\ Alone'
          /\ \A q \in Servlets : q # p => ServletAt(q)'
          /\ \A q \in Servlets : q # p => pc'[q] = pc[q] /\ ~busy(q)
          /\ ~Acquired /\ ~Acquired' /\ ~Freeing'
          /\ ~\E q \in Servlets : Linking(q)
          /\ (\E q \in Servlets : Linking(q))'
          /\ ~quiet'
      BY <2>1, ServletFrame DEF Linking
    <2>3. /\ mem' = [mem EXCEPT ![e] = "live"] /\ head' = e
          /\ UNCHANGED <<tail, event, semaphore, cur_pos, d, made, epc, temp,
                         out, fault>>
      BY DEF malloc
    <2>4. Live' = {e} /\ Releasing' = Releasing
      BY <1>t, <2>1, <2>3, ReleasingStep DEF Live
    <2>5. Cardinality(Live) = 0 /\ Cardinality(Live') = 1
      BY <2>1, <2>4, FS_EmptySet, FS_Singleton
    <2>6. CountInv'
      BY <1>i, <1>t, <2>1, <2>2, <2>3, <2>4, <2>5, ReleasingStep DEF CountInv
    <2>7. Fresh'
      <3>1. \A n \in Elements : n # e => mem'[n] = mem[n]
        BY <1>t, <2>3
      <3>2. \A n \in Elements : n > made => n # e
        BY <1>t, <2>1 DEF Elements
      <3> QED BY <1>i, <2>1, <2>2, <2>3, <3>1, <3>2 DEF Fresh, busy, Searching
    <2>8. EventInv'
      <3>1. Raw(p)' /\ \A q \in Servlets : q # p => ~Raw(q)'
        BY <2>2 DEF Raw, busy
      <3>2. \A n \in Elements : mem'[n] = "unused" => mem[n] = "unused"
        BY <1>t, <2>3
      <3> QED BY <1>i, <2>1, <2>3, <2>4, <3>1, <3>2 DEF EventInv
    <2>9. OutInv'
      <3>1. \A n \in Elements : mem[n] = "freed" => mem'[n] = "freed"
        BY <1>t, <2>1, <2>3
      <3> QED BY <1>i, <2>2, <2>3, <3>1 DEF OutInv
    <2>10. ServletAt(p)'
      BY <2>2, <2>3, <2>4 DEF ServletAt, Searching
    <2> QED BY <2>2, <2>3, <2>6, <2>7, <2>8, <2>9, <2>10 DEF QueueInv
  <1>4. CASE enqueueFirstInit(p)
    <2> USE <1>4 DEF enqueueFirstInit
    <2> DEFINE e == d[p]
    <2>1. /\ pc[p] = "init1" /\ busy(p) /\ Live = {e} /\ head = e
          /\ e \in Elements /\ e = made /\ live(head) /\ goto(p, "tail1")
      BY <1>t, <1>i, <1>l DEF busy, ServletAt, Fresh
    <2>2. /\ EngineAt' /\ ~fault /\ pc'[p] = "tail1" /\ Alone'
          /\ \A q \in Servlets : q # p => ServletAt(q)'
          /\ \A q \in Servlets : q # p => pc'[q] = pc[q] /\ ~busy(q)
          /\ ~Acquired /\ ~Acquired' /\ ~Freeing'
          /\ \E q \in Servlets : Linking(q)
          /\ (\E q \in Servlets : Linking(q))'
          /\ ~quiet'
      BY <2>1, ServletFrame DEF Linking
    <2>3. /\ event' = [event EXCEPT ![e] = e]
          /\ next'[e] = NULL /\ prev'[e] = NULL
          /\ UNCHANGED <<head, tail, mem, semaphore, cur_pos, d, made, epc,
                         temp, out, fault>>
      BY <1>t, <2>1
    <2> HIDE <1>4
    <2>4. Live' = Live /\ Releasing' = Releasing
      BY <2>1, <2>3, ReleasingStep DEF Live
    <2>5. CountInv'
      BY <1>i, <2>2, <2>3, <2>4 DEF CountInv
    <2>6. Fresh' /\ OutInv'
      BY <1>i, <2>1, <2>2, <2>3 DEF Fresh, busy, Searching, OutInv
    <2>7. EventInv'
      <3>1. \A q \in Servlets : ~Raw(q)'
        BY <2>2 DEF Raw, busy
      <3>2. \A n \in Elements : n # e => event'[n] = event[n]
        BY <1>t, <2>3
      <3>3. event'[e] = e /\ mem'[e] = "live"
        BY <1>t, <2>1, <2>3 DEF Live
      <3> QED BY <1>i, <2>1, <2>3, <2>4, <3>1, <3>2, <3>3 DEF EventInv
    <2>8. Linked(Live, head, next, prev)'
      <3>1. {m \in {e} : m > e} = {} /\ {m \in {e} : m < e} = {}
        BY <2>1 DEF Elements
      <3> QED BY <2>1, <2>3, <2>4, <3>1 DEF Linked, Oldest, Newest, Elements
    <2>9. ServletAt(p)'
      BY <2>1, <2>2, <2>3, <2>4, <2>8 DEF ServletAt, Searching
    <2> QED BY <2>2, <2>3, <2>5, <2>6, <2>7, <2>9 DEF QueueInv
  <1>5. CASE enqueueFirstTail(p)
    <2> USE <1>5 DEF enqueueFirstTail
    <2>1. /\ pc[p] = "tail1" /\ busy(p) /\ ~Raw(p) /\ goto(p, "release")
          /\ Live = {d[p]} /\ head = d[p] /\ d[p] \in Elements
          /\ Linked(Live, head, next, prev)
      BY <1>t, <1>i DEF busy, Raw, ServletAt
    <2>2. Fresh' /\ EventInv' /\ OutInv' /\ Live' = Live
      BY <2>1, ServletKeeps
    <2>3. /\ EngineAt' /\ ~fault /\ pc'[p] = "release" /\ Alone'
          /\ \A q \in Servlets : q # p => ServletAt(q)'
          /\ ~Acquired /\ ~Acquired'
          /\ \E q \in Servlets : Linking(q)
          /\ ~(\E q \in Servlets : Linking(q))'
      BY <2>1, ServletFrame DEF Linking
    <2>4. Cardinality(Releasing') = Cardinality(Releasing) + 1
          /\ Cardinality(Releasing) \in Nat
      BY <2>1, ReleasingStep
    <2>5. CountInv'
      BY <1>i, <1>t, <2>2, <2>3, <2>4 DEF CountInv
    <2>6. Whole'
      BY <2>1, <2>2 DEF Whole, Newest, Elements
    <2>7. ServletAt(p)'
      BY <2>3 DEF ServletAt, Searching
    <2> QED BY <2>2, <2>3, <2>5, <2>6, <2>7 DEF QueueInv
  <1>6. CASE enqueueWalk(p)
    <2> USE <1>6 DEF enqueueWalk
    <2> DEFINE c == cur_pos[p]
               st == IF next[c] # NULL THEN "advance" ELSE "append"
    <2>1. /\ pc[p] = "walk" /\ busy(p) /\ ~Raw(p) /\ Searching(p)
          /\ Whole /\ c \in Live /\ live(c) /\ goto(p, st)
          /\ st \in {"advance", "append"}
          /\ UNCHANGED <<head, tail, event, next, prev, mem, semaphore,
                         cur_pos, d, made, epc, temp, out, fault>>
      BY <1>i, <1>l DEF busy, Raw, Searching, ServletAt
    <2> HIDE <1>6
    <2>2. Fresh' /\ EventInv' /\ OutInv' /\ Live' = Live
      BY <2>1, ServletKeeps
    <2>3. /\ EngineAt' /\ ~fault /\ pc'[p] = st /\ Alone'
          /\ \A q \in Servlets : q # p => ServletAt(q)'
          /\ ~Acquired /\ ~Acquired'
          /\ ~\E q \in Servlets : Linking(q)
          /\ ~(\E q \in Servlets : Linking(q))'
          /\ ~quiet'
      BY <2>1, ServletFrame DEF Linking
    <2>4. Releasing' = Releasing
      BY <2>1, ReleasingStep
    <2>5. CountInv' /\ Whole'
      BY <1>i, <2>1, <2>2, <2>3, <2>4 DEF CountInv, Whole
    <2>6. ServletAt(p)'
      BY <2>1, <2>2, <2>3, <2>5 DEF ServletAt, Searching
    <2> QED BY <2>1, <2>2, <2>3, <2>5, <2>6 DEF QueueInv
  <1>7. CASE enqueueAdvance(p)
    <2> USE <1>7 DEF enqueueAdvance
    <2> DEFINE c == cur_pos[p]
    <2>1. /\ pc[p] = "advance" /\ busy(p) /\ ~Raw(p) /\ Searching(p)
          /\ Whole /\ c \in Live /\ live(c) /\ next[c] # NULL /\ goto(p, "walk")
          /\ cur_pos'[p] = next[c]
          /\ UNCHANGED <<head, tail, event, next, prev, mem, semaphore,
                         d, made, epc, temp, out, fault>>
      BY <1>i, <1>l, <1>t DEF busy, Raw, Searching, ServletAt
    <2> HIDE <1>7
    <2>2. Fresh' /\ EventInv' /\ OutInv' /\ Live' = Live
      BY <2>1, ServletKeeps
    <2>3. /\ EngineAt' /\ ~fault /\ pc'[p] = "walk" /\ Alone'
          /\ \A q \in Servlets : q # p => ServletAt(q)'
          /\ ~Acquired /\ ~Acquired'
          /\ ~\E q \in Servlets : Linking(q)
          /\ ~(\E q \in Servlets : Linking(q))'
          /\ ~quiet'
      BY <2>1, ServletFrame DEF Linking
    <2>4. Releasing' = Releasing
      BY <2>1, ReleasingStep
    <2>5. CountInv' /\ Whole'
      BY <1>i, <2>1, <2>2, <2>3, <2>4 DEF CountInv, Whole
    <2>6. next[c] \in Live
      BY <1>s, <2>1, NextOf DEF Whole
    <2>7. ServletAt(p)'
      BY <2>1, <2>2, <2>3, <2>5, <2>6 DEF ServletAt, Searching
    <2> QED BY <2>1, <2>2, <2>3, <2>5, <2>7 DEF QueueInv
  <1>8. CASE enqueueAppend(p)
    <2> USE <1>8 DEF enqueueAppend
    <2> DEFINE c == cur_pos[p]
               e == d[p]
    <2>1. /\ pc[p] = "append" /\ busy(p) /\ Whole /\ c \in Live /\ live(c)
          /\ next[c] = NULL /\ e \in Elements /\ e = made
          /\ mem[e] = "unused" /\ event[e] = NULL
      BY <1>i, <1>l, <1>t DEF busy, Searching, ServletAt, Fresh, EventInv
    <2>2. c \in Elements /\ e \notin Live /\ c # e
      BY <1>s, <2>1 DEF Live
    <2>3. PICK w \in {NULL, Wild} : next' = [next EXCEPT ![c] = e, ![e] = w]
      BY <2>1
    <2>4. PICK v \in {NULL, Wild} : prev' = [prev EXCEPT ![e] = v]
      BY <2>1 DEF malloc
    <2>5. /\ mem' = [mem EXCEPT ![e] = "live"] /\ goto(p, "init2")
          /\ UNCHANGED <<head, tail, event, semaphore, cur_pos, d, made, epc,
                         temp, out, fault>>
      BY <2>1 DEF malloc
    <2> HIDE <1>8
    <2>6. /\ EngineAt' /\ ~fault /\ pc'[p] = "init2" /\ Alone'
          /\ \A q \in Servlets : q # p => ServletAt(q)'
          /\ \A q \in Servlets : q # p => pc'[q] = pc[q] /\ ~busy(q)
          /\ ~Acquired /\ ~Acquired' /\ ~Freeing'
          /\ ~\E q \in Servlets : Linking(q)
          /\ (\E q \in Servlets : Linking(q))'
          /\ ~quiet'
      BY <2>1, <2>5, ServletFrame DEF Linking
    <2>7. Live' = Live \union {e} /\ Live' \ {e} = Live
      BY <1>t, <2>1, <2>2, <2>5 DEF Live
    <2>8. Releasing' = Releasing /\ Cardinality(Releasing) \in Nat
      BY <2>1, <2>5, ReleasingStep
    <2>9. Cardinality(Live') = Cardinality(Live) + 1
      BY <1>s, <2>2, <2>7, FS_AddElement
    <2>10. CountInv'
      BY <1>i, <1>s, <1>t, <2>5, <2>6, <2>8, <2>9 DEF CountInv
    <2>11. Newest(Live, c) /\ Linked(Live, head, next, prev)
      BY <1>s, <2>1, NextOf DEF Whole
    <2>12. \A m \in Live : m < e
      <3>1. \A m \in Live : m \in Nat /\ m # e /\ ~(m > made)
        BY <1>s, <1>i, <2>2 DEF Fresh, Live
      <3> QED BY <1>t, <2>1, <3>1
    <2>13. /\ \A n \in Live : [next' EXCEPT ![c] = NULL][n] = next[n]
           /\ \A n \in Live : prev'[n] = prev[n]
           /\ next'[c] = e
      BY <1>t, <1>s, <2>1, <2>2, <2>3, <2>4
    <2>14. Linked(Live, head, [next' EXCEPT ![c] = NULL], prev')
      BY <2>11, <2>13 DEF Linked
    <2>15. Cut(c)' = [next' EXCEPT ![c] = NULL]
      BY <2>5 DEF Cut
    <2>16. ServletAt(p)'
      <3>1. /\ d'[p] = e /\ cur_pos'[p] = c /\ e \in Live' /\ c \in Live' \ {e}
            /\ next'[cur_pos'[p]] = e
        BY <2>1, <2>2, <2>5, <2>7, <2>13
      <3>2. /\ \A m \in Live' \ {d'[p]} : m < d'[p]
            /\ Newest(Live' \ {d'[p]}, cur_pos'[p])
            /\ Linked(Live' \ {d'[p]}, head', Cut(cur_pos[p])', prev')
        BY <2>5, <2>7, <2>11, <2>12, <2>14, <2>15, <3>1
      <3> HIDE DEF c, e
      <3> QED BY <2>6, <3>1, <3>2 DEF ServletAt, Searching
    <2>17. Fresh'
      <3>1. \A n \in Elements : n # e => mem'[n] = mem[n]
        BY <1>t, <2>5
      <3>2. \A n \in Elements : n > made => n # e
        BY <1>t, <2>1 DEF Elements
      <3> QED BY <1>i, <2>1, <2>5, <2>6, <3>1, <3>2 DEF Fresh, busy, Searching
    <2>18. EventInv'
      <3>1. Raw(p)' /\ \A q \in Servlets : q # p => ~Raw(q)'
        BY <2>6 DEF Raw, busy
      <3>2. \A n \in Elements : mem'[n] = "unused" => mem[n] = "unused"
        BY <1>t, <2>5
      <3>3. \A q \in Servlets : ~Raw(q)
        BY <2>1, <2>6 DEF Raw, busy
      <3> QED BY <1>i, <2>1, <2>5, <2>7, <3>1, <3>2, <3>3 DEF EventInv
    <2>19. OutInv'
      <3>1. \A n \in Elements : mem[n] = "freed" => mem'[n] = "freed"
        BY <1>t, <2>1, <2>5
      <3> QED BY <1>i, <2>5, <2>6, <3>1 DEF OutInv
    <2> QED BY <2>5, <2>6, <2>10, <2>16, <2>17, <2>18, <2>19 DEF QueueInv
  <1>9. CASE enqueueAppendInit(p)
    <2> USE <1>9 DEF enqueueAppendInit
    <2> DEFINE c == cur_pos[p]
               e == d[p]
               S == Live \ {e}
    <2>1. /\ pc[p] = "init2" /\ busy(p) /\ e \in Live /\ c \in S /\ next[c] = e
          /\ (\A m \in S : m < e) /\ Newest(S, c) /\ Linked(S, head, Cut(c), prev)
          /\ live(c) /\ live(e) /\ e \in Elements /\ c \in Elements /\ c # e
      BY <1>i, <1>l, <1>t, <1>s DEF busy, ServletAt
    <2>2. /\ event' = [event EXCEPT ![e] = e]
          /\ next' = [next EXCEPT ![e] = NULL]
          /\ prev' = [prev EXCEPT ![e] = c] /\ goto(p, "tail2")
          /\ UNCHANGED <<head, tail, mem, semaphore, cur_pos, d, made, epc,
                         temp, out, fault>>
      BY <2>1
    <2> HIDE <1>9
    <2>3. /\ EngineAt' /\ ~fault /\ pc'[p] = "tail2" /\ Alone'
          /\ \A q \in Servlets : q # p => ServletAt(q)'
          /\ \A q \in Servlets : q # p => pc'[q] = pc[q] /\ ~busy(q)
          /\ ~Acquired /\ ~Acquired' /\ ~Freeing'
          /\ \E q \in Servlets : Linking(q)
          /\ (\E q \in Servlets : Linking(q))'
          /\ ~quiet'
      BY <2>1, <2>2, ServletFrame DEF Linking
    <2>4. Live' = Live /\ Releasing' = Releasing
      BY <2>1, <2>2, ReleasingStep DEF Live
    <2>5. CountInv'
      BY <1>i, <2>2, <2>3, <2>4 DEF CountInv
    <2>6. Fresh' /\ OutInv'
      BY <1>i, <2>1, <2>2, <2>3 DEF Fresh, busy, Searching, OutInv
    <2>7. EventInv'
      <3>1. \A q \in Servlets : ~Raw(q)' /\ (Raw(q) => q = p)
        BY <2>1, <2>3 DEF Raw, busy
      <3>2. \A n \in Elements : n # e => event'[n] = event[n]
        BY <1>t, <2>2
      <3>3. event'[e] = e /\ mem'[e] = "live"
        BY <1>t, <2>1, <2>2 DEF Live
      <3> QED BY <1>i, <1>s, <2>1, <2>2, <2>4, <3>1, <3>2, <3>3 DEF EventInv
    <2>8. /\ next'[c] = e /\ next'[e] = NULL /\ prev'[e] = c
          /\ \A n \in S : prev'[n] = prev[n] /\ (n # c => next'[n] = Cut(c)[n])
      BY <1>t, <1>s, <2>1, <2>2 DEF Cut
    <2>9. S \in SUBSET Nat /\ NULL \notin S /\ e \in Nat /\ e # NULL
          /\ S \union {e} = Live
      BY <1>s, <2>1 DEF Elements
    <2>10. Linked(S \union {e}, head, next', prev') /\ Newest(S \union {e}, e)
      <3> DEFINE nx == Cut(c)
      <3>1. Linked(S, head, nx, prev)
            /\ \A n \in S : n # c => next'[n] = nx[n]
        BY <2>1, <2>8
      <3> HIDE DEF S, c, e, nx
      <3> QED BY <2>1, <2>8, <2>9, <3>1, AppendLinked
    <2>11. ServletAt(p)'
      <3>1. d'[p] = e /\ cur_pos'[p] = c /\ e \in Live' /\ c \in Live' \ {e}
            /\ next'[cur_pos'[p]] = e /\ head' = head
            /\ Linked(Live', head', next', prev') /\ Newest(Live', e)
        BY <2>1, <2>2, <2>4, <2>8, <2>9, <2>10
      <3> HIDE DEF c, e
      <3> QED BY <2>3, <3>1 DEF ServletAt, Searching
    <2> QED BY <2>2, <2>3, <2>5, <2>6, <2>7, <2>11 DEF QueueInv
  <1>10. CASE enqueueAppendTail(p)
    <2> USE <1>10 DEF enqueueAppendTail
    <2>1. /\ pc[p] = "tail2" /\ busy(p) /\ ~Raw(p) /\ cur_pos[p] \in Live
          /\ live(cur_pos[p]) /\ next[cur_pos[p]] = d[p]
          /\ Linked(Live, head, next, prev) /\ Newest(Live, d[p])
      BY <1>i, <1>l DEF busy, Raw, ServletAt
    <2>2. /\ tail' = d[p] /\ goto(p, "release")
          /\ UNCHANGED <<head, event, next, prev, mem, semaphore, cur_pos, d,
                         made, epc, temp, out, fault>>
      BY <2>1
    <2> HIDE <1>10
    <2>3. Fresh' /\ EventInv' /\ OutInv' /\ Live' = Live
      BY <2>1, <2>2, ServletKeeps
    <2>4. /\ EngineAt' /\ ~fault /\ pc'[p] = "release" /\ Alone'
          /\ \A q \in Servlets : q # p => ServletAt(q)'
          /\ ~Acquired /\ ~Acquired'
          /\ \E q \in Servlets : Linking(q)
          /\ ~(\E q \in Servlets : Linking(q))'
      BY <2>1, <2>2, ServletFrame DEF Linking
    <2>5. Cardinality(Releasing') = Cardinality(Releasing) + 1
          /\ Cardinality(Releasing) \in Nat
      BY <2>1, <2>2, ReleasingStep
    <2>6. CountInv'
      BY <1>i, <1>t, <2>2, <2>3, <2>4, <2>5 DEF CountInv
    <2>7. Whole'
      BY <2>1, <2>2, <2>3 DEF Whole
    <2>8. ServletAt(p)'
      BY <2>4 DEF ServletAt, Searching
    <2> QED BY <2>2, <2>3, <2>4, <2>6, <2>7, <2>8 DEF QueueInv
  <1>11. CASE semaphoreRelease(p)
    <2> USE <1>11 DEF semaphoreRelease
    <2>1. pc[p] = "release" /\ goto(p, "idle") /\ semaphore' = semaphore + 1
          /\ UNCHANGED <<head, tail, event, next, prev, mem, cur_pos, d, made,
                         epc, temp, out, fault>>
      OBVIOUS
    <2>2. pc'[p] = "idle" /\ \A q \in Servlets : q # p => pc'[q] = pc[q]
      BY <2>1 DEF goto, TypeInv, TypeOK
    <2> HIDE <1>11
    <2>3. ASSUME NEW q \in Servlets
          PROVE  /\ (busy(q)') <=> busy(q)
                 /\ (Searching(q)') <=> Searching(q)
                 /\ (Raw(q)') <=> Raw(q)
                 /\ (Linking(q)') <=> Linking(q)
      <3>1. CASE q = p
        BY <2>1, <2>2, <3>1 DEF busy, Searching, Raw, Linking
      <3>2. CASE q # p
        <4>1. pc'[q] = pc[q]
          BY <2>2, <3>2
        <4> QED BY <4>1 DEF busy, Searching, Raw, Linking
      <3> QED BY <3>1, <3>2
    <2>4. /\ Live' = Live /\ (Acquired' <=> Acquired) /\ (Freeing' <=> Freeing)
          /\ (quiet' <=> quiet)
      BY <2>1, <2>3 DEF Live, Acquired, Freeing, quiet
    <2>5. Cardinality(Releasing') = Cardinality(Releasing) - 1
          /\ Cardinality(Releasing) \in Nat
      BY <2>1, ReleasingStep
    <2>6. (\E q \in Servlets : Linking(q))' <=> \E q \in Servlets : Linking(q)
      BY <2>3
    <2>7. CountInv'
      BY <1>i, <1>t, <2>1, <2>4, <2>5, <2>6 DEF CountInv
    <2>8. Fresh' /\ EventInv' /\ OutInv' /\ Alone'
      BY <1>i, <2>1, <2>3, <2>4 DEF Fresh, EventInv, OutInv, Alone, QueueInv
    <2>9. (Whole' <=> Whole) /\ EngineAt' /\ ~fault'
      BY <2>1, <2>4 DEF Whole, QueueInv, EngineAt, Cut
    <2>10. ServletAt(p)'
      BY <2>2 DEF ServletAt, Searching
    <2>11. ASSUME NEW q \in Servlets, q # p PROVE ServletAt(q)'
      <3>1. ServletAt(q) /\ pc'[q] = pc[q]
        BY <2>2, <2>11 DEF QueueInv
      <3>2. Cut(cur_pos[q])' = Cut(cur_pos[q])
        BY <2>1 DEF Cut
      <3>3. Searching(q)' <=> Searching(q)
        BY <2>3
      <3> QED BY <2>1, <2>4, <2>9, <3>1, <3>2, <3>3 DEF ServletAt
    <2> QED BY <1>i, <2>4, <2>7, <2>8, <2>9, <2>10, <2>11 DEF QueueInv
  <1> QED BY <1>1, <1>2, <1>3, <1>4, <1>5, <1>6, <1>7, <1>8, <1>9, <1>10, <1>11
          DEF Enqueue

(* A step of the engine thread in the list: no servlet is.                 *)
LEMMA EngineFrame ==
  ASSUME TypeInv, QueueInv, epc # "acquire" \/ quiet,
         UNCHANGED <<pc, cur_pos, d, made>>
  PROVE  /\ ~fault /\ Alone' /\ \A q \in Servlets : ServletAt(q)' /\ ~busy(q)
         /\ Releasing' = Releasing /\ Cardinality(Releasing) \in Nat
         /\ ~\E q \in Servlets : Linking(q)
         /\ ~(\E q \in Servlets : Linking(q))'
         /\ \A n \in Live : event[n] = n
         /\ (\A n \in Elements : mem'[n] = "unused" <=> mem[n] = "unused")
               /\ Live' \subseteq Live /\ event' = event => Fresh' /\ EventInv'
  <1>1. \A q \in Servlets : ~busy(q)
    BY DEF QueueInv, Alone, quiet
  <1>2. \A q \in Servlets : pc[q] \in {"idle", "release"} /\ pc'[q] = pc[q]
    BY <1>1 DEF busy
  <1>3. Alone' /\ (\A q \in Servlets : ServletAt(q)') /\ ~fault
    BY <1>2 DEF Alone, busy, ServletAt, Searching, QueueInv
  <1>4. (~\E q \in Servlets : Linking(q)) /\ ~(\E q \in Servlets : Linking(q))'
    BY <1>2 DEF Linking
  <1>5. Releasing' = Releasing /\ Cardinality(Releasing) \in Nat
    <2>1. Releasing' = Releasing /\ Releasing \subseteq Servlets
      BY DEF Releasing
    <2> HIDE DEF Releasing
    <2> QED BY <2>1, ServletsAssumption, FS_Subset, FS_CardinalityType
  <1>6. \A q \in Servlets : ~Raw(q) /\ ~Raw(q)'
    BY <1>2 DEF Raw
  <1>7. \A n \in Live : event[n] = n
    BY <1>6 DEF QueueInv, EventInv
  <1>8. ASSUME \A n \in Elements : mem'[n] = "unused" <=> mem[n] = "unused",
               Live' \subseteq Live, event' = event
        PROVE  Fresh' /\ EventInv'
    <2>1. Fresh'
      BY <1>2, <1>8 DEF QueueInv, Fresh, busy, Searching
    <2>2. EventInv'
      BY <1>6, <1>7, <1>8 DEF QueueInv, EventInv
    <2> QED BY <2>1, <2>2
  <1> QED BY <1>1, <1>3, <1>4, <1>5, <1>7, <1>8

(* What Append adds to the range of a sequence.                            *)
LEMMA AppendRange ==
  ASSUME NEW T, NEW s \in Seq(T), NEW x \in T
  PROVE  /\ \A i \in DOMAIN Append(s, x) : Append(s, x)[i] = x
               \/ (i \in DOMAIN s /\ Append(s, x)[i] = s[i])
         /\ {Append(s, x)[i] : i \in DOMAIN Append(s, x)}
               = {s[i] : i \in DOMAIN s} \union {x}
  <1>1. PICK n \in Nat : n = Len(s)
    OBVIOUS
  <1>2. /\ DOMAIN s = 1 .. n /\ DOMAIN Append(s, x) = 1 .. n + 1
        /\ \A i \in 1 .. n : Append(s, x)[i] = s[i]
        /\ Append(s, x)[n + 1] = x
    BY <1>1
  <1>3. \A i \in 1 .. n + 1 : i \in 1 .. n \/ i = n + 1
    OBVIOUS
  <1>4. n + 1 \in 1 .. n + 1 /\ \A i \in 1 .. n : i \in 1 .. n + 1
    OBVIOUS
  <1> DEFINE t == Append(s, x)
  <1> HIDE DEF t
  <1>5. /\ DOMAIN t = 1 .. n + 1 /\ (\A i \in 1 .. n : t[i] = s[i])
        /\ t[n + 1] = x
    BY <1>2 DEF t
  <1>6. \A i \in DOMAIN t : t[i] = x \/ (i \in DOMAIN s /\ t[i] = s[i])
    BY <1>2, <1>3, <1>5
  <1>7. {t[i] : i \in DOMAIN t} \subseteq {s[i] : i \in DOMAIN s} \union {x}
    BY <1>6, Zenon
  <1>8. {s[i] : i \in DOMAIN s} \union {x} \subseteq {t[i] : i \in DOMAIN t}
    BY <1>2, <1>4, <1>5
  <1>9. {t[i] : i \in DOMAIN t} = {s[i] : i \in DOMAIN s} \union {x}
    BY <1>7, <1>8, Zenon
  <1> QED BY <1>6, <1>9 DEF t

(* The element behind tail, which engineDequeue frees, is the newest one.  *)
LEMMA FreedIs ==
  ASSUME TypeInv, QueueInv, epc = "free"
  PROVE  /\ tail \in Live \ {temp} /\ next[tail] = temp
         /\ Newest(Live \ {temp}, tail)
         /\ Linked(Live \ {temp}, head, Cut(tail), prev)
  <1>1. /\ Live \in SUBSET Nat /\ NULL \notin Live /\ Live \subseteq Elements
        /\ Linked(Live, head, next, prev)
        /\ temp \in Live /\ Newest(Live, temp) /\ tail = prev[temp]
        /\ prev[temp] # NULL
    BY LiveFinite DEF QueueInv, EngineAt
  <1>2. /\ prev[temp] \in Live \ {temp} /\ next[prev[temp]] = temp
        /\ Newest(Live \ {temp}, prev[temp])
    BY <1>1, PrevOf
  <1>3. Cut(tail)[prev[temp]] = NULL
        /\ \A n \in Live : n # prev[temp] => Cut(tail)[n] = next[n]
    BY <1>1, <1>2 DEF Cut, TypeInv, TypeOK
  <1>4. Linked(Live \ {temp}, head, Cut(tail), prev)
    BY <1>1, <1>3, UnlinkLinked
  <1> QED BY <1>1, <1>2, <1>4

(* engineDequeue, step by step.                                            *)
LEMMA DequeueInv ==
  ASSUME TypeInv, QueueInv, Dequeue, ~disturbed'
  PROVE  QueueInv'
  <1> USE DEF servletVars, engineVars, list
  <1>t. /\ mem \in [Elements -> {"unused", "live", "freed"}]
        /\ next \in [Elements -> Link] /\ prev \in [Elements -> Link]
        /\ semaphore \in Nat /\ made \in Nat
        /\ out \in Seq(Elements \union {NULL}) /\ temp \in Elements \union {NULL}
    BY DEF TypeInv, TypeOK
  <1>s. /\ Live \in SUBSET Nat /\ NULL \notin Live /\ Live \subseteq Elements
        /\ IsFiniteSet(Live) /\ Cardinality(Live) \in Nat
    BY LiveFinite, FS_CardinalityType
  <1>l. ASSUME NEW n \in Live PROVE live(n)
    BY <1>l, <1>s DEF live, Live
  <1>i. EngineAt /\ (quiet => Whole) /\ CountInv /\ Fresh /\ EventInv /\ OutInv
    BY DEF QueueInv
  <1>q. ASSUME epc # "acquire" \/ quiet, UNCHANGED <<pc, cur_pos, d, made>>
        PROVE  /\ ~fault /\ Alone' /\ \A q \in Servlets : ServletAt(q)' /\ ~busy(q)
               /\ Releasing' = Releasing /\ Cardinality(Releasing) \in Nat
               /\ ~\E q \in Servlets : Linking(q)
               /\ ~(\E q \in Servlets : Linking(q))'
               /\ \A n \in Live : event[n] = n
               /\ (\A n \in Elements : mem'[n] = "unused" <=> mem[n] = "unused")
                     /\ Live' \subseteq Live /\ event' = event
                  => Fresh' /\ EventInv'
    BY <1>q, EngineFrame
  <1>m. ASSUME UNCHANGED mem
        PROVE  Live' = Live /\ Live' \subseteq Live
               /\ \A n \in Elements : mem'[n] = "unused" <=> mem[n] = "unused"
    BY <1>m DEF Live
  <1>1. CASE semaphoreAcquire
    <2> USE <1>1 DEF semaphoreAcquire
    <2>1. quiet
      BY DEF disturbed
    <2>2. Whole /\ epc = "acquire" /\ ~Acquired /\ Acquired' /\ ~Freeing'
      BY <1>i, <2>1 DEF quiet, Acquired, Freeing
    <2>3. Cardinality(Live) = semaphore + Cardinality(Releasing)
      BY <1>i, <1>t, <1>q, <2>1, <2>2 DEF CountInv
    <2>4. Live # {}
      <3>1. semaphore > 0 /\ Cardinality(Releasing) \in Nat
        BY <1>q, <2>1
      <3>2. Cardinality(Live) # 0
        BY <1>t, <2>3, <3>1
      <3> QED BY <3>2, FS_EmptySet
    <2>5. Whole' /\ tail \in Live /\ Live' = Live
      BY <1>m, <2>2, <2>4 DEF Whole, Newest
    <2>6. EngineAt'
      BY <2>5 DEF EngineAt
    <2>7. CountInv'
      <3>1. semaphore' + 1 = semaphore /\ semaphore' \in Nat
        BY <1>t
      <3> QED BY <1>q, <1>t, <2>1, <2>2, <2>3, <2>5, <3>1 DEF CountInv
    <2>8. Fresh' /\ EventInv' /\ OutInv' /\ ~quiet'
      BY <1>i, <1>m, <1>q, <2>1, <2>2 DEF OutInv, quiet
    <2> QED BY <1>q, <2>1, <2>6, <2>7, <2>8 DEF QueueInv
  <1>2. CASE engineDequeue
    <2> USE <1>2 DEF engineDequeue
    <2>1. epc = "read" /\ Whole /\ tail \in Live /\ live(tail)
      BY <1>i, <1>l DEF EngineAt
    <2>2. /\ temp' = event[tail] /\ epc' = "test"
          /\ UNCHANGED <<head, tail, event, next, prev, mem, semaphore, pc,
                         cur_pos, d, made, out, fault>>
      BY <2>1
    <2> HIDE <1>2
    <2>3. event[tail] = tail
      BY <1>q, <2>1, <2>2
    <2>4. Whole' /\ Live' = Live
      BY <1>m, <2>1, <2>2 DEF Whole
    <2>5. EngineAt'
      BY <2>1, <2>2, <2>3, <2>4 DEF EngineAt
    <2>6. CountInv'
      BY <1>i, <1>q, <2>1, <2>2, <2>4 DEF CountInv, Acquired
    <2>7. Fresh' /\ EventInv' /\ OutInv' /\ ~quiet'
      BY <1>i, <1>m, <1>q, <2>1, <2>2 DEF OutInv, quiet, Freeing
    <2> QED BY <1>q, <2>1, <2>2, <2>5, <2>6, <2>7 DEF QueueInv
  <1>3. CASE dequeueTest
    <2> USE <1>3 DEF dequeueTest
    <2>1. epc = "test" /\ Whole /\ tail \in Live /\ live(tail) /\ temp = tail
      BY <1>i, <1>l DEF EngineAt
    <2>2. /\ epc' = IF prev[tail] # NULL THEN "back" ELSE "last"
          /\ UNCHANGED <<head, tail, event, next, prev, mem, semaphore, pc,
                         cur_pos, d, made, temp, out, fault>>
      BY <2>1
    <2> HIDE <1>3
    <2>4. Whole' /\ Live' = Live
      BY <1>m, <2>1, <2>2 DEF Whole
    <2>5. EngineAt'
      BY <2>1, <2>2, <2>4 DEF EngineAt
    <2>6. CountInv'
      BY <1>i, <1>q, <2>1, <2>2, <2>4 DEF CountInv, Acquired
    <2>7. Fresh' /\ EventInv' /\ OutInv' /\ ~quiet'
      BY <1>i, <1>m, <1>q, <2>1, <2>2 DEF OutInv, quiet, Freeing
    <2> QED BY <1>q, <2>1, <2>2, <2>5, <2>6, <2>7 DEF QueueInv
  <1>4. CASE dequeueBack
    <2> USE <1>4 DEF dequeueBack
    <2>1. epc = "back" /\ Whole /\ tail \in Live /\ live(tail) /\ temp = tail
          /\ prev[tail] # NULL
      BY <1>i, <1>l DEF EngineAt
    <2>2. /\ tail' = prev[tail] /\ epc' = "free"
          /\ UNCHANGED <<head, event, next, prev, mem, semaphore, pc,
                         cur_pos, d, made, temp, out, fault>>
      BY <2>1
    <2> HIDE <1>4
    <2>4. Live' = Live
      BY <1>m, <2>2
    <2>5. EngineAt'
      BY <2>1, <2>2, <2>4 DEF EngineAt, Whole
    <2>6. CountInv'
      BY <1>i, <1>q, <2>1, <2>2, <2>4 DEF CountInv, Acquired
    <2>7. Fresh' /\ EventInv' /\ OutInv' /\ ~quiet'
      BY <1>i, <1>m, <1>q, <2>1, <2>2 DEF OutInv, quiet, Freeing
    <2> QED BY <1>q, <2>1, <2>2, <2>5, <2>6, <2>7 DEF QueueInv
  <1>5. CASE dequeueFree
    <2> USE <1>5 DEF dequeueFree
    <2>1. /\ epc = "free" /\ temp \in Live /\ Newest(Live, temp)
          /\ Linked(Live, head, next, prev) /\ tail = prev[temp] /\ tail # NULL
      BY <1>i DEF EngineAt
    <2>u. /\ tail \in Live \ {temp} /\ next[tail] = temp
          /\ Newest(Live \ {temp}, tail)
          /\ Linked(Live \ {temp}, head, Cut(tail), prev)
      BY <2>1, FreedIs
    <2>2. live(tail) /\ live(next[tail])
      BY <1>l, <2>1, <2>u
    <2>3. /\ mem' = [n \in Elements |-> IF n = temp THEN "freed" ELSE mem[n]]
          /\ epc' = "unlink"
          /\ UNCHANGED <<head, tail, event, next, prev, semaphore, pc,
                         cur_pos, d, made, temp, out, fault>>
      BY <2>u, <2>2 DEF free
    <2> HIDE <1>5
    <2>4. Live' = Live \ {temp}
      BY <1>t, <2>3 DEF Live
    <2>5. Linked(Live', head', Cut(tail)', prev')
      <3>1. Cut(tail)' = Cut(tail)
        BY <2>3 DEF Cut
      <3> QED BY <2>3, <2>4, <2>u, <3>1
    <2>6. EngineAt'
      BY <2>3, <2>4, <2>5, <2>u DEF EngineAt
    <2>7. Cardinality(Live') = Cardinality(Live) - 1
      BY <1>s, <2>1, <2>4, FS_RemoveElement
    <2>8. CountInv'
      BY <1>i, <1>q, <1>s, <1>t, <2>1, <2>3, <2>7 DEF CountInv, Acquired
    <2>9. Fresh' /\ EventInv' /\ ~quiet'
      <3>1. \A n \in Elements : mem'[n] = "unused" <=> mem[n] = "unused"
        BY <1>t, <2>1, <2>3 DEF Live
      <3> QED BY <1>q, <2>1, <2>3, <2>4, <3>1 DEF quiet
    <2>10. OutInv'
      <3>1. \A i \in DOMAIN out : out[i] # temp
        BY <1>i, <2>1 DEF OutInv, Live
      <3>2. temp \in Elements
        BY <1>s, <2>1
      <3> QED BY <1>i, <2>3, <3>1, <3>2 DEF OutInv
    <2> QED BY <1>q, <2>1, <2>3, <2>6, <2>8, <2>9, <2>10 DEF QueueInv
  <1>6. CASE dequeueUnlink
    <2> USE <1>6 DEF dequeueUnlink
    <2>1. /\ epc = "unlink" /\ tail \in Live /\ Newest(Live, tail)
          /\ Linked(Live, head, Cut(tail), prev) /\ live(tail)
      BY <1>i, <1>l DEF EngineAt
    <2>2. /\ next' = Cut(tail) /\ out' = Append(out, temp) /\ epc' = "acquire"
          /\ UNCHANGED <<head, tail, event, prev, mem, semaphore, pc,
                         cur_pos, d, made, temp, fault>>
      BY <2>1 DEF Cut
    <2> HIDE <1>6
    <2>4. Live' = Live /\ Whole' /\ EngineAt'
      BY <1>m, <2>1, <2>2 DEF Whole, EngineAt
    <2>6. CountInv'
      BY <1>i, <1>q, <2>1, <2>2, <2>4 DEF CountInv, Acquired
    <2>7. Fresh' /\ EventInv'
      BY <1>m, <1>q, <2>1, <2>2
    <2>8. OutInv'
      <3> DEFINE R == Elements \union {NULL}
      <3>r. out \in Seq(R) /\ temp \in R
        BY <1>t
      <3> HIDE DEF R
      <3>0. \A i \in DOMAIN Append(out, temp) : Append(out, temp)[i] = temp
               \/ (i \in DOMAIN out /\ Append(out, temp)[i] = out[i])
        BY <3>r, AppendRange
      <3>1. \A i \in DOMAIN out' :
               out'[i] = temp \/ (i \in DOMAIN out /\ out'[i] = out[i])
        BY <2>2, <3>0, Zenon
      <3>2. temp \in Elements /\ mem[temp] = "freed"
        BY <1>i, <2>1 DEF OutInv, Freeing
      <3> QED BY <1>i, <2>2, <3>1, <3>2 DEF OutInv, Freeing
    <2> QED BY <1>q, <2>1, <2>2, <2>4, <2>6, <2>7, <2>8 DEF QueueInv
  <1>7. CASE dequeueLast
    <2> USE <1>7 DEF dequeueLast
    <2>1. /\ epc = "last" /\ Whole /\ tail \in Live /\ live(tail) /\ temp = tail
          /\ prev[tail] = NULL
      BY <1>i, <1>l DEF EngineAt
    <2>2. Live = {temp}
      <3> HIDE <1>7
      <3> QED BY <1>s, <2>1, LastAlone DEF Whole
    <2>3. /\ mem' = [n \in Elements |-> IF n = temp THEN "freed" ELSE mem[n]]
          /\ epc' = "clear"
          /\ UNCHANGED <<head, tail, event, next, prev, semaphore, pc,
                         cur_pos, d, made, temp, out, fault>>
      BY <2>1 DEF free
    <2> HIDE <1>7
    <2>4. Live' = {}
      BY <1>t, <2>2, <2>3 DEF Live
    <2>5. Cardinality(Live) = 1 /\ Cardinality(Live') = 0
      BY <2>2, <2>4, FS_EmptySet, FS_Singleton
    <2>6. EngineAt'
      BY <2>3, <2>4 DEF EngineAt
    <2>8. CountInv'
      BY <1>i, <1>q, <1>s, <1>t, <2>1, <2>3, <2>5 DEF CountInv, Acquired
    <2>9. Fresh' /\ EventInv' /\ ~quiet'
      <3>1. \A n \in Elements : mem'[n] = "unused" <=> mem[n] = "unused"
        BY <1>t, <2>1, <2>3 DEF Live
      <3> QED BY <1>q, <2>1, <2>3, <2>4, <3>1 DEF quiet
    <2>10. OutInv'
      <3>1. \A i \in DOMAIN out : out[i] # temp
        BY <1>i, <2>1 DEF OutInv, Live
      <3>2. temp \in Elements
        BY <1>s, <2>1
      <3> QED BY <1>i, <2>3, <3>1, <3>2 DEF OutInv
    <2> QED BY <1>q, <2>1, <2>3, <2>6, <2>8, <2>9, <2>10 DEF QueueInv
  <1>8. CASE dequeueClearHead
    <2> USE <1>8 DEF dequeueClearHead
    <2>1. epc = "clear" /\ Live = {}
      BY <1>i DEF EngineAt
    <2>2. Live' = Live /\ EngineAt'
      BY <1>m, <2>1 DEF EngineAt
    <2>3. CountInv'
      BY <1>i, <1>q, <2>1, <2>2 DEF CountInv, Acquired
    <2>4. Fresh' /\ EventInv' /\ OutInv' /\ ~quiet'
      BY <1>i, <1>m, <1>q, <2>1 DEF OutInv, quiet, Freeing
    <2> QED BY <1>q, <2>1, <2>2, <2>3, <2>4 DEF QueueInv
  <1>9. CASE dequeueClear
    <2> USE <1>9 DEF dequeueClear
    <2>1. epc = "cleartail" /\ Live = {} /\ head = NULL
      BY <1>i DEF EngineAt
    <2>2. Live' = Live /\ EngineAt' /\ Whole'
      BY <1>m, <2>1 DEF EngineAt, Whole, Linked, Oldest, Newest
    <2>3. CountInv'
      BY <1>i, <1>q, <2>1, <2>2 DEF CountInv, Acquired
    <2>4. Fresh' /\ EventInv'
      BY <1>m, <1>q, <2>1
    <2>5. OutInv'
      <3> DEFINE R == Elements \union {NULL}
      <3>r. out \in Seq(R) /\ temp \in R
        BY <1>t
      <3> HIDE DEF R
      <3>0. \A i \in DOMAIN Append(out, temp) : Append(out, temp)[i] = temp
               \/ (i \in DOMAIN out /\ Append(out, temp)[i] = out[i])
        BY <3>r, AppendRange
      <3>1. \A i \in DOMAIN out' :
               out'[i] = temp \/ (i \in DOMAIN out /\ out'[i] = out[i])
        BY <1>9, <3>0, Zenon DEF dequeueClear
      <3>2. temp \in Elements /\ mem[temp] = "freed"
        BY <1>i, <2>1 DEF OutInv, Freeing
      <3> QED BY <1>i, <3>1, <3>2 DEF OutInv, Freeing
    <2> QED BY <1>q, <2>1, <2>2, <2>3, <2>4, <2>5 DEF QueueInv
  <1> QED BY <1>1, <1>2, <1>3, <1>4, <1>5, <1>6, <1>7, <1>8, <1>9 DEF Dequeue

(* Operations that have met stay so.                                       *)
LEMMA DisturbedStays == Next /\ ~disturbed' => ~disturbed /\ ~semaphoreAcquireFails
  <1> SUFFICES ASSUME Next, ~disturbed' PROVE ~disturbed /\ ~semaphoreAcquireFails
    OBVIOUS
  <1>1. ~semaphoreAcquireFails
    BY DEF semaphoreAcquireFails, disturbed
  <1>2. CASE Dequeue
    <2>1. CASE semaphoreAcquire
      BY <1>1, <2>1 DEF semaphoreAcquire, disturbed
    <2>2. CASE UNCHANGED <<met, failed>>
      BY <1>1, <2>2 DEF disturbed
    <2>3. ~semaphoreAcquire => UNCHANGED <<met, failed>>
      BY <1>2 DEF Dequeue, engineDequeue, dequeueTest, dequeueBack, dequeueFree,
         dequeueUnlink, dequeueLast, dequeueClearHead, dequeueClear
    <2> QED BY <1>1, <2>1, <2>2, <2>3
  <1>3. ASSUME NEW p \in Servlets, Enqueue(p) PROVE ~disturbed
    BY <1>3 DEF Enqueue, disturbed, engineEnqueue, enqueueTest, enqueueFirst,
       enqueueFirstInit, enqueueFirstTail, enqueueWalk, enqueueAdvance,
       enqueueAppend, enqueueAppendInit, enqueueAppendTail, semaphoreRelease
  <1> QED BY <1>1, <1>2, <1>3 DEF Next

LEMMA QueueNext ==
  ASSUME TypeInv, ~disturbed => QueueInv, [Next]_vars, ~disturbed'
  PROVE  QueueInv'
  <1>1. CASE Next
    BY <1>1, EnqueueInv, DequeueInv, DisturbedStays DEF Next
  <1>2. CASE UNCHANGED vars
    <2>1. UNCHANGED <<head, tail, event, next, prev, mem, semaphore, pc,
                      cur_pos, d, made, epc, temp, out, met, failed, fault>>
      BY <1>2 DEF vars, list, servletVars, engineVars
    <2>2. QueueInv
      BY <2>1 DEF disturbed
    <2>3. Live' = Live /\ Releasing' = Releasing
      BY <2>1 DEF Live, Releasing
    <2>4. Whole' <=> Whole
      BY <2>1, <2>3 DEF Whole
    <2>5. Alone' /\ Fresh' /\ EventInv' /\ OutInv'
      BY <2>1, <2>2, <2>3 DEF QueueInv, Alone, busy, Fresh, Searching, EventInv,
         Raw, OutInv, Freeing
    <2>6. CountInv'
      BY <2>1, <2>2, <2>3 DEF QueueInv, CountInv, Acquired, Linking
    <2>7. EngineAt' /\ (quiet' => Whole') /\ ~fault'
      BY <2>1, <2>2, <2>3, <2>4 DEF QueueInv, EngineAt, Cut, quiet, busy
    <2>8. \A p \in Servlets : ServletAt(p)'
      BY <2>1, <2>2, <2>3, <2>4 DEF QueueInv, ServletAt, Searching, Cut
    <2> QED BY <2>5, <2>6, <2>7, <2>8 DEF QueueInv
  <1> QED BY <1>1, <1>2

LEMMA QueueInit == Init => QueueInv
  <1> SUFFICES ASSUME Init PROVE QueueInv
    OBVIOUS
  <1>1. Live = {} /\ Releasing = {} /\ ~Acquired /\ ~\E p \in Servlets : Linking(p)
    BY DEF Init, Live, Releasing, Acquired, Linking
  <1>2. CountInv /\ Whole
    BY <1>1, FS_EmptySet DEF Init, CountInv, Whole, Linked, Oldest, Newest
  <1>3. Alone /\ Fresh /\ EventInv /\ OutInv /\ EngineAt /\ ~fault
    BY <1>1 DEF Init, Alone, busy, Fresh, Searching, EventInv, Raw, OutInv,
       Freeing, EngineAt
  <1>4. \A p \in Servlets : ServletAt(p)
    BY DEF Init, ServletAt, Searching
  <1> QED BY <1>2, <1>3, <1>4 DEF QueueInv

Inv == TypeInv /\ (~disturbed => QueueInv)
LEMMA AlwaysInv == Spec => []Inv
  <1>1. Init => Inv
    BY TypeInit, QueueInit DEF Inv
  <1>2. Inv /\ [Next]_vars => Inv'
    BY TypeNext, QueueNext DEF Inv
  <1> QED BY <1>1, <1>2, PTL DEF Spec

(* Until two operations meet in the list of engine_queue.c, or sem_wait    *)
(* fails, no thread follows a dead pointer and the list is well formed     *)
(* whenever nobody is in it, for any number of threads and events: doubly  *)
(* linked in the order of arrival, with tail at its newest element and the *)
(* semaphore equal to its length but for the threads about to release it.  *)
THEOREM ListStaysLinked == Spec => []WellLinked
  <1>1. Inv => WellLinked
    <2> SUFFICES ASSUME Inv, ~disturbed
                 PROVE  /\ ~fault
                        /\ quiet =>
                              /\ semaphore + Cardinality(Releasing) = Cardinality(Live)
                              /\ Oldest(Live, head) /\ Newest(Live, tail)
                              /\ \A n \in Live : /\ Oldest(After(n), next[n])
                                                 /\ Newest(Before(n), prev[n])
                                                 /\ event[n] = n
      BY DEF WellLinked
    <2>0. TypeInv /\ QueueInv /\ ~fault
      BY DEF Inv, QueueInv
    <2>1. ASSUME quiet
          PROVE  /\ semaphore + Cardinality(Releasing) = Cardinality(Live)
                 /\ Oldest(Live, head) /\ Newest(Live, tail)
                 /\ \A n \in Live : /\ Oldest(After(n), next[n])
                                    /\ Newest(Before(n), prev[n])
                                    /\ event[n] = n
      <3>1. ~Acquired /\ (\A p \in Servlets : ~Linking(p) /\ ~Raw(p)) /\ Whole
        BY <2>0, <2>1 DEF quiet, busy, Acquired, Linking, Raw, QueueInv
      <3>2. semaphore \in Nat /\ Cardinality(Releasing) \in Nat
        <4>1. Releasing \subseteq Servlets
          BY DEF Releasing
        <4> QED BY <2>0, <4>1, ServletsAssumption, FS_Subset, FS_CardinalityType
                DEF TypeInv, TypeOK
      <3>3. semaphore + Cardinality(Releasing) = Cardinality(Live)
        BY <2>0, <3>1, <3>2 DEF QueueInv, CountInv
      <3>4. \A n \in Live : event[n] = n
        BY <2>0, <3>1 DEF QueueInv, EventInv
      <3> QED BY <3>1, <3>3, <3>4 DEF Whole, Linked, After, Before
    <2> QED BY <2>0, <2>1
  <1> QED BY <1>1, AlwaysInv, PTL

-----------------------------------------------------------------------------
(* The pool of events that the list implements.                            *)
InPool == Waiting \union Held

(* The events in the list are the elements that hold theirs.               *)
LEMMA WaitingIs ==
  ASSUME TypeInv, QueueInv
  PROVE  /\ Waiting = {n \in Live : event[n] = n}
         /\ InPool \subseteq Elements
         /\ epc \in {"test", "back", "free", "last"} => temp \in Waiting
  <1>1. \A n \in Live : event[n] = n \/ event[n] = NULL
    BY DEF QueueInv, EventInv
  <1>2. Live \subseteq Elements /\ NULL \notin Live
    BY LiveFinite
  <1>3. Waiting = {n \in Live : event[n] = n}
    BY <1>1, <1>2 DEF Waiting
  <1>4. ASSUME epc \in {"test", "back", "free", "last"} PROVE temp \in Waiting
    <2>1. \A n \in Live : event[n] = n
      BY <1>4, EngineFrame DEF QueueInv, EventInv, Alone, Raw, busy
    <2>2. temp \in Live
      BY <1>4 DEF QueueInv, EngineAt
    <2> QED BY <1>3, <2>1, <2>2
  <1>5. epc \in {"acquire", "read", "test", "back", "free", "last"} \/ Freeing
    BY DEF TypeInv, TypeOK, Freeing
  <1>6. Held \subseteq Elements
    BY <1>2, <1>3, <1>4, <1>5 DEF Held, QueueInv, OutInv
  <1> QED BY <1>2, <1>3, <1>4, <1>6 DEF InPool

(* The stores that fill a new element put its event into the pool.         *)
LEMMA PutStep ==
  ASSUME TypeInv, QueueInv, NEW p \in Servlets, Raw(p),
         event' = [event EXCEPT ![d[p]] = d[p]], d[p] \in Live,
         UNCHANGED <<mem, epc, temp, out>>
  PROVE  Pool!Put(d[p])
  <1> DEFINE e == d[p]
  <1>0. e \in Elements /\ Live' = Live /\ Live \subseteq Elements /\ NULL \notin Live
    BY LiveFinite DEF Live
  <1>1. event[e] = NULL /\ e # NULL
    BY <1>0 DEF QueueInv, EventInv
  <1>2. epc = "acquire"
    BY DEF QueueInv, Alone, Raw, busy
  <1>3. Held = {} /\ Held' = {} /\ Returned' = Returned
    BY <1>2 DEF Held, Returned
  <1>4. Waiting = {n \in Live : event[n] = n}
    BY WaitingIs
  <1>5. /\ event'[e] = e /\ \A n \in Elements : n # e => event'[n] = event[n]
    BY <1>0 DEF TypeInv, TypeOK
  <1>6. \A n \in Live : event[n] = n \/ event[n] = NULL
    BY DEF QueueInv, EventInv
  <1>7. Waiting' = Waiting \union {e} /\ e \notin Waiting
    BY <1>0, <1>1, <1>4, <1>5, <1>6 DEF Waiting
  <1>8. e \notin Returned
    BY DEF Returned, QueueInv, OutInv, Live
  <1>9. Cardinality(Waiting) < MaxEvents
    <2>1. Waiting \subseteq Elements \ {e}
      BY <1>0, <1>4, <1>7
    <2>2. IsFiniteSet(Elements) /\ Cardinality(Elements) = MaxEvents
      <3>1. 1 \in Int /\ MaxEvents \in Int /\ MaxEvents - 1 + 1 = MaxEvents
        OBVIOUS
      <3>2. 1 > MaxEvents => MaxEvents = 0
        OBVIOUS
      <3> QED BY <3>1, <3>2, FS_Interval DEF Elements
    <2>3. IsFiniteSet(Elements \ {e}) /\ Cardinality(Elements \ {e}) = MaxEvents - 1
      BY <1>0, <2>2, FS_RemoveElement
    <2>4. Cardinality(Waiting) <= MaxEvents - 1 /\ Cardinality(Waiting) \in Nat
      <3> HIDE DEF e
      <3>1. IsFiniteSet(Waiting)
        BY <2>1, <2>3, FS_Subset
      <3> QED BY <2>1, <2>3, <3>1, FS_Subset, FS_CardinalityType
    <2> QED BY <2>4
  <1> HIDE DEF e
  <1>10. /\ e \in Elements \ ((Waiting \union Held) \union Returned)
         /\ Cardinality(Waiting \union Held) < MaxEvents
         /\ Waiting' \union Held' = (Waiting \union Held) \union {e}
         /\ Returned' = Returned
    <2>1. Waiting \union Held = Waiting
      BY <1>3
    <2> QED BY <1>0, <1>3, <1>7, <1>8, <1>9, <2>1
  <1>11. Pool!Cardinality(Waiting \union Held) = Cardinality(Waiting \union Held)
    BY DEF Pool!Cardinality, Cardinality
  <1>12. Pool!Put(e)
    BY <1>10, <1>11 DEF Pool!Put
  <1> QED BY <1>12 DEF e

(* engineDequeue returns what it holds.                                    *)
LEMMA TakeStep ==
  ASSUME TypeInv, QueueInv, Freeing, out' = Append(out, temp),
         epc' = "acquire", UNCHANGED <<mem, event>>
  PROVE  Pool!Take(temp)
  <1>1. temp \in Elements /\ mem[temp] = "freed"
    BY DEF QueueInv, OutInv
  <1>2. Held = {temp} /\ Held' = {}
    BY DEF Held, Freeing
  <1>3. Waiting' = Waiting
    BY DEF Waiting, Live
  <1>4. temp \notin Waiting
    BY <1>1, WaitingIs DEF Live
  <1>5. Returned' = Returned \union {temp}
    <2>1. out \in Seq(Elements \union {NULL}) /\ temp \in Elements \union {NULL}
      BY DEF TypeInv, TypeOK
    <2>2. {Append(out, temp)[i] : i \in DOMAIN Append(out, temp)}
            = {out[i] : i \in DOMAIN out} \union {temp}
      BY <2>1, AppendRange
    <2> QED BY <2>2, Zenon DEF Returned
  <1>6. /\ temp \in Waiting \union Held
        /\ Waiting' \union Held' = (Waiting \union Held) \ {temp}
    BY <1>2, <1>3, <1>4
  <1> QED BY <1>5, <1>6 DEF Pool!Take

(* The other steps leave the pool as it is.                                *)
LEMMA PoolStep ==
  ASSUME TypeInv, QueueInv, [Next]_vars, ~disturbed'
  PROVE  [Pool!Next]_(Pool!vars)
  <1> USE DEF list, servletVars, engineVars
  <1>s. Live \subseteq Elements /\ NULL \notin Live
    BY LiveFinite
  <1>l. ASSUME NEW n \in Live PROVE live(n)
    BY <1>l, <1>s DEF live, Live
  <1>w. /\ Waiting = {n \in Live : event[n] = n} /\ InPool \subseteq Elements
        /\ epc \in {"test", "back", "free", "last"} => temp \in Waiting
    BY WaitingIs
  <1>k. ASSUME UNCHANGED <<mem, event, epc, temp, out>> PROVE UNCHANGED Pool!vars
    BY <1>k DEF Pool!vars, Waiting, Live, Held, Returned
  <1>1. ASSUME NEW p \in Servlets, engineEnqueue(p) \/ enqueueTest(p)
               \/ enqueueFirstTail(p) \/ semaphoreRelease(p)
        PROVE  UNCHANGED Pool!vars
    BY <1>k, <1>1 DEF engineEnqueue, enqueueTest, enqueueFirstTail,
       semaphoreRelease
  <1>2. ASSUME NEW p \in Servlets, enqueueWalk(p) \/ enqueueAdvance(p)
               \/ enqueueAppendTail(p)
        PROVE  UNCHANGED Pool!vars
    BY <1>k, <1>2 DEF enqueueWalk, enqueueAdvance, enqueueAppendTail, crash
  <1>3. ASSUME NEW p \in Servlets, enqueueFirst(p) \/ enqueueAppend(p)
        PROVE  UNCHANGED Pool!vars
    <2>1. CASE UNCHANGED mem
      BY <1>k, <1>3, <2>1 DEF enqueueFirst, enqueueAppend, crash
    <2>2. CASE mem' = [mem EXCEPT ![d[p]] = "live"]
      <3>1. /\ d[p] \in Elements /\ mem[d[p]] = "unused" /\ event[d[p]] = NULL
            /\ UNCHANGED <<event, epc, temp, out>>
        BY <1>3 DEF enqueueFirst, enqueueAppend, crash, QueueInv, Fresh, EventInv,
           Searching, TypeInv, InHand
      <3>2. Live' = Live \union {d[p]}
        BY <2>2, <3>1 DEF Live, TypeInv, TypeOK
      <3>3. Waiting' = Waiting
        BY <3>1, <3>2 DEF Waiting
      <3> QED BY <3>1, <3>3 DEF Pool!vars, Held, Returned
    <2> QED BY <1>3, <2>1, <2>2 DEF enqueueFirst, enqueueAppend, malloc, crash
  <1>4. ASSUME NEW p \in Servlets, enqueueFirstInit(p) \/ enqueueAppendInit(p)
        PROVE  Pool!Put(d[p]) /\ d[p] \in Elements
    <2>1. Raw(p) /\ d[p] \in Elements /\ ServletAt(p)
      BY <1>4 DEF enqueueFirstInit, enqueueAppendInit, Raw, QueueInv, TypeInv, InHand
    <2>2. /\ d[p] \in Live /\ event' = [event EXCEPT ![d[p]] = d[p]]
          /\ UNCHANGED <<mem, epc, temp, out>>
      <3>1. CASE enqueueFirstInit(p)
        BY <1>l, <2>1, <3>1 DEF enqueueFirstInit, ServletAt
      <3>2. CASE enqueueAppendInit(p)
        BY <1>l, <2>1, <3>2 DEF enqueueAppendInit, ServletAt
      <3> QED BY <1>4, <3>1, <3>2
    <2> QED BY <2>1, <2>2, PutStep
  <1>5. CASE semaphoreAcquire
    BY <1>5 DEF semaphoreAcquire, Pool!vars, Waiting, Live, Held, Returned
  <1>6. CASE engineDequeue
    <2>1. epc = "read" /\ tail \in Live /\ live(tail) /\ event[tail] = tail
      BY <1>6, <1>l DEF engineDequeue, QueueInv, EngineAt, EventInv, Alone, Raw, busy
    <2>2. temp' = event[tail] /\ epc' = "test" /\ UNCHANGED <<mem, event, out>>
      BY <1>6, <2>1 DEF engineDequeue
    <2>3. Waiting' = Waiting /\ Held = {} /\ Held' = {tail} /\ Returned' = Returned
      BY <2>1, <2>2 DEF Waiting, Live, Held, Returned
    <2>4. tail \in Waiting
      BY <1>w, <2>1
    <2> QED BY <2>3, <2>4 DEF Pool!vars
  <1>7. CASE dequeueTest \/ dequeueBack
    <2>1. /\ epc \in {"test", "back"} /\ UNCHANGED <<mem, event, temp, out>>
          /\ epc' \in {"test", "back", "free", "last"}
      BY <1>7 DEF dequeueTest, dequeueBack, crash
    <2> QED BY <2>1 DEF Pool!vars, Waiting, Live, Held, Returned
  <1>8. CASE dequeueFree \/ dequeueLast
    <2>0. CASE crash
      BY <1>k, <2>0 DEF crash
    <2>1. CASE ~crash
      <3>1. /\ epc \in {"free", "last"} /\ epc' \in {"unlink", "clear"}
            /\ UNCHANGED <<event, temp, out>>
            /\ \E n : free(n) /\ (dequeueFree => n = next[tail])
                              /\ (dequeueLast => n = tail)
        BY <1>8, <2>1 DEF dequeueFree, dequeueLast
      <3>2. ASSUME dequeueFree PROVE next[tail] = temp
        BY <3>2, FreedIs DEF dequeueFree
      <3>3. dequeueLast => tail = temp
        BY DEF dequeueLast, QueueInv, EngineAt
      <3>4. free(temp) /\ temp \in Waiting
        BY <1>8, <1>w, <3>1, <3>2, <3>3
      <3>5. Live' = Live \ {temp}
        BY <3>4 DEF free, Live, TypeInv, TypeOK
      <3>6. Waiting \ {temp} \subseteq Waiting' /\ Waiting' \subseteq Waiting
        BY <1>s, <1>w, <3>1, <3>5 DEF Waiting
      <3>7. Held = {temp} /\ Held' = {temp} /\ Returned' = Returned
        BY <3>1 DEF Held, Returned
      <3> QED BY <3>4, <3>6, <3>7 DEF Pool!vars
    <2> QED BY <2>0, <2>1
  <1>9. CASE dequeueClearHead
    BY <1>9 DEF dequeueClearHead, Pool!vars, Waiting, Live, Held, Returned
  <1>10. CASE dequeueUnlink \/ dequeueClear
    <2>1. tail \in Live \/ epc = "cleartail"
      BY <1>10 DEF dequeueUnlink, dequeueClear, QueueInv, EngineAt
    <2>2. /\ Freeing /\ out' = Append(out, temp) /\ epc' = "acquire"
          /\ UNCHANGED <<mem, event>>
      BY <1>10, <1>l, <2>1 DEF dequeueUnlink, dequeueClear, Freeing
    <2>3. Pool!Take(temp) /\ temp \in Elements
      BY <2>2, TakeStep DEF QueueInv, OutInv
    <2> QED BY <2>3 DEF Pool!Next
  <1>11. CASE UNCHANGED vars
    BY <1>k, <1>11 DEF vars
  <1>12. ASSUME NEW p \in Servlets, Enqueue(p) PROVE [Pool!Next]_(Pool!vars)
    BY <1>1, <1>2, <1>3, <1>4, <1>12 DEF Enqueue, Pool!Next
  <1>13. ASSUME Dequeue PROVE [Pool!Next]_(Pool!vars)
    BY <1>5, <1>6, <1>7, <1>8, <1>9, <1>10, <1>13 DEF Dequeue
  <1> QED BY <1>11, <1>12, <1>13, DisturbedStays DEF Next

(* Until two operations meet in the list of engine_queue.c, or sem_wait    *)
(* fails, each of its steps is a step of a pool or leaves it alone: an     *)
(* event that goes in stays until it is returned, once, and nothing else   *)
(* is returned.  For any number of threads and events.                     *)
THEOREM ListImplementsPool == Spec => ImplementsPool
  <1>1. Init => Pool!Init
    BY DEF Init, Pool!Init, Waiting, Live, Held, Returned
  <1>2. Inv /\ [Next]_vars => [~disturbed' => [Pool!Next]_(Pool!vars)]_vars
    <2> SUFFICES ASSUME Inv, Next, ~disturbed' PROVE [Pool!Next]_(Pool!vars)
      OBVIOUS
    <2>1. ~disturbed
      BY DisturbedStays
    <2> QED BY <2>1, PoolStep DEF Inv
  <1> QED BY <1>1, <1>2, AlwaysInv, PTL DEF Spec, ImplementsPool
=============================================================================
