---------------------------- MODULE EngineQueue ----------------------------
(***************************************************************************)
(* server/engine_queue.c: the linked list through which the server threads *)
(* (one per TCP or SSL client) hand events to the engine thread.  Nothing  *)
(* but the semaphore protects it, so the operations overlap in time, and   *)
(* every test, load and store of the shared pointers head, tail, next and  *)
(* prev is a step of its own.  Two things are coarser: following a pointer *)
(* goes with what is done through it, and the stores that fill a new       *)
(* element (event, next, prev) are one step.                               *)
(*                                                                         *)
(* Element n is the one allocated by the call that enqueues event n, and   *)
(* addresses are not reused.  A field that malloc left uninitialised reads *)
(* as no event; such a link is NULL or Wild, and a thread that follows     *)
(* NULL, Wild or the pointer to a freed element is past what the program   *)
(* defines: the behaviour ends there (fault).                              *)
(***************************************************************************)
EXTENDS Naturals, Sequences, FiniteSets

CONSTANTS Servlets,    \* the threads that call engineEnqueue
          MaxEvents,   \* how many events they enqueue in a behaviour
          NULL,
          Wild         \* what an uninitialised link may point to

ASSUME MaxEventsAssumption == MaxEvents \in Nat
ASSUME ServletsAssumption == IsFiniteSet(Servlets)
ASSUME NULLAssumption == /\ NULL \notin 1 .. MaxEvents
                         /\ Wild \notin 1 .. MaxEvents /\ Wild # NULL

Elements == 1 .. MaxEvents

VARIABLES head, tail,
          event,           \* per element: incoming_event
          next, prev,      \* per element: its links
          mem,             \* per element: "unused", "live" or "freed"
          semaphore,
          pc, cur_pos, d,  \* per servlet: step, cursor, event it adds
          epc, temp,       \* the engine thread: step, the event it returns
          made,            \* number of calls of engineEnqueue so far
          out,             \* events engineDequeue has returned, in order
          met, failed,     \* history: two operations were in the list at
                           \* once; sem_wait returned with an error
          fault            \* a dead pointer was followed

list == <<head, tail, event, next, prev, mem>>
servletVars == <<pc, cur_pos, d, made>>
engineVars == <<epc, temp, out>>
vars == <<list, semaphore, servletVars, engineVars, met, failed, fault>>

Init ==
    /\ head = NULL /\ tail = NULL
    /\ event = [n \in Elements |-> NULL]
    /\ next = [n \in Elements |-> NULL]
    /\ prev = [n \in Elements |-> NULL]
    /\ mem = [n \in Elements |-> "unused"]
    /\ semaphore = 0
    /\ pc = [p \in Servlets |-> "idle"]
    /\ cur_pos = [p \in Servlets |-> NULL]
    /\ d = [p \in Servlets |-> NULL]
    /\ epc = "acquire" /\ temp = NULL
    /\ made = 0
    /\ out = <<>>
    /\ met = FALSE /\ failed = FALSE
    /\ fault = FALSE

live(n) == n \in Elements /\ mem[n] = "live"
goto(p, step) == pc' = [pc EXCEPT ![p] = step]
(* A thread follows a pointer that does not lead to a live element.        *)
crash ==
    /\ fault' = TRUE
    /\ UNCHANGED <<list, semaphore, servletVars, engineVars>>
(* The threads that are in the list: at sem_post the servlet has left it,  *)
(* in sem_wait the engine thread has not entered it.                       *)
busy(p) == pc[p] \notin {"idle", "release"}
disturbed == met \/ failed
quiet == epc = "acquire" /\ \A p \in Servlets : ~busy(p)

-----------------------------------------------------------------------------
(* engineEnqueue *)

(* cur_pos = head *)
engineEnqueue(p) ==
    /\ pc[p] = "idle"
    /\ made < MaxEvents
    /\ made' = made + 1
    /\ d' = [d EXCEPT ![p] = made + 1]
    /\ cur_pos' = [cur_pos EXCEPT ![p] = head]
    /\ goto(p, "test")
    /\ met' = (met \/ ~quiet)
    /\ UNCHANGED <<failed, list, semaphore, engineVars, fault>>

(* if (head == NULL) *)
enqueueTest(p) ==
    /\ pc[p] = "test"
    /\ goto(p, IF head = NULL THEN "first" ELSE "walk")
    /\ UNCHANGED <<list, semaphore, cur_pos, d, made, engineVars, met, failed,
                   fault>>

(* malloc: the links of the new element hold what the memory held.         *)
malloc(n) ==
    /\ mem' = [mem EXCEPT ![n] = "live"]
    /\ \E w \in {NULL, Wild} : prev' = [prev EXCEPT ![n] = w]

(* head = malloc (...) *)
enqueueFirst(p) ==
    /\ pc[p] = "first"
    /\ malloc(d[p])
    /\ \E w \in {NULL, Wild} : next' = [next EXCEPT ![d[p]] = w]
    /\ head' = d[p]
    /\ goto(p, "init1")
    /\ UNCHANGED <<tail, event, semaphore, cur_pos, d, made, engineVars,
                   met, failed, fault>>

(* head->incoming_event = d; head->next = head->prev = NULL *)
enqueueFirstInit(p) ==
    /\ pc[p] = "init1"
    /\ UNCHANGED <<met, failed>>
    /\ IF ~live(head) THEN crash ELSE
       /\ event' = [event EXCEPT ![head] = d[p]]
       /\ next' = [next EXCEPT ![head] = NULL]
       /\ prev' = [prev EXCEPT ![head] = NULL]
       /\ goto(p, "tail1")
       /\ UNCHANGED <<head, tail, mem, semaphore, cur_pos, d, made, engineVars,
                      fault>>

(* tail = head *)
enqueueFirstTail(p) ==
    /\ pc[p] = "tail1"
    /\ tail' = head
    /\ goto(p, "release")
    /\ UNCHANGED <<head, event, next, prev, mem, semaphore, cur_pos, d, made,
                   engineVars, met, failed, fault>>

(* while (cur_pos->next != NULL) ... *)
enqueueWalk(p) ==
    /\ pc[p] = "walk"
    /\ UNCHANGED <<met, failed>>
    /\ IF ~live(cur_pos[p]) THEN crash ELSE
       /\ goto(p, IF next[cur_pos[p]] # NULL THEN "advance" ELSE "append")
       /\ UNCHANGED <<list, semaphore, cur_pos, d, made, engineVars, fault>>

(* ... cur_pos = cur_pos->next *)
enqueueAdvance(p) ==
    /\ pc[p] = "advance"
    /\ UNCHANGED <<met, failed>>
    /\ IF ~live(cur_pos[p]) THEN crash ELSE
       /\ cur_pos' = [cur_pos EXCEPT ![p] = next[@]]
       /\ goto(p, "walk")
       /\ UNCHANGED <<list, semaphore, d, made, engineVars, fault>>

(* cur_pos->next = malloc (...) *)
enqueueAppend(p) ==
    /\ pc[p] = "append"
    /\ UNCHANGED <<met, failed>>
    /\ IF ~live(cur_pos[p]) THEN crash ELSE
       /\ malloc(d[p])
       /\ \E w \in {NULL, Wild} :
             next' = [next EXCEPT ![cur_pos[p]] = d[p], ![d[p]] = w]
       /\ goto(p, "init2")
       /\ UNCHANGED <<head, tail, event, semaphore, cur_pos, d, made,
                      engineVars, fault>>

(* Mutant: the element is linked forwards only. *)
enqueueAppendInitNoPrev(p) ==
    /\ pc[p] = "init2"
    /\ UNCHANGED <<met, failed>>
    /\ IF ~live(cur_pos[p]) \/ ~live(next[cur_pos[p]]) THEN crash ELSE
       LET new == next[cur_pos[p]] IN
       /\ event' = [event EXCEPT ![new] = d[p]]
       /\ next' = [next EXCEPT ![new] = NULL]
       /\ goto(p, "tail2")
       /\ UNCHANGED <<head, tail, prev, mem, semaphore, cur_pos, d, made,
                      engineVars, fault>>

(* cur_pos->next->incoming_event = d, ->next = NULL, ->prev = cur_pos *)
enqueueAppendInit(p) ==
    /\ pc[p] = "init2"
    /\ UNCHANGED <<met, failed>>
    /\ IF ~live(cur_pos[p]) \/ ~live(next[cur_pos[p]]) THEN crash ELSE
       LET new == next[cur_pos[p]] IN
       /\ event' = [event EXCEPT ![new] = d[p]]
       /\ next' = [next EXCEPT ![new] = NULL]
       /\ prev' = [prev EXCEPT ![new] = cur_pos[p]]
       /\ goto(p, "tail2")
       /\ UNCHANGED <<head, tail, mem, semaphore, cur_pos, d, made, engineVars,
                      fault>>

(* tail = cur_pos->next *)
enqueueAppendTail(p) ==
    /\ pc[p] = "tail2"
    /\ UNCHANGED <<met, failed>>
    /\ IF ~live(cur_pos[p]) THEN crash ELSE
       /\ tail' = next[cur_pos[p]]
       /\ goto(p, "release")
       /\ UNCHANGED <<head, event, next, prev, mem, semaphore, cur_pos, d, made,
                      engineVars, fault>>

(* Mutant: the semaphore is not incremented. *)
semaphoreReleaseForgotten(p) ==
    /\ pc[p] = "release"
    /\ goto(p, "idle")
    /\ UNCHANGED <<list, semaphore, cur_pos, d, made, engineVars, met, failed,
                   fault>>

(* semaphoreRelease (semaphore) *)
semaphoreRelease(p) ==
    /\ pc[p] = "release"
    /\ semaphore' = semaphore + 1
    /\ goto(p, "idle")
    /\ UNCHANGED <<list, cur_pos, d, made, engineVars, met, failed, fault>>

-----------------------------------------------------------------------------
(* engineDequeue *)

(* Mutant: sem_wait does not wait. *)
semaphoreAcquireNoWait ==
    /\ epc = "acquire"
    /\ semaphore' = semaphore - 1
    /\ epc' = "read"
    /\ met' = (met \/ ~quiet)
    /\ UNCHANGED <<failed, list, servletVars, temp, out, fault>>

(* semaphoreAcquire (semaphore, 1): blocks while it is 0. *)
semaphoreAcquire ==
    /\ epc = "acquire"
    /\ semaphore > 0
    /\ semaphore' = semaphore - 1
    /\ epc' = "read"
    /\ met' = (met \/ ~quiet)
    /\ UNCHANGED <<failed, list, servletVars, temp, out, fault>>

(* sem_wait returns with an error (EINTR: a signal handler ran in the      *)
(* engine thread): semaphoreAcquire logs it and returns 0, a result that   *)
(* engineDequeue does not look at.                                         *)
semaphoreAcquireFails ==
    /\ epc = "acquire"
    /\ epc' = "read"
    /\ failed' = TRUE
    /\ UNCHANGED <<met, list, semaphore, servletVars, temp, out, fault>>

(* Mutant: the event is read from the wrong end of the list. *)
engineDequeueHead ==
    /\ epc = "read"
    /\ UNCHANGED <<met, failed>>
    /\ IF ~live(head) THEN crash ELSE
       /\ temp' = event[head]
       /\ epc' = "test"
       /\ UNCHANGED <<list, semaphore, servletVars, out, fault>>

(* temp = tail->incoming_event *)
engineDequeue ==
    /\ epc = "read"
    /\ UNCHANGED <<met, failed>>
    /\ IF ~live(tail) THEN crash ELSE
       /\ temp' = event[tail]
       /\ epc' = "test"
       /\ UNCHANGED <<list, semaphore, servletVars, out, fault>>

(* if (tail->prev != NULL) *)
dequeueTest ==
    /\ epc = "test"
    /\ UNCHANGED <<met, failed>>
    /\ IF ~live(tail) THEN crash ELSE
       /\ epc' = IF prev[tail] # NULL THEN "back" ELSE "last"
       /\ UNCHANGED <<list, semaphore, servletVars, temp, out, fault>>

(* tail = tail->prev *)
dequeueBack ==
    /\ epc = "back"
    /\ UNCHANGED <<met, failed>>
    /\ IF ~live(tail) THEN crash ELSE
       /\ tail' = prev[tail]
       /\ epc' = "free"
       /\ UNCHANGED <<head, event, next, prev, mem, semaphore, servletVars,
                      temp, out, fault>>

(* free (n); free (NULL) does nothing *)
free(n) == mem' = [m \in Elements |-> IF m = n THEN "freed" ELSE mem[m]]

(* free (tail->next) *)
dequeueFree ==
    /\ epc = "free"
    /\ UNCHANGED <<met, failed>>
    /\ IF ~live(tail) \/ (next[tail] # NULL /\ ~live(next[tail]))
       THEN crash ELSE
       /\ free(next[tail])
       /\ epc' = "unlink"
       /\ UNCHANGED <<head, tail, event, next, prev, semaphore, servletVars,
                      temp, out, fault>>

(* tail->next = NULL; return *)
dequeueUnlink ==
    /\ epc = "unlink"
    /\ UNCHANGED <<met, failed>>
    /\ IF ~live(tail) THEN crash ELSE
       /\ next' = [next EXCEPT ![tail] = NULL]
       /\ out' = Append(out, temp)
       /\ epc' = "acquire"
       /\ UNCHANGED <<head, tail, event, prev, mem, semaphore, servletVars,
                      temp, fault>>

(* free (tail) *)
dequeueLast ==
    /\ epc = "last"
    /\ UNCHANGED <<met, failed>>
    /\ IF tail # NULL /\ ~live(tail) THEN crash ELSE
       /\ free(tail)
       /\ epc' = "clear"
       /\ UNCHANGED <<head, tail, event, next, prev, semaphore, servletVars,
                      temp, out, fault>>

(* head = NULL *)
dequeueClearHead ==
    /\ epc = "clear"
    /\ head' = NULL
    /\ epc' = "cleartail"
    /\ UNCHANGED <<tail, event, next, prev, mem, semaphore, servletVars, temp,
                   out, met, failed, fault>>

(* tail = NULL; return *)
dequeueClear ==
    /\ epc = "cleartail"
    /\ tail' = NULL
    /\ out' = Append(out, temp)
    /\ epc' = "acquire"
    /\ UNCHANGED <<head, event, next, prev, mem, semaphore, servletVars, temp,
                   met, failed, fault>>

-----------------------------------------------------------------------------
Enqueue(p) ==
    \/ engineEnqueue(p) \/ enqueueTest(p)
    \/ enqueueFirst(p) \/ enqueueFirstInit(p) \/ enqueueFirstTail(p)
    \/ enqueueWalk(p) \/ enqueueAdvance(p)
    \/ enqueueAppend(p) \/ enqueueAppendInit(p) \/ enqueueAppendTail(p)
    \/ semaphoreRelease(p)

Dequeue ==
    \/ semaphoreAcquire \/ engineDequeue \/ dequeueTest
    \/ dequeueBack \/ dequeueFree \/ dequeueUnlink
    \/ dequeueLast \/ dequeueClearHead \/ dequeueClear

Next == /\ ~fault
        /\ Dequeue \/ semaphoreAcquireFails \/ \E p \in Servlets : Enqueue(p)

Spec == Init /\ [][Next]_vars

(* The threads run (pthreads are scheduled); nobody owes the queue events  *)
(* and no signal has to arrive.                                            *)
Fairness ==
    /\ WF_vars(~fault /\ Dequeue)
    /\ \A p \in Servlets : WF_vars(~fault /\ Enqueue(p) /\ pc[p] # "idle")

FairSpec == Spec /\ Fairness

-----------------------------------------------------------------------------
(* Properties. *)

(* The list and the threads' locals have the declared shapes.              *)
Link == Elements \union {NULL, Wild}
TypeOK ==
    /\ head \in Link /\ tail \in Link
    /\ event \in [Elements -> Elements \union {NULL}]
    /\ next \in [Elements -> Link] /\ prev \in [Elements -> Link]
    /\ mem \in [Elements -> {"unused", "live", "freed"}]
    /\ semaphore \in Nat
    /\ pc \in [Servlets -> {"idle", "test", "first", "init1", "tail1", "walk",
                            "advance", "append", "init2", "tail2", "release"}]
    /\ cur_pos \in [Servlets -> Link]
    /\ d \in [Servlets -> Elements \union {NULL}]
    /\ epc \in {"acquire", "read", "test", "back", "free", "unlink", "last",
                "clear", "cleartail"}
    /\ temp \in Elements \union {NULL}
    /\ made \in 0 .. MaxEvents
    /\ out \in Seq(Elements \union {NULL})
    /\ met \in BOOLEAN /\ failed \in BOOLEAN /\ fault \in BOOLEAN

(* n is the oldest, or the newest, element of S; NULL stands for none.     *)
Oldest(S, n) == IF S = {} THEN n = NULL ELSE n \in S /\ \A m \in S : n <= m
Newest(S, n) == IF S = {} THEN n = NULL ELSE n \in S /\ \A m \in S : m <= n

(* As long as no two operations have been in the list at once (and         *)
(* sem_wait has not failed), no thread follows a dead pointer, and         *)
(* whenever nobody is in the list it is a proper doubly linked list of the *)
(* live elements in the order of their arrival: head is the oldest and     *)
(* tail the newest, next and prev lead from each element to the one after  *)
(* and before it, each holds the event it was made for, and the semaphore  *)
(* counts them, but for the servlets that are about to release it.  The    *)
(* code does not keep operations apart: what happens when they meet is     *)
(* AcquiredMeansNonempty's run.                                            *)
Live == {n \in Elements : mem[n] = "live"}
After(n) == {m \in Live : m > n}
Before(n) == {m \in Live : m < n}
Releasing == {p \in Servlets : pc[p] = "release"}
WellLinked ==
    ~disturbed =>
        /\ ~fault
        /\ quiet =>
              /\ semaphore + Cardinality(Releasing) = Cardinality(Live)
              /\ Oldest(Live, head) /\ Newest(Live, tail)
              /\ \A n \in Live : /\ Oldest(After(n), next[n])
                                 /\ Newest(Before(n), prev[n])
                                 /\ event[n] = n

(* Every event stored in the list is returned by engineDequeue in the end, *)
(* unless at some time two operations meet in the list or sem_wait fails.  *)
AllDelivered ==
    \A n \in Elements :
        (live(n) /\ event[n] = n) ~>
            (disturbed \/ \E i \in DOMAIN out : out[i] = n)

(* Up to the first time that two operations meet in the list, it is a pool *)
(* of events: what engineEnqueue puts in stays in until engineDequeue      *)
(* returns it, once, and engineDequeue returns nothing else.  In which     *)
(* order is left open: engine_queue.h calls this a queue and the code      *)
(* takes the newest event first.                                           *)
Waiting == {event[n] : n \in Live} \ {NULL}
Held == IF epc \in {"acquire", "read"} THEN {} ELSE {temp}
Returned == {out[i] : i \in DOMAIN out}
Pool == INSTANCE EventPool WITH Events <- Elements, Capacity <- MaxEvents,
                                pool <- Waiting \union Held, taken <- Returned
ImplementsPool ==
    Pool!Init /\ [][~disturbed' => [Pool!Next]_(Pool!vars)]_vars

-----------------------------------------------------------------------------
(* What the comments say of this code, and it does not do.                 *)

(* engine_queue.c: the semaphore acquired "means there's something in the  *)
(* queue", so engineDequeue, having acquired it, finds an element.         *)
AcquiredMeansNonempty == epc = "read" /\ ~failed => live(tail)
=============================================================================
