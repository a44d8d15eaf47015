# Peep in TLA+

Peep, the "network auralizer", turns network events into sound. Clients (Perl,
`src/client/Net/Peep`) watch logs and hosts and send events; the daemon `peepd`
(C, `src/server`) plays them: single events as short sounds on *event
channels*, states as background sounds on *state channels*. This directory
models the parts in which threads, signal handlers, queues, files and messages
meet, checks them with TLC and proves with TLAPS, for every value of the
constants, every invariant that TLC checks and that each queue implements its
abstract specification (the engine queue only until two of its operations meet).

Paths below are relative to `src/`; `peep-server.tex` is
`docs/server/peep-server.tex`.

## 1. Inventory

| part | state it keeps | operations | meets |
|---|---|---|---|
| engine queue (`server/engine_queue.c`) | a doubly linked list `head`/`tail`, a semaphore | `engineEnqueue`, `engineDequeue` | filled by every server thread, drained by the engine thread; the semaphore is the only synchronisation |
| sound engine (`engine.c`, `main.c` `engineLoop`) | `sched[]` (start time and priority of each channel), `lastc` | `engineIO`, `engineSchedulerInit` | chooses a channel and calls the mixer, or fills the mixer queue |
| sound table (`engine.c`) | a hash table of sounds | insert, retrieve, destroy | filled while loading, read by the engine thread |
| voice mixer, events (`mixer.c`, `main.c` `doMixing`) | `ebuffs[]`, `dyn_mul[]`, `dyn_buf_cnt` | `mixer`, `mixerAddEvent`, `mixerRemoveEvent`, `mixerAddOldEvent` | a thread of its own, but several of its procedures run in the engine thread |
| voice mixer, states (`mixer.c`) | `sbuffs[]` with thresholds and segments, `lin_fade[]` | setters, `mixerPickRndStateSnd`, `mixerFadeEffect` | the engine thread changes volume and fade time under the mixer's feet |
| mixer queue (`mixer_queue.c`) | a heap of at most 64 events, `top`, `qlock` | `mixerEnqueue`, `mixerDequeue`, full and empty tests | the engine thread adds, the mixer thread removes; the tests are made without the lock |
| recording and playback (`playback.c`) | a file (header and records), `event_cnt`, `loopback_flag`, the stream's position | record, close, find, play | recorded by the engine thread, closed by the main thread's signal handler, played by another process |
| UDP server (`udp_server.c`, `server.c`) | the lease list, the class identifier | `serverProcessBC`, `serverUpdateClient`, `serverHandleAlarm` | clients, by datagrams; its SIGALRM handler interrupts its main loop |
| TCP and SSL servers (`tcp_server.c`, `ssl_server.c`, `server.c`) | one detached thread per connection, packet buffers | `serverServlet`, `serverProcessClientEventPacket` | put events into the engine queue |
| notices and XML (`notice.c`, `xml_notice.c`, `xml.c`) | a notice per packet | conversion to an event | called by the servlets |
| theme loading (`xml_theme.c`, `parser.c`) | what is loaded so far | announce events, states, thresholds, sounds | engine and mixer, before the threads start |
| life cycle (`main.c`, `thread.c`) | the threads | start, `handleSignal` | frees everything the threads use, without joining them |
| client broadcast and leases (`Net/Peep/BC/BC.pm`) | `%Servers`, the broadcast counter | `hello`, `handlealarm`, `updateserverlist`, `purgeserverlist` | servers, by datagrams; the scheduler |
| client scheduler (`Scheduler.pm`) | a sorted queue, one alarm | add, remove, wake up | the alarm handler runs between any two operations |
| client notifications (`Notifier.pm`, `Mail.pm`) | stored notifications, time of the last mail per client | `notify`, `force`, `flush` | a mail relay that may fail |
| client main loop, tools, configuration | options, hosts, rules | parse, loop | all of the above |
| sound drivers, command line, logging | none of interest | library calls | – |

What is hard about each, and what makes it correct:

* **engine queue** – pointer stores of two threads interleave. Correct: every
  event enqueued is dequeued once, and whoever has the semaphore finds an element.
* **engine and event channels** – state is read without `mlock`, decided upon,
  and changed later; a procedure runs in both threads. Correct: `sched[]` and
  `ebuffs[]` agree, each sound string has one owner, the count of voices is exact,
  no event waits while all channels are silent, neither thread waits for ever.
* **mixer queue** – unlocked tests, a heap at its limits. Correct: no index
  leaves the array, nothing is lost or doubled, the most important event is next.
* **recording** – a crash at any step, a signal handler on the same stream, a
  counter at multiples of the maximum. Correct: the newest events are in the file,
  and playback finds the oldest, keeps the order and ends.
* **leases** – two periodic alarms at any phase, lost packets, restarts, a
  handler that frees list entries. Correct: whoever is alive is renewed, whoever
  is gone is forgotten, and both find each other again.
* **servlets** – a byte stream in pieces, headers left over from the packet
  before, ownership of bodies, connections that break anywhere. Correct: what is
  enqueued or answered was sent, once and in order, as long as reads are whole;
  no wrong pointer is used; whoever has gone is noticed.
* **state channels** – a fade while volume, threshold and fade time change.
  Correct: the segment and position in use are loaded ones, the two segments of a
  fade follow each other without a sample heard twice, the sound goes on where
  there is one.
* **sound table and loading** – sections, imports and themes in any order, errors
  half way, one state too many, names that collide. Correct: each state has a
  channel of its own that exists, an event has all its sounds, thresholds lie side
  by side, a name is entered once, a search ends (the last two are not so).
* **life cycle** – freeing under running threads; SIGHUP returns.
* **scheduler and notifier** – one repeated entry; a list that a mail empties.

## 2. Modules

| module | models | abstract specification | proofs |
|---|---|---|---|
| `MixerQueue` | `mixer_queue.c`, and its callers as far as they matter to it | `EventPool` (a bounded pool) | `MixerQueueProofs` |
| `EngineMixer` | `engineLoop`, `engineIO`, the event half of `mixer.c`; the queue is `EventPool`'s | – | `EngineMixerProofs` |
| `EngineQueue` | `engine_queue.c`, the semaphore of `thread.c` | `EventPool`, until operations meet | `EngineQueueProofs` |
| `Leases` | `udp_server.c` leases, `BC.pm` | – | `LeasesProofs` |
| `Playback` | `playback.c`, `handleSignal` as far as it closes the file | – | `PlaybackProofs` |
| `SoundLoading`, `MCSoundLoading` | `parser.c`, `xml_theme.c`, the sound table of `engine.c`, the loading half of `mixer.c` | – | `SoundLoadingProofs` |
| `StateMixer`, `MCStateMixer` | the state half of `mixer.c` and of `engineIO` | – | `StateMixerProofs` |
| `Servlet`, `MCServlet` | `tcp_server.c`, `ssl_server.c`, the packet half of `server.c`, `xml_notice.c` | – | `ServletProofs` |

**MixerQueue.** `heap`, `top` and `qlock` are the C variables. `mixerEnqueue` and
`mixerDequeue` are split at every statement that the other thread can see, one
iteration of `bubbleUp` and `bubbleDown` is a step, and the tests
`mixerQueueFull` and `mixerQueueEmpty` are steps of the callers, which do not
hold the lock. An event is an identity and a priority; `accepted` and `taken`
record which ones were let in and handed out.

**EngineMixer.** Two threads with a program counter, a channel and an event
each. Steps end at every unlocked access to shared state and inside the `mlock`
section of `mixerAddEvent`; the position of a channel is read again wherever the
code does. `tlock` is held for a few assignments only, each section of which is a
step: the return of `engineSchedulerInit` that leaves it locked needs `sched` to be
NULL, and `engineInit` allocates `sched` before the threads start. Samples are counted, not computed: stereo position,
volume multipliers and filters are left out; `dyn_buf_cnt` is an `unsigned int`
with `UintRange` values. The sound table is taken to give an answer.

**EngineQueue.** Each test, load and store of `head`, `tail`, `next` and `prev` is
a step, with two exceptions: following a pointer goes with what is done through it,
and the stores that fill a new element are one step. `mem` records which elements
are allocated; the links that `malloc` leaves uninitialised are `NULL` or `Wild`,
and addresses are not reused. `sem_wait` may return with an error, which
`engineDequeue` does not look at. Operations of all threads overlap in every way.
Two history variables mark the first time that two of them are in the list at once
(`met`) and that `sem_wait` failed (`failed`): the code prevents neither, so what
the list promises is stated up to there (`disturbed`), and `EngineQueueRace` shows
what comes after.

**Leases.** Time is counted in units of 30 seconds, the greatest common divisor
of the protocol's periods, and every stored time is the time left, so the state
space is finite. `serverAddClient` is split at its list traversal, where the
alarm handler can interrupt it; the purge walks the list as the code does, in a
recursive function. A client has two ports: the one it broadcasts from and
reads, and the one it sends everything else from.

**Playback.** A record is the time of its event and the n-th event has time n;
a position is a number of records. The engine thread (`recordTest` to
`recordEnd`) and the handler (`handleSignal` to `exit`) share `pos`, the stream's
position. The two searches are operators; where the C code compares an
uninitialised record, both outcomes are allowed, and an uninitialised `end_pos`
is any position. The playback loop keeps its three branches: a record, the end
of the file with `errno` `EINTR`, and with any other `errno`.

**SoundLoading.** One step reads one section of a configuration file or one
element of a theme; which one is the environment's choice from `EventSections`,
`StateSections` and `Themes`. `sound_table` has a list per hash value, `sbuffs`
the thresholds of each channel, with bounds, the number of sounds announced (`cnt`)
and of sounds loaded (`got`). `claims` counts how often a channel was allocated and
`fault` notes the first access to memory that is not there: `mixerAllocNewState`
behind the last channel goes on or not, everything else ends the behaviour. A
threshold of a theme may lack its level or its sound: `info` keeps the bounds read
before, which are then used again (`unlevelled` records this), and a path that was
not found is a NULL given to `opendir` (`fault` "path").
The thresholds that the parser counts ahead are the length of the section's list.

**StateMixer.** One channel, because channels share nothing. What loading has left
is in four constants: the bounds of each threshold, the ones with a `snd_buf`
(`Opened`), the lengths of the segments and the segments that are not NULL
(`Loaded`). One frame of output is a round of the mixer thread through `get`,
`check` (the three tests of `mixer.c:514-516`, which skip the frame, and the read of
the samples), `filter`, `left`, `right` (a filter for each sample, with an extra step
between the choice of the next segment and the search of its threshold) and
`advance`; each looks up volume, flag and threshold again, as the code does. The
engine thread sets fade time, volume and flag in three steps at any point.
`disturbed` records that a setting came within a frame or a fade, `unfit` that a
fade began with a segment that is not loaded or too short for it, or with a volume
that is not in exactly one threshold.

**Servlet.** A connection is a sequence of units, two for a header and `len` for
a body; `read` returns any number of units from one to what it was asked for.
`hdr` is `msg.header`, kept from packet to packet on the servlet's stack, with its
magic number as it stands after `ntohl`: a short read leaves the second half of the
header alone and the swap is applied again. `body` is what `msg.body` points to,
`heap` whether a wrong pointer was freed or filled ("fault") or a byte was written
behind a body ("overrun"). `build` chooses between the TCP
and the SSL server, which differ in who accepts, in the calls that read and in the
branch for events. A datagram is a step of the main loop that changes nothing here.

## 3. Runs

| run | checks | instance |
|---|---|---|
| `MixerQueue` | `SlotsInBounds`, `NothingLostOrDoubled`, `ImplementsPool`, `OperationsEnd` | heap of 4, 5 events, 3 priorities |
| `MixerQueueOrder` (violation) | `PriorityOrder` | heap of 3 |
| `EngineMixer` | `QueueSafe`, `StringsOwned`, `UncontendedCoherent`, `EngineReturns`, `MixerGoesRound` | 2 channels, queue of 1, 4 events |
| `EngineMixerNoneWaits` (violation) | `NoneWaitsInSilence` | 1 channel, 2 events |
| `EngineQueue` | `WellLinked`, `AllDelivered`, `ImplementsPool` | 2 servlets, 3 events, all interleavings |
| `EngineQueueRace` (violation) | `AcquiredMeansNonempty` | 1 servlet, 2 events |
| `Leases` | `OneLeasePerAddress`, `LeasesRenewed`, `GoneIsForgotten`, `Rediscovery` | 1 client, 2 lives each, 1 loss |
| `LeasesHeard` (violation) | `HeardIsKept` | 2 clients on one host |
| `Playback` | `NewestKept`, `OnlyRacesDamage`, `PlayedInOrder`, `WindowPlayed`, `PlaybackEnds` | ring of 3, 8 events |
| `SoundLoading` | `OwnChannel`, `InBounds`, `AdjacentBounds`, `EventsWhole`, `ThemeEventsLoaded`, `DuplicatesAdjacent` | 2 channels, 4 names in 2 hash values, 6 sections, 1 import, 12 themes |
| `StateMixer` | `PlaysInside`, `FadeHandsOver`, `NextSegment` | 3 thresholds, one without sounds; 4 segments, one NULL; 3 fade points, 3 events |
| `Servlet` | `EventsFaithful`, `HeapSafe`, `Served` | both servers, 2 connections, 3 packets of 4 kinds |

Every passing run but `Servlet` also checks its module's `TypeOK`.

What the passing runs show:

* the mixer queue's unlocked tests are good enough, because only one thread adds
  and only one removes; every event let in is in the heap, handed out or in
  `mixerEnqueue`'s hands, and in one place only; it implements a bounded pool
  (not a priority queue, see below), and every operation ends;
* engine and mixer never wait for each other for ever, never free a string
  twice, and, except in the window described under `UncontendedCoherent`
  (the engine works on a channel the mixer is refilling), agree about which
  channels are busy;
* until two operations of the engine queue meet in the list, or `sem_wait` fails,
  the list is well linked and every event is returned once. Nothing keeps them
  apart, so this is what the algorithm is worth without the lock it lacks, not
  what the program guarantees. Which event is next is left open: the code takes the
  newest, although `engine_queue.h` calls it a queue;
* leases are renewed in time at every phase of the two alarms and no address is
  entered twice, although the alarm handler interrupts the insertion; whoever
  runs in the end is found in the end, whatever was lost or restarted;
* a recording has the newest events wherever it was stopped; the oldest record
  is found after a crash from the times alone; playback from there is in order;
* whatever is configured, two states never share a channel and an event is loaded
  as a whole or not at all; the channels are left in exactly two ways while loading, a
  state behind the last channel and thresholds of a second state on a channel that
  has fewer; an event of a theme is loaded if its sound was not used before and
  the sound declared last was not either; the ranges of a state's thresholds adjoin,
  except that one without a level repeats the range before it; a name is in the
  sound table at most twice, the second time right behind the first. That a search
  in the table ends is not stated, because it does not (section 5);
* a state's reads stay inside loaded segments as long as no event for it comes within
  a frame or a fade, its volume is not on a bound or beyond the last one, and the
  segments that fades choose are loaded and as long as two fades; without these
  conditions the read at `mixer.c:831` may go astray, which the state space of the
  run contains (`fault`). Under them a fade hands over without hearing a sample of
  the new segment twice, but one frame of it is left out and its channels are
  swapped within the fade. The sound never sticks within a segment, whatever
  changes; it does stop, until the volume leads to another threshold, when the
  segment chosen at random is one that was not loaded;
* while reads are whole the TCP server does what the packets say, in order; after
  a short read packets may be lost, but something that was never sent is made up
  only after two short headers in a row; the TCP servlet never uses a wrong pointer
  although an event leaves `msg.body` dangling, but writes one byte behind the body
  of a client's broadcast; the SSL servlet uses a wrong pointer with every event; a client that has gone is noticed, except that one SSL client which does
  not finish its handshake keeps all others waiting.

The violation runs state what a comment or the manual says and the code does not
do; each is explained in `PROJECT.json` under `findings`: the heap never
compares slots 0 and 1; an event queued just after the last sound ended waits in
silence; the engine queue races; of two clients on a host only one is renewed.

### Bounds, and why they are enough

* *Heap*: 4 slots have both children of slot 0, a grandchild, and full and empty;
  5 events pass through it once more than it holds. The proofs remove the bound.
* *Channels*: two, so that one is refilled while the other is chosen; a queue of
  one is full and empty often. Sounds of one and two samples end at once or are
  interrupted. The proofs of its invariants are for any number of channels.
* *Engine queue*: three elements make a head, a tail and an inner one; two servlets
  and the engine thread meet in pairs and all three at once. The proofs are for any
  number of both.
* *Leases*: `INTERVAL`, `LEASE`, `WAKEUP` and `WAKEUPS` are the real ones;
  `BC_INTERVAL` is 10 instead of 40, still longer than it takes the server to drop
  an entry, which is what its size matters for. Two lives of each side meet an
  entry of a former life, and one loss is what a lease is to survive. The proofs
  have no bounds and say what the periods must satisfy.
* *Recording*: `MaxEvents = 8` is more than twice the ring of 3, so the writer
  passes the first and the second multiple of the maximum, at both of which the
  code behaves differently. The proofs remove both bounds.
* *Loading*: two channels and up to six sections reach one state too many, a
  theme after states, and four entries of one name in a list; each theme stands for
  one way to use sounds (in order, twice, the head first, not at all, broken,
  missing, several states, a threshold without a level or a sound), each directory for
  one way to fail. The proofs remove the bounds for all its invariants.
* *State channel*: segments of 6 and 8 samples with fades of 0, 2 and 4 have a
  segment longer and one shorter than two fades; one segment and one threshold are
  not loaded; volumes lie in, on and outside the bounds; three events interrupt a fade, and the fade that replaces it.
* *Servlet*: three packets are needed for two short headers in a row; the second
  connection sends a broadcast only, enough to hold up the main loop or to be held
  up. A client sends again when at most two units are unread.

Deadlock is not checked: every model stops when its bounded number of events is
used up, `peepd` then waits for more.

### Fairness

Weak fairness only, of what the operating system schedules: the steps of a
thread inside an operation (`MixerQueue`, `EngineMixer`, `EngineQueue`), the
progress of time and of the processes that run (`Leases`), the player
(`Playback`), the mixer's frames (`StateMixer`), and the threads of the server as a
whole (`Servlet`, one weak fairness condition: some thread that can go on does).
Arrival of events, crashes, restarts, losses and errors of `sem_wait` are never fair.
`EngineQueue` assumes that a servlet completes an enqueue it has begun, not that
it begins one.

## 4. Proofs

Every invariant and action property of every passing run and both refinements are
theorems, for every value of the constants that satisfies the
assumptions of its module. Each proof rests on an inductive invariant. A module's `TypeOK`
is always part of it and is stated as `TypeCorrect`.

`MixerQueueProofs` (`StaysInBounds`, `EventsConserved`, `QueueImplementsPool`)
holds for every heap size, number of events and set of priorities. `SlotsInBounds`
is not inductive: that the slot touched is below `top` depends on the test made
before the lock was taken. The invariant adds who holds `qlock` at which step
(`LockHeld`) and that an enqueue's test is still true when it is used because
only the other thread changes `top` in between, downwards; a dequeue's, upwards.
`EventsConserved` needs that an event arrived before it is waiting or out
(`ArrivedBefore`), and that the one being inserted is counted with its `top++`. For the pool the mapping takes the events in the heap but the
one that is being inserted (`Waiting`) as contents; each step then is shown to be
an insertion, a removal or a stutter, the exchanges of `bubbleUp` and `bubbleDown`
among the latter. Assumptions: the size
of the heap is a positive natural number, priorities are naturals.

`EngineMixerProofs` stacks its invariants, types first, for any number of channels and events:

* `QueueStaysSafe`: what a thread has found out about the queue without the lock
  stays true until it uses it.
* `StringsHaveOneOwner`: `StringsOwned`. Waiting events are told apart by their
  number, and the one a thread has in its hands is none of them (`StringInv`).
* `CoherentUntilContended`: `UncontendedCoherent`. Until `contended`, the channel
  the engine has claimed is idle and unmarked until it is filled (`Claimed`), the
  one the mixer has cleared stays silent (`Cleared`), a sound that is being filled
  has no end yet (`SilentIsEmpty`), and `dyn_buf_cnt` is exact (`CountIsExact`). Assumption: `unsigned int` can
  count all channels.

`EngineQueueProofs` is for any number of servlets and events and has no hypothesis;
its invariant is `TypeInv /\ (~disturbed => QueueInv)`. `TypeCorrect` is about all
behaviours. `ListStaysLinked` and `ListImplementsPool` say something up to the first
step in which two operations meet or `sem_wait` fails, as the properties do; what is
hard is that this is decided while threads stand between any two stores. `QueueInv`
says that without `disturbed` at most one thread is in the list (`Alone`), and
`ServletAt` and `EngineAt` which stage of the list belongs to which of its steps (the
tail that lags behind, the element not filled yet, the one freed but still linked);
`CountInv` ties the semaphore to the elements, `OutInv` says that what was returned
is never in the list again. For the pool the contents are the events in live
elements and the one that `engineDequeue` holds.

`LeasesProofs` is for any clients, addresses and periods, any losses and
restarts:

* `OneLease`: `OneLeasePerAddress`. While `serverAddClient` searches, what it has
  passed is not the address it looks for (`SearchInv`), also after the handler has
  purged the list under it. That the purge leaves a sublist is a fact about a
  recursive function; it is proved by contradiction from a least counterexample,
  with the well-foundedness of `<`.
* `RenewedInTime`: `LeasesRenewed`, with two hypotheses on the periods:
  `LEASE > WAKEUP + Slack` and `Expiry > 2 * (INTERVAL + Slack)`. The code's periods
  satisfy them if alarms are handled in time (10 > 9, 18 > 6), and not if one is
  handled 30 seconds late (10 > 10 is false): then TLC finds `LeasesRenewed`
  violated, so the first condition is sharp. The invariant `RInv` bounds the time
  left from below by what is on its way: a client's lease is at least
  `LEASE - WAKEUP + alarm` or a renewal is unread (`ClientSide`); the server's entry
  has at least `Floor(c)` left, which grows with every stage of the client's next
  packet, or a broadcast is pending (`ServerSide`); and a client that has no lease
  yet has an answer coming (`Answered`). Clients on one host share the first
  entry of that host.

`PlaybackProofs` holds for every `MAX_PLAYBACK_EVENTS > 0` and every number of
events:

* `Layout`: the inductive invariant of recording. `NewestKept` speaks of a set of
  events and says nothing about where the next write goes; the proof needs the
  closed form of the file (`HasLayout`): in order up to MAX events, then new over old
  from the front, and from twice MAX on in order and growing. `WriterPosition` says
  that the stream stands where the layout has the next record's place or, once the
  handler has moved it, at the start or behind the header; `Exclusion` that without
  `raced` handler and record exclude each other. `NextRecord` and `FirstRecord`
  are the two facts about sequences: a record in its place extends the layout,
  one over the first record leaves all others alone.
* `RingKeepsNewest`: `NewestKept`, by finding the place of every new event.
* `DamageNeedsRace`: `OnlyRacesDamage`.
* `WholeFileInOrder` (`PlayedInOrder`) and `WindowIsPlayed` (`WindowPlayed`): a
  file without damage is a rotation of consecutive events (`Rotated`) and its
  header, if it was closed, has the position of the oldest (`Closed`); the searches
  are described by where they stop, and the loop by how much of the rotation it
  has played. Assumption: `None` is not an integer.

`SoundLoadingProofs` holds for any names, hash function, directories, sections,
themes and number of channels, and for files of any length and depth:

* `StatesHaveTheirOwnChannels` and `EventsAreWhole`. `OwnChannel` is inductive
  only together with `TableInv`: every index in the table is below `state_cnt`, so
  the next one is new. `TableStep` reduces the fifteen actions to three effects on
  the table (nothing, an event, a state under the index `state_cnt`), and
  `InsertKeepsEntries` says what an insertion leaves alone, whether it finds the
  name or not.
* `IndicesAreInBounds`: `InBounds`. That the index of a new entry is in bounds was
  decided when its channel was allocated, several steps before, so the invariant
  (`BoundsInv`) carries it through the sections: while a state is read,
  `Allocated` says that without a fault the count is that of a channel, and that a
  channel given to one state has as many thresholds as that state; `ChanInv` ties
  channels to how often they were given, `ReadInv` says what is being read where.
* `BoundsAreAdjacent`: `AdjacentBounds`. Thresholds read adjoin or repeat the range
  before them, those not read yet are as they were allocated, and the bounds that
  the parser has kept are those of the threshold filled last (`ThreshInv`), also
  where a directory in between failed.
* `DuplicatesStayAdjacent`: `DuplicatesAdjacent`. The test of an insertion passes over
  the last entry of a list only, so a new entry of a name already there is right
  behind it.
* `ThemesLoadTheirEvents`: `ThemeEventsLoaded`. As long as the head of the list of
  sounds was not used, the list holds every sound not used (`ThemeInv`).

  Assumptions: `None` is none of the names and faults, the number of channels is a
  natural number, thresholds and the states of a theme are sequences.

`ServletProofs` holds for any connections, packets of any kind and length, and
reads of any size:

* `HeapStaysSafe`: `HeapSafe`. Whatever a servlet takes for a packet of some type
  leads back to one that was sent or to two short headers. What is in a stream was sent and the halves of a
  header follow each other (`Framed`); a magic number is swapped only after a short
  read (`HeaderInv`).
* `EventsAreFaithful`: `EventsFaithful`. The stream is the rest of the packets
  sent, without a gap (`Chain`): from any unit on the units of its packet follow in
  closed form, since an argument from one unit to the next would be an induction
  over data. Everything unread is of later packets than everything done (`Past`).
  Unless two headers were short in a row, a servlet that reads a body stands at
  the first unit of it (`Clean`); and without a short read what is owed for a packet
  is done, or its header is unread, or its body is next (`Settled`).

`StateMixerProofs`: `AlwaysInside` (`PlaysInside`) and `FadesHandOver`
(`FadeHandsOver`), for any table of segments, loaded or not, volumes and fade times.
Position, stage of the frame and progress of the fade are tied to each other while
no event has disturbed them (`PosInv`, `FrameInv`, `FadeInv`): before a left sample
the new segment is at `fade_pt - left - 1`, one sample behind. Hypothesis: no
directory that was opened and no file that was loaded is empty, because the mixer
reads a sample of an empty one.

*Only model-checked.* Liveness, which the prover does not do: `OperationsEnd`,
`EngineReturns`, `MixerGoesRound`, `AllDelivered`, `GoneIsForgotten`, `Rediscovery`,
`PlaybackEnds`, `Served`, `NextSegment`. The properties of the
violation runs are false and cannot be proved.

## 5. Other deviations seen while modelling

The models contain them; no run of its own states them.

* `engine.c:461,474`: a channel is taken for interruption only if `bestc` is 0,
  but it starts at -1, so a sound of lower priority is not interrupted, contrary
  to the comment at 430 (`EngineMixer`, `bestcAfter`).
* `engine.c:499-507` and `main.c:389`: the sound string of an event that is
  discarded is never freed (`StringsOwned` is about freeing twice, not about this).
* `mixer.c:493`: the end of a sound is tested with `==` on values read without
  the lock; a channel refilled in between can be played past its end (`PosBound`).
* `udp_server.c:545`: of two neighbouring expired entries that are not first in
  the list, the second is followed after it was freed (`dangling`).
* `udp_server.c:354`: the alarm handler can free the entry at which
  `serverAddClient` stands (`fault` "stale").
* `udp_server.c:275` and `server.c:330` pass the rest of the class string, empty
  at that point, so every client matches (`containsIDClass`).
* `BC.pm:669`: the broadcast of a restarted server is not answered by a client
  that has it in its list already.
* The leases have no margin: with alarms handled one unit late (`Slack = 1`)
  `LeasesRenewed` does not hold.
* `playback.c:205`: the position is reset only for the one event that finds the
  counter equal to the maximum, so the file grows without bound after twice the
  maximum, against `peep-server.tex:293-299`; and it then closes with `start_pos`
  at the end of the file, so that playback hears one event
  (`PlayedInOrder` excludes it through `startKnown`).
* `playback.c:297`: an end time that is not found, or that lies in front of the
  start in the file, is never reached.
* Recorded events hold the pointer to their sound's name, not the name.

* `engine.c:529`: engine and mixer may both decrement `dyn_buf_cnt` for one sound,
  so that the count of voices, an `unsigned int`, wraps round.
* `playback.c:372`: `fread` at the end of the file leaves `errno` alone, so playback
  that has to go round to the front of the file repeats the last event there
  unless `errno` happens to be `EINTR`.
* `engine.c:147`: the search of a list does not advance, so that it ends only if the
  list is empty or its first entry has the name (`searchEnds`); `engine.c:124`
  leaves out the last entry of a list when it looks for a name, so that a name
  can be entered twice (`DuplicatesAdjacent`).
* `engine_queue.c:88-97` takes the newest event, against "queue" in
  `engine_queue.h`; `engineDequeue` does not look at the result of
  `semaphoreAcquire`, which is 0 when `sem_wait` was interrupted.
* `xml_theme.c:559-577`: a threshold without a level is given the bounds of the one
  before it, and the very first of a theme those that are left in `info`;
  `xml_theme.c:480`: one without a sound, or with one that the theme does not
  declare, passes NULL to `opendir`.
* `mixer.c:802`, "for correct stereo position": the new segment of a fade begins at
  its sample 0 on the right sample of the frame in which the fade begins, so its
  channels are swapped until the fade ends, and `mixer.c:843-846` with the advance
  of the same frame leaves out one frame. `mixer.c:513-516` skips a segment that
  was not loaded without choosing another, so that the state is silent from then on,
  and `mixer.c:831` does not test the segment it fades in.
* `xml_theme.c:288-304`: a sound is forgotten with its first use and the first of
  the list takes all others with it: `conf/themes/collin.xml` uses a sound twice.
* `xml_theme.c`: the loop that frees the sounds a theme did not use looks at the
  entry behind the last one (`fault` "trans_table"); a theme with several states
  enters one, under the last name.
* `parser.c:800`: the channel is allocated before the check of `parser.c:1003`.
* The paths of sounds are put together with a general section's `sound-path` even
  if there was none (`fault` "sound_path"); `main` overrides a configured port.
* `mixer.c:358`: `mixerGetStateThreshIndex` returns no value if nothing fits, and
  takes the first of two thresholds that share a bound, where
  `mixerGetStateSndPtr` takes the last.
* `tcp_server.c:285-302`: the buffer of an event that is read short is not freed;
  `server.c:316` writes one byte behind the body of a client's broadcast (`heap`
  "overrun").
* `xml_notice.c`: text that the XML parser delivers in pieces keeps only its last
  piece, and an event without a sound is enqueued with an uninitialised pointer
  (`eventOf`).

## 6. What the models leave out

*Simplifications of modelled code.* `EngineQueue`: memory that was freed is not given
out again. `SoundLoading`: directories with no files count as read, and a
`fault` ends the behaviour except behind the last channel. `StateMixer`: lengths
are even, a channel without any state is left out (it is always skipped), and what
a read outside returns is not followed. `Servlet`:
hosts are little-endian; a short read cuts a header only between its halves; the
bytes of a body are never the magic number; the first wrong pointer ends the
behaviour; `select` on the socket of an SSL connection, which does not see what the
library has read ahead, is taken to see it. In all: failing `malloc`, `fopen`,
`fseek` and `fwrite`, the `Destroy` procedures, playback of an empty or damaged
file.

*Not modelled.* Sound drivers and logging (library calls), `cmdline.c`
(generated), sample arithmetic, XML and configuration syntax, class and client
sections, the SSL context. The life cycle: `handleSignal` frees what cancelled
threads still use and after SIGHUP returns into it; from there on behaviour is
undefined and no property is left to state, except of the recording, which is in
`Playback`. Of the client: the scheduler, in which the programs of the
repository have one repeated entry (its wake-ups are in `Leases`); the notifier, a
list per client that is emptied by a mail; the main loop, configuration and data
classes, which are sequential and share nothing.
