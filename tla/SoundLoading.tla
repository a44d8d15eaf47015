---------------------------- MODULE SoundLoading ----------------------------
(***************************************************************************)
(* server/parser.c, server/xml_theme.c, the sound table of engine.c and    *)
(* the loading half of mixer.c: one thread reads a configuration file,     *)
(* section by section, with its imports and themes, and fills the sound    *)
(* table and the state channels.  Then the engine looks sounds up.         *)
(*                                                                         *)
(* The text is the environment's choice: each step reads one section (or   *)
(* one element of a theme) of a set of sections.  A name, a directory and  *)
(* a level stand for themselves; a sound file is only counted.             *)
(***************************************************************************)
EXTENDS Integers, Sequences, SequencesExt

CONSTANTS Names,           \* names of events and states
          Hash,            \* engineSoundHash of every name
          SoundNames,      \* names that themes give to sounds
          Dirs,            \* directories with sound files
          Files,           \* their number of files; NoDir: opendir fails
          Unreadable,      \* directories whose last file cannot be read
          EventSections,   \* what an event section may say
          StateSections,   \* what a state section may say
          Themes,          \* what a theme file may say
          no_sbuffs,       \* channels for states
          MaxSections,     \* how many sections are read at most
          MaxDepth,        \* how deep imports are nested at most
          None

NoDir == -1
Maybe(S) == S \cup {None}

ASSUME HashAssumption == \A n \in Names : n \in DOMAIN Hash
ASSUME FilesAssumption ==
    /\ \A d \in Dirs : Files[d] \in Nat \cup {NoDir}
    /\ \A d \in Unreadable : d \in Dirs /\ Files[d] > 0
ASSUME NoneAssumption ==
    /\ None \notin Names /\ None \notin Dirs /\ None \notin SoundNames
    /\ None \notin {"state index", "threshold", "sound_path", "trans_table",
                     "path"}
    /\ None \notin Nat
ASSUME SBuffsAssumption == no_sbuffs \in Nat
ASSUME BoundsAssumption == MaxSections \in Nat /\ MaxDepth \in Nat
ASSUME EventSectionsAssumption ==
    \A e \in EventSections : e.name \in Maybe(Names) /\ e.path \in Maybe(Dirs)
ASSUME StateSectionsAssumption ==
    \A s \in StateSections :
        /\ s.name \in Maybe(Names)
        /\ s.thresholds \in Seq([level : Nat, path : Maybe(Dirs)])
ASSUME ThemesAssumption ==
    \A t \in Themes :
        /\ t.sounds \in Seq([name : SoundNames, path : Dirs])
        /\ t.events \in Seq([name : Maybe(Names), sound : Maybe(SoundNames)])
        /\ t.states \in Seq([name : Maybe(Names),
                             thresholds : Seq([level : Maybe(Nat),
                                               sound : Maybe(SoundNames)])])

VARIABLES pc,              \* where the parser is
          depth, sections, \* nesting of imports; sections read so far
          fault,           \* undefined behaviour that was met, None before
          sound_path,      \* whether a general section has set it
          sound_table, event_cnt, state_cnt,
          sbuffs,          \* thresholds of each channel; None: NULL
          claims,          \* times each channel was given to a state
          unlevelled,      \* thresholds a theme gives no level (history)
          sec,             \* the state section or the theme being read
          t_count,         \* thresholds of the state that were read
          trans_table,     \* the theme's sounds, head of the list first
          info,            \* SECOND_PASS_INFO
          asked            \* the name that the engine looks up

vars == <<pc, depth, sections, fault, sound_path, sound_table, event_cnt,
          state_cnt, sbuffs, claims, unlevelled, sec, t_count, trans_table,
          info, asked>>
tableVars == <<sound_table, event_cnt>>
channelVars == <<state_cnt, sbuffs, claims, unlevelled>>
themeVars == <<trans_table, info>>
fileVars == <<depth, sections, sound_path>>

Channels == 0 .. no_sbuffs - 1
NoThreshold == [l |-> 0, h |-> 0, cnt |-> NoDir, got |-> 0]
NoInfo == [name |-> None, path |-> None, ev |-> 1, st |-> 1, l |-> 0, h |-> 0]

(* engineInit and parserInit. *)
Init ==
    /\ pc = "config" /\ depth = 0 /\ sections = 0 /\ fault = None
    /\ sound_path = FALSE
    /\ sound_table = [h \in {Hash[n] : n \in Names} |-> <<>>]
    /\ event_cnt = 0 /\ state_cnt = 0
    /\ sbuffs = [c \in Channels |-> None]
    /\ claims = [c \in Channels |-> 0] /\ unlevelled = {}
    /\ sec = None /\ t_count = 0
    /\ trans_table = <<>> /\ info = NoInfo
    /\ asked = None

(* An error of a section ends the parse, and main then ends the server. *)
shutDown == pc' = "exited"

(* What follows an access to memory that is not there is not modelled.  The
   first fault is the one that is noted. *)
Noted(f) == fault' = IF fault = None THEN f ELSE fault
Undefined(f) == pc' = "undefined" /\ Noted(f)

(***************************************************************************)
(* Sound files.                                                            *)
(***************************************************************************)
(* parserScanDir and parserLoadSoundFile: a directory is loaded if it can be
   opened and each of its files can be read. *)
loadable(d) == d # None /\ Files[d] # NoDir /\ d \notin Unreadable
loaded(d) == IF d \in Unreadable THEN Files[d] - 1 ELSE Files[d]

(***************************************************************************)
(* The sound table: a hash table with a list of entries in each slot.      *)
(***************************************************************************)
(* Fault: the loop stops one entry earlier. *)
insertTwoUncompared(table, e) ==
    LET chain == table[Hash[e.name]]
    IN  IF \E i \in 1 .. Len(chain) - 2 : chain[i].name = e.name
        THEN table
        ELSE [table EXCEPT ![Hash[e.name]] = Append(@, e)]

(* engineSoundTableInsert.  The loop stops at the last entry of the list
   without a comparison with it. *)
engineSoundTableInsert(table, e) ==
    LET chain == table[Hash[e.name]]
    IN  IF \E i \in 1 .. Len(chain) - 1 : chain[i].name = e.name
        THEN table
        ELSE [table EXCEPT ![Hash[e.name]] = Append(@, e)]

(* Fault: an entry is made as soon as the directory is open. *)
loadEventEarly(name, d) ==
    IF d # None /\ Files[d] # NoDir
    THEN /\ sound_table' = engineSoundTableInsert(sound_table,
                [name |-> name, type |-> "EVENT_T",
                 cnt |-> Files[d], got |-> loaded(d), mixer_index |-> None])
         /\ event_cnt' = event_cnt + 1
    ELSE UNCHANGED tableVars

(* parserLoadEventSndDir: the entry reaches the table only after all of its
   sounds. *)
parserLoadEventSndDir(name, d) ==
    IF loadable(d)
    THEN /\ sound_table' = engineSoundTableInsert(sound_table,
                [name |-> name, type |-> "EVENT_T",
                 cnt |-> Files[d], got |-> loaded(d), mixer_index |-> None])
         /\ event_cnt' = event_cnt + 1
    ELSE UNCHANGED tableVars

insertState(name, index) ==
    sound_table' = engineSoundTableInsert(sound_table,
        [name |-> name, type |-> "STATE_T",
         cnt |-> 0, got |-> 0, mixer_index |-> index])

(***************************************************************************)
(* State channels.                                                         *)
(***************************************************************************)
(* Fault: the threshold that the count starts with is forgotten. *)
allocShort(s, n) ==
    IF s \in Channels
    THEN /\ sbuffs' = IF sbuffs[s] = None
                      THEN [sbuffs EXCEPT ![s] =
                                [i \in 1 .. n - 1 |-> NoThreshold]]
                      ELSE sbuffs
         /\ claims' = [claims EXCEPT ![s] = @ + 1]
         /\ UNCHANGED fault
    ELSE Noted("state index") /\ UNCHANGED <<sbuffs, claims>>

(* mixerAllocNewState: a channel that has thresholds keeps them.  The index
   is not checked: behind the last channel memory is damaged, and the server
   may go on. *)
mixerAllocNewState(s, n) ==
    IF s \in Channels
    THEN /\ sbuffs' = IF sbuffs[s] = None
                      THEN [sbuffs EXCEPT ![s] = [i \in 1 .. n |-> NoThreshold]]
                      ELSE sbuffs
         /\ claims' = [claims EXCEPT ![s] = @ + 1]
         /\ UNCHANGED fault
    ELSE Noted("state index") /\ UNCHANGED <<sbuffs, claims>>

(* Fault: the bound of the threshold itself, which is not known yet. *)
ownBound(s, t) == IF t = 0 THEN 0 ELSE sbuffs[s][t + 1].h

(* The lower bound of threshold t is the upper bound of the one before. *)
lowerBound(s, t) == IF t = 0 THEN 0 ELSE sbuffs[s][t].h

(* mixerGetThresholdEntry gives NULL, which its callers do not expect. *)
noEntry(s, t) == t > 0 /\ (s \in Channels => t > Len(sbuffs[s]))

(* mixerAddStateThreshold, then mixerAddState for each sound: an index behind
   the last threshold is refused, but the one right behind it is not.  *)
overrun(s, t, d) ==
    s \in Channels /\ d # None /\ Files[d] # NoDir /\ t = Len(sbuffs[s])

mixerAddStateThreshold(s, t, l, h, d) ==
    sbuffs' = IF t < Len(sbuffs[s])
              THEN [sbuffs EXCEPT ![s][t + 1] =
                        [l |-> l, h |-> h, cnt |-> Files[d], got |-> loaded(d)]]
              ELSE sbuffs

(* parserLoadStateSndDir counts a state too many and skips it; a directory
   that cannot be opened changes nothing, one that fails later leaves a
   threshold with some of its sounds.  Its callers see to it that the path is
   not NULL where it is opened, or else note the fault. *)
parserLoadStateSndDir(t, l, h, d) ==
    IF state_cnt >= no_sbuffs
    THEN state_cnt' = state_cnt + 1 /\ UNCHANGED sbuffs
    ELSE /\ UNCHANGED state_cnt
         /\ IF Files[d] # NoDir
            THEN mixerAddStateThreshold(state_cnt, t, l, h, d)
            ELSE UNCHANGED sbuffs

(***************************************************************************)
(* The configuration file.                                                 *)
(***************************************************************************)
nextSection ==
    /\ pc = "config" /\ sections < MaxSections
    /\ sections' = sections + 1

(* parserParseGeneral: the version of the file fits or not; with it may come
   the directory that all sounds are under. *)
parserParseGeneral ==
    /\ nextSection
    /\ \/ sound_path' = TRUE /\ UNCHANGED pc
       \/ UNCHANGED <<sound_path, pc>>
       \/ shutDown /\ UNCHANGED sound_path
    /\ UNCHANGED <<depth, fault, tableVars, channelVars, sec, t_count,
                   themeVars, asked>>

(* An import opens another file, which is read to its end first; a file that
   is not found, and a section that the file ends in, are errors. *)
parserImportConfig ==
    /\ nextSection
    /\ \/ depth < MaxDepth /\ depth' = depth + 1 /\ UNCHANGED pc
       \/ shutDown /\ UNCHANGED depth
    /\ UNCHANGED <<fault, sound_path, tableVars, channelVars, sec, t_count,
                   themeVars, asked>>

(* Fault: the server starts at the end of the first file that ends. *)
endOfAnyFile ==
    /\ pc = "config"
    /\ pc' = "running"
    /\ UNCHANGED <<fileVars, fault, tableVars, channelVars, sec, t_count,
                   themeVars, asked>>

(* The end of a file: back to the importing one, or the server starts. *)
endOfFile ==
    /\ pc = "config"
    /\ IF depth > 0 THEN depth' = depth - 1 /\ UNCHANGED pc
                    ELSE pc' = "running" /\ UNCHANGED depth
    /\ UNCHANGED <<sections, fault, sound_path, tableVars, channelVars, sec,
                   t_count, themeVars, asked>>

(* parserParseEvent: the path is put together with sound_path as soon as it is
   read, whether that is set or not. *)
parserParseEvent ==
    /\ nextSection
    /\ \E e \in EventSections :
        IF e.path # None /\ ~sound_path
        THEN Undefined("sound_path") /\ UNCHANGED tableVars
        ELSE /\ IF e.name # None
                THEN parserLoadEventSndDir(e.name, e.path)
                ELSE UNCHANGED tableVars
             /\ IF e.name # None /\ loadable(e.path) THEN UNCHANGED pc
                                                     ELSE shutDown
             /\ UNCHANGED fault
    /\ UNCHANGED <<depth, sound_path, channelVars, sec, t_count, themeVars,
                   asked>>

(* parserParseState, up to the first of the section's lines: the thresholds
   are counted ahead of the parse and a channel is allocated for them. *)
parserParseState ==
    /\ nextSection
    /\ \E s \in StateSections :
        /\ mixerAllocNewState(state_cnt, Len(s.thresholds))
        /\ sec' = s
    /\ t_count' = 0
    /\ \/ pc' = "state"
       \/ state_cnt \notin Channels /\ pc' = "undefined"
    /\ UNCHANGED <<depth, sound_path, tableVars, state_cnt, unlevelled, themeVars,
                   asked>>

(* parserParseThreshold: one threshold of the state. *)
parserParseThreshold ==
    /\ pc = "state" /\ t_count < Len(sec.thresholds)
    /\ LET t == sec.thresholds[t_count + 1]
       IN  IF \/ t.path # None /\ ~sound_path
              \/ t.level # 0 /\ noEntry(state_cnt, t_count)
              \/ t.level # 0 /\ overrun(state_cnt, t_count, t.path)
           THEN /\ Undefined(IF t.path # None /\ ~sound_path
                             THEN "sound_path" ELSE "threshold")
                /\ UNCHANGED <<state_cnt, sbuffs>>
           ELSE /\ IF t.path # None /\ t.level # 0
                   THEN parserLoadStateSndDir(t_count,
                            IF state_cnt \in Channels
                            THEN lowerBound(state_cnt, t_count) ELSE 0,
                            t.level, t.path)
                   ELSE UNCHANGED <<state_cnt, sbuffs>>
                /\ IF t.level # 0 /\ loadable(t.path) /\ state_cnt < no_sbuffs
                   THEN UNCHANGED pc ELSE shutDown
                /\ UNCHANGED fault
    /\ t_count' = t_count + 1
    /\ UNCHANGED <<fileVars, tableVars, claims, unlevelled, sec, themeVars, asked>>

(* Fault: the count is left to the next section. *)
endOfStateUncounted ==
    /\ pc = "state" /\ t_count = Len(sec.thresholds)
    /\ IF sec.name # None
       THEN insertState(sec.name, state_cnt) /\ pc' = "config"
       ELSE UNCHANGED sound_table /\ shutDown
    /\ UNCHANGED state_cnt
    /\ sec' = None
    /\ UNCHANGED <<fileVars, fault, event_cnt, sbuffs, claims, unlevelled,
                   t_count, themeVars, asked>>

(* The end of the section: now the state has a name and its channel is used. *)
endOfState ==
    /\ pc = "state" /\ t_count = Len(sec.thresholds)
    /\ IF sec.name # None
       THEN insertState(sec.name, state_cnt) /\ state_cnt' = state_cnt + 1
            /\ pc' = "config"
       ELSE UNCHANGED <<sound_table, state_cnt>> /\ shutDown
    /\ sec' = None
    /\ UNCHANGED <<fileVars, fault, event_cnt, sbuffs, claims, unlevelled,
                   t_count, themeVars, asked>>

(***************************************************************************)
(* Themes.                                                                 *)
(***************************************************************************)
(* The handlers of the first pass put each sound in front of the others.  They
   also count the thresholds of each state: that count is Len below. *)
inFrontOf(sounds, list) == Reverse(sounds) \o list

xmlParseFirstPass ==
    /\ nextSection
    /\ \/ /\ \E t \in Themes :
              /\ sec' = t
              /\ IF Len(t.sounds) > 0 /\ ~sound_path
                 THEN Undefined("sound_path") /\ UNCHANGED themeVars
                 ELSE /\ trans_table' = inFrontOf(t.sounds, trans_table)
                      /\ info' = NoInfo
                      /\ pc' = "events" /\ UNCHANGED fault
       \/ shutDown /\ UNCHANGED <<sec, themeVars, fault>>
    /\ UNCHANGED <<depth, sound_path, tableVars, channelVars, t_count, asked>>

(* The place of a sound in the list, 0 if it is not there. *)
translation(name) == SelectInSeq(trans_table, LAMBDA s : s.name = name)

(* Fault: the list is cut off behind the entry. *)
cutBehind(i) == SubSeq(trans_table, 1, i - 1)

(* xmlThemeLookupTransPath takes the entry out of the list; if it is the first
   one, the list is taken to be empty. *)
withoutEntry(i) == IF i = 1 THEN <<>> ELSE RemoveAt(trans_table, i)

(* One <event>: its <name> and <sound>, then the directory.  After an error
   in the directory both are kept for what follows. *)
xmlParseEvent ==
    /\ pc = "events" /\ info.ev <= Len(sec.events)
    /\ LET e == sec.events[info.ev]
           i == translation(e.sound)
           name == IF e.name = None THEN info.name ELSE e.name
           path == IF e.sound = None THEN info.path
                   ELSE IF i = 0 THEN None ELSE trans_table[i].path
           complete == name # None /\ path # None
       IN  /\ trans_table' = IF i = 0 THEN trans_table ELSE withoutEntry(i)
           /\ IF complete THEN parserLoadEventSndDir(name, path)
                          ELSE UNCHANGED tableVars
           /\ info' = IF complete /\ ~loadable(path)
                      THEN [info EXCEPT !.ev = @ + 1, !.name = name,
                                        !.path = path]
                      ELSE [info EXCEPT !.ev = @ + 1, !.name = None,
                                        !.path = None]
    /\ UNCHANGED <<pc, fileVars, fault, channelVars, sec, t_count, asked>>

(* The start of a <state>, and its <name>: state_cnt moves on only after all
   the states of the theme. *)
xmlParseState ==
    /\ pc = "events" /\ info.ev > Len(sec.events)
    /\ info.st <= Len(sec.states)
    /\ mixerAllocNewState(state_cnt, Len(sec.states[info.st].thresholds))
    /\ info' = [info EXCEPT !.name = IF sec.states[info.st].name = None
                                     THEN @ ELSE sec.states[info.st].name]
    /\ t_count' = 0
    /\ \/ pc' = "thresholds"
       \/ state_cnt \notin Channels /\ pc' = "undefined"
    /\ UNCHANGED <<fileVars, tableVars, state_cnt, unlevelled, sec, trans_table,
                   asked>>

(* One <threshold>: its <level> and <sound>, then the directory, whose errors
   are ignored.  Without a <level> the bounds are still those read before;
   without a <sound> the path is what an <event> left, most often NULL, as it
   is after a lookup that failed, and opendir reads from it. *)
xmlParseThreshold ==
    /\ pc = "thresholds" /\ t_count < Len(sec.states[info.st].thresholds)
    /\ LET t == sec.states[info.st].thresholds[t_count + 1]
           i == translation(t.sound)
           path == IF t.sound = None THEN info.path
                   ELSE IF i = 0 THEN None ELSE trans_table[i].path
           l == IF t.level = None THEN info.l
                ELSE IF state_cnt \in Channels
                     THEN lowerBound(state_cnt, t_count) ELSE 0
           h == IF t.level = None THEN info.h ELSE t.level
           noBound == t.level # None /\ noEntry(state_cnt, t_count)
       IN  /\ trans_table' = IF i = 0 THEN trans_table ELSE withoutEntry(i)
           /\ info' = [info EXCEPT !.path = None, !.l = l, !.h = h]
           /\ unlevelled' = IF t.level = None
                            THEN unlevelled \cup {<<state_cnt, t_count + 1>>}
                            ELSE unlevelled
           /\ \/ /\ noBound \/ overrun(state_cnt, t_count, path)
                 /\ Undefined("threshold") /\ UNCHANGED <<state_cnt, sbuffs>>
              \/ /\ ~noBound /\ path = None /\ state_cnt \in Channels
                 /\ Undefined("path") /\ UNCHANGED <<state_cnt, sbuffs>>
              \/ /\ ~overrun(state_cnt, t_count, path)
                 /\ noBound \/ path = None => state_cnt \notin Channels
                 /\ parserLoadStateSndDir(t_count, l, h, path)
                 /\ UNCHANGED <<pc, fault>>
    /\ t_count' = t_count + 1
    /\ UNCHANGED <<fileVars, tableVars, claims, sec, asked>>

(* </state>. *)
xmlEndOfState ==
    /\ pc = "thresholds" /\ t_count = Len(sec.states[info.st].thresholds)
    /\ info' = [info EXCEPT !.st = @ + 1]
    /\ pc' = "events"
    /\ UNCHANGED <<fileVars, fault, tableVars, channelVars, sec, t_count,
                   trans_table, asked>>

(* </states> and </theme>: one entry for all the states, under the last name;
   then the rest of the list is freed by a loop that looks at the entry
   behind the last one. *)
xmlEndOfTheme ==
    /\ pc = "events"
    /\ info.ev > Len(sec.events) /\ info.st > Len(sec.states)
    /\ IF sec.states # <<>> /\ info.name # None
       THEN insertState(info.name, state_cnt) /\ state_cnt' = state_cnt + 1
       ELSE UNCHANGED <<sound_table, state_cnt>>
    /\ IF trans_table = <<>> THEN pc' = "config" /\ UNCHANGED fault
                             ELSE Undefined("trans_table")
    /\ sec' = None /\ info' = NoInfo
    /\ UNCHANGED <<fileVars, event_cnt, sbuffs, claims, unlevelled, t_count,
                   trans_table, asked>>

(***************************************************************************)
(* The engine thread looks a sound up, and main's server goes on.          *)
(***************************************************************************)
engineSoundTableRetrieve(n) ==
    /\ pc = "running" /\ asked = None
    /\ asked' = n
    /\ UNCHANGED <<pc, fileVars, fault, tableVars, channelVars, sec, t_count,
                   themeVars>>

(* The search never leaves the first entry of the list: it ends if that is
   the one or if there is none. *)
searchEnds ==
    sound_table[Hash[asked]] # <<>> => sound_table[Hash[asked]][1].name = asked

retrieved ==
    /\ asked # None /\ searchEnds
    /\ asked' = None
    /\ UNCHANGED <<pc, fileVars, fault, tableVars, channelVars, sec, t_count,
                   themeVars>>

Next ==
    \/ parserParseGeneral \/ parserImportConfig \/ endOfFile
    \/ parserParseEvent
    \/ parserParseState \/ parserParseThreshold \/ endOfState
    \/ xmlParseFirstPass \/ xmlParseEvent
    \/ xmlParseState \/ xmlParseThreshold \/ xmlEndOfState \/ xmlEndOfTheme
    \/ \E n \in Names : engineSoundTableRetrieve(n)
    \/ retrieved

Spec == Init /\ [][Next]_vars

(***************************************************************************)
(* Properties.                                                             *)
(***************************************************************************)
Entries == UNION {{sound_table[h][i] : i \in 1 .. Len(sound_table[h])} :
                  h \in DOMAIN sound_table}
States == {e \in Entries : e.type = "STATE_T"}

Thresholds == [l : Nat, h : Nat, cnt : Nat \cup {NoDir}, got : Nat]

(* Every variable of the parser, the sound table and the mixer's channels
   stays in its type: a list of the table holds entries of its own hash only,
   and the server runs only after the last import has ended. *)
TypeOK ==
    /\ pc \in {"config", "state", "events", "thresholds", "running",
               "exited", "undefined"}
    /\ depth \in 0 .. MaxDepth /\ sections \in 0 .. MaxSections
    /\ pc = "running" => depth = 0
    /\ \A h \in DOMAIN sound_table : \A i \in 1 .. Len(sound_table[h]) :
           /\ Hash[sound_table[h][i].name] = h
           /\ sound_table[h][i].type = "STATE_T"
              => sound_table[h][i].mixer_index \in Nat
    /\ event_cnt \in Nat /\ state_cnt \in Nat
    /\ \A c \in Channels :
           sbuffs[c] # None =>
               \A i \in 1 .. Len(sbuffs[c]) : sbuffs[c][i] \in Thresholds
    /\ asked \in Maybe(Names) /\ (asked # None => pc = "running")

(* Two states of the sound table never play on the same channel, whether
   they come from sections, from imported files or from themes: engineIO sets
   volume and position of sbuffs[entry->mixer_index] for the one it means. *)
OwnChannel ==
    \A h1, h2 \in DOMAIN sound_table :
        \A i \in 1 .. Len(sound_table[h1]), j \in 1 .. Len(sound_table[h2]) :
            LET e == sound_table[h1][i]
                f == sound_table[h2][j]
            IN  /\ e.type = "STATE_T" /\ f.type = "STATE_T"
                /\ e.mixer_index = f.mixer_index
                => h1 = h2 /\ i = j

(* engineIO uses the index of a state without a test because it "is checked
   when loading": it lies within the channels unless loading itself has
   already run past them.  A threshold behind the allocated ones is touched
   only after a channel was given to more than one state. *)
InBounds ==
    /\ fault = None => \A e \in States : e.mixer_index \in Channels
    /\ fault = "threshold" => \E c \in Channels : claims[c] > 1

(* The ranges of volume of a state's thresholds lie side by side, also where a
   directory in between could not be opened: what mixerGetStateThreshIndex and
   mixerGetStateSndPtr search.  A threshold that a theme gives no level has the
   range of the one before it once more, and is never the first to be found;
   the ones behind it go on from there.  This needs a channel that was given to
   one state only. *)
AdjacentBounds ==
    \A c \in Channels : sbuffs[c] # None /\ claims[c] = 1 =>
        \A i \in 1 .. Len(sbuffs[c]) :
            sbuffs[c][i].cnt # NoDir =>
                IF <<c, i>> \in unlevelled
                THEN i > 1 /\ sbuffs[c][i - 1].cnt # NoDir =>
                         /\ sbuffs[c][i].l = sbuffs[c][i - 1].l
                         /\ sbuffs[c][i].h = sbuffs[c][i - 1].h
                ELSE sbuffs[c][i].l = IF i = 1 THEN 0 ELSE sbuffs[c][i - 1].h

(* A directory that fails half way leaves no event in the table: each sound
   that engineIO may choose at random is there.  For a state that is so unless
   a theme has loaded it. *)
EventsWhole ==
    \A e \in Entries : e.type = "EVENT_T" => e.got = e.cnt

(* Each event of a theme whose directory can be loaded is in the table when
   the theme's events have been read, as long as its sound was not used
   before and the sound declared last, at the head of the list, neither. *)
ThemeEventsLoaded ==
    pc = "events" /\ info.ev > Len(sec.events) =>
        \A i \in 1 .. Len(sec.events) :
            LET e == sec.events[i]
                used == {sec.events[j].sound : j \in 1 .. i - 1}
            IN  (/\ e.name # None
                 /\ \E s \in ToSet(sec.sounds) : s.name = e.sound
                 /\ \A s \in ToSet(sec.sounds) :
                        s.name = e.sound => loadable(s.path)
                 /\ e.sound \notin used
                 /\ Last(sec.sounds).name \notin used)
                => \E f \in Entries : f.name = e.name

(* A second entry of a name gets into the table only right behind the first,
   because engineSoundTableInsert leaves out the last entry of the list, and a
   third one never does: however sections, imports and themes repeat a name,
   a list has at most two entries for it, and a search that meets one of them
   meets the older one first. *)
DuplicatesAdjacent ==
    \A h \in DOMAIN sound_table :
        \A i, j \in 1 .. Len(sound_table[h]) :
            i < j /\ sound_table[h][i].name = sound_table[h][j].name => j = i + 1

=============================================================================
