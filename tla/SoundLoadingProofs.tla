------------------------ MODULE SoundLoadingProofs ------------------------
(***************************************************************************)
(* What loading leaves in the sound table and the state channels, for      *)
(* every configuration: any names, hash function, directories, sections,   *)
(* themes and number of channels, and without a bound on the files.        *)
(***************************************************************************)
EXTENDS SoundLoading, SequenceTheorems, WellFoundedInduction, TLAPS

(* A sequence of anything. *)
Elements(s) == {s[i] : i \in 1 .. Len(s)}
IsSeq(s) == s \in Seq(Elements(s))

(* A table of lists; it is known to be a function by its domain. *)
IsTable(t) ==
    /\ t = [h \in DOMAIN t |-> t[h]]
    /\ \A h \in DOMAIN t : IsSeq(t[h])

(* Append and the update of one element leave a sequence and its other     *)
(* elements alone, whatever it holds.                                      *)
LEMMA SeqLen ==
  ASSUME NEW s, IsSeq(s)
  PROVE  Len(s) \in Nat
BY DEF IsSeq

LEMMA AppendAny ==
  ASSUME NEW s, IsSeq(s), NEW e
  PROVE  /\ IsSeq(Append(s, e))
         /\ Len(Append(s, e)) = Len(s) + 1
         /\ \A i \in 1 .. Len(s) : Append(s, e)[i] = s[i]
         /\ Append(s, e)[Len(s) + 1] = e
<1> DEFINE T == Elements(s) \cup {e}
<1>1. s \in Seq(T)
  BY DEF IsSeq, Elements
<1>2. e \in T
  OBVIOUS
<1> HIDE DEF T
<1>3. /\ Append(s, e) \in Seq(T)
      /\ Len(Append(s, e)) = Len(s) + 1
      /\ \A i \in 1 .. Len(s) : Append(s, e)[i] = s[i]
      /\ Append(s, e)[Len(s) + 1] = e
  BY <1>1, <1>2, AppendProperties
<1>4. ASSUME NEW a \in Seq(T) PROVE IsSeq(a)
  BY DEF IsSeq, Elements
<1> QED
  BY <1>3, <1>4

LEMMA UpdateAny ==
  ASSUME NEW s, IsSeq(s), NEW k \in 1 .. Len(s), NEW e
  PROVE  /\ IsSeq([s EXCEPT ![k] = e])
         /\ Len([s EXCEPT ![k] = e]) = Len(s)
<1> DEFINE T == Elements(s) \cup {e}
<1>1. s \in Seq(T)
  BY DEF IsSeq, Elements
<1>2. e \in T
  OBVIOUS
<1> HIDE DEF T
<1>3. [s EXCEPT ![k] = e] \in Seq(T) /\ Len([s EXCEPT ![k] = e]) = Len(s)
  BY <1>1, <1>2, ExceptSeq
<1>4. ASSUME NEW a \in Seq(T) PROVE IsSeq(a)
  BY DEF IsSeq, Elements
<1> QED
  BY <1>3, <1>4

(* engineSoundTableInsert keeps every entry at its place and adds at most  *)
(* one, behind the last entry of its list.                                 *)
Extended(t, u, e) ==
    /\ IsTable(u)
    /\ DOMAIN u = DOMAIN t
    /\ \A h \in DOMAIN u : \A i \in 1 .. Len(u[h]) :
         \/ i \in 1 .. Len(t[h]) /\ u[h][i] = t[h][i]
         \/ h = Hash[e.name] /\ i = Len(t[h]) + 1 /\ u[h][i] = e

LEMMA InsertKeepsEntries ==
  ASSUME NEW t, IsTable(t), NEW e
  PROVE  Extended(t, engineSoundTableInsert(t, e), e)
<1>0. SUFFICES ASSUME NEW u, u = engineSoundTableInsert(t, e) PROVE Extended(t, u, e)
  OBVIOUS
<1> DEFINE k == Hash[e.name]
<1>1. \/ u = t
      \/ u = [t EXCEPT ![k] = Append(t[k], e)]
  BY <1>0 DEF engineSoundTableInsert
<1>2. CASE u = t
  BY <1>2 DEF IsTable, Extended
<1>3. CASE u = [t EXCEPT ![k] = Append(t[k], e)]
  <2>0. DOMAIN u = DOMAIN t /\ u = [h \in DOMAIN u |-> u[h]]
    BY <1>3, Zenon
  <2>1. \A h \in DOMAIN t : u[h] = IF h = k THEN Append(t[k], e) ELSE t[h]
    BY <1>3 DEF IsTable
  <2>2. ASSUME NEW h \in DOMAIN t, h # k PROVE u[h] = t[h]
    BY <2>1, <2>2
  <2>3. ASSUME k \in DOMAIN t
        PROVE  /\ IsSeq(u[k])
               /\ Len(u[k]) = Len(t[k]) + 1
               /\ \A i \in 1 .. Len(t[k]) : u[k][i] = t[k][i]
               /\ u[k][Len(t[k]) + 1] = e
    <3>1. u[k] = Append(t[k], e) /\ IsSeq(t[k])
      BY <2>1, <2>3 DEF IsTable
    <3> QED BY <3>1, AppendAny
  <2>4. IsTable(u)
    BY <2>0, <2>2, <2>3 DEF IsTable
  <2>5. ASSUME NEW h \in DOMAIN u, NEW i \in 1 .. Len(u[h])
        PROVE  \/ i \in 1 .. Len(t[h]) /\ u[h][i] = t[h][i]
               \/ h = k /\ i = Len(t[h]) + 1 /\ u[h][i] = e
    <3>1. CASE h # k
      BY <3>1, <2>0, <2>2, <2>5
    <3>2. CASE h = k
      <4>1. Len(t[k]) \in Nat
        BY <3>2, <2>0, SeqLen DEF IsTable
      <4> QED BY <3>2, <4>1, <2>0, <2>3, <2>5
    <3> QED BY <3>1, <3>2
  <2> QED BY <2>0, <2>4, <2>5 DEF Extended
<1> QED BY <1>1, <1>2, <1>3

-----------------------------------------------------------------------------
(* What a step does to the sound table. *)

NoEntryAdded ==
    sound_table' = sound_table /\ state_cnt' \in {state_cnt, state_cnt + 1}
EventAdded ==
    /\ state_cnt' = state_cnt
    /\ \E e : /\ sound_table' = engineSoundTableInsert(sound_table, e)
              /\ e.type = "EVENT_T" /\ e.got = e.cnt
StateAdded ==
    /\ state_cnt' = state_cnt + 1
    /\ \E e : /\ sound_table' = engineSoundTableInsert(sound_table, e)
              /\ e.type = "STATE_T" /\ e.mixer_index = state_cnt

LEMMA EventLoaded ==
  ASSUME NEW name, NEW d, parserLoadEventSndDir(name, d), state_cnt' = state_cnt
  PROVE  NoEntryAdded \/ EventAdded
<1> DEFINE e == [name |-> name, type |-> "EVENT_T", cnt |-> Files[d],
                 got |-> loaded(d), mixer_index |-> None]
<1>1. CASE loadable(d)
  <2>1. e.type = "EVENT_T" /\ e.got = e.cnt
    BY <1>1 DEF loadable, loaded
  <2>2. sound_table' = engineSoundTableInsert(sound_table, e)
    BY <1>1 DEF parserLoadEventSndDir
  <2> QED BY <2>1, <2>2 DEF EventAdded
<1>2. CASE ~loadable(d)
  BY <1>2 DEF parserLoadEventSndDir, NoEntryAdded, tableVars
<1> QED BY <1>1, <1>2

LEMMA StateInserted ==
  ASSUME NEW name, insertState(name, state_cnt), state_cnt' = state_cnt + 1
  PROVE  StateAdded
<1> DEFINE e == [name |-> name, type |-> "STATE_T", cnt |-> 0, got |-> 0,
                 mixer_index |-> state_cnt]
<1>1. sound_table' = engineSoundTableInsert(sound_table, e)
  BY DEF insertState
<1>2. e.type = "STATE_T" /\ e.mixer_index = state_cnt
  OBVIOUS
<1> QED BY <1>1, <1>2 DEF StateAdded

LEMMA TableStep ==
  ASSUME [Next]_vars
  PROVE  NoEntryAdded \/ EventAdded \/ StateAdded
<1> USE DEF tableVars, channelVars, themeVars, fileVars
<1>1. CASE parserParseGeneral
  BY <1>1 DEF parserParseGeneral, NoEntryAdded
<1>2. CASE parserImportConfig
  BY <1>2 DEF parserImportConfig, NoEntryAdded
<1>3. CASE endOfFile
  BY <1>3 DEF endOfFile, NoEntryAdded
<1>4. CASE parserParseEvent
  <2>1. state_cnt' = state_cnt
    BY <1>4 DEF parserParseEvent
  <2>2. PICK e \in EventSections :
            sound_table' = sound_table \/ parserLoadEventSndDir(e.name, e.path)
    BY <1>4, Zenon DEF parserParseEvent
  <2> QED BY <2>1, <2>2, EventLoaded DEF NoEntryAdded
<1>5. CASE parserParseState
  BY <1>5 DEF parserParseState, NoEntryAdded
<1>6. CASE parserParseThreshold
  <2>1. sound_table' = sound_table
    BY <1>6 DEF parserParseThreshold
  <2>2. state_cnt' \in {state_cnt, state_cnt + 1}
    BY <1>6 DEF parserParseThreshold, parserLoadStateSndDir
  <2> QED BY <2>1, <2>2 DEF NoEntryAdded
<1>7. CASE endOfState
  <2>1. CASE sec.name # None
    BY <1>7, <2>1, StateInserted DEF endOfState
  <2>2. CASE sec.name = None
    BY <1>7, <2>2 DEF endOfState, NoEntryAdded
  <2> QED BY <2>1, <2>2
<1>8. CASE xmlParseFirstPass
  BY <1>8 DEF xmlParseFirstPass, NoEntryAdded
<1>9. CASE xmlParseEvent
  <2>1. state_cnt' = state_cnt
    BY <1>9 DEF xmlParseEvent
  <2>2. sound_table' = sound_table \/ \E n, d : parserLoadEventSndDir(n, d)
    BY <1>9, Zenon DEF xmlParseEvent
  <2> QED BY <2>1, <2>2, EventLoaded DEF NoEntryAdded
<1>10. CASE xmlParseState
  BY <1>10 DEF xmlParseState, NoEntryAdded
<1>11. CASE xmlParseThreshold
  <2>1. sound_table' = sound_table
    BY <1>11 DEF xmlParseThreshold
  <2>2. state_cnt' \in {state_cnt, state_cnt + 1}
    BY <1>11 DEF xmlParseThreshold, parserLoadStateSndDir
  <2> QED BY <2>1, <2>2 DEF NoEntryAdded
<1>12. CASE xmlEndOfState
  BY <1>12 DEF xmlEndOfState, NoEntryAdded
<1>13. CASE xmlEndOfTheme
  <2>1. CASE sec.states # <<>> /\ info.name # None
    BY <1>13, <2>1, StateInserted DEF xmlEndOfTheme
  <2>2. CASE ~(sec.states # <<>> /\ info.name # None)
    BY <1>13, <2>2 DEF xmlEndOfTheme, NoEntryAdded
  <2> QED BY <2>1, <2>2
<1>14. CASE \E n \in Names : engineSoundTableRetrieve(n)
  BY <1>14 DEF engineSoundTableRetrieve, NoEntryAdded
<1>15. CASE retrieved
  BY <1>15 DEF retrieved, NoEntryAdded
<1>16. CASE UNCHANGED vars
  BY <1>16 DEF vars, NoEntryAdded
<1> QED
  BY <1>1, <1>2, <1>3, <1>4, <1>5, <1>6, <1>7, <1>8, <1>9, <1>10, <1>11,
     <1>12, <1>13, <1>14, <1>15, <1>16 DEF Next

-----------------------------------------------------------------------------
(* The entries of the sound table. *)

(* OwnChannel is not inductive by itself: the channels of the states in    *)
(* the table lie below state_cnt, so the next one is new.                  *)
TableInv ==
    /\ state_cnt \in Nat
    /\ IsTable(sound_table)
    /\ \A h \in DOMAIN sound_table : \A i \in 1 .. Len(sound_table[h]) :
         /\ sound_table[h][i].type = "STATE_T" =>
              /\ sound_table[h][i].mixer_index \in Nat
              /\ sound_table[h][i].mixer_index < state_cnt
         /\ sound_table[h][i].type = "EVENT_T" =>
              sound_table[h][i].got = sound_table[h][i].cnt
    /\ OwnChannel

LEMMA TableInit == Init => TableInv
<1> SUFFICES ASSUME Init PROVE TableInv
  OBVIOUS
<1>1. /\ state_cnt = 0
      /\ sound_table = [h \in {Hash[n] : n \in Names} |-> <<>>]
  BY DEF Init
<1>2. /\ \A h \in DOMAIN sound_table : sound_table[h] = <<>>
      /\ sound_table = [h \in DOMAIN sound_table |-> sound_table[h]]
  BY <1>1
<1>3. Len(<<>>) = 0 /\ IsSeq(<<>>)
  BY DEF IsSeq, Elements
<1>4. IsTable(sound_table)
  BY <1>2, <1>3 DEF IsTable
<1>5. \A h \in DOMAIN sound_table : 1 .. Len(sound_table[h]) = {}
  BY <1>2, <1>3
<1> QED
  BY <1>1, <1>4, <1>5 DEF TableInv, OwnChannel

LEMMA TableInductive == TableInv /\ [Next]_vars => TableInv'
<1> SUFFICES ASSUME TableInv, [Next]_vars PROVE TableInv'
  OBVIOUS
<1>0. NoEntryAdded \/ EventAdded \/ StateAdded
  BY TableStep
<1>1. CASE NoEntryAdded
  <2>1. state_cnt' \in Nat /\ state_cnt <= state_cnt'
    BY <1>1 DEF NoEntryAdded, TableInv
  <2>2. sound_table' = sound_table
    BY <1>1 DEF NoEntryAdded
  <2> QED
    BY <2>1, <2>2 DEF TableInv, OwnChannel
<1>2. CASE EventAdded
  <2>1. state_cnt' = state_cnt
    BY <1>2 DEF EventAdded
  <2>2. PICK e : /\ sound_table' = engineSoundTableInsert(sound_table, e)
                 /\ e.type = "EVENT_T" /\ e.got = e.cnt
    BY <1>2 DEF EventAdded
  <2>3. Extended(sound_table, sound_table', e)
    <3>1. IsTable(sound_table)
      BY DEF TableInv
    <3>2. Extended(sound_table, engineSoundTableInsert(sound_table, e), e)
      BY <3>1, InsertKeepsEntries
    <3> QED BY <2>2, <3>2
  <2>4. \A h \in DOMAIN sound_table' : \A i \in 1 .. Len(sound_table'[h]) :
         /\ sound_table'[h][i].type = "STATE_T" =>
              /\ sound_table'[h][i].mixer_index \in Nat
              /\ sound_table'[h][i].mixer_index < state_cnt'
         /\ sound_table'[h][i].type = "EVENT_T" =>
              sound_table'[h][i].got = sound_table'[h][i].cnt
    BY <2>1, <2>2, <2>3 DEF TableInv, Extended
  <2>5. OwnChannel'
    <3> SUFFICES ASSUME NEW h1 \in DOMAIN sound_table', NEW h2 \in DOMAIN sound_table',
                        NEW i \in 1 .. Len(sound_table'[h1]),
                        NEW j \in 1 .. Len(sound_table'[h2]),
                        sound_table'[h1][i].type = "STATE_T",
                        sound_table'[h2][j].type = "STATE_T",
                        sound_table'[h1][i].mixer_index = sound_table'[h2][j].mixer_index
                 PROVE  h1 = h2 /\ i = j
      BY DEF OwnChannel
    <3>1. /\ i \in 1 .. Len(sound_table[h1])
          /\ sound_table'[h1][i] = sound_table[h1][i]
          /\ j \in 1 .. Len(sound_table[h2])
          /\ sound_table'[h2][j] = sound_table[h2][j]
      BY <2>2, <2>3 DEF Extended
    <3> QED BY <2>3, <3>1 DEF TableInv, OwnChannel, Extended
  <2> QED
    BY <2>1, <2>3, <2>4, <2>5 DEF TableInv, Extended
<1>3. CASE StateAdded
  <2>1. state_cnt' = state_cnt + 1 /\ state_cnt \in Nat
    BY <1>3 DEF StateAdded, TableInv
  <2>2. PICK e : /\ sound_table' = engineSoundTableInsert(sound_table, e)
                 /\ e.type = "STATE_T" /\ e.mixer_index = state_cnt
    BY <1>3 DEF StateAdded
  <2>3. Extended(sound_table, sound_table', e)
    <3>1. IsTable(sound_table)
      BY DEF TableInv
    <3>2. Extended(sound_table, engineSoundTableInsert(sound_table, e), e)
      BY <3>1, InsertKeepsEntries
    <3> QED BY <2>2, <3>2
  <2>4. \A h \in DOMAIN sound_table' : \A i \in 1 .. Len(sound_table'[h]) :
         /\ sound_table'[h][i].type = "STATE_T" =>
              /\ sound_table'[h][i].mixer_index \in Nat
              /\ sound_table'[h][i].mixer_index < state_cnt'
         /\ sound_table'[h][i].type = "EVENT_T" =>
              sound_table'[h][i].got = sound_table'[h][i].cnt
    BY <2>1, <2>2, <2>3 DEF TableInv, Extended
  <2>5. OwnChannel'
    <3> SUFFICES ASSUME NEW h1 \in DOMAIN sound_table', NEW h2 \in DOMAIN sound_table',
                        NEW i \in 1 .. Len(sound_table'[h1]),
                        NEW j \in 1 .. Len(sound_table'[h2]),
                        sound_table'[h1][i].type = "STATE_T",
                        sound_table'[h2][j].type = "STATE_T",
                        sound_table'[h1][i].mixer_index = sound_table'[h2][j].mixer_index
                 PROVE  h1 = h2 /\ i = j
      BY DEF OwnChannel
    <3>1. \A h \in DOMAIN sound_table : \A k \in 1 .. Len(sound_table[h]) :
             sound_table[h][k].type = "STATE_T" =>
                sound_table[h][k].mixer_index # state_cnt
      BY <2>1 DEF TableInv
    <3>2. CASE /\ i \in 1 .. Len(sound_table[h1])
               /\ sound_table'[h1][i] = sound_table[h1][i]
               /\ j \in 1 .. Len(sound_table[h2])
               /\ sound_table'[h2][j] = sound_table[h2][j]
      BY <2>3, <3>2 DEF TableInv, OwnChannel, Extended
    <3> QED BY <2>2, <2>3, <3>1, <3>2 DEF Extended
  <2> QED
    BY <2>1, <2>3, <2>4, <2>5 DEF TableInv, Extended
<1> QED BY <1>0, <1>1, <1>2, <1>3

(* However a configuration combines sections, imports and themes, and      *)
(* however names collide in the table, two states never share a channel.   *)
THEOREM StatesHaveTheirOwnChannels == Spec => []OwnChannel
<1>1. TableInv => OwnChannel
  BY DEF TableInv
<1> QED BY <1>1, TableInit, TableInductive, PTL DEF Spec

(* No event gets into the table with less than all of its sounds, whatever *)
(* directories cannot be opened or read to the end.                        *)
THEOREM EventsAreWhole == Spec => []EventsWhole
<1>1. TableInv => EventsWhole
  BY DEF TableInv, EventsWhole, Entries
<1> QED BY <1>1, TableInit, TableInductive, PTL DEF Spec

-----------------------------------------------------------------------------
(* The state channels. *)

(* A channel has thresholds from the first time it is given to a state. *)
ChanInv ==
    /\ claims \in [Channels -> Nat]
    /\ sbuffs = [c \in Channels |-> sbuffs[c]]
    /\ \A c \in Channels : claims[c] = 0 => sbuffs[c] = None
    /\ \A c \in Channels : claims[c] > 0 => IsSeq(sbuffs[c])

(* A SECOND_PASS_INFO; nothing is said of its fields. *)
IsInfo(r) ==
    r = [name |-> r.name, path |-> r.path, ev |-> r.ev, st |-> r.st,
         l |-> r.l, h |-> r.h]

(* What is being read where. *)
ReadInv ==
    /\ t_count \in Nat
    /\ IsInfo(info)
    /\ info.st \in Nat /\ info.st >= 1
    /\ pc = "state" => sec \in StateSections
    /\ pc \in {"events", "thresholds"} => sec \in Themes
    /\ pc = "thresholds" => info.st \in 1 .. Len(sec.states)

(* The state that is being read has a channel, with as many thresholds as  *)
(* it has, unless another state had the channel before.                    *)
Allocated(thresholds) ==
    /\ fault = None => state_cnt \in Channels
    /\ state_cnt \in Channels =>
         /\ claims[state_cnt] > 0
         /\ claims[state_cnt] = 1 => Len(sbuffs[state_cnt]) = Len(thresholds)

ClaimInv ==
    /\ pc = "state" => Allocated(sec.thresholds)
    /\ pc = "thresholds" => Allocated(sec.states[info.st].thresholds)
    /\ pc = "events" /\ info.st > 1 /\ fault = None => state_cnt \in Channels
    /\ fault = "threshold" => \E c \in Channels : claims[c] > 1

StatesInside ==
    fault = None =>
        \A h \in DOMAIN sound_table : \A i \in 1 .. Len(sound_table[h]) :
            sound_table[h][i].type = "STATE_T" =>
                sound_table[h][i].mixer_index \in Channels

BoundsInv == TableInv /\ ChanInv /\ ReadInv /\ ClaimInv /\ StatesInside

LEMMA BoundsInit == Init => BoundsInv
<1> SUFFICES ASSUME Init PROVE BoundsInv
  OBVIOUS
<1>1. TableInv
  BY TableInit
<1>2. ChanInv
  BY DEF Init, ChanInv
<1>3. ReadInv
  BY DEF Init, ReadInv, NoInfo, IsInfo
<1>4. ClaimInv
  BY NoneAssumption DEF Init, ClaimInv
<1>5. StatesInside
  <2>1. \A h \in DOMAIN sound_table : Len(sound_table[h]) = 0
    BY DEF Init
  <2> QED BY <2>1 DEF StatesInside
<1> QED BY <1>1, <1>2, <1>3, <1>4, <1>5 DEF BoundsInv

(* mixerAllocNewState gives a channel n thresholds or counts another state *)
(* on it, and an index behind the last channel does not go unnoted.        *)
LEMMA Alloc ==
  ASSUME ChanInv, NEW n \in Nat, mixerAllocNewState(state_cnt, n)
  PROVE  /\ ChanInv'
         /\ \A c \in Channels : claims'[c] >= claims[c]
         /\ state_cnt \in Channels =>
              /\ fault' = fault
              /\ claims'[state_cnt] > 0
              /\ claims'[state_cnt] = 1 => Len(sbuffs'[state_cnt]) = n
         /\ state_cnt \notin Channels => Noted("state index")
<1>1. CASE state_cnt \in Channels
  <2>1. /\ claims' = [claims EXCEPT ![state_cnt] = claims[state_cnt] + 1]
        /\ fault' = fault
        /\ sbuffs' = IF sbuffs[state_cnt] = None
                     THEN [sbuffs EXCEPT ![state_cnt] = [i \in 1 .. n |-> NoThreshold]]
                     ELSE sbuffs
    BY <1>1 DEF mixerAllocNewState
  <2>2. IsSeq([i \in 1 .. n |-> NoThreshold]) /\ Len([i \in 1 .. n |-> NoThreshold]) = n
    <3>1. [i \in 1 .. n |-> NoThreshold] \in Seq({NoThreshold})
      OBVIOUS
    <3>2. ASSUME NEW a \in Seq({NoThreshold}) PROVE IsSeq(a)
      BY DEF IsSeq, Elements
    <3> QED BY <3>1, <3>2
  <2>3. claims' \in [Channels -> Nat] /\ claims'[state_cnt] = claims[state_cnt] + 1
        /\ \A c \in Channels : c # state_cnt => claims'[c] = claims[c]
    BY <1>1, <2>1 DEF ChanInv
  <2>4. /\ sbuffs' = [c \in Channels |-> sbuffs'[c]]
        /\ \A c \in Channels : c # state_cnt => sbuffs'[c] = sbuffs[c]
        /\ sbuffs'[state_cnt] = IF sbuffs[state_cnt] = None
                                THEN [i \in 1 .. n |-> NoThreshold]
                                ELSE sbuffs[state_cnt]
    <3>1. CASE sbuffs[state_cnt] = None
      BY <1>1, <2>1, <3>1 DEF ChanInv
    <3>2. CASE sbuffs[state_cnt] # None
      BY <1>1, <2>1, <3>2 DEF ChanInv
    <3> QED BY <3>1, <3>2
  <2>5. IsSeq(sbuffs'[state_cnt])
    BY <1>1, <2>2, <2>4 DEF ChanInv
  <2>6. claims'[state_cnt] = 1 => Len(sbuffs'[state_cnt]) = n
    BY <1>1, <2>2, <2>3, <2>4 DEF ChanInv
  <2>7. ASSUME NEW c \in Channels
        PROVE  /\ claims'[c] = 0 => sbuffs'[c] = None
               /\ claims'[c] > 0 => IsSeq(sbuffs'[c])
               /\ claims'[c] >= claims[c]
    <3>1. CASE c = state_cnt
      BY <1>1, <3>1, <2>3, <2>5 DEF ChanInv
    <3>2. CASE c # state_cnt
      <4>1. claims'[c] = claims[c] /\ sbuffs'[c] = sbuffs[c] /\ claims[c] \in Nat
        BY <3>2, <2>3, <2>4 DEF ChanInv
      <4> QED BY <4>1 DEF ChanInv
    <3> QED BY <3>1, <3>2
  <2>8. ChanInv'
    BY <2>3, <2>4, <2>7 DEF ChanInv
  <2>9. claims'[state_cnt] > 0
    BY <1>1, <2>3 DEF ChanInv
  <2> QED BY <1>1, <2>1, <2>6, <2>7, <2>8, <2>9
<1>2. CASE state_cnt \notin Channels
  <2>1. Noted("state index") /\ sbuffs' = sbuffs /\ claims' = claims
    BY <1>2 DEF mixerAllocNewState
  <2>2. ChanInv'
    BY <2>1 DEF ChanInv
  <2>3. ASSUME NEW c \in Channels PROVE claims'[c] >= claims[c]
    <3>1. claims'[c] = claims[c]
      BY <2>1
    <3>2. claims[c] \in Nat
      BY DEF ChanInv
    <3> QED BY <3>1, <3>2
  <2> QED BY <1>2, <2>1, <2>2, <2>3
<1> QED BY <1>1, <1>2

(* parserLoadStateSndDir fills a threshold of the channel; only a count    *)
(* behind the last channel moves on.                                       *)
LEMMA Load ==
  ASSUME ChanInv, state_cnt \in Nat, t_count \in Nat,
         state_cnt \in Channels => claims[state_cnt] > 0,
         NEW l, NEW h, NEW d, parserLoadStateSndDir(t_count, l, h, d),
         claims' = claims
  PROVE  /\ ChanInv'
         /\ state_cnt \in Channels =>
              /\ state_cnt' = state_cnt
              /\ Len(sbuffs'[state_cnt]) = Len(sbuffs[state_cnt])
         /\ state_cnt \notin Channels => state_cnt' \notin Channels
<1>1. CASE state_cnt \notin Channels
  <2>1. state_cnt >= no_sbuffs
    BY <1>1, SBuffsAssumption DEF Channels
  <2>2. state_cnt' = state_cnt + 1 /\ sbuffs' = sbuffs
    BY <2>1 DEF parserLoadStateSndDir
  <2>3. state_cnt' \notin Channels
    BY <2>1, <2>2, SBuffsAssumption DEF Channels
  <2> QED BY <1>1, <2>2, <2>3 DEF ChanInv
<1>2. CASE state_cnt \in Channels
  <2>1. ~(state_cnt >= no_sbuffs)
    BY <1>2, SBuffsAssumption DEF Channels
  <2>2. state_cnt' = state_cnt
    BY <2>1 DEF parserLoadStateSndDir
  <2>3. IsSeq(sbuffs[state_cnt])
    BY <1>2 DEF ChanInv
  <2>4. CASE sbuffs' = sbuffs
    BY <1>2, <2>2, <2>4 DEF ChanInv
  <2>5. CASE sbuffs' # sbuffs
    <3> DEFINE e == [l |-> l, h |-> h, cnt |-> Files[d], got |-> loaded(d)]
               u == [sbuffs[state_cnt] EXCEPT ![t_count + 1] = e]
    <3>1. t_count < Len(sbuffs[state_cnt]) /\ sbuffs' = [sbuffs EXCEPT ![state_cnt] = u]
      BY <2>1, <2>5 DEF parserLoadStateSndDir, mixerAddStateThreshold
    <3>2. t_count + 1 \in 1 .. Len(sbuffs[state_cnt])
      BY <2>3, <3>1, SeqLen
    <3> HIDE DEF e
    <3>3. IsSeq(u) /\ Len(u) = Len(sbuffs[state_cnt])
      BY <2>3, <3>2, UpdateAny
    <3> HIDE DEF u
    <3>4. /\ sbuffs' = [c \in Channels |-> sbuffs'[c]]
          /\ \A c \in Channels : c # state_cnt => sbuffs'[c] = sbuffs[c]
          /\ sbuffs'[state_cnt] = u
      BY <1>2, <3>1 DEF ChanInv
    <3> QED BY <1>2, <2>2, <3>3, <3>4 DEF ChanInv
  <2> QED BY <2>4, <2>5
<1> QED BY <1>1, <1>2

(* StatesInside after a step: no fault goes away, and an entry for a state *)
(* is made for a channel.                                                  *)
LEMMA InsideStep ==
  ASSUME TableInv, StatesInside, [Next]_vars, fault' = None => fault = None,
         StateAdded /\ fault' = None => state_cnt \in Channels
  PROVE  StatesInside'
<1> SUFFICES ASSUME fault' = None PROVE StatesInside'
  BY DEF StatesInside
<1>0. fault = None
  OBVIOUS
<1>1. NoEntryAdded \/ EventAdded \/ StateAdded
  BY TableStep
<1>2. CASE NoEntryAdded
  BY <1>0, <1>2 DEF NoEntryAdded, StatesInside
<1>3. CASE EventAdded \/ StateAdded
  <2>1. PICK e : /\ sound_table' = engineSoundTableInsert(sound_table, e)
                 /\ e.type = "STATE_T" => e.mixer_index \in Channels
    BY <1>3 DEF EventAdded, StateAdded
  <2>2. Extended(sound_table, sound_table', e)
    <3>1. IsTable(sound_table)
      BY DEF TableInv
    <3>2. Extended(sound_table, engineSoundTableInsert(sound_table, e), e)
      BY <3>1, InsertKeepsEntries
    <3> QED BY <2>1, <3>2
  <2> QED BY <1>0, <2>1, <2>2 DEF StatesInside, Extended
<1> QED BY <1>1, <1>2, <1>3

LEMMA ChanSame ==
  ASSUME ChanInv, claims' = claims, sbuffs' = sbuffs
  PROVE  ChanInv'
BY DEF ChanInv

(* One threshold of a state is read: a fault needs a channel that several  *)
(* states were given.                                                      *)
LEMMA ThresholdRead ==
  ASSUME BoundsInv, parserParseThreshold
  PROVE  ChanInv' /\ ReadInv' /\ ClaimInv' /\ (fault' = None => fault = None)
<1> USE DEF tableVars, channelVars, themeVars, fileVars
<1> DEFINE t == sec.thresholds[t_count + 1]
           bad == \/ t.path # None /\ ~sound_path
                  \/ t.level # 0 /\ noEntry(state_cnt, t_count)
                  \/ t.level # 0 /\ overrun(state_cnt, t_count, t.path)
<1>0. /\ pc = "state" /\ t_count < Len(sec.thresholds)
      /\ t_count' = t_count + 1 /\ sec' = sec /\ info' = info /\ claims' = claims
      /\ t_count \in Nat /\ state_cnt \in Nat
      /\ Allocated(sec.thresholds)
      /\ sec \in StateSections
      /\ info.st \in Nat /\ info.st >= 1
      /\ IsInfo(info)
  BY DEF parserParseThreshold, BoundsInv, ReadInv, ClaimInv, TableInv
<1>c. ChanInv
  BY DEF BoundsInv
<1>f. fault = "threshold" => \E c \in Channels : claims[c] > 1
  BY DEF BoundsInv, ClaimInv
<1>1. CASE bad
  <2>1. /\ state_cnt' = state_cnt /\ sbuffs' = sbuffs
        /\ Undefined(IF t.path # None /\ ~sound_path THEN "sound_path" ELSE "threshold")
    BY <1>1 DEF parserParseThreshold
  <2>2. pc' = "undefined" /\ (fault # None => fault' = fault)
    BY <2>1 DEF Undefined, Noted
  <2>3. fault' = "threshold" /\ fault = None => \E c \in Channels : claims[c] > 1
    <3> SUFFICES ASSUME fault' = "threshold", fault = None
                 PROVE  \E c \in Channels : claims[c] > 1
      OBVIOUS
    <3>1. noEntry(state_cnt, t_count) \/ overrun(state_cnt, t_count, t.path)
      BY <1>1, <2>1 DEF Undefined, Noted
    <3>2. state_cnt \in Channels /\ claims[state_cnt] > 0 /\ claims[state_cnt] \in Nat
      BY <1>0, <1>c DEF Allocated, ChanInv
    <3>3. Len(sbuffs[state_cnt]) \in Nat
      BY <3>2, <1>c, SeqLen DEF ChanInv
    <3>4. t_count >= Len(sbuffs[state_cnt])
      BY <1>0, <3>1, <3>2, <3>3 DEF noEntry, overrun
    <3>5. Len(sec.thresholds) \in Nat
      BY <1>0, StateSectionsAssumption
    <3>6. claims[state_cnt] # 1
      BY <1>0, <3>2, <3>3, <3>4, <3>5 DEF Allocated
    <3> QED BY <3>2, <3>6
  <2>4. fault' = "threshold" => \E c \in Channels : claims'[c] > 1
    BY <1>0, <1>f, <2>2, <2>3
  <2>5. ChanInv'
    BY <1>0, <1>c, <2>1, ChanSame
  <2>6. ReadInv'
    BY <1>0, <2>2 DEF ReadInv
  <2>7. ClaimInv'
    BY <2>2, <2>4 DEF ClaimInv
  <2> QED BY <2>2, <2>5, <2>6, <2>7
<1>2. CASE ~bad
  <2>1. /\ fault' = fault /\ pc' \in {"state", "exited"}
        /\ \/ state_cnt' = state_cnt /\ sbuffs' = sbuffs
           \/ \E l : parserLoadStateSndDir(t_count, l, t.level, t.path)
    BY <1>0, <1>2 DEF parserParseThreshold, shutDown
  <2>2. state_cnt \in Channels => claims[state_cnt] > 0
    BY <1>0 DEF Allocated
  <2>3. /\ ChanInv'
        /\ state_cnt \in Channels =>
              /\ state_cnt' = state_cnt
              /\ Len(sbuffs'[state_cnt]) = Len(sbuffs[state_cnt])
        /\ state_cnt \notin Channels => state_cnt' \notin Channels
    BY <1>0, <1>c, <2>1, <2>2, Load, ChanSame
  <2>4. ReadInv'
    BY <1>0, <2>1 DEF ReadInv
  <2>5. Allocated(sec.thresholds)'
    BY <1>0, <2>1, <2>3 DEF Allocated
  <2>6. ClaimInv'
    BY <1>0, <1>f, <2>1, <2>5 DEF ClaimInv
  <2> QED BY <2>1, <2>3, <2>4, <2>6
<1> QED BY <1>1, <1>2

(* What the assumption says of the theme that is being read. *)
LEMMA ThemeRead ==
  ASSUME NEW t \in Themes
  PROVE  /\ Len(t.states) \in Nat
         /\ t.states # <<>> => Len(t.states) > 0
         /\ \A i \in 1 .. Len(t.states) : Len(t.states[i].thresholds) \in Nat
<1> DEFINE T == Seq([level : Maybe(Nat), sound : Maybe(SoundNames)])
           S == [name : Maybe(Names), thresholds : T]
<1>1. t.states \in Seq(S)
  BY ThemesAssumption
<1>2. \A s \in S : s.thresholds \in T
  OBVIOUS
<1>3. \A a \in T : Len(a) \in Nat
  OBVIOUS
<1> HIDE DEF T, S
<1>4. Len(t.states) \in Nat /\ (t.states # <<>> => Len(t.states) > 0)
  BY <1>1
<1>5. ASSUME NEW i \in 1 .. Len(t.states) PROVE Len(t.states[i].thresholds) \in Nat
  <2>1. t.states[i] \in S
    BY <1>1
  <2> QED BY <2>1, <1>2, <1>3
<1> QED BY <1>4, <1>5

LEMMA ThemeThresholdRead ==
  ASSUME BoundsInv, xmlParseThreshold
  PROVE  ChanInv' /\ ReadInv' /\ ClaimInv' /\ (fault' = None => fault = None)
<1> USE DEF tableVars, channelVars, themeVars, fileVars
<1> DEFINE ts == sec.states[info.st].thresholds
<1>a. PICK l, h, path :
      /\ pc = "thresholds" /\ t_count < Len(ts)
      /\ t_count' = t_count + 1 /\ sec' = sec /\ claims' = claims
      /\ info' = [info EXCEPT !.path = None, !.l = l, !.h = h]
      /\ \/ /\ noEntry(state_cnt, t_count) \/ overrun(state_cnt, t_count, path)
            /\ Undefined("threshold") /\ state_cnt' = state_cnt /\ sbuffs' = sbuffs
         \/ Undefined("path") /\ state_cnt' = state_cnt /\ sbuffs' = sbuffs
         \/ /\ parserLoadStateSndDir(t_count, l, h, path)
            /\ pc' = pc /\ fault' = fault
  BY Zenon DEF xmlParseThreshold
<1>0. /\ t_count \in Nat /\ state_cnt \in Nat
      /\ Allocated(ts) /\ sec \in Themes
      /\ info.st \in Nat /\ info.st >= 1 /\ info.st \in 1 .. Len(sec.states)
      /\ IsInfo(info)
  BY <1>a DEF BoundsInv, ReadInv, ClaimInv, TableInv
<1>c. ChanInv
  BY DEF BoundsInv
<1>f. fault = "threshold" => \E c \in Channels : claims[c] > 1
  BY DEF BoundsInv, ClaimInv
<1>i. info'.st = info.st /\ IsInfo(info')
  BY <1>a, <1>0 DEF IsInfo
<1>n. Len(ts) \in Nat
  BY <1>0, ThemeRead
<1>1. CASE /\ noEntry(state_cnt, t_count) \/ overrun(state_cnt, t_count, path)
           /\ Undefined("threshold") /\ state_cnt' = state_cnt /\ sbuffs' = sbuffs
  <2>2. pc' = "undefined" /\ (fault # None => fault' = fault)
    BY <1>1 DEF Undefined, Noted
  <2>3. fault = None => \E c \in Channels : claims[c] > 1
    <3> SUFFICES ASSUME fault = None PROVE \E c \in Channels : claims[c] > 1
      OBVIOUS
    <3>2. state_cnt \in Channels /\ claims[state_cnt] > 0 /\ claims[state_cnt] \in Nat
      BY <1>0, <1>c DEF Allocated, ChanInv
    <3>3. Len(sbuffs[state_cnt]) \in Nat
      BY <3>2, <1>c, SeqLen DEF ChanInv
    <3>4. t_count >= Len(sbuffs[state_cnt])
      BY <1>0, <1>1, <3>2, <3>3 DEF noEntry, overrun
    <3>6. claims[state_cnt] # 1
      BY <1>0, <1>a, <1>n, <3>2, <3>3, <3>4 DEF Allocated
    <3> QED BY <3>2, <3>6
  <2>4. fault' = "threshold" => \E c \in Channels : claims'[c] > 1
    BY <1>a, <1>f, <2>2, <2>3
  <2>5. ChanInv'
    BY <1>a, <1>c, <1>1, ChanSame
  <2>6. ReadInv'
    BY <1>0, <1>a, <1>i, <2>2 DEF ReadInv
  <2>7. ClaimInv'
    BY <2>2, <2>4 DEF ClaimInv
  <2>8. fault' = None => fault = None
    BY <2>2
  <2> QED BY <2>5, <2>6, <2>7, <2>8
<1>3. CASE Undefined("path") /\ state_cnt' = state_cnt /\ sbuffs' = sbuffs
  <2>1. /\ pc' = "undefined"
        /\ fault' = None => fault = None
        /\ fault' = "threshold" => fault = "threshold"
    BY <1>3, NoneAssumption DEF Undefined, Noted
  <2>2. ChanInv'
    BY <1>a, <1>c, <1>3, ChanSame
  <2>3. ReadInv'
    BY <1>0, <1>a, <1>i, <2>1 DEF ReadInv
  <2>4. ClaimInv'
    BY <1>a, <1>f, <2>1 DEF ClaimInv
  <2> QED BY <2>1, <2>2, <2>3, <2>4
<1>2. CASE /\ parserLoadStateSndDir(t_count, l, h, path)
           /\ pc' = pc /\ fault' = fault
  <2>2. state_cnt \in Channels => claims[state_cnt] > 0
    BY <1>0 DEF Allocated
  <2>3. /\ ChanInv'
        /\ state_cnt \in Channels =>
              /\ state_cnt' = state_cnt
              /\ Len(sbuffs'[state_cnt]) = Len(sbuffs[state_cnt])
        /\ state_cnt \notin Channels => state_cnt' \notin Channels
    BY <1>0, <1>a, <1>c, <1>2, <2>2, Load
  <2>4. ReadInv'
    BY <1>0, <1>a, <1>i, <1>2 DEF ReadInv
  <2>5. Allocated(ts)'
    <3>1. ts' = ts
      BY <1>a, <1>i
    <3> QED BY <1>0, <1>a, <1>2, <2>3, <3>1 DEF Allocated
  <2>6. ClaimInv'
    BY <1>a, <1>f, <1>2, <2>5 DEF ClaimInv
  <2> QED BY <1>2, <2>3, <2>4, <2>6
<1> QED BY <1>a, <1>1, <1>2, <1>3

(* What a step may do to the channels, the place in the file and the first *)
(* fault; an entry for a state is made for a channel.                      *)
StepOK ==
    /\ ChanInv' /\ ReadInv' /\ ClaimInv'
    /\ fault' = None => fault = None
    /\ StateAdded /\ fault' = None => state_cnt \in Channels

LEMMA NotAdded ==
  ASSUME state_cnt \in Nat, state_cnt' = state_cnt
  PROVE  ~StateAdded
BY DEF StateAdded

LEMMA ThresholdStep ==
  ASSUME BoundsInv, parserParseThreshold \/ xmlParseThreshold
  PROVE  StepOK
<1>1. ChanInv' /\ ReadInv' /\ ClaimInv' /\ (fault' = None => fault = None)
  BY ThresholdRead, ThemeThresholdRead
<1>2. pc = "state" \/ pc = "thresholds"
  BY DEF parserParseThreshold, xmlParseThreshold
<1>3. fault = None => state_cnt \in Channels
  BY <1>2 DEF BoundsInv, ClaimInv, Allocated
<1> QED BY <1>1, <1>3 DEF StepOK

(* A state's channel is allocated. *)
LEMMA AllocStep ==
  ASSUME BoundsInv, parserParseState \/ xmlParseState
  PROVE  StepOK
<1> USE DEF tableVars, channelVars, themeVars, fileVars
<1>0. /\ ChanInv /\ state_cnt \in Nat /\ info.st \in Nat /\ info.st >= 1
      /\ IsInfo(info)
      /\ fault = "threshold" => \E c \in Channels : claims[c] > 1
  BY DEF BoundsInv, ReadInv, ClaimInv, TableInv
<1>1. PICK ts : /\ mixerAllocNewState(state_cnt, Len(ts)) /\ Len(ts) \in Nat
                /\ \/ pc' = "state" /\ ts = sec'.thresholds /\ sec' \in StateSections
                   \/ /\ pc' = "thresholds" /\ ts = sec'.states[info'.st].thresholds
                      /\ sec' \in Themes /\ info'.st \in 1 .. Len(sec'.states)
                   \/ pc' = "undefined"
  <2>1. CASE parserParseState
    <3>1. PICK s \in StateSections :
             mixerAllocNewState(state_cnt, Len(s.thresholds)) /\ sec' = s
      BY <2>1 DEF parserParseState
    <3>2. Len(s.thresholds) \in Nat
      BY StateSectionsAssumption
    <3>3. pc' = "state" \/ pc' = "undefined"
      BY <2>1 DEF parserParseState
    <3> QED BY <3>1, <3>2, <3>3
  <2>2. CASE xmlParseState
    <3>1. /\ mixerAllocNewState(state_cnt, Len(sec.states[info.st].thresholds))
          /\ pc = "events" /\ info.st <= Len(sec.states) /\ sec' = sec
          /\ pc' = "thresholds" \/ pc' = "undefined"
      BY <2>2 DEF xmlParseState
    <3>2. sec \in Themes
      BY <3>1 DEF BoundsInv, ReadInv
    <3>3. Len(sec.states) \in Nat
      BY <3>2, ThemeRead
    <3>4. info.st \in 1 .. Len(sec.states)
      BY <1>0, <3>1, <3>3
    <3>5. Len(sec.states[info.st].thresholds) \in Nat
      BY <3>2, <3>4, ThemeRead
    <3>6. info'.st = info.st
      BY <1>0, <2>2 DEF xmlParseState
    <3> QED BY <3>1, <3>2, <3>4, <3>5, <3>6
  <2> QED BY <2>1, <2>2
<1>2. t_count' = 0 /\ state_cnt' = state_cnt
  BY DEF parserParseState, xmlParseState
<1>3. /\ info'.st \in Nat /\ info'.st >= 1
      /\ IsInfo(info')
  BY <1>0 DEF parserParseState, xmlParseState, IsInfo
<1>4. /\ ChanInv'
      /\ \A c \in Channels : claims'[c] >= claims[c]
      /\ state_cnt \in Channels =>
           /\ fault' = fault
           /\ claims'[state_cnt] > 0
           /\ claims'[state_cnt] = 1 => Len(sbuffs'[state_cnt]) = Len(ts)
      /\ state_cnt \notin Channels => Noted("state index")
  BY <1>0, <1>1, Alloc
<1>5. ReadInv'
  BY <1>1, <1>2, <1>3 DEF ReadInv
<1>6. /\ fault' = None => fault = None
      /\ fault' = None => state_cnt \in Channels
      /\ fault' = "threshold" => fault = "threshold"
  BY <1>4, NoneAssumption DEF Noted
<1>7. fault' = "threshold" => \E c \in Channels : claims'[c] > 1
  <2> SUFFICES ASSUME fault' = "threshold" PROVE \E c \in Channels : claims'[c] > 1
    OBVIOUS
  <2>1. PICK c \in Channels : claims[c] > 1
    BY <1>0, <1>6
  <2>2. claims[c] \in Nat /\ claims'[c] \in Nat /\ claims'[c] >= claims[c]
    BY <1>0, <1>4 DEF ChanInv
  <2> QED BY <2>1, <2>2
<1>8. Allocated(ts)'
  BY <1>2, <1>4, <1>6 DEF Allocated
<1>9. ClaimInv'
  <2>1. CASE pc' = "state" /\ ts = sec'.thresholds
    BY <1>7, <1>8, <2>1 DEF ClaimInv
  <2>2. CASE pc' = "thresholds" /\ ts = sec'.states[info'.st].thresholds
    BY <1>7, <1>8, <2>2 DEF ClaimInv
  <2>3. CASE pc' = "undefined"
    BY <1>7, <2>3 DEF ClaimInv
  <2> QED BY <1>1, <2>1, <2>2, <2>3
<1> QED BY <1>0, <1>2, <1>4, <1>5, <1>6, <1>9, NotAdded DEF StepOK

(* The end of a state in a theme, and of a state or theme as a whole. *)
LEMMA EndStep ==
  ASSUME BoundsInv, endOfState \/ xmlEndOfState \/ xmlEndOfTheme
  PROVE  StepOK
<1> USE DEF tableVars, channelVars, themeVars, fileVars
<1>0. /\ ChanInv /\ state_cnt \in Nat /\ info.st \in Nat /\ info.st >= 1
      /\ IsInfo(info)
      /\ t_count \in Nat
      /\ fault = "threshold" => \E c \in Channels : claims[c] > 1
  BY DEF BoundsInv, ReadInv, ClaimInv, TableInv
<1>1. sbuffs' = sbuffs /\ claims' = claims /\ t_count' = t_count
  BY DEF endOfState, xmlEndOfState, xmlEndOfTheme
<1>2. ChanInv'
  BY <1>0, <1>1, ChanSame
<1>3. CASE endOfState
  <2>1. pc = "state" /\ pc' \in {"config", "exited"} /\ fault' = fault /\ info' = info
    BY <1>3 DEF endOfState, shutDown
  <2>2. fault = None => state_cnt \in Channels
    BY <2>1 DEF BoundsInv, ClaimInv, Allocated
  <2>3. ReadInv' /\ ClaimInv'
    BY <1>0, <1>1, <2>1 DEF ReadInv, ClaimInv
  <2> QED BY <1>2, <2>1, <2>2, <2>3 DEF StepOK
<1>4. CASE xmlEndOfState
  <2>1. /\ pc = "thresholds" /\ pc' = "events" /\ fault' = fault /\ sec' = sec
        /\ info' = [info EXCEPT !.st = @ + 1] /\ state_cnt' = state_cnt
    BY <1>4 DEF xmlEndOfState
  <2>2. /\ info'.st = info.st + 1
        /\ IsInfo(info')
    BY <1>0, <2>1 DEF IsInfo
  <2>3. sec \in Themes /\ (fault = None => state_cnt \in Channels)
    BY <2>1 DEF BoundsInv, ReadInv, ClaimInv, Allocated
  <2>4. ReadInv'
    BY <1>0, <1>1, <2>1, <2>2, <2>3 DEF ReadInv
  <2>5. ClaimInv'
    BY <1>0, <1>1, <2>1, <2>3 DEF ClaimInv
  <2> QED BY <1>2, <2>1, <2>3, <2>4, <2>5 DEF StepOK
<1>5. CASE xmlEndOfTheme
  <2>1. /\ pc = "events" /\ info.st > Len(sec.states) /\ info' = NoInfo
        /\ state_cnt' # state_cnt => sec.states # <<>>
        /\ \/ pc' = "config" /\ fault' = fault
           \/ pc' = "undefined" /\ Noted("trans_table")
    BY <1>5 DEF xmlEndOfTheme, Undefined
  <2>2. /\ fault' = None => fault = None
        /\ fault' = "threshold" => fault = "threshold"
        /\ pc' \in {"config", "undefined"}
    BY <2>1, NoneAssumption DEF Noted
  <2>3. ReadInv'
    BY <1>0, <1>1, <2>1, <2>2 DEF ReadInv, NoInfo, IsInfo
  <2>4. ClaimInv'
    BY <1>0, <1>1, <2>2 DEF ClaimInv
  <2>5. sec \in Themes
    BY <2>1 DEF BoundsInv, ReadInv
  <2>6. Len(sec.states) \in Nat /\ (sec.states # <<>> => Len(sec.states) > 0)
    BY <2>5, ThemeRead
  <2>7. state_cnt' # state_cnt => info.st > 1
    BY <1>0, <2>1, <2>6
  <2>8. StateAdded /\ fault' = None => state_cnt \in Channels
    <3>1. StateAdded => state_cnt' # state_cnt
      BY <1>0 DEF StateAdded
    <3>2. info.st > 1 /\ fault = None => state_cnt \in Channels
      BY <2>1 DEF BoundsInv, ClaimInv
    <3> QED BY <2>2, <2>7, <3>1, <3>2
  <2> QED BY <1>2, <2>2, <2>3, <2>4, <2>8 DEF StepOK
<1> QED BY <1>3, <1>4, <1>5

(* The other steps leave the channels alone and are between states. *)
LEMMA OtherStep ==
  ASSUME BoundsInv,
         \/ parserParseGeneral \/ parserImportConfig \/ endOfFile
         \/ parserParseEvent \/ xmlParseFirstPass \/ xmlParseEvent
         \/ \E n \in Names : engineSoundTableRetrieve(n)
         \/ retrieved
         \/ UNCHANGED vars
  PROVE  StepOK
<1> USE DEF tableVars, channelVars, themeVars, fileVars
<1>0. /\ ChanInv /\ state_cnt \in Nat /\ info.st \in Nat /\ info.st >= 1
      /\ IsInfo(info)
      /\ t_count \in Nat
      /\ fault = "threshold" => \E c \in Channels : claims[c] > 1
  BY DEF BoundsInv, ReadInv, ClaimInv, TableInv
<1>1. sbuffs' = sbuffs /\ claims' = claims /\ t_count' = t_count /\ state_cnt' = state_cnt
  BY DEF parserParseGeneral, parserImportConfig, endOfFile, parserParseEvent,
         xmlParseFirstPass, xmlParseEvent, engineSoundTableRetrieve, retrieved, vars
<1>2. ChanInv' /\ ~StateAdded
  BY <1>0, <1>1, ChanSame, NotAdded
<1>3. CASE parserParseGeneral \/ parserImportConfig \/ endOfFile
  <2>1. pc' \in {"config", "exited", "running"} /\ fault' = fault /\ info' = info
    BY <1>3 DEF parserParseGeneral, parserImportConfig, endOfFile, nextSection, shutDown
  <2> QED BY <1>0, <1>1, <1>2, <2>1 DEF ReadInv, ClaimInv, StepOK
<1>4. CASE parserParseEvent
  <2>1. /\ info' = info /\ pc' \in {"config", "exited", "undefined"}
        /\ fault' = fault \/ Noted("sound_path")
    BY <1>4 DEF parserParseEvent, nextSection, shutDown, Undefined
  <2>2. (fault' = None => fault = None) /\ (fault' = "threshold" => fault = "threshold")
    BY <2>1, NoneAssumption DEF Noted
  <2> QED BY <1>0, <1>1, <1>2, <2>1, <2>2 DEF ReadInv, ClaimInv, StepOK
<1>5. CASE xmlParseFirstPass
  <2>1. /\ info' = info \/ info' = NoInfo
        /\ \/ pc' \in {"exited", "undefined"}
           \/ pc' = "events" /\ info' = NoInfo /\ sec' \in Themes
        /\ fault' = fault \/ Noted("sound_path")
    BY <1>5 DEF xmlParseFirstPass, shutDown, Undefined
  <2>2. (fault' = None => fault = None) /\ (fault' = "threshold" => fault = "threshold")
    BY <2>1, NoneAssumption DEF Noted
  <2>3. ReadInv'
    BY <1>0, <1>1, <2>1 DEF ReadInv, NoInfo, IsInfo
  <2>4. pc' = "events" => info'.st = 1
    BY <2>1 DEF NoInfo
  <2>5. ClaimInv'
    BY <1>0, <1>1, <2>1, <2>2, <2>4 DEF ClaimInv
  <2> QED BY <1>2, <2>2, <2>3, <2>5 DEF StepOK
<1>6. CASE xmlParseEvent
  <2>1. pc = "events" /\ pc' = pc /\ fault' = fault /\ sec' = sec
    BY <1>6 DEF xmlParseEvent
  <2>2. PICK v, n, p : info' = [info EXCEPT !.ev = v, !.name = n, !.path = p]
    BY <1>6 DEF xmlParseEvent
  <2>3. /\ info'.st = info.st
        /\ IsInfo(info')
    BY <1>0, <2>2 DEF IsInfo
  <2>4. sec \in Themes /\ (info.st > 1 /\ fault = None => state_cnt \in Channels)
    BY <2>1 DEF BoundsInv, ReadInv, ClaimInv
  <2>5. ReadInv' /\ ClaimInv'
    BY <1>0, <1>1, <2>1, <2>3, <2>4 DEF ReadInv, ClaimInv
  <2> QED BY <1>2, <2>1, <2>5 DEF StepOK
<1>7. CASE \/ \E n \in Names : engineSoundTableRetrieve(n)
           \/ retrieved \/ UNCHANGED vars
  <2>1. pc' = pc /\ fault' = fault /\ info' = info /\ sec' = sec
    BY <1>7 DEF engineSoundTableRetrieve, retrieved, vars
  <2> QED BY <1>1, <1>2, <2>1 DEF BoundsInv, ReadInv, ClaimInv, Allocated, StepOK
<1> QED BY <1>3, <1>4, <1>5, <1>6, <1>7

LEMMA BoundsInductive == BoundsInv /\ [Next]_vars => BoundsInv'
<1> SUFFICES ASSUME BoundsInv, [Next]_vars PROVE BoundsInv'
  OBVIOUS
<1>1. StepOK
  BY ThresholdStep, AllocStep, EndStep, OtherStep DEF Next
<1>2. TableInv'
  BY TableInductive DEF BoundsInv
<1>3. StatesInside'
  BY <1>1, InsideStep DEF BoundsInv, StepOK
<1> QED BY <1>1, <1>2, <1>3 DEF BoundsInv, StepOK

(* The index that engineIO uses without a test lies within the channels in *)
(* every configuration that has not already made mixerAllocNewState write  *)
(* behind the last channel, and a threshold that is not there is touched   *)
(* only on a channel that several states were given.                       *)
THEOREM IndicesAreInBounds == Spec => []InBounds
<1>1. BoundsInv => InBounds
  BY DEF BoundsInv, ClaimInv, StatesInside, InBounds, States, Entries
<1> QED BY <1>1, BoundsInit, BoundsInductive, PTL DEF Spec

-----------------------------------------------------------------------------
(* The sounds of a theme, and what a lookup finds.                         *)
Sound == [name : SoundNames, path : Dirs]

(* A set of numbers that is not empty has a smallest one.                  *)
LEMMA Smallest ==
  ASSUME NEW T \in SUBSET Nat, T # {}
  PROVE  Min(T) \in T
<1> DEFINE R == OpToRel(<, Nat)
<1>1. R = {p \in Nat \X Nat : p[1] < p[2]}
  BY DEF OpToRel
<1>2. IsWellFoundedOn(R, Nat)
  BY NatLessThanWellFounded
<1> HIDE DEF R
<1>3. PICK x \in T : \A y \in T : ~(<<y, x>> \in R)
  BY <1>2, WFMin
<1>4. \A y \in T : ~(y < x)
  BY <1>1, <1>3
<1>5. \E z \in T : \A y \in T : z <= y
  BY <1>4
<1> QED BY <1>5, Zenon DEF Min

(* xmlThemeLookupTransPath finds an entry of that name if there is one.    *)
LEMMA LookupFinds ==
  ASSUME NEW n
  PROVE  LET i == translation(n)
         IN  \/ i = 0 /\ \A k \in 1 .. Len(trans_table) : trans_table[k].name # n
             \/ i \in 1 .. Len(trans_table) /\ trans_table[i].name = n
<1> DEFINE I == {k \in 1 .. Len(trans_table) : trans_table[k].name = n}
<1>1. translation(n) = IF I # {} THEN Min(I) ELSE 0
  BY DEF translation, SelectInSeq
<1>2. I \subseteq Nat
  OBVIOUS
<1>3. CASE I = {}
  <2>1. translation(n) = 0
    <3> HIDE DEF I
    <3> QED BY <1>1, <1>3, Zenon
  <2> QED BY <1>3, <2>1
<1>4. CASE I # {}
  <2>1. Min(I) \in I
    <3> HIDE DEF I
    <3> QED BY <1>2, <1>4, Smallest
  <2> QED BY <1>1, <1>4, <2>1
<1> QED BY <1>3, <1>4

(* An entry is taken out of the list; the others stay, and so does the     *)
(* head if it is another one.                                              *)
LEMMA EntryTaken ==
  ASSUME NEW s \in Seq(Sound), NEW i \in 1 .. Len(s), i # 1
  PROVE  /\ RemoveAt(s, i) \in Seq(Sound)
         /\ RemoveAt(s, i) # <<>> /\ RemoveAt(s, i)[1] = s[1]
         /\ \A k \in 1 .. Len(s) : k # i =>
               \E j \in 1 .. Len(RemoveAt(s, i)) : RemoveAt(s, i)[j] = s[k]
         /\ \A j \in 1 .. Len(RemoveAt(s, i)) :
               \E k \in 1 .. Len(s) : RemoveAt(s, i)[j] = s[k]
<1> DEFINE a == SubSeq(s, 1, i - 1)
           b == SubSeq(s, i + 1, Len(s))
           r == a \o b
<1>0. /\ Len(s) \in Nat /\ 1 \in Int /\ i - 1 \in Int /\ i + 1 \in Int /\ Len(s) \in Int
      /\ i - 1 \in Nat /\ Len(s) - i \in Nat
      /\ \A k \in 1 .. Len(s) : s[k] \in Sound
  OBVIOUS
<1>1. /\ a \in Seq(Sound) /\ Len(a) = i - 1
      /\ \A j \in 1 .. i - 1 : a[j] = s[j]
  <2>1. \A k \in 1 .. i - 1 : s[k] \in Sound
    BY <1>0
  <2>2. a \in Seq(Sound) /\ Len(a) = (IF 1 <= i - 1 THEN i - 1 - 1 + 1 ELSE 0)
        /\ \A j \in 1 .. i - 1 - 1 + 1 : a[j] = s[1 + j - 1]
    BY <1>0, <2>1, SubSeqProperties
  <2>3. i - 1 - 1 + 1 = i - 1 /\ 1 <= i - 1 /\ \A j \in 1 .. i - 1 : 1 + j - 1 = j
    BY <1>0
  <2> HIDE DEF a
  <2> QED BY <2>2, <2>3
<1>2. /\ b \in Seq(Sound) /\ Len(b) = Len(s) - i
      /\ \A j \in 1 .. Len(s) - i : b[j] = s[i + j]
  <2>1. \A k \in i + 1 .. Len(s) : s[k] \in Sound
    BY <1>0
  <2>2. b \in Seq(Sound)
        /\ Len(b) = (IF i + 1 <= Len(s) THEN Len(s) - (i + 1) + 1 ELSE 0)
        /\ \A j \in 1 .. Len(s) - (i + 1) + 1 : b[j] = s[i + 1 + j - 1]
    BY <1>0, <2>1, SubSeqProperties
  <2>3. /\ Len(s) - (i + 1) + 1 = Len(s) - i
        /\ (IF i + 1 <= Len(s) THEN Len(s) - (i + 1) + 1 ELSE 0) = Len(s) - i
        /\ \A j \in 1 .. Len(s) - i : i + 1 + j - 1 = i + j
    BY <1>0
  <2> HIDE DEF b
  <2> QED BY <2>2, <2>3
<1> HIDE DEF a, b
<1>3. /\ r \in Seq(Sound) /\ Len(r) = Len(a) + Len(b)
      /\ \A j \in 1 .. Len(a) : r[j] = a[j]
      /\ \A j \in 1 .. Len(b) : r[Len(a) + j] = b[j]
  <2>1. r \in Seq(Sound) /\ Len(r) = Len(a) + Len(b)
        /\ \A j \in 1 .. Len(a) + Len(b) :
              r[j] = IF j <= Len(a) THEN a[j] ELSE b[j - Len(a)]
    BY <1>1, <1>2, ConcatProperties
  <2>2. Len(a) \in Nat /\ Len(b) \in Nat
    BY <1>0, <1>1, <1>2
  <2>3. \A j \in 1 .. Len(a) : j \in 1 .. Len(a) + Len(b) /\ j <= Len(a)
    BY <2>2
  <2>4. \A j \in 1 .. Len(b) : /\ Len(a) + j \in 1 .. Len(a) + Len(b)
                               /\ ~(Len(a) + j <= Len(a)) /\ Len(a) + j - Len(a) = j
    BY <2>2
  <2> HIDE DEF r
  <2> QED BY <2>1, <2>3, <2>4
<1>4. RemoveAt(s, i) = r
  BY DEF RemoveAt, a, b
<1> HIDE DEF r
<1>5. Len(r) = Len(s) - 1 /\ r # <<>> /\ 1 \in 1 .. i - 1
  <2>1. Len(r) = Len(s) - 1 /\ Len(r) > 0 /\ 1 \in 1 .. i - 1
    BY <1>0, <1>1, <1>2, <1>3
  <2> QED BY <2>1
<1>6. ASSUME NEW k \in 1 .. Len(s), k # i
      PROVE  \E j \in 1 .. Len(r) : r[j] = s[k]
  <2>1. CASE k < i
    <3>1. k \in 1 .. i - 1 /\ k \in 1 .. Len(r) /\ k \in 1 .. Len(a)
      BY <1>0, <1>1, <1>5, <2>1
    <3> QED BY <1>1, <1>3, <3>1
  <2>2. CASE k > i
    <3>1. k - i \in 1 .. Len(s) - i /\ k - i \in 1 .. Len(b)
          /\ Len(a) + (k - i) \in 1 .. Len(r) /\ i + (k - i) = k
      BY <1>0, <1>1, <1>2, <1>5, <2>2
    <3> QED BY <1>2, <1>3, <3>1
  <2> QED BY <1>6, <2>1, <2>2
<1>7. ASSUME NEW j \in 1 .. Len(r)
      PROVE  \E k \in 1 .. Len(s) : r[j] = s[k]
  <2>1. CASE j < i
    <3>1. j \in 1 .. i - 1 /\ j \in 1 .. Len(s) /\ j \in 1 .. Len(a)
      BY <1>0, <1>1, <1>5, <2>1
    <3> QED BY <1>1, <1>3, <3>1
  <2>2. CASE ~(j < i)
    <3>1. j - (i - 1) \in 1 .. Len(b) /\ j - (i - 1) \in 1 .. Len(s) - i
          /\ Len(a) + (j - (i - 1)) = j /\ i + (j - (i - 1)) \in 1 .. Len(s)
      BY <1>0, <1>1, <1>2, <1>5, <2>2
    <3> QED BY <1>2, <1>3, <3>1
  <2> QED BY <2>1, <2>2
<1>8. r[1] = s[1]
  BY <1>1, <1>3, <1>5
<1> QED BY <1>3, <1>4, <1>5, <1>6, <1>7, <1>8

-----------------------------------------------------------------------------
(* The place in the files, the counts and the lookup.                      *)
FileInv ==
    /\ pc \in {"config", "state", "events", "thresholds", "running",
               "exited", "undefined"}
    /\ depth \in 0 .. MaxDepth /\ sections \in 0 .. MaxSections
    /\ pc = "running" => depth = 0
    /\ event_cnt \in Nat
    /\ asked \in Maybe(Names) /\ (asked # None => pc = "running")

LEMMA FileInductive == FileInv /\ [Next]_vars => FileInv'
<1> SUFFICES ASSUME FileInv, [Next]_vars PROVE FileInv'
  OBVIOUS
<1> USE BoundsAssumption DEF fileVars, tableVars, shutDown, Undefined
<1>e. event_cnt \in Nat /\ event_cnt + 1 \in Nat
  BY DEF FileInv
<1>s. nextSection => sections' \in 0 .. MaxSections /\ pc = "config"
  BY DEF nextSection, FileInv
<1>1. CASE parserParseGeneral
  BY <1>1, <1>s DEF parserParseGeneral, FileInv
<1>2. CASE parserImportConfig
  BY <1>2, <1>s DEF parserImportConfig, FileInv
<1>3. CASE endOfFile
  BY <1>3 DEF endOfFile, FileInv
<1>4. CASE parserParseEvent
  <2>1. /\ UNCHANGED <<depth, asked>> /\ sections' \in 0 .. MaxSections
        /\ pc = "config" /\ pc' \in {"config", "exited", "undefined"}
    BY <1>4, <1>s DEF parserParseEvent
  <2>2. event_cnt' \in {event_cnt, event_cnt + 1}
    BY <1>4 DEF parserParseEvent, parserLoadEventSndDir
  <2> QED BY <1>e, <2>1, <2>2 DEF FileInv
<1>5. CASE parserParseState
  <2>1. /\ UNCHANGED <<depth, asked, event_cnt>> /\ sections' \in 0 .. MaxSections
        /\ pc = "config" /\ pc' \in {"state", "undefined"}
    BY <1>5, <1>s DEF parserParseState
  <2> QED BY <2>1 DEF FileInv
<1>6. CASE parserParseThreshold
  <2>1. /\ UNCHANGED <<depth, sections, asked, event_cnt>>
        /\ pc = "state" /\ pc' \in {"state", "exited", "undefined"}
    BY <1>6 DEF parserParseThreshold
  <2> QED BY <2>1 DEF FileInv
<1>7. CASE endOfState
  BY <1>7 DEF endOfState, FileInv
<1>8. CASE xmlParseFirstPass
  <2>1. /\ UNCHANGED <<depth, asked, event_cnt>> /\ sections' \in 0 .. MaxSections
        /\ pc = "config" /\ pc' \in {"events", "exited", "undefined"}
    BY <1>8, <1>s DEF xmlParseFirstPass
  <2> QED BY <2>1 DEF FileInv
<1>9. CASE xmlParseEvent
  <2>1. UNCHANGED <<pc, depth, sections, asked>>
    BY <1>9 DEF xmlParseEvent
  <2>2. event_cnt' \in {event_cnt, event_cnt + 1}
    BY <1>9 DEF xmlParseEvent, parserLoadEventSndDir
  <2> QED BY <1>e, <2>1, <2>2 DEF FileInv
<1>10. CASE xmlParseState
  <2>1. /\ UNCHANGED <<depth, sections, asked, event_cnt>>
        /\ pc = "events" /\ pc' \in {"thresholds", "undefined"}
    BY <1>10 DEF xmlParseState
  <2> QED BY <2>1 DEF FileInv
<1>11. CASE xmlParseThreshold
  <2>1. /\ UNCHANGED <<depth, sections, asked, event_cnt>>
        /\ pc = "thresholds" /\ pc' \in {"thresholds", "undefined"}
    BY <1>11 DEF xmlParseThreshold
  <2> QED BY <2>1 DEF FileInv
<1>12. CASE xmlEndOfState
  BY <1>12 DEF xmlEndOfState, FileInv
<1>13. CASE xmlEndOfTheme
  BY <1>13 DEF xmlEndOfTheme, FileInv
<1>14. CASE \E n \in Names : engineSoundTableRetrieve(n)
  BY <1>14 DEF engineSoundTableRetrieve, FileInv, Maybe
<1>15. CASE retrieved
  BY <1>15 DEF retrieved, FileInv, Maybe
<1>16. CASE UNCHANGED vars
  BY <1>16 DEF vars, FileInv
<1> QED
  BY <1>1, <1>2, <1>3, <1>4, <1>5, <1>6, <1>7, <1>8, <1>9, <1>10, <1>11,
     <1>12, <1>13, <1>14, <1>15, <1>16 DEF Next

(* A list of the table holds entries of its own hash only.                 *)
HashInv ==
    \A h \in DOMAIN sound_table : \A i \in 1 .. Len(sound_table[h]) :
        Hash[sound_table[h][i].name] = h

LEMMA HashInductive == TableInv /\ HashInv /\ [Next]_vars => HashInv'
<1> SUFFICES ASSUME TableInv, HashInv, [Next]_vars PROVE HashInv'
  OBVIOUS
<1>1. sound_table' = sound_table
      \/ \E e : sound_table' = engineSoundTableInsert(sound_table, e)
  BY TableStep DEF NoEntryAdded, EventAdded, StateAdded
<1>2. CASE sound_table' = sound_table
  BY <1>2 DEF HashInv
<1>3. ASSUME NEW e, sound_table' = engineSoundTableInsert(sound_table, e)
      PROVE  HashInv'
  <2>1. Extended(sound_table, engineSoundTableInsert(sound_table, e), e)
    BY InsertKeepsEntries DEF TableInv
  <2>2. Extended(sound_table, sound_table', e)
    BY <1>3, <2>1
  <2> QED BY <2>2 DEF Extended, HashInv
<1> QED BY <1>1, <1>2, <1>3

-----------------------------------------------------------------------------
(* The sounds that a theme has declared and not used yet, and the one that *)
(* was looked up last.                                                     *)
TransInv ==
    /\ trans_table \in Seq(Sound)
    /\ info.path \in Maybe(Dirs)
    /\ pc \in {"config", "state"} => trans_table = <<>>

(* What is put in front of the list, and what is in it then.               *)
LEMMA PutInFront ==
  ASSUME NEW s \in Seq(Sound)
  PROVE  /\ inFrontOf(s, <<>>) \in Seq(Sound) /\ Len(inFrontOf(s, <<>>)) = Len(s)
         /\ \A i \in 1 .. Len(s) : inFrontOf(s, <<>>)[i] = s[Len(s) - i + 1]
<1> DEFINE rev == [i \in 1 .. Len(s) |-> s[Len(s) - i + 1]]
<1>1. Len(s) \in Nat /\ \A i \in 1 .. Len(s) : Len(s) - i + 1 \in 1 .. Len(s)
  OBVIOUS
<1>2. rev \in Seq(Sound) /\ Len(rev) = Len(s)
  BY <1>1
<1>3. Reverse(s) = rev
  BY DEF Reverse
<1>4. \A i \in 1 .. Len(s) : rev[i] = s[Len(s) - i + 1]
  OBVIOUS
<1> HIDE DEF rev
<1>5. rev \o <<>> = rev
  BY <1>2, ConcatEmptySeq
<1> QED BY <1>2, <1>3, <1>4, <1>5 DEF inFrontOf

(* The list behind a lookup.                                               *)
LEMMA TakenType ==
  ASSUME trans_table \in Seq(Sound), NEW n
  PROVE  LET i == translation(n)
         IN  /\ (IF i = 0 THEN trans_table ELSE withoutEntry(i)) \in Seq(Sound)
             /\ i # 0 => trans_table[i] \in Sound
<1> DEFINE i == translation(n)
<1>1. i = 0 \/ i \in 1 .. Len(trans_table)
  BY LookupFinds
<1> HIDE DEF i
<1>2. i # 0 => trans_table[i] \in Sound
  BY <1>1
<1>3. CASE i = 0
  BY <1>3 DEF i
<1>4. CASE i = 1
  <2>1. <<>> \in Seq(Sound)
    OBVIOUS
  <2> QED BY <1>2, <1>4, <2>1 DEF withoutEntry, i
<1>5. CASE i # 0 /\ i # 1
  <2>1. RemoveAt(trans_table, i) \in Seq(Sound)
    BY <1>1, <1>5, EntryTaken
  <2> QED BY <1>2, <1>5, <2>1 DEF withoutEntry, i
<1> QED BY <1>3, <1>4, <1>5

LEMMA TransInductive == ReadInv /\ TransInv /\ [Next]_vars => TransInv'
<1> SUFFICES ASSUME ReadInv, TransInv, [Next]_vars PROVE TransInv'
  OBVIOUS
<1> USE DEF themeVars, shutDown, Undefined
<1>0. IsInfo(info) /\ NoInfo.path \in Maybe(Dirs) /\ None \in Maybe(Dirs)
  BY DEF ReadInv, NoInfo, Maybe
<1>1. CASE xmlParseFirstPass
  <2>1. trans_table = <<>> /\ pc' \in {"events", "exited", "undefined"}
    BY <1>1 DEF xmlParseFirstPass, nextSection, TransInv
  <2>2. trans_table' = trans_table
        \/ \E t \in Themes : trans_table' = inFrontOf(t.sounds, trans_table)
    BY <1>1 DEF xmlParseFirstPass
  <2>3. \A t \in Themes : inFrontOf(t.sounds, <<>>) \in Seq(Sound)
    BY PutInFront, ThemesAssumption DEF Sound
  <2>4. trans_table' \in Seq(Sound)
    BY <2>1, <2>2, <2>3 DEF TransInv
  <2>5. info' = info \/ info' = NoInfo
    BY <1>1 DEF xmlParseFirstPass
  <2> QED BY <1>0, <2>1, <2>4, <2>5 DEF TransInv
<1>2. CASE xmlParseEvent \/ xmlParseThreshold
  <2>1. pc' \notin {"config", "state"}
    BY <1>2 DEF xmlParseEvent, xmlParseThreshold
  <2>2. \E n : trans_table' = IF translation(n) = 0 THEN trans_table
                              ELSE withoutEntry(translation(n))
    BY <1>2, Zenon DEF xmlParseEvent, xmlParseThreshold
  <2>3. info'.path \in Maybe(Dirs)
    <3>1. CASE xmlParseEvent
      <4> DEFINE m == sec.events[info.ev].sound
                 x == IF m = None THEN info.path
                      ELSE IF translation(m) = 0 THEN None
                           ELSE trans_table[translation(m)].path
      <4>1. \E n, v : \/ info' = [info EXCEPT !.ev = v, !.name = n, !.path = x]
                     \/ info' = [info EXCEPT !.ev = v, !.name = n, !.path = None]
        BY <3>1, Zenon DEF xmlParseEvent
      <4>2. translation(m) # 0 => trans_table[translation(m)].path \in Dirs
        BY TakenType DEF TransInv, Sound
      <4> HIDE DEF m
      <4>3. x \in Maybe(Dirs)
        BY <1>0, <4>2 DEF TransInv, Maybe
      <4> HIDE DEF x
      <4> QED BY <1>0, <4>1, <4>3 DEF IsInfo
    <3>2. CASE xmlParseThreshold
      <4>1. \E l, h : info' = [info EXCEPT !.path = None, !.l = l, !.h = h]
        BY <3>2, Zenon DEF xmlParseThreshold
      <4> QED BY <1>0, <4>1 DEF IsInfo
    <3> QED BY <1>2, <3>1, <3>2
  <2> QED BY <2>1, <2>2, <2>3, TakenType DEF TransInv
<1>3. CASE xmlEndOfTheme
  BY <1>0, <1>3 DEF xmlEndOfTheme, TransInv
<1>4. CASE \/ parserParseGeneral \/ parserImportConfig \/ endOfFile
           \/ parserParseEvent \/ parserParseState \/ parserParseThreshold
           \/ endOfState \/ xmlParseState \/ xmlEndOfState
           \/ (\E n \in Names : engineSoundTableRetrieve(n)) \/ retrieved
           \/ UNCHANGED vars
  <2>1. trans_table' = trans_table
    BY <1>4 DEF parserParseGeneral, parserImportConfig, endOfFile, parserParseEvent,
                parserParseState, parserParseThreshold, endOfState, xmlParseState,
                xmlEndOfState, engineSoundTableRetrieve, retrieved, vars
  <2>2. pc' \in {"config", "state"} => pc \in {"config", "state"}
    BY <1>4 DEF parserParseGeneral, parserImportConfig, endOfFile, parserParseEvent,
                parserParseState, parserParseThreshold, endOfState, xmlParseState,
                xmlEndOfState, engineSoundTableRetrieve, retrieved, vars, nextSection
  <2>3. info' = info \/ \E n, k : \/ info' = [info EXCEPT !.name = n]
                                  \/ info' = [info EXCEPT !.st = k]
    BY <1>4 DEF parserParseGeneral, parserImportConfig, endOfFile, parserParseEvent,
                parserParseState, parserParseThreshold, endOfState, xmlParseState,
                xmlEndOfState, engineSoundTableRetrieve, retrieved, vars
  <2>4. info'.path = info.path
    BY <1>0, <2>3 DEF IsInfo
  <2> QED BY <2>1, <2>2, <2>4 DEF TransInv
<1> QED BY <1>1, <1>2, <1>3, <1>4 DEF Next

-----------------------------------------------------------------------------
(* The thresholds of a channel.  AdjacentBounds is kept by a threshold     *)
(* that is filled because the ones behind it are still empty, as long as   *)
(* only one state was given the channel; U are those without a level.      *)
Typed(s) == \A i \in 1 .. Len(s) : s[i] \in Thresholds
Repeats(s, i) ==
    i > 1 /\ s[i - 1].cnt # NoDir => s[i].l = s[i - 1].l /\ s[i].h = s[i - 1].h
Adjoins(s, i) == s[i].l = IF i = 1 THEN 0 ELSE s[i - 1].h
Adjacent(s, U) ==
    \A i \in 1 .. Len(s) :
        s[i].cnt # NoDir => IF i \in U THEN Repeats(s, i) ELSE Adjoins(s, i)
Unread(s, U, n) ==
    /\ \A i \in 1 .. Len(s) : i > n => s[i].cnt = NoDir
    /\ \A i \in U : i <= n
(* The bounds read last are those of the last threshold that was filled.   *)
ReadLast(s, n, l, h) ==
    n \in 1 .. Len(s) /\ s[n].cnt # NoDir => l = s[n].l /\ h = s[n].h

NoLevel(c) == {i \in Nat : <<c, i>> \in unlevelled}
ThreshInv ==
    /\ pc \in {"events", "thresholds"} => info.l \in Nat /\ info.h \in Nat
    /\ \A c \in Channels :
        /\ claims[c] = 0 => NoLevel(c) = {}
        /\ claims[c] > 0 => Typed(sbuffs[c])
        /\ claims[c] = 1 => Adjacent(sbuffs[c], NoLevel(c))
        /\ claims[c] = 1 /\ c = state_cnt /\ pc \in {"state", "thresholds"} =>
              Unread(sbuffs[c], NoLevel(c), t_count)
        /\ claims[c] = 1 /\ c = state_cnt /\ pc = "thresholds" =>
              ReadLast(sbuffs[c], t_count, info.l, info.h)

(* A threshold that is not filled, with a level or without. *)
LEMMA SkipKeeps ==
  ASSUME NEW s, IsSeq(s), NEW n \in Nat, NEW U \in SUBSET Nat, NEW V, NEW l, NEW h,
         V = U \/ V = U \cup {n + 1}, Adjacent(s, U), Unread(s, U, n)
  PROVE  Adjacent(s, V) /\ Unread(s, V, n + 1) /\ ReadLast(s, n + 1, l, h)
<1>1. \A i \in 1 .. Len(s) : s[i].cnt # NoDir => i <= n /\ (i \in V <=> i \in U)
  BY SeqLen DEF Unread
<1>2. Adjacent(s, V)
  BY <1>1 DEF Adjacent
<1>3. Unread(s, V, n + 1)
  <2>1. \A i \in 1 .. Len(s) : i > n + 1 => i > n
    OBVIOUS
  <2>2. ASSUME NEW i \in V PROVE i <= n + 1
    <3>1. CASE i \in U
      BY <3>1 DEF Unread
    <3> QED BY <3>1
  <2> QED BY <2>1, <2>2 DEF Unread
<1>4. ReadLast(s, n + 1, l, h)
  BY <1>1 DEF ReadLast
<1> QED BY <1>2, <1>3, <1>4

LEMMA FillKeeps ==
  ASSUME NEW s, IsSeq(s), Typed(s), NEW n \in Nat, n < Len(s), NEW e \in Thresholds,
         NEW U \in SUBSET Nat, NEW V
  PROVE  LET u == [s EXCEPT ![n + 1] = e]
         IN  /\ Typed(u)
             /\ (/\ Adjacent(s, U) /\ Unread(s, U, n)
                 /\ \/ V = U /\ e.l = (IF n = 0 THEN 0 ELSE s[n].h)
                    \/ V = U \cup {n + 1} /\ ReadLast(s, n, e.l, e.h)) =>
                  Adjacent(u, V) /\ Unread(u, V, n + 1) /\ ReadLast(u, n + 1, e.l, e.h)
<1> DEFINE u == [s EXCEPT ![n + 1] = e]
<1>0. Len(s) \in Nat /\ n + 1 \in 1 .. Len(s)
  BY SeqLen
<1>1. Len(u) = Len(s)
  BY <1>0, UpdateAny
<1>2. u[n + 1] = e /\ \A i \in 1 .. Len(s) : i # n + 1 => u[i] = s[i]
  BY <1>0 DEF IsSeq
<1> HIDE DEF u
<1>3. Typed(u)
  BY <1>1, <1>2 DEF Typed
<1>4. ASSUME Adjacent(s, U), Unread(s, U, n),
             \/ V = U /\ e.l = (IF n = 0 THEN 0 ELSE s[n].h)
             \/ V = U \cup {n + 1} /\ ReadLast(s, n, e.l, e.h)
      PROVE  Adjacent(u, V) /\ Unread(u, V, n + 1) /\ ReadLast(u, n + 1, e.l, e.h)
  <2>0. ReadLast(u, n + 1, e.l, e.h)
    BY <1>2 DEF ReadLast
  <2>1. Unread(u, V, n + 1)
    <3>1. ASSUME NEW i \in 1 .. Len(s), i > n + 1 PROVE u[i].cnt = NoDir
      <4>1. i > n /\ i # n + 1
        BY <3>1
      <4> QED BY <1>2, <1>4, <4>1 DEF Unread
    <3>2. ASSUME NEW i \in V PROVE i <= n + 1
      <4>1. CASE i \in U
        BY <1>4, <4>1 DEF Unread
      <4> QED BY <1>4, <4>1
    <3> QED BY <1>1, <3>1, <3>2 DEF Unread
  <2>2. Adjacent(u, V)
    <3> SUFFICES ASSUME NEW i \in 1 .. Len(s), u[i].cnt # NoDir
                 PROVE  IF i \in V THEN Repeats(u, i) ELSE Adjoins(u, i)
      BY <1>1 DEF Adjacent
    <3>1. i <= n + 1
      BY <1>0, <1>1, <2>1 DEF Unread
    <3>2. i = 1 \/ (i - 1 \in 1 .. Len(s) /\ i - 1 # n + 1)
      BY <1>0, <3>1
    <3>3. i # 1 => u[i - 1] = s[i - 1]
      BY <1>2, <3>2
    <3>4. CASE i = n + 1
      <4>1. u[i] = e /\ (n = 0 <=> i = 1) /\ i - 1 = n /\ i \notin U
        BY <1>2, <1>4, <3>4 DEF Unread
      <4>2. CASE V = U /\ e.l = (IF n = 0 THEN 0 ELSE s[n].h)
        BY <3>3, <4>1, <4>2 DEF Adjoins
      <4>3. CASE V = U \cup {n + 1} /\ ReadLast(s, n, e.l, e.h)
        <5>1. i \in V /\ (i > 1 => n \in 1 .. Len(s) /\ i # 1)
          BY <1>0, <3>4, <4>3
        <5> QED BY <3>3, <4>1, <4>3, <5>1 DEF Repeats, ReadLast
      <4> QED BY <1>4, <4>2, <4>3
    <3>5. CASE i # n + 1
      <4>1. u[i] = s[i] /\ (i \in V <=> i \in U)
        BY <1>2, <1>4, <3>5
      <4>2. i > 1 => i # 1
        OBVIOUS
      <4> QED BY <1>4, <3>3, <4>1, <4>2 DEF Adjacent, Adjoins, Repeats
    <3> QED BY <3>4, <3>5
  <2> QED BY <2>0, <2>1, <2>2
<1> QED BY <1>3, <1>4 DEF u

(* The levels that were read, and those that were not. *)
LevelRead(l) ==
    unlevelled' = unlevelled /\ (state_cnt \in Channels => l = lowerBound(state_cnt, t_count))
LevelKept(l, h) ==
    /\ unlevelled' = unlevelled \cup {<<state_cnt, t_count + 1>>}
    /\ pc = "thresholds" /\ l = info.l /\ h = info.h

LEMMA LevelsElsewhere ==
  ASSUME NEW l, NEW h, LevelRead(l) \/ LevelKept(l, h), NEW c, c # state_cnt
  PROVE  NoLevel(c)' = NoLevel(c)
<1>1. \A i : <<c, i>> \in unlevelled' <=> <<c, i>> \in unlevelled
  BY DEF LevelRead, LevelKept
<1> QED BY <1>1 DEF NoLevel

LEMMA LevelsHere ==
  ASSUME t_count \in Nat
  PROVE  /\ \A l : LevelRead(l) => NoLevel(state_cnt)' = NoLevel(state_cnt) \/ state_cnt' # state_cnt
         /\ \A l, h : LevelKept(l, h) =>
               NoLevel(state_cnt)' = NoLevel(state_cnt) \cup {t_count + 1} \/ state_cnt' # state_cnt
BY DEF LevelRead, LevelKept, NoLevel

(* The steps that fill no threshold of the channel. *)
LEMMA SkipThreshold ==
  ASSUME BoundsInv, ThreshInv, pc \in {"state", "thresholds"}, claims' = claims,
         sbuffs' = sbuffs, state_cnt' = state_cnt, t_count' = t_count + 1,
         NEW l, NEW h, LevelRead(l) \/ LevelKept(l, h),
         pc' \in {"events", "thresholds"} => info'.l \in Nat /\ info'.h \in Nat
  PROVE  ThreshInv'
<1>0. /\ ChanInv /\ state_cnt \in Nat /\ t_count \in Nat
      /\ state_cnt \in Channels => claims[state_cnt] > 0
  BY DEF BoundsInv, ReadInv, TableInv, ClaimInv, Allocated
<1> SUFFICES ASSUME NEW c \in Channels
             PROVE  /\ claims[c] = 0 => NoLevel(c)' = {}
                    /\ claims[c] > 0 => Typed(sbuffs[c])
                    /\ claims[c] = 1 => Adjacent(sbuffs[c], NoLevel(c)')
                    /\ claims[c] = 1 /\ c = state_cnt =>
                          /\ Unread(sbuffs[c], NoLevel(c)', t_count + 1)
                          /\ ReadLast(sbuffs[c], t_count + 1, info'.l, info'.h)
  BY DEF ThreshInv
<1>1. CASE c # state_cnt
  <2>1. NoLevel(c)' = NoLevel(c)
    BY <1>1, LevelsElsewhere
  <2> QED BY <1>1, <2>1 DEF ThreshInv
<1>2. CASE c = state_cnt
  <2>1. /\ claims[c] # 0 /\ Typed(sbuffs[c]) /\ IsSeq(sbuffs[c])
        /\ claims[c] = 1 => /\ Adjacent(sbuffs[c], NoLevel(c))
                            /\ Unread(sbuffs[c], NoLevel(c), t_count)
    BY <1>0, <1>2 DEF ThreshInv, ChanInv
  <2>2. \/ NoLevel(c)' = NoLevel(c)
        \/ NoLevel(c)' = NoLevel(c) \cup {t_count + 1}
    BY <1>0, <1>2, LevelsHere
  <2>3. NoLevel(c) \in SUBSET Nat
    BY DEF NoLevel
  <2>4. claims[c] = 1 =>
            /\ Adjacent(sbuffs[c], NoLevel(c)')
            /\ Unread(sbuffs[c], NoLevel(c)', t_count + 1)
            /\ ReadLast(sbuffs[c], t_count + 1, info'.l, info'.h)
    BY <1>0, <2>1, <2>2, <2>3, SkipKeeps
  <2> QED BY <2>1, <2>4
<1> QED BY <1>1, <1>2

(* parserLoadStateSndDir on the threshold that is next.                    *)
LEMMA LoadThreshold ==
  ASSUME BoundsInv, ThreshInv, pc \in {"state", "thresholds"},
         NEW l \in Nat, NEW h \in Nat, NEW d, state_cnt \in Channels => d \in Dirs,
         LevelRead(l) \/ LevelKept(l, h),
         parserLoadStateSndDir(t_count, l, h, d), claims' = claims,
         t_count' = t_count + 1,
         pc' \in {"events", "thresholds"} => info'.l = l /\ info'.h = h
  PROVE  ThreshInv'
<1>0. /\ ChanInv /\ state_cnt \in Nat /\ t_count \in Nat
      /\ state_cnt \in Channels => claims[state_cnt] > 0
  BY DEF BoundsInv, ReadInv, TableInv, ClaimInv, Allocated
<1>1. CASE state_cnt \notin Channels
  <2>1. state_cnt' \notin Channels
    BY <1>0, <1>1, Load
  <2>2. sbuffs' = sbuffs
    <3>1. state_cnt >= no_sbuffs
      BY <1>0, <1>1, SBuffsAssumption DEF Channels
    <3> QED BY <3>1 DEF parserLoadStateSndDir
  <2>3. \A c \in Channels : NoLevel(c)' = NoLevel(c)
    BY <1>1, LevelsElsewhere
  <2> QED BY <2>1, <2>2, <2>3 DEF ThreshInv
<1>2. CASE state_cnt \in Channels
  <2>1. state_cnt' = state_cnt
    BY <1>0, <1>2, Load
  <2>2. IsSeq(sbuffs[state_cnt]) /\ Typed(sbuffs[state_cnt])
    BY <1>0, <1>2 DEF ChanInv, ThreshInv
  <2>3. Len(sbuffs[state_cnt]) \in Nat
    BY <2>2, SeqLen
  <2>4. CASE sbuffs' = sbuffs
    BY <2>1, <2>4, SkipThreshold
  <2>5. CASE sbuffs' # sbuffs
    <3> DEFINE e == [l |-> l, h |-> h, cnt |-> Files[d], got |-> loaded(d)]
               u == [sbuffs[state_cnt] EXCEPT ![t_count + 1] = e]
    <3>1. /\ t_count < Len(sbuffs[state_cnt]) /\ Files[d] # NoDir
          /\ sbuffs' = [sbuffs EXCEPT ![state_cnt] = u]
      <4>1. ~(state_cnt >= no_sbuffs)
        BY <1>2, SBuffsAssumption DEF Channels
      <4> QED BY <2>5, <4>1 DEF parserLoadStateSndDir, mixerAddStateThreshold
    <3>3. Files[d] \in Nat /\ loaded(d) \in Nat
      <4>2. Files[d] \in Nat
        BY <1>2, <3>1, FilesAssumption
      <4>3. d \in Unreadable => Files[d] > 0
        BY FilesAssumption
      <4> QED BY <4>2, <4>3 DEF loaded
    <3>4. e \in Thresholds /\ e.l = l /\ e.h = h
      BY <3>3 DEF Thresholds
    <3> HIDE DEF e
    <3> DEFINE U == NoLevel(state_cnt)
               V == NoLevel(state_cnt)'
    <3>5. /\ U \in SUBSET Nat
          /\ claims[state_cnt] = 1 =>
                /\ Adjacent(sbuffs[state_cnt], U) /\ Unread(sbuffs[state_cnt], U, t_count)
                /\ \/ V = U /\ l = (IF t_count = 0 THEN 0 ELSE sbuffs[state_cnt][t_count].h)
                   \/ V = U \cup {t_count + 1} /\ ReadLast(sbuffs[state_cnt], t_count, l, h)
      <4>1. U \in SUBSET Nat
        BY DEF NoLevel
      <4>2. claims[state_cnt] = 1 =>
                Adjacent(sbuffs[state_cnt], U) /\ Unread(sbuffs[state_cnt], U, t_count)
        BY <1>2 DEF ThreshInv
      <4>3. CASE LevelRead(l)
        <5>1. V = U
          BY <1>0, <2>1, <4>3, LevelsHere
        <5>2. l = (IF t_count = 0 THEN 0 ELSE sbuffs[state_cnt][t_count].h)
          BY <1>2, <4>3 DEF LevelRead, lowerBound
        <5> QED BY <4>1, <4>2, <5>1, <5>2
      <4>4. CASE LevelKept(l, h)
        <5>1. V = U \cup {t_count + 1}
          BY <1>0, <2>1, <4>4, LevelsHere
        <5>2. claims[state_cnt] = 1 => ReadLast(sbuffs[state_cnt], t_count, l, h)
          BY <1>2, <4>4 DEF LevelKept, ThreshInv
        <5> QED BY <4>1, <4>2, <5>1, <5>2
      <4> QED BY <4>3, <4>4
    <3> HIDE DEF U, V
    <3>6. /\ Typed(u)
          /\ claims[state_cnt] = 1 =>
                /\ Adjacent(u, V) /\ Unread(u, V, t_count + 1)
                /\ ReadLast(u, t_count + 1, l, h)
      BY <1>0, <2>2, <3>1, <3>4, <3>5, FillKeeps
    <3> HIDE DEF u
    <3>7. /\ \A c \in Channels : c # state_cnt => sbuffs'[c] = sbuffs[c]
          /\ sbuffs'[state_cnt] = u
      BY <1>0, <1>2, <3>1 DEF ChanInv
    <3> SUFFICES ASSUME NEW c \in Channels
                 PROVE  /\ claims[c] = 0 => NoLevel(c)' = {}
                        /\ claims[c] > 0 => Typed(sbuffs'[c])
                        /\ claims[c] = 1 => Adjacent(sbuffs'[c], NoLevel(c)')
                        /\ claims[c] = 1 /\ c = state_cnt =>
                              /\ Unread(sbuffs'[c], NoLevel(c)', t_count + 1)
                              /\ ReadLast(sbuffs'[c], t_count + 1, l, h)
      BY <2>1 DEF ThreshInv
    <3>8. CASE c # state_cnt
      <4>1. NoLevel(c)' = NoLevel(c)
        BY <3>8, LevelsElsewhere
      <4> QED BY <3>7, <3>8, <4>1 DEF ThreshInv
    <3>9. CASE c = state_cnt
      <4>1. NoLevel(c)' = V /\ claims[c] # 0
        BY <1>0, <1>2, <2>1, <3>9 DEF V
      <4> QED BY <3>6, <3>7, <3>9, <4>1
    <3> QED BY <3>8, <3>9
  <2> QED BY <2>4, <2>5
<1> QED BY <1>1, <1>2

(* mixerAllocNewState gives a channel empty thresholds, or another state.  *)
LEMMA AllocThresholds ==
  ASSUME BoundsInv, ThreshInv, NEW n \in Nat, mixerAllocNewState(state_cnt, n),
         state_cnt' = state_cnt, t_count' = 0, unlevelled' = unlevelled,
         pc' \in {"events", "thresholds"} => info'.l \in Nat /\ info'.h \in Nat
  PROVE  ThreshInv'
<1>0. ChanInv
  BY DEF BoundsInv
<1>n. \A c \in Channels : NoLevel(c)' = NoLevel(c)
  BY DEF NoLevel
<1>1. CASE state_cnt \notin Channels
  <2>1. sbuffs' = sbuffs /\ claims' = claims
    BY <1>1 DEF mixerAllocNewState
  <2> QED BY <1>1, <1>n, <2>1 DEF ThreshInv
<1>2. CASE state_cnt \in Channels
  <2> DEFINE u == [i \in 1 .. n |-> NoThreshold]
  <2>1. /\ claims' = [claims EXCEPT ![state_cnt] = claims[state_cnt] + 1]
        /\ sbuffs' = IF sbuffs[state_cnt] = None
                     THEN [sbuffs EXCEPT ![state_cnt] = u] ELSE sbuffs
    BY <1>2 DEF mixerAllocNewState
  <2>2. Typed(u) /\ Adjacent(u, {}) /\ Unread(u, {}, 0)
    <3>1. Len(u) = n /\ \A i \in 1 .. n : u[i] = NoThreshold
      OBVIOUS
    <3>2. NoThreshold \in Thresholds /\ NoThreshold.cnt = NoDir
      BY DEF NoThreshold, Thresholds
    <3> HIDE DEF u
    <3> QED BY <3>1, <3>2 DEF Typed, Adjacent, Unread
  <2> HIDE DEF u
  <2>3. /\ claims[state_cnt] \in Nat /\ claims'[state_cnt] = claims[state_cnt] + 1
        /\ \A c \in Channels : c # state_cnt =>
              claims'[c] = claims[c] /\ sbuffs'[c] = sbuffs[c]
        /\ sbuffs[state_cnt] = None => sbuffs'[state_cnt] = u
        /\ sbuffs[state_cnt] # None => sbuffs'[state_cnt] = sbuffs[state_cnt]
    BY <1>0, <1>2, <2>1 DEF ChanInv
  <2>0. \A s, l, h : ReadLast(s, 0, l, h)
    BY DEF ReadLast
  <2> SUFFICES ASSUME NEW c \in Channels
               PROVE  /\ claims'[c] = 0 => NoLevel(c) = {}
                      /\ claims'[c] > 0 => Typed(sbuffs'[c])
                      /\ claims'[c] = 1 => Adjacent(sbuffs'[c], NoLevel(c))
                      /\ claims'[c] = 1 /\ c = state_cnt =>
                            Unread(sbuffs'[c], NoLevel(c), 0)
    BY <1>n, <2>0 DEF ThreshInv
  <2>4. CASE c # state_cnt
    BY <2>3, <2>4 DEF ThreshInv
  <2>5. CASE c = state_cnt /\ sbuffs[c] = None
    <3>1. claims'[c] # 0 /\ (claims'[c] = 1 => claims[c] = 0)
      BY <2>3, <2>5
    <3>2. claims'[c] = 1 => NoLevel(c) = {}
      BY <3>1 DEF ThreshInv
    <3> QED BY <2>2, <2>3, <2>5, <3>1, <3>2
  <2>6. CASE c = state_cnt /\ sbuffs[c] # None
    <3>1. claims[c] > 0
      BY <1>0, <1>2, <2>3, <2>6 DEF ChanInv
    <3>2. claims'[c] # 1 /\ claims'[c] # 0
      BY <2>3, <2>6, <3>1
    <3> QED BY <2>3, <2>6, <3>1, <3>2 DEF ThreshInv
  <2> QED BY <2>4, <2>5, <2>6
<1> QED BY <1>1, <1>2

(* The bound that the threshold before has, where there is one. *)
LEMMA LowerBoundTyped ==
  ASSUME BoundsInv, ThreshInv, pc \in {"state", "thresholds"},
         state_cnt \in Channels => ~noEntry(state_cnt, t_count)
  PROVE  (IF state_cnt \in Channels THEN lowerBound(state_cnt, t_count) ELSE 0) \in Nat
<1> SUFFICES ASSUME state_cnt \in Channels PROVE lowerBound(state_cnt, t_count) \in Nat
  OBVIOUS
<1>0. /\ ChanInv /\ t_count \in Nat /\ claims[state_cnt] > 0
  BY DEF BoundsInv, ReadInv, ClaimInv, Allocated
<1>1. IsSeq(sbuffs[state_cnt]) /\ Typed(sbuffs[state_cnt])
  BY <1>0 DEF ChanInv, ThreshInv
<1>2. Len(sbuffs[state_cnt]) \in Nat
  BY <1>1, SeqLen
<1>3. CASE t_count = 0
  BY <1>3 DEF lowerBound
<1>4. CASE t_count # 0
  <2>1. t_count \in 1 .. Len(sbuffs[state_cnt])
    BY <1>0, <1>2, <1>4 DEF noEntry
  <2>2. sbuffs[state_cnt][t_count] \in Thresholds
    BY <1>1, <2>1 DEF Typed
  <2> QED BY <1>4, <2>2 DEF lowerBound, Thresholds
<1> QED BY <1>3, <1>4

(* A threshold of a theme has a level or none, and a sound or none. *)
LEMMA ThemeThreshold ==
  ASSUME BoundsInv, TransInv, ThreshInv, xmlParseThreshold
  PROVE  ThreshInv'
<1> USE DEF tableVars, channelVars, themeVars, fileVars
<1> DEFINE ts == sec.states[info.st].thresholds
           t == ts[t_count + 1]
           i == translation(t.sound)
           path == IF t.sound = None THEN info.path
                   ELSE IF i = 0 THEN None ELSE trans_table[i].path
           lower == IF state_cnt \in Channels
                    THEN lowerBound(state_cnt, t_count) ELSE 0
           l == IF t.level = None THEN info.l ELSE lower
           h == IF t.level = None THEN info.h ELSE t.level
           noBound == t.level # None /\ noEntry(state_cnt, t_count)
<1>1. /\ pc = "thresholds" /\ t_count < Len(ts) /\ claims' = claims
      /\ t_count' = t_count + 1
      /\ info' = [info EXCEPT !.path = None, !.l = l, !.h = h]
      /\ unlevelled' = IF t.level = None
                       THEN unlevelled \cup {<<state_cnt, t_count + 1>>}
                       ELSE unlevelled
      /\ \/ pc' = "undefined" /\ state_cnt' = state_cnt /\ sbuffs' = sbuffs
         \/ /\ noBound \/ path = None => state_cnt \notin Channels
            /\ parserLoadStateSndDir(t_count, l, h, path)
  BY Zenon DEF xmlParseThreshold, Undefined
<1>2. /\ t_count \in Nat /\ sec \in Themes /\ info.st \in 1 .. Len(sec.states)
      /\ IsInfo(info) /\ info.l \in Nat /\ info.h \in Nat
  BY <1>1 DEF BoundsInv, ReadInv, ThreshInv
<1>3. t.level \in Maybe(Nat)
  <2> DEFINE T == [level : Maybe(Nat), sound : Maybe(SoundNames)]
             S == [name : Maybe(Names), thresholds : Seq(T)]
  <2>1. sec.states \in Seq(S)
    BY <1>2, ThemesAssumption
  <2>2. \A x \in S : x.thresholds \in Seq(T)
    OBVIOUS
  <2>3. \A x \in T : x.level \in Maybe(Nat)
    OBVIOUS
  <2> HIDE DEF S, T
  <2>4. sec.states[info.st] \in S
    BY <1>2, <2>1
  <2>5. ts \in Seq(T)
    BY <2>2, <2>4
  <2>6. Len(ts) \in Nat
    BY <2>5
  <2>7. t_count + 1 \in 1 .. Len(ts)
    <3> HIDE DEF ts
    <3> QED BY <1>1, <1>2, <2>6
  <2>8. t \in T
    BY <2>5, <2>7
  <2> QED BY <2>3, <2>8
<1>4. path # None => path \in Dirs
  <2>1. i # 0 => trans_table[i].path \in Dirs
    BY TakenType DEF TransInv, Sound
  <2> HIDE DEF i
  <2> QED BY <2>1 DEF TransInv, Maybe
<1> HIDE DEF t, path
<1>5. LevelRead(l) \/ LevelKept(l, h)
  <2>1. CASE t.level = None
    BY <1>1, <2>1 DEF LevelKept
  <2>2. CASE t.level # None
    BY <1>1, <2>2 DEF LevelRead
  <2> QED BY <2>1, <2>2
<1>6. h \in Nat
  BY <1>2, <1>3 DEF Maybe
<1>7. CASE pc' = "undefined" /\ state_cnt' = state_cnt /\ sbuffs' = sbuffs
  <2> HIDE DEF l, h
  <2> QED BY <1>1, <1>5, <1>7, SkipThreshold
<1>8. CASE /\ noBound \/ path = None => state_cnt \notin Channels
           /\ parserLoadStateSndDir(t_count, l, h, path)
  <2>1. l \in Nat
    <3>1. CASE t.level = None
      BY <1>2, <3>1
    <3>2. CASE t.level # None
      <4>1. lower \in Nat
        BY <1>1, <1>8, <3>2, LowerBoundTyped
      <4> QED BY <3>2, <4>1
    <3> QED BY <3>1, <3>2
  <2> HIDE DEF l, h, noBound
  <2>2. info'.l = l /\ info'.h = h
    BY <1>1, <1>2 DEF IsInfo
  <2>3. state_cnt \in Channels => path \in Dirs
    BY <1>4, <1>8
  <2> QED BY <1>1, <1>5, <1>6, <1>8, <2>1, <2>2, <2>3, LoadThreshold
<1> QED BY <1>1, <1>7, <1>8

LEMMA ThreshInductive ==
  BoundsInv /\ TransInv /\ ThreshInv /\ [Next]_vars => ThreshInv'
<1> SUFFICES ASSUME BoundsInv, TransInv, ThreshInv, [Next]_vars PROVE ThreshInv'
  OBVIOUS
<1> USE DEF tableVars, channelVars, themeVars, fileVars
<1>0. IsInfo(info)
  BY DEF BoundsInv, ReadInv
<1>1. CASE parserParseState
  <2>1. PICK s \in StateSections : mixerAllocNewState(state_cnt, Len(s.thresholds))
    BY <1>1 DEF parserParseState
  <2>2. Len(s.thresholds) \in Nat
    BY StateSectionsAssumption
  <2>3. /\ state_cnt' = state_cnt /\ t_count' = 0 /\ unlevelled' = unlevelled
        /\ pc' \in {"state", "undefined"}
    BY <1>1 DEF parserParseState
  <2> QED BY <2>1, <2>2, <2>3, AllocThresholds
<1>2. CASE xmlParseState
  <2>1. /\ mixerAllocNewState(state_cnt, Len(sec.states[info.st].thresholds))
        /\ pc = "events" /\ info.st <= Len(sec.states)
        /\ state_cnt' = state_cnt /\ t_count' = 0 /\ unlevelled' = unlevelled
        /\ \E n : info' = [info EXCEPT !.name = n]
    BY <1>2 DEF xmlParseState
  <2>2. sec \in Themes /\ info.st \in Nat /\ info.st >= 1
    BY <2>1 DEF BoundsInv, ReadInv
  <2>3. Len(sec.states) \in Nat
    BY <2>2, ThemeRead
  <2>4. info.st \in 1 .. Len(sec.states)
    BY <2>1, <2>2, <2>3
  <2>5. Len(sec.states[info.st].thresholds) \in Nat
    BY <2>2, <2>4, ThemeRead
  <2>6. info'.l \in Nat /\ info'.h \in Nat
    BY <1>0, <2>1 DEF ThreshInv, IsInfo
  <2> QED BY <2>1, <2>5, <2>6, AllocThresholds
<1>3. CASE parserParseThreshold
  <2> DEFINE t == sec.thresholds[t_count + 1]
             l == IF state_cnt \in Channels THEN lowerBound(state_cnt, t_count) ELSE 0
  <2>1. /\ pc = "state" /\ t_count < Len(sec.thresholds) /\ claims' = claims
        /\ t_count' = t_count + 1 /\ unlevelled' = unlevelled
        /\ pc' \in {"state", "exited", "undefined"}
    BY <1>3 DEF parserParseThreshold, Undefined, shutDown
  <2>2. t_count \in Nat /\ sec.thresholds \in Seq([level : Nat, path : Maybe(Dirs)])
    BY <2>1, StateSectionsAssumption DEF BoundsInv, ReadInv
  <2>3. t \in [level : Nat, path : Maybe(Dirs)]
    <3> DEFINE T == [level : Nat, path : Maybe(Dirs)]
    <3>1. sec.thresholds \in Seq(T)
      BY <2>2
    <3> HIDE DEF T
    <3>2. t_count + 1 \in 1 .. Len(sec.thresholds)
      BY <2>1, <2>2, <3>1
    <3>3. t \in T
      BY <3>1, <3>2
    <3> QED BY <3>3 DEF T
  <2>4. \/ UNCHANGED <<state_cnt, sbuffs>>
        \/ /\ parserLoadStateSndDir(t_count, l, t.level, t.path)
           /\ t.path # None /\ ~noEntry(state_cnt, t_count)
    BY <1>3 DEF parserParseThreshold
  <2> HIDE DEF t
  <2>5. t.level \in Nat /\ t.path \in Maybe(Dirs)
    BY <2>3
  <2>6. LevelRead(l)
    BY <2>1 DEF LevelRead
  <2>7. CASE UNCHANGED <<state_cnt, sbuffs>>
    BY <2>1, <2>6, <2>7, SkipThreshold
  <2>8. CASE /\ parserLoadStateSndDir(t_count, l, t.level, t.path)
             /\ t.path # None /\ ~noEntry(state_cnt, t_count)
    <3>1. l \in Nat
      BY <2>1, <2>8, LowerBoundTyped
    <3>2. t.path \in Dirs
      BY <2>5, <2>8 DEF Maybe
    <3> HIDE DEF l
    <3> QED BY <2>1, <2>5, <2>6, <2>8, <3>1, <3>2, LoadThreshold
  <2> QED BY <2>4, <2>7, <2>8
<1>4. CASE xmlParseThreshold
  BY <1>4, ThemeThreshold
<1>5. CASE \/ parserParseGeneral \/ parserImportConfig \/ endOfFile
           \/ parserParseEvent \/ endOfState \/ xmlParseFirstPass
           \/ xmlParseEvent \/ xmlEndOfState \/ xmlEndOfTheme
           \/ \E n \in Names : engineSoundTableRetrieve(n)
  <2>1. sbuffs' = sbuffs /\ claims' = claims /\ unlevelled' = unlevelled
    BY <1>5 DEF parserParseGeneral, parserImportConfig, endOfFile, parserParseEvent,
                endOfState, xmlParseFirstPass, xmlParseEvent, xmlEndOfState,
                xmlEndOfTheme, engineSoundTableRetrieve
  <2>2. pc' \notin {"state", "thresholds"}
    BY <1>5 DEF parserParseGeneral, parserImportConfig, endOfFile, parserParseEvent,
                endOfState, xmlParseFirstPass, xmlParseEvent, xmlEndOfState,
                xmlEndOfTheme, engineSoundTableRetrieve, nextSection, shutDown, Undefined
  <2>3. \A c \in Channels : NoLevel(c)' = NoLevel(c)
    BY <2>1 DEF NoLevel
  <2>4. pc' = "events" => info'.l \in Nat /\ info'.h \in Nat
    <3>1. CASE xmlParseFirstPass
      <4>1. pc' = "events" => info' = NoInfo
        BY <3>1 DEF xmlParseFirstPass, shutDown, Undefined
      <4> QED BY <4>1 DEF NoInfo
    <3>2. CASE xmlParseEvent
      <4>1. /\ pc = "events"
            /\ \E v, n, x : info' = [info EXCEPT !.ev = v, !.name = n, !.path = x]
        BY <3>2 DEF xmlParseEvent
      <4> QED BY <1>0, <4>1 DEF ThreshInv, IsInfo
    <3>4. CASE xmlEndOfState
      BY <1>0, <3>4 DEF xmlEndOfState, ThreshInv, IsInfo
    <3>3. CASE \/ parserParseGeneral \/ parserImportConfig \/ endOfFile
               \/ parserParseEvent \/ endOfState \/ xmlEndOfTheme
               \/ \E n \in Names : engineSoundTableRetrieve(n)
      BY <3>3 DEF parserParseGeneral, parserImportConfig, endOfFile, parserParseEvent,
                  endOfState, xmlEndOfTheme, engineSoundTableRetrieve, nextSection,
                  shutDown, Undefined
    <3> QED BY <1>5, <3>1, <3>2, <3>3, <3>4
  <2> QED BY <2>1, <2>2, <2>3, <2>4 DEF ThreshInv
<1>6. CASE retrieved \/ UNCHANGED vars
  <2>1. UNCHANGED <<sbuffs, claims, unlevelled, state_cnt, t_count, pc, info>>
    BY <1>6 DEF retrieved, vars
  <2>2. \A c \in Channels : NoLevel(c)' = NoLevel(c)
    BY <2>1 DEF NoLevel
  <2> QED BY <2>1, <2>2 DEF ThreshInv
<1> QED BY <1>1, <1>2, <1>3, <1>4, <1>5, <1>6 DEF Next

(* All of it.                                                              *)
LoadInv == BoundsInv /\ FileInv /\ HashInv /\ TransInv /\ ThreshInv

LEMMA AlwaysLoadInv == Spec => []LoadInv
<1>1. Init => LoadInv
  <2> SUFFICES ASSUME Init PROVE LoadInv
    OBVIOUS
  <2>1. BoundsInv
    BY BoundsInit
  <2>2. FileInv
    BY BoundsAssumption DEF Init, FileInv, Maybe
  <2>3. HashInv
    <3>1. \A h \in DOMAIN sound_table : Len(sound_table[h]) = 0
      BY DEF Init
    <3> QED BY <3>1 DEF HashInv
  <2>4. TransInv
    BY DEF Init, TransInv, NoInfo, Maybe
  <2>5. ThreshInv
    BY DEF Init, ThreshInv, NoLevel
  <2> QED BY <2>1, <2>2, <2>3, <2>4, <2>5 DEF LoadInv
<1>2. LoadInv /\ [Next]_vars => LoadInv'
  BY BoundsInductive, FileInductive, HashInductive, TransInductive, ThreshInductive
     DEF LoadInv, BoundsInv
<1> QED BY <1>1, <1>2, PTL DEF Spec

(* Type correctness of the parser, the sound table and the channels: every *)
(* entry is in the list of its hash, every threshold has its bounds and    *)
(* counts, and the engine looks sounds up only after the last import.      *)
THEOREM TypeCorrect == Spec => []TypeOK
<1>1. LoadInv => TypeOK
  <2> SUFFICES ASSUME LoadInv PROVE TypeOK
    OBVIOUS
  <2>1. FileInv
    BY DEF LoadInv
  <2>2. state_cnt \in Nat
    BY DEF LoadInv, BoundsInv, TableInv
  <2>3. \A h \in DOMAIN sound_table : \A i \in 1 .. Len(sound_table[h]) :
           /\ Hash[sound_table[h][i].name] = h
           /\ sound_table[h][i].type = "STATE_T"
              => sound_table[h][i].mixer_index \in Nat
    BY DEF LoadInv, BoundsInv, TableInv, HashInv
  <2>4. ASSUME NEW c \in Channels, sbuffs[c] # None
        PROVE  \A i \in 1 .. Len(sbuffs[c]) : sbuffs[c][i] \in Thresholds
    <3>1. claims[c] \in Nat /\ claims[c] # 0
      BY <2>4 DEF LoadInv, BoundsInv, ChanInv
    <3>2. claims[c] > 0
      BY <3>1
    <3> QED BY <3>2 DEF LoadInv, ThreshInv, Typed
  <2> QED BY <2>1, <2>2, <2>3, <2>4 DEF TypeOK, FileInv
<1> QED BY AlwaysLoadInv, <1>1, PTL

(* The bounds that parserLoadStateSndDir gives to the thresholds of a      *)
(* channel with one state lie side by side, for any sections and themes,   *)
(* also when a directory in between cannot be opened; where a theme gives  *)
(* no level, the bounds are those of the threshold before.                 *)
THEOREM BoundsAreAdjacent == Spec => []AdjacentBounds
<1>1. LoadInv => AdjacentBounds
  <2> SUFFICES ASSUME LoadInv, NEW c \in Channels, claims[c] = 1,
                      NEW i \in 1 .. Len(sbuffs[c]), sbuffs[c][i].cnt # NoDir
               PROVE  IF <<c, i>> \in unlevelled
                      THEN Repeats(sbuffs[c], i) ELSE Adjoins(sbuffs[c], i)
    BY DEF AdjacentBounds, Repeats, Adjoins
  <2>1. Adjacent(sbuffs[c], NoLevel(c))
    BY DEF LoadInv, ThreshInv
  <2>2. i \in NoLevel(c) <=> <<c, i>> \in unlevelled
    BY DEF NoLevel
  <2> QED BY <2>1, <2>2 DEF Adjacent
<1> QED BY AlwaysLoadInv, <1>1, PTL

(* A name that is inserted again gets into its list only right behind the  *)
(* last entry, if that is the first of its name.                           *)
TwoAtMost(s) ==
    \A i, j \in 1 .. Len(s) : i < j /\ s[i].name = s[j].name => j = i + 1

LEMMA InsertDuplicates ==
  ASSUME NEW t, IsTable(t), \A h \in DOMAIN t : TwoAtMost(t[h]), NEW e,
         NEW u, u = engineSoundTableInsert(t, e), NEW h \in DOMAIN u
  PROVE  TwoAtMost(u[h])
<1> DEFINE k == Hash[e.name]
<1>1. \/ u = t
      \/ /\ u = [t EXCEPT ![k] = Append(t[k], e)]
         /\ \A i \in 1 .. Len(t[k]) - 1 : t[k][i].name # e.name
  BY DEF engineSoundTableInsert
<1>2. CASE u = t
  BY <1>2
<1>3. CASE /\ u = [t EXCEPT ![k] = Append(t[k], e)]
           /\ \A i \in 1 .. Len(t[k]) - 1 : t[k][i].name # e.name
  <2>1. h \in DOMAIN t /\ u[h] = IF h = k THEN Append(t[k], e) ELSE t[h]
    BY <1>3 DEF IsTable
  <2>2. CASE h # k
    BY <2>1, <2>2
  <2>3. CASE h = k
    <3>1. PICK s : s = t[k] /\ IsSeq(s) /\ TwoAtMost(s)
      BY <2>1, <2>3 DEF IsTable
    <3>2. PICK n \in Nat : n = Len(s)
      BY <3>1, SeqLen
    <3>3. PICK v : v = Append(s, e)
      OBVIOUS
    <3>4. /\ Len(v) = n + 1 /\ v[n + 1] = e
          /\ \A i \in 1 .. n : v[i] = s[i]
      BY <3>1, <3>2, <3>3, AppendAny
    <3> SUFFICES ASSUME NEW i \in 1 .. n + 1, NEW j \in 1 .. n + 1,
                        i < j, v[i].name = v[j].name
                 PROVE  j = i + 1
      BY <2>1, <2>3, <3>1, <3>3, <3>4 DEF TwoAtMost
    <3>5. i \in 1 .. n /\ v[i] = s[i]
      BY <3>4
    <3>6. CASE j = n + 1
      <4>1. s[i].name = e.name
        BY <3>4, <3>5, <3>6
      <4>2. i \notin 1 .. n - 1
        BY <1>3, <3>1, <3>2, <4>1
      <4> QED BY <3>5, <3>6, <4>2
    <3>7. CASE j # n + 1
      <4>1. j \in 1 .. n /\ v[j] = s[j]
        BY <3>4, <3>7
      <4> QED BY <3>1, <3>2, <3>5, <4>1 DEF TwoAtMost
    <3> QED BY <3>6, <3>7
  <2> QED BY <2>2, <2>3
<1> QED BY <1>1, <1>2, <1>3

(* However often a name is entered, by sections, imported files and        *)
(* themes, its list keeps at most two entries for it, the second right     *)
(* behind the first.                                                       *)
THEOREM DuplicatesStayAdjacent == Spec => []DuplicatesAdjacent
<1> DEFINE DupInv == TableInv /\ \A h \in DOMAIN sound_table : TwoAtMost(sound_table[h])
<1>1. Init => DupInv
  <2> SUFFICES ASSUME Init PROVE DupInv
    OBVIOUS
  <2>1. \A h \in DOMAIN sound_table : Len(sound_table[h]) = 0
    BY DEF Init
  <2> QED BY <2>1, TableInit DEF TwoAtMost
<1>2. DupInv /\ [Next]_vars => DupInv'
  <2> SUFFICES ASSUME DupInv, [Next]_vars PROVE DupInv'
    OBVIOUS
  <2>1. TableInv'
    BY TableInductive
  <2>2. sound_table' = sound_table
        \/ \E e : sound_table' = engineSoundTableInsert(sound_table, e)
    BY TableStep DEF NoEntryAdded, EventAdded, StateAdded
  <2>3. CASE sound_table' = sound_table
    BY <2>1, <2>3
  <2>4. ASSUME NEW e, sound_table' = engineSoundTableInsert(sound_table, e)
        PROVE  DupInv'
    <3>1. IsTable(sound_table)
      BY DEF TableInv
    <3>2. \A h \in DOMAIN sound_table' : TwoAtMost(sound_table'[h])
      BY <2>4, <3>1, InsertDuplicates
    <3> QED BY <2>1, <3>2
  <2> QED BY <2>2, <2>3, <2>4
<1>3. DupInv => DuplicatesAdjacent
  BY DEF DuplicatesAdjacent, TwoAtMost
<1> QED BY <1>1, <1>2, <1>3, PTL DEF Spec

-----------------------------------------------------------------------------
(* The events of a theme. *)

(* The names in a table, and that an insertion keeps them and adds one.    *)
Named(t, n) == \E h \in DOMAIN t : \E i \in 1 .. Len(t[h]) : t[h][i].name = n

LEMMA InsertNames ==
  ASSUME NEW t, IsTable(t), NEW e
  PROVE  LET u == engineSoundTableInsert(t, e)
         IN  /\ DOMAIN u = DOMAIN t
             /\ \A n : Named(t, n) => Named(u, n)
             /\ Hash[e.name] \in DOMAIN t => Named(u, e.name)
<1> DEFINE k == Hash[e.name]
<1>0. SUFFICES ASSUME NEW u, u = engineSoundTableInsert(t, e)
               PROVE  /\ DOMAIN u = DOMAIN t
                      /\ \A n : Named(t, n) => Named(u, n)
                      /\ k \in DOMAIN t => Named(u, e.name)
  OBVIOUS
<1>1. \/ u = t /\ \E i \in 1 .. Len(t[k]) - 1 : t[k][i].name = e.name
      \/ u = [t EXCEPT ![k] = Append(t[k], e)]
  BY <1>0 DEF engineSoundTableInsert
<1>2. CASE u = t /\ \E i \in 1 .. Len(t[k]) - 1 : t[k][i].name = e.name
  <2>1. k \in DOMAIN t => Named(u, e.name)
    <3> SUFFICES ASSUME k \in DOMAIN t PROVE Named(u, e.name)
      OBVIOUS
    <3>1. Len(t[k]) \in Nat
      BY SeqLen DEF IsTable
    <3>2. \A i \in 1 .. Len(t[k]) - 1 : i \in 1 .. Len(t[k])
      BY <3>1
    <3> QED BY <1>2, <3>2 DEF Named
  <2> QED BY <1>2, <2>1
<1>3. CASE u = [t EXCEPT ![k] = Append(t[k], e)]
  <2>1. DOMAIN u = DOMAIN t /\ \A h \in DOMAIN t : h # k => u[h] = t[h]
    BY <1>3 DEF IsTable
  <2>2. ASSUME k \in DOMAIN t
        PROVE  /\ Len(t[k]) \in Nat /\ Len(u[k]) = Len(t[k]) + 1
               /\ \A i \in 1 .. Len(t[k]) : u[k][i] = t[k][i]
               /\ u[k][Len(t[k]) + 1] = e
    <3>1. u[k] = Append(t[k], e) /\ IsSeq(t[k])
      BY <1>3, <2>2 DEF IsTable
    <3> QED BY <3>1, AppendAny, SeqLen
  <2>3. ASSUME NEW n, Named(t, n) PROVE Named(u, n)
    <3>1. PICK h \in DOMAIN t : \E i \in 1 .. Len(t[h]) : t[h][i].name = n
      BY <2>3 DEF Named
    <3>2. PICK i \in 1 .. Len(t[h]) : t[h][i].name = n
      BY <3>1
    <3>3. i \in 1 .. Len(u[h]) /\ u[h][i] = t[h][i]
      <4>1. CASE h # k
        BY <2>1, <4>1
      <4>2. CASE h = k
        BY <2>2, <4>2
      <4> QED BY <4>1, <4>2
    <3> QED BY <2>1, <3>2, <3>3 DEF Named
  <2>4. ASSUME k \in DOMAIN t PROVE Named(u, e.name)
    <3>1. Len(t[k]) + 1 \in 1 .. Len(u[k])
      BY <2>2, <2>4
    <3> QED BY <2>1, <2>2, <2>4, <3>1 DEF Named
  <2> QED BY <2>1, <2>3, <2>4
<1> QED BY <1>1, <1>2, <1>3

Slots == {Hash[n] : n \in Names}
LEMMA NamesKept ==
  ASSUME TableInv, DOMAIN sound_table = Slots, [Next]_vars
  PROVE  /\ DOMAIN sound_table' = Slots
         /\ \A n : Named(sound_table, n) => Named(sound_table', n)
<1>1. sound_table' = sound_table
      \/ \E e : sound_table' = engineSoundTableInsert(sound_table, e)
  BY TableStep DEF NoEntryAdded, EventAdded, StateAdded
<1>2. CASE sound_table' = sound_table
  BY <1>2
<1>3. ASSUME NEW e, sound_table' = engineSoundTableInsert(sound_table, e)
      PROVE  /\ DOMAIN sound_table' = Slots
             /\ \A n : Named(sound_table, n) => Named(sound_table', n)
  <2>1. /\ DOMAIN engineSoundTableInsert(sound_table, e) = DOMAIN sound_table
        /\ \A n : Named(sound_table, n) => Named(engineSoundTableInsert(sound_table, e), n)
    BY InsertNames DEF TableInv
  <2> QED BY <1>3, <2>1
<1> QED BY <1>1, <1>2, <1>3

(* As long as no event has used the head of the list, it is the sound that *)
(* was declared last, and the list holds every sound that was not used.    *)
(* Each event read so far that ThemeEventsLoaded speaks of is in the table.*)
Used(t, n) == {t.events[j].sound : j \in 1 .. n}
Due(t, i) ==
    LET e == t.events[i]
    IN  /\ e.name # None
        /\ \E s \in ToSet(t.sounds) : s.name = e.sound
        /\ \A s \in ToSet(t.sounds) : s.name = e.sound => loadable(s.path)
        /\ e.sound \notin Used(t, i - 1)
        /\ Last(t.sounds).name \notin Used(t, i - 1)
Listed(t, n, l) ==
    t.sounds # <<>> /\ Last(t.sounds).name \notin Used(t, n) =>
        /\ l # <<>> /\ l[1] = Last(t.sounds)
        /\ \A k \in 1 .. Len(t.sounds) : t.sounds[k].name \notin Used(t, n) =>
              \E j \in 1 .. Len(l) : l[j] = t.sounds[k]
        /\ \A j \in 1 .. Len(l) : \E k \in 1 .. Len(t.sounds) : l[j] = t.sounds[k]
ThemeInv ==
    /\ DOMAIN sound_table = Slots
    /\ pc \in {"events", "thresholds"} =>
         /\ info.ev \in Nat /\ info.ev >= 1
         /\ \A i \in 1 .. Len(sec.events) :
               i < info.ev /\ Due(sec, i) => Named(sound_table, sec.events[i].name)
         /\ pc = "thresholds" => info.ev > Len(sec.events)
         /\ pc = "events" /\ info.ev <= Len(sec.events) =>
               Listed(sec, info.ev - 1, trans_table)

LEMMA ThemeTyped ==
  ASSUME NEW t \in Themes
  PROVE  /\ t.sounds \in Seq(Sound) /\ Len(t.sounds) \in Nat /\ Len(t.events) \in Nat
         /\ \A k \in 1 .. Len(t.sounds) : t.sounds[k] \in Sound
         /\ \A n \in 1 .. Len(t.events) : t.events[n].name \in Maybe(Names)
         /\ \A s \in Sound : s.name \in SoundNames
         /\ t.sounds # <<>> => /\ Len(t.sounds) \in 1 .. Len(t.sounds)
                               /\ Last(t.sounds) = t.sounds[Len(t.sounds)]
<1> DEFINE E == [name : Maybe(Names), sound : Maybe(SoundNames)]
<1>1. t.sounds \in Seq(Sound) /\ t.events \in Seq(E)
  BY ThemesAssumption DEF Sound
<1>2. (\A s \in Sound : s.name \in SoundNames) /\ \A e \in E : e.name \in Maybe(Names)
  BY DEF Sound
<1> HIDE DEF E
<1>3. /\ Len(t.sounds) \in Nat /\ Len(t.events) \in Nat
      /\ \A k \in 1 .. Len(t.sounds) : t.sounds[k] \in Sound
      /\ \A n \in 1 .. Len(t.events) : t.events[n] \in E
      /\ t.sounds # <<>> => Len(t.sounds) \in 1 .. Len(t.sounds)
  BY <1>1
<1> QED BY <1>1, <1>2, <1>3 DEF Last

LEMMA UsedNext ==
  ASSUME NEW t, NEW n \in Nat, n >= 1
  PROVE  Used(t, n) = Used(t, n - 1) \cup {t.events[n].sound}
<1>1. 1 .. n = (1 .. n - 1) \cup {n}
  OBVIOUS
<1> DEFINE f(j) == t.events[j].sound
<1>2. Used(t, n) = {f(j) : j \in (1 .. n - 1) \cup {n}} /\ Used(t, n - 1) = {f(j) : j \in 1 .. n - 1}
  BY <1>1 DEF Used
<1> HIDE DEF f
<1>3. {f(j) : j \in (1 .. n - 1) \cup {n}} = {f(j) : j \in 1 .. n - 1} \cup {f(n)}
  OBVIOUS
<1> QED BY <1>2, <1>3 DEF f

(* The list that the first pass makes.                                     *)
LEMMA ListedFirst ==
  ASSUME NEW t \in Themes
  PROVE  Listed(t, 0, inFrontOf(t.sounds, <<>>))
<1> DEFINE l == inFrontOf(t.sounds, <<>>)
<1>1. /\ t.sounds \in Seq(Sound) /\ Len(t.sounds) \in Nat
      /\ t.sounds # <<>> => /\ Len(t.sounds) \in 1 .. Len(t.sounds)
                            /\ Last(t.sounds) = t.sounds[Len(t.sounds)]
  BY ThemeTyped
<1>2. l \in Seq(Sound) /\ Len(l) = Len(t.sounds)
      /\ \A i \in 1 .. Len(t.sounds) : l[i] = t.sounds[Len(t.sounds) - i + 1]
  BY <1>1, PutInFront
<1> HIDE DEF l
<1>3. \A i \in 1 .. Len(t.sounds) : /\ Len(t.sounds) - i + 1 \in 1 .. Len(t.sounds)
                                   /\ Len(t.sounds) - (Len(t.sounds) - i + 1) + 1 = i
  BY <1>1
<1>4. ASSUME t.sounds # <<>> PROVE l # <<>> /\ l[1] = Last(t.sounds)
  <2>1. 1 \in 1 .. Len(t.sounds) /\ Len(t.sounds) - 1 + 1 = Len(t.sounds) /\ Len(l) > 0
    BY <1>1, <1>2, <1>4
  <2> QED BY <1>1, <1>2, <1>4, <2>1
<1>5. \A k \in 1 .. Len(t.sounds) : \E j \in 1 .. Len(l) : l[j] = t.sounds[k]
  BY <1>2, <1>3
<1>6. \A j \in 1 .. Len(l) : \E k \in 1 .. Len(t.sounds) : l[j] = t.sounds[k]
  BY <1>2, <1>3
<1> QED BY <1>4, <1>5, <1>6 DEF Listed, l

(* The list behind the lookup of an event.                                 *)
LEMMA ListedNext ==
  ASSUME trans_table \in Seq(Sound), NEW t \in Themes, NEW n \in Nat, n >= 1,
         Listed(t, n - 1, trans_table)
  PROVE  LET i == translation(t.events[n].sound)
         IN  Listed(t, n, IF i = 0 THEN trans_table ELSE withoutEntry(i))
<1> DEFINE i == translation(t.events[n].sound)
           l == IF i = 0 THEN trans_table ELSE withoutEntry(i)
<1> SUFFICES ASSUME t.sounds # <<>>, Last(t.sounds).name \notin Used(t, n)
             PROVE  /\ l # <<>> /\ l[1] = Last(t.sounds)
                    /\ \A k \in 1 .. Len(t.sounds) : t.sounds[k].name \notin Used(t, n) =>
                          \E j \in 1 .. Len(l) : l[j] = t.sounds[k]
                    /\ \A j \in 1 .. Len(l) :
                          \E k \in 1 .. Len(t.sounds) : l[j] = t.sounds[k]
  BY DEF Listed
<1>1. Used(t, n) = Used(t, n - 1) \cup {t.events[n].sound}
  BY UsedNext
<1>2. /\ trans_table # <<>> /\ trans_table[1] = Last(t.sounds)
      /\ \A k \in 1 .. Len(t.sounds) : t.sounds[k].name \notin Used(t, n - 1) =>
            \E j \in 1 .. Len(trans_table) : trans_table[j] = t.sounds[k]
      /\ \A j \in 1 .. Len(trans_table) :
            \E k \in 1 .. Len(t.sounds) : trans_table[j] = t.sounds[k]
  BY <1>1 DEF Listed
<1>3. \/ i = 0
      \/ i \in 1 .. Len(trans_table) /\ trans_table[i].name = t.events[n].sound
  BY LookupFinds
<1> HIDE DEF i
<1>4. CASE i = 0
  BY <1>1, <1>2, <1>4
<1>5. CASE i \in 1 .. Len(trans_table) /\ trans_table[i].name = t.events[n].sound
  <2>1. i # 1
    BY <1>1, <1>2, <1>5
  <2> DEFINE r == RemoveAt(trans_table, i)
  <2>2. /\ r # <<>> /\ r[1] = trans_table[1]
        /\ \A k \in 1 .. Len(trans_table) : k # i =>
              \E j \in 1 .. Len(r) : r[j] = trans_table[k]
        /\ \A j \in 1 .. Len(r) : \E k \in 1 .. Len(trans_table) : r[j] = trans_table[k]
    BY <1>5, <2>1, EntryTaken
  <2>3. l = r
    BY <1>5, <2>1 DEF withoutEntry
  <2> HIDE DEF r, l
  <2>4. ASSUME NEW k \in 1 .. Len(t.sounds), t.sounds[k].name \notin Used(t, n)
        PROVE  \E j \in 1 .. Len(r) : r[j] = t.sounds[k]
    <3>1. PICK j \in 1 .. Len(trans_table) : trans_table[j] = t.sounds[k]
      BY <1>1, <1>2, <2>4
    <3>2. j # i
      BY <1>1, <1>5, <2>4, <3>1
    <3> QED BY <2>2, <3>1, <3>2
  <2> QED BY <1>2, <2>2, <2>3, <2>4
<1> QED BY <1>3, <1>4, <1>5

(* An event that ThemeEventsLoaded speaks of finds its directory.          *)
LEMMA DueFound ==
  ASSUME trans_table \in Seq(Sound), NEW t \in Themes, NEW n \in 1 .. Len(t.events),
         Listed(t, n - 1, trans_table), Due(t, n)
  PROVE  LET e == t.events[n]
             i == translation(e.sound)
         IN  /\ e.sound # None /\ i # 0 /\ e.name \in Names /\ e.name # None
             /\ loadable(trans_table[i].path)
<1> DEFINE e == t.events[n]
           i == translation(e.sound)
<1>1. /\ e.name # None /\ e.sound \notin Used(t, n - 1)
      /\ Last(t.sounds).name \notin Used(t, n - 1)
      /\ \E k \in DOMAIN t.sounds : t.sounds[k].name = e.sound
      /\ \A k \in DOMAIN t.sounds : t.sounds[k].name = e.sound => loadable(t.sounds[k].path)
  BY DEF Due, ToSet
<1>2. /\ t.sounds \in Seq(Sound)
      /\ \A k \in 1 .. Len(t.sounds) : t.sounds[k].name \in SoundNames
      /\ e.name \in Maybe(Names)
  BY ThemeTyped
<1>3. DOMAIN t.sounds = 1 .. Len(t.sounds)
  BY <1>2
<1>4. PICK k \in 1 .. Len(t.sounds) : t.sounds[k].name = e.sound
  BY <1>1, <1>3
<1>5. t.sounds # <<>>
  BY <1>2
<1>6. /\ \A m \in 1 .. Len(t.sounds) : t.sounds[m].name \notin Used(t, n - 1) =>
            \E j \in 1 .. Len(trans_table) : trans_table[j] = t.sounds[m]
      /\ \A j \in 1 .. Len(trans_table) :
            \E m \in 1 .. Len(t.sounds) : trans_table[j] = t.sounds[m]
  BY <1>1, <1>5 DEF Listed
<1>7. PICK j \in 1 .. Len(trans_table) : trans_table[j] = t.sounds[k]
  BY <1>1, <1>4, <1>6
<1>8. i \in 1 .. Len(trans_table) /\ trans_table[i].name = e.sound
  BY <1>4, <1>7, LookupFinds
<1> HIDE DEF i
<1>9. loadable(trans_table[i].path)
  <2>1. PICK m \in 1 .. Len(t.sounds) : trans_table[i] = t.sounds[m]
    BY <1>6, <1>8
  <2> QED BY <1>1, <1>3, <1>8, <2>1
<1>10. e.sound # None
  BY <1>2, <1>4, NoneAssumption
<1>11. e.name \in Names
  BY <1>1, <1>2 DEF Maybe
<1>12. i # 0
  BY <1>8
<1> QED BY <1>1, <1>9, <1>10, <1>11, <1>12 DEF i

(* One event of a theme.                                                   *)
LEMMA ThemeEventStep ==
  ASSUME TableInv, ReadInv, TransInv, ThemeInv, xmlParseEvent,
         \A n : Named(sound_table, n) => Named(sound_table', n)
  PROVE  /\ pc' = "events" /\ info'.ev \in Nat /\ info'.ev >= 1
         /\ \A i \in 1 .. Len(sec.events) :
               i < info'.ev /\ Due(sec, i) => Named(sound_table', sec.events[i].name)
         /\ Listed(sec, info'.ev - 1, trans_table')
<1> DEFINE n == info.ev
           e == sec.events[n]
           i == translation(e.sound)
<1>1. /\ pc = "events" /\ pc' = "events" /\ n <= Len(sec.events)
      /\ trans_table' = IF i = 0 THEN trans_table ELSE withoutEntry(i)
  BY DEF xmlParseEvent
<1>2. n \in Nat /\ n >= 1 /\ sec \in Themes /\ trans_table \in Seq(Sound)
      /\ Listed(sec, n - 1, trans_table)
      /\ \A k \in 1 .. Len(sec.events) :
            k < n /\ Due(sec, k) => Named(sound_table, sec.events[k].name)
  BY <1>1 DEF ThemeInv, ReadInv, TransInv
<1>3. Len(sec.events) \in Nat
  BY <1>2, ThemeTyped
<1>4. info'.ev = n + 1
  <2>1. IsInfo(info)
    BY DEF ReadInv
  <2>2. \E a, b : info' = [info EXCEPT !.ev = n + 1, !.name = a, !.path = b]
    BY DEF xmlParseEvent
  <2>3. PICK a, b : info' = [info EXCEPT !.ev = n + 1, !.name = a, !.path = b]
    BY <2>2
  <2> QED BY <2>1, <2>3 DEF IsInfo
<1>5. ASSUME Due(sec, n) PROVE Named(sound_table', e.name)
  <2> DEFINE path == trans_table[i].path
             f == [name |-> e.name, type |-> "EVENT_T", cnt |-> Files[path],
                   got |-> loaded(path), mixer_index |-> None]
  <2>0. n \in 1 .. Len(sec.events)
    BY <1>1, <1>2, <1>3
  <2>1. /\ e.sound # None /\ i # 0 /\ e.name \in Names /\ e.name # None
        /\ loadable(path)
    BY <1>2, <1>5, <2>0, DueFound
  <2>2. path # None
    BY <2>1 DEF loadable
  <2>3. parserLoadEventSndDir(e.name, path)
    <3> HIDE DEF n, i, path
    <3> QED BY <2>1, <2>2 DEF xmlParseEvent, n, i, path
  <2>4. sound_table' = engineSoundTableInsert(sound_table, f)
    BY <2>1, <2>3 DEF parserLoadEventSndDir
  <2>5. f.name = e.name /\ Hash[f.name] \in DOMAIN sound_table
    BY <2>1 DEF ThemeInv, Slots
  <2> HIDE DEF f
  <2>6. Named(engineSoundTableInsert(sound_table, f), f.name)
    BY <2>5, InsertNames DEF TableInv
  <2> QED BY <2>4, <2>5, <2>6
<1>6. Listed(sec, n, trans_table')
  BY <1>1, <1>2, ListedNext
<1>7. ASSUME NEW k \in 1 .. Len(sec.events), k < info'.ev, Due(sec, k)
      PROVE  Named(sound_table', sec.events[k].name)
  <2>1. CASE k < n
    BY <1>2, <1>7, <2>1
  <2>2. CASE k = n
    BY <1>5, <1>7, <2>2
  <2> HIDE DEF n
  <2>3. k < n \/ k = n
    BY <1>2, <1>4, <1>7
  <2> QED BY <2>1, <2>2, <2>3
<1> HIDE DEF n
<1>8. info'.ev \in Nat /\ info'.ev >= 1 /\ info'.ev - 1 = n
  BY <1>2, <1>4
<1> QED BY <1>1, <1>6, <1>7, <1>8

LEMMA ThemeInductive ==
  TableInv /\ ReadInv /\ FileInv /\ TransInv /\ ThemeInv /\ [Next]_vars => ThemeInv'
<1> SUFFICES ASSUME TableInv, ReadInv, FileInv, TransInv, ThemeInv, [Next]_vars
             PROVE  ThemeInv'
  OBVIOUS
<1> USE DEF themeVars, shutDown, Undefined
<1>n. /\ DOMAIN sound_table' = Slots
      /\ \A n : Named(sound_table, n) => Named(sound_table', n)
  BY NamesKept DEF ThemeInv
<1>1. CASE xmlParseFirstPass
  <2>1. CASE pc' = "events"
    <3>1. PICK t \in Themes : /\ sec' = t /\ info' = NoInfo
                              /\ trans_table' = inFrontOf(t.sounds, trans_table)
      BY <1>1, <2>1 DEF xmlParseFirstPass
    <3>2. trans_table = <<>>
      BY <1>1 DEF xmlParseFirstPass, nextSection, TransInv
    <3>3. Listed(t, 0, inFrontOf(t.sounds, <<>>))
      BY ListedFirst
    <3>4. Listed(sec', 0, trans_table')
      BY <3>1, <3>2, <3>3
    <3>5. info'.ev = 1
      BY <3>1 DEF NoInfo
    <3>6. info'.ev \in Nat /\ info'.ev >= 1 /\ info'.ev - 1 = 0
          /\ \A i \in 1 .. Len(sec'.events) : ~(i < info'.ev)
      BY <3>5
    <3> QED BY <1>n, <2>1, <3>4, <3>6 DEF ThemeInv
  <2>2. CASE pc' \notin {"events", "thresholds"}
    BY <1>n, <2>2 DEF ThemeInv
  <2>3. pc' \in {"events", "exited", "undefined"}
    BY <1>1 DEF xmlParseFirstPass
  <2> QED BY <2>1, <2>2, <2>3
<1>2. CASE xmlParseEvent
  <2>1. sec' = sec
    BY <1>2 DEF xmlParseEvent
  <2>2. /\ pc' = "events" /\ info'.ev \in Nat /\ info'.ev >= 1
        /\ \A i \in 1 .. Len(sec.events) :
              i < info'.ev /\ Due(sec, i) => Named(sound_table', sec.events[i].name)
        /\ Listed(sec, info'.ev - 1, trans_table')
    BY <1>2, <1>n, ThemeEventStep
  <2> QED BY <1>n, <2>1, <2>2 DEF ThemeInv
<1>3. CASE xmlParseState \/ xmlParseThreshold \/ xmlEndOfState
  <2>1. sec' = sec /\ pc \in {"events", "thresholds"}
    BY <1>3 DEF xmlParseState, xmlParseThreshold, xmlEndOfState
  <2>2. info'.ev = info.ev
    <3>1. IsInfo(info)
      BY DEF ReadInv
    <3>2. CASE xmlParseState
      BY <3>1, <3>2 DEF xmlParseState, IsInfo
    <3>3. CASE xmlParseThreshold
      <4>1. \E l, h : info' = [info EXCEPT !.path = None, !.l = l, !.h = h]
        BY <3>3, Zenon DEF xmlParseThreshold
      <4> QED BY <3>1, <4>1 DEF IsInfo
    <3>4. CASE xmlEndOfState
      BY <3>1, <3>4 DEF xmlEndOfState, IsInfo
    <3> QED BY <1>3, <3>2, <3>3, <3>4
  <2>3. info.ev > Len(sec.events)
    BY <1>3 DEF xmlParseState, xmlParseThreshold, xmlEndOfState, ThemeInv
  <2>4. /\ info.ev \in Nat /\ info.ev >= 1
        /\ \A i \in 1 .. Len(sec.events) :
              i < info.ev /\ Due(sec, i) => Named(sound_table', sec.events[i].name)
    BY <1>n, <2>1 DEF ThemeInv
  <2>5. Len(sec.events) \in Nat
    BY <2>1, ThemeTyped DEF ReadInv
  <2>6. ~(info.ev <= Len(sec.events))
    BY <2>3, <2>4, <2>5
  <2> QED BY <1>n, <2>1, <2>2, <2>3, <2>4, <2>6 DEF ThemeInv
<1>4. CASE \/ parserParseGeneral \/ parserImportConfig \/ endOfFile
           \/ parserParseEvent \/ parserParseState \/ parserParseThreshold
           \/ endOfState \/ xmlEndOfTheme
           \/ (\E n \in Names : engineSoundTableRetrieve(n)) \/ retrieved
  <2>1. pc' \notin {"events", "thresholds"}
    <3>1. CASE parserParseGeneral \/ parserImportConfig \/ endOfFile
      BY <3>1 DEF parserParseGeneral, parserImportConfig, endOfFile, nextSection
    <3>2. CASE parserParseEvent \/ parserParseState
      BY <3>2 DEF parserParseEvent, parserParseState, nextSection
    <3>3. CASE parserParseThreshold
      BY <3>3 DEF parserParseThreshold
    <3>4. CASE endOfState \/ xmlEndOfTheme
      BY <3>4 DEF endOfState, xmlEndOfTheme
    <3>5. CASE (\E n \in Names : engineSoundTableRetrieve(n))
      BY <3>5 DEF engineSoundTableRetrieve
    <3>6. CASE retrieved
      BY <3>6 DEF retrieved, FileInv
    <3> QED BY <1>4, <3>1, <3>2, <3>3, <3>4, <3>5, <3>6
  <2> QED BY <1>n, <2>1 DEF ThemeInv
<1>5. CASE UNCHANGED vars
  <2>1. UNCHANGED <<pc, info, sec, trans_table, sound_table>>
    BY <1>5 DEF vars
  <2> QED BY <2>1 DEF ThemeInv
<1> QED BY <1>1, <1>2, <1>3, <1>4, <1>5 DEF Next

(* Reading a theme puts each of its events into the table whose directory  *)
(* can be loaded, whatever the order of its sounds and events, until an    *)
(* event uses the sound at the head of the list: xmlThemeLookupTransPath   *)
(* then takes the list to be empty.                                        *)
THEOREM ThemesLoadTheirEvents == Spec => []ThemeEventsLoaded
<1>1. Init => ThemeInv
  <2> SUFFICES ASSUME Init PROVE ThemeInv
    OBVIOUS
  <2>1. DOMAIN sound_table = Slots /\ pc = "config"
    BY DEF Init, Slots
  <2> QED BY <2>1 DEF ThemeInv
<1>2. LoadInv => TableInv /\ ReadInv /\ FileInv /\ TransInv
  BY DEF LoadInv, BoundsInv
<1>3. ThemeInv /\ LoadInv => ThemeEventsLoaded
  <2> SUFFICES ASSUME ThemeInv, LoadInv, pc = "events", info.ev > Len(sec.events),
                      NEW i \in 1 .. Len(sec.events), Due(sec, i)
               PROVE  \E f \in Entries : f.name = sec.events[i].name
    BY Zenon DEF ThemeEventsLoaded, Due, Used
  <2>1. Len(sec.events) \in Nat /\ info.ev \in Nat
    BY ThemeTyped DEF LoadInv, BoundsInv, ReadInv, ThemeInv
  <2>2. i < info.ev
    BY <2>1
  <2>3. Named(sound_table, sec.events[i].name)
    BY <2>2 DEF ThemeInv
  <2> QED BY <2>3 DEF Named, Entries
<1> QED BY AlwaysLoadInv, ThemeInductive, <1>1, <1>2, <1>3, PTL DEF Spec
=============================================================================
