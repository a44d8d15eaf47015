----------------------------- MODULE StateMixer -----------------------------
(***************************************************************************)
(* The state half of server/mixer.c: the mixer thread plays the segments   *)
(* of a state one after the other, chosen at random, and fades each one    *)
(* into the next, while the engine thread changes the state's volume, fade *)
(* time and filters without a lock.  Channels share nothing, so there is   *)
(* one of them.                                                            *)
(*                                                                         *)
(* A theme may be loaded in part: a threshold whose directory could not be *)
(* opened has no sounds at all and both bounds 0, and the segments behind  *)
(* a file that could not be read are NULL and of length 0.                 *)
(*                                                                         *)
(* Samples are positions only.  A volume is compared with the bounds of    *)
(* the thresholds and with 0; a fade time is its fade point, the number of *)
(* samples that it lasts.  One frame of output is one round of the mixer.  *)
(***************************************************************************)
EXTENDS Integers, Sequences, FiniteSetsExt

CONSTANTS Bounds,       \* l_bound and h_bound of each threshold
          Opened,       \* thresholds that have a snd_buf
          Lens,         \* len of each threshold: one length for each segment
          Loaded,       \* segments of each threshold that are not NULL
          Volumes,      \* volumes that events set
          FadePoints,   \* fade points that events set
          MaxEvents     \* how many events for the state there are at most

STEREO == 2
Thresholds == 1 .. Len(Bounds)
Segments(t) == 1 .. Len(Lens[t])

ASSUME MaxEventsAssumption == MaxEvents \in Nat
ASSUME BoundsAssumption == Bounds \in Seq(Int \X Int) /\ Len(Bounds) > 0
ASSUME LensAssumption ==
    /\ Lens \in Seq(Seq(Nat)) /\ Len(Lens) = Len(Bounds)
    /\ \A t \in Thresholds : \A s \in Segments(t) : Lens[t][s] % STEREO = 0
(* What mixerAllocNewState and mixerAddStateThreshold leave where nothing was
   loaded. *)
ASSUME LoadedAssumption ==
    /\ Opened \subseteq Thresholds
    /\ \A t \in Thresholds \ Opened : Lens[t] = <<>> /\ Bounds[t] = <<0, 0>>
    /\ \A t \in Thresholds : Loaded[t] \subseteq Segments(t)
    /\ \A t \in Thresholds : \A s \in Segments(t) \ Loaded[t] : Lens[t][s] = 0
(* mixerFadeEffect makes each fade point even. *)
ASSUME FadePointsAssumption == \A f \in FadePoints : f \in Nat /\ f % 2 = 0

Beyond == Len(Bounds) + 1    \* an index that is none of a threshold
MaxLen ==
    Max({0} \cup UNION {{Lens[t][s] : s \in Segments(t)} : t \in Thresholds})

VARIABLES vol, filter_flag, fade_pt,   \* what the engine thread sets
          epc, events,
          snds,        \* state_snd of each threshold: snd_no and pos
          lin_fade,    \* the segment that is faded in, where it is, and
                       \* the threshold that it was taken from
          state_snd,   \* local of mixer: the threshold that plays
          mpc,         \* step of the mixer thread within a frame
          fault,       \* a read outside of a segment
          disturbed,   \* a change came in the middle of a frame or a fade
          unfit        \* a fade began that its segments are not made for

vars == <<vol, filter_flag, fade_pt, epc, events, snds, lin_fade, state_snd, mpc,
          fault, disturbed, unfit>>
soundVars == <<vol, filter_flag, fade_pt, epc, events>>
ghosts == <<disturbed, unfit>>

(***************************************************************************)
(* Thresholds.                                                             *)
(***************************************************************************)
matches(v) == {t \in Thresholds : v >= Bounds[t][1] /\ v <= Bounds[t][2]}

(* mixerGetStateSndPtr: the last threshold that matches, or the first one.  If
   that one is not Opened the function returns NULL. *)
mixerGetStateSndPtr(v) == IF matches(v) = {} THEN 1 ELSE Max(matches(v))

(* mixerGetStateThreshIndex: the first one that matches; without a match the
   function returns no value. *)
mixerGetStateThreshIndex(v) ==
    IF matches(v) = {} THEN Thresholds \cup {Beyond} ELSE {Min(matches(v))}

(* Fault: one segment too many. *)
pickOneMore(v) == 1 .. Len(Lens[mixerGetStateSndPtr(v)]) + 1

(* The first index also if there is no threshold or no segment. *)
mixerPickRndStateSnd(v) ==
    LET t == mixerGetStateSndPtr(v)
    IN  IF Segments(t) = {} THEN {1} ELSE Segments(t)

(* snd_no is not checked where it is used. *)
exists(t) == snds[t].snd_no \in Segments(t)
length(t) == Lens[t][snds[t].snd_no]
plays(t) == exists(t) /\ snds[t].snd_no \in Loaded[t]

(* Fault: the segment is not tested. *)
silentUntested(t) == t \notin Opened

(* There is no snd_buf, or the segment is NULL. *)
silent(t) == t \notin Opened \/ (exists(t) /\ ~plays(t))

Init ==
    /\ vol = 0 /\ filter_flag = FALSE /\ fade_pt \in FadePoints
    /\ epc = "idle" /\ events = 0
    /\ snds = [t \in Thresholds |-> [snd_no |-> 1, pos |-> 0]]
    /\ lin_fade = [snd |-> 1, pos |-> 0, old_thresh |-> 1]
    /\ state_snd = 1 /\ mpc = "get"
    /\ fault = FALSE /\ disturbed = FALSE /\ unfit = FALSE

(***************************************************************************)
(* The engine thread: engineIO with an event of type STATE_T.              *)
(***************************************************************************)
(* A threshold is left in the last samples of its segment, where a fade with
   fade point f has begun. *)
withinFade(f) ==
    \E t \in Thresholds : plays(t) /\ length(t) - snds[t].pos < f

disturbs(f) == disturbed' = (disturbed \/ mpc # "get" \/ withinFade(f))

(* A dither of 255 leaves the fade time alone. *)
mixerSetFadeTime(f) ==
    /\ epc = "idle" /\ events < MaxEvents /\ f # fade_pt
    /\ fade_pt' = f
    /\ disturbs(f)
    /\ epc' = "vol" /\ events' = events + 1
    /\ UNCHANGED <<vol, filter_flag, snds, lin_fade, state_snd, mpc, fault,
                   unfit>>

mixerSetStateVol(v) ==
    /\ \/ epc = "idle" /\ events < MaxEvents /\ events' = events + 1
       \/ epc = "vol" /\ UNCHANGED events
    /\ vol' = v
    /\ IF v # vol THEN disturbs(fade_pt) ELSE UNCHANGED disturbed
    /\ epc' = "flags"
    /\ UNCHANGED <<filter_flag, fade_pt, snds, lin_fade, state_snd, mpc,
                   fault, unfit>>

mixerSetStateFlags(b) ==
    /\ epc = "flags"
    /\ filter_flag' = b
    /\ IF b # filter_flag THEN disturbs(fade_pt) ELSE UNCHANGED disturbed
    /\ epc' = "idle"
    /\ UNCHANGED <<vol, fade_pt, events, snds, lin_fade, state_snd, mpc,
                   fault, unfit>>

(***************************************************************************)
(* The mixer thread: one frame.                                            *)
(***************************************************************************)
readsOutside ==
    /\ fault' = TRUE
    /\ UNCHANGED <<soundVars, snds, lin_fade, state_snd, mpc, ghosts>>

(* The volume is read once to look the threshold up and once to see whether
   it is 0. *)
mixerGet ==
    /\ mpc = "get"
    /\ state_snd' = mixerGetStateSndPtr(vol)
    /\ mpc' = "check"
    /\ UNCHANGED <<soundVars, snds, lin_fade, fault, ghosts>>

mixerSkip ==
    /\ mpc = "check"
    /\ vol = 0 \/ silent(state_snd)
    /\ mpc' = "get"
    /\ UNCHANGED <<soundVars, snds, lin_fade, state_snd, fault, ghosts>>

mixerRead ==
    /\ mpc = "check" /\ vol # 0
    /\ plays(state_snd) /\ snds[state_snd].pos + 1 < length(state_snd)
    /\ mpc' = "filter"
    /\ UNCHANGED <<soundVars, snds, lin_fade, state_snd, fault, ghosts>>

mixerReadOutside ==
    /\ mpc = "check" /\ vol # 0 /\ ~silent(state_snd)
    /\ exists(state_snd) => snds[state_snd].pos + 1 >= length(state_snd)
    /\ readsOutside

mixerFilter ==
    /\ mpc = "filter"
    /\ mpc' = IF filter_flag THEN "left" ELSE "advance"
    /\ UNCHANGED <<soundVars, snds, lin_fade, state_snd, fault, ghosts>>

(* mixerApplyStateFilters is called for the left and the right sample, looks
   at the flag again and calls mixerFadeEffect, which looks the threshold up
   again and gives silence if that has no sounds. *)
after == IF mpc = "left" THEN "right" ELSE "advance"
remainder(t) ==
    length(t) - (snds[state_snd].pos + IF mpc = "left" THEN 0 ELSE 1)

fadeNot ==
    LET t == mixerGetStateSndPtr(vol)
    IN  /\ mpc \in {"left", "right"}
        /\ filter_flag => t \notin Opened \/ (exists(t) /\ remainder(t) > fade_pt)
        /\ mpc' = after
        /\ UNCHANGED <<soundVars, snds, lin_fade, state_snd, fault, ghosts>>

(* The fade begins: the next segment is chosen, then its threshold is looked
   up by the other search. *)
fadeBegin ==
    LET t == mixerGetStateSndPtr(vol)
    IN  /\ mpc \in {"left", "right"} /\ filter_flag
        /\ exists(t) /\ remainder(t) = fade_pt
        /\ \E s \in mixerPickRndStateSnd(vol) :
               lin_fade' = [lin_fade EXCEPT !.snd = s,
                                            !.pos = snds[t].pos % 2]
        /\ mpc' = IF mpc = "left" THEN "threshLeft" ELSE "threshRight"
        /\ UNCHANGED <<soundVars, snds, state_snd, fault, ghosts>>

(* The volume is in one threshold only, the fade is longer than one frame, and
   the segment is loaded and long enough to be faded in and out again. *)
fits ==
    /\ Cardinality(matches(vol)) = 1
    /\ fade_pt > STEREO
    /\ \A t \in matches(vol) :
           lin_fade.snd \in Segments(t) /\ Lens[t][lin_fade.snd] >= 2 * fade_pt

fadeThreshold ==
    /\ mpc \in {"threshLeft", "threshRight"}
    /\ \E i \in mixerGetStateThreshIndex(vol) :
           lin_fade' = [lin_fade EXCEPT !.old_thresh = i]
    /\ unfit' = (unfit \/ ~fits)
    /\ mpc' = IF mpc = "threshLeft" THEN "right" ELSE "advance"
    /\ UNCHANGED <<soundVars, snds, state_snd, fault, disturbed>>

(* A segment that is NULL has the length 0. *)
fadeInside ==
    /\ lin_fade.old_thresh \in Thresholds
    /\ lin_fade.snd \in Segments(lin_fade.old_thresh)
    /\ lin_fade.pos < Lens[lin_fade.old_thresh][lin_fade.snd]

(* Fault: the position is taken before it moves on. *)
fadeEndEarly(t) ==
    IF snds[t].pos + STEREO >= length(t)
    THEN [snds EXCEPT ![t] = [snd_no |-> lin_fade.snd,
                              pos |-> lin_fade.pos]]
    ELSE snds

(* At the end of the fade the segment that was faded in is the current one. *)
fadeEnd(t) ==
    IF snds[t].pos + STEREO >= length(t)
    THEN [snds EXCEPT ![t] = [snd_no |-> lin_fade.snd,
                              pos |-> lin_fade.pos + 1]]
    ELSE snds

fadeMix ==
    LET t == mixerGetStateSndPtr(vol)
    IN  /\ mpc \in {"left", "right"} /\ filter_flag
        /\ exists(t) /\ remainder(t) < fade_pt
        /\ fadeInside
        /\ lin_fade' = [lin_fade EXCEPT !.pos = @ + 1]
        /\ snds' = fadeEnd(t)
        /\ mpc' = after
        /\ UNCHANGED <<soundVars, state_snd, fault, ghosts>>

fadeOutside ==
    LET t == mixerGetStateSndPtr(vol)
    IN  /\ mpc \in {"left", "right"} /\ filter_flag /\ t \in Opened
        /\ exists(t) => remainder(t) < fade_pt /\ ~fadeInside
        /\ readsOutside

(* Fault: the position moves on only if there is no filter. *)
mixerAdvanceUnfiltered ==
    /\ mpc = "advance" /\ exists(state_snd)
    /\ IF filter_flag
       THEN UNCHANGED snds
       ELSE LET pos == snds[state_snd].pos + STEREO
            IN  \E s \in mixerPickRndStateSnd(vol) :
                    snds' = [snds EXCEPT ![state_snd] =
                                IF pos < length(state_snd)
                                THEN [@ EXCEPT !.pos = pos]
                                ELSE [snd_no |-> s, pos |-> 0]]
    /\ mpc' = "get"
    /\ UNCHANGED <<soundVars, lin_fade, state_snd, fault, ghosts>>

(* The position moves on; at the end of the segment another one is chosen from
   the threshold of the volume as it is now. *)
mixerAdvance ==
    /\ mpc = "advance" /\ exists(state_snd)
    /\ LET pos == snds[state_snd].pos + STEREO
       IN  \E s \in mixerPickRndStateSnd(vol) :
               snds' = [snds EXCEPT ![state_snd] =
                           IF pos < length(state_snd)
                           THEN [@ EXCEPT !.pos = pos]
                           ELSE [snd_no |-> s, pos |-> 0]]
    /\ mpc' = "get"
    /\ UNCHANGED <<soundVars, lin_fade, state_snd, fault, ghosts>>

mixerAdvanceOutside ==
    /\ mpc = "advance" /\ ~exists(state_snd)
    /\ readsOutside

Mixer == \/ mixerGet \/ mixerSkip \/ mixerRead \/ mixerReadOutside \/ mixerFilter
         \/ fadeNot \/ fadeBegin \/ fadeThreshold \/ fadeMix \/ fadeOutside
         \/ mixerAdvance \/ mixerAdvanceOutside
Engine == \/ \E f \in FadePoints : mixerSetFadeTime(f)
          \/ \E v \in Volumes : mixerSetStateVol(v)
          \/ \E b \in BOOLEAN : mixerSetStateFlags(b)

(* What a read outside leads to is not modelled. *)
Next == ~fault /\ (Mixer \/ Engine)

(* doMixing calls mixer for ever; events may stop coming. *)
Spec == Init /\ [][Next]_vars /\ WF_vars(~fault /\ Mixer)

(***************************************************************************)
(* Properties.                                                             *)
(***************************************************************************)
MaxSegment == Max({1} \cup {Len(Lens[t]) : t \in Thresholds})

(* The segment and position of each threshold, of the fade and of the frame
   in hand stay in their types: no segment has a number that no threshold
   has, whatever the engine thread does. *)
TypeOK ==
    /\ vol \in Volumes \cup {0} /\ filter_flag \in BOOLEAN
    /\ fade_pt \in FadePoints
    /\ snds \in [Thresholds -> [snd_no : 1 .. MaxSegment,
                                pos : 0 .. MaxLen + 1]]
    /\ lin_fade \in [snd : 1 .. MaxSegment, pos : 0 .. MaxLen,
                     old_thresh : 1 .. Beyond]
    /\ state_snd \in Thresholds

(* mixer asserts that the current segment is one of the threshold and that
   its position lies in it; it also has to be a left sample.  All of this
   holds, and no read goes astray, not even into a segment that was not
   loaded, as long as the engine thread changes nothing within a frame or a
   fade, volumes are in one threshold only, and each segment that is chosen to
   be faded in is loaded and as long as two fades. *)
PlaysInside ==
    ~disturbed /\ ~unfit =>
        /\ ~fault
        /\ \A t \in Opened : exists(t)
        /\ mpc = "get" => \A t \in Opened :
               /\ snds[t].pos % STEREO = 0
               /\ plays(t) => snds[t].pos < length(t)

(* What mixerFadeEffect makes of a fade under the same conditions.  Each
   sample of the old segment gets the sample of the new one that is one step
   behind: the fade begins on a left sample, without a sample of the new
   segment, so that sample 0 is mixed into the right channel, and so on.  On
   the left sample of the last frame, and not later, the new segment becomes
   the current one, at the sample that follows, so that none is played twice;
   the frame in hand then moves on, and the one at fade_pt - STEREO is never
   heard. *)
FadeHandsOver ==
    [][~disturbed /\ ~unfit /\ fadeMix =>
         LET t == mixerGetStateSndPtr(vol)
         IN  /\ lin_fade.old_thresh = t
             /\ lin_fade.pos = fade_pt - remainder(t) - 1
             /\ remainder(t) <= STEREO =>
                    /\ mpc = "left"
                    /\ snds'[t] = [snd_no |-> lin_fade.snd,
                                   pos |-> fade_pt - STEREO]]_vars

(* A state whose volume is not 0 never sticks within a segment: the segment,
   or the one faded in, is always followed by another one, also when volume
   and fade time change in the middle.  The sound stops only where the theme
   was not loaded: a threshold without sounds, or a NULL segment, which is
   never left again. *)
NextSegment ==
    <>[](vol # 0 /\ ~fault) =>
        \/ []<><<\E t \in Thresholds : snds'[t].pos < snds[t].pos>>_snds
        \/ <>[]silent(mixerGetStateSndPtr(vol))

=============================================================================
