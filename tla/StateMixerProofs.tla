-------------------------- MODULE StateMixerProofs --------------------------
(***************************************************************************)
(* The mixer's playing and fading of a state's segments, for any           *)
(* thresholds, segments, volumes and fade times, and any interleaving of   *)
(* the mixer thread and the engine thread.                                 *)
(***************************************************************************)
EXTENDS StateMixer, FiniteSetTheorems, WellFoundedInduction, TLAPS

(* A set of numbers that is not empty has a smallest one.                  *)
LEMMA Smallest ==
  ASSUME NEW T \in SUBSET Nat, T # {}
  PROVE  \E x \in T : \A y \in T : x <= y
  <1> DEFINE R == OpToRel(<, Nat)
  <1>1. R = {p \in Nat \X Nat : p[1] < p[2]}
    BY DEF OpToRel
  <1>2. IsWellFoundedOn(R, Nat)
    BY NatLessThanWellFounded
  <1> HIDE DEF R
  <1>3. PICK x \in T : \A y \in T : ~(<<y, x>> \in R)
    BY <1>2, WFMin
  <1>4. \A y \in T : ~(y < x)
    BY <1>1, <1>3
  <1> QED BY <1>4

(* A bounded set of numbers that is not empty has a greatest one, Max, and *)
(* a smallest one, Min.                                                    *)
LEMMA MaxOfBounded ==
  ASSUME NEW n \in Nat, NEW T \in SUBSET (0 .. n), T # {}
  PROVE  Max(T) \in T /\ \A y \in T : y <= Max(T)
  <1> DEFINE U == {k \in Nat : k <= n /\ n - k \in T}
  <1>1. \A y \in T : n - y \in U /\ n - (n - y) = y
    OBVIOUS
  <1>2. U # {}
    BY <1>1
  <1>3. PICK k \in U : \A j \in U : k <= j
    BY <1>2, Smallest
  <1>4. n - k \in T /\ \A y \in T : n - k >= y
    <2>1. k \in Nat /\ n - k \in T /\ \A y \in T : y \in Nat
      BY <1>3
    <2> HIDE DEF U
    <2>2. \A y \in T : n - y \in Nat /\ k <= n - y
      BY <1>1, <1>3
    <2> QED BY <2>1, <2>2
  <1> HIDE DEF U
  <1>5. \E x \in T : \A y \in T : x >= y
    BY <1>4
  <1>6. Max(T) \in T /\ \A y \in T : Max(T) >= y
    BY <1>5, Zenon DEF Max
  <1>7. \A y \in T : y \in Nat
    OBVIOUS
  <1> QED BY <1>6, <1>7

LEMMA MinOfNumbers ==
  ASSUME NEW T \in SUBSET Nat, T # {}
  PROVE  Min(T) \in T
  <1>1. \E x \in T : \A y \in T : x <= y
    BY Smallest
  <1> QED BY <1>1, Zenon DEF Min

(* The numbers of a finite list have a bound.                              *)
LEMMA ListBounded ==
  ASSUME NEW f, NEW n \in Nat, \A i \in 1 .. n : f[i] \in Nat
  PROVE  \E b \in Nat : \A i \in 1 .. n : f[i] <= b
  <1> DEFINE Bad == {k \in Nat : k <= n /\ ~\E b \in Nat : \A i \in 1 .. k : f[i] <= b}
  <1>1. ASSUME Bad # {} PROVE FALSE
    <2>1. PICK m \in Bad : \A k \in Bad : m <= k
      BY <1>1, Smallest
    <2>2. m # 0
      <3>1. 0 \in Nat /\ \A i \in 1 .. 0 : f[i] <= 0
        OBVIOUS
      <3> QED BY <2>1, <3>1
    <2>3. m \in 1 .. n /\ m - 1 \in Nat /\ m - 1 \notin Bad
      <3>1. m \in Nat /\ m <= n
        BY <2>1
      <3> HIDE DEF Bad
      <3> QED BY <2>1, <2>2, <3>1
    <2>4. PICK b \in Nat : \A i \in 1 .. m - 1 : f[i] <= b
      BY <2>3
    <2>5. PICK x \in Nat : x = f[m]
      BY <2>3
    <2>6. b + x \in Nat /\ \A i \in 1 .. m : f[i] <= b + x
      <3> SUFFICES ASSUME NEW i \in 1 .. m PROVE f[i] <= b + x
        OBVIOUS
      <3>1. CASE i = m
        BY <2>5, <3>1
      <3>2. CASE i # m
        <4>1. i \in 1 .. m - 1 /\ i \in 1 .. n
          BY <2>3, <3>2
        <4>2. PICK y \in Nat : y = f[i]
          BY <4>1
        <4>3. y <= b
          BY <2>4, <4>1, <4>2
        <4> QED BY <4>2, <4>3
      <3> QED BY <3>1, <3>2
    <2> QED BY <2>1, <2>6
  <1>2. n \notin Bad
    <2> HIDE DEF Bad
    <2> QED BY <1>1
  <1>3. n <= n
    OBVIOUS
  <1> QED BY <1>2, <1>3

-----------------------------------------------------------------------------
(* What the thresholds and their segments are bounded by.                  *)
LEMMA Shapes ==
  /\ Len(Bounds) \in Nat \ {0}
  /\ \A t \in Thresholds :
        /\ Len(Lens[t]) \in Nat
        /\ \A s \in Segments(t) : Lens[t][s] \in Nat /\ Lens[t][s] % 2 = 0
  <1>1. Len(Bounds) \in Nat \ {0} /\ DOMAIN Lens = Thresholds
    BY BoundsAssumption, LensAssumption DEF Thresholds
  <1> SUFFICES ASSUME NEW t \in Thresholds
               PROVE  /\ Len(Lens[t]) \in Nat
                      /\ \A s \in Segments(t) : Lens[t][s] \in Nat
                                                /\ Lens[t][s] % 2 = 0
    BY <1>1
  <1>2. Lens[t] \in Seq(Nat)
    BY <1>1, LensAssumption
  <1>3. Len(Lens[t]) \in Nat /\ \A s \in Segments(t) : Lens[t][s] \in Nat
    BY <1>2 DEF Segments
  <1>4. \A s \in Segments(t) : Lens[t][s] % 2 = 0
    BY LensAssumption DEF STEREO
  <1> QED BY <1>3, <1>4

(* A segment that plays is one of a threshold that was opened.             *)
LEMMA PlaysOpened ==
  ASSUME NEW t \in Thresholds, plays(t)
  PROVE  t \in Opened /\ exists(t)
  <1>1. CASE t \notin Opened
    <2>1. Lens[t] = <<>>
      BY <1>1, LoadedAssumption
    <2>2. Segments(t) = {}
      BY <2>1 DEF Segments
    <2> QED BY <2>2 DEF plays, exists
  <1> QED BY <1>1 DEF plays

(* MaxSegment and MaxLen bound what they are the maximum of.               *)
LEMMA SegmentBound ==
  MaxSegment \in Nat \ {0} /\ \A t \in Thresholds : Len(Lens[t]) <= MaxSegment
  <1> DEFINE T == {1} \cup {Len(Lens[t]) : t \in Thresholds}
             f == [t \in Thresholds |-> Len(Lens[t])]
  <1>1. Len(Bounds) \in Nat /\ \A t \in 1 .. Len(Bounds) : f[t] \in Nat
    BY Shapes DEF Thresholds
  <1>2. \A t \in Thresholds : f[t] = Len(Lens[t])
    OBVIOUS
  <1> HIDE DEF f
  <1>3. PICK b \in Nat : \A t \in 1 .. Len(Bounds) : f[t] <= b
    BY <1>1, ListBounded
  <1>4. \A t \in Thresholds : Len(Lens[t]) \in 0 .. b
    BY <1>1, <1>2, <1>3 DEF Thresholds
  <1>5. T \in SUBSET (0 .. b + 1)
    <2>1. 1 \in 0 .. b + 1 /\ \A x \in 0 .. b : x \in 0 .. b + 1
      OBVIOUS
    <2> QED BY <1>4, <2>1
  <1>6. 1 \in T /\ b + 1 \in Nat
    OBVIOUS
  <1>7. T # {}
    BY <1>6
  <1>8. \A t \in Thresholds : Len(Lens[t]) \in T
    OBVIOUS
  <1>9. MaxSegment = Max(T)
    BY DEF MaxSegment
  <1> HIDE DEF T
  <1>10. Max(T) \in T /\ \A y \in T : y <= Max(T)
    BY <1>5, <1>6, <1>7, MaxOfBounded
  <1>11. \A t \in Thresholds : Len(Lens[t]) <= Max(T)
    BY <1>8, <1>10
  <1>12. Max(T) \in Nat \ {0}
    <2>1. \A x \in T : x \in Nat
      BY <1>5
    <2>2. PICK m \in Nat : m = Max(T)
      BY <1>10, <2>1
    <2>3. 1 <= m
      BY <1>6, <1>10, <2>2
    <2> QED BY <2>2, <2>3
  <1> QED BY <1>9, <1>11, <1>12

LEMMA LengthBound ==
  /\ MaxLen \in Nat
  /\ \A t \in Thresholds : \A s \in Segments(t) : Lens[t][s] <= MaxLen
  <1> DEFINE T == {0} \cup UNION {{Lens[t][s] : s \in Segments(t)} : t \in Thresholds}
             B(t) == {b \in Nat : \A s \in Segments(t) : Lens[t][s] <= b}
             f == [t \in Thresholds |-> CHOOSE b \in Nat : b \in B(t)]
  <1>1. \A t \in Thresholds : B(t) # {}
    <2> SUFFICES ASSUME NEW t \in Thresholds PROVE B(t) # {}
      OBVIOUS
    <2>1. Len(Lens[t]) \in Nat /\ \A s \in 1 .. Len(Lens[t]) : Lens[t][s] \in Nat
      BY Shapes DEF Segments
    <2>2. \E b \in Nat : \A s \in 1 .. Len(Lens[t]) : Lens[t][s] <= b
      BY <2>1, ListBounded
    <2> QED BY <2>2 DEF Segments
  <1>2. \A t \in Thresholds : f[t] \in Nat /\ f[t] \in B(t)
    <2> SUFFICES ASSUME NEW t \in Thresholds PROVE f[t] \in Nat /\ f[t] \in B(t)
      OBVIOUS
    <2>1. \E b \in Nat : b \in B(t)
      BY <1>1
    <2>2. f[t] = CHOOSE b \in Nat : b \in B(t)
      OBVIOUS
    <2> HIDE DEF f, B
    <2> QED BY <2>1, <2>2
  <1>3. \A t \in Thresholds : \A s \in Segments(t) : Lens[t][s] <= f[t]
    BY <1>2
  <1> HIDE DEF f, B
  <1>4. Len(Bounds) \in Nat /\ \A t \in 1 .. Len(Bounds) : f[t] \in Nat
    BY <1>2, Shapes DEF Thresholds
  <1>5. PICK b \in Nat : \A t \in 1 .. Len(Bounds) : f[t] <= b
    BY <1>4, ListBounded
  <1>6. ASSUME NEW t \in Thresholds, NEW s \in Segments(t)
        PROVE  Lens[t][s] \in 0 .. b
    <2>1. PICK x \in Nat : x = Lens[t][s]
      BY Shapes
    <2>2. PICK y \in Nat : y = f[t]
      BY <1>2
    <2>3. x <= y /\ y <= b
      BY <1>3, <1>5, <2>1, <2>2 DEF Thresholds
    <2> QED BY <2>1, <2>3
  <1>7. T \in SUBSET (0 .. b)
    <2>1. 0 \in 0 .. b
      OBVIOUS
    <2> QED BY <1>6, <2>1
  <1>8. \A t \in Thresholds : \A s \in Segments(t) : Lens[t][s] \in T
    OBVIOUS
  <1>9. T # {}
    OBVIOUS
  <1>10. MaxLen = Max(T)
    BY DEF MaxLen
  <1> HIDE DEF T
  <1>11. Max(T) \in T /\ \A y \in T : y <= Max(T)
    BY <1>7, <1>9, MaxOfBounded
  <1>12. \A t \in Thresholds : \A s \in Segments(t) : Lens[t][s] <= Max(T)
    BY <1>8, <1>11
  <1>13. Max(T) \in Nat
    <2>1. \A x \in T : x \in Nat
      BY <1>7
    <2> QED BY <1>11, <2>1
  <1> QED BY <1>10, <1>12, <1>13

(* Both searches for the threshold of a volume find one, the same one if   *)
(* only one matches.                                                       *)
LEMMA SearchFinds ==
  ASSUME NEW v
  PROVE  /\ mixerGetStateSndPtr(v) \in Thresholds
         /\ mixerGetStateThreshIndex(v) \subseteq 1 .. Beyond
         /\ Cardinality(matches(v)) = 1 =>
               /\ mixerGetStateThreshIndex(v) = {mixerGetStateSndPtr(v)}
               /\ mixerGetStateSndPtr(v) \in matches(v)
  <1>0. Len(Bounds) \in Nat /\ 1 \in Thresholds /\ Thresholds \subseteq 1 .. Beyond
        /\ Thresholds \subseteq Nat /\ Thresholds \subseteq 0 .. Len(Bounds)
    BY Shapes DEF Thresholds, Beyond
  <1>1. Beyond \in 1 .. Beyond
    BY Shapes DEF Beyond
  <1>2. matches(v) \subseteq Thresholds
    BY DEF matches
  <1>3. matches(v) # {} => Max(matches(v)) \in matches(v) /\ Min(matches(v)) \in matches(v)
    BY <1>0, <1>2, MaxOfBounded, MinOfNumbers
  <1>4. mixerGetStateSndPtr(v) \in Thresholds
    BY <1>0, <1>2, <1>3 DEF mixerGetStateSndPtr
  <1>5. mixerGetStateThreshIndex(v) \subseteq 1 .. Beyond
    BY <1>0, <1>1, <1>2, <1>3 DEF mixerGetStateThreshIndex
  <1>6. ASSUME Cardinality(matches(v)) = 1
        PROVE  /\ mixerGetStateThreshIndex(v) = {mixerGetStateSndPtr(v)}
               /\ mixerGetStateSndPtr(v) \in matches(v)
    <2>1. 1 \in Int /\ Len(Bounds) \in Int
      BY <1>0
    <2>2. IsFiniteSet(Thresholds)
      BY <2>1, FS_Interval DEF Thresholds
    <2>3. IsFiniteSet(matches(v))
      BY <1>2, <2>2, FS_Subset
    <2>4. PICK x : matches(v) = {x}
      BY <1>6, <2>3, FS_Singleton
    <2>5. Max(matches(v)) = x /\ Min(matches(v)) = x /\ matches(v) # {}
      BY <1>3, <2>4
    <2> QED BY <2>4, <2>5 DEF mixerGetStateThreshIndex, mixerGetStateSndPtr
  <1> QED BY <1>4, <1>5, <1>6
-----------------------------------------------------------------------------
(* The type invariant.  A fade is looked at only after a segment was read, *)
(* which is then not empty, so that the second sample of the segment faded *)
(* in is inside of the longest one.                                        *)
Steps == {"get", "check", "filter", "left", "right", "threshLeft", "threshRight",
          "advance"}
TypeInv ==
    /\ TypeOK /\ mpc \in Steps
    /\ mpc \notin {"get", "check"} => MaxLen >= 1

Snd == [snd_no : 1 .. MaxSegment, pos : 0 .. MaxLen + 1]
Fade == [snd : 1 .. MaxSegment, pos : 0 .. MaxLen, old_thresh : 1 .. Beyond]
TypeCore ==
    /\ vol \in Volumes \cup {0} /\ filter_flag \in BOOLEAN /\ fade_pt \in FadePoints
    /\ state_snd \in Thresholds

(* The segments of a threshold have numbers of the type.                   *)
LEMMA SegmentType ==
  \A t \in Thresholds : \A s \in Segments(t) :
      s \in 1 .. MaxSegment /\ Lens[t][s] \in 0 .. MaxLen
  <1> SUFFICES ASSUME NEW t \in Thresholds, NEW s \in Segments(t)
               PROVE  s \in 1 .. MaxSegment /\ Lens[t][s] \in 0 .. MaxLen
    OBVIOUS
  <1>1. s \in 1 .. Len(Lens[t]) /\ Len(Lens[t]) \in Nat
    BY Shapes DEF Segments
  <1>2. MaxSegment \in Nat /\ Len(Lens[t]) <= MaxSegment
    BY SegmentBound
  <1>3. Lens[t][s] \in Nat /\ MaxLen \in Nat /\ Lens[t][s] <= MaxLen
    BY Shapes, LengthBound
  <1> QED BY <1>1, <1>2, <1>3

LEMMA TypeInit == Init => TypeInv
  <1> SUFFICES ASSUME Init PROVE TypeInv
    OBVIOUS
  <1>1. 1 \in Thresholds /\ 1 \in 1 .. MaxSegment /\ 1 \in 1 .. Beyond
    <2>1. 1 \in Thresholds /\ 1 \in 1 .. Beyond
      BY Shapes DEF Thresholds, Beyond
    <2> QED BY <2>1, SegmentBound
  <1>2. 0 \in 0 .. MaxLen /\ 0 \in 0 .. MaxLen + 1
    BY LengthBound
  <1>3. snds \in [Thresholds -> Snd]
    BY <1>1, <1>2 DEF Init, Snd
  <1>4. lin_fade \in Fade
    BY <1>1, <1>2 DEF Init, Fade
  <1>5. vol \in Volumes \cup {0} /\ filter_flag \in BOOLEAN /\ fade_pt \in FadePoints
        /\ state_snd \in Thresholds /\ mpc = "get"
    BY <1>1 DEF Init
  <1> QED BY <1>3, <1>4, <1>5 DEF TypeInv, TypeOK, Snd, Fade, Steps

LEMMA TypeNext ==
  ASSUME TypeInv, [Next]_vars
  PROVE  TypeInv'
  <1> DEFINE p == mixerGetStateSndPtr(vol)
  <1>t. snds \in [Thresholds -> Snd] /\ lin_fade \in Fade /\ TypeCore /\ mpc \in Steps
        /\ (mpc \notin {"get", "check"} => MaxLen >= 1)
    BY DEF TypeInv, TypeOK, Snd, Fade, TypeCore
  <1>m. MaxLen \in Nat /\ MaxSegment \in Nat /\ STEREO = 2
    BY LengthBound, SegmentBound DEF STEREO
  <1>p. p \in Thresholds
    BY SearchFinds
  <1>u. snds' \in [Thresholds -> Snd] /\ lin_fade' \in Fade /\ TypeCore'
        /\ mpc' \in Steps /\ (mpc' \notin {"get", "check"} => MaxLen >= 1)
        => TypeInv'
    BY DEF TypeInv, TypeOK, Snd, Fade, TypeCore
  <1>q. \A t \in Thresholds :
          /\ snds[t] \in Snd /\ snds[t].pos \in Nat
          /\ exists(t) => length(t) \in 0 .. MaxLen
    <2>1. \A t \in Thresholds : snds[t] \in Snd
      BY <1>t
    <2>2. \A r \in Snd : r.pos \in Nat
      BY DEF Snd
    <2> QED BY <2>1, <2>2, SegmentType DEF exists, length
  <1>s. mixerPickRndStateSnd(vol) \subseteq 1 .. MaxSegment
    <2>1. 1 \in 1 .. MaxSegment
      BY SegmentBound
    <2> QED BY <1>p, <2>1, SegmentType DEF mixerPickRndStateSnd
  <1> HIDE DEF p
  <1>1. CASE Engine
    <2>1. /\ UNCHANGED <<snds, lin_fade, state_snd, mpc>>
          /\ vol' \in Volumes \cup {vol} /\ fade_pt' \in FadePoints \cup {fade_pt}
      BY <1>1 DEF Engine, mixerSetFadeTime, mixerSetStateVol, mixerSetStateFlags
    <2>2. filter_flag' = filter_flag \/ filter_flag' \in BOOLEAN
      BY <1>1 DEF Engine, mixerSetFadeTime, mixerSetStateVol, mixerSetStateFlags
    <2>3. TypeCore'
      BY <1>t, <2>1, <2>2 DEF TypeCore
    <2> QED BY <1>t, <1>u, <2>1, <2>3
  <1>2. CASE \/ mixerGet \/ mixerSkip \/ mixerReadOutside \/ mixerFilter
             \/ fadeNot \/ fadeOutside \/ mixerAdvanceOutside
    <2> USE DEF mixerGet, mixerSkip, mixerReadOutside, mixerFilter, fadeNot,
                fadeOutside, mixerAdvanceOutside, readsOutside
    <2>1. UNCHANGED <<vol, filter_flag, fade_pt, snds, lin_fade>>
      BY <1>2 DEF soundVars
    <2>2. state_snd' \in {state_snd, p}
      BY <1>2 DEF p
    <2>3. /\ mpc' \in Steps
          /\ (mpc' \notin {"get", "check"} => MaxLen >= 1)
      BY <1>2, <1>t DEF after, Steps
    <2> QED BY <1>p, <1>t, <1>u, <2>1, <2>2, <2>3 DEF TypeCore
  <1>3. CASE mixerRead
    <2>1. UNCHANGED <<vol, filter_flag, fade_pt, snds, lin_fade, state_snd>>
          /\ mpc' = "filter"
      BY <1>3 DEF mixerRead, soundVars
    <2>2. state_snd \in Thresholds /\ exists(state_snd)
          /\ snds[state_snd].pos + 1 < length(state_snd)
      BY <1>3, <1>t DEF mixerRead, plays, TypeCore
    <2>3. MaxLen >= 1
      <3>1. PICK k \in Nat : k = snds[state_snd].pos
        BY <1>q, <2>2
      <3>2. PICK n \in 0 .. MaxLen : n = length(state_snd)
        BY <1>q, <2>2
      <3> QED BY <1>m, <2>2, <3>1, <3>2
    <2> QED BY <1>t, <1>u, <2>1, <2>3 DEF TypeCore, Steps
  <1>4. CASE fadeBegin
    <2>1. UNCHANGED <<vol, filter_flag, fade_pt, snds, state_snd>>
          /\ mpc' \in {"threshLeft", "threshRight"} /\ MaxLen >= 1
      BY <1>4, <1>t DEF fadeBegin, soundVars
    <2>2. PICK s \in 1 .. MaxSegment :
            lin_fade' = [lin_fade EXCEPT !.snd = s, !.pos = snds[p].pos % 2]
      BY <1>4, <1>s DEF fadeBegin, p
    <2>3. PICK k \in Nat : k = snds[p].pos
      BY <1>p, <1>q
    <2>4. k % 2 \in 0 .. MaxLen
      BY <1>m, <2>1
    <2>5. lin_fade' \in Fade
      BY <1>t, <2>2, <2>3, <2>4 DEF Fade
    <2> QED BY <1>t, <1>u, <2>1, <2>5 DEF TypeCore, Steps
  <1>5. CASE fadeThreshold
    <2>1. UNCHANGED <<vol, filter_flag, fade_pt, snds, state_snd>>
          /\ mpc' \in {"right", "advance"} /\ MaxLen >= 1
      BY <1>5, <1>t DEF fadeThreshold, soundVars
    <2>2. PICK i \in 1 .. Beyond : lin_fade' = [lin_fade EXCEPT !.old_thresh = i]
      BY <1>5, SearchFinds DEF fadeThreshold
    <2>3. lin_fade' \in Fade
      BY <1>t, <2>2 DEF Fade
    <2> QED BY <1>t, <1>u, <2>1, <2>3 DEF TypeCore, Steps
  <1>6. CASE fadeMix
    <2>1. UNCHANGED <<vol, filter_flag, fade_pt, state_snd>>
          /\ mpc' \in {"right", "advance"} /\ MaxLen >= 1 /\ fadeInside
          /\ lin_fade' = [lin_fade EXCEPT !.pos = @ + 1] /\ snds' = fadeEnd(p)
      BY <1>6, <1>t DEF fadeMix, soundVars, after, p
    <2>2. /\ lin_fade.snd \in 1 .. MaxSegment /\ lin_fade.pos \in 0 .. MaxLen
          /\ lin_fade.pos + 1 \in 0 .. MaxLen /\ lin_fade.pos + 1 \in 0 .. MaxLen + 1
      <3>1. /\ lin_fade.snd \in 1 .. MaxSegment /\ lin_fade.pos \in 0 .. MaxLen
            /\ lin_fade.old_thresh \in 1 .. Beyond
        BY <1>t DEF Fade
      <3>2. PICK n \in 0 .. MaxLen : lin_fade.pos < n
        BY <2>1, SegmentType DEF fadeInside
      <3> QED BY <1>m, <3>1, <3>2
    <2>3. lin_fade' \in Fade
      BY <1>t, <2>1, <2>2 DEF Fade
    <2>4. snds' \in [Thresholds -> Snd]
      BY <1>p, <1>t, <2>1, <2>2 DEF fadeEnd, Snd
    <2> QED BY <1>t, <1>u, <2>1, <2>3, <2>4 DEF TypeCore, Steps
  <1>7. CASE mixerAdvance
    <2>1. UNCHANGED <<vol, filter_flag, fade_pt, lin_fade, state_snd>> /\ mpc' = "get"
      BY <1>7 DEF mixerAdvance, soundVars
    <2>2. state_snd \in Thresholds /\ exists(state_snd)
      BY <1>7, <1>t DEF mixerAdvance, TypeCore
    <2>3. PICK k \in Nat : k = snds[state_snd].pos
      BY <1>q, <2>2
    <2>4. PICK s \in 1 .. MaxSegment :
            snds' = [snds EXCEPT ![state_snd] =
                        IF k + 2 < length(state_snd)
                        THEN [@ EXCEPT !.pos = k + 2]
                        ELSE [snd_no |-> s, pos |-> 0]]
      BY <1>7, <1>m, <1>s, <2>3 DEF mixerAdvance
    <2>5. k + 2 < length(state_snd) => k + 2 \in 0 .. MaxLen + 1
      <3> SUFFICES ASSUME k + 2 < length(state_snd)
                   PROVE  k + 2 \in 0 .. MaxLen + 1
        OBVIOUS
      <3>1. PICK n \in 0 .. MaxLen : n = length(state_snd)
        BY <1>q, <2>2
      <3> QED BY <1>m, <3>1
    <2>6. 0 \in 0 .. MaxLen + 1
      BY <1>m
    <2>7. snds' \in [Thresholds -> Snd]
      <3>1. snds[state_snd] \in Snd
        BY <1>q, <2>2
      <3>2. CASE k + 2 < length(state_snd)
        <4>1. snds' = [snds EXCEPT ![state_snd] = [snds[state_snd] EXCEPT !.pos = k + 2]]
          BY <2>4, <3>2
        <4>2. [snds[state_snd] EXCEPT !.pos = k + 2] \in Snd
          BY <2>5, <3>1, <3>2 DEF Snd
        <4> QED BY <1>t, <2>2, <4>1, <4>2
      <3>3. CASE ~(k + 2 < length(state_snd))
        <4>1. snds' = [snds EXCEPT ![state_snd] = [snd_no |-> s, pos |-> 0]]
          BY <2>4, <3>3
        <4>2. [snd_no |-> s, pos |-> 0] \in Snd
          BY <2>6 DEF Snd
        <4> QED BY <1>t, <2>2, <4>1, <4>2
      <3> QED BY <3>2, <3>3
    <2> QED BY <1>t, <1>u, <2>1, <2>7 DEF TypeCore, Steps
  <1>8. CASE UNCHANGED vars
    BY <1>8, <1>t, <1>u DEF vars, TypeCore
  <1> QED BY <1>1, <1>2, <1>3, <1>4, <1>5, <1>6, <1>7, <1>8 DEF Next, Mixer

(* Type correctness of the state half of server/mixer.c: whatever the      *)
(* engine thread changes between two looks of the mixer thread at a sound, *)
(* segment numbers, positions and thresholds keep their ranges, for any    *)
(* thresholds, segments and fade times.                                    *)
THEOREM TypeCorrect == Spec => []TypeOK
  <1>1. TypeInv => TypeOK
    BY DEF TypeInv
  <1>2. TypeInv /\ [Next]_vars => TypeInv'
    BY TypeNext
  <1> QED BY TypeInit, <1>1, <1>2, PTL DEF Spec

-----------------------------------------------------------------------------
(* What an undisturbed mixer keeps.  Each threshold with sounds is at a    *)
(* left sample of one of its segments, which may be one that was never     *)
(* loaded; within a frame that is heard the segment is loaded, and volume  *)
(* and filter are the ones that the frame began with; and within a fade    *)
(* the new segment is one sample behind what the old one has played of its *)
(* last fade_pt samples.                                                   *)
NonEmpty ==
    \A t \in Opened : Segments(t) # {} /\ \A s \in Loaded[t] : Lens[t][s] > 0

left(t) == length(t) - snds[t].pos
PosInv ==
    \A t \in Opened : /\ exists(t) /\ snds[t].pos % 2 = 0
                      /\ plays(t) => snds[t].pos < length(t)
FrameInv ==
    /\ mpc # "get" => state_snd = mixerGetStateSndPtr(vol)
    /\ mpc \notin {"get", "check"} => vol # 0 /\ plays(state_snd)
    /\ mpc \in {"left", "right", "threshLeft"} => filter_flag
    /\ mpc # "threshRight"
FadeFits(t) ==
    /\ lin_fade.old_thresh = t /\ lin_fade.snd \in Segments(t)
    /\ Lens[t][lin_fade.snd] >= 2 * fade_pt /\ fade_pt > 2
FadeAt(t) ==
    /\ mpc \in {"get", "check", "filter", "left"} /\ left(t) < fade_pt =>
          FadeFits(t) /\ lin_fade.pos = fade_pt - left(t) - 1
    /\ mpc = "threshLeft" =>
          left(t) = fade_pt /\ lin_fade.pos = 0 /\ lin_fade.snd \in Segments(t)
    /\ mpc = "right" /\ left(t) <= fade_pt =>
          FadeFits(t) /\ left(t) > 2 /\ lin_fade.pos = fade_pt - left(t)
    /\ mpc = "advance" /\ left(t) <= fade_pt =>
          FadeFits(t) /\ left(t) > 2 /\ lin_fade.pos = fade_pt - left(t) + 1
FadeInv ==
    LET t == mixerGetStateSndPtr(vol)
    IN  vol # 0 /\ filter_flag /\ plays(t) => FadeAt(t)
Quiet == ~disturbed /\ ~unfit
QuietInv == Quiet => ~fault /\ PosInv /\ FrameInv /\ FadeInv

(* What the invariant says of the numbers of a threshold.                  *)
LEMMA Numbers ==
  ASSUME TypeInv, PosInv
  PROVE  /\ fade_pt \in Nat /\ fade_pt % 2 = 0
         /\ \A t \in Thresholds : plays(t) =>
               /\ snds[t].pos \in Nat /\ length(t) \in Nat /\ left(t) \in Nat
               /\ length(t) % 2 = 0 /\ left(t) >= 2 /\ left(t) % 2 = 0
  <1>1. fade_pt \in Nat /\ fade_pt % 2 = 0
    BY FadePointsAssumption DEF TypeInv, TypeOK
  <1>2. ASSUME NEW t \in Thresholds, plays(t)
        PROVE  /\ snds[t].pos \in Nat /\ length(t) \in Nat /\ left(t) \in Nat
               /\ length(t) % 2 = 0 /\ left(t) >= 2 /\ left(t) % 2 = 0
    <2>1. snds[t] \in Snd
      BY DEF TypeInv, TypeOK, Snd
    <2>2. PICK k \in Nat : k = snds[t].pos
      BY <2>1 DEF Snd
    <2>3. exists(t) /\ k % 2 = 0 /\ k < length(t)
      BY <1>2, <2>2, PlaysOpened DEF PosInv
    <2>4. PICK n \in Nat : n = length(t) /\ n % 2 = 0
      BY <2>3, Shapes DEF exists, length
    <2>5. n - k \in Nat /\ n - k >= 2 /\ (n - k) % 2 = 0
      <3>1. k < n
        BY <2>3, <2>4
      <3>2. PICK i \in Nat : k = 2 * i
        BY <2>3
      <3>3. PICK j \in Nat : n = 2 * j
        BY <2>4
      <3>4. n - k = 2 * (j - i) /\ j - i \in Nat /\ j - i >= 1
        BY <3>1, <3>2, <3>3
      <3>5. \A m \in Nat : (2 * m) % 2 = 0
        OBVIOUS
      <3> QED BY <3>4, <3>5
    <2> QED BY <2>2, <2>4, <2>5 DEF left
  <1> QED BY <1>1, <1>2

(* The engine thread: a change in the middle of a frame or of a fade sets  *)
(* disturbed, and any other leaves every threshold outside of its fade.    *)
LEMMA QuietEngine ==
  ASSUME TypeInv, QuietInv, Engine, Quiet'
  PROVE  ~fault' /\ PosInv' /\ FrameInv' /\ FadeInv'
  <1>1. UNCHANGED <<snds, lin_fade, state_snd, mpc, fault, unfit>>
    BY DEF Engine, mixerSetFadeTime, mixerSetStateVol, mixerSetStateFlags
  <1>2. ~disturbed /\ (\/ UNCHANGED <<vol, filter_flag, fade_pt>>
                       \/ mpc = "get" /\ ~withinFade(fade_pt'))
    BY DEF Engine, mixerSetFadeTime, mixerSetStateVol, mixerSetStateFlags, disturbs, Quiet
  <1>3. ~fault /\ PosInv /\ FrameInv /\ FadeInv
    BY <1>1, <1>2 DEF QuietInv, Quiet
  <1>4. PosInv'
    BY <1>1, <1>3 DEF PosInv, exists, plays, length
  <1>5. CASE UNCHANGED <<vol, filter_flag, fade_pt>>
    <2>1. FrameInv'
      BY <1>1, <1>3, <1>5 DEF FrameInv, plays, exists
    <2>2. FadeInv'
      BY <1>1, <1>3, <1>5 DEF FadeInv, FadeAt, FadeFits, left, length, plays, exists
    <2> QED BY <1>1, <1>3, <1>4, <2>1, <2>2
  <1>6. CASE mpc = "get" /\ ~withinFade(fade_pt')
    <2>1. FrameInv'
      BY <1>1, <1>6 DEF FrameInv
    <2>2. PICK p \in Thresholds : p = mixerGetStateSndPtr(vol')
      BY SearchFinds
    <2>3. plays(p) => ~(left(p) < fade_pt')
      BY <1>6, <2>2 DEF withinFade, left
    <2>4. left(p)' = left(p) /\ mpc' = "get" /\ (plays(p)' <=> plays(p))
      BY <1>1, <1>6 DEF left, length, plays, exists
    <2>5. plays(p)' => FadeAt(p)'
      BY <2>3, <2>4 DEF FadeAt
    <2> QED BY <1>1, <1>3, <1>4, <2>1, <2>2, <2>5 DEF FadeInv
  <1> QED BY <1>2, <1>5, <1>6

(* The steps of the mixer thread that leave the segments alone.            *)
LEMMA QuietLook ==
  ASSUME TypeInv, QuietInv, Quiet',
         \/ mixerGet \/ mixerSkip \/ mixerRead \/ mixerReadOutside
         \/ mixerFilter \/ fadeNot \/ fadeBegin \/ fadeThreshold
         \/ fadeOutside \/ mixerAdvanceOutside \/ UNCHANGED vars
  PROVE  ~fault' /\ PosInv' /\ FrameInv' /\ FadeInv'
  <1>1. UNCHANGED <<vol, filter_flag, fade_pt, snds, disturbed>>
    BY DEF mixerGet, mixerSkip, mixerRead, mixerReadOutside, mixerFilter, fadeNot,
           fadeBegin, fadeThreshold, fadeOutside, mixerAdvanceOutside, readsOutside,
           soundVars, ghosts, vars
  <1>2. Quiet
    <2>1. UNCHANGED unfit \/ unfit' = (unfit \/ ~fits)
      BY DEF mixerGet, mixerSkip, mixerRead, mixerReadOutside, mixerFilter, fadeNot,
             fadeBegin, fadeThreshold, fadeOutside, mixerAdvanceOutside, readsOutside,
             soundVars, ghosts, vars
    <2>2. ~disturbed' /\ ~unfit'
      BY DEF Quiet
    <2>3. ~disturbed
      BY <1>1, <2>2
    <2>4. CASE UNCHANGED unfit
      BY <2>2, <2>3, <2>4 DEF Quiet
    <2>5. CASE unfit' = (unfit \/ ~fits)
      BY <2>2, <2>3, <2>5 DEF Quiet
    <2> QED BY <2>1, <2>4, <2>5
  <1>3. ~fault /\ PosInv /\ FrameInv /\ FadeInv
    BY <1>2 DEF QuietInv
  <1>4. PosInv'
    BY <1>1, <1>3 DEF PosInv, exists, plays, length
  <1>5. PICK p \in Thresholds : p = mixerGetStateSndPtr(vol)
    BY SearchFinds
  <1>6. /\ fade_pt \in Nat /\ fade_pt % 2 = 0
        /\ plays(p) => /\ snds[p].pos \in Nat /\ length(p) \in Nat
                       /\ left(p) \in Nat /\ left(p) >= 2 /\ left(p) % 2 = 0
    BY <1>3, Numbers
  <1>7. plays(p) => /\ exists(p) /\ p \in Opened /\ snds[p].pos % 2 = 0
                    /\ left(p) = length(p) - snds[p].pos
    BY <1>3, PlaysOpened DEF PosInv, left
  <1>8. left(p)' = left(p) /\ fade_pt' = fade_pt /\ (plays(p)' <=> plays(p))
    BY <1>1 DEF left, length, plays, exists
  <1>9. vol # 0 /\ filter_flag /\ plays(p) => FadeAt(p)
    BY <1>3, <1>5 DEF FadeInv
  <1>10. /\ mpc # "get" => state_snd = p
         /\ mpc \notin {"get", "check"} => vol # 0 /\ plays(p)
    BY <1>3, <1>5 DEF FrameInv
  <1>11. mpc \in {"left", "right", "threshLeft"} => filter_flag
    BY <1>3 DEF FrameInv
  <1>12. mpc \in {"left", "right"} =>
           remainder(p) = IF mpc = "left" THEN left(p) ELSE left(p) - 1
    <2> SUFFICES ASSUME mpc \in {"left", "right"}
                 PROVE  remainder(p) = IF mpc = "left" THEN left(p) ELSE left(p) - 1
      OBVIOUS
    <2>1. plays(p) /\ state_snd = p
      BY <1>10
    <2>2. PICK k \in Nat : k = snds[p].pos
      BY <1>6, <2>1
    <2>3. PICK n \in Nat : n = length(p)
      BY <1>6, <2>1
    <2>4. left(p) = n - k
      BY <2>2, <2>3 DEF left
    <2> QED BY <2>1, <2>2, <2>3, <2>4 DEF remainder
  <1>13. ASSUME vol # 0 /\ filter_flag /\ plays(p) => FadeAt(p)' PROVE FadeInv'
    BY <1>1, <1>5, <1>8, <1>13 DEF FadeInv
  <1>14. ASSUME UNCHANGED lin_fade PROVE FadeFits(p)' = FadeFits(p)
    BY <1>1, <1>14 DEF FadeFits
  <1>15. ASSUME state_snd' = p PROVE plays(state_snd)' <=> plays(p)
    BY <1>1, <1>15 DEF plays, exists
  <1>g. CASE mixerGet \/ mixerSkip
    <2>1. /\ \/ mpc = "get" /\ mpc' = "check" /\ state_snd' = p
             \/ mpc = "check" /\ mpc' = "get"
          /\ UNCHANGED <<lin_fade, fault>>
      BY <1>5, <1>g DEF mixerGet, mixerSkip
    <2>2. FrameInv'
      BY <1>1, <1>5, <2>1 DEF FrameInv
    <2>3. vol # 0 /\ filter_flag /\ plays(p) => FadeAt(p)'
      BY <1>8, <1>9, <1>14, <2>1 DEF FadeAt
    <2> QED BY <1>3, <1>4, <1>13, <2>1, <2>2, <2>3
  <1>r. CASE mixerRead
    <2>1. mpc = "check" /\ mpc' = "filter" /\ vol # 0 /\ plays(state_snd)
          /\ UNCHANGED <<lin_fade, fault, state_snd>>
      BY <1>r DEF mixerRead
    <2>2. FrameInv'
      BY <1>1, <1>5, <1>10, <1>15, <2>1 DEF FrameInv
    <2>3. vol # 0 /\ filter_flag /\ plays(p) => FadeAt(p)'
      BY <1>8, <1>9, <1>14, <2>1 DEF FadeAt
    <2> QED BY <1>3, <1>4, <1>13, <2>1, <2>2, <2>3
  <1>i. CASE mixerFilter
    <2>1. mpc = "filter" /\ mpc' = (IF filter_flag THEN "left" ELSE "advance")
          /\ UNCHANGED <<lin_fade, fault, state_snd>>
      BY <1>i DEF mixerFilter
    <2>2. FrameInv'
      BY <1>1, <1>5, <1>10, <1>15, <2>1 DEF FrameInv
    <2>3. vol # 0 /\ filter_flag /\ plays(p) => FadeAt(p)'
      BY <1>8, <1>9, <1>14, <2>1 DEF FadeAt
    <2> QED BY <1>3, <1>4, <1>13, <2>1, <2>2, <2>3
  <1>o. CASE mixerReadOutside
    <2>1. mpc = "check" /\ ~silent(state_snd)
          /\ (exists(state_snd) => snds[state_snd].pos + 1 >= length(state_snd))
      BY <1>o DEF mixerReadOutside
    <2>2. p \in Opened /\ (exists(p) => plays(p) /\ snds[p].pos + 1 >= length(p))
      BY <1>10, <2>1 DEF silent
    <2>3. plays(p) /\ snds[p].pos + 1 >= length(p)
      BY <1>3, <2>2 DEF PosInv
    <2> QED BY <1>6, <1>7, <2>3
  <1>v. CASE mixerAdvanceOutside
    BY <1>v, <1>7, <1>10 DEF mixerAdvanceOutside
  <1>n. CASE fadeNot
    <2>1. /\ mpc \in {"left", "right"} /\ UNCHANGED <<lin_fade, fault, state_snd>>
          /\ mpc' = IF mpc = "left" THEN "right" ELSE "advance"
      BY <1>n DEF fadeNot, after
    <2>2. remainder(p) > fade_pt
      BY <1>n, <1>5, <1>7, <1>10, <1>11, <2>1 DEF fadeNot
    <2>3. left(p) \in Nat /\ left(p) > fade_pt
      <3>1. PICK l \in Nat : l = left(p)
        BY <1>6, <1>10, <2>1
      <3>2. remainder(p) = IF mpc = "left" THEN l ELSE l - 1
        BY <1>12, <2>1, <3>1
      <3> QED BY <1>6, <2>2, <3>1, <3>2
    <2>4. FrameInv'
      BY <1>1, <1>5, <1>10, <1>11, <1>15, <2>1 DEF FrameInv
    <2>5. FadeAt(p)'
      BY <1>6, <1>8, <2>1, <2>3 DEF FadeAt
    <2> QED BY <1>3, <1>4, <1>13, <2>1, <2>4, <2>5
  <1>b. CASE fadeBegin
    <2>1. /\ mpc \in {"left", "right"} /\ remainder(p) = fade_pt
          /\ UNCHANGED <<fault, state_snd>>
          /\ mpc' = IF mpc = "left" THEN "threshLeft" ELSE "threshRight"
      BY <1>b, <1>5 DEF fadeBegin
    <2>2. mpc = "left" /\ left(p) = fade_pt
      BY <1>6, <1>10, <1>12, <2>1
    <2>0. Segments(p) # {}
      BY <1>7, <1>10, <2>2 DEF exists
    <2>3. PICK s \in Segments(p) :
            lin_fade' = [lin_fade EXCEPT !.snd = s, !.pos = snds[p].pos % 2]
      BY <1>b, <1>5, <2>0 DEF fadeBegin, mixerPickRndStateSnd
    <2>4. lin_fade \in Fade
      BY DEF TypeInv, TypeOK, Fade
    <2>5. lin_fade'.snd = s /\ lin_fade'.pos = 0
      BY <1>7, <1>10, <2>2, <2>3, <2>4 DEF Fade
    <2>6. FrameInv'
      BY <1>1, <1>5, <1>10, <1>11, <1>15, <2>1, <2>2 DEF FrameInv
    <2>7. FadeAt(p)'
      BY <1>8, <2>1, <2>2, <2>5 DEF FadeAt
    <2> QED BY <1>3, <1>4, <1>13, <2>1, <2>6, <2>7
  <1>t. CASE fadeThreshold
    <2>1. /\ mpc = "threshLeft" /\ mpc' = "right" /\ UNCHANGED <<fault, state_snd>>
      BY <1>t, <1>3 DEF fadeThreshold, FrameInv
    <2>2. fits
      BY <1>t DEF fadeThreshold, Quiet
    <2>3. mixerGetStateThreshIndex(vol) = {p} /\ p \in matches(vol)
      BY <1>5, <2>2, SearchFinds DEF fits
    <2>4. lin_fade' = [lin_fade EXCEPT !.old_thresh = p]
      BY <1>t, <2>3 DEF fadeThreshold
    <2>5. lin_fade \in Fade
      BY DEF TypeInv, TypeOK, Fade
    <2>6. lin_fade'.old_thresh = p /\ lin_fade'.snd = lin_fade.snd
          /\ lin_fade'.pos = lin_fade.pos
      BY <2>4, <2>5 DEF Fade
    <2>7. left(p) = fade_pt /\ lin_fade.pos = 0
      BY <1>9, <1>10, <1>11, <2>1 DEF FadeAt
    <2>8. FadeFits(p)' /\ fade_pt > 2
      BY <1>1, <2>2, <2>3, <2>6 DEF FadeFits, fits, STEREO
    <2>9. FadeAt(p)'
      BY <1>6, <1>8, <2>1, <2>6, <2>7, <2>8 DEF FadeAt
    <2>10. FrameInv'
      BY <1>1, <1>5, <1>10, <1>11, <1>15, <2>1 DEF FrameInv
    <2> QED BY <1>3, <1>4, <1>13, <2>1, <2>9, <2>10
  <1>f. CASE fadeOutside
    <2>1. mpc \in {"left", "right"} /\ remainder(p) < fade_pt /\ ~fadeInside
      BY <1>f, <1>5, <1>7, <1>10 DEF fadeOutside
    <2>2. FadeAt(p)
      BY <1>9, <1>10, <1>11, <2>1
    <2>3. FadeFits(p) /\ lin_fade.pos <= fade_pt
      BY <1>6, <1>10, <1>12, <2>1, <2>2 DEF FadeAt
    <2>4. PICK n \in Nat : n = Lens[p][lin_fade.snd]
      BY <2>3, Shapes DEF FadeFits
    <2>5. lin_fade.pos \in Int
      BY DEF TypeInv, TypeOK
    <2> QED BY <1>6, <2>1, <2>3, <2>4, <2>5 DEF FadeFits, fadeInside
  <1>u. CASE UNCHANGED vars
    <2>1. UNCHANGED <<mpc, lin_fade, fault, state_snd>>
      BY <1>u DEF vars
    <2>2. FrameInv'
      BY <1>1, <1>3, <2>1 DEF FrameInv, plays, exists
    <2>3. vol # 0 /\ filter_flag /\ plays(p) => FadeAt(p)'
      BY <1>8, <1>9, <1>14, <2>1 DEF FadeAt
    <2> QED BY <1>3, <1>4, <1>13, <2>1, <2>2, <2>3
  <1> QED BY <1>g, <1>r, <1>i, <1>o, <1>v, <1>n, <1>b, <1>t, <1>f, <1>u

(* A threshold other than the one that changes keeps what it has.          *)
LEMMA OtherKeeps ==
  ASSUME PosInv, NEW p \in Thresholds, NEW r, snds \in [Thresholds -> Snd],
         snds' = [snds EXCEPT ![p] = r],
         r.snd_no \in Segments(p), r.pos % 2 = 0,
         r.snd_no \in Loaded[p] => r.pos < Lens[p][r.snd_no]
  PROVE  /\ PosInv' /\ left(p)' = Lens[p][r.snd_no] - r.pos
         /\ plays(p)' <=> r.snd_no \in Loaded[p]
  <1>1. snds'[p] = r /\ \A t \in Opened : t # p => snds'[t] = snds[t]
    BY LoadedAssumption
  <1> QED BY <1>1 DEF PosInv, exists, plays, length, left

(* The samples of a fade.  On the left sample of the last frame the new    *)
(* segment takes the place of the old one, and is then long enough not to  *)
(* be in a fade itself.                                                    *)
LEMMA QuietMix ==
  ASSUME TypeInv, QuietInv, Quiet', fadeMix
  PROVE  ~fault' /\ PosInv' /\ FrameInv' /\ FadeInv'
  <1>1. UNCHANGED <<vol, filter_flag, fade_pt, state_snd, disturbed, unfit, fault>>
    BY DEF fadeMix, soundVars, ghosts
  <1>2. ~fault /\ PosInv /\ FrameInv /\ FadeInv
    BY <1>1 DEF QuietInv, Quiet
  <1>3. PICK p \in Thresholds : p = mixerGetStateSndPtr(vol)
    BY SearchFinds
  <1>0. plays(p)
    BY <1>2, <1>3 DEF FrameInv, fadeMix
  <1>4. /\ fade_pt \in Nat /\ fade_pt % 2 = 0 /\ snds[p].pos \in Nat
        /\ length(p) \in Nat /\ left(p) \in Nat /\ left(p) >= 2 /\ left(p) % 2 = 0
    BY <1>0, <1>2, Numbers
  <1>5. exists(p) /\ snds[p].pos % 2 = 0 /\ left(p) = length(p) - snds[p].pos
    BY <1>0, <1>2, PlaysOpened DEF PosInv, left
  <1>6. /\ mpc \in {"left", "right"} /\ filter_flag /\ remainder(p) < fade_pt
        /\ lin_fade' = [lin_fade EXCEPT !.pos = @ + 1] /\ snds' = fadeEnd(p)
        /\ mpc' = IF mpc = "left" THEN "right" ELSE "advance"
    BY <1>3 DEF fadeMix, after
  <1>7. vol # 0 /\ state_snd = p
    BY <1>2, <1>3, <1>6 DEF FrameInv
  <1>8. FadeAt(p)
    BY <1>0, <1>2, <1>3, <1>6, <1>7 DEF FadeInv
  <1>9. remainder(p) = IF mpc = "left" THEN left(p) ELSE left(p) - 1
    BY <1>4, <1>5, <1>6, <1>7 DEF remainder
  <1>10. lin_fade \in Fade /\ snds \in [Thresholds -> Snd]
    BY DEF TypeInv, TypeOK, Fade, Snd
  <1>11. /\ lin_fade'.old_thresh = lin_fade.old_thresh /\ lin_fade'.snd = lin_fade.snd
         /\ lin_fade'.pos = lin_fade.pos + 1 /\ lin_fade.pos \in Nat
    BY <1>6, <1>10 DEF Fade
  <1>12. FadeFits(p)' = FadeFits(p)
    BY <1>1, <1>11 DEF FadeFits
  <1>13. ASSUME plays(p)' PROVE FrameInv'
    BY <1>1, <1>3, <1>6, <1>7, <1>13 DEF FrameInv, plays, exists
  <1>14. ASSUME FadeAt(p)' PROVE FadeInv'
    BY <1>1, <1>3, <1>14 DEF FadeInv
  <1>15. FadeFits(p)
    BY <1>4, <1>6, <1>8, <1>9 DEF FadeAt
  <1>16. snds[p].pos + 2 >= length(p) <=> left(p) <= 2
    BY <1>4, <1>5
  <1>17. CASE mpc = "left" /\ left(p) = 2
    <2>1. lin_fade.pos = fade_pt - 3
      BY <1>4, <1>6, <1>8, <1>9, <1>17 DEF FadeAt
    <2> DEFINE r == [snd_no |-> lin_fade.snd, pos |-> lin_fade.pos + 1]
    <2>2. snds' = [snds EXCEPT ![p] = r]
      BY <1>6, <1>16, <1>17 DEF fadeEnd, STEREO
    <2>3. r.snd_no = lin_fade.snd /\ r.pos = fade_pt - 2
      BY <1>4, <2>1
    <2> HIDE DEF r
    <2>4. PICK n \in Nat : n = Lens[p][lin_fade.snd]
      BY <1>15, Shapes DEF FadeFits
    <2>5. n >= 2 * fade_pt /\ fade_pt > 2 /\ lin_fade.snd \in Segments(p)
      BY <1>15, <2>4 DEF FadeFits
    <2>6. (fade_pt - 2) % 2 = 0 /\ fade_pt - 2 < n /\ n - (fade_pt - 2) > fade_pt
          /\ n # 0
      BY <1>4, <2>5
    <2>9. lin_fade.snd \in Loaded[p]
      BY <2>4, <2>5, <2>6, LoadedAssumption
    <2>7. PosInv' /\ left(p)' = n - (fade_pt - 2) /\ plays(p)'
      BY <1>2, <1>10, <2>2, <2>3, <2>4, <2>5, <2>6, <2>9, OtherKeeps
    <2>8. FadeAt(p)'
      BY <1>1, <1>4, <1>6, <1>17, <2>4, <2>6, <2>7 DEF FadeAt
    <2> QED BY <1>1, <1>2, <1>13, <1>14, <2>7, <2>8
  <1>18. CASE ~(mpc = "left" /\ left(p) = 2)
    <2>1. left(p) > 2
      BY <1>4, <1>6, <1>8, <1>9, <1>18 DEF FadeAt
    <2>2. UNCHANGED snds
      BY <1>4, <1>6, <1>16, <2>1 DEF fadeEnd, STEREO
    <2>3. PosInv' /\ left(p)' = left(p) /\ plays(p)'
      BY <1>0, <1>2, <2>2 DEF PosInv, exists, plays, length, left
    <2>4. FadeAt(p)'
      <3>1. CASE mpc = "left"
        <4>1. lin_fade.pos = fade_pt - left(p) - 1
          BY <1>6, <1>8, <1>9, <3>1 DEF FadeAt
        <4>2. lin_fade'.pos = fade_pt - left(p)
          BY <1>4, <1>11, <4>1
        <4> QED BY <1>1, <1>6, <1>12, <1>15, <2>1, <2>3, <3>1, <4>2 DEF FadeAt
      <3>2. CASE mpc = "right"
        <4>1. left(p) <= fade_pt
          BY <1>4, <1>6, <1>9, <3>2
        <4>2. lin_fade.pos = fade_pt - left(p)
          BY <1>8, <3>2, <4>1 DEF FadeAt
        <4>3. lin_fade'.pos = fade_pt - left(p) + 1
          BY <1>4, <1>11, <4>2
        <4> QED BY <1>1, <1>6, <1>12, <1>15, <2>1, <2>3, <3>2, <4>3 DEF FadeAt
      <3> QED BY <1>6, <3>1, <3>2
    <2> QED BY <1>1, <1>2, <1>13, <1>14, <2>3, <2>4
  <1> QED BY <1>17, <1>18

(* The end of a frame.                                                     *)
LEMMA QuietAdvance ==
  ASSUME NonEmpty, TypeInv, QuietInv, Quiet', mixerAdvance
  PROVE  ~fault' /\ PosInv' /\ FrameInv' /\ FadeInv'
  <1>1. UNCHANGED <<vol, filter_flag, fade_pt, lin_fade, disturbed, unfit, fault>>
        /\ mpc = "advance" /\ mpc' = "get"
    BY DEF mixerAdvance, soundVars, ghosts
  <1>2. ~fault /\ PosInv /\ FrameInv /\ FadeInv
    BY <1>1 DEF QuietInv, Quiet
  <1>3. PICK p \in Thresholds : p = mixerGetStateSndPtr(vol)
    BY SearchFinds
  <1>0. plays(p) /\ vol # 0 /\ state_snd = p
    BY <1>1, <1>2, <1>3 DEF FrameInv
  <1>4. PICK k \in Nat : k = snds[p].pos
    BY <1>0, <1>2, Numbers
  <1>5. PICK n \in Nat : n = length(p)
    BY <1>0, <1>2, Numbers
  <1>6. PICK l \in Nat : l = left(p)
    BY <1>0, <1>2, Numbers
  <1>7. fade_pt \in Nat /\ fade_pt % 2 = 0 /\ l >= 2 /\ l % 2 = 0 /\ l = n - k
    BY <1>0, <1>2, <1>4, <1>5, <1>6, Numbers DEF left
  <1>8. p \in Opened /\ exists(p) /\ k % 2 = 0 /\ k < n
    BY <1>0, <1>2, <1>4, <1>5, PlaysOpened DEF PosInv
  <1>9. Segments(p) # {}
    BY <1>8 DEF exists
  <1>10. PICK s \in Segments(p) :
           snds' = [snds EXCEPT ![p] = IF k + 2 < n THEN [@ EXCEPT !.pos = k + 2]
                                       ELSE [snd_no |-> s, pos |-> 0]]
    BY <1>0, <1>3, <1>4, <1>5, <1>9 DEF mixerAdvance, mixerPickRndStateSnd, STEREO
  <1>11. snds \in [Thresholds -> Snd] /\ snds[p] \in Snd
    BY DEF TypeInv, TypeOK, Snd
  <1>12. FrameInv'
    BY <1>1 DEF FrameInv
  <1>13. FadeFits(p)' = FadeFits(p)
    BY <1>1 DEF FadeFits
  <1>14. ASSUME filter_flag /\ plays(p)' => FadeAt(p)' PROVE FadeInv'
    BY <1>1, <1>3, <1>14 DEF FadeInv
  <1>15. filter_flag => FadeAt(p)
    BY <1>0, <1>2, <1>3 DEF FadeInv
  <1>16. CASE k + 2 < n
    <2> DEFINE r == [snds[p] EXCEPT !.pos = k + 2]
    <2>1. snds' = [snds EXCEPT ![p] = r]
      BY <1>10, <1>16
    <2>2. r.snd_no = snds[p].snd_no /\ r.pos = k + 2
      BY <1>11 DEF Snd
    <2> HIDE DEF r
    <2>3. (k + 2) % 2 = 0 /\ snds[p].snd_no \in Segments(p)
          /\ n = Lens[p][snds[p].snd_no]
      BY <1>5, <1>8 DEF exists, length
    <2>4. PosInv' /\ left(p)' = n - (k + 2)
      BY <1>2, <1>11, <1>16, <2>1, <2>2, <2>3, OtherKeeps
    <2>5. left(p)' = l - 2
      BY <1>7, <2>4
    <2>6. ASSUME filter_flag PROVE FadeAt(p)'
      <3> SUFFICES ASSUME l - 2 < fade_pt
                   PROVE  FadeFits(p) /\ lin_fade.pos = fade_pt - (l - 2) - 1
        BY <1>1, <1>13, <2>5 DEF FadeAt
      <3>1. l <= fade_pt
        BY <1>7
      <3>2. FadeFits(p) /\ lin_fade.pos = fade_pt - l + 1
        BY <1>1, <1>6, <1>15, <2>6, <3>1 DEF FadeAt
      <3> QED BY <1>7, <3>2
    <2> QED BY <1>1, <1>2, <1>12, <1>14, <2>4, <2>6
  <1>17. CASE ~(k + 2 < n)
    <2> DEFINE r == [snd_no |-> s, pos |-> 0]
    <2>1. snds' = [snds EXCEPT ![p] = r]
      BY <1>10, <1>17
    <2>2. r.snd_no = s /\ r.pos = 0
      OBVIOUS
    <2> HIDE DEF r
    <2>3. PICK m \in Nat : m = Lens[p][s]
      BY Shapes
    <2>4. 0 % 2 = 0 /\ (s \in Loaded[p] => 0 < m)
      BY <1>8, <2>3 DEF NonEmpty
    <2>5. PosInv' /\ left(p)' = m - 0
      BY <1>2, <1>11, <2>1, <2>2, <2>3, <2>4, OtherKeeps
    <2>6. ASSUME filter_flag PROVE FadeAt(p)'
      <3>1. l = 2
        BY <1>7, <1>8, <1>17
      <3>2. ~(l <= fade_pt)
        BY <1>1, <1>6, <1>15, <2>6, <3>1 DEF FadeAt
      <3>3. fade_pt = 0
        BY <1>7, <3>1, <3>2
      <3>4. ~(left(p)' < fade_pt')
        BY <1>1, <2>5, <3>3
      <3> QED BY <1>1, <3>4 DEF FadeAt
    <2> QED BY <1>1, <1>2, <1>12, <1>14, <2>5, <2>6
  <1> QED BY <1>16, <1>17

LEMMA AlwaysQuiet ==
  ASSUME NonEmpty
  PROVE  Spec => [](TypeInv /\ QuietInv)
  <1>1. Init => QuietInv
    <2> SUFFICES ASSUME Init PROVE ~fault /\ PosInv /\ FrameInv /\ FadeInv
      BY DEF QuietInv
    <2>1. \A t \in Opened : 1 \in Segments(t)
      BY Shapes, LoadedAssumption DEF Segments, NonEmpty
    <2>2. \A t \in Opened : snds[t].snd_no = 1 /\ snds[t].pos = 0
      BY LoadedAssumption DEF Init
    <2>3. 0 % 2 = 0
      OBVIOUS
    <2>4. PosInv
      BY <2>1, <2>2, <2>3 DEF PosInv, exists, plays, length, NonEmpty
    <2>5. vol = 0 /\ mpc = "get" /\ fault = FALSE
      BY DEF Init
    <2> QED BY <2>4, <2>5 DEF FrameInv, FadeInv
  <1>2. TypeInv /\ QuietInv /\ [Next]_vars => TypeInv' /\ QuietInv'
    <2> SUFFICES ASSUME TypeInv, QuietInv, [Next]_vars PROVE TypeInv' /\ QuietInv'
      OBVIOUS
    <2>1. TypeInv'
      BY TypeNext
    <2>2. ASSUME Quiet' PROVE ~fault' /\ PosInv' /\ FrameInv' /\ FadeInv'
      BY <2>2, QuietEngine, QuietLook, QuietMix, QuietAdvance DEF Next, Mixer
    <2> QED BY <2>1, <2>2 DEF QuietInv
  <1> QED BY TypeInit, <1>1, <1>2, PTL DEF Spec

(* No segment is read outside of its samples, and the assertions of mixer  *)
(* hold, if no directory that was opened and no file that was loaded is    *)
(* empty, for any thresholds, fade times and events that do not disturb a  *)
(* frame or a fade and segments that fit the fades.                        *)
THEOREM AlwaysInside ==
  ASSUME NonEmpty
  PROVE  Spec => []PlaysInside
  <1>1. TypeInv /\ QuietInv => PlaysInside
    BY DEF QuietInv, Quiet, PlaysInside, PosInv, STEREO
  <1> QED BY AlwaysQuiet, <1>1, PTL

(* mixerFadeEffect mixes the new segment in one sample behind the old one, *)
(* in the same threshold, and makes it the current one on the left sample  *)
(* of the last frame of the old one, at the sample that follows, under the *)
(* same conditions.                                                        *)
THEOREM FadesHandOver ==
  ASSUME NonEmpty
  PROVE  Spec => FadeHandsOver
  <1> DEFINE Step ==
        ~disturbed /\ ~unfit /\ fadeMix =>
          LET t == mixerGetStateSndPtr(vol)
          IN  /\ lin_fade.old_thresh = t
              /\ lin_fade.pos = fade_pt - remainder(t) - 1
              /\ remainder(t) <= STEREO =>
                     /\ mpc = "left"
                     /\ snds'[t] = [snd_no |-> lin_fade.snd, pos |-> fade_pt - STEREO]
  <1>1. TypeInv /\ QuietInv => Step
    <2> SUFFICES ASSUME TypeInv, QuietInv, ~disturbed, ~unfit, fadeMix
                 PROVE  Step
      OBVIOUS
    <2>1. ~fault /\ PosInv /\ FrameInv /\ FadeInv
      BY DEF QuietInv, Quiet
    <2>2. PICK p \in Thresholds : p = mixerGetStateSndPtr(vol)
      BY SearchFinds
    <2>3. plays(p) /\ vol # 0 /\ state_snd = p
      BY <2>1, <2>2 DEF FrameInv, fadeMix
    <2>4. PICK k \in Nat : k = snds[p].pos
      BY <2>1, <2>3, Numbers
    <2>5. PICK n \in Nat : n = length(p)
      BY <2>1, <2>3, Numbers
    <2>6. /\ fade_pt \in Nat /\ left(p) = n - k /\ left(p) \in Nat
          /\ left(p) >= 2 /\ left(p) % 2 = 0
      BY <2>1, <2>3, <2>4, <2>5, Numbers DEF left
    <2>7. mpc \in {"left", "right"} /\ filter_flag /\ remainder(p) < fade_pt
          /\ snds' = fadeEnd(p)
      BY <2>2 DEF fadeMix
    <2>8. FadeAt(p)
      BY <2>1, <2>2, <2>3, <2>7 DEF FadeInv
    <2>9. remainder(p) = IF mpc = "left" THEN left(p) ELSE left(p) - 1
      BY <2>3, <2>4, <2>5, <2>6, <2>7 DEF remainder
    <2>10. CASE mpc = "left"
      <3>1. lin_fade.old_thresh = p /\ lin_fade.pos = fade_pt - left(p) - 1
        BY <2>7, <2>8, <2>9, <2>10 DEF FadeAt, FadeFits
      <3>2. ASSUME left(p) <= 2
            PROVE  snds'[p] = [snd_no |-> lin_fade.snd, pos |-> fade_pt - 2]
        <4>1. lin_fade.pos + 1 = fade_pt - 2 /\ k + 2 >= n
          BY <2>6, <3>1, <3>2
        <4>2. snds' = [snds EXCEPT ![p] = [snd_no |-> lin_fade.snd,
                                           pos |-> fade_pt - 2]]
          BY <2>4, <2>5, <2>7, <4>1 DEF fadeEnd, STEREO
        <4>3. p \in DOMAIN snds
          BY DEF TypeInv, TypeOK
        <4> QED BY <4>2, <4>3
      <3> QED BY <2>2, <2>9, <2>10, <3>1, <3>2 DEF STEREO
    <2>11. CASE mpc = "right"
      <3>1. left(p) <= fade_pt
        BY <2>6, <2>7, <2>9, <2>11
      <3>2. lin_fade.old_thresh = p /\ lin_fade.pos = fade_pt - left(p) /\ left(p) > 2
        BY <2>8, <2>11, <3>1 DEF FadeAt, FadeFits
      <3>3. remainder(p) = left(p) - 1
        BY <2>9, <2>11
      <3>4. lin_fade.pos = fade_pt - remainder(p) - 1 /\ ~(remainder(p) <= 2)
        BY <2>6, <3>2, <3>3
      <3> QED BY <2>2, <3>2, <3>4 DEF STEREO
    <2> QED BY <2>7, <2>10, <2>11
  <1>2. TypeInv /\ QuietInv => [Step]_vars
    BY <1>1
  <1> QED BY AlwaysQuiet, <1>2, PTL DEF FadeHandsOver
=============================================================================
