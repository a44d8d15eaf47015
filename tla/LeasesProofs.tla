---------------------------- MODULE LeasesProofs ----------------------------
(***************************************************************************)
(* The lease list and the timers, for any number of clients and any        *)
(* periods.                                                                *)
(***************************************************************************)
EXTENDS Leases, SequenceTheorems, WellFoundedInduction, TLAPS

Entry == [addr: Addresses, left: 0 .. Expiry]

(* A set of numbers that is not empty has a smallest one.                  *)
LEMMA Smallest ==
  ASSUME NEW T \in SUBSET Nat, T # {}
  PROVE  \E x \in T : \A y \in T : x <= y
  <1> DEFINE R == OpToRel(<, Nat)
  <1>1. R = {ss \in Nat \X Nat : ss[1] < ss[2]}
    BY DEF OpToRel
  <1>2. IsWellFoundedOn(R, Nat)
    BY NatLessThanWellFounded
  <1> HIDE DEF R
  <1>3. PICK x \in T : \A y \in T : ~(<<y, x>> \in R)
    BY <1>2, WFMin
  <1>4. \A y \in T : ~(y < x)
    BY <1>1, <1>3
  <1> QED BY <1>4

-----------------------------------------------------------------------------
(* The purge of the list, entry by entry.                                  *)
Step(l, f, i) == IF i = 0 THEN <<>>
                 ELSE IF l[i].left > 0 THEN Append(f[i - 1], l[i]) ELSE f[i - 1]

LEMMA PurgeExists ==
  ASSUME NEW l, NEW n \in Nat
  PROVE  \E f : f = [i \in 0 .. n |-> Step(l, f, i)]
  <1> DEFINE Bad == {k \in Nat : ~\E f : f = [i \in 0 .. k |-> Step(l, f, i)]}
  <1>1. SUFFICES ASSUME Bad # {} PROVE FALSE
    OBVIOUS
  <1>2. PICK m \in Bad : \A k \in Bad : m <= k
    BY <1>1, Smallest
  <1>3. CASE m = 0
    <2> DEFINE f == [i \in 0 .. 0 |-> <<>>]
    <2>1. f = [i \in 0 .. 0 |-> Step(l, f, i)]
      BY DEF Step
    <2> QED BY <1>2, <1>3, <2>1
  <1>4. CASE m # 0
    <2>1. m \in Nat /\ m - 1 \in Nat /\ m - 1 \notin Bad
      BY <1>2, <1>4
    <2>2. PICK f : f = [i \in 0 .. m - 1 |-> Step(l, f, i)]
      BY <2>1
    <2> DEFINE g == [i \in 0 .. m |-> IF i = m THEN Step(l, f, i) ELSE f[i]]
    <2>3. \A i \in 0 .. m : g[i] = Step(l, g, i)
      <3> SUFFICES ASSUME NEW i \in 0 .. m PROVE g[i] = Step(l, g, i)
        OBVIOUS
      <3>1. i = 0 \/ i - 1 \in 0 .. m - 1
        BY <2>1
      <3>2. i # 0 => g[i - 1] = f[i - 1]
        BY <2>1, <3>1
      <3>3. g[i] = Step(l, f, i)
        <4>1. CASE i = m
          BY <4>1
        <4>2. CASE i # m
          <5>1. i \in 0 .. m - 1
            BY <2>1, <4>2
          <5>2. f[i] = Step(l, f, i)
            BY <2>2, <5>1
          <5> QED BY <4>2, <5>2
        <4> QED BY <4>1, <4>2
      <3>4. Step(l, f, i) = Step(l, g, i)
        BY <3>2 DEF Step
      <3> QED BY <3>3, <3>4
    <2>4. g = [i \in 0 .. m |-> Step(l, g, i)]
      <3>1. g = [i \in 0 .. m |-> g[i]]
        OBVIOUS
      <3> HIDE DEF g
      <3> QED BY <2>3, <3>1
    <2> QED BY <1>2, <2>4
  <1> QED BY <1>3, <1>4

LEMMA PurgeSteps ==
  ASSUME NEW l, Len(l) \in Nat
  PROVE  /\ purge(l)[0] = <<>>
         /\ \A i \in 1 .. Len(l) :
               purge(l)[i] = IF l[i].left > 0 THEN Append(purge(l)[i - 1], l[i])
                             ELSE purge(l)[i - 1]
  <1> DEFINE Is(f) == f = [i \in 0 .. Len(l) |-> Step(l, f, i)]
  <1>1. \E f : Is(f)
    BY PurgeExists
  <1>2. purge(l) = CHOOSE f : Is(f)
    BY DEF purge, Step
  <1>3. Is(purge(l))
    <2> HIDE DEF Is
    <2> QED BY <1>1, <1>2
  <1>4. \A i \in 0 .. Len(l) : purge(l)[i] = Step(l, purge(l), i)
    BY <1>3
  <1> HIDE DEF Is
  <1>5. 0 \in 0 .. Len(l) /\ \A i \in 1 .. Len(l) : i \in 0 .. Len(l) /\ i # 0
    OBVIOUS
  <1> QED BY <1>4, <1>5 DEF Step

(* The purge drops entries and invents none, and keeps addresses apart.    *)
Distinct(s) == \A i, j \in 1 .. Len(s) : s[i].addr = s[j].addr => i = j
Within(s, l, n) == \A k \in 1 .. Len(s) : \E j \in 1 .. n : s[k] = l[j]

LEMMA PutWithin ==
  ASSUME NEW l \in Seq(Entry), NEW n \in Nat, n + 1 <= Len(l),
         NEW s \in Seq(Entry), Within(s, l, n), Distinct(l), Distinct(s)
  PROVE  /\ Append(s, l[n + 1]) \in Seq(Entry)
         /\ Within(Append(s, l[n + 1]), l, n + 1)
         /\ Distinct(Append(s, l[n + 1]))
  <1> DEFINE e == l[n + 1]
             t == Append(s, e)
  <1>0. n + 1 \in 1 .. Len(l) /\ n + 1 \in 1 .. n + 1 /\ Len(l) \in Nat
    OBVIOUS
  <1>1. e \in Entry
    BY <1>0
  <1> HIDE DEF e
  <1>2. /\ t \in Seq(Entry) /\ Len(t) = Len(s) + 1 /\ Len(s) \in Nat
        /\ t[Len(s) + 1] = e /\ \A k \in 1 .. Len(s) : t[k] = s[k]
    BY <1>1
  <1> HIDE DEF t
  <1>3. \A k \in 1 .. Len(t) : k \in 1 .. Len(s) \/ k = Len(s) + 1
    BY <1>2
  <1>4. Within(t, l, n + 1)
    <2> SUFFICES ASSUME NEW k \in 1 .. Len(t)
                 PROVE  \E j \in 1 .. n + 1 : t[k] = l[j]
      BY DEF Within
    <2>1. CASE k \in 1 .. Len(s)
      <3>1. PICK j \in 1 .. n : s[k] = l[j]
        BY <2>1 DEF Within
      <3>2. j \in 1 .. n + 1
        OBVIOUS
      <3> QED BY <1>2, <2>1, <3>1, <3>2
    <2>2. CASE k = Len(s) + 1
      BY <1>0, <1>2, <2>2 DEF e
    <2> QED BY <1>3, <2>1, <2>2
  <1>5. \A k \in 1 .. Len(s) : s[k].addr # e.addr
    <2> SUFFICES ASSUME NEW k \in 1 .. Len(s), s[k].addr = e.addr PROVE FALSE
      OBVIOUS
    <2>1. PICK j \in 1 .. n : s[k] = l[j]
      BY DEF Within
    <2>2. j \in 1 .. Len(l) /\ j # n + 1
      BY <1>0
    <2>3. l[j].addr = l[n + 1].addr
      BY <2>1 DEF e
    <2> QED BY <1>0, <2>2, <2>3 DEF Distinct
  <1>6. Distinct(t)
    <2> SUFFICES ASSUME NEW i \in 1 .. Len(t), NEW j \in 1 .. Len(t),
                        t[i].addr = t[j].addr
                 PROVE  i = j
      BY DEF Distinct
    <2>1. CASE i \in 1 .. Len(s) /\ j \in 1 .. Len(s)
      BY <1>2, <2>1 DEF Distinct
    <2>2. CASE i \in 1 .. Len(s) /\ j = Len(s) + 1
      BY <1>2, <1>5, <2>2
    <2>3. CASE i = Len(s) + 1 /\ j \in 1 .. Len(s)
      BY <1>2, <1>5, <2>3
    <2> QED BY <1>3, <2>1, <2>2, <2>3
  <1> QED BY <1>2, <1>4, <1>6 DEF t, e

LEMMA PurgeKeeps ==
  ASSUME NEW l \in Seq(Entry), Distinct(l)
  PROVE  LET q == purge(l)[Len(l)]
         IN  q \in Seq(Entry) /\ Within(q, l, Len(l)) /\ Distinct(q)
  <1> DEFINE f == purge(l)
             Good(i) == f[i] \in Seq(Entry) /\ Within(f[i], l, i) /\ Distinct(f[i])
             Bad == {i \in Nat : i <= Len(l) /\ ~Good(i)}
  <1>0. Len(l) \in Nat
    OBVIOUS
  <1>1. /\ f[0] = <<>>
        /\ \A i \in 1 .. Len(l) : f[i] = IF l[i].left > 0 THEN Append(f[i - 1], l[i])
                                         ELSE f[i - 1]
    BY <1>0, PurgeSteps
  <1> HIDE DEF f
  <1>2. ASSUME Bad # {} PROVE FALSE
    <2>1. PICK m \in Bad : \A k \in Bad : m <= k
      BY <1>2, Smallest
    <2>2. m # 0
      <3>1. Good(0)
        BY <1>1 DEF Within, Distinct
      <3> QED BY <2>1, <3>1
    <2>3. m - 1 \in Nat /\ m \in 1 .. Len(l) /\ m - 1 + 1 = m /\ m <= Len(l)
      BY <1>0, <2>1, <2>2
    <2>4. Good(m - 1)
      BY <1>0, <2>1, <2>3
    <2>5. CASE l[m].left > 0
      <3>1. f[m] = Append(f[m - 1], l[m])
        BY <1>1, <2>3, <2>5
      <3>2. /\ Append(f[m - 1], l[m - 1 + 1]) \in Seq(Entry)
            /\ Within(Append(f[m - 1], l[m - 1 + 1]), l, m - 1 + 1)
            /\ Distinct(Append(f[m - 1], l[m - 1 + 1]))
        BY <2>3, <2>4, PutWithin
      <3> QED BY <2>1, <2>3, <3>1, <3>2
    <2>6. CASE ~(l[m].left > 0)
      <3>1. f[m] = f[m - 1]
        BY <1>1, <2>3, <2>6
      <3>2. \A j \in 1 .. m - 1 : j \in 1 .. m
        BY <2>3
      <3>3. Within(f[m], l, m)
        BY <2>4, <3>1, <3>2 DEF Within
      <3> QED BY <2>1, <2>4, <3>1, <3>3
    <2> QED BY <2>5, <2>6
  <1>3. Good(Len(l))
    BY <1>0, <1>2
  <1> QED BY <1>3 DEF f

-----------------------------------------------------------------------------
(* Between serverAddClient's search and its insertion, an address that the *)
(* search has not found is not in the list.                                *)
SearchInv == req # None /\ at # req => \A i \in 1 .. Len(hl) : hl[i].addr # req
ListInv == Distinct(hl) /\ SearchInv

(* The parts of TypeOK.                                                    *)
ServerType ==
    /\ sup \in BOOLEAN /\ slives \in 0 .. MaxServerLives
    /\ hl \in Seq(Entry) /\ alarm \in -Slack .. WAKEUP
    /\ req \in Addresses \union {None} /\ at \in Addresses \union {None}
NetType ==
    /\ toServer \subseteq Packets
    /\ inbox \in [Clients -> Seq({"BC_SERVER", "SERVER_STILL_ALIVE"})]
    /\ lost \in 0 .. MaxLost /\ fault \in {"none", "stale", "dangling"}
ClientType ==
    /\ up \in [Clients -> BOOLEAN] /\ lives \in [Clients -> 0 .. MaxLives]
    /\ tick \in [Clients -> -Slack .. INTERVAL]
    /\ reading \in [Clients -> BOOLEAN]
    /\ lease \in [Clients -> (0 .. LEASE) \union {None}]
    /\ bcint \in [Clients -> 0 .. BC_INTERVAL]
Inv == ServerType /\ NetType /\ ClientType /\ ListInv

LEMMA TypeParts == TypeOK <=> ServerType /\ NetType /\ ClientType
  BY DEF TypeOK, ServerType, NetType, ClientType, Entry

(* The periods are numbers.                                                *)
LEMMA Periods ==
  /\ INTERVAL \in Nat /\ LEASE \in Nat /\ WAKEUP \in Nat /\ BC_INTERVAL \in Nat
  /\ Slack \in Nat /\ MaxLives \in Nat /\ MaxServerLives \in Nat
  /\ MaxLost \in Nat /\ Expiry \in Nat
  <1>1. WAKEUP \in Nat /\ WAKEUPS \in Nat
    BY PeriodsAssumption
  <1>2. Expiry \in Nat
    BY <1>1 DEF Expiry
  <1> QED BY <1>1, <1>2, PeriodsAssumption, BoundsAssumption

-----------------------------------------------------------------------------
(* A client's packet is a packet.                                          *)
LEMMA SendType ==
  ASSUME NetType, NEW c \in Clients, NEW type \in {"BC_CLIENT", "CLIENT_STILL_ALIVE"},
         NEW port \in 0 .. MaxLives, send(c, type, port)
  PROVE  toServer' \subseteq Packets
  BY DEF send, Packets, Addresses, NetType

(* The client's steps leave the server alone.                              *)
LEMMA ClientKeeps ==
  ASSUME Inv, NEW c \in Clients,
         clientStep(c) \/ initialize(c) \/ clientStops(c)
  PROVE  Inv'
  <1> USE Periods
  <1>t. ServerType /\ NetType /\ ClientType /\ ListInv
    BY DEF Inv
  <1>s. UNCHANGED server => ServerType' /\ ListInv'
    BY <1>t DEF server, ServerType, ListInv, Distinct, SearchInv
  <1>p. 0 \in 0 .. MaxLives /\ lives[c] \in 0 .. MaxLives
    BY <1>t DEF ClientType
  <1>1. CASE initialize(c)
    <2>1. toServer' \subseteq Packets
      BY <1>1, <1>p, <1>t, SendType DEF initialize
    <2>2. NetType'
      BY <1>1, <1>t, <2>1 DEF initialize, NetType
    <2>3. ClientType'
      BY <1>1, <1>t DEF initialize, ClientType
    <2> QED BY <1>1, <1>s, <2>2, <2>3 DEF initialize, Inv
  <1>2. CASE handlealarm(c)
    <2>1. toServer' \subseteq Packets
      <3>1. \/ send(c, "CLIENT_STILL_ALIVE", lives[c])
            \/ send(c, "BC_CLIENT", 0) \/ UNCHANGED toServer
        BY <1>2 DEF handlealarm
      <3> QED BY <1>p, <1>t, <3>1, SendType DEF NetType
    <2>2. NetType'
      BY <1>2, <1>t, <2>1 DEF handlealarm, NetType
    <2>3. bcint' \in [Clients -> 0 .. BC_INTERVAL]
      BY <1>2, <1>t DEF handlealarm, ClientType
    <2>4. ClientType'
      BY <1>2, <1>t, <2>3 DEF handlealarm, ClientType
    <2> QED BY <1>2, <1>s, <2>2, <2>4 DEF handlealarm, Inv
  <1>3. ASSUME NEW type, recv(c, type)
        PROVE  inbox' \in [Clients -> Seq({"BC_SERVER", "SERVER_STILL_ALIVE"})]
    <2>1. Tail(inbox[c]) \in Seq({"BC_SERVER", "SERVER_STILL_ALIVE"})
      BY <1>3, <1>t, HeadTailProperties DEF recv, NetType
    <2> QED BY <1>3, <1>t, <2>1 DEF recv, NetType
  <1>4. CASE addnewserver(c)
    <2>1. UNCHANGED toServer \/ send(c, "BC_CLIENT", lives[c])
      BY <1>4 DEF addnewserver
    <2>2. toServer' \subseteq Packets
      BY <1>p, <1>t, <2>1, SendType DEF NetType
    <2>3. NetType'
      BY <1>3, <1>4, <1>t, <2>2 DEF addnewserver, NetType
    <2>4. lease' \in [Clients -> (0 .. LEASE) \union {None}]
      BY <1>4, <1>t DEF addnewserver, ClientType
    <2>5. ClientType'
      BY <1>4, <1>t, <2>4 DEF addnewserver, ClientType
    <2> QED BY <1>4, <1>s, <2>3, <2>5 DEF addnewserver, Inv
  <1>5. CASE updateserver(c)
    <2>1. NetType'
      BY <1>3, <1>5, <1>t DEF updateserver, NetType
    <2>2. ClientType'
      BY <1>5, <1>t DEF updateserver, ClientType
    <2> QED BY <1>5, <1>s, <2>1, <2>2 DEF updateserver, Inv
  <1>6. CASE purgeserverlist(c)
    <2>1. NetType'
      BY <1>6, <1>t DEF purgeserverlist, NetType
    <2>2. lease' \in [Clients -> (0 .. LEASE) \union {None}]
      BY <1>6, <1>t DEF purgeserverlist, ClientType
    <2>3. INTERVAL \in -Slack .. INTERVAL
      OBVIOUS
    <2>4. ClientType'
      BY <1>6, <1>t, <2>2, <2>3 DEF purgeserverlist, ClientType
    <2> QED BY <1>6, <1>s, <2>1, <2>4 DEF purgeserverlist, Inv
  <1>7. CASE clientStops(c)
    <2>1. <<>> \in Seq({"BC_SERVER", "SERVER_STILL_ALIVE"})
      OBVIOUS
    <2>2. NetType'
      BY <1>7, <1>t, <2>1 DEF clientStops, NetType
    <2>3. 0 \in -Slack .. INTERVAL /\ 0 \in 0 .. BC_INTERVAL
      OBVIOUS
    <2>4. ClientType'
      BY <1>7, <1>t, <2>3 DEF clientStops, ClientType
    <2> QED BY <1>7, <1>s, <2>2, <2>4 DEF clientStops, Inv
  <1> QED BY <1>1, <1>2, <1>4, <1>5, <1>6, <1>7 DEF clientStep

(* What is delivered is appended to the packets at a port.                 *)
LEMMA DeliverType ==
  ASSUME NetType, NEW c \in Clients,
         NEW packets \in Seq({"BC_SERVER", "SERVER_STILL_ALIVE"})
  PROVE  deliver(c, packets) \in Seq({"BC_SERVER", "SERVER_STILL_ALIVE"})
  BY ConcatProperties DEF deliver, NetType

(* A list in which only the time left of some entries is changed.          *)
LEMMA Renewed ==
  ASSUME hl \in Seq(Entry), ListInv, hl' \in [DOMAIN hl -> Entry],
         \A i \in DOMAIN hl : hl'[i].addr = hl[i].addr,
         req' = None \/ UNCHANGED <<req, at>>
  PROVE  hl' \in Seq(Entry) /\ ListInv'
  <1>1. DOMAIN hl = 1 .. Len(hl) /\ Len(hl) \in Nat
    OBVIOUS
  <1>2. hl' \in Seq(Entry) /\ Len(hl') = Len(hl)
    BY <1>1
  <1>3. Distinct(hl)'
    BY <1>1, <1>2 DEF ListInv, Distinct
  <1>4. SearchInv'
    BY <1>1, <1>2 DEF ListInv, SearchInv
  <1> QED BY <1>2, <1>3, <1>4 DEF ListInv

(* The server's steps.                                                     *)
LEMMA ServerKeeps ==
  ASSUME Inv, serverStep \/ serverRealInit \/ serverRealShutdown
  PROVE  Inv'
  <1> USE Periods
  <1>t. ServerType /\ NetType /\ ClientType /\ ListInv
    BY DEF Inv
  <1>h. /\ hl \in Seq(Entry) /\ DOMAIN hl = 1 .. Len(hl) /\ Len(hl) \in Nat
        /\ \A i \in DOMAIN hl : hl[i] \in Entry /\ hl[i].addr \in Addresses
    <2>1. hl \in Seq(Entry)
      BY <1>t DEF ServerType
    <2>2. \A i \in DOMAIN hl : hl[i] \in Entry
      BY <2>1
    <2>3. \A e \in Entry : e.addr \in Addresses
      BY DEF Entry
    <2> QED BY <2>1, <2>2, <2>3
  <1>i. inbox \in [Clients -> Seq({"BC_SERVER", "SERVER_STILL_ALIVE"})]
    BY <1>t DEF NetType
  <1>d. \A c \in Clients :
          /\ deliver(c, <<"BC_SERVER">>) \in Seq({"BC_SERVER", "SERVER_STILL_ALIVE"})
          /\ deliver(c, <<"SERVER_STILL_ALIVE">>)
                \in Seq({"BC_SERVER", "SERVER_STILL_ALIVE"})
          /\ deliver(c, <<"BC_SERVER", "SERVER_STILL_ALIVE">>)
                \in Seq({"BC_SERVER", "SERVER_STILL_ALIVE"})
    <2>1. /\ <<"BC_SERVER">> \in Seq({"BC_SERVER", "SERVER_STILL_ALIVE"})
          /\ <<"SERVER_STILL_ALIVE">> \in Seq({"BC_SERVER", "SERVER_STILL_ALIVE"})
          /\ <<"BC_SERVER", "SERVER_STILL_ALIVE">>
                \in Seq({"BC_SERVER", "SERVER_STILL_ALIVE"})
      OBVIOUS
    <2> QED BY <1>t, <2>1, DeliverType
  <1>c. UNCHANGED <<up, lives, tick, reading, lease, bcint>> => ClientType'
    BY <1>t DEF ClientType
  <1>w. WAKEUP \in -Slack .. WAKEUP /\ 0 \in -Slack .. WAKEUP
    OBVIOUS
  <1>1. CASE serverRealInit
    <2>1. NetType'
      BY <1>1, <1>t, <1>d DEF serverRealInit, NetType
    <2>2. ServerType'
      BY <1>1, <1>t, <1>w DEF serverRealInit, ServerType
    <2>3. ListInv'
      BY <1>1, <1>t DEF serverRealInit, ListInv, Distinct, SearchInv
    <2> QED BY <1>1, <1>c, <2>1, <2>2, <2>3 DEF serverRealInit, Inv
  <1>2. CASE serverProcessBC
    <2>1. PICK m \in toServer :
            /\ toServer' = toServer \ {m}
            /\ \/ UNCHANGED <<req, at>>
               \/ /\ req' = m.from
                  /\ at' = IF listed(m.from) THEN m.from
                           ELSE IF hl = <<>> THEN None ELSE Last(hl).addr
      BY <1>2 DEF serverProcessBC
    <2>2. UNCHANGED <<sup, slives, hl, alarm, clientVars, lost, fault>>
      BY <1>2 DEF serverProcessBC
    <2>3. m.from \in Addresses
      BY <1>t DEF NetType, Packets
    <2>4. hl # <<>> => Last(hl).addr \in Addresses
                       /\ \E i \in DOMAIN hl : Last(hl).addr = hl[i].addr
      <3>1. hl # <<>> => Len(hl) \in DOMAIN hl
        BY <1>h, EmptySeq
      <3> QED BY <1>h, <3>1 DEF Last
    <2>5. ServerType'
      BY <1>t, <2>1, <2>2, <2>3, <2>4 DEF ServerType
    <2>6. SearchInv'
      <3>1. CASE UNCHANGED <<req, at>>
        BY <1>t, <2>2, <3>1 DEF ListInv, SearchInv
      <3>2. CASE req' = m.from /\ listed(m.from)
        BY <2>1, <3>2, <1>t, <2>2 DEF ListInv, SearchInv
      <3>3. CASE req' = m.from /\ ~listed(m.from)
        <4>1. \A i \in DOMAIN hl : hl[i].addr # m.from
          BY <3>3 DEF listed
        <4> QED BY <1>h, <2>2, <3>3, <4>1 DEF SearchInv
      <3> QED BY <2>1, <3>1, <3>2, <3>3
    <2>7. ListInv'
      BY <1>t, <2>2, <2>6 DEF ListInv, Distinct
    <2>8. NetType'
      BY <1>t, <2>1, <2>2 DEF NetType, clientVars
    <2> QED BY <1>c, <2>2, <2>5, <2>7, <2>8 DEF Inv, clientVars
  <1>3. CASE serverAddClient
    <2>1. /\ req # None /\ req' = None /\ at' = None
          /\ UNCHANGED <<sup, slives, alarm, toServer, up, lives, tick, reading,
                         lease, bcint, lost>>
      BY <1>3 DEF serverAddClient
    <2>2. req \in Addresses
      BY <1>t, <2>1 DEF ServerType
    <2>3. hl' \in Seq(Entry) /\ ListInv'
      <3>1. CASE UNCHANGED hl
        BY <1>h, <1>t, <2>1, <3>1 DEF ListInv, Distinct, SearchInv
      <3>2. CASE hl' = [i \in DOMAIN hl |-> IF hl[i].addr = req
                              THEN [hl[i] EXCEPT !.left = Expiry] ELSE hl[i]]
        <4>1. Expiry \in 0 .. Expiry
          OBVIOUS
        <4>2. hl' \in [DOMAIN hl -> Entry]
              /\ \A i \in DOMAIN hl : hl'[i].addr = hl[i].addr
          BY <1>h, <3>2, <4>1 DEF Entry
        <4> QED BY <1>h, <1>t, <2>1, <4>2, Renewed
      <3>3. CASE hl' = Append(hl, [addr |-> req, left |-> Expiry]) /\ at # req
        <4> DEFINE e == [addr |-> req, left |-> Expiry]
        <4>1. e \in Entry /\ e.addr = req
          BY <2>2 DEF Entry
        <4> HIDE DEF e
        <4>2. /\ hl' \in Seq(Entry) /\ Len(hl') = Len(hl) + 1
              /\ hl'[Len(hl) + 1] = e
              /\ \A i \in 1 .. Len(hl) : hl'[i] = hl[i]
          BY <1>h, <3>3, <4>1 DEF e
        <4>3. \A i \in 1 .. Len(hl) : hl[i].addr # req
          BY <1>t, <2>1, <3>3 DEF ListInv, SearchInv
        <4>4. \A i \in 1 .. Len(hl) + 1 : i \in 1 .. Len(hl) \/ i = Len(hl) + 1
          BY <1>h
        <4>5. Distinct(hl)'
          BY <1>t, <4>1, <4>2, <4>3, <4>4 DEF Distinct, ListInv
        <4> QED BY <2>1, <4>2, <4>5 DEF ListInv, SearchInv
      <3> QED BY <1>3, <3>1, <3>2, <3>3 DEF serverAddClient
    <2>4. ServerType'
      BY <1>t, <2>1, <2>3 DEF ServerType
    <2>5. inbox' \in [Clients -> Seq({"BC_SERVER", "SERVER_STILL_ALIVE"})]
      BY <1>3, <1>d, <1>i DEF serverAddClient
    <2>6. fault' \in {"none", "stale", "dangling"}
      BY <1>3, <1>t DEF serverAddClient, NetType
    <2>7. NetType'
      BY <1>t, <2>1, <2>5, <2>6 DEF NetType
    <2> QED BY <1>c, <2>1, <2>3, <2>4, <2>7 DEF Inv
  <1>4. CASE serverUpdateClient
    <2>1. /\ UNCHANGED <<sup, slives, alarm, req, at, clientVars, lost, fault>>
          /\ toServer' \subseteq toServer
      BY <1>4 DEF serverUpdateClient
    <2>2. hl' \in [DOMAIN hl -> Entry]
          /\ \A i \in DOMAIN hl : hl'[i].addr = hl[i].addr
      <3>1. Expiry \in 0 .. Expiry
        OBVIOUS
      <3>2. DOMAIN hl' = DOMAIN hl
            /\ \A i \in DOMAIN hl : hl'[i] = hl[i]
                                    \/ hl'[i] = [hl[i] EXCEPT !.left = Expiry]
        BY <1>4 DEF serverUpdateClient
      <3>3. hl' = [i \in DOMAIN hl |-> hl'[i]]
        BY <1>4 DEF serverUpdateClient
      <3>4. \A i \in DOMAIN hl : hl'[i] \in Entry /\ hl'[i].addr = hl[i].addr
        BY <1>h, <3>1, <3>2 DEF Entry
      <3> QED BY <3>3, <3>4
    <2>3. hl' \in Seq(Entry) /\ ListInv'
      BY <1>h, <1>t, <2>1, <2>2, Renewed
    <2>4. ServerType'
      BY <1>t, <2>1, <2>3 DEF ServerType
    <2>5. NetType'
      BY <1>t, <2>1 DEF NetType, clientVars
    <2> QED BY <1>c, <2>1, <2>3, <2>4, <2>5 DEF Inv, clientVars
  <1>5. CASE serverHandleAlarm
    <2>1. /\ hl' = purge(hl)[Len(hl)] /\ alarm' = WAKEUP
          /\ UNCHANGED <<sup, slives, req, at, toServer, up, lives, tick, reading,
                         lease, bcint, lost>>
      BY <1>5 DEF serverHandleAlarm, purged
    <2>2. hl' \in Seq(Entry) /\ Within(hl', hl, Len(hl)) /\ Distinct(hl')
      BY <1>h, <1>t, <2>1, PurgeKeeps DEF ListInv
    <2>3. SearchInv'
      <3> SUFFICES ASSUME req # None, at # req, NEW i \in 1 .. Len(hl')
                   PROVE  hl'[i].addr # req
        BY <2>1 DEF SearchInv
      <3>1. PICK j \in 1 .. Len(hl) : hl'[i] = hl[j]
        BY <2>2 DEF Within
      <3> QED BY <1>t, <3>1 DEF ListInv, SearchInv
    <2>4. ListInv'
      BY <2>2, <2>3 DEF ListInv, Distinct
    <2>5. ServerType'
      BY <1>t, <1>w, <2>1, <2>2 DEF ServerType
    <2>6. inbox' \in [Clients -> Seq({"BC_SERVER", "SERVER_STILL_ALIVE"})]
      BY <1>5, <1>d, <1>i DEF serverHandleAlarm
    <2>7. fault' \in {"none", "stale", "dangling"}
      BY <1>5, <1>t DEF serverHandleAlarm, NetType
    <2>8. NetType'
      BY <1>t, <2>1, <2>6, <2>7 DEF NetType
    <2> QED BY <1>c, <2>1, <2>4, <2>5, <2>8 DEF Inv
  <1>6. CASE serverRealShutdown
    <2>1. ServerType' /\ ListInv'
      <3>1. /\ sup' = FALSE /\ slives' = slives /\ hl' = <<>> /\ alarm' = 0
            /\ req' = None /\ at' = None
        BY <1>6 DEF serverRealShutdown
      <3>2. hl' \in Seq(Entry) /\ 1 .. Len(hl') = {}
        BY <3>1
      <3>3. ListInv'
        BY <3>1, <3>2 DEF ListInv, Distinct, SearchInv
      <3> QED BY <1>t, <1>w, <3>1, <3>2, <3>3 DEF ServerType
    <2>2. NetType'
      BY <1>6, <1>t DEF serverRealShutdown, NetType, clientVars
    <2> QED BY <1>6, <1>c, <2>1, <2>2 DEF serverRealShutdown, Inv, clientVars
  <1> QED BY <1>1, <1>2, <1>3, <1>4, <1>5, <1>6 DEF serverStep

(* The network and the clock.                                              *)
LEMMA RestKeeps ==
  ASSUME Inv, \/ elapse \/ UNCHANGED vars \/ \E m \in toServer : loseToServer(m)
              \/ \E c \in Clients : loseToClient(c)
  PROVE  Inv'
  <1> USE Periods
  <1>t. ServerType /\ NetType /\ ClientType /\ ListInv
    BY DEF Inv
  <1>s. UNCHANGED server => ServerType' /\ ListInv'
    BY <1>t DEF server, ServerType, ListInv, Distinct, SearchInv
  <1>c. UNCHANGED <<up, lives, tick, reading, lease, bcint>> => ClientType'
    BY <1>t DEF ClientType
  <1>1. CASE \E m \in toServer : loseToServer(m)
    <2>1. NetType'
      BY <1>1, <1>t DEF loseToServer, NetType, clientVars
    <2> QED BY <1>1, <1>c, <1>s, <2>1 DEF loseToServer, Inv, clientVars
  <1>2. ASSUME NEW c \in Clients, loseToClient(c) PROVE Inv'
    <2> DEFINE M == {"BC_SERVER", "SERVER_STILL_ALIVE"}
    <2>1. inbox[c] \in Seq(M) /\ inbox[c] # <<>>
      BY <1>2, <1>t DEF loseToClient, NetType
    <2>2. Front(inbox[c]) \in Seq(M)
      <3>1. Len(inbox[c]) \in Nat /\ 1 \in Int /\ Len(inbox[c]) - 1 \in Int
            /\ \A i \in 1 .. Len(inbox[c]) - 1 : inbox[c][i] \in M
        BY <2>1
      <3> HIDE DEF M
      <3> QED BY <3>1, SubSeqProperties DEF Front
    <2>3. NetType'
      BY <1>2, <1>t, <2>2 DEF loseToClient, NetType
    <2> QED BY <1>2, <1>c, <1>s, <2>3 DEF loseToClient, Inv
  <1>3. CASE elapse
    <2>1. \A n \in Nat : \A t \in 0 .. n : less(t) \in 0 .. n
      BY DEF less
    <2>2. /\ hl \in Seq(Entry) /\ DOMAIN hl = 1 .. Len(hl) /\ Len(hl) \in Nat
          /\ \A i \in DOMAIN hl : hl[i] \in Entry
      BY <1>t DEF ServerType
    <2>3. hl' = [i \in DOMAIN hl |-> [hl[i] EXCEPT !.left = less(@)]]
          /\ UNCHANGED <<sup, slives, req, at, toServer, up, lives, reading, inbox,
                         bcint, lost, fault>>
      BY <1>3 DEF elapse
    <2>4. \A i \in DOMAIN hl : less(hl[i].left) \in 0 .. Expiry
      BY <2>1, <2>2 DEF Entry
    <2>5. hl' \in [DOMAIN hl -> Entry] /\ \A i \in DOMAIN hl : hl'[i].addr = hl[i].addr
      BY <2>2, <2>3, <2>4 DEF Entry
    <2>6. hl' \in Seq(Entry) /\ ListInv'
      BY <1>t, <2>2, <2>3, <2>5, Renewed
    <2>7. alarm' \in -Slack .. WAKEUP
      BY <1>3, <1>t DEF elapse, ServerType
    <2>8. ServerType'
      BY <1>t, <2>3, <2>6, <2>7 DEF ServerType
    <2>9. tick' \in [Clients -> -Slack .. INTERVAL]
      <3>1. \A c \in Clients : (IF up[c] THEN tick[c] - 1 ELSE tick[c])
                                \in -Slack .. INTERVAL
        BY <1>3, <1>t DEF elapse, ClientType
      <3> QED BY <1>3, <3>1 DEF elapse
    <2>10. lease' \in [Clients -> (0 .. LEASE) \union {None}]
      <3>1. \A c \in Clients : (IF lease[c] = None THEN None ELSE less(lease[c]))
                                \in (0 .. LEASE) \union {None}
        BY <1>t, <2>1 DEF ClientType
      <3> QED BY <1>3, <3>1 DEF elapse
    <2>11. ClientType' /\ NetType'
      BY <1>t, <2>3, <2>9, <2>10 DEF ClientType, NetType
    <2> QED BY <2>6, <2>8, <2>11 DEF Inv
  <1>4. CASE UNCHANGED vars
    <2>1. NetType'
      BY <1>4, <1>t DEF vars, clientVars, NetType
    <2> QED BY <1>4, <1>c, <1>s, <2>1 DEF vars, clientVars, Inv
  <1> QED BY <1>1, <1>2, <1>3, <1>4

(* All of it holds in every state, however packets are lost, processes     *)
(* restarted and alarms interleaved.                                       *)
LEMMA AlwaysInv == Spec => []Inv
  <1>1. Init => Inv
    <2> SUFFICES ASSUME Init PROVE Inv
      OBVIOUS
    <2>1. ServerType /\ ListInv
      <3>1. /\ sup = FALSE /\ slives = 0 /\ hl = <<>> /\ alarm = 0
            /\ req = None /\ at = None
        BY DEF Init
      <3>2. hl \in Seq(Entry) /\ 1 .. Len(hl) = {}
        BY <3>1
      <3>3. ListInv
        BY <3>1, <3>2 DEF ListInv, Distinct, SearchInv
      <3>4. 0 \in -Slack .. WAKEUP /\ 0 \in 0 .. MaxServerLives
        BY Periods
      <3> QED BY <3>1, <3>2, <3>3, <3>4 DEF ServerType
    <2>2. <<>> \in Seq({"BC_SERVER", "SERVER_STILL_ALIVE"})
      OBVIOUS
    <2>3. NetType
      BY Periods, <2>2 DEF Init, NetType
    <2>4. ClientType
      BY Periods DEF Init, ClientType
    <2> QED BY <2>1, <2>3, <2>4 DEF Inv
  <1>2. Inv /\ [Next]_vars => Inv'
    BY ClientKeeps, ServerKeeps, RestKeeps DEF Next, Progress, Environment
  <1> QED BY <1>1, <1>2, PTL DEF Spec

(* Type correctness of the lease protocol of server/udp_server.c and       *)
(* client/Net/Peep/BC/BC.pm, for any number of clients and any periods:    *)
(* lists, packets and timers keep their shapes and timers their periods.   *)
THEOREM TypeCorrect == Spec => []TypeOK
  <1>1. Inv => TypeOK
    BY TypeParts DEF Inv
  <1> QED BY AlwaysInv, <1>1, PTL

(* serverAddClient never makes a second entry for an address, although the *)
(* alarm handler may purge the list between its search and its insertion,  *)
(* for any number of clients, restarts and losses.                         *)
THEOREM OneLease == Spec => []OneLeasePerAddress
  <1>1. Inv => OneLeasePerAddress
    <2> SUFFICES ASSUME Inv PROVE OneLeasePerAddress
      OBVIOUS
    <2>1. DOMAIN hl = 1 .. Len(hl)
      BY DEF Inv, ServerType
    <2> QED BY <2>1 DEF Inv, ListInv, Distinct, OneLeasePerAddress
  <1> QED BY AlwaysInv, <1>1, PTL

-----------------------------------------------------------------------------
(* LeasesRenewed.                                                          *)

(* What c's entry in the server's list lives on: a broadcast of c that the *)
(* server has not acted upon, a renewal by c on its way, and at c's port   *)
(* an answer of the server that c has not read.                            *)
BCPending(c) ==
    [type |-> "BC_CLIENT", from |-> <<c, 0>>] \in toServer \/ req = <<c, 0>>
AlivePending(c) ==
    \E m \in toServer : m.type = "CLIENT_STILL_ALIVE" /\ m.from[1] = c
Unread(c) == \E k \in 1 .. Len(inbox[c]) : inbox[c][k] = "SERVER_STILL_ALIVE"

(* The entries of c's host that matter to c: its own, and the first one,   *)
(* which is the one that c's renewals renew.                               *)
FirstIn(l, c, i) ==
    /\ host(l[i].addr[1]) = host(c)
    /\ \A j \in 1 .. Len(l) : j < i => host(l[j].addr[1]) # host(c)
Safe(l, c, n) ==
    \E i \in 1 .. Len(l) :
        /\ l[i].addr = <<c, 0>> \/ FirstIn(l, c, i)
        /\ l[i].left >= n
Held(l, c) == \E i \in 1 .. Len(l) : l[i].addr = <<c, 0>> /\ l[i].left > 0
In(l, c) == \E i \in 1 .. Len(l) : l[i].addr = <<c, 0>>

(* The time that such an entry has left at least.  A client that has just  *)
(* found the server looks at its socket once more before it renews.        *)
FloorOf(a, r, n, t) ==
    IF a THEN Expiry - 2 * (INTERVAL + Slack)
    ELSE IF r THEN Expiry - (INTERVAL + Slack)
    ELSE IF n THEN Expiry - INTERVAL + t
    ELSE Expiry - 2 * INTERVAL - Slack + t
Floor(c) == FloorOf(AlivePending(c), reading[c], lease[c] = None, tick[c])

Known(c) == alive /\ sup /\ up[c] /\ In(hl, c) /\ lost = 0
ClientSide(c) ==
    lease[c] # None => Unread(c) \/ lease[c] >= LEASE - WAKEUP + alarm
Answered(c) == lease[c] = None => BCPending(c) \/ Unread(c)
ServerSide(c) ==
    \/ Safe(hl, c, Floor(c))
    \/ BCPending(c) /\ (Held(hl, c) \/ (lease[c] = None /\ inbox[c] = <<>>))
Idle ==
    /\ ~sup => hl = <<>>
    /\ hl # <<>> \/ req # None => containsIDClass
    /\ \A c \in Clients : ~up[c] => inbox[c] = <<>> /\ lease[c] = None
RenewInv(c) == Known(c) => ClientSide(c) /\ Answered(c) /\ ServerSide(c)

RInv == Idle /\ \A c \in Clients : RenewInv(c)

(* The lease is longer than the time between two renewals, and an entry    *)
(* lives longer than two alarms of a client, each as late as it may be.    *)
Timing == LEASE > WAKEUP + Slack /\ Expiry > 2 * (INTERVAL + Slack)

(* What a change of the list does to the entries that matter.              *)
LEMMA SafeLess ==
  ASSUME NEW l \in Seq(Entry), NEW c, NEW n \in Int, NEW m \in Int, m <= n,
         Safe(l, c, n)
  PROVE  Safe(l, c, m)
  <1>1. PICK i \in 1 .. Len(l) :
          (l[i].addr = <<c, 0>> \/ FirstIn(l, c, i)) /\ l[i].left >= n
    BY DEF Safe
  <1>2. l[i] \in Entry
    OBVIOUS
  <1>3. l[i].left \in Int
    BY <1>2, Periods DEF Entry
  <1>4. l[i].left >= m
    BY <1>1, <1>3
  <1> QED BY <1>1, <1>4 DEF Safe

(* No entry has less time left than before.                                *)
LEMMA RenewList ==
  ASSUME NEW l \in Seq(Entry), NEW k \in Seq(Entry), Len(k) = Len(l),
         \A i \in 1 .. Len(l) : k[i].addr = l[i].addr /\ k[i].left >= l[i].left,
         NEW c, NEW n \in Int
  PROVE  /\ In(k, c) <=> In(l, c)
         /\ Safe(l, c, n) => Safe(k, c, n)
         /\ Held(l, c) => Held(k, c)
  <1>0. \A i \in 1 .. Len(l) : l[i].left \in Int /\ k[i].left \in Int
    <2>1. \A i \in 1 .. Len(l) : l[i] \in Entry /\ k[i] \in Entry
      OBVIOUS
    <2> QED BY <2>1, Periods DEF Entry
  <1>1. In(k, c) <=> In(l, c)
    BY DEF In
  <1>2. \A i \in 1 .. Len(l) : FirstIn(l, c, i) => FirstIn(k, c, i)
    BY DEF FirstIn
  <1>3. \A i \in 1 .. Len(l) : /\ l[i].left >= n => k[i].left >= n
                               /\ l[i].left > 0 => k[i].left > 0
    BY <1>0
  <1>4. Safe(l, c, n) => Safe(k, c, n)
    BY <1>2, <1>3 DEF Safe
  <1>5. Held(l, c) => Held(k, c)
    BY <1>3 DEF Held
  <1> QED BY <1>1, <1>4, <1>5

LEMMA AppendList ==
  ASSUME NEW l \in Seq(Entry), NEW e \in Entry, NEW c, NEW n \in Int
  PROVE  LET k == Append(l, e)
         IN  /\ In(k, c) <=> In(l, c) \/ e.addr = <<c, 0>>
             /\ Safe(l, c, n) => Safe(k, c, n)
             /\ Held(l, c) => Held(k, c)
             /\ e.addr = <<c, 0>> /\ e.left >= n => Safe(k, c, n)
  <1> DEFINE k == Append(l, e)
  <1>1. /\ Len(k) = Len(l) + 1 /\ Len(l) \in Nat /\ k[Len(l) + 1] = e
        /\ \A i \in 1 .. Len(l) : k[i] = l[i]
    OBVIOUS
  <1> HIDE DEF k
  <1>2. /\ Len(l) + 1 \in 1 .. Len(k)
        /\ \A i \in 1 .. Len(l) : i \in 1 .. Len(k)
        /\ \A i \in 1 .. Len(k) : i \in 1 .. Len(l) \/ i = Len(l) + 1
    BY <1>1
  <1>3. In(k, c) <=> In(l, c) \/ e.addr = <<c, 0>>
    BY <1>1, <1>2 DEF In
  <1>4. \A i \in 1 .. Len(l) : FirstIn(l, c, i) => FirstIn(k, c, i)
    <2> SUFFICES ASSUME NEW i \in 1 .. Len(l), FirstIn(l, c, i),
                        NEW j \in 1 .. Len(k), j < i
                 PROVE  host(k[j].addr[1]) # host(c)
      BY <1>1 DEF FirstIn
    <2>1. j \in 1 .. Len(l)
      BY <1>1
    <2> QED BY <1>1, <2>1 DEF FirstIn
  <1>5. Safe(l, c, n) => Safe(k, c, n)
    BY <1>1, <1>2, <1>4 DEF Safe
  <1>6. Held(l, c) => Held(k, c)
    BY <1>1, <1>2 DEF Held
  <1>7. e.addr = <<c, 0>> /\ e.left >= n => Safe(k, c, n)
    BY <1>1, <1>2 DEF Safe
  <1> QED BY <1>3, <1>5, <1>6, <1>7 DEF k

(* A unit of time.                                                         *)
LEMMA OlderList ==
  ASSUME NEW l \in Seq(Entry), NEW k \in Seq(Entry), Len(k) = Len(l),
         \A i \in 1 .. Len(l) : k[i].addr = l[i].addr /\ k[i].left = less(l[i].left),
         NEW c, NEW n \in Int
  PROVE  (In(k, c) <=> In(l, c)) /\ (Safe(l, c, n) => Safe(k, c, n - 1))
  <1>0. \A i \in 1 .. Len(l) : l[i].left \in Nat
    <2>1. \A i \in 1 .. Len(l) : l[i] \in Entry
      OBVIOUS
    <2> QED BY <2>1, Periods DEF Entry
  <1>1. In(k, c) <=> In(l, c)
    BY DEF In
  <1>2. \A i \in 1 .. Len(l) : FirstIn(l, c, i) => FirstIn(k, c, i)
    BY DEF FirstIn
  <1>3. \A i \in 1 .. Len(l) : l[i].left >= n => k[i].left >= n - 1
    BY <1>0 DEF less
  <1>4. Safe(l, c, n) => Safe(k, c, n - 1)
    BY <1>2, <1>3 DEF Safe
  <1> QED BY <1>1, <1>4

(* Whoever has an entry has a first entry of his host.                     *)
LEMMA FirstExists ==
  ASSUME NEW l \in Seq(Entry), NEW c, In(l, c)
  PROVE  \E i \in 1 .. Len(l) : FirstIn(l, c, i)
  <1> DEFINE T == {i \in Nat : i \in 1 .. Len(l) /\ host(l[i].addr[1]) = host(c)}
  <1>1. PICK i \in 1 .. Len(l) : l[i].addr = <<c, 0>>
    BY DEF In
  <1>2. i \in Nat /\ i \in T
    BY <1>1
  <1>3. PICK f \in T : \A y \in T : f <= y
    BY <1>2, Smallest
  <1>4. \A j \in 1 .. Len(l) : j < f => j \notin T
    BY <1>3
  <1>5. \A j \in 1 .. Len(l) : j < f => host(l[j].addr[1]) # host(c)
    BY <1>4
  <1> QED BY <1>3, <1>5 DEF FirstIn

(* The purge keeps what has time left, and the order.                      *)
Alive(s) == \A k \in 1 .. Len(s) : s[k].left > 0
Whole(s, l, n) ==
    \A j \in 1 .. n : l[j].left > 0 => \E k \in 1 .. Len(s) : s[k] = l[j]
Ordered(s, l) ==
    \A k1, k2 \in 1 .. Len(s) : \A j1, j2 \in 1 .. Len(l) :
        k1 < k2 /\ s[k1] = l[j1] /\ s[k2] = l[j2] => j1 < j2

LEMMA PutOrdered ==
  ASSUME NEW l \in Seq(Entry), NEW n \in Nat, n + 1 <= Len(l), Distinct(l),
         NEW s \in Seq(Entry), Within(s, l, n), l[n + 1].left > 0,
         Alive(s), Whole(s, l, n), Ordered(s, l)
  PROVE  LET t == Append(s, l[n + 1])
         IN  Alive(t) /\ Whole(t, l, n + 1) /\ Ordered(t, l)
  <1> DEFINE e == l[n + 1]
             t == Append(s, e)
  <1>0. n + 1 \in 1 .. Len(l) /\ Len(l) \in Nat
    OBVIOUS
  <1>1. e \in Entry /\ e.left > 0
    BY <1>0
  <1> HIDE DEF e
  <1>2. /\ Len(t) = Len(s) + 1 /\ Len(s) \in Nat
        /\ t[Len(s) + 1] = e /\ \A k \in 1 .. Len(s) : t[k] = s[k]
    BY <1>1
  <1> HIDE DEF t
  <1>3. /\ \A k \in 1 .. Len(t) : k \in 1 .. Len(s) \/ k = Len(s) + 1
        /\ \A k \in 1 .. Len(s) : k \in 1 .. Len(t)
        /\ Len(s) + 1 \in 1 .. Len(t)
    BY <1>2
  <1>4. Alive(t)
    BY <1>1, <1>2, <1>3 DEF Alive
  <1>5. Whole(t, l, n + 1)
    <2> SUFFICES ASSUME NEW j \in 1 .. n + 1, l[j].left > 0
                 PROVE  \E k \in 1 .. Len(t) : t[k] = l[j]
      BY DEF Whole
    <2>1. CASE j = n + 1
      BY <1>2, <1>3, <2>1 DEF e
    <2>2. CASE j # n + 1
      <3>1. j \in 1 .. n
        BY <2>2
      <3>2. PICK k \in 1 .. Len(s) : s[k] = l[j]
        BY <3>1 DEF Whole
      <3> QED BY <1>2, <1>3, <3>2
    <2> QED BY <2>1, <2>2
  <1>6. Ordered(t, l)
    <2> SUFFICES ASSUME NEW k1 \in 1 .. Len(t), NEW k2 \in 1 .. Len(t),
                        NEW j1 \in 1 .. Len(l), NEW j2 \in 1 .. Len(l),
                        k1 < k2, t[k1] = l[j1], t[k2] = l[j2]
                 PROVE  j1 < j2
      BY DEF Ordered
    <2>1. k1 \in 1 .. Len(s)
      BY <1>2
    <2>2. CASE k2 \in 1 .. Len(s)
      BY <1>2, <2>1, <2>2 DEF Ordered
    <2>3. CASE k2 = Len(s) + 1
      <3>1. PICK j \in 1 .. n : s[k1] = l[j]
        BY <2>1 DEF Within
      <3>2. j \in 1 .. Len(l) /\ l[j].addr = l[j1].addr
        BY <1>0, <1>2, <2>1, <3>1
      <3>3. j = j1
        BY <3>2 DEF Distinct
      <3>4. l[n + 1].addr = l[j2].addr
        BY <1>2, <2>3 DEF e
      <3>5. n + 1 = j2
        BY <1>0, <3>4 DEF Distinct
      <3> QED BY <3>3, <3>5
    <2> QED BY <1>3, <2>2, <2>3
  <1> QED BY <1>4, <1>5, <1>6 DEF t, e

LEMMA PurgeOrder ==
  ASSUME NEW l \in Seq(Entry), Distinct(l)
  PROVE  LET q == purge(l)[Len(l)]
         IN  Alive(q) /\ Whole(q, l, Len(l)) /\ Ordered(q, l)
  <1> DEFINE f == purge(l)
             Kept0(i) == f[i] \in Seq(Entry) /\ Within(f[i], l, i) /\ Distinct(f[i])
             Kept1(i) == Alive(f[i]) /\ Whole(f[i], l, i) /\ Ordered(f[i], l)
             Good(i) == Kept0(i) /\ Kept1(i)
             Bad == {i \in Nat : i <= Len(l) /\ ~Good(i)}
  <1>0. Len(l) \in Nat
    OBVIOUS
  <1>1. /\ f[0] = <<>>
        /\ \A i \in 1 .. Len(l) : f[i] = IF l[i].left > 0 THEN Append(f[i - 1], l[i])
                                         ELSE f[i - 1]
    BY <1>0, PurgeSteps
  <1> HIDE DEF f
  <1>2. ASSUME Bad # {} PROVE FALSE
    <2>1. PICK m \in Bad : \A k \in Bad : m <= k
      BY <1>2, Smallest
    <2>2. m # 0
      <3>1. Good(0)
        BY <1>1 DEF Within, Distinct, Alive, Whole, Ordered
      <3> QED BY <2>1, <3>1
    <2>3. m - 1 \in Nat /\ m \in 1 .. Len(l) /\ m - 1 + 1 = m /\ m <= Len(l)
      BY <1>0, <2>1, <2>2
    <2>4. Good(m - 1)
      BY <1>0, <2>1, <2>3
    <2>5. CASE l[m].left > 0
      <3>1. f[m] = Append(f[m - 1], l[m])
        BY <1>1, <2>3, <2>5
      <3>2. /\ Append(f[m - 1], l[m - 1 + 1]) \in Seq(Entry)
            /\ Within(Append(f[m - 1], l[m - 1 + 1]), l, m - 1 + 1)
            /\ Distinct(Append(f[m - 1], l[m - 1 + 1]))
        BY <2>3, <2>4, PutWithin
      <3>3. /\ Alive(Append(f[m - 1], l[m - 1 + 1]))
            /\ Whole(Append(f[m - 1], l[m - 1 + 1]), l, m - 1 + 1)
            /\ Ordered(Append(f[m - 1], l[m - 1 + 1]), l)
        BY <2>3, <2>4, <2>5, PutOrdered
      <3> QED BY <2>1, <2>3, <3>1, <3>2, <3>3
    <2>6. CASE ~(l[m].left > 0)
      <3>1. f[m] = f[m - 1]
        BY <1>1, <2>3, <2>6
      <3>2. \A j \in 1 .. m - 1 : j \in 1 .. m
        BY <2>3
      <3>3. Within(f[m], l, m)
        BY <2>4, <3>1, <3>2 DEF Within
      <3>4. \A j \in 1 .. m : j = m \/ j \in 1 .. m - 1
        BY <2>3
      <3>5. Whole(f[m], l, m)
        BY <2>4, <2>6, <3>1, <3>4 DEF Whole
      <3> QED BY <2>1, <2>4, <3>1, <3>3, <3>5
    <2> QED BY <2>5, <2>6
  <1>3. Good(Len(l))
    BY <1>0, <1>2
  <1> QED BY <1>3 DEF f

LEMMA PurgeList ==
  ASSUME NEW l \in Seq(Entry), Distinct(l), NEW c, NEW n \in Int, n > 0
  PROVE  LET q == purge(l)[Len(l)]
         IN  /\ In(q, c) => In(l, c) /\ Held(q, c)
             /\ Safe(l, c, n) => Safe(q, c, n)
             /\ Held(l, c) => Held(q, c)
  <1> DEFINE q == purge(l)[Len(l)]
  <1>1. q \in Seq(Entry) /\ Within(q, l, Len(l)) /\ Distinct(q)
    BY PurgeKeeps
  <1>2. Alive(q) /\ Whole(q, l, Len(l)) /\ Ordered(q, l)
    BY PurgeOrder
  <1> HIDE DEF q
  <1>3. In(q, c) => In(l, c) /\ Held(q, c)
    BY <1>1, <1>2 DEF In, Held, Within, Alive
  <1>4. Held(l, c) => Held(q, c)
    BY <1>2 DEF Held, Whole
  <1>5. ASSUME Safe(l, c, n) PROVE Safe(q, c, n)
    <2>1. PICK i \in 1 .. Len(l) :
            (l[i].addr = <<c, 0>> \/ FirstIn(l, c, i)) /\ l[i].left >= n
      BY <1>5 DEF Safe
    <2>2. l[i] \in Entry
      OBVIOUS
    <2>3. l[i].left > 0
      BY <2>1, <2>2, Periods DEF Entry
    <2>4. PICK k \in 1 .. Len(q) : q[k] = l[i]
      BY <1>2, <2>3 DEF Whole
    <2>5. FirstIn(l, c, i) => FirstIn(q, c, k)
      <3> SUFFICES ASSUME FirstIn(l, c, i), NEW j \in 1 .. Len(q), j < k
                   PROVE  host(q[j].addr[1]) # host(c)
        BY <2>4 DEF FirstIn
      <3>1. PICK h \in 1 .. Len(l) : q[j] = l[h]
        BY <1>1 DEF Within
      <3>2. h < i
        BY <1>2, <2>4, <3>1 DEF Ordered
      <3> QED BY <3>1, <3>2 DEF FirstIn
    <2> QED BY <2>1, <2>4, <2>5 DEF Safe
  <1> QED BY <1>3, <1>4, <1>5 DEF q

-----------------------------------------------------------------------------
(* The floor is above zero: this is what Timing is for.                    *)
LEMMA FloorRange ==
  ASSUME Timing, NEW a, NEW r, NEW n, NEW t \in -Slack .. INTERVAL
  PROVE  /\ FloorOf(a, r, n, t) \in Int
         /\ FloorOf(a, r, n, t) > 0 /\ FloorOf(a, r, n, t) <= Expiry
         /\ Expiry - 2 * (INTERVAL + Slack) <= FloorOf(a, r, n, t)
  <1>1. /\ Expiry \in Int /\ INTERVAL \in Int /\ Slack \in Int
        /\ INTERVAL >= 0 /\ Slack >= 0
    BY Periods
  <1>2. Expiry > 2 * (INTERVAL + Slack)
    BY DEF Timing
  <1> QED BY <1>1, <1>2 DEF FloorOf

LEMMA FloorNow ==
  ASSUME Inv, Timing, NEW c \in Clients
  PROVE  /\ Floor(c) \in Int /\ Floor(c) > 0 /\ Floor(c) <= Expiry
         /\ Expiry - 2 * (INTERVAL + Slack) <= Floor(c)
  <1>1. tick[c] \in -Slack .. INTERVAL
    BY DEF Inv, ClientType
  <1> QED BY <1>1, FloorRange DEF Floor

LEMMA FloorNext ==
  ASSUME Inv', Timing, NEW c \in Clients
  PROVE  Floor(c)' \in Int /\ Floor(c)' > 0 /\ Floor(c)' <= Expiry
  <1>1. tick'[c] \in -Slack .. INTERVAL
    BY DEF Inv, ClientType
  <1>2. \/ Floor(c)' = Expiry - 2 * (INTERVAL + Slack)
        \/ Floor(c)' = Expiry - (INTERVAL + Slack)
        \/ Floor(c)' = Expiry - INTERVAL + tick'[c]
        \/ Floor(c)' = Expiry - 2 * INTERVAL - Slack + tick'[c]
    BY DEF Floor, FloorOf
  <1>3. /\ Expiry \in Int /\ INTERVAL \in Nat /\ Slack \in Nat
        /\ Expiry > 2 * (INTERVAL + Slack)
    BY Periods DEF Timing
  <1> QED BY ONLY <1>1, <1>2, <1>3

(* A step that is none of c's.                                             *)
LEMMA Steady ==
  ASSUME NEW c \in Clients, RenewInv(c), alive,
         UNCHANGED <<sup, hl, alarm, req, lost>>,
         up'[c] = up[c], tick'[c] = tick[c], reading'[c] = reading[c],
         inbox'[c] = inbox[c], lease'[c] = lease[c],
         BCPending(c) => BCPending(c)', AlivePending(c)' <=> AlivePending(c)
  PROVE  RenewInv(c)'
  <1>1. Floor(c)' = Floor(c)
    <2>1. CASE AlivePending(c)
      BY <2>1 DEF Floor, FloorOf
    <2>2. CASE ~AlivePending(c)
      BY <2>2 DEF Floor, FloorOf
    <2> QED BY <2>1, <2>2
  <1>2. Unread(c)' <=> Unread(c)
    BY DEF Unread
  <1>3. In(hl, c)' <=> In(hl, c)
    BY DEF In
  <1>4. Safe(hl, c, Floor(c))' <=> Safe(hl, c, Floor(c))
    BY <1>1 DEF Safe, FirstIn
  <1>5. Held(hl, c)' <=> Held(hl, c)
    BY DEF Held
  <1>6. Known(c)' => Known(c)
    BY <1>3 DEF Known
  <1>7. ClientSide(c) /\ Answered(c) /\ ServerSide(c) =>
            (ClientSide(c) /\ Answered(c) /\ ServerSide(c))'
    BY <1>2, <1>4, <1>5 DEF ClientSide, Answered, ServerSide
  <1> QED BY <1>6, <1>7 DEF RenewInv

LEMMA SendOther ==
  ASSUME NEW c \in Clients, NEW d \in Clients, c # d, NEW type, NEW port,
         send(d, type, port), UNCHANGED req
  PROVE  (BCPending(c) => BCPending(c)') /\ (AlivePending(c)' <=> AlivePending(c))
  <1> DEFINE p == [type |-> type, from |-> <<d, port>>]
  <1>1. toServer' = toServer \/ toServer' = toServer \union {p}
    BY DEF send
  <1>2. p.from[1] = d
    OBVIOUS
  <1> HIDE DEF p
  <1>3. BCPending(c) => BCPending(c)'
    BY <1>1 DEF BCPending
  <1>4. AlivePending(c)' <=> AlivePending(c)
    BY <1>1, <1>2 DEF AlivePending
  <1> QED BY <1>3, <1>4

(* The steps of c's own.                                                   *)
LEMMA OwnStep ==
  ASSUME Inv, Inv', Timing, alive, Idle, NEW c \in Clients, RenewInv(c),
         clientStep(c) \/ initialize(c) \/ clientStops(c)
  PROVE  RenewInv(c)'
  <1>t. /\ hl \in Seq(Entry) /\ sup \in BOOLEAN
        /\ alarm \in -Slack .. WAKEUP /\ tick[c] \in -Slack .. INTERVAL
        /\ inbox[c] \in Seq({"BC_SERVER", "SERVER_STILL_ALIVE"})
        /\ lease[c] \in (0 .. LEASE) \union {None}
        /\ up \in [Clients -> BOOLEAN] /\ reading \in [Clients -> BOOLEAN]
        /\ DOMAIN inbox = Clients /\ DOMAIN lease = Clients /\ DOMAIN tick = Clients
    BY DEF Inv, ServerType, ClientType, NetType
  <1>f. Floor(c) \in Int /\ Floor(c)' \in Int
    BY FloorNow, FloorNext
  <1>p. None \notin Int /\ LEASE \in Nat /\ WAKEUP \in Nat /\ Slack \in Nat
        /\ INTERVAL \in Nat /\ Expiry \in Nat /\ LEASE > WAKEUP + Slack
    BY Periods, NoneAssumption DEF Timing
  <1>s. UNCHANGED server /\ UNCHANGED lost
    BY DEF clientStep, initialize, clientStops, handlealarm, addnewserver,
           updateserver, purgeserverlist
  <1>h. /\ UNCHANGED <<sup, hl, alarm, req, lost>>
        /\ In(hl, c)' <=> In(hl, c)
        /\ Held(hl, c)' <=> Held(hl, c)
        /\ Safe(hl, c, Floor(c)) /\ Floor(c)' <= Floor(c) => Safe(hl, c, Floor(c))'
    <2>1. UNCHANGED <<sup, hl, alarm, req, lost>>
      BY <1>s DEF server
    <2>2. Safe(hl, c, Floor(c)) /\ Floor(c)' <= Floor(c) => Safe(hl, c, Floor(c)')
      BY <1>f, <1>t, SafeLess
    <2>3. Safe(hl, c, Floor(c))' <=> Safe(hl, c, Floor(c)')
      BY <2>1 DEF Safe, FirstIn
    <2> QED BY <2>1, <2>2, <2>3 DEF In, Held
  <1>1. CASE initialize(c)
    <2>1. ~up[c] /\ UNCHANGED <<inbox, lease>> /\ send(c, "BC_CLIENT", 0)
      BY <1>1 DEF initialize
    <2>2. inbox[c] = <<>> /\ lease[c] = None
      BY <2>1 DEF Idle
    <2>3. sup => BCPending(c)'
      BY <2>1 DEF send, BCPending
    <2> QED BY <1>h, <2>1, <2>2, <2>3
            DEF RenewInv, Known, ClientSide, Answered, ServerSide
  <1>2. CASE handlealarm(c)
    <2>1. /\ up[c] /\ ~reading[c] /\ reading'[c] /\ UNCHANGED <<up, inbox, lease>>
          /\ \/ lease[c] # None /\ send(c, "CLIENT_STILL_ALIVE", lives[c])
             \/ lease[c] = None /\ send(c, "BC_CLIENT", 0)
             \/ lease[c] = None /\ UNCHANGED toServer
      BY <1>2, <1>t DEF handlealarm
    <2>2. toServer \subseteq toServer'
      BY <2>1 DEF send
    <2>3. BCPending(c) => BCPending(c)'
      BY <1>h, <2>2 DEF BCPending
    <2>4. AlivePending(c) => AlivePending(c)'
      BY <2>2 DEF AlivePending
    <2>5. sup /\ lease[c] # None => AlivePending(c)'
      <3> SUFFICES ASSUME sup, lease[c] # None PROVE AlivePending(c)'
        OBVIOUS
      <3> DEFINE p == [type |-> "CLIENT_STILL_ALIVE", from |-> <<c, lives[c]>>]
      <3>1. p \in toServer'
        BY <2>1 DEF send
      <3>2. p.type = "CLIENT_STILL_ALIVE" /\ p.from[1] = c
        OBVIOUS
      <3> HIDE DEF p
      <3> QED BY <3>1, <3>2 DEF AlivePending
    <2>6. sup => Floor(c)' <= Floor(c)
      <3> SUFFICES ASSUME sup PROVE Floor(c)' <= Floor(c)
        OBVIOUS
      <3>1. CASE AlivePending(c)'
        <4>1. Floor(c)' = Expiry - 2 * (INTERVAL + Slack)
          BY <3>1 DEF Floor, FloorOf
        <4>2. Expiry - 2 * (INTERVAL + Slack) <= Floor(c)
          BY FloorNow
        <4> QED BY <4>1, <4>2
      <3>2. CASE ~AlivePending(c)'
        <4>1. ~AlivePending(c) /\ lease[c] = None
          BY <2>4, <2>5, <3>2
        <4>2. Floor(c)' = Expiry - (INTERVAL + Slack)
          BY <2>1, <3>2 DEF Floor, FloorOf
        <4>3. Floor(c) = Expiry - INTERVAL + tick[c]
          BY <2>1, <4>1 DEF Floor, FloorOf
        <4> QED BY <1>p, <1>t, <4>2, <4>3
      <3> QED BY <3>1, <3>2
    <2>7. Unread(c)' <=> Unread(c)
      BY <2>1 DEF Unread
    <2>8. Known(c)' => Known(c) /\ sup
      BY <1>h, <2>1 DEF Known
    <2>9. Known(c) /\ sup => (ClientSide(c) /\ Answered(c) /\ ServerSide(c))'
      BY <1>h, <2>1, <2>3, <2>6, <2>7
         DEF RenewInv, ClientSide, Answered, ServerSide
    <2> QED BY <2>8, <2>9 DEF RenewInv
  <1>3. ASSUME NEW type, recv(c, type)
        PROVE  /\ reading[c] /\ inbox[c] # <<>>
               /\ type # "SERVER_STILL_ALIVE" /\ Unread(c) => Unread(c)'
    <2>1. /\ reading[c] /\ inbox[c] # <<>> /\ Head(inbox[c]) = type
          /\ inbox'[c] = Tail(inbox[c])
      BY <1>3, <1>t DEF recv
    <2>2. ASSUME type # "SERVER_STILL_ALIVE", Unread(c) PROVE Unread(c)'
      <3>1. PICK k \in 1 .. Len(inbox[c]) : inbox[c][k] = "SERVER_STILL_ALIVE"
        BY <2>2 DEF Unread
      <3>2. k # 1
        BY <2>1, <2>2, <3>1
      <3>3. /\ k - 1 \in 1 .. Len(Tail(inbox[c]))
            /\ Tail(inbox[c])[k - 1] = inbox[c][k]
        BY <1>t, <2>1, <3>1, <3>2
      <3> QED BY <2>1, <3>1, <3>3 DEF Unread
    <2> QED BY <2>1, <2>2
  <1>4. ASSUME reading[c], UNCHANGED <<reading, tick>>,
               AlivePending(c)' <=> AlivePending(c)
        PROVE  Floor(c)' = Floor(c)
    <2>1. CASE AlivePending(c)
      BY <1>4, <2>1 DEF Floor, FloorOf
    <2>2. CASE ~AlivePending(c)
      BY <1>4, <2>2 DEF Floor, FloorOf
    <2> QED BY <2>1, <2>2
  <1>5. CASE addnewserver(c)
    <2>1. recv(c, "BC_SERVER") /\ UNCHANGED <<up, reading, tick>>
      BY <1>5 DEF addnewserver
    <2>2. reading[c] /\ inbox[c] # <<>> /\ (Unread(c) => Unread(c)')
      BY <1>3, <2>1
    <2>3. /\ UNCHANGED toServer \/ send(c, "BC_CLIENT", lives[c])
          /\ lease[c] # None => lease'[c] = lease[c]
          /\ lease[c] = None => lease'[c] = LEASE \/ lease'[c] = None
      BY <1>5, <1>t DEF addnewserver
    <2>4. (BCPending(c) => BCPending(c)') /\ (AlivePending(c)' <=> AlivePending(c))
      <3> DEFINE p == [type |-> "BC_CLIENT", from |-> <<c, lives[c]>>]
      <3>1. toServer' = toServer \/ toServer' = toServer \union {p}
        BY <2>3 DEF send
      <3>2. p.type # "CLIENT_STILL_ALIVE"
        OBVIOUS
      <3> HIDE DEF p
      <3> QED BY <1>h, <3>1, <3>2 DEF BCPending, AlivePending
    <2>5. Floor(c)' <= Floor(c)
      BY <1>4, <1>f, <2>1, <2>2, <2>4
    <2>6. Known(c)' => Known(c)
      BY <1>h, <2>1 DEF Known
    <2>7. Known(c) => ClientSide(c)'
      BY <1>h, <1>p, <1>t, <2>2, <2>3 DEF RenewInv, ClientSide
    <2>8. Known(c) => Answered(c)'
      BY <1>p, <2>2, <2>3, <2>4 DEF RenewInv, Answered
    <2>9. Known(c) => ServerSide(c)'
      BY <1>h, <2>2, <2>4, <2>5 DEF RenewInv, ServerSide
    <2> QED BY <2>6, <2>7, <2>8, <2>9 DEF RenewInv
  <1>6. CASE updateserver(c)
    <2>1. recv(c, "SERVER_STILL_ALIVE") /\ UNCHANGED <<up, reading, tick, toServer>>
          /\ lease'[c] = LEASE
      BY <1>6, <1>t DEF updateserver
    <2>2. reading[c] /\ inbox[c] # <<>>
      BY <1>3, <2>1
    <2>4. (BCPending(c) => BCPending(c)') /\ (AlivePending(c)' <=> AlivePending(c))
      BY <1>h, <2>1 DEF BCPending, AlivePending
    <2>5. Floor(c)' <= Floor(c)
      BY <1>4, <1>f, <2>1, <2>2, <2>4
    <2>6. Known(c)' => Known(c)
      BY <1>h, <2>1 DEF Known
    <2>7. ClientSide(c)' /\ Answered(c)'
      BY <1>h, <1>p, <1>t, <2>1 DEF ClientSide, Answered
    <2>9. Known(c) => ServerSide(c)'
      BY <1>h, <2>2, <2>4, <2>5 DEF RenewInv, ServerSide
    <2> QED BY <2>6, <2>7, <2>9 DEF RenewInv
  <1>7. CASE purgeserverlist(c)
    <2>1. /\ reading[c] /\ ~reading'[c] /\ tick'[c] = INTERVAL
          /\ inbox[c] = <<>> /\ UNCHANGED <<up, inbox, toServer>>
          /\ lease'[c] = IF lease[c] # None /\ lease[c] <= 0 THEN None ELSE lease[c]
      BY <1>7, <1>t DEF purgeserverlist
    <2>2. ~Unread(c)
      BY <2>1 DEF Unread
    <2>3. Known(c) => lease'[c] = lease[c]
      <3> SUFFICES ASSUME Known(c), lease[c] # None PROVE lease'[c] = lease[c]
        BY <2>1
      <3>1. lease[c] >= LEASE - WAKEUP + alarm
        BY <2>2 DEF RenewInv, ClientSide
      <3>2. lease[c] > 0
        BY <1>p, <1>t, <3>1
      <3> QED BY <1>p, <1>t, <2>1, <3>2
    <2>4. (BCPending(c) => BCPending(c)') /\ (AlivePending(c)' <=> AlivePending(c))
      BY <1>h, <2>1 DEF BCPending, AlivePending
    <2>5. Known(c)' => Known(c)
      BY <1>h, <2>1 DEF Known
    <2>6. Known(c) /\ lease[c] # None => Floor(c)' <= Floor(c)
      <3> SUFFICES ASSUME Known(c), lease[c] # None PROVE Floor(c)' <= Floor(c)
        OBVIOUS
      <3>1. CASE AlivePending(c)
        BY <1>f, <2>4, <3>1 DEF Floor, FloorOf
      <3>2. CASE ~AlivePending(c)
        <4>1. Floor(c) = Expiry - (INTERVAL + Slack)
          BY <2>1, <3>2 DEF Floor, FloorOf
        <4>2. Floor(c)' = Expiry - 2 * INTERVAL - Slack + INTERVAL
          BY <2>1, <2>3, <2>4, <3>2 DEF Floor, FloorOf
        <4> QED BY <1>p, <4>1, <4>2
      <3> QED BY <3>1, <3>2
    <2>7. Known(c) => ClientSide(c)'
      BY <1>h, <2>2, <2>3 DEF RenewInv, ClientSide
    <2>8. Known(c) => Answered(c)'
      BY <2>2, <2>3, <2>4 DEF RenewInv, Answered
    <2>9. Known(c) => ServerSide(c)'
      <3>1. CASE lease[c] # None
        BY <1>h, <2>4, <2>6, <3>1 DEF RenewInv, ServerSide
      <3>2. CASE lease[c] = None
        BY <2>1, <2>2, <2>3, <2>4, <3>2 DEF RenewInv, Answered, ServerSide
      <3> QED BY <3>1, <3>2
    <2> QED BY <2>5, <2>7, <2>8, <2>9 DEF RenewInv
  <1>8. CASE clientStops(c)
    BY <1>8, <1>t DEF clientStops, RenewInv, Known
  <1> QED BY <1>1, <1>2, <1>5, <1>6, <1>7, <1>8 DEF clientStep

LEMMA ClientRenews ==
  ASSUME Inv, Inv', Timing, alive, RInv, NEW d \in Clients,
         clientStep(d) \/ initialize(d) \/ clientStops(d)
  PROVE  RInv'
  <1>t. /\ up \in [Clients -> BOOLEAN] /\ reading \in [Clients -> BOOLEAN]
        /\ DOMAIN inbox = Clients /\ DOMAIN lease = Clients /\ DOMAIN tick = Clients
    BY DEF Inv, ClientType, NetType
  <1>r. Idle /\ \A c \in Clients : RenewInv(c)
    BY DEF RInv
  <1>s. UNCHANGED <<sup, hl, alarm, req, lost>>
    BY DEF clientStep, initialize, clientStops, handlealarm, addnewserver,
           updateserver, purgeserverlist, server
  <1>o. \A c \in Clients : c # d =>
          /\ up'[c] = up[c] /\ tick'[c] = tick[c] /\ reading'[c] = reading[c]
          /\ inbox'[c] = inbox[c] /\ lease'[c] = lease[c]
    <2>1. CASE initialize(d) \/ clientStops(d)
      BY <1>t, <2>1 DEF initialize, clientStops
    <2>2. CASE handlealarm(d) \/ purgeserverlist(d)
      BY <1>t, <2>2 DEF handlealarm, purgeserverlist
    <2>3. CASE addnewserver(d) \/ updateserver(d)
      BY <1>t, <2>3 DEF addnewserver, updateserver, recv
    <2> QED BY <2>1, <2>2, <2>3 DEF clientStep
  <1>e. \/ UNCHANGED toServer
        \/ \E type, port : send(d, type, port)
    BY DEF clientStep, initialize, clientStops, handlealarm, addnewserver,
           updateserver, purgeserverlist
  <1>1. ASSUME NEW c \in Clients, c # d PROVE RenewInv(c)'
    <2>1. (BCPending(c) => BCPending(c)') /\ (AlivePending(c)' <=> AlivePending(c))
      <3>1. CASE UNCHANGED toServer
        BY <1>s, <3>1 DEF BCPending, AlivePending
      <3>2. CASE ~UNCHANGED toServer
        BY <1>1, <1>e, <1>s, <3>2, SendOther
      <3> QED BY <3>1, <3>2
    <2> QED BY <1>1, <1>o, <1>r, <1>s, <2>1, Steady
  <1>2. RenewInv(d)'
    BY <1>r, OwnStep
  <1>3. Idle'
    <2>1. ~up'[d] => inbox'[d] = <<>> /\ lease'[d] = None
      <3>1. CASE initialize(d)
        BY <1>t, <3>1 DEF initialize
      <3>2. CASE clientStops(d)
        BY <1>t, <3>2 DEF clientStops
      <3>3. CASE clientStep(d)
        BY <3>3 DEF clientStep, handlealarm, addnewserver, updateserver,
                    purgeserverlist, recv
      <3> QED BY <3>1, <3>2, <3>3
    <2> QED BY <1>o, <1>r, <1>s, <2>1 DEF Idle
  <1> QED BY <1>1, <1>2, <1>3 DEF RInv

-----------------------------------------------------------------------------
(* What the server delivers is there for the client to read.               *)
LEMMA Delivered ==
  ASSUME NEW s \in Seq({"BC_SERVER", "SERVER_STILL_ALIVE"}),
         NEW p \in {<<"SERVER_STILL_ALIVE">>, <<"BC_SERVER", "SERVER_STILL_ALIVE">>}
  PROVE  \E k \in 1 .. Len(s \o p) : (s \o p)[k] = "SERVER_STILL_ALIVE"
  <1>1. CASE p = <<"SERVER_STILL_ALIVE">>
    <2>1. Len(s \o p) = Len(s) + 1 /\ (s \o p)[Len(s) + 1] = "SERVER_STILL_ALIVE"
      BY <1>1
    <2>2. Len(s) + 1 \in 1 .. Len(s \o p)
      BY <2>1
    <2> QED BY <2>1, <2>2
  <1>2. CASE p = <<"BC_SERVER", "SERVER_STILL_ALIVE">>
    <2>1. Len(s \o p) = Len(s) + 2 /\ (s \o p)[Len(s) + 2] = "SERVER_STILL_ALIVE"
      BY <1>2
    <2>2. Len(s) + 2 \in 1 .. Len(s \o p)
      BY <2>1
    <2> QED BY <2>1, <2>2
  <1> QED BY <1>1, <1>2

(* The list is the list of the specification.                              *)
LEMMA ListedIn ==
  ASSUME Inv, NEW c PROVE listed(<<c, 0>>) <=> In(hl, c)
  <1>1. DOMAIN hl = 1 .. Len(hl)
    BY DEF Inv, ServerType
  <1> QED BY <1>1 DEF listed, In

(* A renewed entry, and one that is left alone.                            *)
LEMMA Topped ==
  ASSUME NEW e \in Entry
  PROVE  /\ [e EXCEPT !.left = Expiry].addr = e.addr
         /\ [e EXCEPT !.left = Expiry].left = Expiry
         /\ Expiry >= e.left /\ e.left >= e.left
  BY Periods DEF Entry

(* serverAddClient.                                                        *)
LEMMA AddRenews ==
  ASSUME Inv, Inv', Timing, alive, RInv, serverAddClient
  PROVE  RInv'
  <1>t. /\ hl \in Seq(Entry) /\ hl' \in Seq(Entry) /\ DOMAIN hl = 1 .. Len(hl)
        /\ Len(hl) \in Nat /\ req \in Addresses \union {None}
        /\ inbox \in [Clients -> Seq({"BC_SERVER", "SERVER_STILL_ALIVE"})]
    BY DEF Inv, ServerType, NetType
  <1>r. Idle /\ \A c \in Clients : RenewInv(c)
    BY DEF RInv
  <1>1. /\ sup /\ req # None /\ req' = None
        /\ UNCHANGED <<sup, alarm, toServer, up, tick, reading, lease, lost>>
        /\ \A c \in Clients : inbox'[c] =
             IF req = <<c, 0>>
             THEN deliver(c, <<"BC_SERVER", "SERVER_STILL_ALIVE">>) ELSE inbox[c]
    BY DEF serverAddClient
  <1> DEFINE e == [addr |-> req, left |-> Expiry]
  <1>2. alive' => \/ /\ listed(req)
                     /\ hl' = [i \in DOMAIN hl |-> IF hl[i].addr = req
                                 THEN [hl[i] EXCEPT !.left = Expiry] ELSE hl[i]]
                  \/ hl' = Append(hl, e)
    BY <1>1 DEF serverAddClient, alive
  <1>3. req \in Addresses /\ e \in Entry /\ e.addr = req /\ e.left = Expiry
    BY <1>1, <1>t, Periods DEF Entry
  <1> HIDE DEF e
  <1>4. ASSUME NEW c \in Clients, alive', NEW n \in Int, n <= Expiry
        PROVE  /\ In(hl', c) <=> In(hl, c) \/ req = <<c, 0>>
               /\ Safe(hl, c, n) => Safe(hl', c, n)
               /\ Held(hl, c) => Held(hl', c)
               /\ req = <<c, 0>> => Safe(hl', c, n)
    <2>1. CASE hl' = Append(hl, e)
      <3>1. e.left >= n
        BY <1>3, <1>4, Periods
      <3> QED BY <1>3, <1>t, <2>1, <3>1, AppendList
    <2>2. CASE /\ listed(req)
               /\ hl' = [i \in DOMAIN hl |-> IF hl[i].addr = req
                           THEN [hl[i] EXCEPT !.left = Expiry] ELSE hl[i]]
      <3>1. \A i \in 1 .. Len(hl) :
              /\ hl[i] \in Entry
              /\ hl'[i] = IF hl[i].addr = req THEN [hl[i] EXCEPT !.left = Expiry]
                          ELSE hl[i]
        BY <1>t, <2>2
      <3>2. \A i \in 1 .. Len(hl) :
              /\ hl'[i].addr = hl[i].addr /\ hl'[i].left >= hl[i].left
              /\ hl[i].addr = req => hl'[i].left = Expiry
        BY <3>1, Topped
      <3>3. Len(hl') = Len(hl)
        BY <1>t, <2>2
      <3>4. /\ In(hl', c) <=> In(hl, c)
            /\ Safe(hl, c, n) => Safe(hl', c, n)
            /\ Held(hl, c) => Held(hl', c)
        BY <1>t, <3>2, <3>3, RenewList
      <3>5. req = <<c, 0>> => In(hl, c) /\ Safe(hl', c, n)
        <4> SUFFICES ASSUME req = <<c, 0>> PROVE In(hl, c) /\ Safe(hl', c, n)
          OBVIOUS
        <4>1. PICK i \in 1 .. Len(hl) : hl[i].addr = <<c, 0>>
          BY <1>t, <2>2 DEF listed
        <4>2. hl'[i].addr = <<c, 0>> /\ hl'[i].left = Expiry
          BY <3>2, <4>1
        <4>3. hl'[i].left >= n
          BY <1>4, <4>2, Periods
        <4> QED BY <3>3, <4>1, <4>2, <4>3 DEF In, Safe
      <3> QED BY <3>4, <3>5
    <2> QED BY <1>2, <1>4, <2>1, <2>2
  <1>5. ASSUME NEW c \in Clients, Known(c)'
        PROVE  (ClientSide(c) /\ Answered(c) /\ ServerSide(c))'
    <2>1. alive' /\ up[c] /\ In(hl', c) /\ lost = 0
      BY <1>1, <1>5 DEF Known, In
    <2>2. Floor(c)' = Floor(c) /\ Floor(c) \in Int /\ Floor(c) <= Expiry
      BY <1>1, FloorNow DEF Floor, AlivePending
    <2>3. /\ In(hl', c) <=> In(hl, c) \/ req = <<c, 0>>
          /\ Safe(hl, c, Floor(c)) => Safe(hl', c, Floor(c))
          /\ Held(hl, c) => Held(hl', c)
          /\ req = <<c, 0>> => Safe(hl', c, Floor(c))
      BY <1>4, <2>1, <2>2
    <2>4. CASE req = <<c, 0>>
      <3>1. inbox'[c] = inbox[c] \o <<"BC_SERVER", "SERVER_STILL_ALIVE">>
        BY <1>1, <2>1, <2>4 DEF deliver
      <3>2. Unread(c)'
        BY <1>t, <3>1, Delivered DEF Unread
      <3>3. ServerSide(c)'
        BY <2>2, <2>3, <2>4 DEF ServerSide, Safe, FirstIn
      <3> QED BY <3>2, <3>3 DEF ClientSide, Answered
    <2>5. CASE req # <<c, 0>>
      <3>1. inbox'[c] = inbox[c]
        BY <1>1, <2>5
      <3>2. Known(c)
        BY <1>1, <2>1, <2>3, <2>5 DEF Known
      <3>3. ClientSide(c) /\ Answered(c) /\ ServerSide(c)
        BY <1>r, <3>2 DEF RenewInv
      <3>4. BCPending(c) => BCPending(c)'
        BY <1>1, <2>5 DEF BCPending
      <3>5. ClientSide(c)' /\ Answered(c)'
        BY <1>1, <3>1, <3>3, <3>4 DEF ClientSide, Answered, Unread
      <3>6. \/ Safe(hl', c, Floor(c)')
            \/ BCPending(c)' /\ (Held(hl', c) \/ (lease'[c] = None /\ inbox'[c] = <<>>))
        BY <1>1, <2>2, <2>3, <3>1, <3>3, <3>4 DEF ServerSide
      <3>7. ServerSide(c)'
        BY <3>6 DEF ServerSide, Safe, FirstIn, Held
      <3> QED BY <3>5, <3>7
    <2> QED BY <2>4, <2>5
  <1>6. Idle'
    <2>1. containsIDClass
      BY <1>1, <1>r DEF Idle
    <2>2. \A c \in Clients : ~up[c] => inbox'[c] = inbox[c]
      BY <1>1 DEF deliver
    <2> QED BY <1>1, <1>r, <2>1, <2>2 DEF Idle, containsIDClass
  <1> QED BY <1>5, <1>6 DEF RInv, RenewInv

(* serverUpdateClient renews the first entry of the sender's host.         *)
LEMMA UpdateRenews ==
  ASSUME Inv, Inv', Timing, alive, RInv, serverUpdateClient
  PROVE  RInv'
  <1>t. /\ hl \in Seq(Entry) /\ hl' \in Seq(Entry) /\ DOMAIN hl = 1 .. Len(hl)
        /\ Len(hl) \in Nat
    BY DEF Inv, ServerType
  <1>r. Idle /\ \A c \in Clients : RenewInv(c)
    BY DEF RInv
  <1> DEFINE ofHost(m, i) == host(hl[i].addr[1]) = host(m.from[1])
             first(m, i) == ofHost(m, i) /\ \A j \in 1 .. i - 1 : ~ofHost(m, j)
  <1>1. PICK m \in toServer :
          /\ m.type = "CLIENT_STILL_ALIVE" /\ toServer' = toServer \ {m}
          /\ hl' = [i \in DOMAIN hl |->
                      IF first(m, i) THEN [hl[i] EXCEPT !.left = Expiry] ELSE hl[i]]
    BY DEF serverUpdateClient
  <1>2. UNCHANGED <<sup, alarm, req, up, tick, reading, inbox, lease, lost, fault>>
    BY DEF serverUpdateClient, clientVars
  <1>3. /\ Len(hl') = Len(hl)
        /\ \A i \in 1 .. Len(hl) :
             /\ hl[i] \in Entry
             /\ hl'[i] = IF first(m, i) THEN [hl[i] EXCEPT !.left = Expiry] ELSE hl[i]
    BY <1>1, <1>t
  <1>4. \A i \in 1 .. Len(hl) : /\ hl'[i].addr = hl[i].addr
                                /\ hl'[i].left >= hl[i].left
                                /\ first(m, i) => hl'[i].left = Expiry
    <2> HIDE DEF first
    <2> QED BY <1>3, Topped
  <1>5. ASSUME NEW c \in Clients, Known(c)'
        PROVE  (ClientSide(c) /\ Answered(c) /\ ServerSide(c))'
    <2>1. Floor(c) \in Int /\ Floor(c)' \in Int /\ Floor(c)' <= Expiry
      BY FloorNow, FloorNext
    <2>2. /\ In(hl', c) <=> In(hl, c)
          /\ Safe(hl, c, Floor(c)) => Safe(hl', c, Floor(c))
          /\ Held(hl, c) => Held(hl', c)
      BY <1>3, <1>4, <1>t, <2>1, RenewList
    <2>3. In(hl', c)
      BY <1>5 DEF Known, In
    <2>4. Known(c)
      BY <1>2, <1>5, <2>2, <2>3 DEF Known, alive
    <2>5. ClientSide(c) /\ Answered(c) /\ ServerSide(c)
      BY <1>r, <2>4 DEF RenewInv
    <2>6. BCPending(c) => BCPending(c)'
      BY <1>1, <1>2 DEF BCPending
    <2>7. ClientSide(c)' /\ Answered(c)'
      BY <1>2, <2>5, <2>6 DEF ClientSide, Answered, Unread
    <2>8. CASE m.from[1] = c
      <3>1. PICK i \in 1 .. Len(hl) : FirstIn(hl, c, i)
        BY <1>t, <2>4, FirstExists DEF Known
      <3>2. first(m, i)
        <4>1. \A j \in 1 .. i - 1 : j \in 1 .. Len(hl) /\ j < i
          BY <1>t
        <4> QED BY <2>8, <3>1, <4>1 DEF FirstIn
      <3>3. hl'[i].left = Expiry /\ hl'[i].addr = hl[i].addr
        BY <1>4, <3>2
      <3>4. FirstIn(hl', c, i)
        BY <1>3, <1>4, <3>1 DEF FirstIn
      <3>5. hl'[i].left >= Floor(c)'
        BY <2>1, <3>3, Periods
      <3>6. Safe(hl', c, Floor(c)')
        BY <1>3, <3>4, <3>5 DEF Safe
      <3>7. ServerSide(c)'
        BY <3>6 DEF ServerSide, Safe, FirstIn
      <3> QED BY <2>7, <3>7
    <2>9. CASE m.from[1] # c
      <3>1. AlivePending(c)' <=> AlivePending(c)
        BY <1>1, <2>9 DEF AlivePending
      <3>2. Floor(c)' = Floor(c)
        <4>1. CASE AlivePending(c)
          BY <1>2, <3>1, <4>1 DEF Floor, FloorOf
        <4>2. CASE ~AlivePending(c)
          BY <1>2, <3>1, <4>2 DEF Floor, FloorOf
        <4> QED BY <4>1, <4>2
      <3>3. \/ Safe(hl', c, Floor(c)')
            \/ BCPending(c)' /\ (Held(hl', c) \/ (lease'[c] = None /\ inbox'[c] = <<>>))
        BY <1>2, <2>2, <2>5, <2>6, <3>2 DEF ServerSide
      <3>4. ServerSide(c)'
        BY <3>3 DEF ServerSide, Safe, FirstIn, Held
      <3> QED BY <2>7, <3>4
    <2> QED BY <2>8, <2>9
  <1>6. Idle'
    <2>1. hl' # <<>> => hl # <<>>
      BY <1>3, <1>t
    <2>2. ~sup => hl' = <<>>
      BY DEF serverUpdateClient
    <2> QED BY <1>2, <1>r, <2>1, <2>2 DEF Idle, containsIDClass
  <1> QED BY <1>5, <1>6 DEF RInv, RenewInv

(* The alarm handler purges the list and answers every client in it.       *)
LEMMA AlarmRenews ==
  ASSUME Inv, Inv', Timing, alive, RInv, serverHandleAlarm
  PROVE  RInv'
  <1>t. /\ hl \in Seq(Entry) /\ hl' \in Seq(Entry) /\ Distinct(hl)
        /\ DOMAIN hl' = 1 .. Len(hl')
        /\ inbox \in [Clients -> Seq({"BC_SERVER", "SERVER_STILL_ALIVE"})]
    BY DEF Inv, ServerType, NetType, ListInv
  <1>r. Idle /\ \A c \in Clients : RenewInv(c)
    BY DEF RInv
  <1>1. /\ sup /\ hl' = purge(hl)[Len(hl)]
        /\ UNCHANGED <<sup, req, toServer, up, tick, reading, lease, lost>>
        /\ \A c \in Clients : inbox'[c] =
             IF \E i \in DOMAIN hl' : hl'[i].addr = <<c, 0>>
             THEN deliver(c, <<"SERVER_STILL_ALIVE">>) ELSE inbox[c]
    BY DEF serverHandleAlarm, purged
  <1>2. ASSUME NEW c \in Clients, Known(c)'
        PROVE  (ClientSide(c) /\ Answered(c) /\ ServerSide(c))'
    <2>1. up[c] /\ In(hl', c) /\ lost = 0
      BY <1>1, <1>2 DEF Known, In
    <2>2. Floor(c)' = Floor(c) /\ Floor(c) \in Int /\ Floor(c) > 0
      BY <1>1, FloorNow DEF Floor, AlivePending
    <2>3. /\ In(hl', c) => In(hl, c) /\ Held(hl', c)
          /\ Safe(hl, c, Floor(c)) => Safe(hl', c, Floor(c))
      BY <1>1, <1>t, <2>2, PurgeList
    <2>4. ClientSide(c) /\ Answered(c) /\ ServerSide(c)
      BY <1>1, <1>r, <2>1, <2>3 DEF RenewInv, Known
    <2>5. inbox'[c] = inbox[c] \o <<"SERVER_STILL_ALIVE">>
      BY <1>1, <1>t, <2>1 DEF deliver, In
    <2>6. Unread(c)'
      BY <1>t, <2>5, Delivered DEF Unread
    <2>7. Safe(hl', c, Floor(c)') \/ (BCPending(c)' /\ Held(hl', c))
      BY <1>1, <2>1, <2>2, <2>3, <2>4 DEF ServerSide, BCPending
    <2>8. ServerSide(c)'
      BY <2>7 DEF ServerSide, Safe, FirstIn, Held
    <2> QED BY <2>6, <2>8 DEF ClientSide, Answered
  <1>3. Idle'
    <2>1. hl' # <<>> => hl # <<>>
      <3> SUFFICES ASSUME hl = <<>> PROVE hl' = <<>>
        OBVIOUS
      <3>1. Len(hl) = 0 /\ purge(hl)[0] = <<>>
        BY PurgeSteps
      <3> QED BY <1>1, <3>1
    <2>2. \A c \in Clients : ~up[c] => inbox'[c] = inbox[c]
      BY <1>1 DEF deliver
    <2> QED BY <1>1, <1>r, <2>1, <2>2 DEF Idle, containsIDClass
  <1> QED BY <1>2, <1>3 DEF RInv, RenewInv

(* The server's other steps.                                               *)
LEMMA ServerRenews ==
  ASSUME Inv, Inv', Timing, alive, RInv,
         serverStep \/ serverRealInit \/ serverRealShutdown
  PROVE  RInv'
  <1>r. Idle /\ \A c \in Clients : RenewInv(c)
    BY DEF RInv
  <1>1. CASE serverRealInit
    <2>1. hl' = <<>>
      BY <1>1, <1>r DEF serverRealInit, Idle
    <2>2. \A c \in Clients : ~In(hl, c)'
      BY <2>1 DEF In
    <2>3. \A c \in Clients : ~up[c] => inbox'[c] = inbox[c]
      BY <1>1 DEF serverRealInit, deliver
    <2>4. Idle'
      BY <1>1, <1>r, <2>1, <2>3 DEF serverRealInit, Idle, containsIDClass
    <2> QED BY <2>2, <2>4 DEF RInv, RenewInv, Known
  <1>2. CASE serverRealShutdown
    <2>1. ~sup' /\ hl' = <<>> /\ req' = None /\ UNCHANGED <<up, inbox, lease>>
      BY <1>2 DEF serverRealShutdown, clientVars
    <2> QED BY <1>r, <2>1 DEF RInv, RenewInv, Known, Idle
  <1>3. CASE serverProcessBC
    <2>1. PICK m \in toServer :
            /\ m.type = "BC_CLIENT" /\ toServer' = toServer \ {m}
            /\ \/ ~containsIDClass /\ UNCHANGED req
               \/ containsIDClass /\ req' = m.from
      BY <1>3 DEF serverProcessBC
    <2>2. /\ req = None
          /\ UNCHANGED <<sup, hl, alarm, up, tick, reading, inbox, lease, lost>>
      BY <1>3 DEF serverProcessBC, clientVars
    <2>3. Idle'
      BY <1>r, <2>1, <2>2 DEF Idle, containsIDClass
    <2>4. CASE ~containsIDClass
      <3>1. hl' = <<>>
        BY <1>r, <2>2, <2>4 DEF Idle
      <3>2. \A c \in Clients : ~In(hl, c)'
        BY <3>1 DEF In
      <3> QED BY <2>3, <3>2 DEF RInv, RenewInv, Known
    <2>5. CASE containsIDClass
      <3> SUFFICES ASSUME NEW c \in Clients, Known(c)'
                   PROVE  (ClientSide(c) /\ Answered(c) /\ ServerSide(c))'
        BY <2>3 DEF RInv, RenewInv
      <3>1. BCPending(c) => BCPending(c)'
        <4> DEFINE p == [type |-> "BC_CLIENT", from |-> <<c, 0>>]
        <4>1. <<c, 0>> # None
          <5>1. <<c, 0>> \in Clients \X Nat
            OBVIOUS
          <5> QED BY <5>1, NoneAssumption
        <4>2. p.from = <<c, 0>>
          OBVIOUS
        <4> HIDE DEF p
        <4>3. BCPending(c) => p \in toServer
          BY <2>2, <4>1 DEF BCPending, p
        <4>4. p = m => req' = <<c, 0>>
          BY <2>1, <2>5, <4>2
        <4> QED BY <2>1, <4>3, <4>4 DEF BCPending, p
      <3>2. AlivePending(c)' <=> AlivePending(c)
        BY <2>1 DEF AlivePending
      <3>3. Floor(c)' = Floor(c)
        <4>1. CASE AlivePending(c)
          BY <2>2, <3>2, <4>1 DEF Floor, FloorOf
        <4>2. CASE ~AlivePending(c)
          BY <2>2, <3>2, <4>2 DEF Floor, FloorOf
        <4> QED BY <4>1, <4>2
      <3>4. Known(c)
        BY <2>2 DEF Known, In
      <3>5. ClientSide(c) /\ Answered(c) /\ ServerSide(c)
        BY <1>r, <3>4 DEF RenewInv
      <3>6. ClientSide(c)' /\ Answered(c)'
        BY <2>2, <3>1, <3>5 DEF ClientSide, Answered, Unread
      <3>7. ServerSide(c)'
        BY <2>2, <3>1, <3>3, <3>5 DEF ServerSide, Safe, FirstIn, Held
      <3> QED BY <3>6, <3>7
    <2> QED BY <2>4, <2>5
  <1> QED BY <1>1, <1>2, <1>3, AddRenews, UpdateRenews, AlarmRenews DEF serverStep

(* Time passes only when nothing is under way.                             *)
LEMMA ElapseRenews ==
  ASSUME Inv, Inv', Timing, alive, RInv, elapse
  PROVE  RInv'
  <1>t. /\ hl \in Seq(Entry) /\ hl' \in Seq(Entry) /\ DOMAIN hl = 1 .. Len(hl)
        /\ Len(hl) \in Nat /\ alarm \in -Slack .. WAKEUP
    BY DEF Inv, ServerType
  <1>r. Idle /\ \A c \in Clients : RenewInv(c)
    BY DEF RInv
  <1>p. None \notin Int /\ LEASE \in Nat /\ WAKEUP \in Nat /\ Slack \in Nat
        /\ INTERVAL \in Nat /\ Expiry \in Nat /\ LEASE > WAKEUP + Slack
    BY Periods, NoneAssumption DEF Timing
  <1>1. /\ toServer = {} /\ req = None
        /\ UNCHANGED <<sup, req, toServer, up, reading, inbox, lost, fault>>
        /\ sup => alarm > -Slack /\ alarm' = alarm - 1
        /\ hl' = [i \in DOMAIN hl |-> [hl[i] EXCEPT !.left = less(@)]]
    BY DEF elapse
  <1>2. /\ Len(hl') = Len(hl)
        /\ \A i \in 1 .. Len(hl) : hl'[i] = [hl[i] EXCEPT !.left = less(@)]
        /\ \A i \in 1 .. Len(hl) : hl[i] \in Entry
    BY <1>1, <1>t
  <1>3. \A i \in 1 .. Len(hl) :
          hl'[i].addr = hl[i].addr /\ hl'[i].left = less(hl[i].left)
    BY <1>2 DEF Entry
  <1>4. ASSUME NEW c \in Clients, Known(c)'
        PROVE  (ClientSide(c) /\ Answered(c) /\ ServerSide(c))'
    <2>1. ~BCPending(c) /\ ~AlivePending(c) /\ ~AlivePending(c)'
      <3>1. <<c, 0>> \in Clients \X Nat
        OBVIOUS
      <3>2. <<c, 0>> # None
        BY <3>1, NoneAssumption
      <3> QED BY <1>1, <3>2 DEF BCPending, AlivePending
    <2>2. sup /\ up[c] /\ In(hl', c) /\ lost = 0
      BY <1>1, <1>4 DEF Known, In
    <2>3. /\ ~reading[c] /\ ~reading'[c] /\ tick'[c] = tick[c] - 1
          /\ lease'[c] = IF lease[c] = None THEN None ELSE less(lease[c])
          /\ tick[c] \in -Slack .. INTERVAL
          /\ lease[c] \in (0 .. LEASE) \union {None}
      BY <1>1, <2>2 DEF elapse, Inv, ClientType
    <2>4. lease'[c] = None <=> lease[c] = None
      BY <1>p, <2>3 DEF less
    <2>5. Floor(c) \in Int /\ Floor(c)' = Floor(c) - 1
      <3>1. CASE lease[c] = None
        BY <1>p, <2>1, <2>3, <2>4, <3>1 DEF Floor, FloorOf
      <3>2. CASE lease[c] # None
        BY <1>p, <2>1, <2>3, <2>4, <3>2 DEF Floor, FloorOf
      <3> QED BY <3>1, <3>2
    <2>6. /\ In(hl', c) <=> In(hl, c)
          /\ Safe(hl, c, Floor(c)) => Safe(hl', c, Floor(c) - 1)
      BY <1>2, <1>3, <1>t, <2>5, OlderList
    <2>7. ClientSide(c) /\ Answered(c) /\ Safe(hl, c, Floor(c))
      BY <1>r, <2>1, <2>2, <2>6 DEF RenewInv, Known, ServerSide
    <2>8. Unread(c)' <=> Unread(c)
      BY <1>1 DEF Unread
    <2>9. ClientSide(c)'
      <3> SUFFICES ASSUME lease[c] # None, ~Unread(c)
                   PROVE  lease'[c] >= LEASE - WAKEUP + alarm'
        BY <2>4, <2>8 DEF ClientSide
      <3>1. lease[c] >= LEASE - WAKEUP + alarm /\ lease[c] \in Int
        BY <1>p, <2>3, <2>7 DEF ClientSide
      <3>2. lease[c] > 0 /\ alarm' = alarm - 1
        BY <1>1, <1>p, <1>t, <2>2, <3>1
      <3>3. lease'[c] = lease[c] - 1
        BY <2>3, <3>2 DEF less
      <3> QED BY <1>p, <1>t, <3>1, <3>2, <3>3
    <2>10. Answered(c)'
      BY <2>1, <2>4, <2>7, <2>8 DEF Answered
    <2>11. Safe(hl', c, Floor(c)')
      BY <2>5, <2>6, <2>7
    <2>12. ServerSide(c)'
      BY <2>11 DEF ServerSide, Safe, FirstIn
    <2> QED BY <2>9, <2>10, <2>12
  <1>5. Idle'
    <2>1. hl = <<>> => hl' = <<>>
      BY <1>2, <1>t
    <2>2. \A c \in Clients : lease[c] = None => lease'[c] = None
      BY DEF elapse
    <2> QED BY <1>1, <1>r, <2>1, <2>2 DEF Idle, containsIDClass
  <1> QED BY <1>4, <1>5 DEF RInv, RenewInv

(* After a loss nothing is claimed.                                        *)
LEMMA LossRenews ==
  ASSUME Inv, RInv, \/ \E m \in toServer : loseToServer(m)
                    \/ \E c \in Clients : loseToClient(c)
  PROVE  RInv'
  <1>1. lost' # 0
    <2>1. lost \in Nat /\ lost' = lost + 1
      BY Periods DEF Inv, NetType, loseToServer, loseToClient
    <2> QED BY <2>1
  <1>2. UNCHANGED <<sup, hl, req, up, lease>>
    BY DEF loseToServer, loseToClient, server, clientVars
  <1>3. \A c \in Clients : inbox[c] = <<>> => inbox'[c] = <<>>
    <2>1. DOMAIN inbox = Clients
      BY DEF Inv, NetType
    <2> QED BY <2>1 DEF loseToServer, loseToClient, clientVars
  <1>4. Idle'
    BY <1>2, <1>3 DEF RInv, Idle, containsIDClass
  <1> QED BY <1>1, <1>4 DEF RInv, RenewInv, Known

(* Client and server keep each other's leases in time.                     *)
LEMMA AlwaysRenewed == ASSUME Timing PROVE Spec => []RInv
  <1>1. Init => RInv
    <2> SUFFICES ASSUME Init PROVE RInv
      OBVIOUS
    <2>1. /\ ~sup /\ hl = <<>> /\ req = None
          /\ \A c \in Clients : inbox[c] = <<>> /\ lease[c] = None
      BY DEF Init
    <2> QED BY <2>1 DEF RInv, Idle, RenewInv, Known
  <1>2. Inv /\ Inv' /\ RInv /\ [Next]_vars => RInv'
    <2> SUFFICES ASSUME Inv, Inv', RInv, [Next]_vars PROVE RInv'
      OBVIOUS
    <2>1. CASE UNCHANGED vars
      <3>1. UNCHANGED <<sup, hl, alarm, req, toServer, up, tick, reading, inbox,
                        lease, lost, fault>>
        BY <2>1 DEF vars, server, clientVars
      <3>2. Idle'
        BY <3>1 DEF RInv, Idle, containsIDClass
      <3>3. ASSUME NEW c \in Clients PROVE RenewInv(c)'
        <4>1. CASE alive
          <5>1. (BCPending(c) => BCPending(c)')
                /\ (AlivePending(c)' <=> AlivePending(c))
            BY <3>1 DEF BCPending, AlivePending
          <5> QED BY <3>1, <4>1, <5>1, Steady DEF RInv
        <4>2. CASE ~alive
          BY <3>1, <4>2 DEF RenewInv, Known, alive
        <4> QED BY <4>1, <4>2
      <3> QED BY <3>2, <3>3 DEF RInv
    <2>2. CASE Next
      BY <2>2, ClientRenews, ServerRenews, ElapseRenews, LossRenews
         DEF Next, Progress, Environment
    <2> QED BY <2>1, <2>2
  <1> QED BY <1>1, <1>2, AlwaysInv, PTL DEF Spec

(* A step keeps what two that know each other know.                        *)
LEMMA StepKeeps ==
  ASSUME Inv, Inv', Timing, RInv, Next, NEW c \in Clients,
         Mutual(c), FirstOfHost(c), sup', up'[c], lost' = 0
  PROVE  Mutual(c)'
  <1>a. alive
    BY DEF Next, Progress, Environment
  <1>t. /\ hl \in Seq(Entry) /\ DOMAIN hl = 1 .. Len(hl) /\ Len(hl) \in Nat
        /\ DOMAIN lease = Clients /\ DOMAIN up = Clients
        /\ lease[c] \in (0 .. LEASE) \union {None} /\ Distinct(hl)
        /\ alarm \in -Slack .. WAKEUP
    BY DEF Inv, ServerType, ClientType, ListInv
  <1>p. None \notin Int /\ LEASE \in Nat /\ WAKEUP \in Nat /\ Slack \in Nat
        /\ LEASE > WAKEUP + Slack
    BY Periods, NoneAssumption DEF Timing
  <1>l. /\ listed(<<c, 0>>) <=> In(hl, c)
        /\ listed(<<c, 0>>)' <=> In(hl', c)
    <2>1. DOMAIN hl' = 1 .. Len(hl')
      BY DEF Inv, ServerType
    <2> QED BY <1>t, <2>1 DEF listed, In
  <1>m. sup /\ up[c] /\ lease[c] # None /\ In(hl, c)
    BY <1>l DEF Mutual
  <1>1. CASE \/ \E m \in toServer : loseToServer(m)
             \/ \E d \in Clients : loseToClient(d)
    <2>1. UNCHANGED <<hl, lease>>
      BY <1>1 DEF loseToServer, loseToClient, server, clientVars
    <2> QED BY <1>l, <1>m, <2>1 DEF Mutual, listed
  <1>2. CASE \E d \in Clients : clientStep(d) \/ initialize(d) \/ clientStops(d)
    <2>1. PICK d \in Clients : clientStep(d) \/ initialize(d) \/ clientStops(d)
      BY <1>2
    <2>2. UNCHANGED <<hl, lost>>
      BY <2>1 DEF clientStep, initialize, clientStops, handlealarm, addnewserver,
                  updateserver, purgeserverlist, server
    <2>3. lease'[c] # None
      <3>1. CASE initialize(d) \/ handlealarm(d)
        BY <1>m, <3>1 DEF initialize, handlealarm
      <3>2. CASE clientStops(d)
        BY <1>m, <1>t, <3>2 DEF clientStops
      <3>3. CASE addnewserver(d)
        BY <1>m, <1>t, <3>3 DEF addnewserver
      <3>4. CASE updateserver(d)
        BY <1>m, <1>p, <1>t, <3>4 DEF updateserver
      <3>5. CASE purgeserverlist(d)
        <4>1. CASE d # c
          BY <1>m, <1>t, <3>5, <4>1 DEF purgeserverlist
        <4>2. CASE d = c
          <5>1. inbox[c] = <<>>
            BY <3>5, <4>2 DEF purgeserverlist
          <5>2. ~Unread(c)
            BY <5>1 DEF Unread
          <5>3. Known(c)
            BY <1>a, <1>m, <2>2 DEF Known
          <5>4. lease[c] >= LEASE - WAKEUP + alarm
            BY <1>m, <5>2, <5>3 DEF RInv, RenewInv, ClientSide
          <5>5. lease[c] > 0
            BY <1>m, <1>p, <1>t, <5>4
          <5>6. ~(lease[c] <= 0)
            BY <1>m, <1>t, <5>5
          <5> QED BY <1>m, <1>t, <3>5, <4>2, <5>6 DEF purgeserverlist
        <4> QED BY <4>1, <4>2
      <3> QED BY <2>1, <3>1, <3>2, <3>3, <3>4, <3>5 DEF clientStep
    <2>4. In(hl', c)
      BY <1>m, <2>2
    <2> QED BY <1>l, <2>3, <2>4 DEF Mutual
  <1>3. CASE elapse
    <2>1. lease'[c] # None
      BY <1>3, <1>m, <1>p, <1>t DEF elapse, less
    <2>2. /\ DOMAIN hl' = DOMAIN hl
          /\ \A i \in DOMAIN hl : hl'[i] = [hl[i] EXCEPT !.left = less(@)]
      BY <1>3 DEF elapse
    <2>3. \A i \in DOMAIN hl : hl'[i].addr = hl[i].addr
      <3>1. \A i \in DOMAIN hl : hl[i] \in Entry
        BY <1>t
      <3> QED BY <2>2, <3>1 DEF Entry
    <2>4. listed(<<c, 0>>)'
      BY <1>l, <1>m, <2>2, <2>3 DEF listed
    <2> QED BY <2>1, <2>4 DEF Mutual
  <1>4. CASE serverRealInit \/ serverRealShutdown \/ serverProcessBC
    BY <1>4, <1>l, <1>m DEF serverRealInit, serverRealShutdown, serverProcessBC,
                            Mutual, clientVars, listed
  <1>5. CASE serverAddClient
    <2>1. UNCHANGED lease
      BY <1>5 DEF serverAddClient
    <2>2. PICK i \in 1 .. Len(hl) : hl[i].addr = <<c, 0>>
      BY <1>m DEF In
    <2>3. i \in DOMAIN hl' /\ hl'[i].addr = <<c, 0>>
      <3>1. CASE UNCHANGED hl
        BY <1>t, <2>2, <3>1
      <3>2. CASE hl' = Append(hl, [addr |-> req, left |-> Expiry])
        BY <1>t, <2>2, <3>2
      <3>3. CASE hl' = [j \in DOMAIN hl |-> IF hl[j].addr = req
                          THEN [hl[j] EXCEPT !.left = Expiry] ELSE hl[j]]
        <4>1. hl[i] \in Entry /\ i \in DOMAIN hl
          BY <1>t
        <4> QED BY <2>2, <3>3, <4>1 DEF Entry
      <3> QED BY <1>5, <3>1, <3>2, <3>3 DEF serverAddClient
    <2>4. listed(<<c, 0>>)'
      BY <2>3 DEF listed
    <2> QED BY <1>m, <2>1, <2>4 DEF Mutual
  <1>6. CASE serverUpdateClient
    <2>1. /\ UNCHANGED lease /\ DOMAIN hl' = DOMAIN hl
          /\ \A i \in DOMAIN hl :
               hl'[i] = hl[i] \/ hl'[i] = [hl[i] EXCEPT !.left = Expiry]
      BY <1>6 DEF serverUpdateClient, clientVars
    <2>2. \A i \in DOMAIN hl : hl[i] \in Entry
      BY <1>t
    <2>3. \A i \in DOMAIN hl : hl'[i].addr = hl[i].addr
      BY <2>1, <2>2 DEF Entry
    <2>4. listed(<<c, 0>>)'
      BY <1>l, <1>m, <2>1, <2>3 DEF listed
    <2> QED BY <1>m, <2>1, <2>4 DEF Mutual
  <1>7. CASE serverHandleAlarm
    <2>1. hl' = purge(hl)[Len(hl)] /\ UNCHANGED <<lease, lost>>
      BY <1>7 DEF serverHandleAlarm, purged
    <2>2. Floor(c) \in Int /\ Floor(c) > 0
      BY FloorNow
    <2>3. Known(c)
      BY <1>a, <1>m, <2>1 DEF Known
    <2>4. Safe(hl, c, Floor(c)) \/ Held(hl, c)
      BY <1>m, <2>3 DEF RInv, RenewInv, ServerSide
    <2>5. Held(hl, c)
      <3> SUFFICES ASSUME Safe(hl, c, Floor(c)) PROVE Held(hl, c)
        BY <2>4
      <3>1. PICK i \in 1 .. Len(hl) :
              (hl[i].addr = <<c, 0>> \/ FirstIn(hl, c, i)) /\ hl[i].left >= Floor(c)
        BY DEF Safe
      <3>2. PICK j \in 1 .. Len(hl) : hl[j].addr = <<c, 0>>
        BY <1>m DEF In
      <3>3. FirstIn(hl, c, i) => i = j
        <4> SUFFICES ASSUME FirstIn(hl, c, i) PROVE i = j
          OBVIOUS
        <4>1. host(hl[j].addr[1]) = host(c)
          BY <3>2
        <4>2. ~(j < i)
          BY <4>1 DEF FirstIn
        <4>3. ~(i < j)
          BY <1>t, <3>2 DEF FirstIn, FirstOfHost
        <4> QED BY <4>2, <4>3
      <3>4. hl[i] \in Entry
        BY <1>t
      <3>5. hl[i].left > 0
        BY <2>2, <3>1, <3>4, Periods DEF Entry
      <3> QED BY <3>1, <3>2, <3>3, <3>5 DEF Held
    <2>6. Held(hl', c)
      BY <1>t, <2>1, <2>2, <2>5, PurgeList
    <2>7. In(hl', c)
      BY <2>6 DEF Held, In
    <2> QED BY <1>l, <1>m, <2>1, <2>7 DEF Mutual
  <1> QED BY <1>1, <1>2, <1>3, <1>4, <1>5, <1>6, <1>7
          DEF Next, Progress, Environment, serverStep

(* Leases are renewed in time (udp_server.c:serverUpdateClient and         *)
(* serverHandleAlarm, BC.pm:handlealarm and purgeserverlist), for any      *)
(* number of clients on any hosts and any restarts, provided the server's  *)
(* lease is longer than the time between two of its renewals and its       *)
(* entries live longer than two alarms of a client, lateness included.     *)
(* With the periods of the code both hold if no alarm is late.             *)
THEOREM RenewedInTime ==
  ASSUME LEASE > WAKEUP + Slack, Expiry > 2 * (INTERVAL + Slack)
  PROVE  Spec => LeasesRenewed
  <1>1. Timing
    BY DEF Timing
  <1>2. Spec => []RInv
    BY <1>1, AlwaysRenewed
  <1> DEFINE A == \A c \in Clients : Mutual(c) /\ FirstOfHost(c) => Kept(c)
  <1>3. Inv /\ Inv' /\ RInv /\ [Next]_vars => [A]_vars
    <2> SUFFICES ASSUME Inv, Inv', RInv, Next, NEW c \in Clients,
                        Mutual(c), FirstOfHost(c)
                 PROVE  Kept(c)
      OBVIOUS
    <2> QED BY <1>1, StepKeeps DEF Kept
  <1> QED BY <1>2, <1>3, AlwaysInv, PTL DEF Spec, LeasesRenewed
=============================================================================
