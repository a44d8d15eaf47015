--------------------------- MODULE ServletProofs ---------------------------
(***************************************************************************)
(* The servlets' heap and the framing of packets, for any number of        *)
(* connections and packets of any kind and length, however reads are cut.  *)
(***************************************************************************)
EXTENDS Servlet, SequenceTheorems, TLAPS

Packet == [n: Nat, kind: Kinds]
Unit == Packet \X Nat
Header == [magic: {"good", "swapped", "junk"}, len: Nat, type: Types,
           content: Contents, packet: Packet \union {None}]

(* The shapes of what the argument is about.                               *)
Shapes ==
    /\ sent \in [Conns -> Seq(Packet)]
    /\ stream \in [Conns -> Seq(Unit)]
    /\ pc \in [Conns -> {"none", "header", "body", "done"}]
    /\ hdr \in [Conns -> Header]
    /\ cuts \in [Conns -> SUBSET {"short", "last", "twice"}]
    /\ heap \in [Conns -> {"ok", "overrun", "fault"}]

(* What is in a stream was sent, and a header's second unit follows its    *)
(* first one.                                                              *)
Framed(s, q) ==
    \A i \in 1 .. Len(s) :
        /\ \E j \in 1 .. Len(q) : s[i][1] = q[j]
        /\ i < Len(s) /\ s[i + 1][2] = 2 => s[i][2] = 1

(* A magic number that is swapped is left from a header whose second half  *)
(* was not read, or from another servlet's stack; a servlet that takes a   *)
(* body for one of some type was sent one, or read twice short in a row.   *)
HeaderInv(c) ==
    /\ pc[c] = "header" /\ hdr[c].magic = "swapped" => "last" \in cuts[c]
    /\ pc[c] = "body" => hdr[c].magic = "good"
    /\ pc[c] = "body" => TakenFor(c, hdr[c].type)

HeapInv ==
    /\ Shapes
    /\ \A c \in Conns : Framed(stream[c], sent[c]) /\ HeaderInv(c)
    /\ up => \A c \in Conns : heap[c] # "fault"
    /\ HeapSafe

-----------------------------------------------------------------------------
(* What is left of a stream after a read.                                  *)
LEMMA DropFacts ==
  ASSUME NEW S, NEW s \in Seq(S), NEW n \in 0 .. Len(s)
  PROVE  LET t == SubSeq(s, n + 1, Len(s))
         IN  /\ t \in Seq(S) /\ Len(t) = Len(s) - n
             /\ \A i \in 1 .. Len(s) - n : t[i] = s[n + i]
  <1> DEFINE t == SubSeq(s, n + 1, Len(s))
  <1>1. n + 1 \in Int /\ Len(s) \in Int /\ Len(s) \in Nat
    OBVIOUS
  <1>2. \A i \in n + 1 .. Len(s) : s[i] \in S
    OBVIOUS
  <1>3. /\ t \in Seq(S)
        /\ Len(t) = IF n + 1 <= Len(s) THEN Len(s) - (n + 1) + 1 ELSE 0
        /\ \A i \in 1 .. Len(s) - (n + 1) + 1 : t[i] = s[n + 1 + i - 1]
    BY <1>1, <1>2, SubSeqProperties
  <1>4. Len(s) - (n + 1) + 1 = Len(s) - n
    BY <1>1
  <1>5. \A i \in 1 .. Len(s) - n : n + 1 + i - 1 = n + i
    BY <1>1
  <1>6. (IF n + 1 <= Len(s) THEN Len(s) - n ELSE 0) = Len(s) - n
    BY <1>1
  <1> HIDE DEF t
  <1>7. t \in Seq(S) /\ Len(t) = Len(s) - n
        /\ \A i \in 1 .. Len(s) - n : t[i] = s[n + i]
    BY <1>3, <1>4, <1>5, <1>6
  <1> QED BY <1>7 DEF t

LEMMA FramedDrop ==
  ASSUME NEW q \in Seq(Packet), NEW s \in Seq(Unit), Framed(s, q),
         NEW n \in 0 .. Len(s)
  PROVE  Framed(SubSeq(s, n + 1, Len(s)), q)
  <1> DEFINE t == SubSeq(s, n + 1, Len(s))
  <1>1. t \in Seq(Unit) /\ Len(t) = Len(s) - n
        /\ \A i \in 1 .. Len(s) - n : t[i] = s[n + i]
    BY DropFacts
  <1> HIDE DEF t
  <1> SUFFICES ASSUME NEW i \in 1 .. Len(t)
               PROVE  /\ \E j \in 1 .. Len(q) : t[i][1] = q[j]
                      /\ i < Len(t) /\ t[i + 1][2] = 2 => t[i][2] = 1
    BY DEF Framed, t
  <1>2. Len(s) \in Nat /\ n + i \in 1 .. Len(s) /\ t[i] = s[n + i]
    BY <1>1
  <1>3. \E j \in 1 .. Len(q) : t[i][1] = q[j]
    BY <1>2 DEF Framed
  <1>4. ASSUME i < Len(t), t[i + 1][2] = 2 PROVE t[i][2] = 1
    <2>1. t[i + 1] = s[n + i + 1] /\ n + i < Len(s)
      <3>1. i + 1 \in 1 .. Len(s) - n /\ n + (i + 1) = n + i + 1
        BY <1>1, <1>2, <1>4
      <3> QED BY <1>1, <1>2, <1>4, <3>1
    <2> QED BY <1>2, <1>4, <2>1 DEF Framed
  <1> QED BY <1>3, <1>4

LEMMA FramedSend ==
  ASSUME NEW q \in Seq(Packet), NEW s \in Seq(Unit), Framed(s, q),
         NEW p \in Packet, p.kind.len \in Nat
  PROVE  /\ s \o units(p) \in Seq(Unit)
         /\ Framed(s \o units(p), Append(q, p))
  <1> DEFINE u == units(p)
             t == s \o u
  <1>1. /\ u \in Seq(Unit) /\ Len(u) = 2 + p.kind.len
        /\ \A k \in 1 .. Len(u) : u[k] = <<p, k>>
    <2> DEFINE m == 2 + p.kind.len
    <2>1. m \in Nat
      OBVIOUS
    <2>2. u = [k \in 1 .. m |-> <<p, k>>]
      BY DEF units, HEADER
    <2> HIDE DEF m, u
    <2>3. u \in [1 .. m -> Unit]
      BY <2>1, <2>2 DEF Unit
    <2>4. u \in Seq(Unit) /\ Len(u) = m
      BY <2>1, <2>3
    <2> QED BY <2>1, <2>2, <2>4 DEF m
  <1> HIDE DEF u
  <1>2. /\ t \in Seq(Unit) /\ Len(t) = Len(s) + Len(u)
        /\ \A i \in 1 .. Len(s) + Len(u) :
               t[i] = IF i <= Len(s) THEN s[i] ELSE u[i - Len(s)]
    BY <1>1, ConcatProperties
  <1>3. /\ Len(Append(q, p)) = Len(q) + 1 /\ Append(q, p)[Len(q) + 1] = p
        /\ \A j \in 1 .. Len(q) : Append(q, p)[j] = q[j]
        /\ Len(q) \in Nat /\ Len(s) \in Nat /\ Len(u) \in Nat
    BY <1>1
  <1> HIDE DEF t
  <1>4. Framed(t, Append(q, p))
    <2> SUFFICES ASSUME NEW i \in 1 .. Len(t)
                 PROVE  /\ \E j \in 1 .. Len(q) + 1 : t[i][1] = Append(q, p)[j]
                        /\ i < Len(t) /\ t[i + 1][2] = 2 => t[i][2] = 1
      BY <1>3 DEF Framed
    <2>1. CASE i <= Len(s)
      <3>1. i \in 1 .. Len(s) /\ t[i] = s[i]
        BY <1>2, <1>3, <2>1
      <3>2. PICK j \in 1 .. Len(q) : s[i][1] = q[j]
        BY <3>1 DEF Framed
      <3>3. j \in 1 .. Len(q) + 1 /\ t[i][1] = Append(q, p)[j]
        BY <1>3, <3>1, <3>2
      <3>4. ASSUME i < Len(t), t[i + 1][2] = 2 PROVE t[i][2] = 1
        <4>1. CASE i < Len(s)
          <5>1. t[i + 1] = s[i + 1]
            BY <1>2, <1>3, <4>1, <3>1
          <5> QED BY <3>1, <3>4, <4>1, <5>1 DEF Framed
        <4>2. CASE i = Len(s)
          <5>1. t[i + 1] = u[1] /\ 1 \in 1 .. Len(u)
            <6>1. /\ i + 1 \in 1 .. Len(s) + Len(u) /\ ~(i + 1 <= Len(s))
                  /\ i + 1 - Len(s) = 1 /\ 1 \in 1 .. Len(u)
              <7>0. Len(u) = 2 + p.kind.len /\ p.kind.len \in Nat
                BY <1>1
              <7>1. Len(s) \in Nat /\ Len(u) \in Nat /\ Len(u) >= 1
                BY ONLY <1>3, <7>0
              <7> QED BY ONLY <4>2, <7>1
            <6> QED BY <1>2, <6>1
          <5>2. u[1] = <<p, 1>>
            BY <1>1, <5>1
          <5> QED BY <3>4, <5>1, <5>2
        <4> QED BY <1>3, <3>1, <4>1, <4>2
      <3> QED BY <3>3, <3>4
    <2>2. CASE ~(i <= Len(s))
      <3> DEFINE k == i - Len(s)
      <3>1. k \in 1 .. Len(u) /\ t[i] = u[k]
        BY <1>2, <1>3, <2>2
      <3>2. t[i] = <<p, k>>
        BY <1>1, <3>1
      <3>3. t[i][1] = Append(q, p)[Len(q) + 1] /\ Len(q) + 1 \in 1 .. Len(q) + 1
        BY <1>3, <3>2
      <3>4. ASSUME i < Len(t), t[i + 1][2] = 2 PROVE t[i][2] = 1
        <4>1. t[i + 1] = u[k + 1] /\ k + 1 \in 1 .. Len(u)
          BY <1>2, <1>3, <2>2, <3>1, <3>4
        <4>2. u[k + 1] = <<p, k + 1>>
          BY <1>1, <4>1
        <4>3. k + 1 = 2
          BY <3>4, <4>1, <4>2
        <4> QED BY <3>1, <3>2, <4>3
      <3> QED BY <3>3, <3>4
    <2> QED BY <2>1, <2>2
  <1> QED BY <1>2, <1>4 DEF t, u

-----------------------------------------------------------------------------
(* A header that passes the test of the magic number is one that was sent, *)
(* or is made up of what two short reads in a row have left.               *)
LEMMA HeaderRead ==
  ASSUME HeapInv, NEW c \in Conns, pc[c] = "header", NEW n \in 1 .. HEADER,
         n <= Len(stream[c]), NEW h \in ntohlHeader(c, n)
  PROVE  /\ h \in Header
         /\ h.magic = "swapped" => n < HEADER
         /\ h.magic = "good" =>
               TypeSent(c, h.type) \/ (n < HEADER /\ "last" \in cuts[c])
  <1> DEFINE first == stream[c][1]
             second == stream[c][2]
             magic == IF n < HEADER THEN swapped(hdr[c].magic)
                      ELSE IF second[2] = 2 THEN swapped("swapped") ELSE "junk"
             len == IF n < HEADER THEN hdr[c].len
                    ELSE IF magic = "junk" THEN 0 ELSE second[1].kind.len
  <1>t. /\ stream[c] \in Seq(Unit) /\ sent[c] \in Seq(Packet) /\ hdr[c] \in Header
        /\ Framed(stream[c], sent[c]) /\ HeaderInv(c) /\ Len(stream[c]) \in Nat
    BY DEF HeapInv, Shapes
  <1>k. \A p \in Packet : p.kind.len \in Nat /\ p.kind.type \in Types
                           /\ p.kind.content \in Contents
    BY KindsAssumption DEF Packet
  <1>n. n = 1 \/ n = 2
    BY DEF HEADER
  <1>1. first \in Unit /\ (n = 2 => second \in Unit)
    BY <1>t, <1>n
  <1>2. swapped("swapped") = "good" /\ swapped("good") = "swapped"
        /\ swapped("junk") = "junk"
    BY DEF swapped
  <1>3. magic \in {"good", "swapped", "junk"}
    BY <1>2, <1>t DEF Header
  <1>4. len \in Nat
    BY <1>1, <1>k, <1>n, <1>t DEF Header, HEADER, Unit
  <1>5. h \in IF magic # "good" THEN {idle(magic, len)}
              ELSE IF first[2] = 1
              THEN {[magic |-> magic, len |-> len, type |-> first[1].kind.type,
                     content |-> first[1].kind.content, packet |-> first[1]]}
              ELSE [magic: {magic}, len: {len}, type: Types, content: Contents,
                    packet: {None}]
    BY DEF ntohlHeader
  <1>6. h.magic = magic
    BY <1>5 DEF idle
  <1>7. h \in Header
    <2> HIDE DEF magic, len, first
    <2>1. CASE magic # "good"
      BY <1>3, <1>4, <1>5, <2>1 DEF idle, Header, Types, Contents
    <2>2. CASE magic = "good" /\ first[2] = 1
      <3>1. first[1] \in Packet
        BY <1>1 DEF Unit
      <3> QED BY <1>4, <1>5, <1>k, <2>2, <3>1 DEF Header
    <2>3. CASE magic = "good" /\ first[2] # 1
      BY <1>4, <1>5, <2>3 DEF Header
    <2> QED BY <2>1, <2>2, <2>3
  <1>8. magic = "swapped" => n < HEADER
    BY <1>2
  <1>9. ASSUME magic = "good", first[2] = 1
        PROVE  TypeSent(c, h.type)
    <2>1. h.type = first[1].kind.type
      BY <1>5, <1>9
    <2>2. 1 \in 1 .. Len(stream[c])
      BY <1>n, <1>t
    <2>3. PICK j \in 1 .. Len(sent[c]) : first[1] = sent[c][j]
      BY <1>t, <2>2 DEF Framed
    <2>4. j \in DOMAIN sent[c]
      BY <1>t
    <2> QED BY <1>9, <2>1, <2>3, <2>4 DEF TypeSent
  <1>10. ASSUME magic = "good", first[2] # 1
         PROVE  n < HEADER /\ "last" \in cuts[c]
    <2>1. CASE n = 2
      <3>1. second[2] = 2
        BY <1>10, <2>1 DEF HEADER
      <3>2. 1 \in 1 .. Len(stream[c]) /\ 1 < Len(stream[c])
        BY <1>t, <2>1
      <3>3. 1 < Len(stream[c]) /\ stream[c][1 + 1][2] = 2 => stream[c][1][2] = 1
        BY <1>t, <3>2 DEF Framed
      <3> QED BY <1>10, <3>1, <3>2, <3>3
    <2>2. CASE n = 1
      <3>1. swapped(hdr[c].magic) = "good" /\ n < HEADER
        BY <1>10, <2>2 DEF HEADER
      <3>2. hdr[c].magic = "swapped"
        BY <1>2, <1>t, <3>1 DEF Header
      <3> QED BY <1>t, <3>1, <3>2 DEF HeaderInv
    <2> QED BY <1>n, <2>1, <2>2
  <1> HIDE DEF magic, len, first
  <1> QED BY <1>6, <1>7, <1>8, <1>9, <1>10

(* What one read leaves of the shapes and of the framing.                  *)
LEMMA ReadKeepsFrames ==
  ASSUME HeapInv, NEW c \in Conns, NEW w \in Nat, NEW n, reads(c, w, n),
         UNCHANGED sent
  PROVE  /\ stream' \in [Conns -> Seq(Unit)]
         /\ \A x \in Conns : Framed(stream'[x], sent'[x])
         /\ n <= Len(stream[c])
  <1>1. /\ stream \in [Conns -> Seq(Unit)] /\ sent \in [Conns -> Seq(Packet)]
        /\ \A x \in Conns : Framed(stream[x], sent[x])
    BY DEF HeapInv, Shapes
  <1>2. n \in 0 .. Len(stream[c])
        /\ stream' = [stream EXCEPT ![c] = SubSeq(@, n + 1, Len(@))]
    BY <1>1 DEF reads
  <1>3. Framed(SubSeq(stream[c], n + 1, Len(stream[c])), sent[c])
    BY <1>1, <1>2, FramedDrop
  <1>4. SubSeq(stream[c], n + 1, Len(stream[c])) \in Seq(Unit)
    BY <1>1, <1>2, DropFacts
  <1> QED BY <1>1, <1>2, <1>3, <1>4

(* A step of one connection that leaves the others alone.                  *)
Sound == \A x \in Conns : heap[x] # "fault"
LEMMA OneConnection ==
  ASSUME HeapInv, NEW c \in Conns, Shapes', UNCHANGED sent,
         \A x \in Conns : Framed(stream'[x], sent'[x]),
         \A x \in Conns \ {c} : /\ pc'[x] = pc[x] /\ hdr'[x] = hdr[x]
                                /\ cuts'[x] = cuts[x],
         "twice" \in cuts[c] => "twice" \in cuts'[c],
         HeaderInv(c)', Sound',
         \A x \in Conns : heap'[x] = "overrun" =>
             heap[x] = "overrun" \/ (x = c /\ TakenFor(c, "BC_CLIENT"))
  PROVE  HeapInv'
  <1>1. \A x \in Conns \ {c} : HeaderInv(x)'
    BY DEF HeapInv, HeaderInv, TypeSent, TakenFor
  <1>2. \A x \in Conns, type \in Types : TakenFor(x, type) => TakenFor(x, type)'
    BY DEF TypeSent, TakenFor
  <1>3. HeapSafe'
    BY <1>2 DEF HeapInv, HeapSafe, Sound, Types
  <1> QED BY <1>1, <1>3 DEF HeapInv, Sound

(* The end of a read for a body.                                           *)
LEMMA BodyRead ==
  ASSUME HeapInv, NEW c \in Conns, NEW n, readBody(c, n), UNCHANGED sent
  PROVE  /\ stream' \in [Conns -> Seq(Unit)]
         /\ \A x \in Conns : Framed(stream'[x], sent'[x])
         /\ pc' \in [Conns -> {"none", "header", "body", "done"}]
         /\ hdr' \in [Conns -> Header]
         /\ cuts' \in [Conns -> SUBSET {"short", "last", "twice"}]
         /\ \A x \in Conns \ {c} : /\ pc'[x] = pc[x] /\ hdr'[x] = hdr[x]
                                   /\ cuts'[x] = cuts[x]
         /\ "twice" \in cuts[c] => "twice" \in cuts'[c]
         /\ HeaderInv(c)'
  <1>1. /\ pc \in [Conns -> {"none", "header", "body", "done"}]
        /\ hdr \in [Conns -> Header] /\ hdr[c] \in Header
        /\ cuts \in [Conns -> SUBSET {"short", "last", "twice"}]
        /\ HeaderInv(c)
    BY DEF HeapInv, Shapes
  <1>2. pc[c] = "body" /\ hdr[c].magic = "good" /\ hdr[c].len \in Nat
    BY <1>1 DEF readBody, HeaderInv, Header
  <1>3. idle(hdr[c].magic, hdr[c].len) \in Header
        /\ idle(hdr[c].magic, hdr[c].len).magic = "good"
    BY <1>2 DEF idle, Header, Types, Contents
  <1>4. /\ pc' = [pc EXCEPT ![c] = "header"]
        /\ hdr' = [hdr EXCEPT ![c] = idle(hdr[c].magic, hdr[c].len)]
    BY <1>1 DEF readBody
  <1>5. cuts' = cuts \/ cuts' = [cuts EXCEPT ![c] = @ \union {"short"}]
    BY DEF readBody
  <1>6. reads(c, hdr[c].len, n)
    BY DEF readBody
  <1>7. /\ stream' \in [Conns -> Seq(Unit)]
        /\ \A x \in Conns : Framed(stream'[x], sent'[x])
    BY <1>2, <1>6, ReadKeepsFrames
  <1>8. pc'[c] = "header" /\ hdr'[c].magic = "good"
    BY <1>1, <1>3, <1>4
  <1>9. HeaderInv(c)'
    BY <1>8 DEF HeaderInv
  <1>10. /\ pc' \in [Conns -> {"none", "header", "body", "done"}]
         /\ hdr' \in [Conns -> Header]
         /\ \A x \in Conns \ {c} : pc'[x] = pc[x] /\ hdr'[x] = hdr[x]
    BY <1>1, <1>3, <1>4
  <1>11. /\ cuts' \in [Conns -> SUBSET {"short", "last", "twice"}]
         /\ \A x \in Conns \ {c} : cuts'[x] = cuts[x]
         /\ "twice" \in cuts[c] => "twice" \in cuts'[c]
    BY <1>1, <1>5
  <1> QED BY <1>7, <1>9, <1>10, <1>11

(* The clients' steps, and those of the main loop.                         *)
LEMMA OthersKeepHeap ==
  ASSUME HeapInv, up, MainStep \/ ClientStep
  PROVE  HeapInv'
  <1> USE DEF network, servlets
  <1>t. /\ Shapes /\ Sound /\ sent \in [Conns -> Seq(Packet)]
        /\ stream \in [Conns -> Seq(Unit)]
        /\ pc \in [Conns -> {"none", "header", "body", "done"}]
        /\ hdr \in [Conns -> Header]
        /\ cuts \in [Conns -> SUBSET {"short", "last", "twice"}]
        /\ \A x \in Conns : Framed(stream[x], sent[x]) /\ HeaderInv(x)
    BY DEF HeapInv, Shapes, Sound
  <1>1. ASSUME NEW c \in Conns, connect(c) \/ closes(c) \/ sslStart(c)
        PROVE  HeapInv'
    <2>1. UNCHANGED <<stream, sent, pc, hdr, cuts, heap>>
      BY <1>1 DEF connect, closes, sslStart
    <2>2. Shapes' /\ HeaderInv(c)' /\ Sound'
      BY <1>t, <2>1 DEF Shapes, HeaderInv, TypeSent, TakenFor, Sound
    <2> QED BY <1>t, <2>1, <2>2, OneConnection
  <1>2. ASSUME NEW c \in Conns, breaks(c) PROVE HeapInv'
    <2>1. UNCHANGED <<sent, pc, hdr, cuts, heap>>
          /\ stream' = [stream EXCEPT ![c] = <<>>]
      BY <1>2 DEF breaks
    <2>2. <<>> \in Seq(Unit) /\ Framed(<<>>, sent[c])
      BY DEF Framed
    <2>3. stream' \in [Conns -> Seq(Unit)]
          /\ \A x \in Conns : Framed(stream'[x], sent'[x])
      BY <1>t, <2>1, <2>2
    <2>4. Shapes' /\ HeaderInv(c)' /\ Sound'
      BY <1>t, <2>1, <2>3 DEF Shapes, HeaderInv, TypeSent, TakenFor, Sound
    <2> QED BY <2>1, <2>3, <2>4, OneConnection
  <1>3. ASSUME NEW c \in Conns, NEW kind \in Kinds, send(c, kind) PROVE HeapInv'
    <2> DEFINE p == packet(c, kind)
    <2>1. /\ UNCHANGED <<pc, hdr, cuts, heap, up, build>>
          /\ sent' = [sent EXCEPT ![c] = Append(@, p)]
          /\ stream' = [stream EXCEPT ![c] = @ \o units(p)]
      BY <1>3 DEF send
    <2>2. p \in Packet /\ p.kind.len \in Nat
      <3>1. Len(sent[c]) \in Nat
        BY <1>t
      <3> QED BY <3>1, KindsAssumption DEF packet, Packet
    <2> HIDE DEF p
    <2>3. /\ stream[c] \o units(p) \in Seq(Unit)
          /\ Framed(stream[c] \o units(p), Append(sent[c], p))
      BY <1>t, <2>2, FramedSend
    <2>4. /\ Append(sent[c], p) \in Seq(Packet)
          /\ \A i \in DOMAIN sent[c] : i \in DOMAIN Append(sent[c], p)
                                      /\ Append(sent[c], p)[i] = sent[c][i]
      BY <1>t, <2>2
    <2>5. /\ stream' \in [Conns -> Seq(Unit)] /\ sent' \in [Conns -> Seq(Packet)]
          /\ \A x \in Conns : Framed(stream'[x], sent'[x])
      BY <1>t, <2>1, <2>3, <2>4
    <2>6. \A x \in Conns, type \in Types :
             TakenFor(x, type) => TakenFor(x, type)'
      <3> SUFFICES ASSUME NEW x \in Conns, NEW type \in Types,
                          NEW i \in DOMAIN sent[x],
                          sent[x][i].kind.type = type
                   PROVE  TypeSent(x, type)'
        BY <2>1 DEF TypeSent, TakenFor
      <3>1. i \in DOMAIN sent'[x] /\ sent'[x][i] = sent[x][i]
        BY <1>t, <2>1, <2>4
      <3> QED BY <3>1 DEF TypeSent
    <2>7. \A x \in Conns : HeaderInv(x)'
      <3> SUFFICES ASSUME NEW x \in Conns PROVE HeaderInv(x)'
        OBVIOUS
      <3>1. HeaderInv(x) /\ hdr' = hdr
        BY <1>t, <2>1
      <3>2. PICK type \in Types : type = hdr[x].type
        BY <1>t DEF Header
      <3>3. TakenFor(x, type) => TakenFor(x, type)'
        BY <2>6
      <3> QED BY <2>1, <3>1, <3>2, <3>3 DEF HeaderInv, TakenFor, TypeSent
    <2>8. Shapes' /\ Sound' /\ HeapSafe'
      BY <1>t, <2>1, <2>5, <2>6 DEF Shapes, Sound, HeapSafe, HeapInv, Types
    <2> QED BY <2>5, <2>7, <2>8 DEF HeapInv, Sound
  <1>4. ASSUME NEW c \in Conns, startServlet(c), UNCHANGED <<stream, sent>>
        PROVE  HeapInv'
    <2>1. PICK h \in {idle("junk", 0)}
                     \union {hdr[d] : d \in {d \in Conns : pc[d] = "done"}} :
              hdr' = [hdr EXCEPT ![c] = h]
      BY <1>4 DEF startServlet
    <2>2. h \in Header
      <3>1. idle("junk", 0) \in Header
        BY DEF idle, Header, Types, Contents
      <3> QED BY <1>t, <3>1
    <2>3. /\ pc' = [pc EXCEPT ![c] = "header"] /\ UNCHANGED heap
          /\ cuts' = [cuts EXCEPT ![c] = @ \union {"last"}]
      BY <1>4 DEF startServlet
    <2>4. Shapes' /\ Sound'
      BY <1>4, <1>t, <2>1, <2>2, <2>3 DEF Shapes, Sound
    <2>5. HeaderInv(c)'
      BY <1>t, <2>3 DEF HeaderInv
    <2>6. /\ \A x \in Conns \ {c} : /\ pc'[x] = pc[x] /\ hdr'[x] = hdr[x]
                                    /\ cuts'[x] = cuts[x]
          /\ "twice" \in cuts[c] => "twice" \in cuts'[c]
      BY <1>t, <2>1, <2>3
    <2> QED BY <1>4, <2>3, <1>t, <2>4, <2>5, <2>6, OneConnection
  <1>5. ASSUME NEW c \in Conns, sslRefused(c) PROVE HeapInv'
    <2>1. UNCHANGED <<stream, sent, hdr, cuts, heap>>
          /\ pc' = [pc EXCEPT ![c] = "done"]
      BY <1>5 DEF sslRefused
    <2>2. Shapes' /\ HeaderInv(c)' /\ Sound'
      BY <1>t, <2>1 DEF Shapes, HeaderInv, Sound
    <2>3. \A x \in Conns \ {c} : /\ pc'[x] = pc[x] /\ hdr'[x] = hdr[x]
                                 /\ cuts'[x] = cuts[x]
      BY <1>t, <2>1
    <2> QED BY <1>t, <2>1, <2>2, <2>3, OneConnection
  <1>6. ASSUME NEW c \in Conns, serverRealStart(c) \/ sslAccepted(c)
        PROVE  HeapInv'
    BY <1>4, <1>6 DEF serverRealStart, sslAccepted
  <1> QED BY <1>1, <1>2, <1>3, <1>5, <1>6 DEF MainStep, ClientStep

(* The servlet's steps.                                                    *)
LEMMA ServletKeepsHeap ==
  ASSUME HeapInv, up, NEW c \in Conns, serverServlet(c) \/ sslServlet(c)
  PROVE  HeapInv'
  <1> USE DEF network, servlets
  <1>t. /\ Shapes /\ Sound /\ sent \in [Conns -> Seq(Packet)]
        /\ pc \in [Conns -> {"none", "header", "body", "done"}]
        /\ hdr \in [Conns -> Header]
        /\ cuts \in [Conns -> SUBSET {"short", "last", "twice"}]
        /\ heap \in [Conns -> {"ok", "overrun", "fault"}]
        /\ HeaderInv(c) /\ HEADER \in Nat /\ 0 \in Nat
    BY DEF HeapInv, Shapes, Sound, HEADER
  <1>1. CASE readHeader(c)
    <2>1. PICK n \in 1 .. HEADER :
            /\ reads(c, HEADER, n)
            /\ \E h \in ntohlHeader(c, n) :
                  /\ hdr' = [hdr EXCEPT ![c] = h]
                  /\ pc' = [pc EXCEPT ![c] = IF h.magic = "good" THEN "body" ELSE @]
            /\ IF n < HEADER THEN short(c) ELSE whole(c)
      BY <1>1 DEF readHeader
    <2>2. PICK h \in ntohlHeader(c, n) :
            /\ hdr' = [hdr EXCEPT ![c] = h]
            /\ pc' = [pc EXCEPT ![c] = IF h.magic = "good" THEN "body" ELSE @]
      BY <2>1
    <2>3. pc[c] = "header" /\ UNCHANGED <<sent, heap>>
      BY <1>1 DEF readHeader
    <2>4. /\ stream' \in [Conns -> Seq(Unit)]
          /\ \A x \in Conns : Framed(stream'[x], sent'[x])
          /\ n <= Len(stream[c])
      BY <1>t, <2>1, <2>3, ReadKeepsFrames
    <2>5. /\ h \in Header
          /\ h.magic = "swapped" => n < HEADER
          /\ h.magic = "good" =>
                TypeSent(c, h.type) \/ (n < HEADER /\ "last" \in cuts[c])
      BY <2>3, <2>4, HeaderRead
    <2>6. /\ cuts' \in [Conns -> SUBSET {"short", "last", "twice"}]
          /\ \A x \in Conns \ {c} : cuts'[x] = cuts[x]
          /\ n < HEADER => "last" \in cuts'[c]
                           /\ ("last" \in cuts[c] => "twice" \in cuts'[c])
          /\ "twice" \in cuts[c] => "twice" \in cuts'[c]
      <3>1. CASE n < HEADER
        BY <1>t, <2>1, <3>1 DEF short
      <3>2. CASE ~(n < HEADER)
        <4>1. cuts \in [Conns -> SUBSET {"short", "last", "twice"}]
          BY <1>t DEF Shapes
        <4>2. cuts' = [cuts EXCEPT ![c] = @ \ {"last"}]
          BY <2>1, <3>2 DEF whole
        <4>3. /\ cuts' \in [Conns -> SUBSET {"short", "last", "twice"}]
              /\ \A x \in Conns \ {c} : cuts'[x] = cuts[x]
              /\ "twice" \in cuts[c] => "twice" \in cuts'[c]
          BY ONLY <4>1, <4>2
        <4> QED BY <3>2, <4>3
      <3> QED BY <3>1, <3>2
    <2>7. /\ hdr'[c] = h /\ pc'[c] = IF h.magic = "good" THEN "body" ELSE "header"
          /\ \A x \in Conns \ {c} : pc'[x] = pc[x] /\ hdr'[x] = hdr[x]
      BY <1>t, <2>2, <2>3
    <2>8. HeaderInv(c)'
      BY <2>3, <2>5, <2>6, <2>7 DEF HeaderInv, TypeSent, TakenFor
    <2>9. Shapes' /\ Sound'
      BY <1>t, <2>2, <2>3, <2>4, <2>5, <2>6 DEF Shapes, Sound
    <2> QED BY <2>3, <2>4, <2>6, <2>7, <2>8, <2>9, OneConnection
  <1>2. CASE endOfStream(c)
    <2>1. /\ reads(c, HEADER, 0) /\ UNCHANGED <<sent, hdr, heap, cuts>>
          /\ pc' = [pc EXCEPT ![c] = "done"]
      BY <1>2 DEF endOfStream
    <2>2. /\ stream' \in [Conns -> Seq(Unit)]
          /\ \A x \in Conns : Framed(stream'[x], sent'[x])
      BY <1>t, <2>1, ReadKeepsFrames
    <2>3. HeaderInv(c)' /\ \A x \in Conns \ {c} : pc'[x] = pc[x]
      BY <1>t, <2>1 DEF HeaderInv
    <2>4. Shapes' /\ Sound'
      BY <1>t, <2>1, <2>2 DEF Shapes, Sound
    <2> QED BY <2>1, <2>2, <2>3, <2>4, OneConnection
  <1>3. ASSUME NEW n, readBody(c, n), UNCHANGED sent, Sound',
               heap' \in [Conns -> {"ok", "overrun", "fault"}],
               \A x \in Conns : heap'[x] = "overrun" =>
                   heap[x] = "overrun" \/ (x = c /\ TakenFor(c, "BC_CLIENT"))
        PROVE  HeapInv'
    <2>1. /\ stream' \in [Conns -> Seq(Unit)]
          /\ \A x \in Conns : Framed(stream'[x], sent'[x])
          /\ pc' \in [Conns -> {"none", "header", "body", "done"}]
          /\ hdr' \in [Conns -> Header]
          /\ cuts' \in [Conns -> SUBSET {"short", "last", "twice"}]
          /\ \A x \in Conns \ {c} : /\ pc'[x] = pc[x] /\ hdr'[x] = hdr[x]
                                    /\ cuts'[x] = cuts[x]
          /\ "twice" \in cuts[c] => "twice" \in cuts'[c]
          /\ HeaderInv(c)'
      BY <1>3, BodyRead
    <2>2. Shapes'
      BY <1>3, <1>t, <2>1 DEF Shapes
    <2> QED BY <1>3, <2>1, <2>2, OneConnection
  <1>4. CASE clientBC(c)
    <2>1. PICK n \in 0 .. hdr[c].len :
            /\ readBody(c, n)
            /\ \/ UNCHANGED heap
               \/ heap' = [heap EXCEPT ![c] = IF @ = "ok" THEN "overrun" ELSE @]
      BY <1>4 DEF clientBC
    <2>2. UNCHANGED sent
      BY <1>4 DEF clientBC
    <2>3. Sound' /\ heap' \in [Conns -> {"ok", "overrun", "fault"}]
      BY <1>t, <2>1 DEF Sound
    <2>4. TakenFor(c, "BC_CLIENT")
      BY <1>4, <1>t, <2>1 DEF clientBC, readBody, HeaderInv
    <2>5. \A x \in Conns : heap'[x] = "overrun" => heap[x] = "overrun" \/ x = c
      BY <1>t, <2>1
    <2> QED BY <1>3, <2>1, <2>2, <2>3, <2>4, <2>5
  <1>5. CASE discard(c) \/ clientEvent(c)
    <2>1. PICK n \in 0 .. hdr[c].len : readBody(c, n)
      BY <1>5 DEF discard, clientEvent
    <2>2. UNCHANGED <<sent, heap>>
      BY <1>5 DEF discard, clientEvent
    <2>3. Sound' /\ heap' \in [Conns -> {"ok", "overrun", "fault"}]
      BY <1>t, <2>2 DEF Sound
    <2> QED BY <1>3, <2>1, <2>2, <2>3
  <1>6. CASE sslClientEvent(c)
    <2>1. PICK n \in 0 .. hdr[c].len : readBody(c, n)
      BY <1>6 DEF sslClientEvent
    <2>2. /\ build = "ssl" /\ build' = build /\ up' = FALSE /\ UNCHANGED sent
          /\ hdr[c].type = "CLIENT_EVENT" /\ heap' = [heap EXCEPT ![c] = "fault"]
      BY <1>6 DEF sslClientEvent
    <2>3. /\ stream' \in [Conns -> Seq(Unit)]
          /\ \A x \in Conns : Framed(stream'[x], sent'[x])
          /\ pc' \in [Conns -> {"none", "header", "body", "done"}]
          /\ hdr' \in [Conns -> Header]
          /\ cuts' \in [Conns -> SUBSET {"short", "last", "twice"}]
          /\ \A x \in Conns \ {c} : /\ pc'[x] = pc[x] /\ hdr'[x] = hdr[x]
                                    /\ cuts'[x] = cuts[x]
          /\ "twice" \in cuts[c] => "twice" \in cuts'[c]
          /\ HeaderInv(c)'
      BY <2>1, <2>2, BodyRead
    <2>4. Shapes'
      BY <1>t, <2>2, <2>3 DEF Shapes
    <2>5. \A x \in Conns : HeaderInv(x)'
      <3>1. ASSUME NEW x \in Conns \ {c} PROVE HeaderInv(x)'
        <4>1. /\ pc'[x] = pc[x] /\ hdr'[x] = hdr[x] /\ cuts'[x] = cuts[x]
              /\ sent' = sent /\ HeaderInv(x)
          BY <2>2, <2>3 DEF HeapInv
        <4> QED BY ONLY <4>1 DEF HeaderInv, TypeSent, TakenFor
      <3> QED BY <2>3, <3>1
    <2>6. TakenFor(c, "CLIENT_EVENT")
      BY <1>t, <2>1, <2>2 DEF readBody, HeaderInv
    <2>7. \A x \in Conns, type \in Types : TakenFor(x, type) => TakenFor(x, type)'
      BY <2>2, <2>3 DEF TypeSent, TakenFor
    <2>8. HeapSafe'
      BY <1>t, <2>2, <2>6, <2>7 DEF HeapInv, HeapSafe, Sound, Types
    <2> QED BY <2>2, <2>3, <2>4, <2>5, <2>8 DEF HeapInv
  <1> QED BY <1>1, <1>2, <1>4, <1>5, <1>6 DEF serverServlet, sslServlet

LEMMA HeapInit == Init => HeapInv
  <1> SUFFICES ASSUME Init PROVE HeapInv
    OBVIOUS
  <1>1. idle("junk", 0) \in Header
    BY DEF idle, Header, Types, Contents
  <1>2. <<>> \in Seq(Unit) /\ <<>> \in Seq(Packet) /\ Framed(<<>>, <<>>)
    BY DEF Framed
  <1>3. Shapes
    BY <1>1, <1>2 DEF Init, Shapes
  <1>4. \A c \in Conns : Framed(stream[c], sent[c]) /\ HeaderInv(c)
    BY <1>2 DEF Init, HeaderInv
  <1> QED BY <1>3, <1>4 DEF Init, HeapInv, HeapSafe

LEMMA HeapNext == HeapInv /\ [Next]_vars => HeapInv'
  <1> SUFFICES ASSUME HeapInv, [Next]_vars PROVE HeapInv'
    OBVIOUS
  <1>1. CASE Next
    BY <1>1, OthersKeepHeap, ServletKeepsHeap DEF Next
  <1>2. CASE UNCHANGED vars
    BY <1>2 DEF vars, network, servlets, HeapInv, Shapes, HeaderInv, TypeSent,
                TakenFor, HeapSafe
  <1> QED BY <1>1, <1>2

(* Memory safety of the servlets, for any number of connections and any    *)
(* packets, however read() cuts the stream: of what it does not own, the   *)
(* TCP servlet touches the byte behind the body of a client's broadcast    *)
(* and nothing else, although an event packet leaves msg.body dangling;    *)
(* the SSL servlet uses a wrong pointer only for an event packet.  Pieces  *)
(* of other packets pass for such packets only after two short header      *)
(* reads in a row.                                                         *)
THEOREM HeapStaysSafe == Spec => []HeapSafe
  <1>1. HeapInv => HeapSafe
    BY DEF HeapInv
  <1> QED BY HeapInit, HeapNext, <1>1, PTL DEF Spec

-----------------------------------------------------------------------------
(* What the servlet does for a connection, without the heap.               *)

Effect == [what: {"answer", "event", "blank", "clipped"}, n: Nat \union {None}]

Numbered(q) == \A k \in 1 .. Len(q) : q[k].n = k
End(u) == HEADER + u[1].kind.len
Before(u, v) == u[1].n < v[1].n \/ (u[1].n = v[1].n /\ u[2] < v[2])

(* A stream is what is left of the packets, in order and without a gap, to *)
(* the end of the last one sent: the units of a packet follow each other,  *)
(* and the next packet follows the last of them.                           *)
Sent(s, q) ==
    \A i \in 1 .. Len(s) :
        /\ s[i][1].n \in 1 .. Len(q) /\ s[i][1] = q[s[i][1].n]
        /\ s[i][2] \in 1 .. End(s[i])
Runs(s) ==
    \A i \in 1 .. Len(s) : \A j \in i .. Len(s) :
        s[i][2] + (j - i) <= End(s[i]) => s[j] = <<s[i][1], s[i][2] + (j - i)>>
Meets(s) ==
    \A i \in 1 .. Len(s) - 1 : s[i][2] = End(s[i]) => s[i + 1][2] = 1
Sorted(s) == \A i \in 1 .. Len(s) : \A j \in i + 1 .. Len(s) : Before(s[i], s[j])
Whole(s) == s # <<>> => s[Len(s)][2] = End(s[Len(s)])
Chain(s, q) == Sent(s, q) /\ Runs(s) /\ Meets(s) /\ Sorted(s) /\ Whole(s)

(* The effects so far: each for a packet of which nothing is unread, in    *)
(* order, or made up after two short headers.                              *)
Past(e, s, q) ==
    \A i \in 1 .. Len(e) : e[i].n # None =>
        /\ e[i].n \in 1 .. Len(q) /\ <<e[i]>> = owed(q[e[i].n])
        /\ \A j \in 1 .. Len(s) : e[i].n < s[j][1].n
Ordered(e) ==
    \A i \in 1 .. Len(e) : \A j \in 1 .. i - 1 :
        e[i].n # None /\ e[j].n # None => e[j].n < e[i].n
MadeUp(e, cut) == \A i \in 1 .. Len(e) : e[i].n = None => "twice" \in cut

(* A header that is taken for one packet's is that packet's, and without   *)
(* two short ones in a row it always is, with its whole body unread.       *)
Taken(h, q) ==
    h.packet # None =>
        /\ h.packet.n \in 1 .. Len(q) /\ h.packet = q[h.packet.n]
        /\ h.type = h.packet.kind.type /\ h.content = h.packet.kind.content
Clean(cn, s, h) ==
    /\ h.packet # None /\ h.len = h.packet.kind.len
    /\ \/ s # <<>> /\ s[1] = <<h.packet, HEADER + 1>>
       \/ s = <<>> /\ cn = "reset"

(* Without a short read the stream begins with a header between packets,   *)
(* and what is owed for a packet is done, or its header is unread, or its  *)
(* body is what is read next.                                              *)
Settled(s, q, p, h, e) ==
    \A k \in 1 .. Len(q) : owed(q[k]) # <<>> =>
        \/ \E i \in 1 .. Len(e) : e[i].n = k
        \/ \E i \in 1 .. Len(s) : s[i] = <<q[k], 1>>
        \/ p = "body" /\ h.packet = q[k]

Flow(cn, s, q, p, h, cut, e) ==
    /\ Numbered(q) /\ Chain(s, q)
    /\ e \in Seq(Effect) /\ Past(e, s, q) /\ Ordered(e) /\ MadeUp(e, cut)
    /\ p = "none" => cut = {} /\ e = <<>>
    /\ "twice" \in cut => "short" \in cut
    /\ p = "body" => Taken(h, q) /\ ("twice" \in cut \/ Clean(cn, s, h))
    /\ "short" \notin cut =>
          /\ p \in {"none", "header"} /\ s # <<>> => s[1][2] = 1
          /\ p # "done" /\ cn # "reset" => Settled(s, q, p, h, e)

FlowAt(c) ==
    Flow(conn[c], stream[c], sent[c], pc[c], hdr[c], cuts[c], effects[c])

FlowInv ==
    /\ HeapInv /\ DOMAIN conn = Conns /\ DOMAIN effects = Conns
    /\ build = "tcp" => main = None /\ \A c \in Conns : FlowAt(c)

(* Units of a stream have a packet and a number, packets have a length.    *)
LEMMA UnitFacts ==
  ASSUME NEW u \in Unit
  PROVE  /\ u[1] \in Packet /\ u[2] \in Nat /\ u[1].n \in Nat
         /\ u[1].kind.len \in Nat /\ u[1].kind.len >= 1
         /\ End(u) \in Nat /\ End(u) = 2 + u[1].kind.len
         /\ u = <<u[1], u[2]>>
  <1>1. u[1] \in Packet /\ u[2] \in Nat /\ u = <<u[1], u[2]>>
    BY DEF Unit
  <1>2. u[1].n \in Nat /\ u[1].kind \in Kinds
    BY <1>1 DEF Packet
  <1>3. u[1].kind.len \in Nat \ {0}
    BY <1>2, KindsAssumption
  <1>4. End(u) = 2 + u[1].kind.len
    BY DEF End, HEADER
  <1> QED BY <1>1, <1>2, <1>3, <1>4

LEMMA ChainDrop ==
  ASSUME NEW q \in Seq(Packet), NEW s \in Seq(Unit), Chain(s, q),
         NEW n \in 0 .. Len(s)
  PROVE  Chain(SubSeq(s, n + 1, Len(s)), q)
  <1> DEFINE t == SubSeq(s, n + 1, Len(s))
  <1>1. t \in Seq(Unit) /\ Len(t) = Len(s) - n
        /\ \A i \in 1 .. Len(s) - n : t[i] = s[n + i]
    BY DropFacts
  <1> HIDE DEF t
  <1>2. Len(s) \in Nat /\ n \in Nat /\ Len(t) \in Nat
    BY <1>1
  <1>3. \A i \in 1 .. Len(t) : n + i \in 1 .. Len(s) /\ t[i] = s[n + i]
    BY <1>1, <1>2
  <1>4. Sent(t, q)
    BY <1>3 DEF Chain, Sent
  <1>5. Runs(t)
    <2> SUFFICES ASSUME NEW i \in 1 .. Len(t), NEW j \in i .. Len(t),
                        t[i][2] + (j - i) <= End(t[i])
                 PROVE  t[j] = <<t[i][1], t[i][2] + (j - i)>>
      BY DEF Runs
    <2>1. j \in 1 .. Len(t) /\ n + j \in n + i .. Len(s)
          /\ (n + j) - (n + i) = j - i
      BY <1>1, <1>2
    <2>2. t[i] = s[n + i] /\ t[j] = s[n + j] /\ n + i \in 1 .. Len(s)
      BY <1>3, <2>1
    <2> QED BY <2>1, <2>2 DEF Chain, Runs
  <1>6. Meets(t)
    <2> SUFFICES ASSUME NEW i \in 1 .. Len(t) - 1, t[i][2] = End(t[i])
                 PROVE  t[i + 1][2] = 1
      BY DEF Meets
    <2>1. /\ i \in 1 .. Len(t) /\ i + 1 \in 1 .. Len(t)
          /\ n + (i + 1) = n + i + 1 /\ n + i \in 1 .. Len(s) - 1
      BY <1>1, <1>2
    <2>2. t[i] = s[n + i] /\ t[i + 1] = s[n + i + 1]
      BY <1>3, <2>1
    <2> QED BY <2>1, <2>2 DEF Chain, Meets
  <1>7. Sorted(t)
    <2> SUFFICES ASSUME NEW i \in 1 .. Len(t), NEW j \in i + 1 .. Len(t)
                 PROVE  Before(t[i], t[j])
      BY DEF Sorted
    <2>1. j \in 1 .. Len(t) /\ n + j \in n + i + 1 .. Len(s)
      BY <1>1, <1>2
    <2>2. t[i] = s[n + i] /\ t[j] = s[n + j] /\ n + i \in 1 .. Len(s)
      BY <1>3, <2>1
    <2> QED BY <2>1, <2>2 DEF Chain, Sorted
  <1>8. Whole(t)
    <2> SUFFICES ASSUME t # <<>> PROVE t[Len(t)][2] = End(t[Len(t)])
      BY DEF Whole
    <2>1. Len(t) >= 1 /\ Len(t) \in 1 .. Len(t)
      BY <1>1, <1>2
    <2>2. n + Len(t) = Len(s) /\ t[Len(t)] = s[Len(s)] /\ s # <<>>
      BY <1>1, <1>2, <1>3, <2>1
    <2> QED BY <2>2 DEF Chain, Whole
  <1> QED BY <1>4, <1>5, <1>6, <1>7, <1>8 DEF Chain, t

(* What a client sends continues the chain.                                *)
LEMMA ChainSend ==
  ASSUME NEW q \in Seq(Packet), NEW s \in Seq(Unit), Chain(s, q), Numbered(q),
         NEW p \in Packet, p.n = Len(q) + 1
  PROVE  LET t == s \o units(p)
         IN  /\ Chain(t, Append(q, p)) /\ Numbered(Append(q, p))
             /\ t \in Seq(Unit) /\ Len(t) > Len(s)
             /\ \A i \in 1 .. Len(s) : t[i] = s[i]
             /\ \A i \in Len(s) + 1 .. Len(t) : t[i] = <<p, i - Len(s)>>
  <1> DEFINE u == units(p)
             t == s \o u
             r == Append(q, p)
  <1>k. p.kind.len \in Nat /\ p.kind.len >= 1
    BY KindsAssumption DEF Packet
  <1>1. /\ u \in Seq(Unit) /\ Len(u) = 2 + p.kind.len
        /\ \A k \in 1 .. Len(u) : u[k] = <<p, k>>
    <2> DEFINE m == 2 + p.kind.len
    <2>1. m \in Nat
      BY <1>k
    <2>2. u = [k \in 1 .. m |-> <<p, k>>]
      BY DEF units, HEADER
    <2> HIDE DEF m, u
    <2>3. u \in [1 .. m -> Unit]
      BY <2>1, <2>2 DEF Unit
    <2>4. u \in Seq(Unit) /\ Len(u) = m
      BY <2>1, <2>3
    <2> QED BY <2>1, <2>2, <2>4 DEF m
  <1> HIDE DEF u
  <1>2. /\ t \in Seq(Unit) /\ Len(t) = Len(s) + Len(u)
        /\ \A i \in 1 .. Len(s) + Len(u) :
               t[i] = IF i <= Len(s) THEN s[i] ELSE u[i - Len(s)]
    BY <1>1, ConcatProperties
  <1>3. /\ r \in Seq(Packet) /\ Len(r) = Len(q) + 1 /\ r[Len(q) + 1] = p
        /\ \A j \in 1 .. Len(q) : r[j] = q[j]
        /\ Len(q) \in Nat /\ Len(s) \in Nat /\ Len(u) \in Nat /\ Len(u) >= 1
    BY <1>1, <1>k
  <1> HIDE DEF t, r
  <1>4. \A i \in 1 .. Len(s) : i \in 1 .. Len(t) /\ t[i] = s[i]
    BY <1>2, <1>3
  <1>5. \A i \in Len(s) + 1 .. Len(t) : /\ t[i] = <<p, i - Len(s)>>
                                        /\ i - Len(s) \in 1 .. Len(u)
    <2> SUFFICES ASSUME NEW i \in Len(s) + 1 .. Len(t)
                 PROVE  t[i] = <<p, i - Len(s)>> /\ i - Len(s) \in 1 .. Len(u)
      OBVIOUS
    <2>1. i \in 1 .. Len(s) + Len(u) /\ ~(i <= Len(s)) /\ i - Len(s) \in 1 .. Len(u)
      BY <1>2, <1>3
    <2>2. t[i] = u[i - Len(s)]
      BY <1>2, <2>1
    <2> QED BY <1>1, <2>1, <2>2
  <1>6. \A i \in 1 .. Len(t) : i \in 1 .. Len(s) \/ i \in Len(s) + 1 .. Len(t)
    BY <1>2, <1>3
  <1>7. \A i \in Len(s) + 1 .. Len(t) : End(t[i]) = Len(u) /\ t[i][1] = p
                                         /\ t[i][2] = i - Len(s)
    BY <1>1, <1>5 DEF End, HEADER
  <1>8. \A i \in 1 .. Len(s) : /\ s[i] \in Unit /\ s[i][2] \in Nat /\ End(s[i]) \in Nat
                               /\ s[i][1].n \in 1 .. Len(q) /\ s[i][1] = q[s[i][1].n]
                               /\ s[i][2] \in 1 .. End(s[i])
    BY UnitFacts DEF Chain, Sent
  <1>9. Sent(t, r)
    <2> SUFFICES ASSUME NEW i \in 1 .. Len(t)
                 PROVE  /\ t[i][1].n \in 1 .. Len(r) /\ t[i][1] = r[t[i][1].n]
                        /\ t[i][2] \in 1 .. End(t[i])
      BY DEF Sent
    <2>1. CASE i \in 1 .. Len(s)
      <3>1. t[i] = s[i]
        BY <1>4, <2>1
      <3>2. s[i][1].n \in 1 .. Len(q) /\ s[i][1].n \in 1 .. Len(r)
        BY <1>3, <1>8, <2>1
      <3> QED BY <1>3, <1>8, <2>1, <3>1, <3>2
    <2>2. CASE i \in Len(s) + 1 .. Len(t)
      <3>1. t[i][1] = p /\ t[i][2] \in 1 .. End(t[i])
        BY <1>5, <1>7, <2>2
      <3>2. p.n \in 1 .. Len(r) /\ r[p.n] = p
        BY <1>3
      <3> QED BY <3>1, <3>2
    <2> QED BY <1>6, <2>1, <2>2
  <1>10. Runs(t)
    <2> SUFFICES ASSUME NEW i \in 1 .. Len(t), NEW j \in i .. Len(t),
                        t[i][2] + (j - i) <= End(t[i])
                 PROVE  t[j] = <<t[i][1], t[i][2] + (j - i)>>
      BY DEF Runs
    <2>0. i \in Int /\ j \in Int /\ Len(t) \in Int /\ j >= i /\ j <= Len(t) /\ i >= 1
      BY <1>2, <1>3
    <2>1. CASE i \in 1 .. Len(s) /\ j \in 1 .. Len(s)
      <3>1. j \in i .. Len(s) /\ t[i] = s[i] /\ t[j] = s[j]
        BY <1>4, <2>0, <2>1
      <3> QED BY <2>1, <3>1 DEF Chain, Runs
    <2>2. CASE i \in 1 .. Len(s) /\ j \in Len(s) + 1 .. Len(t)
      <3> DEFINE l == Len(s)
      <3>1. l \in i .. Len(s) /\ l \in 1 .. Len(s) /\ s # <<>> /\ t[i] = s[i]
        BY <1>3, <1>4, <2>2
      <3>2. s[i][2] \in Nat /\ End(s[i]) \in Nat
        BY <1>8, <2>2
      <3>3. /\ s[i][2] + (j - i) <= End(s[i]) /\ l \in Int /\ l < j
            /\ s[i][2] + (l - i) <= End(s[i])
        <4>1. s[i][2] + (j - i) <= End(s[i])
          BY <3>1
        <4>2. l \in Int /\ l < j
          BY <1>3, <2>0, <2>2
        <4> HIDE DEF l
        <4> QED BY <2>0, <3>2, <4>1, <4>2
      <3>4. s[l] = <<s[i][1], s[i][2] + (l - i)>>
        BY <2>2, <3>1, <3>3 DEF Chain, Runs
      <3>5. s[l][2] = End(s[l])
        BY <3>1 DEF Chain, Whole
      <3>6. End(s[l]) = End(s[i]) /\ s[l][2] = s[i][2] + (l - i)
        BY <3>4 DEF End
      <3> HIDE DEF l
      <3>7. s[i][2] + (l - i) = End(s[i])
        BY <3>5, <3>6
      <3>8. PICK x \in Nat : x = s[i][2]
        BY <3>2
      <3>9. PICK y \in Nat : y = End(s[i])
        BY <3>2
      <3>10. x + (l - i) = y /\ x + (j - i) <= y
        BY <3>3, <3>7, <3>8, <3>9
      <3>11. FALSE
        BY ONLY <2>0, <3>3, <3>10, x \in Nat, y \in Nat
      <3> QED BY <3>11
    <2>3. CASE i \in Len(s) + 1 .. Len(t)
      <3>1. j \in Len(s) + 1 .. Len(t)
        BY <1>3, <2>0, <2>3
      <3>2. t[j] = <<p, j - Len(s)>> /\ t[i][1] = p /\ t[i][2] = i - Len(s)
        BY <1>5, <1>7, <2>3, <3>1
      <3>3. (i - Len(s)) + (j - i) = j - Len(s)
        BY <1>3, <2>0
      <3> QED BY <3>2, <3>3
    <2>4. j \in 1 .. Len(t)
      BY <2>0
    <2> QED BY <1>6, <2>1, <2>2, <2>3, <2>4
  <1>11. Meets(t)
    <2> SUFFICES ASSUME NEW i \in 1 .. Len(t) - 1, t[i][2] = End(t[i])
                 PROVE  t[i + 1][2] = 1
      BY DEF Meets
    <2>0. i \in 1 .. Len(t) /\ i + 1 \in 1 .. Len(t) /\ i \in Int /\ i < Len(t)
      BY <1>2, <1>3
    <2>1. CASE i \in 1 .. Len(s) /\ i + 1 \in 1 .. Len(s)
      <3>1. i \in 1 .. Len(s) - 1 /\ t[i] = s[i] /\ t[i + 1] = s[i + 1]
        BY <1>3, <1>4, <2>0, <2>1
      <3> QED BY <3>1 DEF Chain, Meets
    <2>2. CASE i \in 1 .. Len(s) /\ i + 1 \in Len(s) + 1 .. Len(t)
      <3>1. (i + 1) - Len(s) = 1
        BY <1>3, <2>0, <2>2
      <3> QED BY <1>7, <2>2, <3>1
    <2>3. CASE i \in Len(s) + 1 .. Len(t)
      <3>1. i - Len(s) = Len(u)
        BY <1>7, <2>3
      <3> QED BY <1>2, <1>3, <2>0, <3>1
    <2> QED BY <1>6, <2>0, <2>1, <2>2, <2>3
  <1>12. Sorted(t)
    <2> SUFFICES ASSUME NEW i \in 1 .. Len(t), NEW j \in i + 1 .. Len(t)
                 PROVE  Before(t[i], t[j])
      BY DEF Sorted
    <2>0. j \in 1 .. Len(t) /\ i < j /\ i \in Int /\ j \in Int
      BY <1>2, <1>3
    <2>1. CASE i \in 1 .. Len(s) /\ j \in 1 .. Len(s)
      <3>1. j \in i + 1 .. Len(s) /\ t[i] = s[i] /\ t[j] = s[j]
        BY <1>3, <1>4, <2>0, <2>1
      <3> QED BY <2>1, <3>1 DEF Chain, Sorted
    <2>2. CASE i \in 1 .. Len(s) /\ j \in Len(s) + 1 .. Len(t)
      <3>1. t[i] = s[i] /\ t[j][1] = p /\ s[i][1].n \in 1 .. Len(q)
        BY <1>4, <1>7, <1>8, <2>2
      <3>2. s[i][1].n < p.n
        BY <1>3, <3>1
      <3> QED BY <3>1, <3>2 DEF Before
    <2>3. CASE i \in Len(s) + 1 .. Len(t)
      <3>1. j \in Len(s) + 1 .. Len(t) /\ i - Len(s) < j - Len(s)
        BY <1>3, <2>0, <2>3
      <3>2. /\ t[i][1] = p /\ t[j][1] = p /\ t[i][2] = i - Len(s)
            /\ t[j][2] = j - Len(s)
        BY <1>7, <2>3, <3>1
      <3> QED BY <3>1, <3>2 DEF Before
    <2> QED BY <1>6, <2>0, <2>1, <2>2, <2>3
  <1>13. Whole(t)
    <2>1. Len(t) \in Len(s) + 1 .. Len(t) /\ Len(t) - Len(s) = Len(u)
      BY <1>2, <1>3
    <2> QED BY <1>7, <2>1 DEF Whole
  <1>14. Numbered(r)
    <2> SUFFICES ASSUME NEW k \in 1 .. Len(r) PROVE r[k].n = k
      BY DEF Numbered
    <2>1. k \in 1 .. Len(q) \/ k = Len(q) + 1
      BY <1>3
    <2> QED BY <1>3, <2>1 DEF Numbered
  <1>15. Len(t) > Len(s)
    BY <1>2, <1>3
  <1> QED BY <1>2, <1>4, <1>5, <1>9, <1>10, <1>11, <1>12, <1>13, <1>14, <1>15
          DEF Chain, t, u, r

LEMMA PastDrop ==
  ASSUME NEW q, NEW e, NEW s \in Seq(Unit), Past(e, s, q), NEW n \in 0 .. Len(s)
  PROVE  Past(e, SubSeq(s, n + 1, Len(s)), q)
  <1> DEFINE t == SubSeq(s, n + 1, Len(s))
  <1>1. Len(t) = Len(s) - n /\ \A i \in 1 .. Len(s) - n : t[i] = s[n + i]
    BY DropFacts
  <1> HIDE DEF t
  <1>2. Len(s) \in Nat /\ n \in Nat
    OBVIOUS
  <1>3. \A i \in 1 .. Len(t) : n + i \in 1 .. Len(s) /\ t[i] = s[n + i]
    BY <1>1, <1>2
  <1>4. Past(e, t, q)
    BY <1>3 DEF Past
  <1> QED BY <1>4 DEF t

(* A client sends a packet.                                                *)
LEMMA FlowSend ==
  ASSUME NEW q \in Seq(Packet), NEW s \in Seq(Unit), NEW cn, NEW p, NEW h, NEW cut,
         NEW e, Flow(cn, s, q, p, h, cut, e), cn # "reset",
         NEW k \in Packet, k.n = Len(q) + 1
  PROVE  Flow(cn, s \o units(k), Append(q, k), p, h, cut, e)
  <1> DEFINE t == s \o units(k)
             r == Append(q, k)
  <1>0. Chain(s, q) /\ Numbered(q)
    BY DEF Flow
  <1>1. /\ Chain(t, r) /\ Numbered(r) /\ t \in Seq(Unit) /\ Len(t) > Len(s)
        /\ \A i \in 1 .. Len(s) : t[i] = s[i]
        /\ \A i \in Len(s) + 1 .. Len(t) : t[i] = <<k, i - Len(s)>>
    BY <1>0, ChainSend
  <1>2. /\ Len(r) = Len(q) + 1 /\ r[Len(q) + 1] = k /\ Len(q) \in Nat
        /\ \A j \in 1 .. Len(q) : j \in 1 .. Len(r) /\ r[j] = q[j]
    OBVIOUS
  <1> HIDE DEF t, r
  <1>3. Len(s) \in Nat /\ Len(t) \in Nat
    BY <1>1
  <1>4. \A i \in 1 .. Len(s) : i \in 1 .. Len(t)
    BY <1>1, <1>3
  <1>5. Len(s) + 1 \in Len(s) + 1 .. Len(t) /\ t[Len(s) + 1] = <<k, 1>>
        /\ Len(s) + 1 \in 1 .. Len(t) /\ t # <<>>
    <2>1. Len(s) + 1 \in Len(s) + 1 .. Len(t) /\ Len(s) + 1 \in 1 .. Len(t)
          /\ (Len(s) + 1) - Len(s) = 1 /\ Len(t) # 0
      BY <1>1, <1>3
    <2> QED BY <1>1, <2>1
  <1>6. Past(e, t, r)
    <2> SUFFICES ASSUME NEW i \in 1 .. Len(e), e[i].n # None
                 PROVE  /\ e[i].n \in 1 .. Len(r) /\ <<e[i]>> = owed(r[e[i].n])
                        /\ \A j \in 1 .. Len(t) : e[i].n < t[j][1].n
      BY DEF Past
    <2>1. /\ e[i].n \in 1 .. Len(q) /\ <<e[i]>> = owed(q[e[i].n])
          /\ \A j \in 1 .. Len(s) : e[i].n < s[j][1].n
      BY DEF Flow, Past
    <2>2. e[i].n \in 1 .. Len(r) /\ r[e[i].n] = q[e[i].n]
      BY <1>2, <2>1
    <2>3. ASSUME NEW j \in 1 .. Len(t) PROVE e[i].n < t[j][1].n
      <3>1. j \in 1 .. Len(s) \/ j \in Len(s) + 1 .. Len(t)
        BY <1>3
      <3>2. CASE j \in 1 .. Len(s)
        BY <1>1, <2>1, <3>2
      <3>3. CASE j \in Len(s) + 1 .. Len(t)
        <4>1. t[j][1].n = Len(q) + 1
          BY <1>1, <3>3
        <4> QED BY <1>2, <2>1, <4>1
      <3> QED BY <3>1, <3>2, <3>3
    <2> QED BY <2>1, <2>2, <2>3
  <1>7. Taken(h, q) => Taken(h, r)
    BY <1>2 DEF Taken
  <1>8. s # <<>> => t[1] = s[1]
    <2>1. s # <<>> => 1 \in 1 .. Len(s)
      BY <1>3
    <2> QED BY <1>1, <2>1
  <1>9. Clean(cn, s, h) => Clean(cn, t, h)
    BY <1>5, <1>8 DEF Clean
  <1>10. (s # <<>> => s[1][2] = 1) => t[1][2] = 1
    <2>1. s = <<>> => Len(s) + 1 = 1
      OBVIOUS
    <2> QED BY <1>5, <1>8, <2>1
  <1>11. Settled(s, q, p, h, e) => Settled(t, r, p, h, e)
    <2> SUFFICES ASSUME Settled(s, q, p, h, e), NEW x \in 1 .. Len(r),
                        owed(r[x]) # <<>>
                 PROVE  \/ \E i \in 1 .. Len(e) : e[i].n = x
                        \/ \E i \in 1 .. Len(t) : t[i] = <<r[x], 1>>
                        \/ p = "body" /\ h.packet = r[x]
      BY DEF Settled
    <2>1. x \in 1 .. Len(q) \/ x = Len(q) + 1
      BY <1>2
    <2>2. CASE x \in 1 .. Len(q)
      <3>1. r[x] = q[x]
        BY <1>2, <2>2
      <3>2. \/ \E i \in 1 .. Len(e) : e[i].n = x
            \/ \E i \in 1 .. Len(s) : s[i] = <<q[x], 1>>
            \/ p = "body" /\ h.packet = q[x]
        BY <2>2, <3>1 DEF Settled
      <3> QED BY <1>1, <1>4, <3>1, <3>2
    <2>3. CASE x = Len(q) + 1
      BY <1>2, <1>5, <2>3
    <2> QED BY <2>1, <2>2, <2>3
  <1>12. Flow(cn, t, r, p, h, cut, e)
    BY <1>1, <1>6, <1>7, <1>9, <1>10, <1>11 DEF Flow
  <1> QED BY <1>12 DEF t, r

(* The connection breaks.                                                  *)
LEMMA FlowBreaks ==
  ASSUME NEW q, NEW s, NEW cn, NEW p, NEW h, NEW cut, NEW e,
         Flow(cn, s, q, p, h, cut, e)
  PROVE  Flow("reset", <<>>, q, p, h, cut, e)
  <1>1. Chain(<<>>, q)
    BY DEF Chain, Sent, Runs, Meets, Sorted, Whole
  <1>2. Past(e, <<>>, q)
    BY DEF Flow, Past
  <1>3. Clean(cn, s, h) => Clean("reset", <<>>, h)
    BY DEF Clean
  <1> QED BY <1>1, <1>2, <1>3 DEF Flow

(* It is made, or closed in order.                                         *)
LEMMA FlowConnected ==
  ASSUME NEW q, NEW s, NEW cn, NEW cm, NEW p, NEW h, NEW cut, NEW e,
         Flow(cn, s, q, p, h, cut, e), cn # "reset", cm # "reset"
  PROVE  Flow(cm, s, q, p, h, cut, e)
  <1>1. Clean(cn, s, h) => Clean(cm, s, h)
    BY DEF Clean
  <1> QED BY <1>1 DEF Flow

(* Its servlet starts, with whatever its stack holds.                      *)
LEMMA FlowStart ==
  ASSUME NEW q, NEW s, NEW cn, NEW h, NEW g, NEW cut, NEW e,
         Flow(cn, s, q, "none", h, cut, e)
  PROVE  Flow(cn, s, q, "header", g, {"last"}, e)
  <1>1. cut = {} /\ e = <<>>
    BY DEF Flow
  <1>2. MadeUp(e, {"last"})
    BY <1>1 DEF MadeUp
  <1>3. Settled(s, q, "none", h, e) => Settled(s, q, "header", g, e)
    BY DEF Settled
  <1> QED BY <1>1, <1>2, <1>3 DEF Flow

(* The servlet ends.                                                       *)
LEMMA FlowEnds ==
  ASSUME NEW q \in Seq(Packet), NEW s \in Seq(Unit), NEW cn, NEW p, NEW h, NEW cut,
         NEW e, Flow(cn, s, q, p, h, cut, e)
  PROVE  Flow(cn, SubSeq(s, 0 + 1, Len(s)), q, "done", h, cut, e)
  <1>1. 0 \in 0 .. Len(s)
    OBVIOUS
  <1>2. Chain(SubSeq(s, 0 + 1, Len(s)), q)
    BY <1>1, ChainDrop DEF Flow
  <1>3. Past(e, SubSeq(s, 0 + 1, Len(s)), q)
    BY <1>1, PastDrop DEF Flow
  <1> QED BY <1>2, <1>3 DEF Flow

LEMMA PacketFacts ==
  ASSUME NEW p \in Packet
  PROVE  p # None /\ p.n \in Nat /\ p.n # None /\ p.kind.len \in Nat /\ p.kind.len >= 1
  <1>1. p # None /\ p.n \in Nat /\ p.n # None
    BY NoneAssumption DEF Packet
  <1>2. p.kind.len \in Nat \ {0}
    BY KindsAssumption DEF Packet
  <1> QED BY <1>1, <1>2

(* What ntohlHeader makes of the first units of a stream.                  *)
LEMMA HeaderFields ==
  ASSUME HeapInv, NEW c \in Conns, pc[c] = "header", NEW n \in 1 .. HEADER,
         n <= Len(stream[c]), NEW g \in ntohlHeader(c, n)
  PROVE  /\ g.magic = "good" /\ n = 1 => "last" \in cuts[c]
         /\ g.magic = "good" /\ n = 2 => stream[c][1][2] = 1 /\ stream[c][2][2] = 2
                                         /\ g.len = stream[c][2][1].kind.len
         /\ g.magic = "good" /\ stream[c][1][2] = 1 =>
               /\ g.packet = stream[c][1][1] /\ g.type = g.packet.kind.type
               /\ g.content = g.packet.kind.content
         /\ g.magic = "good" /\ stream[c][1][2] # 1 => g.packet = None
         /\ n = 2 /\ stream[c][2][2] = 2 => g.magic = "good"
  <1> DEFINE first == stream[c][1]
             second == stream[c][2]
             magic == IF n < HEADER THEN swapped(hdr[c].magic)
                      ELSE IF second[2] = 2 THEN swapped("swapped") ELSE "junk"
             len == IF n < HEADER THEN hdr[c].len
                    ELSE IF magic = "junk" THEN 0 ELSE second[1].kind.len
  <1>t. /\ stream[c] \in Seq(Unit) /\ hdr[c] \in Header
        /\ Framed(stream[c], sent[c]) /\ HeaderInv(c) /\ Len(stream[c]) \in Nat
    BY DEF HeapInv, Shapes
  <1>n. n = 1 \/ n = 2
    BY DEF HEADER
  <1>2. swapped("swapped") = "good" /\ swapped("good") = "swapped"
        /\ swapped("junk") = "junk"
    BY DEF swapped
  <1>5. g \in IF magic # "good" THEN {idle(magic, len)}
              ELSE IF first[2] = 1
              THEN {[magic |-> magic, len |-> len, type |-> first[1].kind.type,
                     content |-> first[1].kind.content, packet |-> first[1]]}
              ELSE [magic: {magic}, len: {len}, type: Types, content: Contents,
                    packet: {None}]
    BY DEF ntohlHeader
  <1>6. g.magic = magic /\ g.len = len
    BY <1>5 DEF idle
  <1>7. n = 2 => magic = IF second[2] = 2 THEN "good" ELSE "junk"
    BY <1>2 DEF HEADER
  <1>8. ASSUME n = 1, magic = "good" PROVE "last" \in cuts[c]
    <2>1. swapped(hdr[c].magic) = "good"
      BY <1>8 DEF HEADER
    <2>2. hdr[c].magic = "swapped"
      BY <1>2, <1>t, <2>1 DEF Header
    <2> QED BY <1>t, <2>2 DEF HeaderInv
  <1>9. ASSUME n = 2, magic = "good"
        PROVE  first[2] = 1 /\ second[2] = 2 /\ len = second[1].kind.len
    <2>1. second[2] = 2
      BY <1>7, <1>9
    <2>2. 1 \in 1 .. Len(stream[c]) /\ 1 < Len(stream[c]) /\ 1 + 1 = 2
      BY <1>t, <1>9
    <2>3. 1 < Len(stream[c]) /\ stream[c][1 + 1][2] = 2 => stream[c][1][2] = 1
      BY <1>t, <2>2 DEF Framed
    <2>4. len = second[1].kind.len
      BY <1>9 DEF HEADER
    <2> QED BY <2>1, <2>2, <2>3, <2>4
  <1> HIDE DEF magic, len
  <1>10. magic = "good" /\ first[2] = 1 =>
               /\ g.packet = first[1] /\ g.type = first[1].kind.type
               /\ g.content = first[1].kind.content
    BY <1>5
  <1>11. magic = "good" /\ first[2] # 1 => g.packet = None
    BY <1>5
  <1> QED BY <1>6, <1>7, <1>8, <1>9, <1>10, <1>11

(* The read of a header.                                                   *)
LEMMA FlowHeader ==
  ASSUME HeapInv, NEW c \in Conns, pc[c] = "header", NEW n \in 1 .. HEADER,
         n <= Len(stream[c]), NEW g \in ntohlHeader(c, n), NEW cut, NEW cn, NEW e,
         Flow(cn, stream[c], sent[c], "header", hdr[c], cuts[c], e),
         n < HEADER => cut = cuts[c] \union {"short", "last"}
                             \union (IF "last" \in cuts[c] THEN {"twice"} ELSE {}),
         n = HEADER => cut = cuts[c] \ {"last"}
  PROVE  Flow(cn, SubSeq(stream[c], n + 1, Len(stream[c])), sent[c],
              IF g.magic = "good" THEN "body" ELSE "header", g, cut, e)
  <1> DEFINE s == stream[c]
             q == sent[c]
             t == SubSeq(s, n + 1, Len(s))
             p == IF g.magic = "good" THEN "body" ELSE "header"
  <1>t. s \in Seq(Unit) /\ q \in Seq(Packet) /\ Len(s) \in Nat
    BY DEF HeapInv, Shapes
  <1>n. (n = 1 \/ n = 2) /\ n \in 0 .. Len(s) /\ HEADER = 2
    BY <1>t DEF HEADER
  <1>1. /\ g.magic = "good" /\ n = 1 => "last" \in cuts[c]
        /\ g.magic = "good" /\ n = 2 => s[1][2] = 1 /\ s[2][2] = 2
                                        /\ g.len = s[2][1].kind.len
        /\ g.magic = "good" /\ s[1][2] = 1 =>
              /\ g.packet = s[1][1] /\ g.type = g.packet.kind.type
              /\ g.content = g.packet.kind.content
        /\ g.magic = "good" /\ s[1][2] # 1 => g.packet = None
        /\ n = 2 /\ s[2][2] = 2 => g.magic = "good"
    BY HeaderFields
  <1>2. /\ Numbered(q) /\ Chain(s, q) /\ e \in Seq(Effect) /\ Past(e, s, q)
        /\ Ordered(e) /\ MadeUp(e, cuts[c])
        /\ ("twice" \in cuts[c] => "short" \in cuts[c])
        /\ "short" \notin cuts[c] =>
              /\ s # <<>> => s[1][2] = 1
              /\ cn # "reset" => Settled(s, q, "header", hdr[c], e)
    BY DEF Flow
  <1>3. Len(t) = Len(s) - n /\ \A i \in 1 .. Len(s) - n : t[i] = s[n + i]
    BY <1>n, <1>t, DropFacts
  <1>4. Chain(t, q) /\ Past(e, t, q)
    BY <1>2, <1>n, <1>t, ChainDrop, PastDrop
  <1>5. /\ "twice" \in cuts[c] => "twice" \in cut
        /\ "short" \notin cut => n = 2 /\ "short" \notin cuts[c] /\ "twice" \notin cut
        /\ "twice" \in cut => "short" \in cut
        /\ n = 1 /\ "last" \in cuts[c] => "twice" \in cut
    BY <1>2, <1>n
  <1>6. MadeUp(e, cut)
    BY <1>2, <1>5 DEF MadeUp
  <1> DEFINE f == s[1]
  <1>7. 1 \in 1 .. Len(s) /\ f \in Unit /\ s # <<>>
    BY <1>n, <1>t
  <1>8. /\ f[1] \in Packet /\ f[1].n \in 1 .. Len(q) /\ f[1] = q[f[1].n]
        /\ f[1].kind.len \in Nat /\ f[1].kind.len >= 1 /\ End(f) = 2 + f[1].kind.len
        /\ f[1] # None
    BY <1>2, <1>7, UnitFacts, PacketFacts DEF Chain, Sent
  <1>9. ASSUME n = 2, f[2] = 1 PROVE s[2] = <<f[1], 2>>
    <2>1. 2 \in 1 .. Len(s) /\ 1 + (2 - 1) <= 2 + f[1].kind.len /\ 1 + (2 - 1) = 2
      BY <1>8, <1>9, <1>t
    <2>2. s[1][2] + (2 - 1) <= End(s[1]) => s[2] = <<s[1][1], s[1][2] + (2 - 1)>>
      BY <1>2, <1>7, <2>1 DEF Chain, Runs
    <2> QED BY <1>8, <1>9, <2>1, <2>2
  <1>10. ASSUME n = 2, f[2] = 1
         PROVE  Len(s) >= 3 /\ s[3] = <<f[1], 3>>
    <2>1. s[2][2] = 2 /\ End(s[2]) = 2 + f[1].kind.len
      BY <1>9, <1>10 DEF End, HEADER
    <2>2. Len(s) # 2
      <3>1. Len(s) = 2 => s[2][2] = End(s[2])
        BY <1>2, <1>7 DEF Chain, Whole
      <3> QED BY <1>8, <2>1, <3>1
    <2>3. Len(s) >= 3
      <3>1. 2 <= Len(s)
        BY <1>10
      <3>2. PICK m \in Nat : m = Len(s)
        BY <1>t
      <3>3. 2 <= m /\ m # 2
        BY <2>2, <3>1, <3>2
      <3>4. m >= 3
        BY ONLY <3>3, m \in Nat
      <3> QED BY <3>2, <3>4
    <2>4. 3 \in 1 .. Len(s) /\ 1 + (3 - 1) <= 2 + f[1].kind.len /\ 1 + (3 - 1) = 3
      BY <1>8, <1>t, <2>3
    <2>5. s[1][2] + (3 - 1) <= End(s[1]) => s[3] = <<s[1][1], s[1][2] + (3 - 1)>>
      BY <1>2, <1>7, <2>4 DEF Chain, Runs
    <2> QED BY <1>8, <1>10, <2>3, <2>4, <2>5
  <1> HIDE DEF s, q, t, f
  <1>11. g.magic = "good" => Taken(g, q)
    <2>1. CASE f[2] = 1
      BY <1>1, <1>8, <2>1 DEF Taken, f
    <2>2. CASE f[2] # 1
      BY <1>1, <2>2 DEF Taken, f
    <2> QED BY <2>1, <2>2
  <1>12. ASSUME g.magic = "good", "twice" \notin cut PROVE Clean(cn, t, g)
    <2>1. n = 2 /\ f[2] = 1 /\ g.len = s[2][1].kind.len
      BY <1>1, <1>5, <1>12, <1>n DEF f
    <2>2. g.packet = f[1] /\ g.len = f[1].kind.len /\ g.packet # None
      BY <1>1, <1>8, <1>9, <1>12, <2>1 DEF f
    <2>3. s[3] = <<f[1], 3>> /\ Len(s) >= 3
      BY <1>10, <2>1
    <2>4. Len(t) >= 1 /\ t[1] = s[3]
      <3>1. 1 \in 1 .. Len(s) - n /\ n + 1 = 3 /\ Len(s) - n >= 1
        BY <1>t, <2>1, <2>3
      <3> QED BY <1>3, <3>1
    <2>5. t # <<>>
      BY <2>4
    <2>6. HEADER + 1 = 3
      BY DEF HEADER
    <2> QED BY <2>2, <2>3, <2>4, <2>5, <2>6 DEF Clean
  <1>13. ASSUME "short" \notin cut PROVE n = 2 /\ g.magic = "good" /\ f[2] = 1
    <2>1. n = 2 /\ f[2] = 1
      BY <1>2, <1>5, <1>7, <1>13 DEF f
    <2> QED BY <1>1, <1>9, <2>1
  <1>14. ASSUME "short" \notin cut, cn # "reset" PROVE Settled(t, q, "body", g, e)
    <2>1. n = 2 /\ g.magic = "good" /\ f[2] = 1 /\ g.packet = f[1]
      BY <1>1, <1>13, <1>14 DEF f
    <2>2. Settled(s, q, "header", hdr[c], e)
      BY <1>2, <1>5, <1>14
    <2> SUFFICES ASSUME NEW k \in 1 .. Len(q), owed(q[k]) # <<>>
                 PROVE  \/ \E i \in 1 .. Len(e) : e[i].n = k
                        \/ \E i \in 1 .. Len(t) : t[i] = <<q[k], 1>>
                        \/ g.packet = q[k]
      BY DEF Settled
    <2>3. \/ \E i \in 1 .. Len(e) : e[i].n = k
          \/ \E i \in 1 .. Len(s) : s[i] = <<q[k], 1>>
      BY <2>2 DEF Settled
    <2>4. ASSUME NEW i \in 1 .. Len(s), s[i] = <<q[k], 1>>
          PROVE  \/ \E j \in 1 .. Len(t) : t[j] = <<q[k], 1>>
                 \/ g.packet = q[k]
      <3>1. i = 1 \/ i = 2 \/ i >= 3
        BY <1>t
      <3>2. CASE i = 1
        BY <2>1, <2>4, <3>2 DEF f
      <3>3. CASE i = 2
        BY <1>9, <2>1, <2>4, <3>3
      <3>4. CASE i >= 3
        <4>1. i - 2 \in 1 .. Len(s) - n /\ n + (i - 2) = i
          BY <1>t, <2>1, <3>4
        <4>2. t[i - 2] = s[i] /\ i - 2 \in 1 .. Len(t)
          BY <1>3, <4>1
        <4> QED BY <2>4, <4>2
      <3> QED BY <3>1, <3>2, <3>3, <3>4
    <2> QED BY <2>3, <2>4
  <1>15. Flow(cn, t, q, p, g, cut, e)
    <2>1. CASE g.magic = "good"
      <3>1. p = "body"
        BY <2>1
      <3> HIDE DEF p
      <3> QED BY <1>2, <1>4, <1>5, <1>6, <1>11, <1>12, <1>14, <2>1, <3>1 DEF Flow
    <2>2. CASE g.magic # "good"
      <3>1. p = "header" /\ "short" \in cut
        BY <1>13, <2>2
      <3> HIDE DEF p
      <3> QED BY <1>2, <1>4, <1>5, <1>6, <2>2, <3>1 DEF Flow
    <2> QED BY <2>1, <2>2
  <1> QED BY <1>15 DEF s, q, t

(* The units that message() compares, if they are those of one packet: the *)
(* rest of the stream is of later packets.                                 *)
MessageOf(s, h) ==
    IF h.packet # None /\ SubSeq(s, 1, h.len) = bodyUnits(h.packet)
    THEN h.packet.n ELSE None

LEMMA BodyUnits ==
  ASSUME NEW p \in Packet
  PROVE  /\ bodyUnits(p) \in Seq(Unit) /\ Len(bodyUnits(p)) = p.kind.len
         /\ \A k \in 1 .. p.kind.len : bodyUnits(p)[k] = <<p, 2 + k>>
  <1> DEFINE m == p.kind.len
             b == bodyUnits(p)
  <1>1. m \in Nat
    BY PacketFacts
  <1>2. b = [k \in 1 .. m |-> <<p, 2 + k>>]
    BY DEF bodyUnits, HEADER
  <1> HIDE DEF m, b
  <1>3. b \in [1 .. m -> Unit]
    BY <1>1, <1>2 DEF Unit
  <1>4. b \in Seq(Unit) /\ Len(b) = m
    BY <1>1, <1>3
  <1>5. \A k \in 1 .. m : b[k] = <<p, 2 + k>>
    BY <1>2
  <1> QED BY <1>4, <1>5 DEF m, b

LEMMA PrefixFacts ==
  ASSUME NEW S, NEW s \in Seq(S), NEW n \in 0 .. Len(s)
  PROVE  /\ SubSeq(s, 1, n) \in Seq(S) /\ Len(SubSeq(s, 1, n)) = n
         /\ \A i \in 1 .. n : SubSeq(s, 1, n)[i] = s[i]
  <1> DEFINE t == SubSeq(s, 1, n)
  <1>1. n \in Int /\ 1 \in Int /\ \A i \in 1 .. n : s[i] \in S
    OBVIOUS
  <1>2. /\ t \in Seq(S)
        /\ Len(t) = IF 1 <= n THEN n - 1 + 1 ELSE 0
        /\ \A i \in 1 .. n - 1 + 1 : t[i] = s[1 + i - 1]
    BY <1>1, SubSeqProperties
  <1>3. n - 1 + 1 = n /\ (IF 1 <= n THEN n ELSE 0) = n
    BY <1>1
  <1>4. \A i \in 1 .. n : 1 + i - 1 = i
    BY <1>1
  <1> HIDE DEF t
  <1>5. t \in Seq(S) /\ Len(t) = n /\ \A i \in 1 .. n : t[i] = s[i]
    BY <1>2, <1>3, <1>4
  <1> QED BY <1>5 DEF t

LEMMA MessageIsPackets ==
  ASSUME NEW q \in Seq(Packet), NEW s \in Seq(Unit), Chain(s, q), NEW h \in Header,
         Taken(h, q), h.len <= Len(s), MessageOf(s, h) # None
  PROVE  /\ h.packet \in Packet /\ MessageOf(s, h) = h.packet.n
         /\ h.packet.n \in 1 .. Len(q) /\ q[h.packet.n] = h.packet
         /\ 1 \in 1 .. Len(s) /\ s[1][1] = h.packet
         /\ \A j \in h.len + 1 .. Len(s) : h.packet.n < s[j][1].n
  <1> DEFINE p == h.packet
             l == h.len
  <1>1. /\ p # None /\ SubSeq(s, 1, l) = bodyUnits(p) /\ MessageOf(s, h) = p.n
    BY DEF MessageOf
  <1>2. p \in Packet /\ l \in Nat /\ Len(s) \in Nat
    BY <1>1 DEF Header
  <1>3. p.n \in 1 .. Len(q) /\ q[p.n] = p
    BY <1>1 DEF Taken
  <1> HIDE DEF p, l
  <1>4. l \in 0 .. Len(s)
    BY <1>2 DEF l
  <1>5. Len(SubSeq(s, 1, l)) = l /\ \A i \in 1 .. l : SubSeq(s, 1, l)[i] = s[i]
    BY <1>4, PrefixFacts
  <1>6. Len(bodyUnits(p)) = p.kind.len /\ p.kind.len \in Nat /\ p.kind.len >= 1
        /\ \A k \in 1 .. p.kind.len : bodyUnits(p)[k] = <<p, 2 + k>>
    BY <1>2, BodyUnits, PacketFacts
  <1>7. l = p.kind.len /\ \A k \in 1 .. l : s[k] = <<p, 2 + k>>
    BY <1>1, <1>5, <1>6
  <1>8. 1 \in 1 .. l /\ l \in 1 .. l /\ 1 \in 1 .. Len(s) /\ l \in 1 .. Len(s)
    BY <1>2, <1>4, <1>6, <1>7
  <1>9. s[1] = <<p, 2 + 1>> /\ s[l] = <<p, 2 + l>>
    BY <1>7, <1>8
  <1>10. ASSUME NEW j \in l + 1 .. Len(s) PROVE p.n < s[j][1].n
    <2>1. j \in 1 .. Len(s) /\ s[j] \in Unit
      BY <1>2
    <2>2. Before(s[l], s[j])
      BY <1>8 DEF Chain, Sorted
    <2>3. /\ s[j][1] = q[s[j][1].n] /\ s[j][2] \in 1 .. End(s[j])
          /\ s[j][1].n \in Nat /\ s[j][2] \in Nat
      BY <2>1, UnitFacts DEF Chain, Sent
    <2>4. p.n < s[j][1].n \/ (p.n = s[j][1].n /\ 2 + l < s[j][2])
      BY <1>9, <2>2 DEF Before
    <2>5. ASSUME p.n = s[j][1].n PROVE s[j][2] <= 2 + l
      <3>1. s[j][1] = p
        BY <1>3, <2>3, <2>5
      <3>2. End(s[j]) = 2 + l
        BY <1>7, <3>1 DEF End, HEADER
      <3> QED BY <1>2, <2>3, <3>2
    <2>6. ~(p.n = s[j][1].n /\ 2 + l < s[j][2])
      BY <1>2, <2>3, <2>5
    <2> QED BY <2>4, <2>6
  <1> QED BY <1>1, <1>2, <1>3, <1>8, <1>9, <1>10 DEF p, l

(* A clean header is followed by its body and nothing else.                *)
LEMMA CleanBody ==
  ASSUME NEW q \in Seq(Packet), NEW s \in Seq(Unit), Chain(s, q), NEW h \in Header,
         NEW cn, Clean(cn, s, h), h.len <= Len(s)
  PROVE  /\ MessageOf(s, h) = h.packet.n /\ MessageOf(s, h) # None
         /\ h.len >= 1 /\ h.len \in 1 .. Len(s)
         /\ \A i \in 1 .. h.len : s[i] = <<h.packet, 2 + i>>
         /\ s[h.len][2] = End(s[h.len])
  <1> DEFINE p == h.packet
             l == h.len
  <1>1. p \in Packet /\ l \in Nat /\ Len(s) \in Nat /\ l = p.kind.len /\ p # None
    BY DEF Header, Clean
  <1> HIDE DEF p, l
  <1>2. p.kind.len \in Nat /\ p.kind.len >= 1 /\ p.n # None
    BY <1>1, PacketFacts
  <1>3. l \in 0 .. Len(s) /\ l >= 1 /\ 1 \in 1 .. Len(s) /\ l \in 1 .. Len(s)
        /\ l \in 1 .. l
    BY <1>1, <1>2 DEF l
  <1>4. s[1] = <<p, 3>>
    <2>1. s # <<>>
      BY <1>1, <1>3
    <2> QED BY <2>1 DEF Clean, HEADER, p
  <1>5. End(s[1]) = 2 + l
    BY <1>1, <1>4 DEF End, HEADER
  <1>6. ASSUME NEW i \in 1 .. l PROVE s[i] = <<p, 2 + i>>
    <2>1. i \in 1 .. Len(s) /\ 3 + (i - 1) <= 2 + l /\ 3 + (i - 1) = 2 + i
      BY <1>1, <1>3
    <2>2. s[1][1] = p /\ s[1][2] = 3
      BY <1>4
    <2>3. s[1][2] + (i - 1) <= End(s[1]) => s[i] = <<s[1][1], s[1][2] + (i - 1)>>
      BY <1>3, <2>1 DEF Chain, Runs
    <2> QED BY <1>5, <2>1, <2>2, <2>3
  <1>7. s[l] = <<p, 2 + l>> /\ s[l][2] = End(s[l])
    <2>1. s[l] = <<p, 2 + l>>
      BY <1>3, <1>6
    <2> QED BY <1>1, <2>1 DEF End, HEADER
  <1>8. SubSeq(s, 1, l) = bodyUnits(p)
    <2>1. /\ SubSeq(s, 1, l) \in Seq(Unit) /\ Len(SubSeq(s, 1, l)) = l
          /\ \A i \in 1 .. l : SubSeq(s, 1, l)[i] = s[i]
      BY <1>3, PrefixFacts
    <2>2. /\ bodyUnits(p) \in Seq(Unit) /\ Len(bodyUnits(p)) = l
          /\ \A i \in 1 .. l : bodyUnits(p)[i] = <<p, 2 + i>>
      BY <1>1, BodyUnits
    <2> DEFINE a == SubSeq(s, 1, l)
               b == bodyUnits(p)
    <2>3. \A i \in 1 .. l : a[i] = b[i]
      BY <1>6, <2>1, <2>2
    <2>4. a \in Seq(Unit) /\ b \in Seq(Unit) /\ Len(a) = l /\ Len(b) = l
      BY <2>1, <2>2
    <2> HIDE DEF a, b
    <2>5. a = b
      BY <2>3, <2>4
    <2> QED BY <2>5 DEF a, b
  <1>9. MessageOf(s, h) = p.n
    BY <1>1, <1>8 DEF MessageOf, p, l
  <1> QED BY <1>2, <1>3, <1>6, <1>7, <1>9 DEF p, l

(* The read of a body, short or whole.                                     *)
LEMMA FlowShort ==
  ASSUME NEW q \in Seq(Packet), NEW s \in Seq(Unit), NEW cn, NEW h, NEW g, NEW cut,
         NEW e, Flow(cn, s, q, "body", h, cut, e), NEW n \in 0 .. Len(s)
  PROVE  Flow(cn, SubSeq(s, n + 1, Len(s)), q, "header", g, cut \union {"short"}, e)
  <1>1. Chain(SubSeq(s, n + 1, Len(s)), q) /\ Past(e, SubSeq(s, n + 1, Len(s)), q)
    BY ChainDrop, PastDrop DEF Flow
  <1>2. MadeUp(e, cut \union {"short"})
    BY DEF Flow, MadeUp
  <1> QED BY <1>1, <1>2 DEF Flow

(* Nothing is done for the message, and nothing owed; or w is, if it is    *)
(* one packet's.                                                           *)
DoneFor(s, h, w, e, d) ==
    \/ d = e /\ (h.packet # None => owed(h.packet) = <<>>)
    \/ /\ d = Append(e, [what |-> w, n |-> MessageOf(s, h)])
       /\ MessageOf(s, h) # None =>
             owed(h.packet) = <<[what |-> w, n |-> MessageOf(s, h)]>>

LEMMA FlowWhole ==
  ASSUME NEW q \in Seq(Packet), NEW s \in Seq(Unit), NEW cn, NEW h \in Header, NEW g,
         NEW cut, NEW e, Flow(cn, s, q, "body", h, cut, e), h.len <= Len(s),
         NEW w \in {"answer", "event", "blank", "clipped"}, NEW d,
         DoneFor(s, h, w, e, d)
  PROVE  Flow(cn, SubSeq(s, h.len + 1, Len(s)), q, "header", g, cut, d)
  <1> DEFINE l == h.len
             t == SubSeq(s, l + 1, Len(s))
             m == MessageOf(s, h)
             v == [what |-> w, n |-> m]
  <1>1. /\ Numbered(q) /\ Chain(s, q) /\ e \in Seq(Effect) /\ Past(e, s, q)
        /\ Ordered(e) /\ MadeUp(e, cut) /\ ("twice" \in cut => "short" \in cut)
        /\ Taken(h, q) /\ ("twice" \in cut \/ Clean(cn, s, h))
        /\ "short" \notin cut /\ cn # "reset" => Settled(s, q, "body", h, e)
    BY DEF Flow
  <1>2. l \in 0 .. Len(s) /\ l \in Nat /\ Len(s) \in Nat
    BY DEF Header
  <1>3. Len(t) = Len(s) - l /\ \A i \in 1 .. Len(s) - l : t[i] = s[l + i]
    BY <1>2, DropFacts
  <1>4. Chain(t, q) /\ Past(e, t, q)
    BY <1>1, <1>2, ChainDrop, PastDrop
  <1>5. m # None =>
          /\ h.packet \in Packet /\ m = h.packet.n
          /\ m \in 1 .. Len(q) /\ q[m] = h.packet
          /\ 1 \in 1 .. Len(s) /\ s[1][1] = h.packet
          /\ \A j \in l + 1 .. Len(s) : m < s[j][1].n
    BY <1>1, MessageIsPackets
  <1>6. "twice" \notin cut =>
          /\ m = h.packet.n /\ m # None /\ l \in 1 .. Len(s)
          /\ \A i \in 1 .. l : s[i] = <<h.packet, 2 + i>>
          /\ s[l][2] = End(s[l])
    BY <1>1, CleanBody
  <1> HIDE DEF l, t, m
  <1>7. ASSUME "short" \notin cut, t # <<>> PROVE t[1][2] = 1
    <2>1. "twice" \notin cut
      BY <1>1, <1>7
    <2>2. Len(t) >= 1
      <3>1. Len(t) # 0 /\ Len(t) \in Nat
        BY <1>2, <1>7 DEF t
      <3> QED BY <3>1
    <2>3. 1 \in 1 .. Len(s) - l /\ l \in 1 .. Len(s) - 1
      BY <1>2, <1>3, <1>6, <2>1, <2>2
    <2> QED BY <1>1, <1>3, <1>6, <2>1, <2>3 DEF Chain, Meets
  <1>8. \A i \in 1 .. Len(s) : s[i][2] = 1 /\ "twice" \notin cut =>
            i - l \in 1 .. Len(t) /\ t[i - l] = s[i]
    <2> SUFFICES ASSUME NEW i \in 1 .. Len(s), s[i][2] = 1, "twice" \notin cut
                 PROVE  i - l \in 1 .. Len(t) /\ t[i - l] = s[i]
      OBVIOUS
    <2>1. i \notin 1 .. l
      <3>1. i \in 1 .. l => s[i][2] = 2 + i
        BY <1>6
      <3>2. i \in Nat /\ 2 + i # 1
        BY <1>2
      <3> QED BY <3>1, <3>2
    <2>2. i - l \in 1 .. Len(s) - l /\ l + (i - l) = i
      BY <1>2, <2>1
    <2> QED BY <1>3, <2>2
  <1>9. CASE d = e /\ (h.packet # None => owed(h.packet) = <<>>)
    <2>1. ASSUME "short" \notin cut, cn # "reset" PROVE Settled(t, q, "header", g, e)
      <3>1. Settled(s, q, "body", h, e) /\ "twice" \notin cut
        BY <1>1, <2>1
      <3> SUFFICES ASSUME NEW k \in 1 .. Len(q), owed(q[k]) # <<>>
                   PROVE  \/ \E i \in 1 .. Len(e) : e[i].n = k
                          \/ \E i \in 1 .. Len(t) : t[i] = <<q[k], 1>>
        BY DEF Settled
      <3>2. \/ \E i \in 1 .. Len(e) : e[i].n = k
            \/ \E i \in 1 .. Len(s) : s[i] = <<q[k], 1>>
            \/ h.packet = q[k]
        BY <3>1 DEF Settled
      <3>3. h.packet # q[k]
        <4>1. q[k] # None
          BY PacketFacts
        <4> QED BY <1>9, <4>1
      <3>4. ASSUME NEW i \in 1 .. Len(s), s[i] = <<q[k], 1>>
            PROVE  \E j \in 1 .. Len(t) : t[j] = <<q[k], 1>>
        <4>1. s[i][2] = 1
          BY <3>4
        <4>2. i - l \in 1 .. Len(t) /\ t[i - l] = s[i]
          BY <1>8, <3>1, <4>1
        <4> QED BY <3>4, <4>2
      <3> QED BY <3>2, <3>3, <3>4
    <2>2. Flow(cn, t, q, "header", g, cut, e)
      BY <1>1, <1>4, <1>7, <2>1 DEF Flow
    <2> QED BY <1>9, <2>2 DEF t, l
  <1>10. CASE d = Append(e, v) /\ (m # None => owed(h.packet) = <<v>>)
    <2>1. v \in Effect /\ v.n = m
      BY <1>5 DEF Effect
    <2>2. /\ d \in Seq(Effect) /\ Len(d) = Len(e) + 1 /\ d[Len(e) + 1] = v
          /\ \A i \in 1 .. Len(e) : i \in 1 .. Len(d) /\ d[i] = e[i]
          /\ Len(e) \in Nat
      BY <1>1, <1>10, <2>1
    <2> HIDE DEF v
    <2>3. \A i \in 1 .. Len(d) : i \in 1 .. Len(e) \/ i = Len(e) + 1
      BY <2>2
    <2>4. Past(d, t, q)
      <3> SUFFICES ASSUME NEW i \in 1 .. Len(d), d[i].n # None
                   PROVE  /\ d[i].n \in 1 .. Len(q) /\ <<d[i]>> = owed(q[d[i].n])
                          /\ \A j \in 1 .. Len(t) : d[i].n < t[j][1].n
        BY DEF Past
      <3>1. CASE i \in 1 .. Len(e)
        BY <1>4, <2>2, <3>1 DEF Past
      <3>2. CASE i = Len(e) + 1
        <4>1. d[i] = v /\ m # None
          BY <2>1, <2>2, <3>2
        <4>2. m \in 1 .. Len(q) /\ q[m] = h.packet /\ owed(h.packet) = <<v>>
          BY <1>5, <1>10, <4>1
        <4>3. ASSUME NEW j \in 1 .. Len(t) PROVE m < t[j][1].n
          <5>1. j \in 1 .. Len(s) - l /\ l + j \in l + 1 .. Len(s)
            BY <1>2, <1>3
          <5> QED BY <1>3, <1>5, <4>1, <5>1
        <4> QED BY <2>1, <4>1, <4>2, <4>3
      <3> QED BY <2>3, <3>1, <3>2
    <2>5. Ordered(d)
      <3> SUFFICES ASSUME NEW i \in 1 .. Len(d), NEW j \in 1 .. i - 1,
                          d[i].n # None, d[j].n # None
                   PROVE  d[j].n < d[i].n
        BY DEF Ordered
      <3>1. j \in 1 .. Len(e)
        BY <2>2
      <3>2. d[j] = e[j]
        BY <2>2, <3>1
      <3>3. CASE i \in 1 .. Len(e)
        BY <1>1, <2>2, <3>2, <3>3 DEF Ordered
      <3>4. CASE i = Len(e) + 1
        <4>1. d[i].n = m /\ m # None
          BY <2>1, <2>2, <3>4
        <4>2. e[j].n < s[1][1].n
          BY <1>1, <1>5, <3>1, <3>2, <4>1 DEF Past
        <4> QED BY <1>5, <3>2, <4>1, <4>2
      <3> QED BY <2>3, <3>3, <3>4
    <2>6. MadeUp(d, cut)
      <3> SUFFICES ASSUME NEW i \in 1 .. Len(d), d[i].n = None PROVE "twice" \in cut
        BY DEF MadeUp
      <3>1. CASE i \in 1 .. Len(e)
        BY <1>1, <2>2, <3>1 DEF MadeUp
      <3>2. CASE i = Len(e) + 1
        BY <1>6, <2>1, <2>2, <3>2
      <3> QED BY <2>3, <3>1, <3>2
    <2>7. ASSUME "short" \notin cut, cn # "reset" PROVE Settled(t, q, "header", g, d)
      <3>1. Settled(s, q, "body", h, e) /\ "twice" \notin cut
        BY <1>1, <2>7
      <3> SUFFICES ASSUME NEW k \in 1 .. Len(q), owed(q[k]) # <<>>
                   PROVE  \/ \E i \in 1 .. Len(d) : d[i].n = k
                          \/ \E i \in 1 .. Len(t) : t[i] = <<q[k], 1>>
        BY DEF Settled
      <3>2. \/ \E i \in 1 .. Len(e) : e[i].n = k
            \/ \E i \in 1 .. Len(s) : s[i] = <<q[k], 1>>
            \/ h.packet = q[k]
        BY <3>1 DEF Settled
      <3>3. CASE \E i \in 1 .. Len(e) : e[i].n = k
        BY <2>2, <3>3
      <3>4. CASE h.packet = q[k]
        <4>1. m = k
          BY <1>1, <1>6, <3>1, <3>4 DEF Numbered
        <4>2. Len(e) + 1 \in 1 .. Len(d) /\ d[Len(e) + 1].n = k
          BY <2>1, <2>2, <4>1
        <4> QED BY <4>2
      <3>5. ASSUME NEW i \in 1 .. Len(s), s[i] = <<q[k], 1>>
            PROVE  \E j \in 1 .. Len(t) : t[j] = <<q[k], 1>>
        <4>1. s[i][2] = 1
          BY <3>5
        <4>2. i - l \in 1 .. Len(t) /\ t[i - l] = s[i]
          BY <1>8, <3>1, <4>1
        <4> QED BY <3>5, <4>2
      <3> QED BY <3>2, <3>3, <3>4, <3>5
    <2>8. Flow(cn, t, q, "header", g, cut, d)
      BY <1>1, <1>4, <1>7, <2>2, <2>4, <2>5, <2>6, <2>7 DEF Flow
    <2> QED BY <2>8 DEF t, l
  <1> QED BY <1>9, <1>10 DEF DoneFor, m

LEMMA OwedFacts ==
  ASSUME NEW p
  PROVE  /\ p.kind.type = "BC_CLIENT" /\ Identified =>
               owed(p) = <<[what |-> "answer", n |-> p.n]>>
         /\ p.kind.type = "BC_CLIENT" /\ ~Identified => owed(p) = <<>>
         /\ p.kind.type \in {"BC_SERVER", "other"} => owed(p) = <<>>
         /\ p.kind.type = "CLIENT_EVENT" /\ p.kind.content = "other" => owed(p) = <<>>
         /\ p.kind.type = "CLIENT_EVENT" /\ p.kind.content # "other" =>
               owed(p) = <<[what |-> eventOf(p.kind), n |-> p.n]>>
  BY DEF owed

LEMMA EventKinds ==
  ASSUME NEW k PROVE eventOf(k) \in {"event", "blank", "clipped"}
  BY DEF eventOf, serverConvertNoticeToEngineEvent

(* A step of one connection leaves the others alone.                       *)
LEMMA FlowOthers ==
  ASSUME FlowInv, build = "tcp", NEW c \in Conns, FlowAt(c)',
         \A x \in Conns \ {c} :
             /\ conn'[x] = conn[x] /\ stream'[x] = stream[x] /\ sent'[x] = sent[x]
             /\ pc'[x] = pc[x] /\ hdr'[x] = hdr[x] /\ cuts'[x] = cuts[x]
             /\ effects'[x] = effects[x]
  PROVE  \A x \in Conns : FlowAt(x)'
  <1> SUFFICES ASSUME NEW x \in Conns, x # c PROVE FlowAt(x)'
    OBVIOUS
  <1>1. FlowAt(x)
    BY DEF FlowInv
  <1> QED BY <1>1 DEF FlowAt

LEMMA OthersKeepFlow ==
  ASSUME FlowInv, build = "tcp", MainStep \/ ClientStep
  PROVE  \A x \in Conns : FlowAt(x)'
  <1> USE DEF network, servlets
  <1>t. /\ DOMAIN conn = Conns /\ DOMAIN effects = Conns /\ main = None
        /\ sent \in [Conns -> Seq(Packet)] /\ stream \in [Conns -> Seq(Unit)]
        /\ pc \in [Conns -> {"none", "header", "body", "done"}]
        /\ hdr \in [Conns -> Header]
        /\ cuts \in [Conns -> SUBSET {"short", "last", "twice"}]
        /\ \A x \in Conns : FlowAt(x) /\ x # None
    BY NoneAssumption DEF FlowInv, HeapInv, Shapes
  <1>1. ASSUME NEW c \in Conns, connect(c) \/ closes(c)
        PROVE  \A x \in Conns : FlowAt(x)'
    <2>1. PICK cm \in {"open", "closed"} :
              conn' = [conn EXCEPT ![c] = cm] /\ conn[c] \in {"new", "open"}
      BY <1>1 DEF connect, closes
    <2>2. UNCHANGED <<stream, sent, pc, hdr, cuts, effects>>
      BY <1>1 DEF connect, closes
    <2>3. Flow(cm, stream[c], sent[c], pc[c], hdr[c], cuts[c], effects[c])
      <3>1. conn[c] # "reset" /\ cm # "reset"
        BY <2>1
      <3> QED BY <1>t, <3>1, FlowConnected DEF FlowAt
    <2>4. conn'[c] = cm /\ \A x \in Conns \ {c} : conn'[x] = conn[x]
      BY <1>t, <2>1
    <2>5. FlowAt(c)'
      BY <2>2, <2>3, <2>4 DEF FlowAt
    <2> QED BY <2>2, <2>4, <2>5, FlowOthers
  <1>2. ASSUME NEW c \in Conns, breaks(c) PROVE \A x \in Conns : FlowAt(x)'
    <2>1. UNCHANGED <<sent, pc, hdr, cuts, effects>>
      BY <1>2 DEF breaks
    <2>2. /\ conn'[c] = "reset" /\ stream'[c] = <<>>
          /\ \A x \in Conns \ {c} : conn'[x] = conn[x] /\ stream'[x] = stream[x]
      BY <1>2, <1>t DEF breaks
    <2>3. Flow("reset", <<>>, sent[c], pc[c], hdr[c], cuts[c], effects[c])
      BY <1>t, FlowBreaks DEF FlowAt
    <2>4. FlowAt(c)'
      BY <2>1, <2>2, <2>3 DEF FlowAt
    <2> QED BY <2>1, <2>2, <2>4, FlowOthers
  <1>3. ASSUME NEW c \in Conns, NEW kind \in Kinds, send(c, kind)
        PROVE  \A x \in Conns : FlowAt(x)'
    <2> DEFINE k == packet(c, kind)
    <2>1. /\ UNCHANGED <<conn, pc, hdr, cuts, effects>> /\ conn[c] # "reset"
          /\ sent' = [sent EXCEPT ![c] = Append(@, k)]
          /\ stream' = [stream EXCEPT ![c] = @ \o units(k)]
      BY <1>3 DEF send
    <2>2. k \in Packet /\ k.n = Len(sent[c]) + 1
      <3>1. Len(sent[c]) \in Nat
        BY <1>t
      <3> QED BY <3>1 DEF packet, Packet
    <2> HIDE DEF k
    <2>3. Flow(conn[c], stream[c] \o units(k), Append(sent[c], k), pc[c], hdr[c],
               cuts[c], effects[c])
      BY <1>t, <2>1, <2>2, FlowSend DEF FlowAt
    <2>4. /\ sent'[c] = Append(sent[c], k) /\ stream'[c] = stream[c] \o units(k)
          /\ \A x \in Conns \ {c} : sent'[x] = sent[x] /\ stream'[x] = stream[x]
      BY <1>t, <2>1
    <2>5. FlowAt(c)'
      BY <2>1, <2>3, <2>4 DEF FlowAt
    <2> QED BY <2>1, <2>4, <2>5, FlowOthers
  <1>4. ASSUME NEW c \in Conns, serverRealStart(c)
        PROVE  \A x \in Conns : FlowAt(x)'
    <2>1. /\ UNCHANGED <<conn, stream, sent, effects>> /\ pc[c] = "none"
          /\ pc' = [pc EXCEPT ![c] = "header"]
          /\ cuts' = [cuts EXCEPT ![c] = @ \union {"last"}]
      BY <1>4 DEF serverRealStart, startServlet
    <2>0. cuts[c] = {}
      BY <1>t, <2>1 DEF FlowAt, Flow
    <2>2. \E h : hdr' = [hdr EXCEPT ![c] = h]
      BY <1>4 DEF serverRealStart, startServlet
    <2>3. PICK h : hdr' = [hdr EXCEPT ![c] = h]
      BY <2>2
    <2>4. /\ pc'[c] = "header" /\ cuts'[c] = {"last"} /\ hdr'[c] = h
          /\ \A x \in Conns \ {c} : /\ pc'[x] = pc[x] /\ cuts'[x] = cuts[x]
                                    /\ hdr'[x] = hdr[x]
      BY <1>t, <2>0, <2>1, <2>3
    <2>5. Flow(conn[c], stream[c], sent[c], "header", h, {"last"}, effects[c])
      BY <1>t, <2>1, FlowStart DEF FlowAt
    <2>6. FlowAt(c)'
      BY <2>1, <2>4, <2>5 DEF FlowAt
    <2> QED BY <2>1, <2>4, <2>6, FlowOthers
  <1>5. ~\E c \in Conns : sslStart(c) \/ sslRefused(c) \/ sslAccepted(c)
    BY <1>t DEF sslStart, sslRefused, sslAccepted
  <1> QED BY <1>1, <1>2, <1>3, <1>4, <1>5 DEF MainStep, ClientStep

(* The end of a read for a body, seen from what was done for it.           *)
LEMMA FlowBodyRead ==
  ASSUME FlowInv, build = "tcp", NEW c \in Conns, NEW n \in 0 .. hdr[c].len,
         readBody(c, n), UNCHANGED <<conn, sent>>,
         NEW w \in {"answer", "event", "blank", "clipped"}, NEW d,
         \A x \in Conns \ {c} : effects'[x] = effects[x],
         effects'[c] = d,
         n < hdr[c].len => d = effects[c],
         n = hdr[c].len =>
             \/ d = effects[c] /\ (hdr[c].packet # None => owed(hdr[c].packet) = <<>>)
             \/ /\ d = Append(effects[c], [what |-> w, n |-> message(c)])
                /\ message(c) # None =>
                      owed(hdr[c].packet) = <<[what |-> w, n |-> message(c)]>>
  PROVE  \A x \in Conns : FlowAt(x)'
  <1> DEFINE g == idle(hdr[c].magic, hdr[c].len)
             t == SubSeq(stream[c], n + 1, Len(stream[c]))
             cut == IF n < hdr[c].len THEN cuts[c] \union {"short"} ELSE cuts[c]
  <1>t. /\ stream \in [Conns -> Seq(Unit)] /\ sent[c] \in Seq(Packet)
        /\ stream[c] \in Seq(Unit) /\ hdr[c] \in Header /\ FlowAt(c)
        /\ pc \in [Conns -> {"none", "header", "body", "done"}]
        /\ hdr \in [Conns -> Header] /\ hdr[c].len \in Nat
        /\ cuts \in [Conns -> SUBSET {"short", "last", "twice"}]
    BY DEF FlowInv, HeapInv, Shapes, Header
  <1>1. /\ pc[c] = "body" /\ n <= Len(stream[c])
        /\ stream' = [stream EXCEPT ![c] = SubSeq(@, n + 1, Len(@))]
        /\ pc' = [pc EXCEPT ![c] = "header"]
        /\ hdr' = [hdr EXCEPT ![c] = g]
        /\ cuts' = IF n < hdr[c].len THEN [cuts EXCEPT ![c] = @ \union {"short"}]
                   ELSE cuts
    BY <1>t DEF readBody, reads
  <1>2. /\ stream'[c] = t /\ pc'[c] = "header" /\ hdr'[c] = g /\ cuts'[c] = cut
        /\ \A x \in Conns \ {c} : /\ stream'[x] = stream[x] /\ pc'[x] = pc[x]
                                  /\ hdr'[x] = hdr[x] /\ cuts'[x] = cuts[x]
    <2>1. cuts'[c] = cut /\ \A x \in Conns \ {c} : cuts'[x] = cuts[x]
      BY <1>1, <1>t
    <2> HIDE DEF cut, g
    <2> QED BY <1>1, <1>t, <2>1
  <1>3. Flow(conn[c], t, sent[c], "header", g, cut, d)
    <2>1. Flow(conn[c], stream[c], sent[c], "body", hdr[c], cuts[c], effects[c])
      BY <1>1, <1>t DEF FlowAt
    <2>2. n \in 0 .. Len(stream[c])
      BY <1>1, <1>t
    <2> HIDE DEF g
    <2>3. CASE n < hdr[c].len
      <3>1. cut = cuts[c] \union {"short"} /\ d = effects[c]
        BY <2>3
      <3> HIDE DEF cut
      <3> QED BY <1>t, <2>1, <2>2, <3>1, FlowShort
    <2>4. CASE n = hdr[c].len
      <3>1. cut = cuts[c] /\ hdr[c].len <= Len(stream[c])
        BY <1>1, <1>t, <2>4
      <3>2. message(c) = MessageOf(stream[c], hdr[c])
        BY DEF message, MessageOf
      <3> HIDE DEF cut
      <3>3. DoneFor(stream[c], hdr[c], w, effects[c], d)
        BY <2>4, <3>2 DEF DoneFor
      <3>4. Flow(conn[c], SubSeq(stream[c], hdr[c].len + 1, Len(stream[c])), sent[c],
                 "header", g, cuts[c], d)
        <4>1. sent[c] \in Seq(Packet) /\ stream[c] \in Seq(Unit) /\ hdr[c] \in Header
          BY <1>t
        <4>2. w \in {"answer", "event", "blank", "clipped"}
          OBVIOUS
        <4> QED BY ONLY <2>1, <3>1, <3>3, <4>1, <4>2, FlowWhole
      <3> QED BY <2>4, <3>1, <3>4
    <2>5. n < hdr[c].len \/ n = hdr[c].len
      BY <1>t
    <2> QED BY <2>3, <2>4, <2>5
  <1> HIDE DEF g, t, cut
  <1>4. FlowAt(c)'
    BY <1>2, <1>3 DEF FlowAt
  <1> QED BY <1>2, <1>4, FlowOthers

LEMMA ServletKeepsFlow ==
  ASSUME FlowInv, build = "tcp", NEW c \in Conns, serverServlet(c) \/ sslServlet(c)
  PROVE  \A x \in Conns : FlowAt(x)'
  <1> USE DEF network, servlets
  <1>t. /\ HeapInv /\ DOMAIN effects = Conns /\ FlowAt(c)
        /\ sent \in [Conns -> Seq(Packet)] /\ stream \in [Conns -> Seq(Unit)]
        /\ pc \in [Conns -> {"none", "header", "body", "done"}]
        /\ hdr \in [Conns -> Header] /\ hdr[c] \in Header
        /\ cuts \in [Conns -> SUBSET {"short", "last", "twice"}]
    BY DEF FlowInv, HeapInv, Shapes
  <1>1. CASE readHeader(c)
    <2>1. PICK n \in 1 .. HEADER :
            /\ reads(c, HEADER, n)
            /\ \E h \in ntohlHeader(c, n) :
                  /\ hdr' = [hdr EXCEPT ![c] = h]
                  /\ pc' = [pc EXCEPT ![c] = IF h.magic = "good" THEN "body" ELSE @]
            /\ IF n < HEADER THEN short(c) ELSE whole(c)
      BY <1>1 DEF readHeader
    <2>2. PICK h \in ntohlHeader(c, n) :
            /\ hdr' = [hdr EXCEPT ![c] = h]
            /\ pc' = [pc EXCEPT ![c] = IF h.magic = "good" THEN "body" ELSE @]
      BY <2>1
    <2>3. pc[c] = "header" /\ UNCHANGED <<conn, sent, effects>>
      BY <1>1 DEF readHeader
    <2>4. /\ n <= Len(stream[c])
          /\ stream' = [stream EXCEPT ![c] = SubSeq(@, n + 1, Len(@))]
      BY <2>1 DEF reads
    <2> DEFINE t == SubSeq(stream[c], n + 1, Len(stream[c]))
               p == IF h.magic = "good" THEN "body" ELSE "header"
    <2>5. /\ stream'[c] = t /\ hdr'[c] = h /\ pc'[c] = p
          /\ \A x \in Conns \ {c} : /\ stream'[x] = stream[x] /\ hdr'[x] = hdr[x]
                                    /\ pc'[x] = pc[x]
      BY <1>t, <2>2, <2>3, <2>4
    <2>6. /\ n < HEADER => cuts'[c] = cuts[c] \union {"short", "last"}
                              \union (IF "last" \in cuts[c] THEN {"twice"} ELSE {})
          /\ n = HEADER => cuts'[c] = cuts[c] \ {"last"}
          /\ \A x \in Conns \ {c} : cuts'[x] = cuts[x]
      <3>1. CASE n < HEADER
        <4>1. cuts' = [cuts EXCEPT ![c] = @ \union {"short", "last"}
                                  \union (IF "last" \in @ THEN {"twice"} ELSE {})]
          BY <2>1, <3>1 DEF short
        <4> QED BY <1>t, <3>1, <4>1 DEF HEADER
      <3>2. CASE n = HEADER
        <4>1. cuts' = [cuts EXCEPT ![c] = @ \ {"last"}]
          BY <2>1, <3>2 DEF whole, HEADER
        <4> QED BY <1>t, <3>2, <4>1 DEF HEADER
      <3> QED BY <3>1, <3>2 DEF HEADER
    <2>7. Flow(conn[c], stream[c], sent[c], "header", hdr[c], cuts[c], effects[c])
      BY <1>t, <2>3 DEF FlowAt
    <2>8. Flow(conn[c], t, sent[c], p, h, cuts'[c], effects[c])
      <3>1. n < HEADER => cuts'[c] = cuts[c] \union {"short", "last"}
                              \union (IF "last" \in cuts[c] THEN {"twice"} ELSE {})
        BY <2>6
      <3>2. n = HEADER => cuts'[c] = cuts[c] \ {"last"}
        BY <2>6
      <3> QED BY <1>t, <2>3, <2>4, <2>7, <3>1, <3>2, FlowHeader
    <2> HIDE DEF t, p
    <2>9. FlowAt(c)'
      BY <2>3, <2>5, <2>8 DEF FlowAt
    <2> QED BY <2>3, <2>5, <2>6, <2>9, FlowOthers
  <1>2. CASE endOfStream(c)
    <2>1. /\ UNCHANGED <<conn, sent, hdr, cuts, effects>>
          /\ pc' = [pc EXCEPT ![c] = "done"]
          /\ stream' = [stream EXCEPT ![c] = SubSeq(@, 0 + 1, Len(@))]
      BY <1>2 DEF endOfStream, reads
    <2> DEFINE t == SubSeq(stream[c], 0 + 1, Len(stream[c]))
    <2>2. /\ stream'[c] = t /\ pc'[c] = "done"
          /\ \A x \in Conns \ {c} : stream'[x] = stream[x] /\ pc'[x] = pc[x]
      BY <1>t, <2>1
    <2>3. Flow(conn[c], t, sent[c], "done", hdr[c], cuts[c], effects[c])
      BY <1>t, FlowEnds DEF FlowAt
    <2> HIDE DEF t
    <2>4. FlowAt(c)'
      BY <2>1, <2>2, <2>3 DEF FlowAt
    <2> QED BY <2>1, <2>2, <2>4, FlowOthers
  <1>3. pc[c] = "body" /\ hdr[c].packet # None =>
            /\ hdr[c].type = hdr[c].packet.kind.type
            /\ hdr[c].content = hdr[c].packet.kind.content
    BY <1>t DEF FlowAt, Flow, Taken
  <1>4. message(c) # None => hdr[c].packet # None /\ message(c) = hdr[c].packet.n
    BY DEF message
  <1>5. \A w, m : effect(c, w, m) =>
            /\ effects'[c] = Append(effects[c], [what |-> w, n |-> m])
            /\ \A x \in Conns \ {c} : effects'[x] = effects[x]
    BY <1>t DEF effect
  <1>6. CASE clientBC(c)
    <2>1. PICK n \in 0 .. hdr[c].len :
            /\ readBody(c, n)
            /\ n = hdr[c].len => serverProcessClientBC(c, message(c))
            /\ n # hdr[c].len => UNCHANGED effects
      BY <1>6 DEF clientBC
    <2>2. hdr[c].type = "BC_CLIENT" /\ UNCHANGED <<conn, sent>> /\ pc[c] = "body"
      BY <1>6, <2>1 DEF clientBC, readBody
    <2>3. hdr[c].packet # None => hdr[c].packet.kind.type = "BC_CLIENT"
      BY <1>3, <2>2
    <2>4. /\ \A x \in Conns \ {c} : effects'[x] = effects[x]
          /\ n < hdr[c].len => effects'[c] = effects[c]
          /\ n = hdr[c].len =>
                \/ /\ effects'[c] = effects[c]
                   /\ hdr[c].packet # None => owed(hdr[c].packet) = <<>>
                \/ /\ effects'[c] =
                          Append(effects[c], [what |-> "answer", n |-> message(c)])
                   /\ message(c) # None =>
                        owed(hdr[c].packet) = <<[what |-> "answer", n |-> message(c)]>>
      <3>1. CASE n = hdr[c].len /\ Identified
        <4>1. effect(c, "answer", message(c))
          BY <2>1, <3>1 DEF serverProcessClientBC
        <4>2. message(c) # None =>
                owed(hdr[c].packet) = <<[what |-> "answer", n |-> message(c)]>>
          BY <1>4, <2>3, <3>1, OwedFacts
        <4>3. ~(n < hdr[c].len)
          BY <1>t, <3>1 DEF Header
        <4> QED BY <1>5, <4>1, <4>2, <4>3
      <3>2. CASE n = hdr[c].len /\ ~Identified
        <4>1. UNCHANGED effects
          BY <2>1, <3>2 DEF serverProcessClientBC
        <4>2. hdr[c].packet # None => owed(hdr[c].packet) = <<>>
          BY <2>3, <3>2, OwedFacts
        <4> QED BY <4>1, <4>2
      <3>3. CASE n # hdr[c].len
        BY <2>1, <3>3
      <3> QED BY <3>1, <3>2, <3>3
    <2> QED BY <2>1, <2>2, <2>4, FlowBodyRead
  <1>7. CASE discard(c)
    <2>1. PICK n \in 0 .. hdr[c].len : readBody(c, n)
      BY <1>7 DEF discard
    <2>2. /\ hdr[c].type \in {"BC_SERVER", "other"} /\ UNCHANGED <<conn, sent, effects>>
          /\ pc[c] = "body"
      BY <1>7, <2>1 DEF discard, readBody
    <2>3. hdr[c].packet # None => owed(hdr[c].packet) = <<>>
      BY <1>3, <2>2, OwedFacts
    <2>4. "event" \in {"answer", "event", "blank", "clipped"}
      OBVIOUS
    <2> QED BY <2>1, <2>2, <2>3, <2>4, FlowBodyRead
  <1>8. CASE clientEvent(c)
    <2>1. PICK n \in 0 .. hdr[c].len :
            /\ readBody(c, n)
            /\ n = hdr[c].len => serverProcessClientEventPacket(c)
            /\ n # hdr[c].len => UNCHANGED effects
      BY <1>8 DEF clientEvent
    <2>2. hdr[c].type = "CLIENT_EVENT" /\ UNCHANGED <<conn, sent>> /\ pc[c] = "body"
      BY <1>8, <2>1 DEF clientEvent, readBody
    <2>3. hdr[c].packet # None =>
            /\ hdr[c].packet.kind.type = "CLIENT_EVENT"
            /\ hdr[c].packet.kind.content = hdr[c].content
      BY <1>3, <2>2
    <2> DEFINE w == IF message(c) = None THEN "event" ELSE eventOf(hdr[c].packet.kind)
    <2>4. w \in {"answer", "event", "blank", "clipped"}
      BY EventKinds
    <2>5. /\ \A x \in Conns \ {c} : effects'[x] = effects[x]
          /\ n < hdr[c].len => effects'[c] = effects[c]
          /\ n = hdr[c].len =>
                \/ /\ effects'[c] = effects[c]
                   /\ hdr[c].packet # None => owed(hdr[c].packet) = <<>>
                \/ /\ effects'[c] = Append(effects[c], [what |-> w, n |-> message(c)])
                   /\ message(c) # None =>
                        owed(hdr[c].packet) = <<[what |-> w, n |-> message(c)]>>
      <3>1. CASE n = hdr[c].len /\ hdr[c].content # "other"
        <4>1. serverProcessClientEvent(c, hdr[c].packet, message(c))
          BY <2>1, <3>1 DEF serverProcessClientEventPacket
        <4>2. effect(c, w, message(c))
          <5>1. CASE message(c) = None
            BY <4>1, <5>1 DEF serverProcessClientEvent
          <5>2. CASE message(c) # None
            BY <4>1, <5>2 DEF serverProcessClientEvent
          <5> QED BY <5>1, <5>2
        <4>3. message(c) # None =>
                owed(hdr[c].packet) = <<[what |-> w, n |-> message(c)]>>
          BY <1>4, <2>3, <3>1, OwedFacts
        <4>4. ~(n < hdr[c].len)
          BY <1>t, <3>1 DEF Header
        <4> HIDE DEF w
        <4> QED BY <1>5, <4>2, <4>3, <4>4
      <3>2. CASE n = hdr[c].len /\ hdr[c].content = "other"
        <4>1. UNCHANGED effects
          BY <2>1, <3>2 DEF serverProcessClientEventPacket
        <4>2. hdr[c].packet # None => owed(hdr[c].packet) = <<>>
          BY <2>3, <3>2, OwedFacts
        <4> QED BY <4>1, <4>2
      <3>3. CASE n # hdr[c].len
        BY <2>1, <3>3
      <3> QED BY <3>1, <3>2, <3>3
    <2> HIDE DEF w
    <2> QED BY <2>1, <2>2, <2>4, <2>5, FlowBodyRead
  <1>9. ~sslClientEvent(c)
    BY DEF sslClientEvent
  <1> QED BY <1>1, <1>2, <1>6, <1>7, <1>8, <1>9 DEF serverServlet, sslServlet

LEMMA FlowInit == Init => FlowInv
  <1> SUFFICES ASSUME Init PROVE FlowInv
    OBVIOUS
  <1>1. Flow("new", <<>>, <<>>, "none", idle("junk", 0), {}, <<>>)
    <2>1. Chain(<<>>, <<>>) /\ Numbered(<<>>)
      BY DEF Chain, Sent, Runs, Meets, Sorted, Whole, Numbered
    <2>2. <<>> \in Seq(Effect) /\ Past(<<>>, <<>>, <<>>) /\ Ordered(<<>>)
          /\ MadeUp(<<>>, {})
      BY DEF Past, Ordered, MadeUp
    <2>3. Settled(<<>>, <<>>, "none", idle("junk", 0), <<>>)
      BY DEF Settled
    <2> QED BY <2>1, <2>2, <2>3 DEF Flow
  <1>2. \A c \in Conns : FlowAt(c)
    BY <1>1 DEF Init, FlowAt
  <1> QED BY <1>2, HeapInit DEF Init, FlowInv

LEMMA FlowNext == FlowInv /\ [Next]_vars => FlowInv'
  <1> SUFFICES ASSUME FlowInv, [Next]_vars PROVE FlowInv'
    OBVIOUS
  <1> USE DEF network, servlets
  <1>1. HeapInv'
    BY HeapNext DEF FlowInv
  <1>2. CASE UNCHANGED vars
    <2>1. \A c \in Conns : FlowAt(c) => FlowAt(c)'
      BY <1>2 DEF vars, FlowAt
    <2> QED BY <1>1, <1>2, <2>1 DEF vars, FlowInv
  <1>3. CASE Next
    <2>1. build' = build
      BY <1>3 DEF Next, MainStep, ClientStep, serverServlet, sslServlet, connect,
         closes, breaks, send, serverRealStart, sslStart, sslAccepted, sslRefused,
         readHeader, endOfStream, clientBC, discard, clientEvent, sslClientEvent
    <2>2. build = "tcp" => \A c \in Conns : FlowAt(c)'
      BY <1>3, OthersKeepFlow, ServletKeepsFlow DEF Next
    <2>3. DOMAIN conn' = Conns
      BY <1>3 DEF FlowInv, Next, MainStep, ClientStep, serverServlet, sslServlet,
         connect, closes, breaks, send, serverRealStart, sslStart, sslAccepted,
         sslRefused, readHeader, endOfStream, clientBC, discard, clientEvent,
         sslClientEvent
    <2>4. DOMAIN effects' = Conns
      <3>1. effects' = effects \/ \E c \in Conns : \E w, m : effect(c, w, m)
        BY <1>3 DEF Next, MainStep, ClientStep, serverServlet, sslServlet, connect,
           closes, breaks, send, serverRealStart, sslStart, sslAccepted, sslRefused,
           readHeader, endOfStream, clientBC, discard, clientEvent, sslClientEvent,
           serverProcessClientBC, serverProcessClientEventPacket,
           serverProcessClientEvent
      <3> QED BY <3>1 DEF effect, FlowInv
    <2>5. build = "tcp" => main' = main
      BY <1>3, NoneAssumption DEF FlowInv, Next, MainStep, ClientStep, serverServlet,
         sslServlet, connect, closes, breaks, send, serverRealStart, sslStart,
         sslAccepted, sslRefused, readHeader, endOfStream, clientBC, discard,
         clientEvent, sslClientEvent
    <2> QED BY <1>1, <2>1, <2>2, <2>3, <2>4, <2>5 DEF FlowInv
  <1> QED BY <1>2, <1>3

(* Framing, for any connections and packets of any kind and length: what   *)
(* the TCP servlet enqueues or answers it does for a packet that was sent, *)
(* once and in order, unless two headers in a row were read short; and as  *)
(* long as no read of a connection was short, no packet is missed.         *)
THEOREM EventsAreFaithful == Spec => []EventsFaithful
  <1>1. FlowInv => EventsFaithful
    <2> SUFFICES ASSUME FlowInv, build = "tcp", NEW c \in Conns
                 PROVE
        /\ \A i \in DOMAIN effects[c] :
              IF effects[c][i].n = None THEN "twice" \in cuts[c]
              ELSE /\ effects[c][i].n \in DOMAIN sent[c]
                   /\ <<effects[c][i]>> = owed(sent[c][effects[c][i].n])
                   /\ \A j \in DOMAIN effects[c] :
                         j < i /\ effects[c][j].n # None =>
                             effects[c][j].n < effects[c][i].n
        /\ "short" \notin cuts[c] /\ pc[c] = "header" /\ conn[c] # "reset" =>
              \A n \in DOMAIN sent[c] : owed(sent[c][n]) # <<>> =>
                  ((\E i \in DOMAIN effects[c] : effects[c][i].n = n) <=> ~unread(c, n))
      BY DEF EventsFaithful
    <2> DEFINE e == effects[c]
               q == sent[c]
               s == stream[c]
    <2>1. /\ e \in Seq(Effect) /\ Past(e, s, q) /\ Ordered(e) /\ MadeUp(e, cuts[c])
          /\ Numbered(q)
          /\ "short" \notin cuts[c] /\ pc[c] = "header" /\ conn[c] # "reset" =>
                Settled(s, q, "header", hdr[c], e)
      <3>1. FlowAt(c)
        BY DEF FlowInv
      <3> QED BY <3>1 DEF FlowAt, Flow
    <2>2. /\ q \in Seq(Packet) /\ s \in Seq(Unit)
          /\ DOMAIN e = 1 .. Len(e) /\ DOMAIN q = 1 .. Len(q) /\ DOMAIN s = 1 .. Len(s)
          /\ Len(e) \in Nat
      <3>1. q \in Seq(Packet) /\ s \in Seq(Unit)
        BY DEF FlowInv, HeapInv, Shapes
      <3> QED BY <2>1, <3>1
    <2>4. \A n : unread(c, n) <=> \E i \in 1 .. Len(s) : s[i] = <<q[n], 1>>
      BY <2>2 DEF unread
    <2> HIDE DEF e, q, s
    <2>5. ASSUME NEW i \in 1 .. Len(e)
          PROVE  IF e[i].n = None THEN "twice" \in cuts[c]
                 ELSE /\ e[i].n \in 1 .. Len(q) /\ <<e[i]>> = owed(q[e[i].n])
                      /\ \A j \in 1 .. Len(e) :
                            j < i /\ e[j].n # None => e[j].n < e[i].n
      <3>1. \A j \in 1 .. Len(e) : j < i => j \in 1 .. i - 1
        BY <2>2
      <3> QED BY <2>1, <3>1 DEF Past, Ordered, MadeUp
    <2>6. ASSUME "short" \notin cuts[c], pc[c] = "header", conn[c] # "reset",
                 NEW n \in 1 .. Len(q), owed(q[n]) # <<>>
          PROVE  (\E i \in 1 .. Len(e) : e[i].n = n) <=> ~unread(c, n)
      <3>1. (\E i \in 1 .. Len(e) : e[i].n = n) \/ unread(c, n)
        BY <2>1, <2>4, <2>6 DEF Settled
      <3>2. ASSUME NEW i \in 1 .. Len(e), e[i].n = n, NEW j \in 1 .. Len(s),
                   s[j] = <<q[n], 1>>
            PROVE  FALSE
        <4>1. n \in Nat /\ n # None
          <5>1. n \in Nat
            BY <2>2
          <5> QED BY <5>1, NoneAssumption
        <4>2. n < s[j][1].n
          BY <2>1, <3>2, <4>1 DEF Past
        <4>3. s[j][1].n = n
          BY <2>1, <3>2 DEF Numbered
        <4> QED BY <4>1, <4>2, <4>3
      <3> QED BY <2>4, <3>1, <3>2
    <2> QED BY <2>2, <2>5, <2>6 DEF e, q, s
  <1> QED BY FlowInit, FlowNext, <1>1, PTL DEF Spec
=============================================================================
