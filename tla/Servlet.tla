------------------------------ MODULE Servlet ------------------------------
(***************************************************************************)
(* The stream servers (server/tcp_server.c, server/ssl_server.c): the main *)
(* loop that accepts connections and reads datagrams, and one servlet      *)
(* thread per connection that cuts the byte stream into packets and hands  *)
(* them to server/server.c.  Which of the two servers runs is a choice of  *)
(* the build, made by Init.                                                *)
(*                                                                         *)
(* A stream is a sequence of units <<packet, k>>.  A header is two units:  *)
(* type and content, then magic number and length.  len more units are the *)
(* body.  read() returns any number of units from 1 to what was asked for  *)
(* and sent, which is all that a stream promises; the servlet calls it     *)
(* once for a header and once for a body.  Hosts are little-endian: ntohl  *)
(* on a field that the read left alone swaps it once more.                 *)
(***************************************************************************)
EXTENDS Integers, Sequences, FiniteSetsExt

CONSTANTS
    Conns,          \* connections that clients make
    Kinds,          \* kinds of packets they send
    Identified,     \* the server's identifier has a class
    MaxPackets,     \* packets sent, all together
    MaxUnread,      \* units unread when a client sends its next packet
    Quiet,          \* connections on which at most a broadcast is sent
    None

HEADER == 2
Types == {"BC_CLIENT", "CLIENT_EVENT", "BC_SERVER", "other"}
Contents == {"XML", "EVENT", "other"}

(* pieces: in how many calls of xmlParseClientChar the text of the sound   *)
(* element of an XML notice arrives; 0 if the notice has none.             *)
ASSUME KindsAssumption ==
    Kinds \subseteq [type: Types, content: Contents, len: Nat \ {0}, pieces: 0 .. 2]
ASSUME NoneAssumption ==
    None \notin Conns \union Kinds \union Nat /\ None \notin [n: Nat, kind: Kinds]
ASSUME BoundsAssumption == 
    /\ Identified \in BOOLEAN /\ MaxPackets \in Nat /\ MaxUnread \in Nat
    /\ Quiet \subseteq Conns

VARIABLES
    build,      \* "tcp" or "ssl"
    up,         \* no wrong pointer was used yet
    main,       \* the connection the main loop does SSL_accept for, or None
    conn,       \* per connection: "new", "open", "closed", "reset"
    stream,     \* what was sent and not read yet
    sent,       \* history: all packets sent
    pc,         \* servlet: "none", "header", "body", "done"
    hdr,        \* msg.header
    body,       \* what msg.body points to: "unset", "null", "freed"
    heap,       \* "ok"; "overrun" by a byte; "fault": a wrong pointer used
    cuts,       \* history of short reads, see short and whole
    effects     \* the events it enqueued and broadcasts it answered, in order

servlets == <<pc, hdr, body, heap, cuts>>
network == <<conn, stream, sent>>
vars == <<build, up, main, network, servlets, effects>>

packet(c, kind) == [n |-> Len(sent[c]) + 1, kind |-> kind]
units(p) == [k \in 1 .. HEADER + p.kind.len |-> <<p, k>>]
bodyUnits(p) == [k \in 1 .. p.kind.len |-> <<p, HEADER + k>>]

(* The header fields while no packet is being taken apart. *)
idle(magic, len) == [magic |-> magic, len |-> len, type |-> "other",
                     content |-> "other", packet |-> None]
Lens == {k.len : k \in Kinds}

(* serverRealInit and serverInitSocket: both sockets are open. *)
Init ==
    /\ build \in {"tcp", "ssl"} /\ up = TRUE
    /\ main = None
    /\ conn = [c \in Conns |-> "new"]
    /\ stream = [c \in Conns |-> <<>>]
    /\ sent = [c \in Conns |-> <<>>]
    /\ pc = [c \in Conns |-> "none"]
    /\ hdr = [c \in Conns |-> idle("junk", 0)]
    /\ body = [c \in Conns |-> "unset"]
    /\ heap = [c \in Conns |-> "ok"]
    /\ cuts = [c \in Conns |-> {}]
    /\ effects = [c \in Conns |-> <<>>]

-----------------------------------------------------------------------------
(* The clients. *)

packetsSent == FoldSet(LAMBDA c, n : n + Len(sent[c]), 0, Conns)

connect(c) ==
    /\ conn[c] = "new"
    /\ conn' = [conn EXCEPT ![c] = "open"]
    /\ UNCHANGED <<build, up, main, stream, sent, servlets, effects>>

send(c, kind) ==
    /\ conn[c] = "open" /\ packetsSent < MaxPackets
    /\ c \in Quiet => sent[c] = <<>> /\ kind.type = "BC_CLIENT"
    /\ Len(stream[c]) <= MaxUnread
    /\ sent' = [sent EXCEPT ![c] = Append(@, packet(c, kind))]
    /\ stream' = [stream EXCEPT ![c] = @ \o units(packet(c, kind))]
    /\ UNCHANGED <<build, up, main, conn, servlets, effects>>

closes(c) ==
    /\ conn[c] = "open"
    /\ conn' = [conn EXCEPT ![c] = "closed"]
    /\ UNCHANGED <<build, up, main, stream, sent, servlets, effects>>

(* The connection breaks: what was not read is lost, read() fails. *)
breaks(c) ==
    /\ conn[c] = "open"
    /\ conn' = [conn EXCEPT ![c] = "reset"]
    /\ stream' = [stream EXCEPT ![c] = <<>>]
    /\ UNCHANGED <<build, up, main, sent, servlets, effects>>

-----------------------------------------------------------------------------
(* The main loop. *)

effect(c, what, n) ==
    effects' = [effects EXCEPT ![c] = Append(@, [what |-> what, n |-> n])]

(* serverContainsIDClass gets the empty string in serverProcessClientBC    *)
(* too (the delimiter it starts at was just replaced): a client of any     *)
(* class is answered by a server that has one.                             *)
serverProcessClientBC(c, n) ==
    IF Identified THEN effect(c, "answer", n) ELSE UNCHANGED effects

(* startThread(serverServlet): msg is on the stack of a new thread, which  *)
(* is fresh or that of a servlet that has ended, with its last header.     *)
startServlet(c) ==
    /\ pc' = [pc EXCEPT ![c] = "header"]
    /\ cuts' = [cuts EXCEPT ![c] = @ \union {"last"}]
    /\ \E h \in {idle("junk", 0)} \union {hdr[d] : d \in {d \in Conns : pc[d] = "done"}} :
        hdr' = [hdr EXCEPT ![c] = h]
    /\ UNCHANGED <<body, heap>>

(* The TCP server starts a servlet whatever accept() returned; if it was   *)
(* -1 because the client is gone, the first read of the servlet fails.     *)
serverRealStart(c) ==
    /\ build = "tcp"
    /\ conn[c] # "new" /\ pc[c] = "none"
    /\ startServlet(c)
    /\ UNCHANGED <<build, up, main, network, effects>>

(* The SSL server: accept(), and a blocking handshake in the main loop. *)
sslStart(c) ==
    /\ build = "ssl" /\ main = None
    /\ conn[c] # "new" /\ pc[c] = "none"
    /\ main' = c
    /\ UNCHANGED <<build, up, network, servlets, effects>>

(* SSL_accept returns when the client has done its part, or has gone. *)
sslAccepted(c) ==
    /\ main = c /\ main' = None
    /\ conn[c] # "reset"
    /\ startServlet(c)
    /\ UNCHANGED <<build, up, network, effects>>

sslRefused(c) ==
    /\ main = c /\ main' = None
    /\ conn[c] # "open"
    /\ pc' = [pc EXCEPT ![c] = "done"]
    /\ UNCHANGED <<build, up, network, hdr, body, heap, cuts, effects>>

-----------------------------------------------------------------------------
(* The servlet: headers. *)

swapped(magic) ==
    CASE magic = "good" -> "swapped" [] magic = "swapped" -> "good" [] OTHER -> magic

(* One read of n units where `wanted' were asked for, 0 at the end. *)
reads(c, wanted, n) ==
    /\ n \in 0 .. wanted /\ n <= Len(stream[c])
    /\ n = 0 => stream[c] = <<>> /\ conn[c] # "open"
    /\ stream' = [stream EXCEPT ![c] = SubSeq(@, n + 1, Len(@))]

(* A short read; "last" marks a header read that left the second half of   *)
(* msg.header as it was, "twice" two of them in a row.                     *)
short(c) ==
    cuts' = [cuts EXCEPT ![c] = @ \union {"short", "last"}
                                  \union (IF "last" \in @ THEN {"twice"} ELSE {})]
whole(c) == cuts' = [cuts EXCEPT ![c] = @ \ {"last"}]

(* The fields after the read and the two ntohl; bytes of a body that are   *)
(* taken for a type are anything, and are not the magic number.            *)
ntohlHeader(c, n) ==
    LET first == stream[c][1]
        second == stream[c][2]
        magic == IF n < HEADER THEN swapped(hdr[c].magic)
                 ELSE IF second[2] = 2 THEN swapped("swapped") ELSE "junk"
        len == IF n < HEADER THEN hdr[c].len
               ELSE IF magic = "junk" THEN 0 ELSE second[1].kind.len
    IN  IF magic # "good" THEN {idle(magic, len)}
        ELSE IF first[2] = 1
        THEN {[magic |-> magic, len |-> len, type |-> first[1].kind.type,
               content |-> first[1].kind.content, packet |-> first[1]]}
        ELSE [magic: {magic}, len: {len}, type: Types, content: Contents,
              packet: {None}]

(* Mutant: the magic number is not looked at. *)
readHeaderAnyMagic(c) ==
    /\ pc[c] = "header"
    /\ \E n \in 1 .. HEADER :
        /\ reads(c, HEADER, n)
        /\ \E h \in ntohlHeader(c, n), type \in Types, len \in Lens :
            hdr' = [hdr EXCEPT ![c] = IF h.magic = "good" THEN h ELSE
                                      [h EXCEPT !.type = type, !.len = len,
                                                !.content = "EVENT"]]
        /\ pc' = [pc EXCEPT ![c] = "body"]
        /\ IF n < HEADER THEN short(c) ELSE whole(c)
    /\ UNCHANGED <<build, up, main, conn, sent, body, heap, effects>>

(* The read of a header, the byte order, and the test of the magic number. *)
readHeader(c) ==
    /\ pc[c] = "header"
    /\ \E n \in 1 .. HEADER :
        /\ reads(c, HEADER, n)
        /\ \E h \in ntohlHeader(c, n) :
            /\ hdr' = [hdr EXCEPT ![c] = h]
            /\ pc' = [pc EXCEPT ![c] = IF h.magic = "good" THEN "body" ELSE @]
        /\ IF n < HEADER THEN short(c) ELSE whole(c)
    /\ UNCHANGED <<build, up, main, conn, sent, body, heap, effects>>

(* Mutant: only an error ends the servlet, not the end of the stream. *)
endOfStreamMissed(c) ==
    /\ pc[c] = "header" /\ stream[c] = <<>> /\ conn[c] = "reset"
    /\ pc' = [pc EXCEPT ![c] = "done"]
    /\ UNCHANGED <<build, up, main, network, hdr, body, heap, cuts, effects>>

(* size_recv <= 0 ends the servlet. *)
endOfStream(c) ==
    /\ pc[c] = "header" /\ reads(c, HEADER, 0)
    /\ pc' = [pc EXCEPT ![c] = "done"]
    /\ UNCHANGED <<build, up, main, conn, sent, hdr, body, heap,
                   cuts, effects>>

-----------------------------------------------------------------------------
(* The servlet: bodies. *)

(* The number of the packet whose type and body these are, or None for     *)
(* pieces of several.                                                      *)
message(c) ==
    LET p == hdr[c].packet IN
    IF p # None /\ SubSeq(stream[c], 1, hdr[c].len) = bodyUnits(p) THEN p.n ELSE None

(* One read for a body; the control flow goes back to the next header. *)
readBody(c, n) ==
    /\ pc[c] = "body"
    /\ reads(c, hdr[c].len, n)
    /\ pc' = [pc EXCEPT ![c] = "header"]
    /\ hdr' = [hdr EXCEPT ![c] = idle(@.magic, @.len)]
    /\ cuts' = IF n < hdr[c].len THEN [cuts EXCEPT ![c] = @ \union {"short"}] ELSE cuts

(* PROT_BC_CLIENT: the body is malloc'ed, terminated one byte behind its   *)
(* end by serverProcessClientBC, and freed.                                *)
clientBC(c) ==
    /\ hdr[c].type = "BC_CLIENT"
    /\ \E n \in 0 .. hdr[c].len :
        /\ readBody(c, n)
        /\ IF n = hdr[c].len
           THEN /\ serverProcessClientBC(c, message(c))
                /\ heap' = [heap EXCEPT ![c] = IF @ = "ok" THEN "overrun" ELSE @]
           ELSE UNCHANGED <<effects, heap>>
    /\ body' = [body EXCEPT ![c] = "freed"]
    /\ UNCHANGED <<build, up, main, conn, sent>>

(* PROT_BC_SERVER and unsupported types: malloc, read, free.  The test     *)
(* `!size_recv != len' sends most reads to the error path, which frees the *)
(* body as the other one does.                                             *)
discard(c) ==
    /\ hdr[c].type \in {"BC_SERVER", "other"}
    /\ \E n \in 0 .. hdr[c].len : readBody(c, n)
    /\ body' = [body EXCEPT ![c] = "freed"]
    /\ UNCHANGED <<build, up, main, conn, sent, heap, effects>>

(* xmlParseClientChar overwrites a field with every piece of text: of a    *)
(* sound that comes in pieces the last one stays, without one it is NULL.  *)
noticeSound(kind) ==
    CASE kind.pieces = 0 -> "null" [] kind.pieces = 1 -> "sound" [] OTHER -> "tail"

(* serverConvertNoticeToEngineEvent leaves the malloc'ed event as it is if *)
(* the notice has no sound.                                                *)
serverConvertNoticeToEngineEvent(kind) ==
    CASE noticeSound(kind) = "null" -> "blank"
      [] noticeSound(kind) = "sound" -> "event" [] OTHER -> "clipped"

eventOf(kind) ==
    IF kind.content = "XML" THEN serverConvertNoticeToEngineEvent(kind) ELSE "event"

(* serverProcessClientEvent: whatever became of it is enqueued. *)
serverProcessClientEvent(c, p, n) ==
    IF n = None THEN effect(c, "event", None) ELSE effect(c, eventOf(p.kind), n)

(* serverProcessClientEventPacket: nothing for other contents.  packet is  *)
(* &msg: with XML msg.body keeps pointing to the buffer the servlet frees  *)
(* next, with an engine event it ends as NULL.                             *)
serverProcessClientEventPacket(c) ==
    /\ IF hdr[c].content = "other" THEN UNCHANGED effects
       ELSE serverProcessClientEvent(c, hdr[c].packet, message(c))
    /\ body' = [body EXCEPT ![c] = CASE hdr[c].content = "XML" -> "freed"
                                     [] hdr[c].content = "EVENT" -> "null"
                                     [] OTHER -> @]

(* Mutant: a short read goes to servletERR, which frees msg.body. *)
clientEventErr(c) ==
    /\ build = "tcp" /\ hdr[c].type = "CLIENT_EVENT"
    /\ \E n \in 0 .. hdr[c].len :
        /\ readBody(c, n)
        /\ IF n = hdr[c].len THEN serverProcessClientEventPacket(c) /\ UNCHANGED heap
           ELSE /\ heap' = [heap EXCEPT ![c] = IF body[c] = "null" THEN @ ELSE "fault"]
                /\ UNCHANGED <<body, effects>>
    /\ UNCHANGED <<build, up, main, conn, sent>>

(* PROT_CLIENT_EVENT over TCP: a buffer of its own, which a short read     *)
(* leaks; msg.body is left alone.                                          *)
clientEvent(c) ==
    /\ build = "tcp" /\ hdr[c].type = "CLIENT_EVENT"
    /\ \E n \in 0 .. hdr[c].len :
        /\ readBody(c, n)
        /\ IF n = hdr[c].len THEN serverProcessClientEventPacket(c)
                             ELSE UNCHANGED <<body, effects>>
    /\ UNCHANGED <<build, up, main, conn, sent, heap>>

(* The same over SSL: the read goes to wherever msg.body points, which is  *)
(* nowhere or to freed memory, and a short one frees it again; after a     *)
(* whole one the buffer is handed on as malloc returned it.  What follows  *)
(* is undefined, and the model follows it no further.                      *)
sslClientEvent(c) ==
    /\ build = "ssl" /\ hdr[c].type = "CLIENT_EVENT"
    /\ \E n \in 0 .. hdr[c].len : readBody(c, n)
    /\ up' = FALSE
    /\ heap' = [heap EXCEPT ![c] = "fault"]
    /\ UNCHANGED <<build, main, conn, sent, body, effects>>

-----------------------------------------------------------------------------
serverServlet(c) ==
    readHeader(c) \/ endOfStream(c) \/ clientBC(c) \/ discard(c) \/ clientEvent(c)
sslServlet(c) == sslClientEvent(c)

MainStep == \E c \in Conns : serverRealStart(c) \/ sslStart(c) \/ sslRefused(c)

ClientStep ==
    \/ \E c \in Conns : connect(c) \/ closes(c) \/ breaks(c) \/ sslAccepted(c)
    \/ \E c \in Conns, kind \in Kinds : send(c, kind)

Next ==
    /\ up
    /\ MainStep \/ ClientStep \/ \E c \in Conns : serverServlet(c) \/ sslServlet(c)

Spec == Init /\ [][Next]_vars

(* Threads that can run do not all stand still.  That is less than the     *)
(* scheduler gives each of them, and enough for clients that send finitely *)
(* many packets; clients themselves owe nothing.                           *)
ServerStep ==
    \E c \in Conns : \/ serverRealStart(c) \/ sslRefused(c)
                      \/ serverServlet(c) \/ sslServlet(c)
FairSpec == Spec /\ WF_vars(up /\ ServerStep)

-----------------------------------------------------------------------------
(* Properties. *)

(* What the server owes for a packet: an event or an answer, or nothing.   *)
owed(p) ==
    CASE p.kind.type = "BC_CLIENT" /\ Identified -> <<[what |-> "answer", n |-> p.n]>>
      [] p.kind.type = "CLIENT_EVENT" /\ p.kind.content # "other" ->
            <<[what |-> eventOf(p.kind), n |-> p.n]>>
      [] OTHER -> <<>>
(* The n-th packet is in the stream from its first unit on.                *)
unread(c, n) == \E i \in DOMAIN stream[c] : stream[c][i] = <<sent[c][n], 1>>

(* Framing over TCP, where one read is taken for a whole header or body.   *)
(* What is done is done for a packet that was sent, once and in the order  *)
(* of the packets; something made of pieces of several packets passes the  *)
(* magic number only after two short header reads in a row, when the       *)
(* number of an earlier header is swapped back.  As long as every read of  *)
(* a connection was whole, no packet is missed either: between two of them *)
(* all that is owed for those read is done.                                *)
EventsFaithful ==
    build = "tcp" => \A c \in Conns :
        /\ \A i \in DOMAIN effects[c] :
              LET n == effects[c][i].n IN
              IF n = None THEN "twice" \in cuts[c]
              ELSE /\ n \in DOMAIN sent[c] /\ <<effects[c][i]>> = owed(sent[c][n])
                   /\ \A j \in DOMAIN effects[c] :
                         j < i /\ effects[c][j].n # None => effects[c][j].n < n
        /\ "short" \notin cuts[c] /\ pc[c] = "header" /\ conn[c] # "reset" =>
              \A n \in DOMAIN sent[c] : owed(sent[c][n]) # <<>> =>
                  ((\E i \in DOMAIN effects[c] : effects[c][i].n = n) <=> ~unread(c, n))

(* Packets of this type were sent on the connection, or pieces of others   *)
(* were taken for one, which takes two short header reads in a row.        *)
TypeSent(c, type) == \E i \in DOMAIN sent[c] : sent[c][i].kind.type = type
TakenFor(c, type) == TypeSent(c, type) \/ "twice" \in cuts[c]

(* The pointer msg.body is left dangling by an event packet ("No need to   *)
(* free the body"), and yet the TCP servlet uses no memory it does not own *)
(* but one byte, whatever is read short: serverProcessClientBC terminates  *)
(* the body of a client's broadcast one byte behind the memory allocated   *)
(* for it ("overrun"), and no other packet makes it do so.  The SSL        *)
(* servlet moreover reads into and frees what it does not own ("fault"),   *)
(* but only for an event packet.                                           *)
HeapSafe ==
    \A c \in Conns :
        /\ heap[c] = "overrun" => TakenFor(c, "BC_CLIENT")
        /\ heap[c] = "fault" => build = "ssl" /\ TakenFor(c, "CLIENT_EVENT")

(* A client that has gone is noticed, wherever in a packet it stopped: its *)
(* connection is accepted if it was not, and its servlet ends.  Over SSL   *)
(* the part about accept() is missing, because one client that does not    *)
(* finish its handshake keeps the main loop from all others.               *)
Served ==
    \A c \in Conns :
        conn[c] \in {"closed", "reset"} /\ (build = "tcp" \/ pc[c] # "none")
            ~> pc[c] = "done" \/ ~up
=============================================================================
