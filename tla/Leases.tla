------------------------------- MODULE Leases -------------------------------
(***************************************************************************)
(* Autodiscovery and leases over UDP: one server (server/udp_server.c and  *)
(* the broadcasts of server/server.c) and its clients                      *)
(* (client/Net/Peep/BC/BC.pm, protocol "udp", autodiscovery on).           *)
(*                                                                         *)
(* Time is counted in units of 30 seconds, which divide all the protocol's *)
(* periods, and every stored time is the time left.  A packet arrives      *)
(* within its unit or is lost.  A client reads its socket only while it    *)
(* handles its alarm; a server's alarm handler interrupts its main loop.   *)
(*                                                                         *)
(* A client broadcasts from the port it is bound to (port 0 of the model)  *)
(* and everything else it sends comes from a socket of its own (getSocket, *)
(* port n in its n-th life) from which it never reads.                     *)
(***************************************************************************)
EXTENDS Integers, Sequences, SequencesExt

CONSTANTS
    Clients,
    SameHost,       \* whether the clients run on one host
    Foreign,        \* the clients that share no class with the server
    NoClasses,      \* number of classes in the server's identifier
    INTERVAL,       \* between two alarms of a client (3 units)
    BC_INTERVAL,    \* alarms without a server before a new broadcast
    LEASE,          \* PROT_SERVER_LEASE, and a new server's first lease (10)
    WAKEUP,         \* PROT_SERVER_WAKEUP: between two server alarms (9)
    WAKEUPS,        \* PROT_WAKEUPS_BEFORE_EXPIRED (2)
    Slack,          \* how late an alarm may be handled
    MaxLives,       \* how often a client may be started
    MaxServerLives, \* how often the server may be started
    MaxLost,        \* how many packets may be lost
    None

Expiry == WAKEUP * WAKEUPS

ASSUME ClientsAssumption == Foreign \subseteq Clients /\ SameHost \in BOOLEAN
ASSUME PeriodsAssumption ==
    /\ {INTERVAL, LEASE, WAKEUP, WAKEUPS} \subseteq Nat \ {0}
    /\ {BC_INTERVAL, Slack, NoClasses} \subseteq Nat
ASSUME BoundsAssumption == {MaxLives, MaxServerLives, MaxLost} \subseteq Nat
ASSUME NoneAssumption == None \notin Int /\ None \notin Clients \X Nat

VARIABLES
    sup,        \* the server runs
    slives,     \* how often it was started
    hl,         \* the lease list, oldest entry first
    alarm,      \* time to the server's alarm
    req,        \* the address serverAddClient is adding, or None
    at,         \* its list pointer: an entry's address, or None (hlhead)
    toServer,   \* packets on their way to the server
    up, lives,  \* per client: it runs; how often it was started
    tick,       \* time to its alarm
    reading,    \* it is in updateserverlist
    inbox,      \* packets at its broadcast port
    lease,      \* time left of the server's entry in %Servers, None if absent
    bcint,      \* __LAST_BC_INTERVAL__
    lost,       \* packets lost so far
    fault       \* how the server came to use a freed entry, or "none"

server == <<sup, slives, hl, alarm, req, at>>
clientVars == <<up, lives, tick, reading, inbox, lease, bcint>>
vars == <<server, toServer, clientVars, lost, fault>>

host(c) == IF SameHost THEN "host" ELSE c
Addresses == Clients \X (0 .. MaxLives)
Packets == [type: {"BC_CLIENT", "CLIENT_STILL_ALIVE"}, from: Addresses]

Init ==
    /\ sup = FALSE /\ slives = 0 /\ hl = <<>> /\ alarm = 0
    /\ req = None /\ at = None
    /\ toServer = {}
    /\ up = [c \in Clients |-> FALSE]
    /\ lives = [c \in Clients |-> 0]
    /\ tick = [c \in Clients |-> 0]
    /\ reading = [c \in Clients |-> FALSE]
    /\ inbox = [c \in Clients |-> <<>>]
    /\ lease = [c \in Clients |-> None]
    /\ bcint = [c \in Clients |-> 0]
    /\ lost = 0 /\ fault = "none"

-----------------------------------------------------------------------------
(* The client. *)

send(c, type, port) ==
    toServer' = IF sup THEN toServer \union {[type |-> type, from |-> <<c, port>>]}
                ELSE toServer

(* initialize: bind, broadcast, and the first look at the socket. *)
initialize(c) ==
    /\ ~up[c] /\ lives[c] < MaxLives
    /\ up' = [up EXCEPT ![c] = TRUE]
    /\ lives' = [lives EXCEPT ![c] = @ + 1]
    /\ reading' = [reading EXCEPT ![c] = TRUE]
    /\ send(c, "BC_CLIENT", 0)
    /\ UNCHANGED <<server, tick, inbox, lease, bcint, lost, fault>>

(* Mutant: the count is not reset after a broadcast. *)
handlealarmNoReset(c) ==
    /\ up[c] /\ ~reading[c] /\ tick[c] <= 0
    /\ reading' = [reading EXCEPT ![c] = TRUE]
    /\ \/ /\ lease[c] # None
          /\ send(c, "CLIENT_STILL_ALIVE", lives[c])
          /\ bcint' = [bcint EXCEPT ![c] = 0]
       \/ /\ lease[c] = None
          /\ bcint' = [bcint EXCEPT ![c] = @ + 1]
          /\ IF bcint[c] + 1 > BC_INTERVAL
             THEN send(c, "BC_CLIENT", 0) ELSE UNCHANGED toServer
    /\ UNCHANGED <<server, up, lives, tick, inbox, lease, lost, fault>>

(* Mutant: no broadcast is sent when the count is up. *)
handlealarmSilent(c) ==
    /\ up[c] /\ ~reading[c] /\ tick[c] <= 0
    /\ reading' = [reading EXCEPT ![c] = TRUE]
    /\ \/ /\ lease[c] # None
          /\ send(c, "CLIENT_STILL_ALIVE", lives[c])
          /\ bcint' = [bcint EXCEPT ![c] = 0]
       \/ /\ lease[c] = None
          /\ bcint' = [bcint EXCEPT ![c] =
                            IF @ + 1 > BC_INTERVAL THEN 0 ELSE @ + 1]
          /\ UNCHANGED toServer
    /\ UNCHANGED <<server, up, lives, tick, inbox, lease, lost, fault>>

(* handlealarm up to the call of updateserverlist: "still alive" to a      *)
(* known server; without one, a broadcast every BC_INTERVAL alarms.        *)
handlealarm(c) ==
    /\ up[c] /\ ~reading[c] /\ tick[c] <= 0
    /\ reading' = [reading EXCEPT ![c] = TRUE]
    /\ \/ /\ lease[c] # None
          /\ send(c, "CLIENT_STILL_ALIVE", lives[c])
          /\ bcint' = [bcint EXCEPT ![c] = 0]
       \/ /\ lease[c] = None /\ bcint[c] + 1 > BC_INTERVAL
          /\ send(c, "BC_CLIENT", 0)
          /\ bcint' = [bcint EXCEPT ![c] = 0]
       \/ /\ lease[c] = None /\ bcint[c] + 1 <= BC_INTERVAL
          /\ bcint' = [bcint EXCEPT ![c] = @ + 1]
          /\ UNCHANGED toServer
    /\ UNCHANGED <<server, up, lives, tick, inbox, lease, lost, fault>>

recv(c, type) ==
    /\ up[c] /\ reading[c]
    /\ inbox[c] # <<>> /\ Head(inbox[c]) = type
    /\ inbox' = [inbox EXCEPT ![c] = Tail(@)]

(* addnewserver's pattern: the server's whole identifier is one class.     *)
idMatches(c) == NoClasses = 1 /\ c \notin Foreign

(* updateserverlist on PROT_BC_SERVER: addnewserver, and, whether the      *)
(* classes matched or not, a broadcast packet straight to the server.  A   *)
(* server in the list already gets no answer.                              *)
addnewserver(c) ==
    /\ recv(c, "BC_SERVER")
    /\ IF lease[c] # None THEN UNCHANGED <<lease, toServer>> ELSE
       /\ lease' = [lease EXCEPT ![c] = IF idMatches(c) THEN LEASE ELSE None]
       /\ send(c, "BC_CLIENT", lives[c])
    /\ UNCHANGED <<server, up, lives, tick, reading, bcint, lost, fault>>

(* updateserverlist on PROT_SERVER_STILL_ALIVE.  The assignment creates    *)
(* the entry of %Servers if there was none.                                *)
updateserver(c) ==
    /\ recv(c, "SERVER_STILL_ALIVE")
    /\ lease' = [lease EXCEPT ![c] = LEASE]
    /\ UNCHANGED <<server, toServer, up, lives, tick, reading, bcint, lost,
                   fault>>

(* Mutant: an expired server is kept. *)
purgeserverlistNever(c) ==
    /\ up[c] /\ reading[c] /\ inbox[c] = <<>>
    /\ reading' = [reading EXCEPT ![c] = FALSE]
    /\ tick' = [tick EXCEPT ![c] = INTERVAL]
    /\ UNCHANGED <<server, toServer, up, lives, inbox, lease, bcint, lost,
                   fault>>

(* Mutant: a server is purged an alarm before its lease is over. *)
purgeserverlistEarly(c) ==
    /\ up[c] /\ reading[c] /\ inbox[c] = <<>>
    /\ lease' = [lease EXCEPT ![c] = IF @ # None /\ @ <= INTERVAL THEN None ELSE @]
    /\ reading' = [reading EXCEPT ![c] = FALSE]
    /\ tick' = [tick EXCEPT ![c] = INTERVAL]
    /\ UNCHANGED <<server, toServer, up, lives, inbox, bcint, lost, fault>>

(* The socket is empty: purgeserverlist, and the alarm is set again. *)
purgeserverlist(c) ==
    /\ up[c] /\ reading[c] /\ inbox[c] = <<>>
    /\ lease' = [lease EXCEPT ![c] = IF @ # None /\ @ <= 0 THEN None ELSE @]
    /\ reading' = [reading EXCEPT ![c] = FALSE]
    /\ tick' = [tick EXCEPT ![c] = INTERVAL]
    /\ UNCHANGED <<server, toServer, up, lives, inbox, bcint, lost, fault>>

(* A client dies; %Servers and its socket go with it. *)
clientStops(c) ==
    /\ up[c]
    /\ up' = [up EXCEPT ![c] = FALSE]
    /\ tick' = [tick EXCEPT ![c] = 0]
    /\ reading' = [reading EXCEPT ![c] = FALSE]
    /\ inbox' = [inbox EXCEPT ![c] = <<>>]
    /\ lease' = [lease EXCEPT ![c] = None]
    /\ bcint' = [bcint EXCEPT ![c] = 0]
    /\ UNCHANGED <<server, toServer, lives, lost, fault>>

-----------------------------------------------------------------------------
(* The server. *)

(* Packets to a running client's broadcast port; the others reach nobody.  *)
deliver(c, packets) == IF up[c] THEN inbox[c] \o packets ELSE inbox[c]
listed(a) == \E i \in DOMAIN hl : hl[i].addr = a

(* serverRealInit: the broadcast of initializeBroadcast and the alarm. *)
serverRealInit ==
    /\ ~sup /\ slives < MaxServerLives
    /\ sup' = TRUE
    /\ slives' = slives + 1
    /\ alarm' = WAKEUP
    /\ inbox' = [c \in Clients |-> deliver(c, <<"BC_SERVER">>)]
    /\ UNCHANGED <<hl, req, at, toServer, up, lives, tick, reading, lease,
                   bcint, lost, fault>>

(* serverProcessBC passes serverContainsIDClass the string that BEGINS at  *)
(* the delimiter it has just replaced, the empty one: any class is found   *)
(* in any identifier that has one.                                         *)
containsIDClass == NoClasses > 0

(* PROT_BC_CLIENT: serverProcessBC, and in serverAddClient the search of   *)
(* serverFindLeaseEntry and serverAddLeaseEntry, which ends with a pointer *)
(* to the client's entry or to the last one.                               *)
serverProcessBC ==
    /\ sup /\ req = None
    /\ \E m \in toServer :
        /\ m.type = "BC_CLIENT"
        /\ toServer' = toServer \ {m}
        /\ IF ~containsIDClass THEN UNCHANGED <<req, at>> ELSE
           /\ req' = m.from
           /\ at' = IF listed(m.from) THEN m.from
                    ELSE IF hl = <<>> THEN None ELSE Last(hl).addr
    /\ UNCHANGED <<sup, slives, hl, alarm, clientVars, lost, fault>>

(* Mutant: an entry is added without the search for an existing one. *)
serverAddClientAgain ==
    /\ sup /\ req # None
    /\ IF at # None /\ ~listed(at)
       THEN fault' = "stale" /\ UNCHANGED hl
       ELSE /\ hl' = Append(hl, [addr |-> req, left |-> Expiry])
            /\ UNCHANGED fault
    /\ inbox' = [c \in Clients |->
            IF req = <<c, 0>>
            THEN deliver(c, <<"BC_SERVER", "SERVER_STILL_ALIVE">>) ELSE inbox[c]]
    /\ req' = None /\ at' = None
    /\ UNCHANGED <<sup, slives, alarm, toServer, up, lives, tick, reading,
                   lease, bcint, lost>>

(* The rest of serverAddClient: the entry is linked and given its expiry,  *)
(* and serverRespondToClient and serverNotifyClientLease answer.           *)
serverAddClient ==
    /\ sup /\ req # None
    /\ IF at # None /\ ~listed(at)
       THEN fault' = "stale" /\ UNCHANGED hl
       ELSE /\ hl' = IF at = req
                     THEN [i \in DOMAIN hl |-> IF hl[i].addr = req
                              THEN [hl[i] EXCEPT !.left = Expiry] ELSE hl[i]]
                     ELSE Append(hl, [addr |-> req, left |-> Expiry])
            /\ UNCHANGED fault
    /\ inbox' = [c \in Clients |->
            IF req = <<c, 0>>
            THEN deliver(c, <<"BC_SERVER", "SERVER_STILL_ALIVE">>) ELSE inbox[c]]
    /\ req' = None /\ at' = None
    /\ UNCHANGED <<sup, slives, alarm, toServer, up, lives, tick, reading,
                   lease, bcint, lost>>

(* PROT_CLIENT_STILL_ALIVE: the FIRST entry with the sender's host address *)
(* is renewed, whatever its port.                                          *)
serverUpdateClient ==
    /\ sup /\ req = None
    /\ \E m \in toServer :
        /\ m.type = "CLIENT_STILL_ALIVE"
        /\ toServer' = toServer \ {m}
        /\ LET ofHost(i) == host(hl[i].addr[1]) = host(m.from[1])
           IN  hl' = [i \in DOMAIN hl |->
                        IF ofHost(i) /\ \A j \in 1 .. i - 1 : ~ofHost(j)
                        THEN [hl[i] EXCEPT !.left = Expiry] ELSE hl[i]]
    /\ UNCHANGED <<sup, slives, alarm, req, at, clientVars, lost, fault>>

(* serverPurgeHostList unlinks an expired entry through q, the one visited *)
(* before.  q was freed if it had expired too and was not at the head, so  *)
(* the second of two such entries is freed but stays linked.               *)
expired(i) == hl[i].left <= 0
dangling ==
    \E i, j \in DOMAIN hl :
        j < i /\ i + 1 \in DOMAIN hl /\ ~expired(j) /\ expired(i) /\ expired(i + 1)

(* The walk along a list l: the entries that stay of the first i.          *)
purge(l) ==
    LET kept[i \in 0 .. Len(l)] ==
            IF i = 0 THEN <<>>
            ELSE IF l[i].left > 0 THEN Append(kept[i - 1], l[i]) ELSE kept[i - 1]
    IN  kept
purged == purge(hl)[Len(hl)]

(* serverHandleAlarm: the purge, "still alive" to every client left, and   *)
(* the next alarm.                                                         *)
serverHandleAlarm ==
    /\ sup /\ alarm <= 0
    /\ fault' = IF dangling THEN "dangling" ELSE fault
    /\ hl' = purged
    /\ inbox' = [c \in Clients |->
            IF \E i \in DOMAIN purged : purged[i].addr = <<c, 0>>
            THEN deliver(c, <<"SERVER_STILL_ALIVE">>) ELSE inbox[c]]
    /\ alarm' = WAKEUP
    /\ UNCHANGED <<sup, slives, req, at, toServer, up, lives, tick, reading,
                   lease, bcint, lost>>

(* serverRealShutdown, or the end of the process. *)
serverRealShutdown ==
    /\ sup
    /\ sup' = FALSE
    /\ hl' = <<>> /\ alarm' = 0 /\ req' = None /\ at' = None
    /\ toServer' = {}
    /\ UNCHANGED <<slives, clientVars, lost, fault>>

-----------------------------------------------------------------------------
(* The network and the clock. *)

loseToServer(m) ==
    /\ lost < MaxLost
    /\ lost' = lost + 1
    /\ toServer' = toServer \ {m}
    /\ UNCHANGED <<server, clientVars, fault>>

loseToClient(c) ==
    /\ lost < MaxLost /\ inbox[c] # <<>>
    /\ lost' = lost + 1
    /\ inbox' = [inbox EXCEPT ![c] = Front(@)]
    /\ UNCHANGED <<server, toServer, up, lives, tick, reading, lease, bcint,
                   fault>>

(* A unit of time passes: no packet is under way, nobody is in the middle  *)
(* of something, and no alarm is overdue by more than Slack.               *)
less(t) == IF t > 0 THEN t - 1 ELSE 0
elapse ==
    /\ toServer = {} /\ req = None
    /\ \A c \in Clients : ~reading[c] /\ (up[c] => tick[c] > -Slack)
    /\ sup => alarm > -Slack
    /\ hl' = [i \in DOMAIN hl |-> [hl[i] EXCEPT !.left = less(@)]]
    /\ alarm' = IF sup THEN alarm - 1 ELSE alarm
    /\ tick' = [c \in Clients |-> IF up[c] THEN tick[c] - 1 ELSE tick[c]]
    /\ lease' = [c \in Clients |-> IF lease[c] = None THEN None ELSE less(lease[c])]
    /\ UNCHANGED <<sup, slives, req, at, toServer, up, lives, reading, inbox,
                   bcint, lost, fault>>

clientStep(c) ==
    handlealarm(c) \/ addnewserver(c) \/ updateserver(c) \/ purgeserverlist(c)

serverStep ==
    serverProcessBC \/ serverAddClient \/ serverUpdateClient \/ serverHandleAlarm

alive == fault = "none"

Progress == alive /\ (serverStep \/ elapse \/ \E c \in Clients : clientStep(c))

Environment ==
    /\ alive
    /\ \/ serverRealInit \/ serverRealShutdown
       \/ \E m \in toServer : loseToServer(m)
       \/ \E c \in Clients : initialize(c) \/ clientStops(c) \/ loseToClient(c)

Next == Progress \/ Environment

Spec == Init /\ [][Next]_vars

(* Time passes, and within its unit every process that runs gets to do     *)
(* what it has to do; nobody has to start, stop, or lose a packet.         *)
FairSpec == Spec /\ WF_vars(Progress)

-----------------------------------------------------------------------------
(* Properties. *)

(* The lists, timers and packets have the declared shapes; the timers stay *)
(* inside their periods.                                                   *)
TypeOK ==
    /\ sup \in BOOLEAN /\ slives \in 0 .. MaxServerLives
    /\ hl \in Seq([addr: Addresses, left: 0 .. Expiry])
    /\ alarm \in -Slack .. WAKEUP
    /\ req \in Addresses \union {None} /\ at \in Addresses \union {None}
    /\ toServer \subseteq Packets
    /\ up \in [Clients -> BOOLEAN] /\ lives \in [Clients -> 0 .. MaxLives]
    /\ tick \in [Clients -> -Slack .. INTERVAL]
    /\ reading \in [Clients -> BOOLEAN]
    /\ inbox \in [Clients -> Seq({"BC_SERVER", "SERVER_STILL_ALIVE"})]
    /\ lease \in [Clients -> (0 .. LEASE) \union {None}]
    /\ bcint \in [Clients -> 0 .. BC_INTERVAL]
    /\ lost \in 0 .. MaxLost /\ fault \in {"none", "stale", "dangling"}

(* The lease list never has two entries for one address, although the      *)
(* alarm may purge it between serverAddClient's search and its insertion.  *)
OneLeasePerAddress ==
    \A i, j \in DOMAIN hl : hl[i].addr = hl[j].addr => i = j

(* As long as no packet is lost, a server and a client that know each      *)
(* other and both stay up keep each other, provided the entry of the       *)
(* client's broadcast port is the first of its host: every renewal comes   *)
(* in time, although the client looks at its socket only every INTERVAL    *)
(* and the lease is hardly longer than the time between its renewals.      *)
Mutual(c) == sup /\ up[c] /\ lease[c] # None /\ listed(<<c, 0>>)
FirstOfHost(c) ==
    \A i, j \in DOMAIN hl :
        hl[i].addr = <<c, 0>> /\ j < i => host(hl[j].addr[1]) # host(c)
Kept(c) == (sup' /\ up'[c] /\ lost' = 0 /\ alive') => Mutual(c)'
LeasesRenewed ==
    [][\A c \in Clients : Mutual(c) /\ FirstOfHost(c) => Kept(c)]_vars

(* Who is gone is forgotten: the server's list loses a client that stays   *)
(* down, and a client's list a server that stays down.                     *)
GoneIsForgotten ==
    \A c \in Clients :
        /\ (sup /\ ~up[c]) ~>
              (~sup \/ up[c] \/ ~alive \/ \A n \in 0 .. MaxLives : ~listed(<<c, n>>))
        /\ (up[c] /\ ~sup) ~> (~up[c] \/ sup \/ ~alive \/ lease[c] = None)

(* A server and a client that both run in the end find each other in the   *)
(* end, whatever was restarted or lost before.                             *)
Rediscovery ==
    \A c \in Clients :
        <>[](sup /\ up[c] /\ alive) => <>[](Mutual(c) \/ ~alive)

-----------------------------------------------------------------------------
(* What the comments and the manual say of this code, and it does not do.  *)

(* peep-server.tex: "If the server doesn't hear from the client after the  *)
(* lease time has elapsed, it removes the entry"; so it does not remove    *)
(* the entry of a client that runs and renews its lease.                   *)
HeardIsKept == [][\A c \in Clients : Mutual(c) => Kept(c)]_vars
=============================================================================
