----------------------------- MODULE DhcpNetwork -----------------------------
(***************************************************************************)
(* One DhcpServer, its clients and the network between them, while the     *)
(* process that holds the server ends and starts again.                    *)
(*                                                                         *)
(* The clients are those the comments of PacketRequestAck speak of: they   *)
(* select an offer (SELECTING, REQUESTING), ask for the address they had   *)
(* when they boot, in option 50 alone (REBOOTING) or, as "some clients",   *)
(* in ciaddr too (REBOOTING-CIADDR), and extend a lease (RENEWING).  A     *)
(* message that was sent may be delivered at any later time, any number of *)
(* times or never, so sending it again is nothing else.                    *)
(***************************************************************************)
EXTENDS DhcpServer

CONSTANTS
  Unsteady,     \* the clients that may boot again, be reset or give up
  MaxRequests,  \* bound: the messages of each client underway to the server,
  MaxReplies,   \*   and to a client
  MaxRun        \* bound: how often the process may be started again

ASSUME DhcpNetworkAssumption ==
  /\ Unsteady \subseteq Identifiers
  /\ MaxRequests \in [Identifiers -> Nat \ {0}]
  /\ MaxReplies \in Nat \ {0}
  /\ MaxRun \in Nat

VARIABLES
  clients,   \* what each client knows: [state, xid, address, run]
  requests,  \* the messages underway from each client
  replies,   \* the messages underway to each client
  run        \* how often the process has been started again

server == <<life, owner, addresses_in_use_, last_offer_address_, reply>>
networkVars == <<server, clients, requests, replies, run>>

Xids(c) == 1 .. (MaxRequests[c] + MaxReplies + 1)

-----------------------------------------------------------------------------
(***************************************************************************)
(* The clients.  run, of a client that uses an address, is the run of the  *)
(* process the lease is of: a history variable nobody reads.               *)
(***************************************************************************)
Client(state, xid, address, leaseRun) ==
  [state |-> state, xid |-> xid, address |-> address, run |-> leaseRun]

NewClient == Client("INIT", 0, 0, 0)

Rebooting == {"REBOOTING", "REBOOTING-CIADDR"}

\* The client has configured its address.
Uses(c) == clients[c].state \in {"BOUND", "RENEWING"}

\* What a client asks, by its state.  It is known by its hardware address.
Datagram(c, k) ==
  [type |-> IF k.state = "SELECTING" THEN "DISCOVER" ELSE "REQUEST",
   ownHostName |-> FALSE,
   chaddr |-> c,
   clientIdentifier |-> NoOption,
   requestedIp |-> IF k.state \in {"REQUESTING"} \cup Rebooting THEN k.address ELSE NoOption,
   serverIdentifier |-> IF k.state = "REQUESTING" THEN ServerAddress ELSE NoOption,
   ciaddr |-> IF k.state \in {"RENEWING", "REBOOTING-CIADDR"} THEN k.address ELSE 0,
   yiaddr |-> 0, giaddr |-> 0, broadcast |-> FALSE]

\* What a client sends is among the datagrams the server is modelled with.
ASSUME ClientsAreHeard ==
  \A c \in Identifiers, a \in {DWValuetoIP(v) : v \in Pool},
     s \in {"SELECTING", "REQUESTING", "RENEWING"} \cup Rebooting :
    Datagram(c, Client(s, 0, a, 0)) \in Datagrams

Message(c, k) == [xid |-> k.xid, datagram |-> Datagram(c, k)]

\* What is underway once m is sent: of the earlier messages some are lost when
\* there would be too many.
Underway(earlier, m, bound) ==
  {kept \cup {m} : kept \in {s \in SUBSET earlier :
      Cardinality(s \cup {m}) = Min({bound, Cardinality(earlier \cup {m})})}}

FreshXid(c) == Min(Xids(c) \ {m.xid : m \in requests[c] \cup replies[c]})

Ask(c, k) ==
  /\ clients' = [clients EXCEPT ![c] = k]
  /\ \E ms \in Underway(requests[c], Message(c, k), MaxRequests[c]) :
       requests' = [requests EXCEPT ![c] = ms]
  /\ UNCHANGED <<server, replies, run>>

Discover(c) ==
  /\ clients[c].state = "INIT"
  /\ Ask(c, Client("SELECTING", FreshXid(c), 0, 0))

Renew(c) ==
  /\ clients[c].state = "BOUND"
  /\ Ask(c, Client("RENEWING", FreshXid(c), clients[c].address, clients[c].run))

\* The client is off for a while, and remembers its address.
Reboot(c) ==
  /\ c \in Unsteady /\ Uses(c)
  /\ \E state \in Rebooting :
       Ask(c, Client(state, FreshXid(c), clients[c].address, 0))

\* The client begins anew, without an address.
BeginAnew(c) ==
  /\ clients' = [clients EXCEPT ![c] = NewClient]
  /\ UNCHANGED <<server, requests, replies, run>>

\* A client that asked with a ciaddr it does not use gives up in the end.
GiveUp(c) == clients[c].state = "REBOOTING-CIADDR" /\ BeginAnew(c)

\* Any other gives up or is reset.
Forget(c) ==
  /\ c \in Unsteady /\ clients[c].state \notin {"INIT", "REBOOTING-CIADDR"}
  /\ BeginAnew(c)

\* A reply gets to a client when it is broadcast, or sent to its address.
Reaches(m, c) ==
  \/ m.answer.dest = INADDR_BROADCAST
  \/ Uses(c) /\ m.answer.dest = clients[c].address

\* The client waits for a reply like m, by its state and its transaction.
AwaitsOffer(c, m) ==
  clients[c].state = "SELECTING" /\ m.xid = clients[c].xid /\ m.answer.type = "OFFER"

AwaitsDecision(c, m) ==
  /\ clients[c].state \in {"REQUESTING", "RENEWING"} \cup Rebooting
  /\ m.xid = clients[c].xid /\ m.answer.type \in {"ACK", "NAK"}

TakeOffer(c) ==
  \E m \in replies[c] :
    /\ AwaitsOffer(c, m) /\ Reaches(m, c)
    /\ Ask(c, Client("REQUESTING", m.xid, m.answer.yiaddr, 0))

TakeDecision(c) ==
  \E m \in replies[c] :
    /\ AwaitsDecision(c, m) /\ Reaches(m, c)
    /\ clients' = [clients EXCEPT ![c] =
                     IF m.answer.type = "ACK"
                     THEN Client("BOUND", 0, m.answer.yiaddr, m.run) ELSE NewClient]
    /\ UNCHANGED <<server, requests, replies, run>>

TakeReply(c) == TakeOffer(c) \/ TakeDecision(c)

-----------------------------------------------------------------------------
(***************************************************************************)
(* The server.                                                             *)
(***************************************************************************)

\* A reply has the xid and the chaddr of its request.
Reply(m) == [xid |-> m.xid, run |-> run, answer |-> reply']

\* One iteration of run, for the message m of client c.
Serve(c, m) ==
  /\ UNCHANGED <<clients, requests, run>>
  /\ Handle(m.datagram)
  /\ IF reply'.type = "NONE" THEN UNCHANGED replies
     ELSE \E ms \in Underway(replies[c], Reply(m), MaxReplies) :
            replies' = [replies EXCEPT ![c] = ms]

\* What the client asks now is served; what it asked before may be, too.
ServeCurrent(c) ==
  \E m \in requests[c] : m = Message(c, clients[c]) /\ Serve(c, m)

ServeAny(c) == \E m \in requests[c] : Serve(c, m)

StartServer == Start /\ UNCHANGED <<clients, requests, replies, run>>

CheckServer == CheckStarting /\ UNCHANGED <<clients, requests, replies, run>>

\* The process ends, wherever it is, and is started again: the table was in
\* memory only.
RestartProcess ==
  /\ run < MaxRun
  /\ run' = run + 1
  /\ life' = NewServer
  /\ owner' = "idle"
  /\ addresses_in_use_' = <<>>
  /\ last_offer_address_' = max_addr_value
  /\ reply' = NoReply
  /\ UNCHANGED <<clients, requests, replies>>

-----------------------------------------------------------------------------
NetworkInit ==
  /\ Init
  /\ clients = [c \in Identifiers |-> NewClient]
  /\ requests = [c \in Identifiers |-> {}]
  /\ replies = [c \in Identifiers |-> {}]
  /\ run = 0

ClientStep ==
  \E c \in Identifiers :
    Discover(c) \/ Renew(c) \/ Reboot(c) \/ Forget(c) \/ GiveUp(c) \/ TakeReply(c)

ServerStep == StartServer \/ CheckServer \/ \E c \in Identifiers : ServeAny(c)

NetworkNext == ClientStep \/ ServerStep \/ RestartProcess

\* The service starts its server, the thread runs on, a client without an
\* address asks for one, and the network delivers, now and then, what is sent
\* again and again.  Who gets no answer gives up in the end.  No client need
\* renew, and no process restart.
NetworkFairness ==
  /\ WF_networkVars(StartServer) /\ WF_networkVars(CheckServer)
  /\ \A c \in Identifiers :
       /\ WF_networkVars(Discover(c))
       /\ SF_networkVars(ServeCurrent(c))
       /\ SF_networkVars(TakeReply(c))
  /\ \A c \in Unsteady : WF_networkVars(GiveUp(c))

NetworkSpec == NetworkInit /\ [][NetworkNext]_networkVars /\ NetworkFairness

-----------------------------------------------------------------------------
(***************************************************************************)
(* Properties.                                                             *)
(***************************************************************************)

\* Two clients that use one address have it from different runs of the
\* process: nothing that is late, lost or repeated makes one run give an
\* address to two clients.
SharingNeedsRestart ==
  \A c, d \in Identifiers :
    Uses(c) /\ Uses(d) /\ c # d /\ clients[c].address = clients[d].address
      => clients[c].run # clients[d].run

\* A client that has its lease from the server as it runs now is in its table
\* with the address it uses.
LeasesAreOnRecord ==
  \A c \in Identifiers :
    Uses(c) /\ clients[c].run = run => Holds(c, DWIPtoValue(clients[c].address))

\* Whatever reply a client waits for gets to it where SendDhcpMessage sends it,
\* to a ciaddr only when the client uses that address, but for one: the ACK to a
\* client that reboots and set ciaddr.
RepliesReachTheirClient ==
  \A c \in Identifiers : \A m \in replies[c] :
    AwaitsOffer(c, m) \/ AwaitsDecision(c, m) =>
      \/ Reaches(m, c)
      \/ clients[c].state = "REBOOTING-CIADDR" /\ m.answer.type = "ACK"

\* "DHCPREQUEST generated during INIT-REBOOT state - Some clients set ciaddr in
\* this case, so deviate from the spec by allowing it" (PacketRequestAck): so
\* such a client gets the answer to its request.  The ACK does not get to it.
CiaddrInRebootIsAllowed ==
  \A c \in Identifiers : \A m \in replies[c] :
    clients[c].state = "REBOOTING-CIADDR" /\ AwaitsDecision(c, m) => Reaches(m, c)

\* A client that uses an address goes on with it until it reboots, forgets it
\* or is told NAK, which only happens to a lease of an earlier run: no ACK
\* changes the address, and no NAK ends a lease the server has on record.
LeasesEndByRestart ==
  [][\A c \in Identifiers :
       /\ Uses(c) /\ Uses(c)' => clients'[c].address = clients[c].address
       /\ Uses(c) /\ TakeReply(c) /\ ~Uses(c)' => clients[c].run < run]_networkVars

Apart ==
  \A c, d \in Identifiers :
    Uses(c) /\ Uses(d) /\ clients[c].address = clients[d].address => c = d

\* The clients that are left alone get an address each: no state of the
\* server, and nothing delivered late, keeps a client from one for ever.  (One
\* that rebooted with ciaddr gets it after giving up.)
ClientsAreServed ==
  \A c \in Identifiers :
    <>[][~Forget(c) /\ ~Reboot(c)]_networkVars => (~Uses(c) ~> Uses(c))

\* When clients renew their leases, no address stays with two of them: the
\* server refuses the leases of an earlier run.
SharingEnds == (\A c \in Identifiers : WF_networkVars(Renew(c))) => []<>Apart
=============================================================================
