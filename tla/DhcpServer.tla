------------------------------ MODULE DhcpServer ------------------------------
(***************************************************************************)
(* One DhcpServer: the thread that runs DhcpServer::run, answering one     *)
(* datagram after another out of the address table, and its owner, the one *)
(* thread of the program that calls Start and Stop.                        *)
(***************************************************************************)
EXTENDS AddressPool, ServerThread

CONSTANTS
  Identifiers,      \* the client identifiers that are not empty
  NoOption,         \* an option the datagram lacks, or of the wrong size
  Datagrams,        \* what can arrive at the server's port
  LocalAllocFails,  \* whether LocalAlloc may run out of memory
  SocketFailures    \* the socket calls that may fail

\* A datagram, by what run reads of it.  type is the option 53, "NONE" when
\* ParseReceiveData, GetOptions or GetDHCPMessageType refuses the datagram.
\* ownHostName: the name in option 12 compares equal to the server's.
\* broadcast: the BROADCAST_FLAG.  Addresses are DWORDs in network order.
DatagramType ==
  [type : {"NONE", "DISCOVER", "OFFER", "REQUEST", "DECLINE", "ACK", "NAK",
           "RELEASE", "INFORM"},
   ownHostName : BOOLEAN,
   chaddr : Identifiers,
   clientIdentifier : Identifiers \cup {EmptyId, NoOption},
   requestedIp : Dword \cup {NoOption},
   serverIdentifier : Dword \cup {NoOption},
   ciaddr : Dword, yiaddr : Dword, giaddr : Dword,
   broadcast : BOOLEAN]

ASSUME DhcpServerAssumption ==
  /\ {NullId, EmptyId, NoOption} \cap Identifiers = {}
  /\ NoOption \notin {NullId, EmptyId}
  /\ NoOption \notin Dword
  /\ \A d \in Datagrams : d \in DatagramType
  /\ LocalAllocFails \in BOOLEAN
  /\ SocketFailures \subseteq SocketCalls

VARIABLES
  life,                  \* starting_, thread_ and dhcp_socket_
  owner,                 \* the owner: "idle", or joining in Stop, called by
                         \* Start ("restarting") or not ("stopping")
  addresses_in_use_,
  last_offer_address_,
  reply                  \* the reply the last step sent

vars == <<life, owner, addresses_in_use_, last_offer_address_, reply>>
table == <<addresses_in_use_, last_offer_address_>>

-----------------------------------------------------------------------------
\* One year by the comment on the line: int arithmetic, wrapped to 32 bits.
\* 60*60*24*12*24 = 4096 * 6075, so the low 12 bits of the product are zero.
LeaseTime == 4096 * ((6075 * 365) % 1048576)

\* A reply, by its message type, the client it is for (it carries the chaddr
\* and xid of the request), its addresses, its lease time and where it goes.
Answer(type, client, ciaddr, yiaddr, leaseTime, dest) ==
  [type |-> type, client |-> client, ciaddr |-> ciaddr, yiaddr |-> yiaddr,
   leaseTime |-> leaseTime, dest |-> dest]

NoReply == Answer("NONE", NullId, 0, 0, 0, 0)

Init ==
  /\ life = NewServer
  /\ owner = "idle"
  /\ addresses_in_use_ = <<>>
  /\ last_offer_address_ = max_addr_value
  /\ reply = NoReply

-----------------------------------------------------------------------------
(***************************************************************************)
(* The owner.                                                              *)
(***************************************************************************)

\* InitServer, and the rest of Start when it succeeds.
InitServer ==
  /\ owner' = "idle"
  /\ \/ /\ CanBind(life)
        /\ life' = Started(life)
        /\ addresses_in_use_' = Append(addresses_in_use_, ServerEntry)
     \/ /\ life' \in FailedInits(life, SocketFailures)
        /\ UNCHANGED addresses_in_use_
  /\ reply' = NoReply
  /\ UNCHANGED last_offer_address_

Start ==
  /\ owner = "idle" /\ ~life.starting_
  /\ InitServer

\* Start on a server that is running stops it first.
StartRunning ==
  /\ owner = "idle" /\ life.starting_
  /\ owner' = "restarting"
  /\ life' = StopRequested(life)
  /\ reply' = NoReply
  /\ UNCHANGED table

Stop ==
  /\ owner = "idle" /\ life.thread_ # "null"
  /\ owner' = "stopping"
  /\ life' = StopRequested(life)
  /\ reply' = NoReply
  /\ UNCHANGED table

StopJoin ==
  /\ owner = "stopping" /\ Joined(life)
  /\ owner' = "idle"
  /\ reply' = NoReply
  /\ UNCHANGED <<life, table>>

RestartJoin ==
  /\ owner = "restarting" /\ Joined(life)
  /\ InitServer

-----------------------------------------------------------------------------
(***************************************************************************)
(* The thread.                                                             *)
(***************************************************************************)

CheckStarting ==
  /\ life.thread_ = "loop"
  /\ life' = LoopChecked(life)
  /\ reply' = NoReply
  /\ UNCHANGED <<owner, table>>

\* receiveBytes returns a negative count.
ReceiveError ==
  /\ life.thread_ = "receiving" /\ "receiveBytes" \in SocketFailures
  /\ life' = BackToLoop(life)
  /\ reply' = NoReply
  /\ UNCHANGED <<owner, table>>

ReceiveThrows ==
  /\ life.thread_ = "receiving" /\ "receiveBytes" \in SocketFailures
  /\ life' = ThreadDies(life)
  /\ reply' = NoReply
  /\ UNCHANGED <<owner, table>>

\* The datagrams run passes over before it looks for the client.
IsPassedOver(d) == d.type \notin {"DISCOVER", "REQUEST"} \/ d.ownHostName

\* The datagram d is received, and it is of the given type.
Receives(d, type) ==
  /\ life.thread_ = "receiving"
  /\ ~IsPassedOver(d) /\ d.type = type
  /\ UNCHANGED owner

SendNothing ==
  /\ life' = BackToLoop(life)
  /\ reply' = NoReply

\* The address SendDhcpMessage sends to.
Destination(d, type) ==
  IF d.giaddr # 0 THEN d.giaddr
  ELSE IF type # "NAK" /\ d.ciaddr # 0 THEN d.ciaddr
  ELSE IF type # "NAK" /\ ~d.broadcast /\ d.yiaddr # 0 THEN d.yiaddr
  ELSE INADDR_BROADCAST

SendDhcpMessage(answer) ==
  \/ /\ life' = BackToLoop(life)
     /\ reply' = answer
  \/ /\ "sendTo" \in SocketFailures
     /\ life' = ThreadDies(life)
     /\ reply' = NoReply

PassOver(d) ==
  /\ life.thread_ = "receiving" /\ IsPassedOver(d)
  /\ SendNothing
  /\ UNCHANGED <<owner, table>>

-----------------------------------------------------------------------------
\* A slip: option 61 is taken whether or not there is one.
GetIdentifierOption(d) == d.clientIdentifier

\* Option 61 if there is one, even of no bytes, else the hardware address.
GetIdentifier(d) ==
  IF d.clientIdentifier = NoOption THEN d.chaddr ELSE d.clientIdentifier

HasClientBefore(d) == CheckIsClientExist(addresses_in_use_, GetIdentifier(d))
PreviousOffer(d) == PreviousOfferAddr(addresses_in_use_, GetIdentifier(d))

Offer(d, addr) ==
  Answer("OFFER", GetIdentifier(d), 0, addr, LeaseTime, Destination(d, "OFFER"))

\* DISCOVER from a client of the table: PacketOldClientOffer.
OfferToOldClient(d) ==
  /\ Receives(d, "DISCOVER")
  /\ HasClientBefore(d)
  /\ IF DWIPtoValue(PreviousOffer(d)) # 0
     THEN SendDhcpMessage(Offer(d, DWValuetoIP(DWIPtoValue(PreviousOffer(d)))))
     ELSE SendNothing
  /\ UNCHANGED table

AssignedAddress == AssignAddress(addresses_in_use_, last_offer_address_)

\* DISCOVER from another client: PacketNewClientOffer has three outcomes.
OfferToNewClient(d) ==
  /\ Receives(d, "DISCOVER")
  /\ ~HasClientBefore(d)
  /\ AssignedAddress # 0
  /\ last_offer_address_' = AssignedAddress
  /\ addresses_in_use_' = Append(addresses_in_use_, Entry(AssignedAddress, GetIdentifier(d)))
  /\ SendDhcpMessage(Offer(d, DWValuetoIP(AssignedAddress)))

\* A slip: the failure undoes the last entry, which is another client's.
NoMemoryPopsEntry(d) ==
  /\ Receives(d, "DISCOVER")
  /\ ~HasClientBefore(d)
  /\ AssignedAddress # 0 /\ LocalAllocFails
  /\ last_offer_address_' = AssignedAddress
  /\ SendNothing
  /\ addresses_in_use_' = Front(addresses_in_use_)

\* LocalAlloc fails when AssignAddress has moved last_offer_address_ already.
NoMemoryForNewClient(d) ==
  /\ Receives(d, "DISCOVER")
  /\ ~HasClientBefore(d)
  /\ AssignedAddress # 0 /\ LocalAllocFails
  /\ last_offer_address_' = AssignedAddress
  /\ SendNothing
  /\ UNCHANGED addresses_in_use_

NoAddressForNewClient(d) ==
  /\ Receives(d, "DISCOVER")
  /\ ~HasClientBefore(d)
  /\ AssignedAddress = 0
  /\ SendNothing
  /\ UNCHANGED table

-----------------------------------------------------------------------------
\* PacketRequestAck: what a REQUEST asks, and its three outcomes.
RequestIpAddress(d) ==
  IF d.requestedIp = NoOption THEN INADDR_BROADCAST ELSE d.requestedIp

AnswersOffer(d) == d.serverIdentifier = ServerAddress

VerifiesOrExtends(d) ==
  ~AnswersOffer(d) /\ (RequestIpAddress(d) # INADDR_BROADCAST \/ d.ciaddr # 0)

\* A slip: the ciaddr of a client that extends its lease is not looked at.
IsAckedByOption(d) ==
  /\ HasClientBefore(d)
  /\ \/ AnswersOffer(d)
     \/ VerifiesOrExtends(d) /\ PreviousOffer(d) = RequestIpAddress(d)

IsAcked(d) ==
  /\ HasClientBefore(d)
  /\ \/ AnswersOffer(d)
     \/ VerifiesOrExtends(d) /\ PreviousOffer(d) \in {RequestIpAddress(d), d.ciaddr}

\* A slip: a client the table does not have is left without an answer.
IsNakedIfKnown(d) ==
  HasClientBefore(d) /\ (AnswersOffer(d) \/ VerifiesOrExtends(d)) /\ ~IsAcked(d)

IsNaked(d) == (AnswersOffer(d) \/ VerifiesOrExtends(d)) /\ ~IsAcked(d)

\* A slip: the ACK names the address asked for.
AckRequestedAddress(d) ==
  /\ Receives(d, "REQUEST")
  /\ IsAcked(d)
  /\ SendDhcpMessage(Answer("ACK", GetIdentifier(d), RequestIpAddress(d), RequestIpAddress(d),
                            LeaseTime, Destination(d, "ACK")))
  /\ UNCHANGED table

\* A slip: the ACK is sent to the address it gives.
AckToLease(d) ==
  /\ Receives(d, "REQUEST")
  /\ IsAcked(d)
  /\ SendDhcpMessage(Answer("ACK", GetIdentifier(d), PreviousOffer(d), PreviousOffer(d),
                            LeaseTime, PreviousOffer(d)))
  /\ UNCHANGED table

AckRequest(d) ==
  /\ Receives(d, "REQUEST")
  /\ IsAcked(d)
  /\ SendDhcpMessage(Answer("ACK", GetIdentifier(d), PreviousOffer(d), PreviousOffer(d),
                            LeaseTime, Destination(d, "ACK")))
  /\ UNCHANGED table

NakRequest(d) ==
  /\ Receives(d, "REQUEST")
  /\ IsNaked(d)
  /\ SendDhcpMessage(Answer("NAK", GetIdentifier(d), 0, 0, 0, Destination(d, "NAK")))
  /\ UNCHANGED table

NothingRequested(d) ==
  /\ Receives(d, "REQUEST")
  /\ ~IsAcked(d) /\ ~IsNaked(d)
  /\ SendNothing
  /\ UNCHANGED table

-----------------------------------------------------------------------------
Join == StopJoin \/ RestartJoin

OwnerStep == Start \/ StartRunning \/ Stop \/ Join

Handle(d) ==
  \/ PassOver(d)
  \/ OfferToOldClient(d)
  \/ OfferToNewClient(d) \/ NoMemoryForNewClient(d) \/ NoAddressForNewClient(d)
  \/ AckRequest(d) \/ NakRequest(d) \/ NothingRequested(d)

Receive == \E d \in Datagrams : Handle(d)

Next == OwnerStep \/ CheckStarting \/ ReceiveError \/ ReceiveThrows \/ Receive

\* The thread runs on while it is not waiting for a datagram, and a join whose
\* thread has ended returns.  No call of the owner need ever be made, and no
\* datagram need ever arrive.
Fairness == WF_vars(CheckStarting) /\ WF_vars(Join)

Spec == Init /\ [][Next]_vars /\ Fairness

-----------------------------------------------------------------------------
(***************************************************************************)
(* Properties.                                                             *)
(***************************************************************************)
EntryType == [dwAddrValue : Dword, pbClientIdentifier : Identifiers \cup {NullId, EmptyId}]

ReplyType ==
  [type : {"NONE", "OFFER", "ACK", "NAK"}, client : Identifiers \cup {NullId, EmptyId},
   ciaddr : Dword, yiaddr : Dword, leaseTime : {0, LeaseTime}, dest : Dword]

\* The type invariant.
TypeOK ==
  /\ life \in Life
  /\ owner \in {"idle", "restarting", "stopping"}
  /\ addresses_in_use_ \in Seq(EntryType)
  /\ last_offer_address_ \in Dword
  /\ reply \in ReplyType

AddressesInUse == {e.dwAddrValue : e \in ToSet(addresses_in_use_)}

\* Client id holds the address of value v: an entry says so.
Holds(id, v) ==
  \E e \in ToSet(addresses_in_use_) : e = Entry(v, id) /\ HasIdentifier(e)

\* No two entries of the table have the same address, the server's own entry
\* included: AssignAddress finds every address in use, and Start appends the
\* server's entry no second time.
NoAddressShared ==
  \A i, j \in 1 .. Len(addresses_in_use_) :
    addresses_in_use_[i].dwAddrValue = addresses_in_use_[j].dwAddrValue => i = j

\* No client has two entries: CheckIsClientExist finds the one it has.
OneLeasePerClient ==
  \A i, j \in 1 .. Len(addresses_in_use_) :
    /\ HasIdentifier(addresses_in_use_[i])
    /\ addresses_in_use_[i].pbClientIdentifier = addresses_in_use_[j].pbClientIdentifier
    => i = j

\* The table starts with the server's own entry and has no other without an
\* identifier pointer; every other address is of the pool and not the
\* server's, wherever the server's is.
ClientsHavePoolAddresses ==
  \A i \in 1 .. Len(addresses_in_use_) :
    IF i = 1 THEN addresses_in_use_[i] = ServerEntry
    ELSE /\ addresses_in_use_[i].pbClientIdentifier # NullId
         /\ addresses_in_use_[i].dwAddrValue \in Pool \ {DWIPtoValue(ServerAddress)}

\* An OFFER or an ACK names the address the table holds for that client, in
\* network order; one to a client without an identifier names an address
\* given to nobody with one.
RepliesTellTheLease ==
  reply.type \in {"OFFER", "ACK"} =>
    IF reply.client = EmptyId
    THEN Entry(DWIPtoValue(reply.yiaddr), EmptyId) \in ToSet(addresses_in_use_)
    ELSE Holds(reply.client, DWIPtoValue(reply.yiaddr))

\* Leases last: no step removes, reorders or changes an entry, whatever is
\* received, and across Stop and Start.
LeasesAreStable == [][IsPrefix(addresses_in_use_, addresses_in_use_')]_vars

\* A client is refused only what it does not hold: a REQUEST that would be
\* answered with a NAK now comes from a client that does not hold the address
\* it asks for, by option 50 or by ciaddr.
NakOnlyForOthersAddress ==
  \A d \in Datagrams :
    d.type = "REQUEST" /\ IsNaked(d) =>
      \A a \in {RequestIpAddress(d), d.ciaddr} : ~Holds(GetIdentifier(d), DWIPtoValue(a))

\* When AssignAddress finds nothing, at most one address of the pool is free,
\* and it is the one last_offer_address_ names: free because LocalAlloc failed
\* after it was assigned, and never to be offered again.
RefusalLeavesAtMostLastOffer ==
  AssignedAddress = 0 => Pool \ AddressesInUse \subseteq {last_offer_address_}

\* Without such a failure, in a pool of three addresses or more, nothing is
\* free when a client is refused: the probe the loop does not make is one of
\* an address in use.
RefusalMeansExhausted ==
  life.dhcp_socket_ = "bound" /\ AssignedAddress = 0 => Pool \subseteq AddressesInUse

\* The owner never sees a server at rest whose thread goes on: when no call of
\* the owner is in progress and IsRunning is false, run has returned, so the
\* table the owner may now touch is nobody else's.
StoppedMeansQuiet ==
  owner = "idle" /\ ~IsRunning(life) => ~ThreadAlive(life)

\* As long as receiveBytes, which has no timeout, always comes to an end, by a
\* datagram or by an error, every call of the owner returns: it is the one
\* thing a join waits for.
TrafficEndsJoins ==
  []<>(life.thread_ # "receiving") => (owner # "idle" ~> owner = "idle")

-----------------------------------------------------------------------------
\* The server implements AddressBinding: a client is bound by its entry, and
\* the addresses of the entries without one are withheld.
Service ==
  IF life = NewServer THEN "unopened"
  ELSE IF ThreadAlive(life) THEN "open" ELSE "closed"

BoundClients == {id \in Identifiers : CheckIsClientExist(addresses_in_use_, id)}

BoundAddress(id) == addresses_in_use_[ClientPosition(addresses_in_use_, id)].dwAddrValue

Bound == [id \in BoundClients |-> BoundAddress(id)]

Withheld == {e.dwAddrValue : e \in {f \in ToSet(addresses_in_use_) : ~HasIdentifier(f)}}

Told == IF reply.type = "NONE" THEN NoReply
        ELSE [kind |-> reply.type, client |-> reply.client,
              address |-> DWIPtoValue(reply.yiaddr)]

Binding == INSTANCE AddressBinding WITH
  Clients <- Identifiers,
  Unnamed <- EmptyId,
  Addresses <- Pool,
  ServerAddress <- DWIPtoValue(ServerAddress),
  NoAnswer <- NoReply,
  service <- Service,
  binding <- Bound,
  withheld <- Withheld,
  answer <- Told

\* Every behaviour of the server, its threads and sockets abstracted, is one
\* of AddressBinding.
ImplementsBinding == Binding!Spec
=============================================================================
