-------------------------- MODULE DhcpNetwork_proofs --------------------------
(***************************************************************************)
(* The properties of DhcpServer, for every pool, every number of values of *)
(* an octet, every set of clients and of datagrams, with and without       *)
(* failures of memory and of sockets; and, resting on them, the safety     *)
(* properties of DhcpNetwork for any number of messages underway and of    *)
(* restarts.                                                               *)
(***************************************************************************)
EXTENDS DhcpNetwork, AddressPool_proofs, FiniteSetTheorems

-----------------------------------------------------------------------------
(***************************************************************************)
(* The server: theorems of Spec, for any datagrams.                        *)
(***************************************************************************)

(***************************************************************************)
(* The types the proofs rest on.  The last offered address never leaves    *)
(* the range, which TypeOK alone does not say.                             *)
(***************************************************************************)
TypeInv ==
  /\ life \in Life
  /\ owner \in {"idle", "restarting", "stopping"}
  /\ addresses_in_use_ \in Seq(EntryType)
  /\ last_offer_address_ \in Pool
  /\ reply \in ReplyType

(***************************************************************************)
(* The socket is bound before there is a thread, and the table has its     *)
(* first entry, the server's, as soon as there is a thread: no socket, no  *)
(* entry, so the one InitServer that succeeds finds the table empty.       *)
(***************************************************************************)
LifeInv ==
  /\ addresses_in_use_ # <<>> => life.dhcp_socket_ = "bound"
  /\ life.thread_ # "null" => addresses_in_use_ # <<>>
  /\ life.thread_ = "null" => ~life.starting_

TableInv == ClientsHavePoolAddresses /\ NoAddressShared /\ OneLeasePerClient

(***************************************************************************)
(* The inductive invariant.                                                *)
(***************************************************************************)
IInv == TypeInv /\ LifeInv /\ TableInv /\ RepliesTellTheLease /\ StoppedMeansQuiet

-----------------------------------------------------------------------------
(***************************************************************************)
(* What a datagram gives the handlers.                                     *)
(***************************************************************************)
LEMMA DatagramFacts ==
  ASSUME NEW d \in Datagrams
  PROVE  /\ GetIdentifier(d) \in Identifiers \cup {EmptyId}
         /\ \A t : Destination(d, t) \in Dword
<1>1. d \in DatagramType
  BY DhcpServerAssumption
<1>2. GetIdentifier(d) \in Identifiers \cup {EmptyId}
  BY <1>1 DEF GetIdentifier, DatagramType
<1>3. d.giaddr \in Dword /\ d.ciaddr \in Dword /\ d.yiaddr \in Dword
  BY <1>1 DEF DatagramType
<1>4. ASSUME NEW t PROVE Destination(d, t) \in Dword
  BY <1>3, BroadcastType DEF Destination
<1> QED
  BY <1>2, <1>4

\* What CheckIsClientExist leaves in *previous_offer_addr is a DWORD.
LEMMA PreviousOfferType ==
  ASSUME TypeInv, NEW d \in Datagrams
  PROVE  PreviousOffer(d) \in Dword
<1> DEFINE p == ClientPosition(addresses_in_use_, GetIdentifier(d))
<1>1. CASE p = 0
  BY <1>1, BroadcastType DEF PreviousOffer, PreviousOfferAddr, CheckIsClientExist
<1>2. CASE p # 0
  <2>1. p \in 1 .. Len(addresses_in_use_)
    BY <1>2, ClientPositionCorrect DEF TypeInv
  <2>2. addresses_in_use_[p] \in EntryType
    BY <2>1 DEF TypeInv
  <2>3. addresses_in_use_[p].dwAddrValue \in Dword
    BY <2>2 DEF EntryType
  <2> QED
    BY <1>2, <2>3, ByteOrderRoundTrip DEF PreviousOffer, PreviousOfferAddr, CheckIsClientExist
<1> QED
  BY <1>1, <1>2

\* The replies run builds are of the type of replies.
LEMMA ReplyTypes ==
  /\ NoReply \in ReplyType
  /\ \A t \in {"OFFER", "ACK", "NAK"}, c \in Identifiers \cup {EmptyId},
        a \in Dword, b \in Dword, l \in {0, LeaseTime}, e \in Dword :
       Answer(t, c, a, b, l, e) \in ReplyType
BY ZeroDword DEF NoReply, Answer, ReplyType

(***************************************************************************)
(* A message sent, or lost with the thread, keeps the types.               *)
(***************************************************************************)
LEMMA SendKeepsTypes ==
  ASSUME TypeInv, NEW answer \in ReplyType, SendDhcpMessage(answer)
  PROVE  life' \in Life /\ reply' \in ReplyType
BY ReplyTypes DEF TypeInv, SendDhcpMessage, BackToLoop, ThreadDies, Life

-----------------------------------------------------------------------------
\* A server just constructed satisfies the invariant.
LEMMA InitIInv == Init => IInv
<1> SUFFICES ASSUME Init PROVE IInv
  OBVIOUS
<1>1. max_addr_value \in Pool
  BY PoolBounds DEF Pool
<1>2. TypeInv
  BY <1>1, ReplyTypes DEF Init, TypeInv, NewServer, Life
<1>3. LifeInv
  BY DEF Init, LifeInv, NewServer
<1>4. TableInv
  BY DEF Init, TableInv, ClientsHavePoolAddresses, NoAddressShared, OneLeasePerClient
<1>5. RepliesTellTheLease
  BY DEF Init, RepliesTellTheLease, NoReply, Answer
<1>6. StoppedMeansQuiet
  BY DEF Init, StoppedMeansQuiet, ThreadAlive, NewServer
<1> QED
  BY <1>2, <1>3, <1>4, <1>5, <1>6 DEF IInv

-----------------------------------------------------------------------------
(***************************************************************************)
(* The four kinds of step: calls of the owner, the thread without a        *)
(* datagram, a datagram that leaves the table alone, an offer to a new     *)
(* client.                                                                 *)
(***************************************************************************)
LEMMA AssignedFacts ==
  ASSUME TypeInv
  PROVE  /\ AssignedAddress # 0 =>
              /\ AssignedAddress \in Pool
              /\ \A i \in 1 .. Len(addresses_in_use_) :
                   addresses_in_use_[i].dwAddrValue # AssignedAddress
         /\ AssignedAddress = 0 =>
              \A v \in Pool \ {last_offer_address_} :
                \E i \in 1 .. Len(addresses_in_use_) : addresses_in_use_[i].dwAddrValue = v
BY AssignAddressCorrect DEF TypeInv, AssignedAddress

\* What PacketNewClientOffer appends is an entry.
LEMMA NewEntryType ==
  ASSUME TypeInv, NEW d \in Datagrams, AssignedAddress # 0
  PROVE  Entry(AssignedAddress, GetIdentifier(d)) \in EntryType
BY AssignedFacts, DatagramFacts, PoolBounds DEF Entry, EntryType

\* So is what InitServer appends.
LEMMA ServerEntryType == ServerEntry \in EntryType
BY PoolBounds DEF ServerEntry, Entry, EntryType

\* The life of the server takes no step out of its type.
LEMMA LifeTypes ==
  ASSUME life \in Life
  PROVE  /\ StopRequested(life) \in Life
         /\ Started(life) \in Life
         /\ FailedInits(life, SocketFailures) \subseteq Life
         /\ LoopChecked(life) \in Life
         /\ BackToLoop(life) \in Life
         /\ ThreadDies(life) \in Life
BY DEF Life, StopRequested, Started, FailedInits, CanBind, LoopChecked, BackToLoop, ThreadDies

\* Whatever a datagram has run do, the types stay.
LEMMA HandleTypes ==
  ASSUME TypeInv, NEW d \in Datagrams, Handle(d)
  PROVE  TypeInv'
<1>1. life' \in Life /\ reply' \in ReplyType
  <2>1. ASSUME SendNothing PROVE life' \in Life /\ reply' \in ReplyType
    BY <2>1, LifeTypes, ReplyTypes DEF TypeInv, SendNothing
  <2>2. \A a \in Dword : Offer(d, a) \in ReplyType
    BY DatagramFacts, ReplyTypes, ZeroDword DEF Offer
  <2>3. CASE PassOver(d) \/ NoMemoryForNewClient(d) \/ NoAddressForNewClient(d)
             \/ NothingRequested(d)
    BY <2>1, <2>3 DEF PassOver, NoMemoryForNewClient, NoAddressForNewClient, NothingRequested
  <2>4. CASE OfferToOldClient(d)
    <3>1. DWValuetoIP(DWIPtoValue(PreviousOffer(d))) \in Dword
      BY PreviousOfferType, ByteOrderRoundTrip
    <3> QED
      BY <2>1, <2>2, <2>4, <3>1, SendKeepsTypes DEF OfferToOldClient
  <2>5. CASE OfferToNewClient(d)
    <3>1. DWValuetoIP(AssignedAddress) \in Dword
      BY <2>5, AssignedFacts, PoolBounds, ByteOrderRoundTrip DEF OfferToNewClient
    <3> QED
      BY <2>2, <2>5, <3>1, SendKeepsTypes DEF OfferToNewClient
  <2>6. CASE AckRequest(d)
    <3>1. Answer("ACK", GetIdentifier(d), PreviousOffer(d), PreviousOffer(d),
                 LeaseTime, Destination(d, "ACK")) \in ReplyType
      BY DatagramFacts, PreviousOfferType, ReplyTypes
    <3> QED
      BY <2>6, <3>1, SendKeepsTypes DEF AckRequest
  <2>7. CASE NakRequest(d)
    <3>1. Answer("NAK", GetIdentifier(d), 0, 0, 0, Destination(d, "NAK")) \in ReplyType
      BY DatagramFacts, ReplyTypes, ZeroDword
    <3> QED
      BY <2>7, <3>1, SendKeepsTypes DEF NakRequest
  <2> QED
    BY <2>3, <2>4, <2>5, <2>6, <2>7 DEF Handle
<1>2. owner' = owner
  BY DEF Handle, PassOver, OfferToOldClient, OfferToNewClient, NoMemoryForNewClient,
         NoAddressForNewClient, AckRequest, NakRequest, NothingRequested, Receives
<1>3. CASE UNCHANGED table
  BY <1>1, <1>2, <1>3 DEF TypeInv, table
<1>4. CASE OfferToNewClient(d)
  <2>1. AssignedAddress \in Pool /\ Entry(AssignedAddress, GetIdentifier(d)) \in EntryType
    BY <1>4, AssignedFacts, NewEntryType DEF OfferToNewClient
  <2>2. addresses_in_use_' \in Seq(EntryType) /\ last_offer_address_' \in Pool
    BY <1>4, <2>1 DEF OfferToNewClient, TypeInv
  <2> QED
    BY <1>1, <1>2, <2>2 DEF TypeInv
<1>5. CASE NoMemoryForNewClient(d)
  BY <1>1, <1>2, <1>5, AssignedFacts DEF NoMemoryForNewClient, TypeInv
<1> QED
  BY <1>3, <1>4, <1>5 DEF Handle, PassOver, OfferToOldClient, NoAddressForNewClient,
                          AckRequest, NakRequest, NothingRequested

\* So they do in every other step.
LEMMA TypeStep == TypeInv /\ [Next]_vars => TypeInv'
<1> SUFFICES ASSUME TypeInv, [Next]_vars PROVE TypeInv'
  OBVIOUS
<1>1. ASSUME InitServer PROVE TypeInv'
  <2>1. Append(addresses_in_use_, ServerEntry) \in Seq(EntryType)
    BY ServerEntryType DEF TypeInv
  <2> QED
    BY <1>1, <2>1, LifeTypes, ReplyTypes DEF TypeInv, InitServer
<1>2. CASE OwnerStep
  BY <1>1, <1>2, LifeTypes, ReplyTypes
     DEF OwnerStep, Join, Start, StartRunning, Stop, StopJoin, RestartJoin, TypeInv, table
<1>3. CASE CheckStarting \/ ReceiveError \/ ReceiveThrows
  BY <1>3, LifeTypes, ReplyTypes DEF CheckStarting, ReceiveError, ReceiveThrows, TypeInv, table
<1>4. CASE Receive
  BY <1>4, HandleTypes DEF Receive
<1>5. CASE UNCHANGED vars
  BY <1>5 DEF vars, TypeInv
<1> QED
  BY <1>2, <1>3, <1>4, <1>5 DEF Next

-----------------------------------------------------------------------------
(***************************************************************************)
(* The socket, the thread and the server's entry come together.            *)
(***************************************************************************)
LEMMA HandleKeepsLife ==
  ASSUME NEW d \in Datagrams, Handle(d)
  PROVE  /\ life.thread_ = "receiving"
         /\ life' \in {BackToLoop(life), ThreadDies(life)}
         /\ addresses_in_use_' = addresses_in_use_
              \/ OfferToNewClient(d)
BY DEF Handle, PassOver, OfferToOldClient, OfferToNewClient, NoMemoryForNewClient,
       NoAddressForNewClient, AckRequest, NakRequest, NothingRequested, Receives,
       SendNothing, SendDhcpMessage, table

\* Every step keeps socket, thread and table in order.
LEMMA LifeStep == TypeInv /\ LifeInv /\ [Next]_vars => LifeInv'
<1> SUFFICES ASSUME TypeInv, LifeInv, [Next]_vars PROVE LifeInv'
  OBVIOUS
<1>1. life \in Life /\ addresses_in_use_ \in Seq(EntryType)
  BY DEF TypeInv
<1>2. ASSUME InitServer PROVE LifeInv'
  <2>1. CASE addresses_in_use_' = Append(addresses_in_use_, ServerEntry) /\ life' = Started(life)
    BY <1>1, <2>1 DEF LifeInv, Started
  <2>2. CASE addresses_in_use_' = addresses_in_use_ /\ life' \in FailedInits(life, SocketFailures)
    BY <1>1, <2>2 DEF LifeInv, FailedInits, CanBind, Life
  <2> QED
    BY <1>2, <2>1, <2>2 DEF InitServer
<1>3. CASE OwnerStep
  BY <1>1, <1>2, <1>3
     DEF OwnerStep, Join, Start, StartRunning, Stop, StopJoin, RestartJoin, table,
         StopRequested, Life, LifeInv
<1>4. CASE CheckStarting \/ ReceiveError \/ ReceiveThrows
  BY <1>1, <1>4 DEF CheckStarting, ReceiveError, ReceiveThrows, table,
                    LoopChecked, BackToLoop, ThreadDies, Life, LifeInv
<1>5. CASE Receive
  <2>1. PICK d \in Datagrams : Handle(d)
    BY <1>5 DEF Receive
  <2>2. life.dhcp_socket_ = "bound" /\ addresses_in_use_ # <<>>
    BY <2>1, HandleKeepsLife DEF LifeInv
  <2>3. life'.thread_ # "null" /\ life'.dhcp_socket_ = "bound"
    BY <1>1, <2>1, <2>2, HandleKeepsLife DEF BackToLoop, ThreadDies, Life
  <2>4. addresses_in_use_' # <<>>
    BY <1>1, <2>1, <2>2, HandleKeepsLife DEF OfferToNewClient
  <2> QED
    BY <2>3, <2>4 DEF LifeInv
<1>6. CASE UNCHANGED vars
  BY <1>6 DEF vars, LifeInv
<1> QED
  BY <1>3, <1>4, <1>5, <1>6 DEF Next

-----------------------------------------------------------------------------
(***************************************************************************)
(* The table.  It changes in two ways: the server's entry comes into an    *)
(* empty table, and a free address of the pool goes to a client without    *)
(* an entry.                                                               *)
(***************************************************************************)
LEMMA TableChanges ==
  ASSUME TypeInv, LifeInv, [Next]_vars
  PROVE  \/ addresses_in_use_' = addresses_in_use_
         \/ addresses_in_use_ = <<>> /\ addresses_in_use_' = <<ServerEntry>>
         \/ addresses_in_use_ # <<>> /\ \E d \in Datagrams : OfferToNewClient(d)
<1>1. addresses_in_use_ \in Seq(EntryType)
  BY DEF TypeInv
<1>2. ASSUME InitServer, addresses_in_use_' # addresses_in_use_
      PROVE  addresses_in_use_ = <<>> /\ addresses_in_use_' = <<ServerEntry>>
  <2>1. CanBind(life) /\ addresses_in_use_' = Append(addresses_in_use_, ServerEntry)
    BY <1>2 DEF InitServer
  <2>2. addresses_in_use_ = <<>>
    BY <2>1 DEF LifeInv, CanBind
  <2> QED
    BY <2>1, <2>2
<1>3. CASE OwnerStep
  BY <1>2, <1>3 DEF OwnerStep, Join, Start, StartRunning, Stop, StopJoin, RestartJoin, table
<1>4. CASE CheckStarting \/ ReceiveError \/ ReceiveThrows
  BY <1>4 DEF CheckStarting, ReceiveError, ReceiveThrows, table
<1>5. CASE Receive
  BY <1>5, HandleKeepsLife DEF Receive, LifeInv
<1>6. CASE UNCHANGED vars
  BY <1>6 DEF vars
<1> QED
  BY <1>3, <1>4, <1>5, <1>6 DEF Next

\* The entry of a new client keeps addresses and clients apart: the address
\* is free, and the client has none.
LEMMA OfferKeepsTable ==
  ASSUME TypeInv, TableInv, addresses_in_use_ # <<>>,
         NEW d \in Datagrams, OfferToNewClient(d)
  PROVE  TableInv'
<1> DEFINE old == addresses_in_use_
           id == GetIdentifier(d)
           e == Entry(AssignedAddress, id)
<1>1. old \in Seq(EntryType) /\ e \in EntryType
  BY NewEntryType DEF TypeInv, OfferToNewClient
<1>2. addresses_in_use_' = Append(old, e)
  BY DEF OfferToNewClient
<1>3. /\ Len(addresses_in_use_') = Len(old) + 1
      /\ addresses_in_use_'[Len(old) + 1] = e
      /\ \A i \in 1 .. Len(old) : addresses_in_use_'[i] = old[i]
      /\ Len(old) \in Nat /\ Len(old) >= 1
  BY <1>1, <1>2
<1>4. /\ e.dwAddrValue \in Pool
      /\ \A i \in 1 .. Len(old) : old[i].dwAddrValue # e.dwAddrValue
  BY AssignedFacts DEF OfferToNewClient, Entry
<1>5. e.pbClientIdentifier = id /\ id # NullId
  BY DatagramFacts, DhcpServerAssumption, PoolAssumption DEF Entry
<1>6. \A i \in 1 .. Len(old) : ~(HasIdentifier(old[i]) /\ old[i].pbClientIdentifier = id)
  BY <1>1, ClientPositionCorrect DEF OfferToNewClient, HasClientBefore, CheckIsClientExist
<1>7. old[1] = ServerEntry
  BY <1>3 DEF TableInv, ClientsHavePoolAddresses
<1>8. e.dwAddrValue # DWIPtoValue(ServerAddress)
  BY <1>3, <1>4, <1>7 DEF ServerEntry, Entry
<1> HIDE DEF old, e, id
<1>9. ClientsHavePoolAddresses'
  BY <1>3, <1>4, <1>5, <1>8 DEF TableInv, ClientsHavePoolAddresses, old
<1>10. NoAddressShared'
  BY <1>3, <1>4 DEF TableInv, NoAddressShared, old
<1>11. OneLeasePerClient'
  <2> SUFFICES ASSUME NEW i \in 1 .. Len(addresses_in_use_'),
                      NEW j \in 1 .. Len(addresses_in_use_'),
                      HasIdentifier(addresses_in_use_'[i]),
                      addresses_in_use_'[i].pbClientIdentifier = addresses_in_use_'[j].pbClientIdentifier
               PROVE  i = j
    BY DEF OneLeasePerClient
  <2>1. HasIdentifier(addresses_in_use_'[j])
    BY DEF HasIdentifier
  <2>2. CASE i \in 1 .. Len(old) /\ j \in 1 .. Len(old)
    BY <1>3, <2>2 DEF TableInv, OneLeasePerClient, old
  <2>3. CASE i = Len(old) + 1 /\ j \in 1 .. Len(old)
    BY <1>3, <1>5, <1>6, <2>1, <2>3
  <2>4. CASE i \in 1 .. Len(old) /\ j = Len(old) + 1
    BY <1>3, <1>5, <1>6, <2>4
  <2> QED
    BY <1>3, <2>2, <2>3, <2>4
<1> QED
  BY <1>9, <1>10, <1>11 DEF TableInv

\* Every step keeps the table sound.
LEMMA TableStep == TypeInv /\ LifeInv /\ TableInv /\ [Next]_vars => TableInv'
<1> SUFFICES ASSUME TypeInv, LifeInv, TableInv, [Next]_vars PROVE TableInv'
  OBVIOUS
<1>1. CASE addresses_in_use_' = addresses_in_use_
  BY <1>1 DEF TableInv, ClientsHavePoolAddresses, NoAddressShared, OneLeasePerClient
<1>2. CASE addresses_in_use_' = <<ServerEntry>>
  BY <1>2 DEF TableInv, ClientsHavePoolAddresses, NoAddressShared, OneLeasePerClient
<1> QED
  BY <1>1, <1>2, TableChanges, OfferKeepsTable

\* An address has one holder.
LEMMA HoldsOnce ==
  ASSUME TypeInv, TableInv, NEW c, NEW d, NEW v, Holds(c, v), Holds(d, v)
  PROVE  c = d
<1>1. PICK i \in 1 .. Len(addresses_in_use_) : addresses_in_use_[i] = Entry(v, c)
  BY DEF Holds, ToSet, TypeInv
<1>2. PICK j \in 1 .. Len(addresses_in_use_) : addresses_in_use_[j] = Entry(v, d)
  BY DEF Holds, ToSet, TypeInv
<1>3. i = j
  BY <1>1, <1>2 DEF Entry, TableInv, NoAddressShared
<1> QED
  BY <1>1, <1>2, <1>3 DEF Entry

\* What an entry is appended to keeps its elements.
LEMMA AppendKeeps ==
  ASSUME NEW S, NEW s \in Seq(S), NEW e \in S
  PROVE  ToSet(Append(s, e)) = ToSet(s) \cup {e}
<1>1. /\ Append(s, e) \in Seq(S) /\ Len(Append(s, e)) = Len(s) + 1 /\ Len(s) \in Nat
      /\ \A i \in 1 .. Len(s) : Append(s, e)[i] = s[i]
      /\ Append(s, e)[Len(s) + 1] = e
  OBVIOUS
<1>2. /\ DOMAIN s = 1 .. Len(s) /\ DOMAIN Append(s, e) = 1 .. (Len(s) + 1)
      /\ 1 .. (Len(s) + 1) = (1 .. Len(s)) \cup {Len(s) + 1}
  BY <1>1
<1> QED
  BY <1>1, <1>2 DEF ToSet

\* An address that is held stays so.
LEMMA HoldsStays ==
  ASSUME TypeInv, LifeInv, [Next]_vars, NEW c, NEW v, Holds(c, v)
  PROVE  Holds(c, v)'
<1>1. PICK e \in ToSet(addresses_in_use_) : e = Entry(v, c) /\ HasIdentifier(e)
  BY DEF Holds
<1>2. addresses_in_use_ \in Seq(EntryType)
  BY DEF TypeInv
<1>3. e \in ToSet(addresses_in_use_')
  <2>1. ASSUME NEW d \in Datagrams, OfferToNewClient(d) PROVE e \in ToSet(addresses_in_use_')
    BY <1>2, <2>1, AppendKeeps, NewEntryType DEF OfferToNewClient
  <2>2. addresses_in_use_ # <<>>
    BY <1>1 DEF ToSet
  <2> QED
    BY <2>1, <2>2, TableChanges
<1> QED
  BY <1>1, <1>3 DEF Holds

-----------------------------------------------------------------------------
(***************************************************************************)
(* What a step says: an OFFER or an ACK names the lease of its client.     *)
(***************************************************************************)
LEMMA PreviousOfferIsTheLease ==
  ASSUME TypeInv, NEW d \in Datagrams, HasClientBefore(d)
  PROVE  /\ Holds(GetIdentifier(d), DWIPtoValue(PreviousOffer(d)))
         /\ GetIdentifier(d) # EmptyId
<1> DEFINE id == GetIdentifier(d)
           p == ClientPosition(addresses_in_use_, id)
           e == addresses_in_use_[p]
<1>1. p \in 1 .. Len(addresses_in_use_) /\ HasIdentifier(e) /\ e.pbClientIdentifier = id
  BY ClientPositionCorrect DEF TypeInv, HasClientBefore, CheckIsClientExist
<1>2. e \in EntryType /\ e \in ToSet(addresses_in_use_)
  BY <1>1 DEF TypeInv, ToSet
<1>3. PreviousOffer(d) = DWValuetoIP(e.dwAddrValue)
  BY DEF HasClientBefore, PreviousOffer, PreviousOfferAddr
<1>4. e.dwAddrValue \in Dword
  BY <1>2 DEF EntryType
<1>5. DWIPtoValue(PreviousOffer(d)) = e.dwAddrValue
  BY <1>3, <1>4, ByteOrderRoundTrip
<1>6. e = Entry(e.dwAddrValue, id)
  BY <1>1, <1>2 DEF EntryType, Entry
<1>7. id # EmptyId
  BY <1>1 DEF HasIdentifier
<1> QED
  BY <1>1, <1>2, <1>5, <1>6, <1>7 DEF Holds

\* A step that sends nothing tells no client of an address.
LEMMA NoReplyTellsNothing == reply' = NoReply => RepliesTellTheLease'
BY DEF NoReply, Answer, RepliesTellTheLease

\* Whatever is sent names the address the table holds after the step.
LEMMA ReplyStep ==
  TypeInv /\ LifeInv /\ TableInv /\ RepliesTellTheLease /\ [Next]_vars => RepliesTellTheLease'
<1> SUFFICES ASSUME TypeInv, LifeInv, TableInv, RepliesTellTheLease, [Next]_vars
             PROVE  RepliesTellTheLease'
  OBVIOUS
<1>1. CASE OwnerStep \/ CheckStarting \/ ReceiveError \/ ReceiveThrows
  BY <1>1, NoReplyTellsNothing
     DEF OwnerStep, Join, Start, StartRunning, Stop, StopJoin, RestartJoin, InitServer,
         CheckStarting, ReceiveError, ReceiveThrows
<1>2. CASE Receive
  <2>1. PICK d \in Datagrams : Handle(d)
    BY <1>2 DEF Receive
  <2> DEFINE id == GetIdentifier(d)
  <2>2. ASSUME SendNothing PROVE RepliesTellTheLease'
    BY <2>2, NoReplyTellsNothing DEF SendNothing
  <2>3. ASSUME NEW answer, SendDhcpMessage(answer), reply' # NoReply PROVE reply' = answer
    BY <2>3 DEF SendDhcpMessage
  <2>4. CASE PassOver(d) \/ NoMemoryForNewClient(d) \/ NoAddressForNewClient(d)
             \/ NothingRequested(d)
    BY <2>2, <2>4 DEF PassOver, NoMemoryForNewClient, NoAddressForNewClient, NothingRequested
  <2>5. ASSUME HasClientBefore(d), addresses_in_use_' = addresses_in_use_,
               reply'.client = id, reply'.yiaddr = PreviousOffer(d)
        PROVE  RepliesTellTheLease'
    BY <2>5, PreviousOfferIsTheLease DEF RepliesTellTheLease, Holds
  <2>6. CASE OfferToOldClient(d) /\ reply' # NoReply
    <3>1. SendDhcpMessage(Offer(d, DWValuetoIP(DWIPtoValue(PreviousOffer(d)))))
      BY <2>6 DEF OfferToOldClient, SendNothing
    <3>2. reply' = Offer(d, DWValuetoIP(DWIPtoValue(PreviousOffer(d))))
      BY <2>3, <2>6, <3>1
    <3>3. reply'.client = id /\ reply'.yiaddr = PreviousOffer(d)
      BY <3>2, PreviousOfferType, ByteOrderRoundTrip DEF Offer, Answer
    <3> QED
      BY <2>5, <2>6, <3>3 DEF OfferToOldClient, table
  <2>7. CASE OfferToNewClient(d) /\ reply' # NoReply
    <3>1. reply' = Offer(d, DWValuetoIP(AssignedAddress))
      BY <2>3, <2>7 DEF OfferToNewClient
    <3>2. AssignedAddress \in Dword
      BY <2>7, AssignedFacts, PoolBounds DEF OfferToNewClient
    <3>3. reply'.client = id /\ DWIPtoValue(reply'.yiaddr) = AssignedAddress
      BY <3>1, <3>2, ByteOrderRoundTrip DEF Offer, Answer
    <3>4. Entry(AssignedAddress, id) \in ToSet(addresses_in_use_')
      <4>1. addresses_in_use_' = Append(addresses_in_use_, Entry(AssignedAddress, id))
        BY <2>7 DEF OfferToNewClient
      <4>2. addresses_in_use_ \in Seq(EntryType) /\ Entry(AssignedAddress, id) \in EntryType
        BY <2>7, NewEntryType DEF TypeInv, OfferToNewClient
      <4>3. /\ Len(addresses_in_use_) + 1 \in DOMAIN addresses_in_use_'
            /\ addresses_in_use_'[Len(addresses_in_use_) + 1] = Entry(AssignedAddress, id)
        BY <4>1, <4>2
      <4> QED
        BY <4>3 DEF ToSet
    <3>5. id # EmptyId => HasIdentifier(Entry(AssignedAddress, id))
      BY DatagramFacts, DhcpServerAssumption DEF HasIdentifier, Entry
    <3> QED
      BY <3>3, <3>4, <3>5 DEF RepliesTellTheLease, Holds
  <2>8. CASE AckRequest(d) /\ reply' # NoReply
    <3>1. reply' = Answer("ACK", id, PreviousOffer(d), PreviousOffer(d), LeaseTime, Destination(d, "ACK"))
      BY <2>3, <2>8 DEF AckRequest
    <3>2. reply'.client = id /\ reply'.yiaddr = PreviousOffer(d)
      BY <3>1 DEF Answer
    <3> QED
      BY <2>5, <2>8, <3>2 DEF AckRequest, IsAcked, table
  <2>9. CASE NakRequest(d) /\ reply' # NoReply
    <3>1. reply'.type = "NAK"
      BY <2>3, <2>9 DEF NakRequest, Answer
    <3> QED
      BY <3>1 DEF RepliesTellTheLease
  <2> QED
    BY <2>1, <2>4, <2>6, <2>7, <2>8, <2>9, NoReplyTellsNothing DEF Handle
<1>3. CASE UNCHANGED vars
  BY <1>3 DEF vars, RepliesTellTheLease, Holds
<1> QED
  BY <1>1, <1>2, <1>3 DEF Next

-----------------------------------------------------------------------------
(***************************************************************************)
(* At rest and not running, the server has no thread.                      *)
(***************************************************************************)
LEMMA QuietStep == TypeInv /\ LifeInv /\ StoppedMeansQuiet /\ [Next]_vars => StoppedMeansQuiet'
<1> SUFFICES ASSUME TypeInv, LifeInv, StoppedMeansQuiet, [Next]_vars
             PROVE  StoppedMeansQuiet'
  OBVIOUS
<1> USE DEF StoppedMeansQuiet, IsRunning, ThreadAlive
<1>1. life \in Life
  BY DEF TypeInv
<1>2. ASSUME InitServer, ~ThreadAlive(life) PROVE StoppedMeansQuiet'
  <2>1. CASE life' = Started(life)
    BY <2>1 DEF Started
  <2>2. CASE life' \in FailedInits(life, SocketFailures)
    BY <1>1, <1>2, <2>2 DEF FailedInits, CanBind, Life
  <2> QED
    BY <1>2, <2>1, <2>2 DEF InitServer
<1>3. CASE Start
  BY <1>2, <1>3 DEF Start
<1>4. CASE RestartJoin
  BY <1>2, <1>4 DEF RestartJoin, Joined
<1>5. CASE StartRunning \/ Stop
  BY <1>5 DEF StartRunning, Stop
<1>6. CASE StopJoin
  BY <1>6 DEF StopJoin, Joined
<1>7. CASE CheckStarting \/ ReceiveError \/ ReceiveThrows
  BY <1>1, <1>7 DEF CheckStarting, ReceiveError, ReceiveThrows, LoopChecked,
                    BackToLoop, ThreadDies, Life
<1>8. CASE Receive
  <2>1. PICK d \in Datagrams : Handle(d)
    BY <1>8 DEF Receive
  <2>2. owner' = owner
    BY <2>1 DEF Handle, PassOver, OfferToOldClient, OfferToNewClient, NoMemoryForNewClient,
         NoAddressForNewClient, AckRequest, NakRequest, NothingRequested, Receives
  <2>3. life.thread_ = "receiving" /\ life'.starting_ = life.starting_
    BY <1>1, <2>1, HandleKeepsLife DEF BackToLoop, ThreadDies, Life
  <2> QED
    BY <2>2, <2>3
<1>9. CASE UNCHANGED vars
  BY <1>9 DEF vars
<1> QED
  BY <1>3, <1>4, <1>5, <1>6, <1>7, <1>8, <1>9 DEF Next, OwnerStep, Join

\* The invariant is inductive.
LEMMA IInvStep == IInv /\ [Next]_vars => IInv'
BY TypeStep, LifeStep, TableStep, ReplyStep, QuietStep DEF IInv

\* The inductive invariant holds in every state of every server.
THEOREM Invariance == Spec => []IInv
BY InitIInv, IInvStep, PTL DEF Spec

-----------------------------------------------------------------------------
(***************************************************************************)
(* The properties.                                                         *)
(***************************************************************************)

\* Type correctness: every field of the server has a value of its type, and
\* last_offer_address_, which the scan goes on from, is a DWORD.
THEOREM TypeCorrect == Spec => []TypeOK
<1>1. IInv => TypeOK
  BY PoolBounds DEF IInv, TypeInv, TypeOK
<1> QED
  BY Invariance, <1>1, PTL

\* Whatever the pool and the order of the datagrams, no two entries of
\* addresses_in_use_ have the same address.
THEOREM AddressesAreUnique == Spec => []NoAddressShared
<1>1. IInv => NoAddressShared
  BY DEF IInv, TableInv
<1> QED
  BY Invariance, <1>1, PTL

\* No client has two entries in addresses_in_use_.
THEOREM ClientsHaveOneLease == Spec => []OneLeasePerClient
<1>1. IInv => OneLeasePerClient
  BY DEF IInv, TableInv
<1> QED
  BY Invariance, <1>1, PTL

\* The server's entry is the first and the only one of its kind, and clients
\* have addresses of the pool other than the server's.
THEOREM ClientsStayInPool == Spec => []ClientsHavePoolAddresses
<1>1. IInv => ClientsHavePoolAddresses
  BY DEF IInv, TableInv
<1> QED
  BY Invariance, <1>1, PTL

\* Every OFFER and ACK that SendDhcpMessage sends names the address the table
\* has for its client, byte order included.
THEOREM RepliesAreTrue == Spec => []RepliesTellTheLease
<1>1. IInv => RepliesTellTheLease
  BY DEF IInv
<1> QED
  BY Invariance, <1>1, PTL

\* When Start and Stop have returned and IsRunning is false, run has returned.
THEOREM StopIsComplete == Spec => []StoppedMeansQuiet
<1>1. IInv => StoppedMeansQuiet
  BY DEF IInv
<1> QED
  BY Invariance, <1>1, PTL

\* AssignAddress, whatever the order of requests and failures, gives up only
\* when every address of the pool but the last offered is in use.
THEOREM RefusalsAreLate == Spec => []RefusalLeavesAtMostLastOffer
<1>1. ASSUME TypeInv, AssignedAddress = 0,
             NEW v \in Pool, v # last_offer_address_
      PROVE  v \in AddressesInUse
  <2>1. PICK i \in 1 .. Len(addresses_in_use_) : addresses_in_use_[i].dwAddrValue = v
    BY <1>1, AssignedFacts
  <2>2. addresses_in_use_[i] \in ToSet(addresses_in_use_)
    BY <1>1 DEF ToSet, TypeInv
  <2> QED
    BY <2>1, <2>2 DEF AddressesInUse
<1>2. IInv => RefusalLeavesAtMostLastOffer
  BY <1>1 DEF IInv, RefusalLeavesAtMostLastOffer
<1> QED
  BY Invariance, <1>2, PTL

\* A REQUEST for the address its sender holds is not answered with a NAK.
LEMMA HolderIsNotNaked ==
  ASSUME TypeInv, TableInv, NEW d \in Datagrams, IsNaked(d),
         NEW a \in {RequestIpAddress(d), d.ciaddr}
  PROVE  ~Holds(GetIdentifier(d), DWIPtoValue(a))
<1> SUFFICES ASSUME Holds(GetIdentifier(d), DWIPtoValue(a)) PROVE FALSE
  OBVIOUS
<1> DEFINE id == GetIdentifier(d)
           p == ClientPosition(addresses_in_use_, id)
<1>1. PICK i \in 1 .. Len(addresses_in_use_) :
        addresses_in_use_[i] = Entry(DWIPtoValue(a), id) /\ HasIdentifier(addresses_in_use_[i])
  BY DEF Holds, ToSet, TypeInv
<1>2. addresses_in_use_[i].pbClientIdentifier = id /\ addresses_in_use_[i].dwAddrValue = DWIPtoValue(a)
  BY <1>1 DEF Entry
<1>3. p # 0
  BY <1>1, <1>2, ClientPositionCorrect DEF TypeInv
<1>4. p \in 1 .. Len(addresses_in_use_) /\ addresses_in_use_[p].pbClientIdentifier = id
  BY <1>3, ClientPositionCorrect DEF TypeInv
<1>5. i = p
  BY <1>1, <1>2, <1>4 DEF TableInv, OneLeasePerClient
<1>6. d \in DatagramType
  BY DhcpServerAssumption
<1>7. a \in Dword
  BY <1>6, BroadcastType DEF RequestIpAddress, DatagramType
<1>8. HasClientBefore(d) /\ PreviousOffer(d) = a
  BY <1>2, <1>3, <1>5, <1>7, ByteOrderRoundTrip
     DEF HasClientBefore, CheckIsClientExist, PreviousOffer, PreviousOfferAddr
<1> QED
  BY <1>8 DEF IsNaked, IsAcked

\* A REQUEST is answered with a NAK only if its sender does not hold what it
\* asks for.
THEOREM NaksAreJustified == Spec => []NakOnlyForOthersAddress
<1>1. IInv => NakOnlyForOthersAddress
  BY HolderIsNotNaked DEF IInv, NakOnlyForOthersAddress
<1> QED
  BY Invariance, <1>1, PTL

\* A sequence is a prefix of itself with an element appended.
LEMMA AppendExtends ==
  ASSUME NEW S, NEW s \in Seq(S), NEW e \in S
  PROVE  IsPrefix(s, s) /\ IsPrefix(s, Append(s, e))
<1>1. SubSeq(s, 1, Len(s)) = SubSeq(Append(s, e), 1, Len(s))
  <2> DEFINE a == SubSeq(s, 1, Len(s))
             b == SubSeq(Append(s, e), 1, Len(s))
  <2>1. Append(s, e) \in Seq(S) /\ Len(Append(s, e)) = Len(s) + 1 /\ Len(s) \in Nat
    OBVIOUS
  <2>2. a \in Seq(S) /\ b \in Seq(S) /\ Len(a) = Len(s) /\ Len(b) = Len(s)
    BY <2>1
  <2>3. \A i \in 1 .. Len(s) : a[i] = b[i]
    BY <2>1
  <2> QED
    BY <2>2, <2>3
<1> QED
  BY <1>1 DEF IsPrefix

\* No step removes, reorders or changes an entry of addresses_in_use_.
THEOREM LeasesLast == Spec => LeasesAreStable
<1>1. ASSUME TypeInv, LifeInv, [Next]_vars
      PROVE  IsPrefix(addresses_in_use_, addresses_in_use_')
  <2>1. addresses_in_use_ \in Seq(EntryType)
    BY <1>1 DEF TypeInv
  <2>2. CASE addresses_in_use_' = addresses_in_use_
    BY <2>1, <2>2, AppendExtends, ServerEntryType
  <2>3. CASE addresses_in_use_ = <<>> /\ addresses_in_use_' = <<ServerEntry>>
    <3>1. addresses_in_use_' = Append(addresses_in_use_, ServerEntry)
      BY <2>3
    <3> QED
      BY <2>1, <3>1, AppendExtends, ServerEntryType
  <2>4. ASSUME NEW d \in Datagrams, OfferToNewClient(d)
        PROVE  IsPrefix(addresses_in_use_, addresses_in_use_')
    <3>1. Entry(AssignedAddress, GetIdentifier(d)) \in EntryType
      BY <1>1, <2>4, NewEntryType DEF OfferToNewClient
    <3> QED
      BY <2>1, <2>4, <3>1, AppendExtends DEF OfferToNewClient
  <2> QED
    BY <1>1, <2>2, <2>3, <2>4, TableChanges
<1>2. IInv /\ [Next]_vars => [IsPrefix(addresses_in_use_, addresses_in_use_')]_vars
  BY <1>1 DEF IInv
<1> QED
  BY Invariance, <1>2, PTL DEF Spec, LeasesAreStable

-----------------------------------------------------------------------------
(***************************************************************************)
(* Without failures of LocalAlloc.                                         *)
(***************************************************************************)

\* When LocalAlloc does not fail, the last offered address is in use
\* as soon as there is an entry but the server's.
LastOfferInv ==
  \/ addresses_in_use_ \in {<<>>, <<ServerEntry>>}
  \/ \E i \in 1 .. Len(addresses_in_use_) : addresses_in_use_[i].dwAddrValue = last_offer_address_

\* It is when the server has no entry yet, and it stays.
LEMMA LastOfferStep ==
  ASSUME ~LocalAllocFails, TypeInv, LifeInv, LastOfferInv, [Next]_vars
  PROVE  LastOfferInv'
<1>1. CASE UNCHANGED table
  BY <1>1 DEF LastOfferInv, table
<1>2. CASE addresses_in_use_' = <<ServerEntry>>
  BY <1>2 DEF LastOfferInv
<1>3. ASSUME NEW d \in Datagrams, OfferToNewClient(d) PROVE LastOfferInv'
  <2>1. Entry(AssignedAddress, GetIdentifier(d)) \in EntryType /\ addresses_in_use_ \in Seq(EntryType)
    BY <1>3, NewEntryType DEF OfferToNewClient, TypeInv
  <2>2. /\ addresses_in_use_' = Append(addresses_in_use_, Entry(AssignedAddress, GetIdentifier(d)))
        /\ last_offer_address_' = AssignedAddress
    BY <1>3 DEF OfferToNewClient
  <2>3. /\ Len(addresses_in_use_) + 1 \in 1 .. Len(addresses_in_use_')
        /\ addresses_in_use_'[Len(addresses_in_use_) + 1].dwAddrValue = AssignedAddress
    BY <2>1, <2>2 DEF Entry
  <2> QED
    BY <2>2, <2>3 DEF LastOfferInv
<1>4. ASSUME addresses_in_use_' = addresses_in_use_ PROVE last_offer_address_' = last_offer_address_
  <2>1. CASE OwnerStep \/ CheckStarting \/ ReceiveError \/ ReceiveThrows
    BY <2>1 DEF OwnerStep, Join, Start, StartRunning, Stop, StopJoin, RestartJoin, InitServer,
                CheckStarting, ReceiveError, ReceiveThrows, table
  <2>2. CASE Receive
    <3>1. PICK d \in Datagrams : Handle(d)
      BY <2>2 DEF Receive
    <3>2. ~OfferToNewClient(d)
      <4>1. addresses_in_use_ \in Seq(EntryType)
        BY DEF TypeInv
      <4>2. ASSUME NEW e PROVE Append(addresses_in_use_, e) # addresses_in_use_
        BY <4>1
      <4> QED
        BY <1>4, <4>2 DEF OfferToNewClient
    <3> QED
      BY <3>1, <3>2 DEF Handle, PassOver, OfferToOldClient, NoMemoryForNewClient,
         NoAddressForNewClient, AckRequest, NakRequest, NothingRequested, table
  <2>3. CASE UNCHANGED vars
    BY <2>3 DEF vars
  <2> QED
    BY <2>1, <2>2, <2>3 DEF Next
<1> QED
  BY <1>1, <1>2, <1>3, <1>4, TableChanges DEF table

\* Then the one probe the scan does not make is of an address in use.
LEMMA RefusalFact ==
  ASSUME max_addr_value - min_addr_value >= 2, TypeInv, LifeInv, LastOfferInv
  PROVE  RefusalMeansExhausted
<1> SUFFICES ASSUME life.dhcp_socket_ = "bound", AssignedAddress = 0
             PROVE  Pool \subseteq AddressesInUse
  BY DEF RefusalMeansExhausted
<1>1. \A v \in Pool \ {last_offer_address_} :
        \E i \in 1 .. Len(addresses_in_use_) : addresses_in_use_[i].dwAddrValue = v
  BY AssignedFacts
<1>2. \E i \in 1 .. Len(addresses_in_use_) : addresses_in_use_[i].dwAddrValue = last_offer_address_
  <2>1. PICK v1 \in Pool, v2 \in Pool : v1 # v2 /\ v1 # last_offer_address_ /\ v2 # last_offer_address_
    <3>1. last_offer_address_ \in Pool
      BY DEF TypeInv
    <3> QED
      BY <3>1, PoolBounds DEF Pool
  <2>2. addresses_in_use_ # <<>>
    BY <1>1, <2>1
  <2>3. addresses_in_use_ # <<ServerEntry>>
    BY <1>1, <2>1
  <2> QED
    BY <2>2, <2>3 DEF LastOfferInv
<1>3. \A v \in Pool : \E i \in 1 .. Len(addresses_in_use_) : addresses_in_use_[i].dwAddrValue = v
  BY <1>1, <1>2
<1>4. addresses_in_use_ \in Seq(EntryType)
  BY DEF TypeInv
<1> QED
  BY <1>3, <1>4 DEF AddressesInUse, ToSet

\* In a pool of three addresses or more, without a failure of LocalAlloc, a
\* client is refused only when every address is in use.
THEOREM RefusalsAreJustified ==
  ASSUME ~LocalAllocFails, max_addr_value - min_addr_value >= 2
  PROVE  Spec => []RefusalMeansExhausted
<1>1. Init => LastOfferInv
  BY DEF Init, LastOfferInv
<1>2. TypeInv /\ LifeInv /\ LastOfferInv /\ [Next]_vars => LastOfferInv'
  BY LastOfferStep
<1>3. IInv => TypeInv /\ LifeInv
  BY DEF IInv
<1>4. TypeInv /\ LifeInv /\ LastOfferInv => RefusalMeansExhausted
  BY RefusalFact
<1> QED
  BY <1>1, <1>2, <1>3, <1>4, Invariance, PTL DEF Spec

-----------------------------------------------------------------------------
(***************************************************************************)
(* The server implements AddressBinding.                                   *)
(***************************************************************************)
\* The client's entry is found where it is, when it is the only one.
LEMMA ClientPositionIs ==
  ASSUME NEW S, NEW table_ \in Seq(S), NEW id, NEW i \in 1 .. Len(table_),
         \A j \in 1 .. Len(table_) :
           HasIdentifier(table_[j]) /\ table_[j].pbClientIdentifier = id <=> j = i
  PROVE  ClientPosition(table_, id) = i
BY ClientPositionCorrect

\* A server with an empty table binds nobody.
LEMMA EmptyBinding ==
  /\ addresses_in_use_ = <<>> => BoundClients = {} /\ Withheld = {}
  /\ addresses_in_use_ = <<ServerEntry>> =>
       BoundClients = {} /\ Withheld = {DWIPtoValue(ServerAddress)}
<1>1. ~HasIdentifier(ServerEntry) /\ ServerEntry.dwAddrValue = DWIPtoValue(ServerAddress)
  BY DEF HasIdentifier, ServerEntry, Entry
<1>2. CASE addresses_in_use_ = <<>>
  <2>1. addresses_in_use_ \in Seq(EntryType) /\ Len(addresses_in_use_) = 0
    BY <1>2
  <2>2. ASSUME NEW id PROVE ~CheckIsClientExist(addresses_in_use_, id)
    <3>1. ClientPosition(addresses_in_use_, id) # 0 =>
            ClientPosition(addresses_in_use_, id) \in 1 .. Len(addresses_in_use_)
      BY <2>1, ClientPositionCorrect
    <3> QED
      BY <2>1, <3>1 DEF CheckIsClientExist
  <2>3. ToSet(addresses_in_use_) = {}
    BY <1>2 DEF ToSet
  <2> QED
    BY <1>2, <2>2, <2>3 DEF BoundClients, Withheld
<1>3. CASE addresses_in_use_ = <<ServerEntry>>
  <2>1. /\ addresses_in_use_ \in Seq(EntryType) /\ Len(addresses_in_use_) = 1
        /\ addresses_in_use_[1] = ServerEntry
    BY <1>3, ServerEntryType
  <2>2. \A id : ~CheckIsClientExist(addresses_in_use_, id)
    BY <1>1, <2>1, ClientPositionCorrect DEF CheckIsClientExist
  <2>3. ToSet(addresses_in_use_) = {ServerEntry}
    BY <2>1 DEF ToSet
  <2> QED
    BY <1>1, <1>3, <2>2, <2>3 DEF BoundClients, Withheld
<1> QED
  BY <1>2, <1>3

\* An address no entry has is free.
LEMMA AssignedIsFree ==
  ASSUME TypeInv, NEW v \in Pool,
         \A i \in 1 .. Len(addresses_in_use_) : addresses_in_use_[i].dwAddrValue # v
  PROVE  v \notin Range(Bound) /\ v \notin Withheld
<1>1. addresses_in_use_ \in Seq(EntryType)
  BY DEF TypeInv
<1>2. \A id \in BoundClients : Bound[id] # v
  <2> SUFFICES ASSUME NEW id \in BoundClients PROVE BoundAddress(id) # v
    BY DEF Bound
  <2> QED
    BY <1>1, ClientPositionCorrect DEF BoundClients, CheckIsClientExist, BoundAddress
<1>3. v \notin Withheld
  BY <1>1 DEF Withheld, ToSet
<1> QED
  BY <1>2, <1>3 DEF Range, Bound

\* PacketNewClientOffer binds a client with an identifier to the address
\* assigned, or withholds the address when there is none.
LEMMA NewEntryBinds ==
  ASSUME TypeInv, TableInv, TableInv', NEW d \in Datagrams, OfferToNewClient(d)
  PROVE  LET id == GetIdentifier(d)
         IN  IF id = EmptyId
             THEN Bound' = Bound /\ Withheld' = Withheld \cup {AssignedAddress}
             ELSE /\ id \notin BoundClients
                  /\ Bound' = [c \in BoundClients \cup {id} |->
                                 IF c = id THEN AssignedAddress ELSE Bound[c]]
                  /\ Withheld' = Withheld
<1> DEFINE old == addresses_in_use_
           id == GetIdentifier(d)
           e == Entry(AssignedAddress, id)
           n == Len(old) + 1
<1>1. old \in Seq(EntryType) /\ e \in EntryType /\ addresses_in_use_' = Append(old, e)
  BY NewEntryType DEF TypeInv, OfferToNewClient
<1>2. /\ addresses_in_use_' \in Seq(EntryType) /\ Len(addresses_in_use_') = n /\ n \in Nat
      /\ addresses_in_use_'[n] = e
      /\ \A i \in 1 .. Len(old) : addresses_in_use_'[i] = old[i]
      /\ ToSet(addresses_in_use_') = ToSet(old) \cup {e}
  BY <1>1, AppendKeeps
<1>3. /\ id \in Identifiers \cup {EmptyId} /\ e.pbClientIdentifier = id /\ e.dwAddrValue = AssignedAddress
      /\ HasIdentifier(e) <=> id # EmptyId
  BY DatagramFacts, DhcpServerAssumption DEF Entry, HasIdentifier
<1>4. ~CheckIsClientExist(old, id)
  BY DEF OfferToNewClient, HasClientBefore
<1> HIDE DEF old, e, id, n
<1>5. ASSUME NEW c, CheckIsClientExist(old, c)
      PROVE  /\ CheckIsClientExist(addresses_in_use_', c)
             /\ ClientPosition(addresses_in_use_', c) = ClientPosition(old, c)
             /\ addresses_in_use_'[ClientPosition(old, c)] = old[ClientPosition(old, c)]
  <2> DEFINE p == ClientPosition(old, c)
  <2>1. p \in 1 .. Len(old) /\ HasIdentifier(old[p]) /\ old[p].pbClientIdentifier = c
    BY <1>1, <1>5, ClientPositionCorrect DEF CheckIsClientExist
  <2>2. p \in 1 .. Len(addresses_in_use_') /\ addresses_in_use_'[p] = old[p]
    BY <1>1, <1>2, <2>1 DEF n
  <2>3. \A j \in 1 .. Len(addresses_in_use_') :
          HasIdentifier(addresses_in_use_'[j]) /\ addresses_in_use_'[j].pbClientIdentifier = c <=> j = p
    BY <2>1, <2>2 DEF TableInv, OneLeasePerClient
  <2>4. ClientPosition(addresses_in_use_', c) = p
    BY <1>2, <2>2, <2>3, ClientPositionIs
  <2> QED
    BY <2>1, <2>2, <2>4 DEF CheckIsClientExist
<1>6. ASSUME NEW c, CheckIsClientExist(addresses_in_use_', c), ~CheckIsClientExist(old, c)
      PROVE  c = id /\ id # EmptyId
  <2> DEFINE p == ClientPosition(addresses_in_use_', c)
  <2>1. /\ p \in 1 .. n /\ HasIdentifier(addresses_in_use_'[p])
        /\ addresses_in_use_'[p].pbClientIdentifier = c
    BY <1>2, <1>6, ClientPositionCorrect DEF CheckIsClientExist
  <2>2. p \notin 1 .. Len(old)
    BY <1>1, <1>2, <1>6, <2>1, ClientPositionCorrect DEF CheckIsClientExist
  <2>3. p = n
    BY <1>1, <2>1, <2>2 DEF n
  <2> QED
    BY <1>2, <1>3, <2>1, <2>3
<1>7. CASE id = EmptyId
  <2>1. BoundClients' = BoundClients
    BY <1>5, <1>6, <1>7 DEF BoundClients, old
  <2>2. \A c \in BoundClients : BoundAddress(c)' = BoundAddress(c)
    BY <1>5 DEF BoundAddress, BoundClients, old
  <2>3. Withheld' = Withheld \cup {AssignedAddress}
    BY <1>2, <1>3, <1>7 DEF Withheld, old
  <2> QED
    BY <1>7, <2>1, <2>2, <2>3 DEF Bound, id
<1>8. CASE id # EmptyId
  <2>1. \A j \in 1 .. Len(addresses_in_use_') :
          HasIdentifier(addresses_in_use_'[j]) /\ addresses_in_use_'[j].pbClientIdentifier = id <=> j = n
    BY <1>1, <1>2, <1>3, <1>8 DEF TableInv, OneLeasePerClient, n
  <2>2. ClientPosition(addresses_in_use_', id) = n
    <3>1. n \in 1 .. Len(addresses_in_use_')
      BY <1>1, <1>2 DEF n
    <3> QED
      BY <1>2, <2>1, <3>1, ClientPositionIs
  <2>3. CheckIsClientExist(addresses_in_use_', id) /\ BoundAddress(id)' = AssignedAddress
    BY <1>1, <1>2, <1>3, <2>2 DEF CheckIsClientExist, BoundAddress, n
  <2>4. id \in Identifiers /\ id \notin BoundClients /\ BoundClients' = BoundClients \cup {id}
    BY <1>3, <1>4, <1>5, <1>6, <1>8, <2>3 DEF BoundClients, old
  <2>5. \A c \in BoundClients : BoundAddress(c)' = BoundAddress(c)
    BY <1>5 DEF BoundAddress, BoundClients, old
  <2>6. Withheld' = Withheld
    BY <1>2, <1>3, <1>8 DEF Withheld, old
  <2> QED
    BY <1>8, <2>3, <2>4, <2>5, <2>6 DEF Bound, id
<1> QED
  BY <1>7, <1>8

\* A table that stays binds as before.
LEMMA SameBinding ==
  addresses_in_use_' = addresses_in_use_ => Bound' = Bound /\ Withheld' = Withheld
BY DEF Bound, BoundClients, BoundAddress, Withheld

\* What Told says of a reply.
LEMMA ToldIs ==
  /\ reply' = NoReply => Told' = NoReply
  /\ \A t, c, a, b, l, e :
       t # "NONE" /\ reply' = Answer(t, c, a, b, l, e) =>
         Told' = Binding!Say(t, c, DWIPtoValue(b))
BY DEF Told, NoReply, Answer, Binding!Say

\* A client of the table is told its binding.
LEMMA KnownClient ==
  ASSUME TypeInv, NEW d \in Datagrams, HasClientBefore(d)
  PROVE  /\ GetIdentifier(d) \in Identifiers /\ GetIdentifier(d) \in DOMAIN Bound
         /\ DWIPtoValue(PreviousOffer(d)) = Bound[GetIdentifier(d)]
<1> DEFINE id == GetIdentifier(d)
           p == ClientPosition(addresses_in_use_, id)
<1>1. id \in BoundClients
  BY PreviousOfferIsTheLease, DatagramFacts DEF BoundClients, HasClientBefore
<1>2. p \in 1 .. Len(addresses_in_use_)
  BY ClientPositionCorrect DEF TypeInv, HasClientBefore, CheckIsClientExist
<1>3. addresses_in_use_[p] \in EntryType /\ addresses_in_use_[p].dwAddrValue \in Dword
  <2>1. addresses_in_use_[p] \in EntryType
    BY <1>2 DEF TypeInv
  <2> QED
    BY <2>1 DEF EntryType
<1>4. DWIPtoValue(PreviousOffer(d)) = BoundAddress(id)
  BY <1>3, ByteOrderRoundTrip DEF PreviousOffer, PreviousOfferAddr, HasClientBefore, BoundAddress
<1> QED
  BY <1>1, <1>4 DEF Bound, BoundClients

\* A server just constructed is unopened.
LEMMA InitBinding == Init => Binding!Init
<1> SUFFICES ASSUME Init PROVE Binding!Init
  OBVIOUS
<1>1. Service = "unopened"
  BY DEF Init, Service
<1>2. BoundClients = {} /\ Withheld = {}
  BY EmptyBinding DEF Init
<1>3. Bound = <<>>
  <2>1. <<>> = [id \in {} |-> BoundAddress(id)]
    OBVIOUS
  <2> QED
    BY <1>2, <2>1 DEF Bound
<1>4. Told = NoReply
  BY DEF Init, Told, NoReply, Answer
<1> QED
  BY <1>1, <1>2, <1>3, <1>4 DEF Binding!Init

\* InitServer opens the service, leaves it alone, or spoils it: with a socket
\* bound and no thread, the server never serves.
LEMMA InitServerBinds ==
  ASSUME IInv, InitServer, ~ThreadAlive(life)
  PROVE  Binding!Next
<1>1. life \in Life /\ Told' = NoReply
  BY ToldIs DEF IInv, TypeInv, InitServer
<1>2. ASSUME CanBind(life) PROVE addresses_in_use_ = <<>> /\ life = NewServer
  <2>1. life.dhcp_socket_ = "null" /\ life.thread_ = "null" /\ life.starting_ = FALSE
    BY <1>1, <1>2 DEF CanBind, IInv, LifeInv, Life
  <2> QED
    BY <1>1, <1>2, <2>1 DEF CanBind, IInv, LifeInv, Life, NewServer
<1>3. CASE CanBind(life) /\ life' = Started(life)
           /\ addresses_in_use_' = Append(addresses_in_use_, ServerEntry)
  <2>1. Service = "unopened" /\ Service' = "open"
    BY <1>2, <1>3 DEF Service, Started, NewServer, ThreadAlive
  <2>2. addresses_in_use_' = <<ServerEntry>>
    BY <1>2, <1>3
  <2>3. BoundClients = {} /\ BoundClients' = {} /\ Withheld' = {DWIPtoValue(ServerAddress)}
    <3>1. (addresses_in_use_ = <<ServerEntry>> =>
             BoundClients = {} /\ Withheld = {DWIPtoValue(ServerAddress)})'
      BY EmptyBinding, PTL
    <3> QED
      BY <1>2, <1>3, <2>2, <3>1, EmptyBinding
  <2>4. Bound' = Bound
    BY <2>3 DEF Bound
  <2> QED
    BY <1>1, <2>1, <2>3, <2>4 DEF Binding!Next, Binding!Open
<1>4. CASE UNCHANGED addresses_in_use_ /\ life' = life
  BY <1>1, <1>4, SameBinding DEF Service, Binding!Next, Binding!Pause
<1>5. CASE UNCHANGED addresses_in_use_ /\ CanBind(life)
           /\ life' = [life EXCEPT !.dhcp_socket_ = "bound"]
  <2>1. Service = "unopened" /\ Service' = "closed"
    BY <1>2, <1>5 DEF Service, NewServer, ThreadAlive
  <2> QED
    BY <1>1, <1>5, <2>1, SameBinding DEF Binding!Next, Binding!Close
<1> QED
  BY <1>3, <1>4, <1>5 DEF InitServer, FailedInits

\* Every other step of the owner, and of the thread without a datagram, is a
\* pause or the end of the service.
LEMMA ThreadBinds ==
  ASSUME IInv, OwnerStep \/ CheckStarting \/ ReceiveError \/ ReceiveThrows
  PROVE  Binding!Next
<1>1. life \in Life
  BY DEF IInv, TypeInv
<1>2. CASE Start
  BY <1>2, InitServerBinds DEF Start, IInv, StoppedMeansQuiet, IsRunning
<1>3. CASE RestartJoin
  BY <1>3, InitServerBinds DEF RestartJoin, Joined
<1>4. ASSUME reply' = NoReply, UNCHANGED table,
             \/ life' = life
             \/ /\ life.thread_ # "null" /\ life'.thread_ # "null"
                /\ ThreadAlive(life') => ThreadAlive(life)
      PROVE  Binding!Next
  <2>1. Told' = NoReply /\ Bound' = Bound /\ Withheld' = Withheld
    BY <1>4, ToldIs, SameBinding DEF table
  <2>2. Service' = Service \/ (Service = "open" /\ Service' = "closed")
    BY <1>4 DEF Service, NewServer, ThreadAlive
  <2> QED
    BY <2>1, <2>2 DEF Binding!Next, Binding!Pause, Binding!Close
<1>5. CASE StartRunning \/ Stop \/ StopJoin
  BY <1>1, <1>4, <1>5
     DEF StartRunning, Stop, StopJoin, StopRequested, Life, ThreadAlive, table
<1>6. CASE CheckStarting
  BY <1>1, <1>4, <1>6 DEF CheckStarting, LoopChecked, Life, ThreadAlive, table
<1>7. CASE ReceiveError \/ ReceiveThrows
  BY <1>1, <1>4, <1>7 DEF ReceiveError, ReceiveThrows, BackToLoop, ThreadDies, Life,
                          ThreadAlive, table
<1> QED
  BY <1>2, <1>3, <1>5, <1>6, <1>7 DEF OwnerStep, Join

\* A datagram answered is a binding, an address withheld, a confirmation or a
\* refusal; one passed over is a pause; and where sendTo throws, the service
\* closes.
LEMMA HandleBinds ==
  ASSUME IInv, NEW d \in Datagrams, Handle(d)
  PROVE  Binding!Next
<1> DEFINE id == GetIdentifier(d)
<1>1. TypeInv /\ LifeInv /\ TableInv /\ life \in Life /\ life.thread_ = "receiving"
  BY HandleKeepsLife DEF IInv, TypeInv
<1>2. TableInv'
  BY TableStep, <1>1 DEF Next, Receive
<1>3. Service = "open"
  BY <1>1 DEF Service, NewServer, ThreadAlive
<1>4. ASSUME SendNothing PROVE Service' = Service /\ Told' = NoReply
  BY <1>1, <1>3, <1>4, ToldIs DEF SendNothing, BackToLoop, Life, Service, NewServer, ThreadAlive
<1>5. ASSUME NEW t, NEW c, NEW a, NEW b, NEW l, NEW e, t # "NONE",
             SendDhcpMessage(Answer(t, c, a, b, l, e))
      PROVE  \/ Service' = Service /\ Told' = Binding!Say(t, c, DWIPtoValue(b))
             \/ Service' = "closed" /\ Told' = NoReply
  <2>1. CASE life' = BackToLoop(life) /\ reply' = Answer(t, c, a, b, l, e)
    BY <1>1, <1>3, <1>5, <2>1, ToldIs DEF BackToLoop, Life, Service, NewServer, ThreadAlive
  <2>2. CASE life' = ThreadDies(life) /\ reply' = NoReply
    BY <1>1, <2>2, ToldIs DEF ThreadDies, Life, Service, NewServer, ThreadAlive
  <2> QED
    BY <1>5, <2>1, <2>2 DEF SendDhcpMessage
<1>6. ASSUME SendNothing, addresses_in_use_' = addresses_in_use_ PROVE Binding!Next
  BY <1>4, <1>6, SameBinding DEF Binding!Next, Binding!Pause
<1>7. ASSUME addresses_in_use_' = addresses_in_use_, HasClientBefore(d),
             NEW kind \in {"OFFER", "ACK"}, NEW a, NEW b, NEW l, NEW e,
             DWIPtoValue(b) = DWIPtoValue(PreviousOffer(d)),
             SendDhcpMessage(Answer(kind, id, a, b, l, e))
      PROVE  Binding!Next
  <2>1. Bound' = Bound /\ Withheld' = Withheld
    BY <1>7, SameBinding
  <2>2. id \in Identifiers /\ id \in DOMAIN Bound /\ DWIPtoValue(b) = Bound[id]
    BY <1>1, <1>7, KnownClient
  <2>3. \/ Service' = Service /\ Told' = Binding!Say(kind, id, Bound[id])
        \/ Service' = "closed" /\ Told' = NoReply
    BY <1>5, <1>7, <2>2
  <2> HIDE DEF id
  <2>4. CASE Service' = Service /\ Told' = Binding!Say(kind, id, Bound[id])
    <3>1. Binding!Confirm(kind, id)
      BY <2>1, <2>2, <2>4 DEF Binding!Confirm
    <3> QED
      BY <1>3, <2>2, <3>1 DEF Binding!Next, Binding!Serve
  <2>5. CASE Service' = "closed" /\ Told' = NoReply
    BY <1>3, <2>1, <2>5 DEF Binding!Next, Binding!Close
  <2> QED
    BY <2>3, <2>4, <2>5
<1>8. CASE PassOver(d) \/ NoMemoryForNewClient(d) \/ NoAddressForNewClient(d)
           \/ NothingRequested(d)
  BY <1>6, <1>8 DEF PassOver, NoMemoryForNewClient, NoAddressForNewClient, NothingRequested, table
<1>9. CASE OfferToOldClient(d)
  <2>1. DWIPtoValue(DWValuetoIP(DWIPtoValue(PreviousOffer(d)))) = DWIPtoValue(PreviousOffer(d))
    BY <1>1, PreviousOfferType, ByteOrderRoundTrip
  <2> QED
    BY <1>6, <1>7, <1>9, <2>1 DEF OfferToOldClient, Offer, table
<1>10. CASE AckRequest(d)
  BY <1>7, <1>10 DEF AckRequest, IsAcked, table
<1>11. CASE NakRequest(d)
  <2>1. Bound' = Bound /\ Withheld' = Withheld
    BY <1>11, SameBinding DEF NakRequest, table
  <2>2. \/ Service' = Service /\ Told' = Binding!Say("NAK", id, 0)
        \/ Service' = "closed" /\ Told' = NoReply
    BY <1>5, <1>11, ZeroIsZero DEF NakRequest
  <2>3. id \in Identifiers \cup {EmptyId}
    BY DatagramFacts
  <2> HIDE DEF id
  <2>4. CASE Service' = Service /\ Told' = Binding!Say("NAK", id, 0)
    <3>1. Binding!Refuse(id)
      BY <2>1, <2>4 DEF Binding!Refuse
    <3> QED
      BY <1>3, <2>3, <3>1 DEF Binding!Next, Binding!Serve
  <2>5. CASE Service' = "closed" /\ Told' = NoReply
    BY <1>3, <2>1, <2>5 DEF Binding!Next, Binding!Close
  <2> QED
    BY <2>2, <2>4, <2>5
<1>12. CASE OfferToNewClient(d)
  <2>1. AssignedAddress \in Pool /\ AssignedAddress \notin Range(Bound) \cup Withheld
    BY <1>1, <1>12, AssignedFacts, AssignedIsFree DEF OfferToNewClient
  <2>2. AssignedAddress \in Binding!Free
    BY <2>1 DEF Binding!Free, Binding!Range, Range
  <2>3. DWIPtoValue(DWValuetoIP(AssignedAddress)) = AssignedAddress
    BY <2>1, PoolIpFacts
  <2>4. \/ Service' = Service /\ Told' = Binding!Say("OFFER", id, AssignedAddress)
        \/ Service' = "closed" /\ Told' = NoReply
    BY <1>5, <1>12, <2>3 DEF OfferToNewClient, Offer
  <2>5. id \in Identifiers \cup {EmptyId}
    BY DatagramFacts
  <2>6. CASE id = EmptyId
    <3>1. Bound' = Bound /\ Withheld' = Withheld \cup {AssignedAddress}
      BY <1>1, <1>2, <1>12, <2>6, NewEntryBinds
    <3>2. Binding!Withhold(AssignedAddress)
      BY <2>2, <2>4, <2>6, <3>1 DEF Binding!Withhold
    <3> QED
      BY <1>3, <2>1, <3>2 DEF Binding!Next, Binding!Serve
  <2>7. CASE id # EmptyId
    <3>1. /\ id \notin DOMAIN Bound
          /\ Bound' = [c \in DOMAIN Bound \cup {id} |->
                         IF c = id THEN AssignedAddress ELSE Bound[c]]
          /\ Withheld' = Withheld
      BY <1>1, <1>2, <1>12, <2>7, NewEntryBinds DEF Bound
    <3> HIDE DEF id
    <3>2. Binding!Bind(id, AssignedAddress)
      BY <2>2, <2>4, <3>1 DEF Binding!Bind
    <3> QED
      BY <1>3, <2>1, <2>5, <2>7, <3>2 DEF Binding!Next, Binding!Serve
  <2> QED
    BY <2>6, <2>7
<1> QED
  BY <1>8, <1>9, <1>10, <1>11, <1>12 DEF Handle

\* Every behaviour of the server is one of AddressBinding: no client ever has
\* an address another has or had, whatever the threads, the sockets and the
\* datagrams do.
THEOREM ServerImplementsBinding == Spec => ImplementsBinding
<1>1. IInv /\ [Next]_vars => [Binding!Next]_(Binding!vars)
  <2> SUFFICES ASSUME IInv, [Next]_vars PROVE [Binding!Next]_(Binding!vars)
    OBVIOUS
  <2>1. CASE Receive
    BY <2>1, HandleBinds DEF Receive
  <2>2. CASE UNCHANGED vars
    BY <2>2, SameBinding DEF vars, Service, Told, Binding!vars
  <2> QED
    BY <2>1, <2>2, ThreadBinds DEF Next
<1> QED
  BY <1>1, InitBinding, Invariance, PTL DEF Spec, ImplementsBinding, Binding!Spec

-----------------------------------------------------------------------------
(***************************************************************************)
(* What AddressBinding promises, whoever implements it.  No two clients    *)
(* are bound to an address, none to one that is withheld, the server's     *)
(* own among these; and an OFFER or ACK names the address of its client.   *)
(***************************************************************************)
BindingsApart ==
  /\ \A c, d \in DOMAIN Bound : Bound[c] = Bound[d] => c = d
  /\ \A c \in DOMAIN Bound : c \in Identifiers /\ Bound[c] \in Pool \ Withheld

ServerIsWithheld ==
  /\ Service = "unopened" => DOMAIN Bound = {} /\ Withheld = {}
  /\ Service = "open" \/ DOMAIN Bound # {} => DWIPtoValue(ServerAddress) \in Withheld

AnswersAreTrue ==
  Told # NoReply /\ Told.kind # "NAK" =>
    \/ Told.client \in DOMAIN Bound /\ Told.address = Bound[Told.client]
    \/ Told.client = EmptyId /\ Told.address \in Withheld

PromiseKept == BindingsApart /\ ServerIsWithheld /\ AnswersAreTrue

\* Nobody bound is ever bound to something else or to nothing, and what is
\* withheld stays so.
BindingsLast ==
  [][/\ \A c \in DOMAIN Bound : c \in DOMAIN Bound' /\ Bound'[c] = Bound[c]
     /\ Withheld \subseteq Withheld']_(Binding!vars)

\* An offer that binds a client.
LEMMA BindKeepsPromise ==
  ASSUME PromiseKept, Service = "open", NEW c \in Identifiers, NEW a \in Pool, Binding!Bind(c, a)
  PROVE  /\ PromiseKept'
         /\ \A d \in DOMAIN Bound : d \in DOMAIN Bound' /\ Bound'[d] = Bound[d]
<1>1. c \notin DOMAIN Bound /\ a \notin Withheld /\ \A d \in DOMAIN Bound : Bound[d] # a
  BY DEF Binding!Bind, Binding!Free, Binding!Range
<1>2. /\ DOMAIN Bound' = DOMAIN Bound \cup {c} /\ Bound'[c] = a
      /\ \A d \in DOMAIN Bound : Bound'[d] = Bound[d]
  BY <1>1 DEF Binding!Bind
<1>3. Withheld' = Withheld /\ DWIPtoValue(ServerAddress)' = DWIPtoValue(ServerAddress)
  BY DEF Binding!Bind
<1>4. /\ Service' \in {"open", "closed"}
      /\ Told' = NoReply \/ Told' = [kind |-> "OFFER", client |-> c, address |-> a]
  BY DEF Binding!Bind, Binding!Say
<1>5. BindingsApart'
  BY <1>1, <1>2, <1>3 DEF PromiseKept, BindingsApart
<1>6. ServerIsWithheld'
  BY <1>2, <1>3, <1>4 DEF PromiseKept, ServerIsWithheld
<1>7. AnswersAreTrue'
  BY <1>2, <1>4 DEF AnswersAreTrue
<1> QED
  BY <1>2, <1>5, <1>6, <1>7 DEF PromiseKept

\* An offer to a client that names itself by no byte.
LEMMA WithholdKeepsPromise ==
  ASSUME PromiseKept, Service = "open", NEW a \in Pool, Binding!Withhold(a)
  PROVE  PromiseKept'
<1>1. \A d \in DOMAIN Bound : Bound[d] # a
  BY DEF Binding!Withhold, Binding!Free, Binding!Range
<1>2. Bound' = Bound /\ Withheld' = Withheld \cup {a}
  BY DEF Binding!Withhold
<1>3. /\ Service' \in {"open", "closed"}
      /\ Told' = NoReply \/ Told' = [kind |-> "OFFER", client |-> EmptyId, address |-> a]
  BY DEF Binding!Withhold, Binding!Say
<1>4. BindingsApart'
  BY <1>1, <1>2 DEF PromiseKept, BindingsApart
<1>5. ServerIsWithheld'
  BY <1>2, <1>3 DEF PromiseKept, ServerIsWithheld
<1>6. AnswersAreTrue'
  BY <1>2, <1>3 DEF AnswersAreTrue
<1> QED
  BY <1>4, <1>5, <1>6 DEF PromiseKept

\* The initial state and every step of AddressBinding.
LEMMA PromiseInvariance ==
  /\ Binding!Init => PromiseKept
  /\ PromiseKept /\ [Binding!Next]_(Binding!vars) => PromiseKept'
  /\ PromiseKept /\ Binding!Next =>
       /\ \A c \in DOMAIN Bound : c \in DOMAIN Bound' /\ Bound'[c] = Bound[c]
       /\ Withheld \subseteq Withheld'
<1>1. ASSUME Binding!Init PROVE PromiseKept
  <2>1. DOMAIN Bound = {}
    BY <1>1 DEF Binding!Init
  <2> QED
    BY <1>1, <2>1 DEF Binding!Init, PromiseKept, BindingsApart, ServerIsWithheld, AnswersAreTrue
<1>2. ASSUME PromiseKept, UNCHANGED Binding!vars PROVE PromiseKept'
  BY <1>2 DEF Binding!vars, PromiseKept, BindingsApart, ServerIsWithheld, AnswersAreTrue
<1>3. ASSUME PromiseKept, Binding!Next
      PROVE  /\ PromiseKept'
             /\ \A c \in DOMAIN Bound : c \in DOMAIN Bound' /\ Bound'[c] = Bound[c]
             /\ Withheld \subseteq Withheld'
  <2>1. CASE Binding!Open
    <3>1. /\ DOMAIN Bound = {} /\ Bound' = Bound /\ Withheld = {} /\ Told' = NoReply
          /\ Service' = "open" /\ Withheld' = {DWIPtoValue(ServerAddress)}
      BY <1>3, <2>1 DEF Binding!Open, PromiseKept, ServerIsWithheld
    <3>2. PromiseKept'
      BY <3>1 DEF PromiseKept, BindingsApart, ServerIsWithheld, AnswersAreTrue
    <3> QED
      BY <3>1, <3>2
  <2>2. ASSUME Bound' = Bound, Withheld' = Withheld, Service' \in {Service, "closed"}, AnswersAreTrue'
        PROVE  PromiseKept'
    BY <1>3, <2>2 DEF PromiseKept, BindingsApart, ServerIsWithheld
  <2>3. CASE Binding!Close \/ Binding!Pause
    <3>1. /\ Bound' = Bound /\ Withheld' = Withheld /\ Told' = NoReply
          /\ Service' \in {Service, "closed"}
      BY <2>3 DEF Binding!Close, Binding!Pause
    <3>2. AnswersAreTrue'
      BY <3>1 DEF AnswersAreTrue
    <3> QED
      BY <2>2, <3>1, <3>2
  <2>4. ASSUME NEW c \in Identifiers, NEW a \in Pool, Binding!Bind(c, a), Service = "open"
        PROVE  /\ PromiseKept' /\ Withheld' = Withheld
               /\ \A d \in DOMAIN Bound : d \in DOMAIN Bound' /\ Bound'[d] = Bound[d]
    BY <1>3, <2>4, BindKeepsPromise DEF Binding!Bind
  <2>5. ASSUME NEW a \in Pool, Binding!Withhold(a), Service = "open"
        PROVE  PromiseKept' /\ Bound' = Bound /\ Withheld \subseteq Withheld'
    BY <1>3, <2>5, WithholdKeepsPromise DEF Binding!Withhold
  <2>6. ASSUME NEW kind \in {"OFFER", "ACK"}, NEW c \in Identifiers, Binding!Confirm(kind, c)
        PROVE  PromiseKept' /\ Bound' = Bound /\ Withheld' = Withheld
    <3>1. /\ c \in DOMAIN Bound /\ Told' = [kind |-> kind, client |-> c, address |-> Bound[c]]
          /\ Service' = Service /\ Bound' = Bound /\ Withheld' = Withheld
      BY <2>6 DEF Binding!Confirm, Binding!Say
    <3>2. AnswersAreTrue'
      BY <3>1 DEF AnswersAreTrue
    <3> QED
      BY <2>2, <3>1, <3>2
  <2>7. ASSUME NEW c, Binding!Refuse(c)
        PROVE  PromiseKept' /\ Bound' = Bound /\ Withheld' = Withheld
    <3>1. /\ Told' = [kind |-> "NAK", client |-> c, address |-> 0]
          /\ Service' = Service /\ Bound' = Bound /\ Withheld' = Withheld
      BY <2>7 DEF Binding!Refuse, Binding!Say
    <3>2. AnswersAreTrue'
      BY <3>1 DEF AnswersAreTrue
    <3> QED
      BY <2>2, <3>1, <3>2
  <2>8. CASE Binding!Serve
    BY <2>4, <2>5, <2>6, <2>7, <2>8 DEF Binding!Serve
  <2>9. Binding!Close \/ Binding!Pause => Bound' = Bound /\ Withheld' = Withheld
    BY DEF Binding!Close, Binding!Pause
  <2> QED
    BY <1>3, <2>1, <2>3, <2>8, <2>9 DEF Binding!Next
<1> QED
  BY <1>1, <1>2, <1>3

\* AddressBinding keeps its promise, and its bindings are for good.
THEOREM BindingKeepsPromise == ImplementsBinding => []PromiseKept /\ BindingsLast
<1>1. PromiseKept /\ [Binding!Next]_(Binding!vars) =>
        [/\ \A c \in DOMAIN Bound : c \in DOMAIN Bound' /\ Bound'[c] = Bound[c]
         /\ Withheld \subseteq Withheld']_(Binding!vars)
  BY PromiseInvariance
<1> QED
  BY <1>1, PromiseInvariance, PTL DEF ImplementsBinding, Binding!Spec, BindingsLast

\* So DhcpServer keeps it, being an implementation: the promise is read off a
\* vector of entries, and nothing of threads, sockets and scans is left in it.
THEOREM ServerKeepsPromise == Spec => []PromiseKept /\ BindingsLast
BY ServerImplementsBinding, BindingKeepsPromise

-----------------------------------------------------------------------------
(***************************************************************************)
(* The server among its clients: theorems of NetworkSpec.                  *)
(***************************************************************************)
PoolIps == {DWValuetoIP(v) : v \in Pool}

Asking == {"SELECTING", "REQUESTING", "RENEWING"} \cup Rebooting

ClientType ==
  [state : Asking \cup {"INIT", "BOUND"}, xid : Nat, address : PoolIps \cup {0}, run : Nat]

\* What client c may have asked, in any exchange.
AskedBy(c) == {Message(c, Client(s, x, a, 0)) : s \in Asking, x \in Nat \ {0}, a \in PoolIps}

\* What SendDhcpMessage may have answered to it: a broadcast, or an ACK to the
\* address it gives.
IsAnswer(m) ==
  /\ m.xid \in Nat \ {0} /\ m.run \in 0 .. run
  /\ m.answer.type \in {"OFFER", "ACK", "NAK"}
  /\ m.answer.type # "NAK" => m.answer.yiaddr \in PoolIps

(***************************************************************************)
(* The parts of the inductive invariant.  A client has an xid while it     *)
(* asks, and an address from its first offer on.                           *)
(***************************************************************************)
ClientInv ==
  /\ run \in Nat
  /\ clients \in [Identifiers -> ClientType]
  /\ \A c \in Identifiers :
       /\ clients[c].state \in Asking <=> clients[c].xid # 0
       /\ clients[c].state \notin {"INIT", "SELECTING"} => clients[c].address \in PoolIps
       /\ clients[c].run <= run

\* What is underway, and how much: an xid is left for the next exchange.
MessageInv ==
  /\ requests = [c \in Identifiers |-> requests[c]]
  /\ replies = [c \in Identifiers |-> replies[c]]
  /\ \A c \in Identifiers :
       /\ requests[c] \subseteq AskedBy(c)
       /\ IsFiniteSet(requests[c]) /\ Cardinality(requests[c]) <= MaxRequests[c]
       /\ \A m \in replies[c] : IsAnswer(m)
       /\ IsFiniteSet(replies[c]) /\ Cardinality(replies[c]) <= MaxReplies

(***************************************************************************)
(* The messages with the client's xid are of its current exchange.  While  *)
(* it renews its lease they are about the address it uses, and what the    *)
(* server refuses is a lease of an earlier run; in the other exchanges     *)
(* they are broadcast, but for the ACK to a client that set ciaddr when it *)
(* booted.                                                                 *)
(***************************************************************************)
IsCurrentRequest(c, m) ==
  \/ m = Message(c, clients[c])
  \/ clients[c].state = "REQUESTING" /\ m.datagram.type = "DISCOVER"

IsCurrentReply(c, m) ==
  IF clients[c].state = "RENEWING"
  THEN \/ /\ m.answer.type = "ACK"
          /\ m.answer.yiaddr = clients[c].address /\ m.answer.dest = clients[c].address
       \/ /\ m.answer.type = "NAK"
          /\ m.answer.dest = INADDR_BROADCAST /\ clients[c].run < m.run
  ELSE \/ m.answer.dest = INADDR_BROADCAST
       \/ clients[c].state = "REBOOTING-CIADDR" /\ m.answer.type = "ACK"

ExchangeInv ==
  \A c \in Identifiers :
    /\ \A m \in requests[c] : m.xid = clients[c].xid => IsCurrentRequest(c, m)
    /\ \A m \in replies[c] : m.xid = clients[c].xid => IsCurrentReply(c, m)

(***************************************************************************)
(* Client c has, or is about to have, a lease of address a from run r.     *)
(***************************************************************************)
Claims(c, a, r) ==
  \/ Uses(c) /\ clients[c].address = a /\ clients[c].run = r
  \/ \E m \in replies[c] : m.answer.type = "ACK" /\ m.answer.yiaddr = a /\ m.run = r

\* A claim on the run that is on is on record, and a run leaves no two clients
\* with a claim on one address.
ClaimInv ==
  \A c \in Identifiers, a \in PoolIps, r \in 0 .. run :
    Claims(c, a, r) =>
      /\ r = run => Holds(c, DWIPtoValue(a))
      /\ \A d \in Identifiers : Claims(d, a, r) => d = c

NetworkInv == IInv /\ ClientInv /\ MessageInv /\ ExchangeInv /\ ClaimInv

-----------------------------------------------------------------------------
(***************************************************************************)
(* What a client asks.                                                     *)
(***************************************************************************)

\* The datagram of a request, by what the handlers read of it.
LEMMA AskedFacts ==
  ASSUME NEW c \in Identifiers, NEW m \in AskedBy(c)
  PROVE  LET d == m.datagram
         IN  /\ m.xid \in Nat \ {0}
             /\ d \in Datagrams
             /\ d.type \in {"DISCOVER", "REQUEST"} /\ ~IsPassedOver(d)
             /\ GetIdentifier(d) = c
             /\ d.yiaddr = 0 /\ d.giaddr = 0 /\ d.broadcast = FALSE
             /\ d.type = "DISCOVER" => d.ciaddr = 0
             /\ d.ciaddr # 0 => d.requestedIp \in {NoOption, d.ciaddr} /\ d.serverIdentifier = NoOption
<1>1. PICK s \in Asking, x \in Nat \ {0}, a \in PoolIps : m = Message(c, Client(s, x, a, 0))
  BY DEF AskedBy
<1> DEFINE d == m.datagram
<1>2. d = Datagram(c, Client(s, 0, a, 0))
  BY <1>1 DEF Message, Datagram, Client
<1>3. d \in Datagrams
  BY <1>2, ClientsAreHeard DEF Asking, PoolIps
<1>4. m.xid = x
  BY <1>1 DEF Message, Client
<1>5. d = [type |-> IF s = "SELECTING" THEN "DISCOVER" ELSE "REQUEST",
           ownHostName |-> FALSE,
           chaddr |-> c,
           clientIdentifier |-> NoOption,
           requestedIp |-> IF s \in {"REQUESTING"} \cup Rebooting THEN a ELSE NoOption,
           serverIdentifier |-> IF s = "REQUESTING" THEN ServerAddress ELSE NoOption,
           ciaddr |-> IF s \in {"RENEWING", "REBOOTING-CIADDR"} THEN a ELSE 0,
           yiaddr |-> 0, giaddr |-> 0, broadcast |-> FALSE]
  BY <1>2 DEF Datagram, Client
<1> HIDE DEF d
<1>6. d.type \in {"DISCOVER", "REQUEST"} /\ ~IsPassedOver(d)
  BY <1>5 DEF IsPassedOver
<1>7. GetIdentifier(d) = c
  BY <1>5 DEF GetIdentifier
<1> QED
  BY <1>3, <1>4, <1>5, <1>6, <1>7 DEF d, Rebooting

\* The message of a client with an xid is one of these.
LEMMA MessageIsAsked ==
  ASSUME NEW c \in Identifiers, NEW k \in ClientType, k.state \in Asking, k.xid # 0,
         k.state # "SELECTING" => k.address \in PoolIps
  PROVE  Message(c, k) \in AskedBy(c) /\ Message(c, k).xid = k.xid
<1>1. k.xid \in Nat \ {0}
  BY DEF ClientType
<1>2. PICK a \in PoolIps : k.state # "SELECTING" => a = k.address
  <2>1. \E a : a \in PoolIps
    BY PoolBounds DEF PoolIps, Pool
  <2> QED
    BY <2>1
<1>3. Message(c, k) = Message(c, Client(k.state, k.xid, a, 0))
  BY <1>2 DEF Message, Datagram, Client, Rebooting
<1> QED
  BY <1>1, <1>2, <1>3 DEF AskedBy, Message

-----------------------------------------------------------------------------
(***************************************************************************)
(* What the server answers.                                                *)
(***************************************************************************)

\* The address the table has for a client of it is of the pool.
LEMMA PreviousOfferInPool ==
  ASSUME TypeInv, TableInv, NEW d \in Datagrams, HasClientBefore(d)
  PROVE  PreviousOffer(d) \in PoolIps
<1> DEFINE p == ClientPosition(addresses_in_use_, GetIdentifier(d))
           e == addresses_in_use_[p]
<1>1. p \in 1 .. Len(addresses_in_use_) /\ HasIdentifier(e)
  BY ClientPositionCorrect DEF TypeInv, HasClientBefore, CheckIsClientExist
<1>2. e # ServerEntry
  BY <1>1 DEF HasIdentifier, ServerEntry, Entry
<1>3. e.dwAddrValue \in Pool
  BY <1>1, <1>2 DEF TableInv, ClientsHavePoolAddresses
<1>4. PreviousOffer(d) = DWValuetoIP(e.dwAddrValue)
  BY DEF HasClientBefore, PreviousOffer, PreviousOfferAddr
<1> QED
  BY <1>3, <1>4 DEF PoolIps

\* The reply to a message of client c.  An ACK to a ciaddr gives that address,
\* and it is not refused to the client that holds it; all else is broadcast.
LEMMA AnswerFacts ==
  ASSUME TypeInv, TableInv, NEW c \in Identifiers, NEW m \in AskedBy(c),
         Handle(m.datagram), reply'.type # "NONE"
  PROVE  LET d == m.datagram
         IN  \/ /\ reply'.type = "OFFER" /\ d.type = "DISCOVER"
                /\ reply'.yiaddr \in PoolIps /\ reply'.dest = INADDR_BROADCAST
             \/ /\ reply'.type = "ACK" /\ d.type = "REQUEST"
                /\ reply'.yiaddr \in PoolIps
                /\ Holds(c, DWIPtoValue(reply'.yiaddr))
                /\ IF d.ciaddr = 0 THEN reply'.dest = INADDR_BROADCAST
                   ELSE reply'.dest = d.ciaddr /\ reply'.yiaddr = d.ciaddr
             \/ /\ reply'.type = "NAK" /\ d.type = "REQUEST"
                /\ reply'.dest = INADDR_BROADCAST
                /\ ~Holds(c, DWIPtoValue(d.ciaddr))
<1> DEFINE d == m.datagram
<1>1. /\ d \in Datagrams
      /\ d.type \in {"DISCOVER", "REQUEST"} /\ ~IsPassedOver(d)
      /\ GetIdentifier(d) = c
      /\ d.yiaddr = 0 /\ d.giaddr = 0 /\ d.broadcast = FALSE
      /\ d.type = "DISCOVER" => d.ciaddr = 0
      /\ d.ciaddr # 0 => d.requestedIp \in {NoOption, d.ciaddr} /\ d.serverIdentifier = NoOption
  BY AskedFacts
<1> HIDE DEF d
<1>2. ASSUME NEW answer, SendDhcpMessage(answer) PROVE reply' = answer
  BY <1>2 DEF SendDhcpMessage, NoReply, Answer
<1>3. ~SendNothing
  BY DEF SendNothing, NoReply, Answer
<1>4. Destination(d, "OFFER") = IF d.ciaddr = 0 THEN INADDR_BROADCAST ELSE d.ciaddr
  BY <1>1 DEF Destination
<1>5. Destination(d, "ACK") = IF d.ciaddr = 0 THEN INADDR_BROADCAST ELSE d.ciaddr
  BY <1>1 DEF Destination
<1>6. Destination(d, "NAK") = INADDR_BROADCAST
  BY <1>1 DEF Destination
<1>7. CASE OfferToOldClient(d)
  <2>1. d.type = "DISCOVER" /\ HasClientBefore(d)
    BY <1>7 DEF OfferToOldClient, Receives
  <2>2. reply' = Offer(d, DWValuetoIP(DWIPtoValue(PreviousOffer(d))))
    BY <1>2, <1>3, <1>7 DEF OfferToOldClient
  <2>3. DWValuetoIP(DWIPtoValue(PreviousOffer(d))) \in PoolIps
    BY <1>1, <2>1, PreviousOfferInPool, PreviousOfferType, ByteOrderRoundTrip
  <2> QED
    BY <1>1, <1>4, <2>1, <2>2, <2>3 DEF Offer, Answer, d
<1>8. CASE OfferToNewClient(d)
  <2>1. d.type = "DISCOVER"
    BY <1>8 DEF OfferToNewClient, Receives
  <2>2. reply' = Offer(d, DWValuetoIP(AssignedAddress))
    BY <1>2, <1>8 DEF OfferToNewClient
  <2>3. DWValuetoIP(AssignedAddress) \in PoolIps
    BY <1>8, AssignedFacts DEF OfferToNewClient, PoolIps
  <2> QED
    BY <1>1, <1>4, <2>1, <2>2, <2>3 DEF Offer, Answer, d
<1>9. CASE AckRequest(d)
  <2>1. d.type = "REQUEST" /\ IsAcked(d) /\ HasClientBefore(d)
    BY <1>9 DEF AckRequest, Receives, IsAcked
  <2>2. reply' = Answer("ACK", c, PreviousOffer(d), PreviousOffer(d), LeaseTime, Destination(d, "ACK"))
    BY <1>1, <1>2, <1>9 DEF AckRequest
  <2>3. PreviousOffer(d) \in PoolIps /\ Holds(c, DWIPtoValue(PreviousOffer(d)))
    BY <1>1, <2>1, PreviousOfferInPool, PreviousOfferIsTheLease
  <2>4. d.ciaddr # 0 => PreviousOffer(d) = d.ciaddr
    <3>1. PreviousOffer(d) # INADDR_BROADCAST
      BY <2>3, PoolIpFacts DEF PoolIps
    <3>2. ServerAddress # NoOption
      BY PoolAssumption, DhcpServerAssumption
    <3> QED
      BY <1>1, <2>1, <3>1, <3>2 DEF IsAcked, AnswersOffer, RequestIpAddress
  <2> QED
    BY <1>5, <2>1, <2>2, <2>3, <2>4 DEF Answer, d
<1>10. CASE NakRequest(d)
  <2>1. d.type = "REQUEST" /\ IsNaked(d)
    BY <1>10 DEF NakRequest, Receives
  <2>2. reply' = Answer("NAK", c, 0, 0, 0, Destination(d, "NAK"))
    BY <1>1, <1>2, <1>10 DEF NakRequest
  <2>3. ~Holds(c, DWIPtoValue(d.ciaddr))
    BY <1>1, <2>1, HolderIsNotNaked
  <2> QED
    BY <1>6, <2>1, <2>2, <2>3 DEF Answer, d
<1>11. ~PassOver(d) /\ ~NoMemoryForNewClient(d) /\ ~NoAddressForNewClient(d) /\ ~NothingRequested(d)
  BY <1>3 DEF PassOver, NoMemoryForNewClient, NoAddressForNewClient, NothingRequested
<1> QED
  BY <1>7, <1>8, <1>9, <1>10, <1>11 DEF Handle, d

-----------------------------------------------------------------------------
(***************************************************************************)
(* What is underway, and the xid of a new exchange.                        *)
(***************************************************************************)

\* Sending a message adds no other, and keeps the bound.
LEMMA UnderwayFacts ==
  ASSUME NEW earlier, IsFiniteSet(earlier), NEW m, NEW bound \in Nat \ {0},
         NEW ms \in Underway(earlier, m, bound)
  PROVE  ms \subseteq earlier \cup {m} /\ IsFiniteSet(ms) /\ Cardinality(ms) <= bound
<1>1. PICK kept \in SUBSET earlier :
        /\ ms = kept \cup {m}
        /\ Cardinality(kept \cup {m}) = Min({bound, Cardinality(earlier \cup {m})})
  BY DEF Underway
<1>2. IsFiniteSet(kept) /\ IsFiniteSet(kept \cup {m})
  BY FS_Subset, FS_AddElement
<1>3. Cardinality(earlier \cup {m}) \in Nat
  BY FS_AddElement, FS_CardinalityType
<1>4. Min({bound, Cardinality(earlier \cup {m})}) <= bound
  <2> DEFINE two == {bound, Cardinality(earlier \cup {m})}
  <2>1. two \in SUBSET Nat /\ two # {} /\ bound \in two
    BY <1>3
  <2> QED
    BY <2>1, MinOfNaturals
<1> QED
  BY <1>1, <1>2, <1>4

\* There are more xids than messages underway, so the client finds a new one.
LEMMA XidIsFresh ==
  ASSUME MessageInv, NEW c \in Identifiers
  PROVE  /\ FreshXid(c) \in Nat \ {0}
         /\ \A m \in requests[c] \cup replies[c] : m.xid # FreshXid(c)
<1> DEFINE U == requests[c] \cup replies[c]
           n == MaxRequests[c] + MaxReplies
           left == Xids(c) \ {m.xid : m \in U}
<1>1. n \in Nat /\ Xids(c) = 1 .. (n + 1) /\ MaxRequests[c] \in Nat /\ MaxReplies \in Nat
  BY DhcpNetworkAssumption DEF Xids
<1>2. IsFiniteSet(U) /\ Cardinality(U) \in Nat /\ Cardinality(U) <= n
  <2>1. IsFiniteSet(requests[c]) /\ IsFiniteSet(replies[c])
        /\ Cardinality(requests[c]) <= MaxRequests[c] /\ Cardinality(replies[c]) <= MaxReplies
    BY DEF MessageInv
  <2>2. IsFiniteSet(requests[c] \cap replies[c]) /\ Cardinality(requests[c] \cap replies[c]) \in Nat
        /\ Cardinality(requests[c]) \in Nat /\ Cardinality(replies[c]) \in Nat
    BY <2>1, FS_Subset, FS_CardinalityType
  <2>3. IsFiniteSet(U) /\ Cardinality(U) = Cardinality(requests[c]) + Cardinality(replies[c])
                            - Cardinality(requests[c] \cap replies[c])
    BY <2>1, FS_Union
  <2> HIDE DEF U
  <2> QED
    BY <1>1, <2>1, <2>2, <2>3, FS_CardinalityType
<1>3. IsFiniteSet(Xids(c)) /\ Cardinality(Xids(c)) = n + 1
  BY <1>1, FS_Interval
<1> HIDE DEF U, n
<1>4. left # {}
  <2> SUFFICES ASSUME \A x \in Xids(c) : \E m \in U : m.xid = x PROVE FALSE
    OBVIOUS
  <2> DEFINE f == [x \in Xids(c) |-> CHOOSE m \in U : m.xid = x]
  <2>1. \A x \in Xids(c) : f[x] \in U /\ f[x].xid = x
    OBVIOUS
  <2>2. f \in [Xids(c) -> U]
    BY <2>1
  <2>3. Cardinality(U) < Cardinality(Xids(c))
    BY <1>1, <1>2, <1>3
  <2> HIDE DEF f
  <2>4. \E x, y \in Xids(c) : x # y /\ f[x] = f[y]
    BY <1>2, <1>3, <2>2, <2>3, FS_PigeonHole
  <2> QED
    BY <2>1, <2>4
<1>5. left \in SUBSET Nat
  BY <1>1
<1>6. FreshXid(c) \in left
  BY <1>4, <1>5, MinOfNaturals DEF FreshXid, U
<1> QED
  BY <1>1, <1>6 DEF U

-----------------------------------------------------------------------------
(***************************************************************************)
(* What the steps of a client do.  One begins an exchange with a new xid   *)
(* or goes on with the offer it has taken, or it sends nothing.            *)
(***************************************************************************)
IsAskable(c, k) ==
  /\ k \in ClientType
  /\ k.state \in Asking /\ k.xid # 0 /\ k.run <= run
  /\ k.state # "SELECTING" => k.address \in PoolIps
  /\ k.state = "RENEWING" =>
       Uses(c) /\ k.address = clients[c].address /\ k.run = clients[c].run
  /\ \/ \A m \in requests[c] \cup replies[c] : m.xid # k.xid
     \/ clients[c].state = "SELECTING" /\ k.state = "REQUESTING" /\ k.xid = clients[c].xid

\* Every request a client sends is one of these.
LEMMA ClientAsks ==
  ASSUME ClientInv, MessageInv, NEW c \in Identifiers,
         Discover(c) \/ Renew(c) \/ Reboot(c) \/ TakeOffer(c)
  PROVE  \E k : Ask(c, k) /\ IsAskable(c, k)
<1>1. /\ FreshXid(c) \in Nat \ {0}
      /\ \A m \in requests[c] \cup replies[c] : m.xid # FreshXid(c)
  BY XidIsFresh
<1>2. /\ run \in Nat /\ clients[c] \in ClientType /\ clients[c].run <= run
      /\ clients[c].state \notin {"INIT", "SELECTING"} => clients[c].address \in PoolIps
      /\ clients[c].state \in Asking <=> clients[c].xid # 0
  BY DEF ClientInv
<1> USE DEF IsAskable, Client, ClientType, Asking, Rebooting
<1>3. CASE Discover(c)
  <2> DEFINE k == Client("SELECTING", FreshXid(c), 0, 0)
  <2>1. Ask(c, k)
    BY <1>3 DEF Discover
  <2>2. IsAskable(c, k)
    BY <1>1, <1>2
  <2> QED
    BY <2>1, <2>2
<1>4. CASE Renew(c)
  <2> DEFINE k == Client("RENEWING", FreshXid(c), clients[c].address, clients[c].run)
  <2>1. Ask(c, k) /\ Uses(c)
    BY <1>4 DEF Renew, Uses
  <2>2. IsAskable(c, k)
    BY <1>1, <1>2, <2>1 DEF Uses
  <2> QED
    BY <2>1, <2>2
<1>5. CASE Reboot(c)
  <2>1. PICK s \in Rebooting : Ask(c, Client(s, FreshXid(c), clients[c].address, 0))
    BY <1>5 DEF Reboot
  <2> DEFINE k == Client(s, FreshXid(c), clients[c].address, 0)
  <2>2. Uses(c) /\ s # "RENEWING"
    BY <1>5 DEF Reboot, Rebooting
  <2>3. IsAskable(c, k)
    BY <1>1, <1>2, <2>2 DEF Uses
  <2> QED
    BY <2>1, <2>3
<1>6. CASE TakeOffer(c)
  <2>1. PICK m \in replies[c] :
          /\ AwaitsOffer(c, m)
          /\ Ask(c, Client("REQUESTING", m.xid, m.answer.yiaddr, 0))
    BY <1>6 DEF TakeOffer
  <2> DEFINE k == Client("REQUESTING", m.xid, m.answer.yiaddr, 0)
  <2>2. m.xid \in Nat \ {0} /\ m.answer.yiaddr \in PoolIps
    BY <2>1 DEF MessageInv, IsAnswer, AwaitsOffer
  <2>3. IsAskable(c, k)
    BY <1>2, <2>1, <2>2 DEF AwaitsOffer
  <2> QED
    BY <2>1, <2>3
<1> QED
  BY <1>3, <1>4, <1>5, <1>6

-----------------------------------------------------------------------------
(***************************************************************************)
(* The steps of the network.                                               *)
(***************************************************************************)

\* A step that makes no claim but on what the server has on record keeps the
\* claims apart.
LEMMA ClaimsStayApart ==
  ASSUME IInv, ClaimInv, [Next]_vars, run' = run,
         \A d \in Identifiers, a \in PoolIps, r \in 0 .. run :
           Claims(d, a, r)' => Claims(d, a, r) \/ (r = run /\ Holds(d, DWIPtoValue(a)))
  PROVE  ClaimInv'
<1>1. \A d \in Identifiers, a \in PoolIps, r \in 0 .. run :
        Claims(d, a, r)' => IF r = run THEN Holds(d, DWIPtoValue(a)) ELSE Claims(d, a, r)
  BY DEF ClaimInv
<1> SUFFICES ASSUME NEW c \in Identifiers, NEW a \in PoolIps, NEW r \in 0 .. run,
                    Claims(c, a, r)'
             PROVE  /\ r = run => Holds(c, DWIPtoValue(a))'
                    /\ \A d \in Identifiers : Claims(d, a, r)' => d = c
  BY DEF ClaimInv
<1>2. r = run => Holds(c, DWIPtoValue(a))'
  BY <1>1, HoldsStays DEF IInv
<1>3. ASSUME NEW d \in Identifiers, Claims(d, a, r)' PROVE d = c
  <2>1. CASE r = run
    BY <1>1, <1>3, <2>1, HoldsOnce DEF IInv
  <2>2. CASE r # run
    BY <1>1, <1>3, <2>2 DEF ClaimInv
  <2> QED
    BY <2>1, <2>2
<1> QED
  BY <1>2, <1>3

\* A client asks.
LEMMA AskStep ==
  ASSUME IInv, ClientInv, MessageInv, ExchangeInv, ClaimInv,
         NEW c \in Identifiers, NEW k, Ask(c, k), IsAskable(c, k)
  PROVE  ClientInv' /\ MessageInv' /\ ExchangeInv' /\ ClaimInv'
<1>1. /\ clients' = [clients EXCEPT ![c] = k]
      /\ UNCHANGED <<server, replies, run>>
  BY DEF Ask
<1>2. PICK ms \in Underway(requests[c], Message(c, k), MaxRequests[c]) :
        requests' = [requests EXCEPT ![c] = ms]
  BY DEF Ask
<1>3. ms \subseteq requests[c] \cup {Message(c, k)} /\ IsFiniteSet(ms) /\ Cardinality(ms) <= MaxRequests[c]
  BY UnderwayFacts, DhcpNetworkAssumption DEF MessageInv
<1>4. /\ k \in ClientType /\ k.state \in Asking /\ k.xid # 0 /\ k.run <= run
      /\ k.state # "SELECTING" => k.address \in PoolIps
  BY DEF IsAskable
<1>5. Message(c, k) \in AskedBy(c) /\ Message(c, k).xid = k.xid
  BY <1>4, MessageIsAsked
<1>6. clients'[c] = k /\ \A d \in Identifiers \ {c} : clients'[d] = clients[d]
  BY <1>1 DEF ClientInv
<1>7. requests'[c] = ms /\ \A d \in Identifiers \ {c} : requests'[d] = requests[d]
  BY <1>2 DEF MessageInv
<1>8. ClientInv'
  <2>1. clients' \in [Identifiers -> ClientType]
    BY <1>1, <1>4 DEF ClientInv
  <2> QED
    BY <1>1, <1>4, <1>6, <2>1 DEF ClientInv, Asking, Rebooting
<1>9. MessageInv'
  <2>1. requests' = [d \in Identifiers |-> requests'[d]]
    BY <1>2 DEF MessageInv
  <2>2. \A m : IsAnswer(m)' <=> IsAnswer(m)
    BY <1>1 DEF IsAnswer
  <2> QED
    BY <1>1, <1>3, <1>5, <1>7, <2>1, <2>2 DEF MessageInv
<1>10. ExchangeInv'
  <2> SUFFICES ASSUME NEW d \in Identifiers
               PROVE  /\ \A m \in requests'[d] : m.xid = clients'[d].xid => IsCurrentRequest(d, m)'
                      /\ \A m \in replies[d] : m.xid = clients'[d].xid => IsCurrentReply(d, m)'
    BY <1>1 DEF ExchangeInv
  <2>1. CASE d # c
    BY <1>6, <1>7, <2>1 DEF ExchangeInv, IsCurrentRequest, IsCurrentReply
  <2>2. CASE d = c /\ \A m \in requests[c] \cup replies[c] : m.xid # k.xid
    BY <1>3, <1>5, <1>6, <1>7, <2>2 DEF IsCurrentRequest
  <2>3. CASE /\ d = c
             /\ clients[c].state = "SELECTING" /\ k.state = "REQUESTING" /\ k.xid = clients[c].xid
    <3>1. ASSUME NEW m \in requests[c], m.xid = k.xid PROVE m.datagram.type = "DISCOVER"
      <4>1. m = Message(c, clients[c])
        BY <2>3, <3>1 DEF ExchangeInv, IsCurrentRequest
      <4> QED
        BY <2>3, <4>1 DEF Message, Datagram
    <3>2. \A m \in requests'[c] : m.xid = clients'[c].xid => IsCurrentRequest(c, m)'
      BY <1>3, <1>6, <1>7, <2>3, <3>1 DEF IsCurrentRequest
    <3>3. \A m \in replies[c] : m.xid = clients'[c].xid => IsCurrentReply(c, m)'
      BY <1>6, <2>3 DEF ExchangeInv, IsCurrentReply
    <3> QED
      BY <2>3, <3>2, <3>3
  <2> QED
    BY <2>1, <2>2, <2>3 DEF IsAskable
<1>11. ClaimInv'
  <2>1. \A d \in Identifiers, a \in PoolIps, r \in 0 .. run : Claims(d, a, r)' => Claims(d, a, r)
    <3> SUFFICES ASSUME NEW d \in Identifiers, NEW a \in PoolIps, NEW r \in 0 .. run, Claims(d, a, r)'
                 PROVE  Claims(d, a, r)
      OBVIOUS
    <3>1. CASE d # c
      BY <1>1, <1>6, <3>1 DEF Claims, Uses
    <3>2. CASE d = c
      <4>1. k.state # "BOUND"
        BY <1>4 DEF Asking, Rebooting
      <4> QED
        BY <1>1, <1>6, <3>2, <4>1 DEF Claims, Uses, IsAskable
    <3> QED
      BY <3>1, <3>2
  <2>2. [Next]_vars
    BY <1>1 DEF server, vars
  <2> QED
    BY <1>1, <2>1, <2>2, ClaimsStayApart
<1> QED
  BY <1>8, <1>9, <1>10, <1>11

\* A client begins anew, or takes the decision of the server.
LEMMA QuietClientStep ==
  ASSUME IInv, ClientInv, MessageInv, ExchangeInv, ClaimInv,
         NEW c \in Identifiers, BeginAnew(c) \/ TakeDecision(c)
  PROVE  ClientInv' /\ MessageInv' /\ ExchangeInv' /\ ClaimInv'
<1>1. UNCHANGED <<server, requests, replies, run>>
  BY DEF BeginAnew, TakeDecision
<1>2. \E k : /\ clients' = [clients EXCEPT ![c] = k]
             /\ \/ k = NewClient
                \/ \E m \in replies[c] :
                     m.answer.type = "ACK" /\ k = Client("BOUND", 0, m.answer.yiaddr, m.run)
  BY DEF BeginAnew, TakeDecision
<1>3. PICK k : /\ clients' = [clients EXCEPT ![c] = k]
               /\ \/ k = NewClient
                  \/ \E m \in replies[c] :
                       m.answer.type = "ACK" /\ k = Client("BOUND", 0, m.answer.yiaddr, m.run)
  BY <1>2
<1>4. run \in Nat
  BY DEF ClientInv
<1>5. /\ k \in ClientType /\ k.xid = 0 /\ k.state \in {"INIT", "BOUND"} /\ k.run <= run
      /\ k.state = "BOUND" => k.address \in PoolIps /\ Claims(c, k.address, k.run)
  <2>1. CASE k = NewClient
    BY <1>4, <2>1 DEF NewClient, Client, ClientType
  <2>2. ASSUME NEW m \in replies[c], m.answer.type = "ACK",
               k = Client("BOUND", 0, m.answer.yiaddr, m.run)
        PROVE  /\ k \in ClientType /\ k.xid = 0 /\ k.state = "BOUND" /\ k.run <= run
               /\ k.address \in PoolIps /\ Claims(c, k.address, k.run)
    <3>1. m.answer.yiaddr \in PoolIps /\ m.run \in 0 .. run
      BY <2>2 DEF MessageInv, IsAnswer
    <3> QED
      BY <1>4, <2>2, <3>1 DEF Client, ClientType, Claims
  <2> QED
    BY <1>3, <2>1, <2>2
<1>6. clients'[c] = k /\ \A d \in Identifiers \ {c} : clients'[d] = clients[d]
  BY <1>3 DEF ClientInv
<1>7. ClientInv'
  <2>1. clients' \in [Identifiers -> ClientType]
    BY <1>3, <1>5 DEF ClientInv
  <2> QED
    BY <1>1, <1>5, <1>6, <2>1 DEF ClientInv, Asking, Rebooting
<1>8. MessageInv'
  <2>1. \A m : IsAnswer(m)' <=> IsAnswer(m)
    BY <1>1 DEF IsAnswer
  <2> QED
    BY <1>1, <2>1 DEF MessageInv
<1>9. ExchangeInv'
  <2> SUFFICES ASSUME NEW d \in Identifiers
               PROVE  /\ \A m \in requests[d] : m.xid = clients'[d].xid => IsCurrentRequest(d, m)'
                      /\ \A m \in replies[d] : m.xid = clients'[d].xid => IsCurrentReply(d, m)'
    BY <1>1 DEF ExchangeInv
  <2>1. CASE d # c
    BY <1>6, <2>1 DEF ExchangeInv, IsCurrentRequest, IsCurrentReply
  <2>2. CASE d = c
    <3>1. \A m \in requests[c] : m.xid # 0
      BY AskedFacts DEF MessageInv
    <3>2. \A m \in replies[c] : m.xid # 0
      BY DEF MessageInv, IsAnswer
    <3> QED
      BY <1>5, <1>6, <2>2, <3>1, <3>2
  <2> QED
    BY <2>1, <2>2
<1>10. ClaimInv'
  <2>1. \A d \in Identifiers, a \in PoolIps, r \in 0 .. run : Claims(d, a, r)' => Claims(d, a, r)
    <3> SUFFICES ASSUME NEW d \in Identifiers, NEW a \in PoolIps, NEW r \in 0 .. run, Claims(d, a, r)'
                 PROVE  Claims(d, a, r)
      OBVIOUS
    <3>1. CASE Uses(d)' /\ clients'[d].address = a /\ clients'[d].run = r
      <4>1. CASE d # c
        BY <1>6, <3>1, <4>1 DEF Claims, Uses
      <4>2. CASE d = c
        BY <1>5, <1>6, <3>1, <4>2 DEF Uses
      <4> QED
        BY <4>1, <4>2
    <3>2. CASE \E m \in replies[d] : m.answer.type = "ACK" /\ m.answer.yiaddr = a /\ m.run = r
      BY <3>2 DEF Claims
    <3> QED
      BY <1>1, <3>1, <3>2 DEF Claims
  <2>2. [Next]_vars
    BY <1>1 DEF server, vars
  <2> QED
    BY <1>1, <2>1, <2>2, ClaimsStayApart
<1> QED
  BY <1>7, <1>8, <1>9, <1>10

\* The server starts, or its thread is at the head of its loop.
LEMMA QuietServerStep ==
  ASSUME IInv, ClientInv, MessageInv, ExchangeInv, ClaimInv, StartServer \/ CheckServer
  PROVE  ClientInv' /\ MessageInv' /\ ExchangeInv' /\ ClaimInv' /\ [Next]_vars
<1>1. UNCHANGED <<clients, requests, replies, run>> /\ [Next]_vars
  BY DEF StartServer, CheckServer, Next, OwnerStep
<1>2. ClientInv' /\ ExchangeInv'
  BY <1>1 DEF ClientInv, ExchangeInv, IsCurrentRequest, IsCurrentReply
<1>3. MessageInv'
  BY <1>1 DEF MessageInv, IsAnswer
<1>4. \A d \in Identifiers, a \in PoolIps, r \in 0 .. run : Claims(d, a, r)' => Claims(d, a, r)
  BY <1>1 DEF Claims, Uses
<1> QED
  BY <1>1, <1>2, <1>3, <1>4, ClaimsStayApart

\* The server handles a message of client c.
LEMMA ServeStep ==
  ASSUME IInv, ClientInv, MessageInv, ExchangeInv, ClaimInv,
         NEW c \in Identifiers, NEW m \in requests[c], Serve(c, m)
  PROVE  ClientInv' /\ MessageInv' /\ ExchangeInv' /\ ClaimInv' /\ [Next]_vars
<1> DEFINE d == m.datagram
<1>1. UNCHANGED <<clients, requests, run>> /\ Handle(d) /\ run \in Nat
  BY DEF Serve, ClientInv
<1>2. m \in AskedBy(c) /\ m.xid \in Nat \ {0} /\ d \in Datagrams
  BY AskedFacts DEF MessageInv
<1>3. [Next]_vars
  BY <1>1, <1>2 DEF Next, Receive
<1>4. ClientInv'
  BY <1>1 DEF ClientInv
<1>5. CASE reply'.type = "NONE"
  <2>1. replies' = replies
    BY <1>5 DEF Serve
  <2>2. MessageInv' /\ ExchangeInv'
    BY <1>1, <2>1 DEF MessageInv, IsAnswer, ExchangeInv, IsCurrentRequest, IsCurrentReply
  <2>3. \A b \in Identifiers, a \in PoolIps, r \in 0 .. run : Claims(b, a, r)' => Claims(b, a, r)
    BY <1>1, <2>1 DEF Claims, Uses
  <2> QED
    BY <1>1, <1>3, <1>4, <2>2, <2>3, ClaimsStayApart
<1>6. CASE reply'.type # "NONE"
  <2>1. PICK n : n = Reply(m)
    OBVIOUS
  <2>2. n.xid = m.xid /\ n.run = run /\ n.answer = reply'
    BY <2>1 DEF Reply
  <2>3. \/ /\ n.answer.type = "OFFER" /\ d.type = "DISCOVER"
           /\ n.answer.yiaddr \in PoolIps /\ n.answer.dest = INADDR_BROADCAST
        \/ /\ n.answer.type = "ACK" /\ d.type = "REQUEST"
           /\ n.answer.yiaddr \in PoolIps
           /\ Holds(c, DWIPtoValue(n.answer.yiaddr))
           /\ IF d.ciaddr = 0 THEN n.answer.dest = INADDR_BROADCAST
              ELSE n.answer.dest = d.ciaddr /\ n.answer.yiaddr = d.ciaddr
        \/ /\ n.answer.type = "NAK" /\ d.type = "REQUEST"
           /\ n.answer.dest = INADDR_BROADCAST
           /\ ~Holds(c, DWIPtoValue(d.ciaddr))
    BY <1>1, <1>2, <1>6, <2>2, AnswerFacts DEF IInv
  <2>4. PICK ms \in Underway(replies[c], n, MaxReplies) : replies' = [replies EXCEPT ![c] = ms]
    BY <1>6, <2>1 DEF Serve
  <2>5. ms \subseteq replies[c] \cup {n} /\ IsFiniteSet(ms) /\ Cardinality(ms) <= MaxReplies
    BY UnderwayFacts, DhcpNetworkAssumption DEF MessageInv
  <2>6. replies'[c] = ms /\ \A b \in Identifiers \ {c} : replies'[b] = replies[b]
    BY <2>4 DEF MessageInv
  <2>7. MessageInv'
    <3>1. replies' = [b \in Identifiers |-> replies'[b]]
      BY <2>4 DEF MessageInv
    <3>2. IsAnswer(n)' /\ \A b \in Identifiers : \A o \in replies[b] : IsAnswer(o)'
      BY <1>1, <1>2, <2>2, <2>3 DEF IsAnswer, MessageInv
    <3>3. \A b \in Identifiers : \A o \in replies'[b] : IsAnswer(o)'
      BY <2>5, <2>6, <3>2
    <3>4. \A b \in Identifiers : IsFiniteSet(replies'[b]) /\ Cardinality(replies'[b]) <= MaxReplies
      BY <2>5, <2>6 DEF MessageInv
    <3> QED
      BY <1>1, <3>1, <3>3, <3>4 DEF MessageInv
  <2>8. ExchangeInv'
    <3>1. ASSUME m.xid = clients[c].xid PROVE IsCurrentReply(c, n)
      <4> DEFINE k == clients[c]
      <4>1. k \in ClientType /\ k.run <= run /\ k.xid # 0 /\ k.state \in Asking
        BY <1>2, <3>1 DEF ClientInv
      <4>2. d.type # "DISCOVER" => d = Datagram(c, k)
        BY <3>1 DEF ExchangeInv, IsCurrentRequest, Message
      <4>3. CASE k.state = "RENEWING"
        <5>1. d = Datagram(c, k)
          BY <3>1, <4>3 DEF ExchangeInv, IsCurrentRequest, Message
        <5>2. d.type = "REQUEST" /\ d.ciaddr = k.address
          BY <4>3, <5>1 DEF Datagram
        <5>3. k.address \in PoolIps /\ k.address # 0
          BY <4>3, PoolIpFacts DEF ClientInv, PoolIps
        <5>4. CASE n.answer.type = "ACK"
          BY <2>3, <4>3, <5>2, <5>3, <5>4 DEF IsCurrentReply
        <5>5. CASE n.answer.type = "NAK"
          <6>1. ~Holds(c, DWIPtoValue(k.address)) /\ n.answer.dest = INADDR_BROADCAST
            BY <2>3, <5>2, <5>5
          <6>2. Claims(c, k.address, k.run) /\ k.run \in 0 .. run
            BY <4>1, <4>3 DEF Claims, Uses, ClientType
          <6>3. k.run # run
            BY <5>3, <6>1, <6>2 DEF ClaimInv
          <6>4. k.run < run
            BY <1>1, <6>2, <6>3
          <6> QED
            BY <2>2, <4>3, <5>5, <6>1, <6>4 DEF IsCurrentReply
        <5> QED
          BY <2>3, <5>2, <5>4, <5>5
      <4>4. CASE k.state = "REBOOTING-CIADDR"
        BY <2>3, <4>4 DEF IsCurrentReply
      <4>5. CASE k.state \notin {"RENEWING", "REBOOTING-CIADDR"}
        <5>1. d.ciaddr = 0
          <6>1. d.type = "DISCOVER" => d.ciaddr = 0
            BY <1>2, AskedFacts
          <6> QED
            BY <4>2, <4>5, <6>1 DEF Datagram
        <5> QED
          BY <2>3, <4>5, <5>1 DEF IsCurrentReply
      <4> QED
        BY <4>3, <4>4, <4>5
    <3>2. \A b \in Identifiers : \A o \in replies'[b] : o.xid = clients[b].xid => IsCurrentReply(b, o)
      BY <2>2, <2>5, <2>6, <3>1 DEF ExchangeInv
    <3>3. \A b, o : IsCurrentReply(b, o)' <=> IsCurrentReply(b, o)
      BY <1>1 DEF IsCurrentReply
    <3>4. \A b \in Identifiers :
            \A o \in requests'[b] : o.xid = clients'[b].xid => IsCurrentRequest(b, o)'
      BY <1>1 DEF ExchangeInv, IsCurrentRequest
    <3> QED
      BY <1>1, <3>2, <3>3, <3>4 DEF ExchangeInv
  <2>9. \A b \in Identifiers, a \in PoolIps, r \in 0 .. run :
          Claims(b, a, r)' => Claims(b, a, r) \/ (r = run /\ Holds(b, DWIPtoValue(a)))
    <3> SUFFICES ASSUME NEW b \in Identifiers, NEW a \in PoolIps, NEW r \in 0 .. run, Claims(b, a, r)'
                 PROVE  Claims(b, a, r) \/ (r = run /\ Holds(b, DWIPtoValue(a)))
      OBVIOUS
    <3>1. CASE Uses(b)' /\ clients'[b].address = a /\ clients'[b].run = r
      BY <1>1, <3>1 DEF Claims, Uses
    <3>2. CASE \E o \in replies'[b] : o.answer.type = "ACK" /\ o.answer.yiaddr = a /\ o.run = r
      <4>1. PICK o \in replies'[b] : o.answer.type = "ACK" /\ o.answer.yiaddr = a /\ o.run = r
        BY <3>2
      <4>2. CASE o \in replies[b]
        BY <4>1, <4>2 DEF Claims
      <4>3. CASE b = c /\ o = n
        BY <2>2, <2>3, <4>1, <4>3
      <4> QED
        BY <2>5, <2>6, <4>1, <4>2, <4>3
    <3> QED
      BY <3>1, <3>2 DEF Claims
  <2> QED
    BY <1>1, <1>3, <1>4, <2>7, <2>8, <2>9, ClaimsStayApart
<1> QED
  BY <1>5, <1>6

\* The process starts again: nobody has a claim on the new run.
LEMMA RestartStep ==
  ASSUME IInv, ClientInv, MessageInv, ExchangeInv, ClaimInv, RestartProcess
  PROVE  ClientInv' /\ MessageInv' /\ ExchangeInv' /\ ClaimInv'
<1>1. UNCHANGED <<clients, requests, replies>> /\ run' = run + 1 /\ run \in Nat
  BY DEF RestartProcess, ClientInv
<1>2. ClientInv' /\ ExchangeInv'
  <2>1. \A c \in Identifiers : clients[c].run \in Nat /\ clients[c].run <= run
    BY DEF ClientInv, ClientType
  <2>2. \A c \in Identifiers : clients[c].run <= run + 1
    BY <1>1, <2>1
  <2>3. ClientInv'
    BY <1>1, <2>2 DEF ClientInv
  <2> QED
    BY <1>1, <2>3 DEF ExchangeInv, IsCurrentRequest, IsCurrentReply
<1>3. MessageInv'
  <2>1. \A m : IsAnswer(m) => IsAnswer(m)'
    BY <1>1 DEF IsAnswer
  <2> QED
    BY <1>1, <2>1 DEF MessageInv
<1>4. ClaimInv'
  <2> SUFFICES ASSUME NEW c \in Identifiers, NEW a \in PoolIps, NEW r \in 0 .. (run + 1),
                      Claims(c, a, r)'
               PROVE  /\ r # run + 1
                      /\ \A d \in Identifiers : Claims(d, a, r)' => d = c
    BY <1>1 DEF ClaimInv
  <2>1. \A d \in Identifiers : Claims(d, a, r)' <=> Claims(d, a, r)
    BY <1>1 DEF Claims, Uses
  <2>2. r \in 0 .. run
    <3>1. CASE clients[c].run = r
      BY <1>1, <3>1 DEF ClientInv, ClientType
    <3>2. CASE \E m \in replies[c] : m.run = r
      BY <1>1, <3>2 DEF MessageInv, IsAnswer
    <3> QED
      BY <2>1, <3>1, <3>2 DEF Claims
  <2> QED
    BY <1>1, <2>1, <2>2 DEF ClaimInv
<1> QED
  BY <1>2, <1>3, <1>4

-----------------------------------------------------------------------------
(***************************************************************************)
(* The invariant.                                                          *)
(***************************************************************************)

\* Nobody has asked for anything at first.
LEMMA NetworkInitInv == NetworkInit => NetworkInv
<1> SUFFICES ASSUME NetworkInit PROVE NetworkInv
  OBVIOUS
<1> USE DEF NetworkInit
<1>1. IInv
  BY InitIInv
<1>2. ClientInv
  BY DEF ClientInv, ClientType, NewClient, Client, Asking, Rebooting
<1>3. MessageInv
  <2>1. \A c \in Identifiers : MaxRequests[c] \in Nat /\ MaxReplies \in Nat
    BY DhcpNetworkAssumption
  <2> QED
    BY <2>1, FS_EmptySet DEF MessageInv
<1>4. ExchangeInv
  BY DEF ExchangeInv
<1>5. ClaimInv
  BY DEF ClaimInv, Claims, Uses, NewClient, Client
<1> QED
  BY <1>1, <1>2, <1>3, <1>4, <1>5 DEF NetworkInv

\* A process that starts again has a server like the first.
LEMMA RestartIsInit == RestartProcess => IInv'
<1>1. (Init => IInv)'
  BY InitIInv, PTL
<1>2. RestartProcess => Init'
  BY DEF RestartProcess, Init, max_addr_value
<1> QED
  BY <1>1, <1>2

\* Every step of clients, server and process keeps the invariant.
LEMMA NetworkStep == NetworkInv /\ [NetworkNext]_networkVars => NetworkInv'
<1> SUFFICES ASSUME NetworkInv, [NetworkNext]_networkVars PROVE NetworkInv'
  OBVIOUS
<1> USE DEF NetworkInv
<1>1. ASSUME NEW c \in Identifiers, Discover(c) \/ Renew(c) \/ Reboot(c) \/ TakeOffer(c)
      PROVE  NetworkInv'
  <2>1. PICK k : Ask(c, k) /\ IsAskable(c, k)
    BY <1>1, ClientAsks
  <2>2. IInv'
    BY <2>1, IInvStep DEF Ask, server, vars
  <2> QED
    BY <2>1, <2>2, AskStep
<1>2. ASSUME NEW c \in Identifiers, BeginAnew(c) \/ TakeDecision(c) PROVE NetworkInv'
  <2>1. IInv'
    BY <1>2, IInvStep DEF BeginAnew, TakeDecision, server, vars
  <2> QED
    BY <1>2, <2>1, QuietClientStep
<1>3. CASE StartServer \/ CheckServer
  BY <1>3, QuietServerStep, IInvStep
<1>4. ASSUME NEW c \in Identifiers, ServeAny(c) PROVE NetworkInv'
  BY <1>4, ServeStep, IInvStep DEF ServeAny
<1>5. CASE RestartProcess
  BY <1>5, RestartStep, RestartIsInit
<1>6. CASE UNCHANGED networkVars
  <2>1. IInv'
    BY <1>6, IInvStep DEF networkVars, server, vars
  <2>2. ClientInv' /\ ExchangeInv'
    BY <1>6 DEF networkVars, ClientInv, ExchangeInv, IsCurrentRequest, IsCurrentReply
  <2>3. MessageInv'
    BY <1>6 DEF networkVars, MessageInv, IsAnswer
  <2>4. \A d \in Identifiers, a \in PoolIps, r \in 0 .. run : Claims(d, a, r)' => Claims(d, a, r)
    BY <1>6 DEF networkVars, Claims, Uses
  <2>5. ClaimInv'
    BY <1>6, <2>4, ClaimsStayApart DEF networkVars, server, vars
  <2> QED
    BY <2>1, <2>2, <2>3, <2>5
<1> QED
  BY <1>1, <1>2, <1>3, <1>4, <1>5, <1>6
  DEF NetworkNext, ClientStep, ServerStep, TakeReply, Forget, GiveUp

\* The invariant of clients, messages, leases and server, and with it that of
\* DhcpServer, holds across restarts of the process.
THEOREM NetworkInvariance == NetworkSpec => []NetworkInv
BY NetworkInitInv, NetworkStep, PTL DEF NetworkSpec

-----------------------------------------------------------------------------
(***************************************************************************)
(* The properties.                                                         *)
(***************************************************************************)

\* However late, often or seldom the messages come, and however often the
\* process ends, one run gives no address to two clients.
THEOREM SharingIsOfTwoRuns == NetworkSpec => []SharingNeedsRestart
<1>1. ASSUME NetworkInv, NEW c \in Identifiers, NEW d \in Identifiers, Uses(c), Uses(d),
             clients[c].address = clients[d].address, clients[c].run = clients[d].run
      PROVE  c = d
  <2> DEFINE a == clients[c].address
             r == clients[c].run
  <2>1. a \in PoolIps
    BY <1>1 DEF NetworkInv, ClientInv, Uses
  <2>2. r \in 0 .. run
    BY <1>1 DEF NetworkInv, ClientInv, ClientType
  <2>3. Claims(c, a, r) /\ Claims(d, a, r)
    BY <1>1 DEF Claims
  <2> QED
    BY <1>1, <2>1, <2>2, <2>3 DEF NetworkInv, ClaimInv
<1>2. NetworkInv => SharingNeedsRestart
  BY <1>1 DEF SharingNeedsRestart
<1> QED
  BY NetworkInvariance, <1>2, PTL

\* The table has the lease of every client that got it in this run.
THEOREM LeasesAreKept == NetworkSpec => []LeasesAreOnRecord
<1>1. ASSUME NetworkInv, NEW c \in Identifiers, Uses(c), clients[c].run = run
      PROVE  Holds(c, DWIPtoValue(clients[c].address))
  <2>1. clients[c].address \in PoolIps /\ run \in 0 .. run
    BY <1>1 DEF NetworkInv, ClientInv, Uses
  <2>2. Claims(c, clients[c].address, run)
    BY <1>1 DEF Claims
  <2> QED
    BY <1>1, <2>1, <2>2 DEF NetworkInv, ClaimInv
<1>2. NetworkInv => LeasesAreOnRecord
  BY <1>1 DEF LeasesAreOnRecord
<1> QED
  BY NetworkInvariance, <1>2, PTL

\* Every reply a client waits for gets to where it can hear it, a broadcast or an
\* address it uses, unless it is the ACK to a client that set ciaddr when it
\* booted: in particular every OFFER, every NAK, and the ACKs of all others do.
THEOREM RepliesArrive == NetworkSpec => []RepliesReachTheirClient
<1>1. ASSUME NetworkInv, NEW c \in Identifiers, NEW m \in replies[c],
             AwaitsOffer(c, m) \/ AwaitsDecision(c, m)
      PROVE  \/ Reaches(m, c)
             \/ clients[c].state = "REBOOTING-CIADDR" /\ m.answer.type = "ACK"
  <2>1. IsCurrentReply(c, m)
    BY <1>1 DEF NetworkInv, ExchangeInv, AwaitsOffer, AwaitsDecision
  <2> QED
    BY <2>1 DEF IsCurrentReply, Reaches, Uses
<1>2. NetworkInv => RepliesReachTheirClient
  BY <1>1 DEF RepliesReachTheirClient
<1> QED
  BY NetworkInvariance, <1>2, PTL

\* No ACK moves a client to another address, and a NAK ends no lease the
\* server has on record.
THEOREM LeasesEndByRestartOnly == NetworkSpec => LeasesEndByRestart
<1>1. ASSUME NetworkInv, NEW c \in Identifiers, Uses(c), TakeDecision(c)
      PROVE  /\ Uses(c)' => clients'[c].address = clients[c].address
             /\ ~Uses(c)' => clients[c].run < run
  <2>1. PICK m \in replies[c] :
          /\ AwaitsDecision(c, m)
          /\ clients' = [clients EXCEPT ![c] =
                           IF m.answer.type = "ACK"
                           THEN Client("BOUND", 0, m.answer.yiaddr, m.run) ELSE NewClient]
    BY <1>1 DEF TakeDecision
  <2>2. clients[c].state = "RENEWING"
    BY <1>1, <2>1 DEF AwaitsDecision, Uses, Rebooting
  <2>3. IsCurrentReply(c, m)
    BY <1>1, <2>1 DEF NetworkInv, ExchangeInv, AwaitsDecision
  <2>4. clients'[c] = IF m.answer.type = "ACK"
                      THEN Client("BOUND", 0, m.answer.yiaddr, m.run) ELSE NewClient
    BY <1>1, <2>1 DEF NetworkInv, ClientInv
  <2>5. m.run \in 0 .. run /\ run \in Nat /\ clients[c].run \in Nat
    BY <1>1 DEF NetworkInv, MessageInv, IsAnswer, ClientInv, ClientType
  <2>6. CASE m.answer.type = "ACK"
    BY <2>2, <2>3, <2>4, <2>6 DEF IsCurrentReply, Client, Uses
  <2>7. CASE m.answer.type = "NAK"
    BY <2>2, <2>3, <2>4, <2>5, <2>7 DEF IsCurrentReply, NewClient, Client, Uses
  <2> QED
    BY <2>1, <2>6, <2>7 DEF AwaitsDecision
<1>2. ASSUME NetworkInv, NetworkNext, NEW c \in Identifiers, Uses(c), Uses(c)'
      PROVE  clients'[c].address = clients[c].address
  <2>1. ASSUME NEW d \in Identifiers, NEW k, clients' = [clients EXCEPT ![d] = k], d # c
        PROVE  clients'[c] = clients[c]
    BY <1>2, <2>1 DEF NetworkInv, ClientInv
  <2>2. ASSUME NEW d \in Identifiers, Discover(d) \/ Renew(d) \/ Reboot(d) \/ TakeOffer(d)
        PROVE  clients'[c].address = clients[c].address
    <3>1. PICK k : Ask(d, k) /\ IsAskable(d, k)
      BY <1>2, <2>2, ClientAsks DEF NetworkInv
    <3>2. clients' = [clients EXCEPT ![d] = k]
      BY <3>1 DEF Ask
    <3>3. CASE d = c
      <4>1. clients'[c] = k
        BY <1>2, <3>2, <3>3 DEF NetworkInv, ClientInv
      <4>2. k.state = "RENEWING"
        BY <1>2, <3>1, <4>1 DEF Uses, IsAskable, Asking, Rebooting
      <4> QED
        BY <3>1, <3>3, <4>1, <4>2 DEF IsAskable
    <3> QED
      BY <2>1, <3>2, <3>3
  <2>3. ASSUME NEW d \in Identifiers, BeginAnew(d) \/ TakeDecision(d)
        PROVE  clients'[c].address = clients[c].address
    <3>1. CASE d = c /\ BeginAnew(d)
      BY <1>2, <3>1 DEF BeginAnew, NetworkInv, ClientInv, Uses, NewClient, Client
    <3>2. CASE d = c /\ TakeDecision(d)
      BY <1>1, <1>2, <3>2
    <3>3. CASE d # c
      BY <2>1, <2>3, <3>3 DEF BeginAnew, TakeDecision
    <3> QED
      BY <2>3, <3>1, <3>2, <3>3
  <2>4. CASE ServerStep \/ RestartProcess
    BY <2>4 DEF ServerStep, StartServer, CheckServer, ServeAny, Serve, RestartProcess
  <2> QED
    BY <1>2, <2>2, <2>3, <2>4 DEF NetworkNext, ClientStep, TakeReply, Forget, GiveUp
<1>3. ASSUME NetworkInv, NEW c \in Identifiers, Uses(c), TakeReply(c), ~Uses(c)'
      PROVE  clients[c].run < run
  BY <1>1, <1>3 DEF TakeReply, TakeOffer, AwaitsOffer, Uses
<1>4. NetworkInv /\ [NetworkNext]_networkVars =>
        [\A c \in Identifiers :
           /\ Uses(c) /\ Uses(c)' => clients'[c].address = clients[c].address
           /\ Uses(c) /\ TakeReply(c) /\ ~Uses(c)' => clients[c].run < run]_networkVars
  BY <1>2, <1>3
<1> QED
  BY NetworkInvariance, <1>4, PTL DEF NetworkSpec, LeasesEndByRestart

\* In a pool of three addresses or more, without a failure of LocalAlloc, a
\* client is refused only when every address is in use, in every run.
THEOREM NetworkRefusalsAreJustified ==
  ASSUME ~LocalAllocFails, max_addr_value - min_addr_value >= 2
  PROVE  NetworkSpec => []RefusalMeansExhausted
<1>1. NetworkInit => LastOfferInv
  BY DEF NetworkInit, Init, LastOfferInv
<1>2. ASSUME NetworkInv, LastOfferInv, [NetworkNext]_networkVars PROVE LastOfferInv'
  <2>1. CASE [Next]_vars
    BY <1>2, <2>1, LastOfferStep DEF NetworkInv, IInv
  <2>2. CASE RestartProcess
    BY <2>2 DEF RestartProcess, LastOfferInv
  <2>3. ASSUME NEW c \in Identifiers, ServeAny(c) PROVE [Next]_vars
    BY <1>2, <2>3, ServeStep DEF ServeAny, NetworkInv
  <2>4. CASE StartServer \/ CheckServer
    BY <1>2, <2>1, <2>4, QuietServerStep DEF NetworkInv
  <2>5. CASE ClientStep \/ UNCHANGED networkVars
    BY <2>1, <2>5 DEF ClientStep, Discover, Renew, Reboot, Forget, GiveUp, BeginAnew,
                      TakeReply, TakeOffer, TakeDecision, Ask, networkVars, server, vars
  <2> QED
    BY <1>2, <2>1, <2>2, <2>3, <2>4, <2>5 DEF NetworkNext, ServerStep
<1>3. NetworkInv /\ LastOfferInv => RefusalMeansExhausted
  BY RefusalFact DEF NetworkInv, IInv
<1> QED
  BY <1>1, <1>2, <1>3, NetworkInvariance, PTL DEF NetworkSpec
=============================================================================
