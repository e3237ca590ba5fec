---------------------------- MODULE AddressBinding ----------------------------
(***************************************************************************)
(* What a DhcpServer promises, without threads, sockets, vectors or scans: *)
(* while its service is open it binds each client to an address of the     *)
(* pool that nobody else has, for good, and tells a client of no address   *)
(* but its own.  The service opens once and, once closed, stays closed.    *)
(***************************************************************************)
EXTENDS Functions

CONSTANTS
  Clients,          \* the clients that give an identifier
  Unnamed,          \* stands for every client that does not
  Addresses,        \* the pool
  ServerAddress,    \* the server's own address
  NoAnswer          \* the answer when nothing is said

VARIABLES
  service,    \* "unopened", "open" or "closed"
  binding,    \* the addresses of the clients bound so far
  withheld,   \* the addresses out of use: the server's and unnamed clients'
  answer      \* what was said last: [kind, client, address] or NoAnswer

vars == <<service, binding, withheld, answer>>

Free == Addresses \ (Range(binding) \cup withheld)

Say(kind, client, address) == [kind |-> kind, client |-> client, address |-> address]

Init ==
  /\ service = "unopened"
  /\ binding = <<>>
  /\ withheld = {}
  /\ answer = NoAnswer

Open ==
  /\ service = "unopened"
  /\ service' = "open"
  /\ withheld' = {ServerAddress}
  /\ answer' = NoAnswer
  /\ UNCHANGED binding

Close ==
  /\ service \in {"unopened", "open"}
  /\ service' = "closed"
  /\ answer' = NoAnswer
  /\ UNCHANGED <<binding, withheld>>

\* A client's first offer takes a free address.  The offer may be lost with
\* the service, whose socket fails: the address stays bound.
Bind(client, address) ==
  /\ client \notin DOMAIN binding /\ address \in Free
  /\ binding' = [c \in DOMAIN binding \cup {client} |->
                    IF c = client THEN address ELSE binding[c]]
  /\ UNCHANGED withheld
  /\ \/ service' = service /\ answer' = Say("OFFER", client, address)
     \/ service' = "closed" /\ answer' = NoAnswer

\* So does every offer to an unnamed client.
Withhold(address) ==
  /\ address \in Free
  /\ withheld' = withheld \cup {address}
  /\ UNCHANGED binding
  /\ \/ service' = service /\ answer' = Say("OFFER", Unnamed, address)
     \/ service' = "closed" /\ answer' = NoAnswer

Confirm(kind, client) ==
  /\ client \in DOMAIN binding
  /\ answer' = Say(kind, client, binding[client])
  /\ UNCHANGED <<service, binding, withheld>>

Refuse(client) ==
  /\ answer' = Say("NAK", client, 0)
  /\ UNCHANGED <<service, binding, withheld>>

Serve ==
  /\ service = "open"
  /\ \/ \E client \in Clients, address \in Addresses : Bind(client, address)
     \/ \E address \in Addresses : Withhold(address)
     \/ \E kind \in {"OFFER", "ACK"}, client \in Clients : Confirm(kind, client)
     \/ \E client \in Clients \cup {Unnamed} : Refuse(client)

\* Whatever else goes on, nothing is said.
Pause == answer' = NoAnswer /\ UNCHANGED <<service, binding, withheld>>

Next == Open \/ Close \/ Serve \/ Pause

Spec == Init /\ [][Next]_vars
=============================================================================
