---------------------------- MODULE MCDhcpServer ----------------------------
(***************************************************************************)
(* Values for model-checking DhcpServer.  Octets have two values, so there *)
(* are 16 DWORDs, and the DWORD of a value is its four bits reversed: the  *)
(* values 4 .. 8 are 2, 10, 6, 14, 1 in network order, 12 is the value 3.  *)
(* The pools are 4 .. 8 with the server at 5, inside, and 4 .. 7 with the  *)
(* server at 3, outside, as ConfigPoeAdapter has them.                     *)
(***************************************************************************)
EXTENDS DhcpServer

CONSTANTS c1, c2

AllIdentifiers == {c1, c2}

Datagram(type, chaddr) ==
  [type |-> type, ownHostName |-> FALSE, chaddr |-> chaddr,
   clientIdentifier |-> NoOption, requestedIp |-> NoOption, serverIdentifier |-> NoOption,
   ciaddr |-> 0, yiaddr |-> 0, giaddr |-> 0, broadcast |-> FALSE]

\* Every client discovers and requests under its chaddr; a client also under
\* an option 61 that another has as its chaddr, and under an empty one.
Discovers ==
  {Datagram("DISCOVER", c) : c \in {c1, c2}}
    \cup {[Datagram("DISCOVER", c1) EXCEPT !.clientIdentifier = id] : id \in {c2, EmptyId}}
    \cup {[Datagram("DISCOVER", c1) EXCEPT !.broadcast = TRUE, !.giaddr = 12]}

\* With and without the option 50 (an address of the pool, another, or
\* 255.255.255.255), the server's own identifier or another's, and a ciaddr.
Requests ==
  {[Datagram("REQUEST", c) EXCEPT !.requestedIp = r, !.serverIdentifier = s, !.ciaddr = a] :
      c \in {c1, c2}, r \in {NoOption, 2, 6, 12, 15},
      s \in {NoOption, ServerAddress, 9}, a \in {0, 6}}
    \cup {[Datagram("REQUEST", c1) EXCEPT !.clientIdentifier = EmptyId, !.requestedIp = 2],
          [Datagram("REQUEST", c1) EXCEPT !.serverIdentifier = ServerAddress, !.yiaddr = 6]}

PassedOver ==
  {Datagram("NONE", c1), Datagram("RELEASE", c1), Datagram("DECLINE", c1)}
    \cup {[Datagram("DISCOVER", c1) EXCEPT !.ownHostName = TRUE]}

AllDatagrams == Discovers \cup Requests \cup PassedOver
=============================================================================
