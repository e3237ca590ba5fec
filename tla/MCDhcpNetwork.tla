---------------------------- MODULE MCDhcpNetwork ----------------------------
(***************************************************************************)
(* Values for model-checking DhcpNetwork: two clients, one of them         *)
(* unsteady, in the pool 4 .. 6 with the server at 5, which they use up,   *)
(* or, for liveness, 4 .. 7 with the server at 3.                          *)
(***************************************************************************)
EXTENDS DhcpNetwork

CONSTANTS c1, c2

FirstClient == {c1}
SecondClient == {c2}
TwoClients == {c1, c2}

\* One message of each client is underway at a time; or two of the first, so
\* that its own overtake each other.
OneRequest == [c \in Identifiers |-> 1]
TwoOfTheFirst == [c \in Identifiers |-> IF c = c1 THEN 2 ELSE 1]

\* All a client can ask.
ClientDatagrams ==
  {Datagram(c, Client(s, 0, a, 0)) :
     c \in Identifiers, a \in {DWValuetoIP(v) : v \in Pool},
     s \in {"SELECTING", "REQUESTING", "RENEWING"} \cup Rebooting}
=============================================================================
