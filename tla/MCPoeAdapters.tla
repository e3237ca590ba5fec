---------------------------- MODULE MCPoeAdapters ----------------------------
(***************************************************************************)
(* Values for model-checking PoeAdapters: machines with up to four PoE     *)
(* adapters, the main adapter first, last, absent, or one of them, on each *)
(* segment the plan may meet; a last host that cuts the third range short  *)
(* and leaves no room for the fourth.                                      *)
(***************************************************************************)
EXTENDS PoeAdapters

CONSTANTS Ethernet, I211, Elsewhere, NoAddress

AllModels == {Ethernet, I211}
SomeAddresses == {Elsewhere, NoAddress}

Info(description, address, gate_way) ==
  [description |-> description, ip |-> Ip(address, gate_way)]

NewPoe == Info({I211}, NoAddress, NoAddress)

Mains == {Info({Ethernet}, Elsewhere, g) : g \in {Elsewhere} \cup {Gateway(s) : s \in 50 .. 54}}
            \cup {Info({Ethernet}, Gateway(51), Gateway(50))}

AllMachines ==
  {<<m, NewPoe, NewPoe, NewPoe, NewPoe>> : m \in Mains}
    \cup {<<NewPoe, Info({}, Elsewhere, Elsewhere), NewPoe, m>> : m \in Mains}
    \cup {<<NewPoe, NewPoe>>}
    \cup {<<NewPoe, Info({Ethernet, I211}, Elsewhere, g), NewPoe>> :
            g \in {Elsewhere, Gateway(50), Gateway(51)}}

\* Fewer adapters, where their addresses may become anything.
FewMachines ==
  {<<Info({Ethernet}, Elsewhere, Gateway(50)), NewPoe, NewPoe>>,
   <<Info({Ethernet}, Elsewhere, Gateway(51)), NewPoe>>}
    \cup {<<NewPoe, Info({Ethernet, I211}, Elsewhere, g)>> : g \in {Elsewhere, Gateway(50)}}

SomeIps == {Ip(Gateway(52), Gateway(51))}
NoMachines == {}

\* A PoE adapter with an address already, which is asked for later.
UsedMachines == {<<NewPoe, Info({I211}, Elsewhere, Elsewhere)>>}
UsedIps == {Ip(Elsewhere, Elsewhere)}
=============================================================================
