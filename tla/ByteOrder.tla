------------------------------ MODULE ByteOrder ------------------------------
(***************************************************************************)
(* The DWORD macros of dhcp_server.cc.  An IPv4 address is a DWORD in one  *)
(* of two forms: as it stands in a packet (network order, first octet in   *)
(* the low byte of a little-endian DWORD) or as the number whose order is  *)
(* that of the dotted quads.  The macros convert between them.             *)
(*                                                                         *)
(* Base is the number of values of an octet: 256 in the program, less in   *)
(* the model-checking instances, where all else stays the same.            *)
(***************************************************************************)
EXTENDS Integers

CONSTANT Base   \* the values of one octet

ASSUME BaseAssumption == Base \in Nat /\ Base >= 2

Octet == 0 .. (Base - 1)
Dword == 0 .. (Base * Base * Base * Base - 1)

\* The DWORD whose octets are, from the highest, d3 d2 d1 d0: the shifts and
\* the |s of the macros.
OfOctets(d3, d2, d1, d0) == ((d3 * Base + d2) * Base + d1) * Base + d0

DWIP0(dw) == dw % Base
DWIP1(dw) == (dw \div Base) % Base
DWIP2(dw) == ((dw \div Base) \div Base) % Base
DWIP3(dw) == (((dw \div Base) \div Base) \div Base) % Base

DWIPtoValue(dw) == OfOctets(DWIP0(dw), DWIP1(dw), DWIP2(dw), DWIP3(dw))
DWValuetoIP(dw) == OfOctets(DWIP0(dw), DWIP1(dw), DWIP2(dw), DWIP3(dw))

\* 255.255.255.255: every octet at its largest, the same in both forms.
INADDR_BROADCAST == OfOctets(Base - 1, Base - 1, Base - 1, Base - 1)
=============================================================================
