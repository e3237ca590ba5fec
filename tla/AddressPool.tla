----------------------------- MODULE AddressPool -----------------------------
(***************************************************************************)
(* The address table of one DhcpServer (addresses_in_use_, a vector of     *)
(* AddressInUseInformation) and the functions that search it: the address  *)
(* part of dhcp_server.cc, without the messages.                           *)
(*                                                                         *)
(* A table is a sequence of entries [dwAddrValue, pbClientIdentifier].     *)
(* The identifier of an entry stands for the bytes and their number        *)
(* dwClientIdentifierSize; NullId and EmptyId are the two of size 0, a     *)
(* null pointer and an empty option 61.                                    *)
(***************************************************************************)
EXTENDS ByteOrder, SequencesExt

CONSTANTS
  ServerAddress,   \* server_address_.address, .min_address and .max_address:
  MinAddress,      \*   DWORDs in network order
  MaxAddress,
  NullId,          \* no identifier: a null pointer, of size 0
  EmptyId          \* an identifier of no bytes

min_addr_value == DWIPtoValue(MinAddress)
max_addr_value == DWIPtoValue(MaxAddress)
Pool == min_addr_value .. max_addr_value

ASSUME PoolAssumption ==
  /\ {ServerAddress, MinAddress, MaxAddress} \subseteq Dword
  /\ 0 < min_addr_value
  /\ min_addr_value <= max_addr_value
  /\ max_addr_value < INADDR_BROADCAST
  /\ NullId # EmptyId

-----------------------------------------------------------------------------
Entry(addr_value, identifier) ==
  [dwAddrValue |-> addr_value, pbClientIdentifier |-> identifier]

\* The entry InitServer appends for the address of the server itself.
ServerEntry == Entry(DWIPtoValue(ServerAddress), NullId)

\* dwClientIdentifierSize != 0
HasIdentifier(entry) == entry.pbClientIdentifier \notin {NullId, EmptyId}

\* A slip: the search looks at the entries of clients only.
FindAddrIndexOfClients(table, addr_value) ==
  SelectInSeq(table, LAMBDA e : HasIdentifier(e) /\ e.dwAddrValue = addr_value) - 1

\* The index in the vector of the first entry with the address, -1 for none.
FindAddrIndex(table, addr_value) ==
  SelectInSeq(table, LAMBDA e : e.dwAddrValue = addr_value) - 1

\* A slip: the search stops before the last entry.
ClientPositionButLast(table, identifier) ==
  SelectInSeq(Front(table), LAMBDA e : HasIdentifier(e) /\ e.pbClientIdentifier = identifier)

\* The position of the entry CheckIsClientExist stops at, 0 for none.
ClientPosition(table, identifier) ==
  SelectInSeq(table, LAMBDA e : HasIdentifier(e) /\ e.pbClientIdentifier = identifier)

CheckIsClientExist(table, identifier) == ClientPosition(table, identifier) # 0

\* A slip: the address is left in the form it has in the table.
PreviousOfferAddrAsValue(table, identifier) ==
  IF CheckIsClientExist(table, identifier)
  THEN table[ClientPosition(table, identifier)].dwAddrValue
  ELSE INADDR_BROADCAST

\* What CheckIsClientExist leaves in *previous_offer_addr.
PreviousOfferAddr(table, identifier) ==
  IF CheckIsClientExist(table, identifier)
  THEN DWValuetoIP(table[ClientPosition(table, identifier)].dwAddrValue)
  ELSE INADDR_BROADCAST

-----------------------------------------------------------------------------
(***************************************************************************)
(* AssignAddress.  The loop probes the addresses that follow the last one  *)
(* offered, past the end of the range from its start again, and takes the  *)
(* first that no entry has.  It runs once at least, and stops after        *)
(* max - min probes: one less than the range has addresses.  The loop      *)
(* itself is in AddressScan, which implements this definition of it.       *)
(***************************************************************************)

\* A slip: one more probe is left out.
ProbesOneFewer == IF max_addr_value - min_addr_value > 2
                  THEN max_addr_value - min_addr_value - 1 ELSE 1

Probes == IF max_addr_value - min_addr_value > 1
          THEN max_addr_value - min_addr_value ELSE 1

\* The address of probe number k, from 0.
Probed(last_offer_address, k) ==
  IF last_offer_address + 1 + k > max_addr_value
  THEN min_addr_value + (last_offer_address + k - max_addr_value)
  ELSE last_offer_address + 1 + k

\* A slip: past the end of the range the scan does not start again.
FreeProbesToTheEnd(table, last_offer_address) ==
  {k \in 0 .. (Probes - 1) :
      /\ last_offer_address + 1 + k <= max_addr_value
      /\ FindAddrIndex(table, Probed(last_offer_address, k)) = -1}

FreeProbes(table, last_offer_address) ==
  {k \in 0 .. (Probes - 1) :
      FindAddrIndex(table, Probed(last_offer_address, k)) = -1}

\* The address, as a value; 0 when the loop ends without one.
AssignAddress(table, last_offer_address) ==
  LET free == FreeProbes(table, last_offer_address)
  IN  IF free = {} THEN 0 ELSE Probed(last_offer_address, Min(free))

\* last_offer_address_ after the call.
LastOfferAfter(table, last_offer_address) ==
  LET assigned == AssignAddress(table, last_offer_address)
  IN  IF assigned = 0 THEN last_offer_address ELSE assigned
=============================================================================
