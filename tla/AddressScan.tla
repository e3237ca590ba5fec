----------------------------- MODULE AddressScan -----------------------------
(***************************************************************************)
(* The loop of DhcpServer::AssignAddress, one probe a step, from a call    *)
(* made on any table with any last offered address of the range.  It       *)
(* implements the operator AssignAddress that the other modules use.       *)
(***************************************************************************)
EXTENDS AddressPool

CONSTANT Tables   \* the tables a call may find

EntryType == [dwAddrValue : Dword, pbClientIdentifier : {NullId, EmptyId}]

ASSUME TablesAssumption == \A t \in Tables : t \in Seq(EntryType)

VARIABLES
  addresses_in_use_,    \* the table the call is made on
  entry_last_offer,     \* last_offer_address_ at the call
  last_offer_address_,
  offer_addr_value,
  check_addr_count,
  addr_value_valid,
  pc                    \* "probe": the loop body is next; "end": the loop is
                        \* left; "returned"

vars == <<addresses_in_use_, entry_last_offer, last_offer_address_,
          offer_addr_value, check_addr_count, addr_value_valid, pc>>

\* A DWORD keeps the low four octets of a sum or a difference.
Wrapped(n) == n % (Base * Base * Base * Base)

Init ==
  /\ addresses_in_use_ \in Tables
  /\ last_offer_address_ \in Pool
  /\ entry_last_offer = last_offer_address_
  /\ offer_addr_value = Wrapped(last_offer_address_ + 1)
  /\ check_addr_count = 0
  /\ addr_value_valid = FALSE
  /\ pc = "probe"

\* offer_addr_value after the test against the end of the range.
Restarted(value) == IF value > max_addr_value THEN min_addr_value ELSE value

IsValid(value) ==
  FindAddrIndex(addresses_in_use_, value) = -1 /\ value \in Pool

\* A slip: one probe more.
MayProbeOnceMore(count) == count <= Wrapped(max_addr_value - min_addr_value)

MayProbeAgain(count) == count < Wrapped(max_addr_value - min_addr_value)

\* A slip: the probe is not counted.
ProbeUncounted ==
  /\ pc = "probe"
  /\ addr_value_valid' = IsValid(Restarted(offer_addr_value))
  /\ offer_addr_value' = IF addr_value_valid' THEN Restarted(offer_addr_value)
                         ELSE Wrapped(Restarted(offer_addr_value) + 1)
  /\ pc' = IF ~addr_value_valid' /\ MayProbeAgain(check_addr_count) THEN "probe" ELSE "end"
  /\ UNCHANGED <<addresses_in_use_, entry_last_offer, last_offer_address_, check_addr_count>>

Probe ==
  /\ pc = "probe"
  /\ LET offer == Restarted(offer_addr_value)
     IN  /\ addr_value_valid' = IsValid(offer)
         /\ offer_addr_value' = IF IsValid(offer) THEN offer ELSE Wrapped(offer + 1)
  /\ check_addr_count' = check_addr_count + 1
  /\ pc' = IF ~addr_value_valid' /\ MayProbeAgain(check_addr_count') THEN "probe" ELSE "end"
  /\ UNCHANGED <<addresses_in_use_, entry_last_offer, last_offer_address_>>

Return ==
  /\ pc = "end"
  /\ last_offer_address_' = IF addr_value_valid THEN offer_addr_value ELSE last_offer_address_
  /\ offer_addr_value' = IF addr_value_valid THEN offer_addr_value ELSE 0
  /\ pc' = "returned"
  /\ UNCHANGED <<addresses_in_use_, entry_last_offer, check_addr_count, addr_value_valid>>

Next == Probe \/ Return

\* The loop runs on the server's thread and waits for nothing.
Spec == Init /\ [][Next]_vars /\ WF_vars(Next)

-----------------------------------------------------------------------------
AddressesInUse == {e.dwAddrValue : e \in ToSet(addresses_in_use_)}

\* The type invariant of the loop's variables.
TypeOK ==
  /\ addresses_in_use_ \in Seq(EntryType)
  /\ entry_last_offer \in Pool /\ last_offer_address_ \in Pool
  /\ offer_addr_value \in Dword
  /\ check_addr_count \in 0 .. Probes
  /\ addr_value_valid \in BOOLEAN
  /\ pc \in {"probe", "end", "returned"}

\* The loop returns what AssignAddress says, the first free address after the
\* last one offered or 0, and leaves in last_offer_address_ the address it
\* returns or, when it returns 0, what was there.
ScanIsAssignAddress ==
  pc = "returned" =>
    /\ offer_addr_value = AssignAddress(addresses_in_use_, entry_last_offer)
    /\ last_offer_address_ = LastOfferAfter(addresses_in_use_, entry_last_offer)

\* The scan gives up one probe early: when it returns 0, an address of the
\* range may still be free, but then it is the one last_offer_address_ names.
RefusalLeavesAtMostLastOffer ==
  pc = "returned" /\ offer_addr_value = 0 =>
    Pool \ AddressesInUse \subseteq {entry_last_offer}

\* Every call returns: the scan does not run on when nothing is free.
ScanReturns == <>(pc = "returned")
=============================================================================
