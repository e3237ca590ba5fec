------------------------------ MODULE PoeAdapters ------------------------------
(***************************************************************************)
(* PoeDhcpSeverImpl and its NetWorkAdapter: the plan of addresses for the  *)
(* PoE adapters of the machine, ConfigPoeAdapter loop by loop, and the     *)
(* servers made from it.                                                   *)
(*                                                                         *)
(* 192.168.s.h is <<s, h>>; any other address is a value of OtherAddresses.*)
(* A description is the set of the model names found in it.                *)
(***************************************************************************)
EXTENDS Integers, SequencesExt

CONSTANTS
  Models,           \* the adapter models there are
  EthernetModel,    \* "Intel(R) Ethernet", which the main adapter has
  I211Model,        \* "Intel(R) I211", the model of PoE adapters at first
  OtherAddresses,
  Unset,            \* "0.0.0.0", one of them
  Machines,         \* the lists of adapters a machine may have at first
  FrailMachines,    \* those of machines whose calls may fail
  AskedIps,         \* what SetPoeAdapterAddress may be called with
  LastHost          \* the last host of a range: 254 in the program

Address == (Nat \X Nat) \cup OtherAddresses
NetWorkIp == [address : Address, gate_way : Address]
NetWorkAapterInfo == [description : SUBSET Models, ip : NetWorkIp]

ASSUME PoeAdaptersAssumption ==
  /\ {EthernetModel, I211Model} \subseteq Models
  /\ Unset \in OtherAddresses
  /\ OtherAddresses \cap (Nat \X Nat) = {}
  /\ \A m \in Machines \cup FrailMachines : m \in Seq(NetWorkAapterInfo)
  /\ AskedIps \subseteq NetWorkIp
  /\ LastHost \in Nat

VARIABLES
  os,                   \* the adapters and the addresses they have
  adapter_infos_,       \* the adapters as read when the process started, if
                        \* they could be
  poe_adapter_model_,
  dhcp_server_list_,    \* the addresses and ranges of the servers
  pc,                   \* "idle", or the loop ConfigPoeAdapter is in:
                        \* "adapters", "create" inside it, then "ranges"
  next_adapter,         \* the adapter the first is at
  next_confict,         \* the entry of confict_ip the second is at
  poe_ip_segment,
  config_ip_list,
  address_list,         \* the result of GetDhcpAddressList so far
  min_addr,
  frail                 \* of this machine: the adapters may not be readable,
                        \* ConfigIp may fail or have no effect until the machine
                        \* is started again, and SetPoeAdapterAddress is called

vars == <<os, adapter_infos_, poe_adapter_model_, dhcp_server_list_, pc, next_adapter,
          next_confict, poe_ip_segment, config_ip_list, address_list, min_addr, frail>>
world == <<os, adapter_infos_, poe_adapter_model_, dhcp_server_list_>>

kStartPoeIpSegment == 50

-----------------------------------------------------------------------------
Ip(address, gate_way) == [address |-> address, gate_way |-> gate_way]

\* kStartPoeIpHead + segment + ".1"
Gateway(segment) == <<segment, 1>>

IsMainAdatpter(info) == EthernetModel \in info.description
IsPoeAdapter(info) == poe_adapter_model_ \in info.description

\* The addresses of GetMainAdapterInfo: the first main adapter, else the
\* defaults of a NetWorkAapterInfo.
MainIp ==
  LET main == SelectInSeq(adapter_infos_, IsMainAdatpter)
  IN  IF main = 0 THEN Ip(Unset, Unset) ELSE adapter_infos_[main].ip

\* What ConfigIp may leave an adapter with: EnableStatic sets the address,
\* and after it SetGateways the gateway.  Each may fail, and each may succeed
\* with "reboot required" and without effect yet.
Configured(old, ip) ==
  {ip} \cup {r \in {old, Ip(ip.address, old.gate_way), Ip(old.address, ip.gate_way)} :
               frail}

\* A slip: the name of the first adapter is used for every one.
ConfigFirstIp(a, ip) ==
  \E r \in Configured(os[1].ip, ip) : os' = [os EXCEPT ![1].ip = r]

ConfigIp(a, ip) ==
  \E r \in Configured(os[a].ip, ip) : os' = [os EXCEPT ![a].ip = r]

\* GetAdapters, when the process starts: all adapters, or none.
GetAdapters(adapters) == {adapters} \cup {l \in {<<>>} : frail}

Init ==
  /\ frail \in BOOLEAN
  /\ os \in IF frail THEN FrailMachines ELSE Machines
  /\ adapter_infos_ \in GetAdapters(os)
  /\ poe_adapter_model_ = I211Model
  /\ dhcp_server_list_ = <<>>
  /\ pc = "idle"
  /\ next_adapter = 1 /\ next_confict = 1
  /\ poe_ip_segment = kStartPoeIpSegment
  /\ config_ip_list = <<>> /\ address_list = <<>>
  /\ min_addr = 2

\* The locals of a call are gone.
CallEnds ==
  /\ pc' = "idle"
  /\ next_adapter' = 1 /\ next_confict' = 1
  /\ poe_ip_segment' = kStartPoeIpSegment
  /\ config_ip_list' = <<>> /\ address_list' = <<>>
  /\ min_addr' = 2

\* A slip: the adapters are added to those read before.
RestartAppends ==
  /\ adapter_infos_' = adapter_infos_ \o os
  /\ poe_adapter_model_' = I211Model
  /\ dhcp_server_list_' = <<>>
  /\ CallEnds
  /\ UNCHANGED os

\* The process ends, wherever it is, and starts again.
Restart ==
  /\ adapter_infos_' \in GetAdapters(os)
  /\ poe_adapter_model_' = I211Model
  /\ dhcp_server_list_' = <<>>
  /\ CallEnds
  /\ UNCHANGED os

-----------------------------------------------------------------------------
(***************************************************************************)
(* ConfigPoeAdapter.                                                       *)
(***************************************************************************)
ConfigPoeAdapter ==
  /\ pc = "idle"
  /\ pc' = "adapters"
  /\ next_adapter' = 1
  /\ config_ip_list' = <<MainIp>>
  /\ UNCHANGED <<world, next_confict, poe_ip_segment, address_list, min_addr>>

\* The loop over the adapters: a PoE adapter gets an address.
NextAdapter ==
  /\ pc = "adapters" /\ next_adapter <= Len(adapter_infos_)
  /\ IF IsPoeAdapter(adapter_infos_[next_adapter])
     THEN /\ pc' = "create"
          /\ poe_ip_segment' = kStartPoeIpSegment
          /\ next_confict' = 1
          /\ UNCHANGED next_adapter
     ELSE /\ next_adapter' = next_adapter + 1
          /\ UNCHANGED <<pc, poe_ip_segment, next_confict>>
  /\ UNCHANGED <<world, config_ip_list, address_list, min_addr>>

\* A slip: the search ends at the first conflict.
StopAtConfict ==
  /\ pc = "create" /\ next_confict <= Len(config_ip_list)
  /\ IF config_ip_list[next_confict].gate_way = Gateway(poe_ip_segment)
     THEN poe_ip_segment' = poe_ip_segment + 1 /\ next_confict' = Len(config_ip_list) + 1
     ELSE next_confict' = next_confict + 1 /\ UNCHANGED poe_ip_segment
  /\ UNCHANGED <<world, pc, next_adapter, config_ip_list, address_list, min_addr>>

\* CreatePoeAdapterAddress, the loop over confict_ip: one pass, in order.
AvoidConfict ==
  /\ pc = "create" /\ next_confict <= Len(config_ip_list)
  /\ poe_ip_segment' =
       IF config_ip_list[next_confict].gate_way = Gateway(poe_ip_segment)
       THEN poe_ip_segment + 1 ELSE poe_ip_segment
  /\ next_confict' = next_confict + 1
  /\ UNCHANGED <<world, pc, next_adapter, config_ip_list, address_list, min_addr>>

\* The address found is noted and given to the adapter.
ConfigAdapter ==
  /\ pc = "create" /\ next_confict > Len(config_ip_list)
  /\ LET ip == Ip(Gateway(poe_ip_segment), Gateway(poe_ip_segment))
     IN  /\ config_ip_list' = Append(config_ip_list, ip)
         /\ ConfigIp(next_adapter, ip)
  /\ pc' = "adapters"
  /\ next_adapter' = next_adapter + 1
  /\ UNCHANGED <<adapter_infos_, poe_adapter_model_, dhcp_server_list_, next_confict,
                 poe_ip_segment, address_list, min_addr>>

\* After the loop: the main adapter's entry is taken out of the list again,
\* and the old servers are destroyed.
EraseMain ==
  /\ pc = "adapters" /\ next_adapter > Len(adapter_infos_)
  /\ config_ip_list' =
       RemoveFirstMatch(config_ip_list, LAMBDA ip : ip.address = MainIp.address)
  /\ dhcp_server_list_' = <<>>
  /\ address_list' = <<>>
  /\ min_addr' = 2
  /\ pc' = "ranges"
  /\ UNCHANGED <<os, adapter_infos_, poe_adapter_model_, next_adapter, next_confict,
                 poe_ip_segment>>

-----------------------------------------------------------------------------
\* GetDhcpAddressList: ten hosts more than min_addr, up to the last.
RangeEnd(min) == IF min + 10 > LastHost THEN LastHost ELSE min + 10

\* A slip: the next range starts at the end of the last one.
NextRangeAtEnd ==
  /\ pc = "ranges" /\ Len(address_list) < Len(config_ip_list)
  /\ LET ip == config_ip_list[Len(address_list) + 1]
     IN  address_list' = Append(address_list,
           [address |-> ip.address, segment |-> ip.gate_way[1],
            min_addr |-> min_addr, max_addr |-> RangeEnd(min_addr)])
  /\ min_addr' = min_addr + 10
  /\ UNCHANGED <<world, pc, next_adapter, next_confict, poe_ip_segment, config_ip_list>>

NextRange ==
  /\ pc = "ranges" /\ Len(address_list) < Len(config_ip_list)
  /\ LET ip == config_ip_list[Len(address_list) + 1]
     IN  address_list' = Append(address_list,
           [address |-> ip.address, segment |-> ip.gate_way[1],
            min_addr |-> min_addr, max_addr |-> RangeEnd(min_addr)])
  /\ min_addr' = min_addr + 11
  /\ UNCHANGED <<world, pc, next_adapter, next_confict, poe_ip_segment, config_ip_list>>

\* A server for each; ConfigPoeAdapter returns.
MakeServers ==
  /\ pc = "ranges" /\ Len(address_list) = Len(config_ip_list)
  /\ dhcp_server_list_' = address_list
  /\ CallEnds
  /\ UNCHANGED <<os, adapter_infos_, poe_adapter_model_>>

-----------------------------------------------------------------------------
\* The address read at the start of the process is the one asked for.
IsAlreadyCorrect(a, ip) == adapter_infos_[a].ip.address = ip.address

\* SetPoeAdapterAddress for a PoE adapter.
SetPoeAdapterAddress(a, ip) ==
  /\ pc = "idle" /\ frail
  /\ a \in 1 .. Len(adapter_infos_) /\ IsPoeAdapter(adapter_infos_[a])
  /\ ~IsAlreadyCorrect(a, ip)
  /\ ConfigIp(a, ip)
  /\ UNCHANGED <<adapter_infos_, poe_adapter_model_, dhcp_server_list_, pc, next_adapter,
                 next_confict, poe_ip_segment, config_ip_list, address_list, min_addr>>

SetPoeAdapterModel(model) ==
  /\ pc = "idle"
  /\ poe_adapter_model_' = model
  /\ UNCHANGED <<os, adapter_infos_, dhcp_server_list_, pc, next_adapter, next_confict,
                 poe_ip_segment, config_ip_list, address_list, min_addr>>

Step ==
  \/ Restart
  \/ ConfigPoeAdapter \/ NextAdapter \/ AvoidConfict \/ ConfigAdapter \/ EraseMain
  \/ NextRange \/ MakeServers
  \/ \E a \in 1 .. Len(adapter_infos_), ip \in AskedIps : SetPoeAdapterAddress(a, ip)
  \/ \E model \in Models : SetPoeAdapterModel(model)

Next == Step /\ UNCHANGED frail

Spec == Init /\ [][Next]_vars

-----------------------------------------------------------------------------
(***************************************************************************)
(* Properties.                                                             *)
(***************************************************************************)
ServerAddressType == [address : Address, segment : Nat, min_addr : Nat, max_addr : Nat]

\* The type invariant.
TypeOK ==
  /\ os \in Seq(NetWorkAapterInfo)
  /\ adapter_infos_ \in Seq(NetWorkAapterInfo)
  /\ Len(adapter_infos_) \in {0, Len(os)}
  /\ poe_adapter_model_ \in Models
  /\ dhcp_server_list_ \in Seq(ServerAddressType)
  /\ pc \in {"idle", "adapters", "create", "ranges"}
  /\ next_adapter \in 1 .. (Len(adapter_infos_) + 1)
  /\ next_confict \in Nat /\ poe_ip_segment \in Nat
  /\ config_ip_list \in Seq(NetWorkIp)
  /\ address_list \in Seq(ServerAddressType)
  /\ min_addr \in Nat
  /\ frail \in BOOLEAN

\* The segment of the first server.
FirstSegment ==
  IF MainIp.gate_way = Gateway(kStartPoeIpSegment) THEN kStartPoeIpSegment + 1
  ELSE kStartPoeIpSegment

\* The servers are on segments of their own that follow one another, from 50,
\* or from 51 when the main adapter is on 50: the one pass over the entries so
\* far finds the first segment none of the servers before has.
SegmentsAreConsecutive ==
  \A k \in 1 .. Len(dhcp_server_list_) :
    /\ dhcp_server_list_[k].segment = FirstSegment + k - 1
    /\ dhcp_server_list_[k].address = Gateway(dhcp_server_list_[k].segment)

\* Every range that begins at a host there is ends at one, after its
\* beginning, is past the server's own host, and shares no host with the
\* ranges before it: DhcpServer gets a proper range.  (In the program that is
\* so for the first 23 servers; the ranges of further ones end before they
\* begin.)
RangesAreProper ==
  \A k \in 1 .. Len(dhcp_server_list_) :
    LET server == dhcp_server_list_[k]
    IN  server.min_addr <= LastHost =>
          /\ 1 < server.min_addr /\ server.min_addr <= server.max_addr
          /\ server.max_addr <= LastHost
          /\ \A j \in 1 .. (k - 1) : dhcp_server_list_[j].max_addr < server.min_addr

\* When ConfigIp does not fail and nobody calls SetPoeAdapterAddress, every
\* server ConfigPoeAdapter has made has the address of an adapter that is
\* there: it can be bound.
ServersHaveAdapters ==
  ~frail /\ pc = "idle" =>
    \A k \in 1 .. Len(dhcp_server_list_) :
      \E a \in 1 .. Len(os) : os[a].ip.address = dhcp_server_list_[k].address

\* "The IP address is already correct and does not need to be set."
\* (SetPoeAdapterAddress): so the adapter has the address asked for.  It does
\* not when it has been given another since the process started.
AlreadyCorrectIsTrue ==
  \A a \in 1 .. Len(adapter_infos_), ip \in AskedIps :
    pc = "idle" /\ IsPoeAdapter(adapter_infos_[a]) /\ IsAlreadyCorrect(a, ip) =>
      os[a].ip.address = ip.address
=============================================================================
