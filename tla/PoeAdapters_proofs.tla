--------------------------- MODULE PoeAdapters_proofs ---------------------------
(***************************************************************************)
(* The plan of ConfigPoeAdapter, for every machine and every last host.    *)
(*                                                                         *)
(* That the servers get consecutive segments is the end of an argument     *)
(* about the two loops.  Before entry j of confict_ip is looked at, the    *)
(* search stands at the segment of the last server before it, plus one:    *)
(* the main adapter's entry moves it at most once, from 50, and each       *)
(* server's entry moves it once.                                           *)
(***************************************************************************)
EXTENDS PoeAdapters, SequenceTheorems, WellFoundedInduction, TLAPS

\* A set of natural numbers that is not empty has a least element, and Min
\* is it.
LEMMA MinOfNaturals ==
  ASSUME NEW S \in SUBSET Nat, S # {}
  PROVE  Min(S) \in S /\ \A y \in S : Min(S) <= y
<1> DEFINE R == {ss \in Nat \X Nat : ss[1] < ss[2]}
<1>1. R = OpToRel(<, Nat)
  BY Zenon DEF OpToRel
<1>2. IsWellFoundedOn(R, Nat)
  BY <1>1, NatLessThanWellFounded, Zenon
<1>3. PICK x \in S : \A y \in S : ~(<<y, x>> \in R)
  BY <1>2, WFMin, Zenon
<1>4. ASSUME NEW y \in S PROVE x <= y
  <2>1. x \in Nat /\ y \in Nat /\ ~(<<y, x>> \in R)
    BY <1>3
  <2>2. ~(y < x)
    BY <2>1
  <2> QED
    BY <2>1, <2>2
<1> QED
  BY <1>4 DEF Min

\* The entry of server k in config_ip_list, and the server made from it.
PlannedIp(k) == Ip(Gateway(FirstSegment + k - 1), Gateway(FirstSegment + k - 1))

PlannedServer(k) ==
  [address |-> Gateway(FirstSegment + k - 1), segment |-> FirstSegment + k - 1,
   min_addr |-> 2 + 11 * (k - 1), max_addr |-> RangeEnd(2 + 11 * (k - 1))]

TypeInv ==
  /\ os \in Seq(NetWorkAapterInfo)
  /\ adapter_infos_ \in Seq(NetWorkAapterInfo)
  /\ Len(adapter_infos_) \in {0, Len(os)}
  /\ poe_adapter_model_ \in Models
  /\ pc \in {"idle", "adapters", "create", "ranges"}
  /\ next_adapter \in 1 .. (Len(adapter_infos_) + 1)
  /\ pc = "create" => next_adapter <= Len(adapter_infos_)
  /\ next_confict \in Nat /\ poe_ip_segment \in Nat
  /\ config_ip_list \in Seq(NetWorkIp)

\* What is in config_ip_list while the adapters are gone through.
AdaptersInv ==
  pc \in {"adapters", "create"} =>
    /\ Len(config_ip_list) >= 1
    /\ config_ip_list[1] = MainIp
    /\ \A k \in 2 .. Len(config_ip_list) : config_ip_list[k] = PlannedIp(k - 1)

\* Where the search for a segment is.
CreateInv ==
  pc = "create" =>
    /\ next_confict \in 1 .. (Len(config_ip_list) + 1)
    /\ poe_ip_segment = IF next_confict = 1 THEN kStartPoeIpSegment
                        ELSE FirstSegment + next_confict - 2

\* What the loop over the ranges has made.
RangesInv ==
  pc = "ranges" =>
    /\ \A k \in 1 .. Len(config_ip_list) : config_ip_list[k] = PlannedIp(k)
    /\ Len(address_list) <= Len(config_ip_list)

AddressListInv ==
  /\ address_list \in Seq(ServerAddressType)
  /\ min_addr = 2 + 11 * Len(address_list)
  /\ \A k \in 1 .. Len(address_list) : address_list[k] = PlannedServer(k)

ServersInv ==
  /\ dhcp_server_list_ \in Seq(ServerAddressType)
  /\ \A k \in 1 .. Len(dhcp_server_list_) : dhcp_server_list_[k] = PlannedServer(k)

IInv ==
  TypeInv /\ AdaptersInv /\ CreateInv /\ RangesInv /\ AddressListInv /\ ServersInv

-----------------------------------------------------------------------------
(***************************************************************************)
(* Facts about the operators.                                              *)
(***************************************************************************)
LEMMA GatewayType == ASSUME NEW s \in Nat PROVE Gateway(s) \in Address
BY DEF Gateway, Address

\* The first segment of the servers is 50 or 51.
LEMMA FirstSegmentType ==
  /\ FirstSegment \in {50, 51}
  /\ FirstSegment = 51 <=> MainIp.gate_way = Gateway(50)
BY DEF FirstSegment, kStartPoeIpSegment

\* GetMainAdapterInfo returns addresses, of an adapter or the defaults.
LEMMA MainIpType ==
  ASSUME adapter_infos_ \in Seq(NetWorkAapterInfo) PROVE MainIp \in NetWorkIp
<1> DEFINE I == {i \in 1 .. Len(adapter_infos_) : IsMainAdatpter(adapter_infos_[i])}
           main == SelectInSeq(adapter_infos_, IsMainAdatpter)
<1>1. I \in SUBSET Nat /\ I \subseteq 1 .. Len(adapter_infos_)
  OBVIOUS
<1>2. main = IF I # {} THEN Min(I) ELSE 0
  BY DEF SelectInSeq
<1>3. MainIp = IF main = 0 THEN Ip(Unset, Unset) ELSE adapter_infos_[main].ip
  BY DEF MainIp
<1>4. CASE I = {}
  BY <1>2, <1>3, <1>4, PoeAdaptersAssumption DEF NetWorkIp, Ip, Address
<1>5. CASE I # {}
  <2>1. Min(I) \in I
    BY <1>1, <1>5, MinOfNaturals
  <2>2. main \in 1 .. Len(adapter_infos_)
    BY <1>1, <1>2, <1>5, <2>1
  <2>3. main # 0 /\ adapter_infos_[main] \in NetWorkAapterInfo
    BY <2>2
  <2> QED
    BY <1>3, <2>3 DEF NetWorkAapterInfo
<1> QED
  BY <1>4, <1>5

\* What CreatePoeAdapterAddress returns is a pair of addresses.
LEMMA PlannedIpType ==
  ASSUME NEW k \in Nat, k >= 1 PROVE PlannedIp(k) \in NetWorkIp
<1>1. FirstSegment + k - 1 \in Nat
  BY FirstSegmentType
<1> QED
  BY <1>1, GatewayType DEF PlannedIp, NetWorkIp, Ip

\* The end of a range is a host number.
LEMMA RangeEndType == ASSUME NEW min \in Nat PROVE RangeEnd(min) \in Nat
BY PoeAdaptersAssumption DEF RangeEnd

\* What GetDhcpAddressList makes of an entry is a server's addresses.
LEMMA PlannedServerType ==
  ASSUME NEW k \in Nat, k >= 1 PROVE PlannedServer(k) \in ServerAddressType
<1>1. FirstSegment + k - 1 \in Nat /\ 2 + 11 * (k - 1) \in Nat
  BY FirstSegmentType
<1> QED
  BY <1>1, GatewayType, RangeEndType DEF PlannedServer, ServerAddressType

\* ConfigIp leaves the list of adapters one of its kind and length.
LEMMA ConfigIpType ==
  ASSUME os \in Seq(NetWorkAapterInfo), NEW a \in 1 .. Len(os), NEW ip \in NetWorkIp,
         ConfigIp(a, ip)
  PROVE  os' \in Seq(NetWorkAapterInfo) /\ Len(os') = Len(os)
<1>1. PICK r \in Configured(os[a].ip, ip) : os' = [os EXCEPT ![a].ip = r]
  BY DEF ConfigIp
<1>2. os[a] \in NetWorkAapterInfo /\ os[a].ip \in NetWorkIp
  <2>1. os[a] \in NetWorkAapterInfo
    OBVIOUS
  <2> QED
    BY <2>1 DEF NetWorkAapterInfo
<1>3. r \in NetWorkIp
  BY <1>1, <1>2 DEF Configured, NetWorkIp, Ip
<1>4. [os[a] EXCEPT !.ip = r] \in NetWorkAapterInfo
  BY <1>2, <1>3 DEF NetWorkAapterInfo
<1>5. os' = [os EXCEPT ![a] = [os[a] EXCEPT !.ip = r]]
  BY <1>1
<1> QED
  BY <1>4, <1>5

\* A list without its first element is of the same type, one shorter.
LEMMA TailOf ==
  ASSUME NEW S, NEW s \in Seq(S), Len(s) >= 1
  PROVE  /\ SubSeq(s, 2, Len(s)) \in Seq(S)
         /\ Len(SubSeq(s, 2, Len(s))) = Len(s) - 1
         /\ \A k \in 1 .. (Len(s) - 1) : SubSeq(s, 2, Len(s))[k] = s[k + 1]
<1>1. s # <<>>
  OBVIOUS
<1> QED
  BY <1>1, HeadTailProperties, TailIsSubSeq

\* What EraseMain takes out of the list is its first entry.
LEMMA FirstEntryErased ==
  ASSUME NEW s \in Seq(NetWorkIp), Len(s) >= 1, s[1] = MainIp
  PROVE  RemoveFirstMatch(s, LAMBDA ip : ip.address = MainIp.address) = SubSeq(s, 2, Len(s))
<1> DEFINE Test(ip) == ip.address = MainIp.address
           I == {i \in 1 .. Len(s) : Test(s[i])}
<1>1. I \in SUBSET Nat /\ 1 \in I /\ \A i \in I : i >= 1
  OBVIOUS
<1>2. Min(I) \in I /\ Min(I) <= 1
  BY <1>1, MinOfNaturals
<1>3. Min(I) = 1
  BY <1>1, <1>2
<1>4. SelectInSeq(s, Test) = 1
  BY <1>1, <1>3 DEF SelectInSeq
<1>5. \E i \in 1 .. Len(s) : Test(s[i])
  BY <1>1
<1>6. RemoveFirstMatch(s, LAMBDA ip : ip.address = MainIp.address) = RemoveAt(s, 1)
  BY <1>4, <1>5 DEF RemoveFirstMatch
<1>7. RemoveAt(s, 1) = SubSeq(s, 1, 0) \o SubSeq(s, 2, Len(s))
  BY DEF RemoveAt
<1>8. SubSeq(s, 1, 0) = <<>> /\ SubSeq(s, 2, Len(s)) \in Seq(NetWorkIp)
  OBVIOUS
<1>9. <<>> \o SubSeq(s, 2, Len(s)) = SubSeq(s, 2, Len(s))
  BY <1>8
<1> QED
  BY <1>6, <1>7, <1>8, <1>9

-----------------------------------------------------------------------------
(***************************************************************************)
(* The steps.                                                              *)
(***************************************************************************)
LEMMA MainIpStays ==
  ASSUME adapter_infos_' = adapter_infos_
  PROVE  MainIp' = MainIp /\ FirstSegment' = FirstSegment
BY DEF MainIp, FirstSegment, IsMainAdatpter, SelectInSeq

\* What the process reads when it starts: all the adapters, or none.
LEMMA AdaptersReadType ==
  ASSUME NEW s \in Seq(NetWorkAapterInfo), NEW t \in GetAdapters(s)
  PROVE  t \in Seq(NetWorkAapterInfo) /\ Len(t) \in {0, Len(s)}
<1>1. t = s \/ t = <<>>
  BY DEF GetAdapters
<1>2. <<>> \in Seq(NetWorkAapterInfo) /\ Len(<<>>) = 0
  BY EmptySeq
<1> QED
  BY <1>1, <1>2

\* The invariant holds when the process starts.
LEMMA InitStep == Init => IInv
<1> SUFFICES ASSUME Init PROVE IInv
  OBVIOUS
<1> USE DEF Init
<1>1. TypeInv
  <2>1. os \in Seq(NetWorkAapterInfo)
    BY PoeAdaptersAssumption
  <2>2. adapter_infos_ \in Seq(NetWorkAapterInfo) /\ Len(adapter_infos_) \in {0, Len(os)}
    BY <2>1, AdaptersReadType
  <2> QED
    BY <2>1, <2>2, PoeAdaptersAssumption DEF TypeInv, kStartPoeIpSegment
<1>2. AdaptersInv /\ CreateInv /\ RangesInv
  BY DEF AdaptersInv, CreateInv, RangesInv
<1>3. AddressListInv /\ ServersInv
  BY DEF AddressListInv, ServersInv
<1> QED
  BY <1>1, <1>2, <1>3 DEF IInv

\* A call that ends, or a process that does, leaves no list to speak of.
LEMMA CallEndsStep ==
  ASSUME IInv, CallEnds,
         os' \in Seq(NetWorkAapterInfo), adapter_infos_' \in Seq(NetWorkAapterInfo),
         Len(adapter_infos_') \in {0, Len(os')}, poe_adapter_model_' \in Models, ServersInv'
  PROVE  IInv'
<1> USE DEF CallEnds
<1>1. TypeInv'
  BY DEF TypeInv, kStartPoeIpSegment
<1>2. AdaptersInv' /\ CreateInv' /\ RangesInv'
  BY DEF AdaptersInv, CreateInv, RangesInv
<1>3. AddressListInv'
  BY DEF AddressListInv
<1> QED
  BY <1>1, <1>2, <1>3 DEF IInv

\* It holds when the process starts again.
LEMMA RestartStep == IInv /\ Restart => IInv'
<1> SUFFICES ASSUME IInv, Restart PROVE IInv'
  OBVIOUS
<1>1. ServersInv'
  BY DEF Restart, ServersInv
<1>2. os \in Seq(NetWorkAapterInfo) /\ os' = os /\ adapter_infos_' \in GetAdapters(os)
  BY DEF Restart, IInv, TypeInv
<1>3. adapter_infos_' \in Seq(NetWorkAapterInfo) /\ Len(adapter_infos_') \in {0, Len(os)}
  BY <1>2, AdaptersReadType
<1> QED
  BY <1>1, <1>2, <1>3, CallEndsStep, PoeAdaptersAssumption DEF Restart

\* ConfigPoeAdapter begins with a list of the main adapter's entry only.
LEMMA ConfigPoeAdapterStep == IInv /\ ConfigPoeAdapter => IInv'
<1> SUFFICES ASSUME IInv, ConfigPoeAdapter PROVE IInv'
  OBVIOUS
<1> USE DEF IInv, ConfigPoeAdapter, world
<1>1. MainIp' = MainIp /\ FirstSegment' = FirstSegment /\ MainIp \in NetWorkIp
  BY MainIpStays, MainIpType DEF TypeInv
<1>2. TypeInv'
  BY <1>1 DEF TypeInv
<1>3. AdaptersInv' /\ CreateInv' /\ RangesInv'
  BY <1>1 DEF AdaptersInv, CreateInv, RangesInv
<1>4. AddressListInv' /\ ServersInv'
  BY <1>1 DEF AddressListInv, ServersInv, PlannedServer
<1> QED
  BY <1>2, <1>3, <1>4

\* The loop over the adapters goes to the next one or begins a search.
LEMMA NextAdapterStep == IInv /\ NextAdapter => IInv'
<1> SUFFICES ASSUME IInv, NextAdapter PROVE IInv'
  OBVIOUS
<1> USE DEF IInv, NextAdapter, world
<1>1. MainIp' = MainIp /\ FirstSegment' = FirstSegment
  BY MainIpStays
<1>2. TypeInv'
  BY DEF TypeInv, kStartPoeIpSegment
<1>3. AdaptersInv'
  BY <1>1 DEF AdaptersInv, PlannedIp
<1>4. CreateInv' /\ RangesInv'
  BY <1>1 DEF AdaptersInv, CreateInv, RangesInv, TypeInv
<1>5. AddressListInv' /\ ServersInv'
  BY <1>1 DEF AddressListInv, ServersInv, PlannedServer
<1> QED
  BY <1>2, <1>3, <1>4, <1>5

\* The argument of the plan: entry 1 moves the search from 50 to the first
\* segment of the servers, entry j from that of server j - 1 to the next.
LEMMA AvoidConfictStep == IInv /\ AvoidConfict => IInv'
<1> SUFFICES ASSUME IInv, AvoidConfict PROVE IInv'
  OBVIOUS
<1> USE DEF IInv, AvoidConfict, world
<1>1. MainIp' = MainIp /\ FirstSegment' = FirstSegment
  BY MainIpStays
<1>2. TypeInv'
  BY DEF TypeInv
<1>3. AdaptersInv'
  BY <1>1 DEF AdaptersInv, PlannedIp
<1>4. CreateInv'
  <2>1. /\ next_confict \in 1 .. Len(config_ip_list)
        /\ next_confict' = next_confict + 1
        /\ UNCHANGED config_ip_list
    BY DEF CreateInv, TypeInv
  <2>2. poe_ip_segment' = FirstSegment + next_confict' - 2
    <3>1. CASE next_confict = 1
      BY <2>1, <3>1, FirstSegmentType DEF CreateInv, AdaptersInv, kStartPoeIpSegment
    <3>2. CASE next_confict # 1
      <4>1. poe_ip_segment = FirstSegment + next_confict - 2
        BY <3>2 DEF CreateInv
      <4>2. config_ip_list[next_confict] = PlannedIp(next_confict - 1)
        BY <2>1, <3>2 DEF AdaptersInv
      <4>3. FirstSegment + (next_confict - 1) - 1 = poe_ip_segment
        BY <4>1, <2>1, FirstSegmentType
      <4>4. config_ip_list[next_confict].gate_way = Gateway(poe_ip_segment)
        BY <4>2, <4>3 DEF PlannedIp, Ip
      <4> QED
        BY <2>1, <4>1, <4>4, FirstSegmentType
    <3> QED
      BY <3>1, <3>2
  <2> QED
    BY <1>1, <2>1, <2>2 DEF CreateInv, TypeInv
<1>5. RangesInv'
  BY DEF RangesInv
<1>6. AddressListInv' /\ ServersInv'
  BY <1>1 DEF AddressListInv, ServersInv, PlannedServer
<1> QED
  BY <1>2, <1>3, <1>4, <1>5, <1>6

\* The search ends at the next segment of the servers, which is appended.
LEMMA ConfigAdapterStep == IInv /\ ConfigAdapter => IInv'
<1> SUFFICES ASSUME IInv, ConfigAdapter PROVE IInv'
  OBVIOUS
<1> USE DEF IInv, ConfigAdapter
<1> DEFINE ip == Ip(Gateway(poe_ip_segment), Gateway(poe_ip_segment))
<1>1. MainIp' = MainIp /\ FirstSegment' = FirstSegment
  BY MainIpStays
<1>2. /\ ip \in NetWorkIp
      /\ config_ip_list' = Append(config_ip_list, ip)
      /\ ConfigIp(next_adapter, ip)
  BY GatewayType DEF TypeInv, NetWorkIp, Ip
<1>3. ip = PlannedIp(Len(config_ip_list))
  <2>1. next_confict = Len(config_ip_list) + 1 /\ Len(config_ip_list) >= 1
    BY DEF CreateInv, AdaptersInv, TypeInv
  <2>2. poe_ip_segment = FirstSegment + Len(config_ip_list) - 1
    BY <2>1, FirstSegmentType DEF CreateInv
  <2> QED
    BY <2>2 DEF PlannedIp
<1>4. TypeInv'
  <2>1. next_adapter \in 1 .. Len(os)
    BY DEF TypeInv
  <2>2. os' \in Seq(NetWorkAapterInfo) /\ Len(os') = Len(os)
    BY <1>2, <2>1, ConfigIpType DEF TypeInv
  <2> QED
    BY <1>2, <2>2 DEF TypeInv
<1>5. AdaptersInv'
  <2>1. /\ Len(config_ip_list') = Len(config_ip_list) + 1
        /\ Len(config_ip_list) \in Nat /\ Len(config_ip_list) >= 1
        /\ config_ip_list'[1] = MainIp
    BY <1>2 DEF AdaptersInv, TypeInv
  <2>2. ASSUME NEW k \in 2 .. Len(config_ip_list')
        PROVE  config_ip_list'[k] = PlannedIp(k - 1)
    <3>1. CASE k = Len(config_ip_list) + 1
      <4>1. config_ip_list'[k] = ip
        BY <1>2, <3>1 DEF TypeInv
      <4>2. k - 1 = Len(config_ip_list)
        BY <3>1 DEF TypeInv
      <4> QED
        BY <1>3, <4>1, <4>2
    <3>2. CASE k # Len(config_ip_list) + 1
      BY <1>2, <2>1, <3>2 DEF AdaptersInv, TypeInv
    <3> QED
      BY <3>1, <3>2
  <2>3. \A k : PlannedIp(k)' = PlannedIp(k)
    BY <1>1 DEF PlannedIp
  <2> QED
    BY <1>1, <2>1, <2>2, <2>3 DEF AdaptersInv
<1>6. CreateInv' /\ RangesInv'
  BY DEF CreateInv, RangesInv
<1>7. AddressListInv' /\ ServersInv'
  BY <1>1 DEF AddressListInv, ServersInv, PlannedServer
<1> QED
  BY <1>4, <1>5, <1>6, <1>7

\* Without the main adapter's entry, entry j of the list is server j's.
LEMMA EraseMainStep == IInv /\ EraseMain => IInv'
<1> SUFFICES ASSUME IInv, EraseMain PROVE IInv'
  OBVIOUS
<1> USE DEF IInv, EraseMain
<1>1. MainIp' = MainIp /\ FirstSegment' = FirstSegment
  BY MainIpStays
<1>2. config_ip_list' = SubSeq(config_ip_list, 2, Len(config_ip_list))
  BY FirstEntryErased DEF TypeInv, AdaptersInv
<1>3. /\ config_ip_list' \in Seq(NetWorkIp)
      /\ Len(config_ip_list') = Len(config_ip_list) - 1
      /\ \A k \in 1 .. Len(config_ip_list') : config_ip_list'[k] = config_ip_list[k + 1]
  <2>1. config_ip_list \in Seq(NetWorkIp) /\ Len(config_ip_list) >= 1
    BY DEF TypeInv, AdaptersInv
  <2>2. /\ SubSeq(config_ip_list, 2, Len(config_ip_list)) \in Seq(NetWorkIp)
        /\ Len(SubSeq(config_ip_list, 2, Len(config_ip_list))) = Len(config_ip_list) - 1
        /\ \A k \in 1 .. (Len(config_ip_list) - 1) :
             SubSeq(config_ip_list, 2, Len(config_ip_list))[k] = config_ip_list[k + 1]
    BY <2>1, TailOf
  <2> HIDE DEF EraseMain, IInv
  <2> QED
    BY <1>2, <2>2, Zenon
<1>4. TypeInv'
  BY <1>3 DEF TypeInv
<1>5. RangesInv'
  <2>1. ASSUME NEW k \in 1 .. Len(config_ip_list')
        PROVE  config_ip_list'[k] = PlannedIp(k)
    <3>1. config_ip_list[k + 1] = PlannedIp((k + 1) - 1)
      <4> HIDE DEF IInv, EraseMain
      <4>1. Len(config_ip_list) \in Nat
        BY DEF IInv, TypeInv
      <4>2. k + 1 \in 2 .. Len(config_ip_list)
        BY <1>3, <4>1
      <4> QED
        BY <4>2 DEF IInv, AdaptersInv, EraseMain
    <3>2. (k + 1) - 1 = k
      OBVIOUS
    <3> QED
      BY <1>3, <3>1, <3>2
  <2>2. Len(address_list') <= Len(config_ip_list')
    <3>1. Len(address_list') = 0
      OBVIOUS
    <3> QED
      BY <1>3, <3>1
  <2>3. \A k : PlannedIp(k)' = PlannedIp(k)
    BY <1>1 DEF PlannedIp
  <2> QED
    BY <2>1, <2>2, <2>3, Zenon DEF RangesInv
<1>6. AdaptersInv' /\ CreateInv'
  BY DEF AdaptersInv, CreateInv
<1>7. AddressListInv' /\ ServersInv'
  BY DEF AddressListInv, ServersInv
<1> QED
  BY <1>4, <1>5, <1>6, <1>7

\* Each range begins after the end of the last.
LEMMA NextRangeStep == IInv /\ NextRange => IInv'
<1> SUFFICES ASSUME IInv, NextRange PROVE IInv'
  OBVIOUS
<1> USE DEF IInv, NextRange, world
<1> DEFINE n == Len(address_list) + 1
           server == [address |-> config_ip_list[n].address,
                      segment |-> config_ip_list[n].gate_way[1],
                      min_addr |-> min_addr, max_addr |-> RangeEnd(min_addr)]
<1>1. MainIp' = MainIp /\ FirstSegment' = FirstSegment
  BY MainIpStays
<1>2. address_list' = Append(address_list, server) /\ min_addr' = min_addr + 11
  OBVIOUS
<1>3. n \in Nat /\ n >= 1 /\ n <= Len(config_ip_list)
  BY DEF AddressListInv, TypeInv
<1>4. server = PlannedServer(n)
  <2>1. config_ip_list[n] = PlannedIp(n)
    BY <1>3 DEF RangesInv, TypeInv
  <2>2. min_addr = 2 + 11 * (n - 1)
    BY DEF AddressListInv
  <2> HIDE DEF n
  <2> QED
    BY <2>1, <2>2 DEF PlannedServer, PlannedIp, Ip, Gateway
<1>5. server \in ServerAddressType
  BY <1>3, <1>4, PlannedServerType
<1>6. AddressListInv'
  <2>1. /\ address_list' \in Seq(ServerAddressType)
        /\ Len(address_list') = n
        /\ min_addr' = 2 + 11 * n
    BY <1>2, <1>5 DEF AddressListInv
  <2>2. ASSUME NEW k \in 1 .. n PROVE address_list'[k] = PlannedServer(k)
    BY <1>2, <1>4, <1>5 DEF AddressListInv
  <2> QED
    BY <1>1, <2>1, <2>2 DEF AddressListInv, PlannedServer
<1>7. RangesInv'
  BY <1>1, <1>2, <1>3, <1>5 DEF RangesInv, AddressListInv, PlannedIp
<1>8. TypeInv' /\ AdaptersInv' /\ CreateInv'
  BY DEF TypeInv, AdaptersInv, CreateInv
<1>9. ServersInv'
  BY <1>1 DEF ServersInv, PlannedServer
<1> QED
  BY <1>6, <1>7, <1>8, <1>9

\* The servers made are those of the list.
LEMMA MakeServersStep == IInv /\ MakeServers => IInv'
<1> SUFFICES ASSUME IInv, MakeServers PROVE IInv'
  OBVIOUS
<1>1. MainIp' = MainIp /\ FirstSegment' = FirstSegment
  BY MainIpStays DEF MakeServers
<1>2. ServersInv'
  BY <1>1 DEF IInv, MakeServers, AddressListInv, ServersInv, PlannedServer
<1> QED
  BY <1>2, CallEndsStep DEF IInv, TypeInv, MakeServers

\* SetPoeAdapterAddress changes the adapters, and the plan not at all.
LEMMA SetPoeAdapterAddressStep ==
  ASSUME IInv, NEW a \in 1 .. Len(adapter_infos_), NEW ip \in AskedIps,
         SetPoeAdapterAddress(a, ip)
  PROVE  IInv'
<1> USE DEF IInv, SetPoeAdapterAddress
<1>1. MainIp' = MainIp /\ FirstSegment' = FirstSegment
  BY MainIpStays
<1>2. TypeInv'
  <2>1. a \in 1 .. Len(os) /\ ip \in NetWorkIp
    BY PoeAdaptersAssumption DEF TypeInv
  <2>2. os' \in Seq(NetWorkAapterInfo) /\ Len(os') = Len(os)
    BY <2>1, ConfigIpType DEF TypeInv
  <2> QED
    BY <2>2 DEF TypeInv
<1>3. AdaptersInv' /\ CreateInv' /\ RangesInv'
  BY DEF AdaptersInv, CreateInv, RangesInv
<1>4. AddressListInv' /\ ServersInv'
  BY <1>1 DEF AddressListInv, ServersInv, PlannedServer
<1> QED
  BY <1>2, <1>3, <1>4

\* SetPoeAdapterModel changes which adapters the next plan is for.
LEMMA SetPoeAdapterModelStep ==
  ASSUME IInv, NEW model \in Models, SetPoeAdapterModel(model)
  PROVE  IInv'
<1> USE DEF IInv, SetPoeAdapterModel
<1>1. MainIp' = MainIp /\ FirstSegment' = FirstSegment
  BY MainIpStays
<1>2. TypeInv'
  BY DEF TypeInv
<1>3. AdaptersInv' /\ CreateInv' /\ RangesInv'
  BY DEF AdaptersInv, CreateInv, RangesInv
<1>4. AddressListInv' /\ ServersInv'
  BY <1>1 DEF AddressListInv, ServersInv, PlannedServer
<1> QED
  BY <1>2, <1>3, <1>4

\* The invariant is of these variables only.
LEMMA StutterStep == IInv /\ UNCHANGED vars => IInv'
<1> SUFFICES ASSUME IInv, UNCHANGED vars PROVE IInv'
  OBVIOUS
<1> USE DEF IInv, vars
<1>1. MainIp' = MainIp /\ FirstSegment' = FirstSegment
  BY MainIpStays
<1>2. TypeInv' /\ AdaptersInv' /\ CreateInv' /\ RangesInv'
  BY <1>1 DEF TypeInv, AdaptersInv, CreateInv, RangesInv, PlannedIp
<1>3. AddressListInv' /\ ServersInv'
  BY <1>1 DEF AddressListInv, ServersInv, PlannedServer
<1> QED
  BY <1>2, <1>3

\* The inductive invariant holds of every behaviour of the API.
THEOREM PlanInvariance == Spec => []IInv
<1>1. IInv /\ [Next]_vars => IInv'
  BY RestartStep, ConfigPoeAdapterStep, NextAdapterStep, AvoidConfictStep, ConfigAdapterStep,
     EraseMainStep, NextRangeStep, MakeServersStep, SetPoeAdapterAddressStep,
     SetPoeAdapterModelStep, StutterStep DEF Next, Step
<1> QED
  BY <1>1, InitStep, PTL DEF Spec

-----------------------------------------------------------------------------
\* What the servers are, field by field.
LEMMA ServerFields ==
  ASSUME IInv, NEW k \in 1 .. Len(dhcp_server_list_)
  PROVE  /\ dhcp_server_list_[k].address = Gateway(FirstSegment + k - 1)
         /\ dhcp_server_list_[k].segment = FirstSegment + k - 1
         /\ dhcp_server_list_[k].min_addr = 2 + 11 * (k - 1)
         /\ dhcp_server_list_[k].max_addr = RangeEnd(2 + 11 * (k - 1))
<1>1. dhcp_server_list_[k] = PlannedServer(k)
  BY DEF IInv, ServersInv
<1> QED
  BY <1>1 DEF PlannedServer

\* A machine is frail or not, for good.
LEMMA FrailType == Spec => [](frail \in BOOLEAN)
<1>1. Init => frail \in BOOLEAN
  BY DEF Init
<1>2. frail \in BOOLEAN /\ [Next]_vars => (frail \in BOOLEAN)'
  BY DEF Next, vars
<1> QED
  BY <1>1, <1>2, PTL DEF Spec

\* The variables keep their types.
THEOREM PlanTypes == Spec => []TypeOK
<1>1. IInv /\ frail \in BOOLEAN => TypeOK
  BY DEF IInv, TypeInv, AddressListInv, ServersInv, TypeOK
<1> QED
  BY <1>1, PlanInvariance, FrailType, PTL

\* ConfigPoeAdapter puts the servers on consecutive segments, however many
\* there are and whatever fails.
THEOREM PlanIsConsecutive == Spec => []SegmentsAreConsecutive
<1>1. IInv => SegmentsAreConsecutive
  BY ServerFields DEF SegmentsAreConsecutive
<1> QED
  BY <1>1, PlanInvariance, PTL

\* The ranges that begin at a host there is are proper and apart.
THEOREM PlanRangesAreProper == Spec => []RangesAreProper
<1>1. IInv => RangesAreProper
  <2> SUFFICES ASSUME IInv, NEW k \in 1 .. Len(dhcp_server_list_),
                      dhcp_server_list_[k].min_addr <= LastHost
               PROVE  /\ 1 < dhcp_server_list_[k].min_addr
                      /\ dhcp_server_list_[k].min_addr <= dhcp_server_list_[k].max_addr
                      /\ dhcp_server_list_[k].max_addr <= LastHost
                      /\ \A j \in 1 .. (k - 1) :
                           dhcp_server_list_[j].max_addr < dhcp_server_list_[k].min_addr
    BY DEF RangesAreProper
  <2>1. LastHost \in Nat /\ Len(dhcp_server_list_) \in Nat
    BY PoeAdaptersAssumption DEF IInv, ServersInv
  <2>2. /\ dhcp_server_list_[k].min_addr = 2 + 11 * (k - 1)
        /\ dhcp_server_list_[k].max_addr = RangeEnd(2 + 11 * (k - 1))
    BY ServerFields
  <2>3. /\ 1 < dhcp_server_list_[k].min_addr
        /\ dhcp_server_list_[k].min_addr <= dhcp_server_list_[k].max_addr
        /\ dhcp_server_list_[k].max_addr <= LastHost
    BY <2>1, <2>2 DEF RangeEnd
  <2>4. ASSUME NEW j \in 1 .. (k - 1)
        PROVE  dhcp_server_list_[j].max_addr < dhcp_server_list_[k].min_addr
    <3>1. j \in 1 .. Len(dhcp_server_list_) /\ j + 1 <= k
      BY <2>1
    <3>2. dhcp_server_list_[j].max_addr = RangeEnd(2 + 11 * (j - 1))
      BY <3>1, ServerFields
    <3>3. RangeEnd(2 + 11 * (j - 1)) <= 12 + 11 * (j - 1)
      BY <2>1, <3>1 DEF RangeEnd
    <3> QED
      BY <2>1, <2>2, <3>1, <3>2, <3>3 DEF RangeEnd
  <2> QED
    BY <2>3, <2>4
<1> QED
  BY <1>1, PlanInvariance, PTL

-----------------------------------------------------------------------------
(***************************************************************************)
(* On a machine whose calls do not fail: the entries of the list are       *)
(* addresses of adapters the loop has passed, and stay so until the        *)
(* servers are made.                                                       *)
(***************************************************************************)
AdapterInv ==
  ~frail =>
    /\ pc \in {"adapters", "create"} =>
         \A k \in 2 .. Len(config_ip_list) :
           \E a \in 1 .. Len(os) :
             a < next_adapter /\ os[a].ip.address = config_ip_list[k].address
    /\ pc = "ranges" =>
         \A k \in 1 .. Len(config_ip_list) :
           \E a \in 1 .. Len(os) : os[a].ip.address = config_ip_list[k].address
    /\ ServersHaveAdapters

\* The address found for an adapter is the one it gets, and those before it
\* keep theirs.
LEMMA ConfigAdapterGives ==
  ASSUME IInv, AdapterInv, ConfigAdapter, UNCHANGED frail PROVE AdapterInv'
<1> SUFFICES ASSUME ~frail PROVE AdapterInv'
  BY DEF AdapterInv
<1> DEFINE ip == Ip(Gateway(poe_ip_segment), Gateway(poe_ip_segment))
           n == Len(config_ip_list)
<1>1. /\ os \in Seq(NetWorkAapterInfo) /\ next_adapter \in 1 .. Len(os)
      /\ config_ip_list \in Seq(NetWorkIp) /\ n \in Nat /\ n >= 1
      /\ ip \in NetWorkIp /\ Len(os) \in Nat
  BY GatewayType DEF IInv, TypeInv, AdaptersInv, ConfigAdapter, NetWorkIp, Ip
<1>2. os' = [os EXCEPT ![next_adapter].ip = ip]
  BY DEF ConfigAdapter, ConfigIp, Configured
<1>3. /\ Len(os') = Len(os)
      /\ os'[next_adapter].ip.address = ip.address
      /\ \A a \in 1 .. Len(os) : a # next_adapter => os'[a] = os[a]
  <2>1. os[next_adapter] \in NetWorkAapterInfo
    BY <1>1
  <2> QED
    BY <1>1, <1>2, <2>1 DEF NetWorkAapterInfo
<1>4. /\ config_ip_list' = Append(config_ip_list, ip)
      /\ pc' = "adapters" /\ next_adapter' = next_adapter + 1
  BY DEF ConfigAdapter
<1> HIDE DEF ip, n
<1>5. ASSUME NEW k \in 2 .. Len(config_ip_list')
      PROVE  \E a \in 1 .. Len(os') :
               a < next_adapter' /\ os'[a].ip.address = config_ip_list'[k].address
  <2>1. CASE k = n + 1
    <3>1. config_ip_list'[k] = ip
      BY <1>1, <1>4, <2>1 DEF n
    <3> QED
      BY <1>1, <1>3, <1>4, <3>1
  <2>2. CASE k # n + 1
    <3>1. k \in 2 .. n /\ config_ip_list'[k] = config_ip_list[k]
      BY <1>1, <1>4, <1>5, <2>2 DEF n
    <3>2. PICK a \in 1 .. Len(os) :
            a < next_adapter /\ os[a].ip.address = config_ip_list[k].address
      BY <3>1 DEF AdapterInv, ConfigAdapter, n
    <3> QED
      BY <1>1, <1>3, <1>4, <3>1, <3>2
  <2> QED
    BY <2>1, <2>2
<1> QED
  BY <1>4, <1>5 DEF AdapterInv, ServersHaveAdapters

\* Every step keeps the addresses on the adapters.
LEMMA AdapterStep == IInv /\ IInv' /\ AdapterInv /\ [Next]_vars => AdapterInv'
<1> SUFFICES ASSUME IInv, IInv', AdapterInv, [Next]_vars, ~frail PROVE AdapterInv'
  BY DEF AdapterInv, Next, vars
<1>1. frail' = frail
  BY DEF Next, vars
<1>2. CASE Restart
  BY <1>2 DEF Restart, CallEnds, AdapterInv, ServersHaveAdapters
<1>3. CASE ConfigPoeAdapter
  BY <1>3 DEF ConfigPoeAdapter, AdapterInv, ServersHaveAdapters
<1>4. CASE NextAdapter
  <2>1. next_adapter' \in {next_adapter, next_adapter + 1} /\ next_adapter \in Nat
    BY <1>4 DEF NextAdapter, IInv, TypeInv
  <2>2. \A a \in 1 .. Len(os) : a < next_adapter => a < next_adapter'
    BY <2>1
  <2>3. /\ pc = "adapters" /\ pc' \in {"adapters", "create"}
        /\ UNCHANGED <<os, config_ip_list>>
    BY <1>4 DEF NextAdapter, world
  <2> QED
    BY <2>2, <2>3 DEF AdapterInv, ServersHaveAdapters
<1>5. CASE AvoidConfict
  BY <1>5 DEF AvoidConfict, world, AdapterInv, ServersHaveAdapters
<1>6. CASE ConfigAdapter
  BY <1>1, <1>6, ConfigAdapterGives
<1>7. CASE EraseMain
  <2>1. /\ config_ip_list \in Seq(NetWorkIp) /\ Len(config_ip_list) >= 1
        /\ config_ip_list[1] = MainIp
    BY <1>7 DEF IInv, TypeInv, AdaptersInv, EraseMain
  <2>2. config_ip_list' = SubSeq(config_ip_list, 2, Len(config_ip_list))
    BY <1>7, <2>1, FirstEntryErased DEF EraseMain
  <2>3. /\ Len(config_ip_list') = Len(config_ip_list) - 1
        /\ \A k \in 1 .. (Len(config_ip_list) - 1) : config_ip_list'[k] = config_ip_list[k + 1]
    BY <2>1, <2>2, TailOf
  <2>4. ASSUME NEW k \in 1 .. Len(config_ip_list')
        PROVE  \E a \in 1 .. Len(os) : os[a].ip.address = config_ip_list'[k].address
    <3>1. k + 1 \in 2 .. Len(config_ip_list) /\ config_ip_list'[k] = config_ip_list[k + 1]
      BY <2>1, <2>3
    <3> QED
      BY <1>7, <3>1 DEF EraseMain, AdapterInv
  <2> QED
    BY <1>7, <2>4 DEF EraseMain, AdapterInv, ServersHaveAdapters
<1>8. CASE NextRange
  BY <1>8 DEF NextRange, world, AdapterInv, ServersHaveAdapters
<1>9. CASE MakeServers
  <2>1. /\ pc = "ranges" /\ pc' = "idle" /\ os' = os
        /\ dhcp_server_list_' = address_list /\ Len(address_list) = Len(config_ip_list)
    BY <1>9 DEF MakeServers, CallEnds
  <2>2. ASSUME NEW k \in 1 .. Len(address_list)
        PROVE  address_list[k].address = config_ip_list[k].address
    <3>1. address_list[k] = PlannedServer(k) /\ config_ip_list[k] = PlannedIp(k)
      BY <2>1, <2>2 DEF IInv, AddressListInv, RangesInv
    <3> QED
      BY <3>1 DEF PlannedServer, PlannedIp, Ip
  <2>3. ServersHaveAdapters'
    BY <2>1, <2>2 DEF AdapterInv, ServersHaveAdapters
  <2> QED
    BY <2>1, <2>3 DEF AdapterInv
<1>10. ASSUME NEW model, SetPoeAdapterModel(model) PROVE AdapterInv'
  BY <1>10 DEF SetPoeAdapterModel, AdapterInv, ServersHaveAdapters
<1>11. CASE UNCHANGED vars
  BY <1>11 DEF vars, AdapterInv, ServersHaveAdapters
<1> QED
  BY <1>2, <1>3, <1>4, <1>5, <1>6, <1>7, <1>8, <1>9, <1>10, <1>11
     DEF Next, Step, SetPoeAdapterAddress

\* Where no call fails, every server ConfigPoeAdapter makes has the address of
\* an adapter.
THEOREM PlanIsOnAdapters == Spec => []ServersHaveAdapters
<1>1. Init => AdapterInv
  BY DEF Init, AdapterInv, ServersHaveAdapters
<1>2. AdapterInv => ServersHaveAdapters
  BY DEF AdapterInv, ServersHaveAdapters
<1> QED
  BY <1>1, <1>2, AdapterStep, PlanInvariance, PTL DEF Spec
-----------------------------------------------------------------------------
(***************************************************************************)
(* What DhcpServer makes of a range.  The constructor takes 192.168.s.h as *)
(* the DWORD DWIPtoValue makes of its number, so that it is in network     *)
(* order; the table has numbers.                                           *)
(***************************************************************************)
W == INSTANCE ByteOrder WITH Base <- 256

Number(s, h) == W!OfOctets(192, 168, s, h)
InPacket(s, h) == W!DWIPtoValue(Number(s, h))

\* An octet is a number below 256.
LEMMA OctetRange ==
  /\ \A i \in Nat : i < 256 => i \in W!Octet
  /\ \A i \in W!Octet : i \in Nat /\ i < 256
BY SMT DEF W!Octet

\* The lowest octet of a DWORD, and the rest.
LEMMA LowestOctet ==
  ASSUME NEW q \in Nat, NEW r \in W!Octet
  PROVE  (q * 256 + r) % 256 = r /\ (q * 256 + r) \div 256 = q
BY SMT DEF W!Octet

\* DWIPtoValue turns the octets of a DWORD around.
LEMMA OctetsTurn ==
  ASSUME NEW a \in W!Octet, NEW b \in W!Octet, NEW c \in W!Octet, NEW d \in W!Octet
  PROVE  W!DWIPtoValue(W!OfOctets(a, b, c, d)) = W!OfOctets(d, c, b, a)
<1> DEFINE q1 == a * 256 + b
           q2 == q1 * 256 + c
           dw == q2 * 256 + d
<1>1. a \in Nat /\ q1 \in Nat /\ q2 \in Nat /\ a % 256 = a
  BY SMT DEF W!Octet
<1>2. /\ q1 % 256 = b /\ q1 \div 256 = a
      /\ q2 % 256 = c /\ q2 \div 256 = q1
      /\ dw % 256 = d /\ dw \div 256 = q2
  <2>1. q1 % 256 = b /\ q1 \div 256 = a
    BY <1>1, LowestOctet
  <2> HIDE DEF q1
  <2>2. q2 % 256 = c /\ q2 \div 256 = q1
    BY <1>1, LowestOctet
  <2> HIDE DEF q2
  <2>3. dw % 256 = d /\ dw \div 256 = q2
    BY <1>1, LowestOctet
  <2> QED
    BY <2>1, <2>2, <2>3
<1>3. W!OfOctets(a, b, c, d) = dw
  BY DEF W!OfOctets
<1> HIDE DEF q1, q2, dw
<1>4. /\ W!DWIP0(dw) = d /\ W!DWIP1(dw) = c /\ W!DWIP2(dw) = b /\ W!DWIP3(dw) = a
  BY <1>1, <1>2 DEF W!DWIP0, W!DWIP1, W!DWIP2, W!DWIP3
<1> QED
  BY <1>3, <1>4 DEF W!DWIPtoValue

\* Addresses of 192.168: their numbers are in their order and short of the
\* broadcast address, and the DWORDs in packets have them.
LEMMA NumberFacts ==
  ASSUME NEW s \in W!Octet, NEW h \in W!Octet
  PROVE  /\ Number(s, h) = Number(0, 0) + 256 * s + h
         /\ Number(0, 0) \in Nat /\ Number(0, 0) > 0
         /\ Number(s, h) < W!INADDR_BROADCAST
         /\ InPacket(s, h) \in W!Dword
         /\ W!DWIPtoValue(InPacket(s, h)) = Number(s, h)
<1>1. Number(s, h) = Number(0, 0) + 256 * s + h /\ Number(0, 0) \in Nat /\ Number(0, 0) > 0
  BY SMT DEF Number, W!OfOctets, W!Octet
<1>2. Number(s, h) < W!INADDR_BROADCAST
  BY SMT DEF Number, W!OfOctets, W!INADDR_BROADCAST, W!Octet
<1> DEFINE high == 192
           next == 168
           reversed == W!OfOctets(h, s, next, high)
<1>3. high \in W!Octet /\ next \in W!Octet
  BY SMT DEF W!Octet
<1>4. reversed \in Int /\ 0 <= reversed /\ reversed <= 256 * 256 * 256 * 256 - 1
  BY SMT DEF W!OfOctets, W!Octet
<1>5. Number(s, h) = W!OfOctets(high, next, s, h)
  BY DEF Number
<1> HIDE DEF high, next
<1>6. W!DWIPtoValue(Number(s, h)) = reversed /\ W!DWIPtoValue(reversed) = Number(s, h)
  BY <1>3, <1>5, OctetsTurn
<1> HIDE DEF reversed
<1>7. reversed \in W!Dword
  <2>1. \A top \in Int : reversed <= top => reversed \in 0 .. top
    BY <1>4
  <2>2. 256 * 256 * 256 * 256 - 1 \in Int
    OBVIOUS
  <2>3. reversed \in 0 .. (256 * 256 * 256 * 256 - 1)
    BY <1>4, <2>1, <2>2, Zenon
  <2> QED
    BY <2>3, Zenon DEF W!Dword
<1> QED
  BY <1>1, <1>2, <1>6, <1>7 DEF InPacket
\* What the proofs about DhcpServer assume of its own address and the ends of
\* its range: PoolAssumption of AddressPool, with octets of 256 values.
IsPoolOf(own, min, max) ==
  /\ {own, min, max} \subseteq W!Dword
  /\ 0 < W!DWIPtoValue(min)
  /\ W!DWIPtoValue(min) <= W!DWIPtoValue(max)
  /\ W!DWIPtoValue(max) < W!INADDR_BROADCAST

Own(server) == InPacket(server.address[1], server.address[2])
MinOf(server) == InPacket(server.segment, server.min_addr)
MaxOf(server) == InPacket(server.segment, server.max_addr)

\* A server whose range begins at a host there is gets such a pool, behind its
\* own address, and both are behind the pools of the servers before it.
RangesArePools ==
  LastHost < 255 =>
    \A k \in 1 .. Len(dhcp_server_list_) :
      LET server == dhcp_server_list_[k]
      IN  server.min_addr <= LastHost =>
            /\ IsPoolOf(Own(server), MinOf(server), MaxOf(server))
            /\ W!DWIPtoValue(Own(server)) < W!DWIPtoValue(MinOf(server))
            /\ \A j \in 1 .. (k - 1) :
                 W!DWIPtoValue(MaxOf(dhcp_server_list_[j])) < W!DWIPtoValue(Own(server))

\* The servers ConfigPoeAdapter makes are of the kind the theorems about
\* DhcpServer speak of, and no address is in the ranges of two of them.
THEOREM PlanRangesArePools == Spec => []RangesArePools
<1>1. IInv => RangesArePools
  <2> DEFINE server(k) == dhcp_server_list_[k]
             segment(k) == FirstSegment + k - 1
             first(k) == 2 + 11 * (k - 1)
  <2> SUFFICES ASSUME IInv, LastHost < 255, NEW k \in 1 .. Len(dhcp_server_list_),
                      server(k).min_addr <= LastHost
               PROVE  /\ IsPoolOf(Own(server(k)), MinOf(server(k)), MaxOf(server(k)))
                      /\ W!DWIPtoValue(Own(server(k))) < W!DWIPtoValue(MinOf(server(k)))
                      /\ \A j \in 1 .. (k - 1) :
                           W!DWIPtoValue(MaxOf(server(j))) < W!DWIPtoValue(Own(server(k)))
    BY Zenon DEF RangesArePools
  <2>1. /\ LastHost \in Nat /\ Len(dhcp_server_list_) \in Nat /\ k \in Nat /\ k >= 1
        /\ FirstSegment \in Nat /\ FirstSegment >= 50 /\ FirstSegment <= 51
    BY PoeAdaptersAssumption, FirstSegmentType DEF IInv, ServersInv
  <2>2. ASSUME NEW j \in 1 .. k
        PROVE  /\ Own(server(j)) = InPacket(segment(j), 1)
               /\ MinOf(server(j)) = InPacket(segment(j), first(j))
               /\ MaxOf(server(j)) = InPacket(segment(j), RangeEnd(first(j)))
    <3>1. j \in 1 .. Len(dhcp_server_list_)
      BY <2>1
    <3>2. /\ server(j).address = <<segment(j), 1>>
          /\ server(j).segment = segment(j)
          /\ server(j).min_addr = first(j)
          /\ server(j).max_addr = RangeEnd(first(j))
      BY <3>1, ServerFields DEF Gateway
    <3>3. server(j).address[1] = segment(j) /\ server(j).address[2] = 1
      BY <3>2
    <3> QED
      BY <3>2, <3>3, Zenon DEF Own, MinOf, MaxOf
  <2>3. first(k) <= LastHost
    BY ServerFields
  <2>4. k <= 23
    BY <2>1, <2>3
  <2>5. ASSUME NEW j \in 1 .. k
        PROVE  /\ segment(j) \in W!Octet /\ first(j) \in W!Octet
               /\ RangeEnd(first(j)) \in W!Octet
               /\ 1 < first(j) /\ first(j) <= RangeEnd(first(j)) /\ RangeEnd(first(j)) < 255
    <3>1. /\ j \in Nat /\ j >= 1 /\ j <= 23 /\ segment(j) \in Nat /\ segment(j) <= 73
          /\ first(j) \in Nat /\ first(j) <= LastHost /\ 1 < first(j)
      BY <2>1, <2>3, <2>4
    <3>2. RangeEnd(first(j)) \in Nat /\ first(j) <= RangeEnd(first(j)) /\ RangeEnd(first(j)) < 255
      BY <2>1, <3>1 DEF RangeEnd
    <3> HIDE DEF first, segment
    <3>3. segment(j) \in W!Octet /\ first(j) \in W!Octet
      <4>1. first(j) < 256
        BY <2>1, <3>1
      <4> QED
        BY <3>1, <4>1, OctetRange
    <3>4. RangeEnd(first(j)) \in W!Octet
      BY <3>2, OctetRange
    <3> QED
      BY <3>1, <3>2, <3>3, <3>4
  <2>6. 1 \in W!Octet
    BY SMT DEF W!Octet
  <2> HIDE DEF first, segment, server
  <2>7. /\ k \in 1 .. k
        /\ segment(k) \in W!Octet /\ first(k) \in W!Octet /\ RangeEnd(first(k)) \in W!Octet
        /\ 1 < first(k) /\ first(k) <= RangeEnd(first(k))
    BY <2>1, <2>5
  <2>8. \A h \in W!Octet : /\ InPacket(segment(k), h) \in W!Dword
                           /\ W!DWIPtoValue(InPacket(segment(k), h)) = Number(segment(k), h)
                           /\ Number(segment(k), h) = Number(0, 0) + 256 * segment(k) + h
                           /\ Number(segment(k), h) < W!INADDR_BROADCAST
    BY <2>7, NumberFacts
  <2>9. Number(0, 0) \in Nat /\ Number(0, 0) > 0
    BY <2>6, NumberFacts
  <2>10. /\ segment(k) \in Nat /\ first(k) \in Nat /\ RangeEnd(first(k)) \in Nat
    BY <2>7, OctetRange
  <2>11. /\ Own(server(k)) = InPacket(segment(k), 1)
         /\ MinOf(server(k)) = InPacket(segment(k), first(k))
         /\ MaxOf(server(k)) = InPacket(segment(k), RangeEnd(first(k)))
    BY <2>2, <2>7
  <2> DEFINE base == Number(0, 0)
             number(h) == Number(segment(k), h)
  <2>12. /\ 0 < number(first(k)) /\ number(first(k)) <= number(RangeEnd(first(k)))
         /\ number(1) < number(first(k))
    <3>1. /\ number(1) = base + 256 * segment(k) + 1
          /\ number(first(k)) = base + 256 * segment(k) + first(k)
          /\ number(RangeEnd(first(k))) = base + 256 * segment(k) + RangeEnd(first(k))
      BY <2>6, <2>7, <2>8
    <3> HIDE DEF base, number
    <3>2. base \in Nat
      BY <2>9 DEF base
    <3> QED
      BY <2>7, <2>10, <3>1, <3>2
  <2>13. IsPoolOf(Own(server(k)), MinOf(server(k)), MaxOf(server(k)))
    BY <2>6, <2>7, <2>8, <2>11, <2>12 DEF IsPoolOf
  <2>14. W!DWIPtoValue(Own(server(k))) < W!DWIPtoValue(MinOf(server(k)))
    BY <2>6, <2>7, <2>8, <2>11, <2>12
  <2>15. ASSUME NEW j \in 1 .. (k - 1)
         PROVE  W!DWIPtoValue(MaxOf(server(j))) < W!DWIPtoValue(Own(server(k)))
    <3>1. j \in 1 .. k /\ segment(j) + 1 <= segment(k)
      BY <2>1 DEF segment
    <3> DEFINE end == RangeEnd(first(j))
    <3>2. segment(j) \in W!Octet /\ end \in W!Octet /\ end < 255
      BY <2>5, <3>1
    <3>3. MaxOf(server(j)) = InPacket(segment(j), end)
      BY <2>2, <3>1
    <3>4. W!DWIPtoValue(MaxOf(server(j))) = Number(0, 0) + 256 * segment(j) + end
      BY <3>2, <3>3, NumberFacts
    <3>5. W!DWIPtoValue(Own(server(k))) = Number(0, 0) + 256 * segment(k) + 1
      BY <2>6, <2>8, <2>11
    <3>6. segment(j) \in Nat /\ end \in Nat
      BY <3>2, OctetRange
    <3> HIDE DEF end, base
    <3> DEFINE n == Number(0, 0)
               s == segment(j)
               t == segment(k)
    <3>7. n \in Nat /\ s \in Nat /\ t \in Nat /\ end \in Nat /\ s + 1 <= t /\ end < 255
      BY <2>9, <2>10, <3>1, <3>2, <3>6
    <3>8. /\ W!DWIPtoValue(MaxOf(server(j))) = n + 256 * s + end
          /\ W!DWIPtoValue(Own(server(k))) = n + 256 * t + 1
      BY <3>4, <3>5
    <3> HIDE DEF n, s, t
    <3>9. n + 256 * s + end < n + 256 * t + 1
      BY <3>7
    <3> QED
      BY <3>8, <3>9
  <2> QED
    BY <2>13, <2>14, <2>15
<1> QED
  BY <1>1, PlanInvariance, PTL
=============================================================================
