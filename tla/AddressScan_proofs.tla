-------------------------- MODULE AddressScan_proofs --------------------------
(***************************************************************************)
(* The loop of AssignAddress computes the operator AssignAddress, for      *)
(* every table and every range.                                            *)
(***************************************************************************)
EXTENDS AddressScan, AddressPool_proofs

Free == FreeProbes(addresses_in_use_, entry_last_offer)

(***************************************************************************)
(* The loop invariant: at a probe, the probes made so far found nothing    *)
(* free, and the next looks at the address that follows them.              *)
(***************************************************************************)
LoopInv ==
  /\ last_offer_address_ = entry_last_offer
  /\ offer_addr_value \in Dword
  /\ check_addr_count \in 0 .. (Probes - 1)
  /\ addr_value_valid \in BOOLEAN
  /\ Restarted(offer_addr_value) = Probed(entry_last_offer, check_addr_count)
  /\ \A k \in 0 .. (check_addr_count - 1) : k \notin Free

\* Past the loop: a first free address, or none.
ExitInv ==
  /\ last_offer_address_ = entry_last_offer
  /\ offer_addr_value \in Dword
  /\ check_addr_count \in 1 .. Probes
  /\ addr_value_valid \in BOOLEAN
  /\ IF addr_value_valid
     THEN \E k \in Free : /\ offer_addr_value = Probed(entry_last_offer, k)
                          /\ \A j \in 0 .. (k - 1) : j \notin Free
     ELSE Free = {}

ScanInv ==
  /\ addresses_in_use_ \in Seq(EntryType)
  /\ entry_last_offer \in Pool
  /\ pc \in {"probe", "end", "returned"}
  /\ pc = "probe" => LoopInv
  /\ pc = "end" => ExitInv
  /\ pc = "returned" => ScanIsAssignAddress /\ TypeOK

\* Arithmetic that stays below 2^32 does not wrap.
LEMMA WrappedDword == \A n \in Dword : Wrapped(n) = n
<1> DEFINE N == Base * Base * Base * Base
<1>1. N \in Int /\ Dword = 0 .. (N - 1)
  BY BaseAssumption, SMTT(20) DEF Dword
<1>2. \A n : Wrapped(n) = n % N
  BY DEF Wrapped
<1> HIDE DEF N
<1> QED
  BY <1>1, <1>2

\* offer_addr_value + 1 does not wrap: the pool ends before 255.255.255.255.
LEMMA NextAfterPool ==
  ASSUME NEW v \in Pool
  PROVE  v + 1 \in Dword /\ Wrapped(v + 1) = v + 1
<1> DEFINE N == Base * Base * Base * Base
<1>1. N \in Int /\ Dword = 0 .. (N - 1)
  BY BaseAssumption, SMTT(20) DEF Dword
<1> HIDE DEF N
<1>2. v + 1 \in Dword
  BY <1>1, PoolBounds, BroadcastType DEF Pool
<1> QED
  BY <1>2, WrappedDword

\* The loop goes on after count probes if fewer than Probes were made, the
\* first one being made in any case.
LEMMA MayProbeAgainMeans ==
  ASSUME NEW c \in 0 .. (Probes - 1)
  PROVE  MayProbeAgain(c + 1) <=> c + 1 <= Probes - 1
<1> DEFINE N == Base * Base * Base * Base
<1>1. N \in Int /\ Dword = 0 .. (N - 1)
  BY BaseAssumption, SMTT(20) DEF Dword
<1> HIDE DEF N
<1>2. max_addr_value - min_addr_value \in Dword
  BY <1>1, PoolBounds, BroadcastType
<1>3. Wrapped(max_addr_value - min_addr_value) = max_addr_value - min_addr_value
  BY <1>2, WrappedDword
<1> QED
  BY <1>3, PoolBounds DEF MayProbeAgain, Probes

\* The address after probe k, restarted if past the end, is that of probe k + 1.
LEMMA NextProbe ==
  ASSUME NEW last \in Pool, NEW k \in 0 .. (Probes - 1), k + 1 <= Probes - 1
  PROVE  Restarted(Probed(last, k) + 1) = Probed(last, k + 1)
BY PoolBounds DEF Restarted, Probed, Probes, Pool

\* The first address the loop looks at is that of probe 0.
LEMMA FirstProbe ==
  ASSUME NEW last \in Pool
  PROVE  Restarted(last + 1) = Probed(last, 0)
BY PoolBounds DEF Restarted, Probed, Pool

-----------------------------------------------------------------------------
\* The invariant of the loop holds when AssignAddress is called.
LEMMA InitScan == Init => ScanInv
<1> SUFFICES ASSUME Init PROVE ScanInv
  OBVIOUS
<1>1. addresses_in_use_ \in Seq(EntryType) /\ entry_last_offer \in Pool /\ pc = "probe"
  BY TablesAssumption DEF Init
<1>2. offer_addr_value = entry_last_offer + 1 /\ offer_addr_value \in Dword
  BY <1>1, NextAfterPool DEF Init
<1>3. Probes \in Nat \ {0}
  BY PoolBounds DEF Probes
<1>4. Restarted(offer_addr_value) = Probed(entry_last_offer, check_addr_count)
  BY <1>1, <1>2, FirstProbe DEF Init
<1>5. 0 .. (check_addr_count - 1) = {} /\ check_addr_count \in 0 .. (Probes - 1)
  BY <1>3 DEF Init
<1>6. LoopInv
  BY <1>2, <1>4, <1>5 DEF Init, LoopInv
<1> QED
  BY <1>1, <1>6 DEF ScanInv

\* A round of the do loop keeps it.
LEMMA ProbeStep == ScanInv /\ Probe => ScanInv'
<1> SUFFICES ASSUME ScanInv, Probe PROVE ScanInv'
  OBVIOUS
<1> DEFINE c == check_addr_count
           v == Probed(entry_last_offer, c)
<1>1. /\ addresses_in_use_ \in Seq(EntryType) /\ entry_last_offer \in Pool /\ LoopInv
      /\ pc' \in {"probe", "end"}
      /\ UNCHANGED <<addresses_in_use_, entry_last_offer, last_offer_address_>>
      /\ c \in 0 .. (Probes - 1) /\ check_addr_count' = c + 1
  BY DEF ScanInv, Probe, LoopInv
<1>2. Probes \in Nat
  BY PoolBounds DEF Probes
<1>3. Restarted(offer_addr_value) = v /\ v \in Pool /\ v \in Dword
  BY <1>1, ProbedInPool, PoolBounds DEF LoopInv
<1>4. IsValid(v) <=> c \in Free
  BY <1>1, <1>3 DEF IsValid, Free, FreeProbes
<1>5. IsValid(v) \in BOOLEAN /\ Free' = Free
  BY <1>1 DEF IsValid, Free
<1>6. addr_value_valid' = IsValid(v) /\ offer_addr_value' = IF IsValid(v) THEN v ELSE Wrapped(v + 1)
  BY <1>3 DEF Probe
<1>7. offer_addr_value' \in Dword
  BY <1>3, <1>6, NextAfterPool
<1>8. \A k \in 0 .. (c - 1) : k \notin Free
  BY <1>1 DEF LoopInv
<1>9. CASE pc' = "probe"
  <2>1. ~IsValid(v) /\ MayProbeAgain(c + 1)
    BY <1>1, <1>6, <1>9 DEF Probe
  <2>2. c + 1 \in 0 .. (Probes - 1)
    BY <1>1, <1>2, <2>1, MayProbeAgainMeans
  <2>3. Restarted(offer_addr_value') = Probed(entry_last_offer, c + 1)
    BY <1>1, <1>2, <1>3, <1>6, <2>1, <2>2, NextAfterPool, NextProbe
  <2>4. \A k \in 0 .. c : k \notin Free
    BY <1>1, <1>4, <1>8, <2>1
  <2>5. addr_value_valid' \in BOOLEAN /\ last_offer_address_' = entry_last_offer'
    BY <1>1, <1>5, <1>6 DEF LoopInv
  <2>6. Restarted(offer_addr_value)' = Probed(entry_last_offer, check_addr_count)'
    BY <1>1, <2>3 DEF Restarted
  <2>7. \A k \in 0 .. (check_addr_count' - 1) : k \notin Free'
    BY <1>1, <1>5, <2>4
  <2>8. LoopInv'
    BY <1>1, <1>7, <2>2, <2>5, <2>6, <2>7 DEF LoopInv
  <2> QED
    BY <1>1, <1>9, <2>8 DEF ScanInv
<1>10. CASE pc' = "end"
  <2>1. IsValid(v) \/ ~MayProbeAgain(c + 1)
    BY <1>1, <1>6, <1>10 DEF Probe
  <2>2. ASSUME IsValid(v) PROVE ExitInv'
    <3>1. c \in Free' /\ offer_addr_value' = Probed(entry_last_offer', c) /\ addr_value_valid' = TRUE
      BY <1>1, <1>4, <1>5, <1>6, <2>2
    <3>2. \A j \in 0 .. (c - 1) : j \notin Free'
      BY <1>5, <1>8
    <3>3. last_offer_address_' = entry_last_offer' /\ check_addr_count' \in 1 .. Probes
      BY <1>1, <1>2 DEF LoopInv
    <3>4. ExitInv'
      BY <1>1, <1>7, <3>1, <3>2, <3>3 DEF ExitInv
    <3> QED
      BY <3>4
  <2>3. ASSUME ~IsValid(v) PROVE ExitInv'
    <3>1. c = Probes - 1
      BY <1>1, <1>2, <2>1, <2>3, MayProbeAgainMeans
    <3>2. \A k \in 0 .. (Probes - 1) : k \notin Free
      BY <1>1, <1>4, <1>8, <2>3, <3>1
    <3>3. Free = {}
      BY <3>2 DEF Free, FreeProbes
    <3>4. addr_value_valid' = FALSE /\ Free' = {}
      BY <1>5, <1>6, <2>3, <3>3
    <3>5. last_offer_address_' = entry_last_offer' /\ check_addr_count' \in 1 .. Probes
      BY <1>1, <1>2 DEF LoopInv
    <3> QED
      BY <1>7, <3>4, <3>5 DEF ExitInv
  <2> QED
    BY <1>1, <1>10, <2>2, <2>3 DEF ScanInv
<1> QED
  BY <1>1, <1>9, <1>10

\* So does the return.
LEMMA ReturnStep == ScanInv /\ Return => ScanInv'
<1> SUFFICES ASSUME ScanInv, Return PROVE ScanInv'
  OBVIOUS
<1>1. /\ addresses_in_use_ \in Seq(EntryType) /\ entry_last_offer \in Pool /\ ExitInv
      /\ UNCHANGED <<addresses_in_use_, entry_last_offer, check_addr_count, addr_value_valid>>
      /\ pc' = "returned"
  BY DEF ScanInv, Return
<1>2. Free \in SUBSET Nat /\ Free \subseteq 0 .. (Probes - 1)
  BY DEF Free, FreeProbes
<1>3. CASE addr_value_valid
  <2>1. PICK k \in Free : /\ offer_addr_value = Probed(entry_last_offer, k)
                          /\ \A j \in 0 .. (k - 1) : j \notin Free
    BY <1>1, <1>3 DEF ExitInv
  <2>2. Min(Free) \in Free /\ Min(Free) <= k
    BY <1>2, <2>1, MinOfNaturals
  <2>3. Min(Free) = k
    <3> DEFINE m == Min(Free)
    <3>1. m \in Nat /\ k \in Nat /\ m \in Free /\ m <= k
      BY <1>2, <2>2
    <3> HIDE DEF m
    <3>2. m \notin 0 .. (k - 1)
      BY <2>1, <3>1
    <3>3. m = k
      BY <3>1, <3>2
    <3> QED
      BY <3>3 DEF m
  <2>4. AssignAddress(addresses_in_use_, entry_last_offer) = offer_addr_value
    BY <2>1, <2>3 DEF AssignAddress, Free
  <2>5. offer_addr_value \in Pool /\ offer_addr_value # 0
    BY <1>1, <1>2, <2>1, ProbedInPool, PoolBounds
  <2>6. offer_addr_value' = offer_addr_value /\ last_offer_address_' = offer_addr_value
    BY <1>3 DEF Return
  <2>7. ScanIsAssignAddress'
    BY <1>1, <2>4, <2>5, <2>6 DEF ScanIsAssignAddress, LastOfferAfter
  <2>8. TypeOK'
    BY <1>1, <2>5, <2>6, PoolBounds DEF TypeOK, ExitInv
  <2> QED
    BY <1>1, <2>7, <2>8 DEF ScanInv
<1>4. CASE ~addr_value_valid
  <2>1. AssignAddress(addresses_in_use_, entry_last_offer) = 0
    BY <1>1, <1>4 DEF ExitInv, AssignAddress, Free
  <2>2. offer_addr_value' = 0 /\ last_offer_address_' = entry_last_offer
    BY <1>1, <1>4 DEF Return, ExitInv
  <2>3. ScanIsAssignAddress'
    BY <1>1, <2>1, <2>2 DEF ScanIsAssignAddress, LastOfferAfter
  <2>4. TypeOK'
    BY <1>1, <2>2, ZeroDword DEF TypeOK, ExitInv
  <2> QED
    BY <1>1, <2>3, <2>4 DEF ScanInv
<1> QED
  BY <1>3, <1>4

\* So does every step of the loop.
LEMMA ScanStep == ScanInv /\ [Next]_vars => ScanInv'
<1>1. ScanInv /\ UNCHANGED vars => ScanInv'
  BY DEF ScanInv, vars, LoopInv, ExitInv, Free, ScanIsAssignAddress, TypeOK, Restarted
<1> QED
  BY <1>1, ProbeStep, ReturnStep DEF Next

\* The invariant of the loop holds throughout a call of AssignAddress.
THEOREM ScanInvariance == Spec => []ScanInv
BY InitScan, ScanStep, PTL DEF Spec

\* The loop and the definition agree: AssignAddress, which every module that
\* hands out addresses uses, is what the loop of the program computes.
THEOREM LoopIsAssignAddress == Spec => []ScanIsAssignAddress
<1>1. ScanInv => ScanIsAssignAddress
  BY DEF ScanInv, ScanIsAssignAddress
<1> QED
  BY ScanInvariance, <1>1, PTL

\* The DWORDs of the loop stay DWORDs, the counter below the probes' number.
THEOREM ScanTypes == Spec => []TypeOK
<1>1. ASSUME ScanInv PROVE TypeOK
  <2>1. Probes \in Nat
    BY PoolBounds DEF Probes
  <2>2. CASE pc = "probe"
    BY <1>1, <2>1, <2>2 DEF ScanInv, TypeOK, LoopInv
  <2>3. CASE pc = "end"
    BY <1>1, <2>3 DEF ScanInv, TypeOK, ExitInv
  <2> QED
    BY <1>1, <2>2, <2>3 DEF ScanInv
<1> QED
  BY ScanInvariance, <1>1, PTL

\* A scan that fails leaves no more than the last offered address free.
THEOREM ScanRefusesLate == Spec => []RefusalLeavesAtMostLastOffer
<1>1. ASSUME ScanInv, pc = "returned", offer_addr_value = 0,
             NEW v \in Pool, v # entry_last_offer
      PROVE  v \in AddressesInUse
  <2>1. AssignAddress(addresses_in_use_, entry_last_offer) = 0
    BY <1>1 DEF ScanInv, ScanIsAssignAddress
  <2>2. PICK i \in 1 .. Len(addresses_in_use_) : addresses_in_use_[i].dwAddrValue = v
    BY <1>1, <2>1, AssignAddressCorrect DEF ScanInv
  <2>3. addresses_in_use_[i] \in ToSet(addresses_in_use_)
    BY <1>1 DEF ToSet, ScanInv
  <2> QED
    BY <2>2, <2>3 DEF AddressesInUse
<1>2. ScanInv => RefusalLeavesAtMostLastOffer
  BY <1>1 DEF RefusalLeavesAtMostLastOffer
<1> QED
  BY ScanInvariance, <1>2, PTL
=============================================================================
