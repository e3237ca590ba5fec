-------------------------- MODULE AddressPool_proofs --------------------------
(***************************************************************************)
(* The DWORD macros undo each other, and the address table and             *)
(* AssignAddress do what they should: for every table, every range and     *)
(* every number of values of an octet.                                     *)
(***************************************************************************)
EXTENDS AddressPool, WellFoundedInduction, TLAPS

\* A set of natural numbers that is not empty has a least element, and Min
\* is it.
LEMMA MinOfNaturals ==
  ASSUME NEW S \in SUBSET Nat, S # {}
  PROVE  Min(S) \in S /\ \A y \in S : Min(S) <= y
<1> DEFINE R == {ss \in Nat \X Nat : ss[1] < ss[2]}
<1>1. R = OpToRel(<, Nat)
  BY Zenon DEF OpToRel
<1>2. IsWellFoundedOn(R, Nat)
  BY <1>1, NatLessThanWellFounded, Zenon
<1>3. PICK x \in S : \A y \in S : ~(<<y, x>> \in R)
  BY <1>2, WFMin, Zenon
<1>4. ASSUME NEW y \in S PROVE x <= y
  <2>1. x \in Nat /\ y \in Nat /\ ~(<<y, x>> \in R)
    BY <1>3
  <2>2. ~(y < x)
    BY <2>1
  <2> QED
    BY <2>1, <2>2
<1> QED
  BY <1>4 DEF Min

-----------------------------------------------------------------------------
(***************************************************************************)
(* The DWORD macros.                                                       *)
(***************************************************************************)

(***************************************************************************)
(* Shifting an octet in at the low end and out again: the arithmetic the   *)
(* DWIPn macros rest on.                                                   *)
(***************************************************************************)
LEMMA ShiftOutShiftIn ==
  ASSUME NEW q \in Int, NEW r \in Octet
  PROVE  (q * Base + r) \div Base = q /\ (q * Base + r) % Base = r
BY BaseAssumption, SMTT(20) DEF Octet

(***************************************************************************)
(* The four macros pick out the four octets.                               *)
(***************************************************************************)
LEMMA OctetsOf ==
  ASSUME NEW d3 \in Octet, NEW d2 \in Octet, NEW d1 \in Octet, NEW d0 \in Octet
  PROVE  LET dw == OfOctets(d3, d2, d1, d0)
         IN  DWIP0(dw) = d0 /\ DWIP1(dw) = d1 /\ DWIP2(dw) = d2 /\ DWIP3(dw) = d3
<1> DEFINE q1 == d3 * Base + d2
           q2 == q1 * Base + d1
           dw == q2 * Base + d0
<1>1. Octet \subseteq Int
  BY DEF Octet
<1>2. d3 \in Int /\ Base \in Int
  BY <1>1, BaseAssumption
<1>3. q1 \in Int /\ q2 \in Int
  BY <1>1, <1>2
<1>4. q1 \div Base = d3 /\ q1 % Base = d2
  BY <1>2, ShiftOutShiftIn
<1>5. q2 \div Base = q1 /\ q2 % Base = d1
  BY <1>3, ShiftOutShiftIn
<1>6. dw \div Base = q2 /\ dw % Base = d0
  BY <1>3, ShiftOutShiftIn
<1>7. d3 % Base = d3
  BY BaseAssumption, SMT DEF Octet
<1>8. OfOctets(d3, d2, d1, d0) = dw
  BY DEF OfOctets
<1> QED
  BY <1>4, <1>5, <1>6, <1>7, <1>8 DEF DWIP0, DWIP1, DWIP2, DWIP3

(***************************************************************************)
(* Taking an octet off the low end, and putting it back.                   *)
(***************************************************************************)
LEMMA TakeOctet ==
  ASSUME NEW dw \in Nat
  PROVE  /\ dw \div Base \in Nat /\ dw % Base \in Octet
         /\ dw = (dw \div Base) * Base + (dw % Base)
BY BaseAssumption, SMTT(20) DEF Octet

\* A shift by an octet divides the bound of a number by Base.
LEMMA DivideBound ==
  ASSUME NEW dw \in Nat, NEW m \in Nat, dw < m * Base
  PROVE  dw \div Base < m
<1> DEFINE q == dw \div Base
<1>1. q \in Nat /\ dw % Base \in Octet /\ dw = q * Base + (dw % Base)
  BY TakeOctet
<1>2. q * Base <= dw
  BY <1>1, BaseAssumption, SMT DEF Octet
<1>3. ASSUME q >= m PROVE FALSE
  <2> HIDE DEF q
  <2>1. q * Base >= m * Base
    BY <1>1, <1>3, BaseAssumption, SMTT(20)
  <2> QED
    BY <2>1, <1>1, <1>2, BaseAssumption, SMTT(20)
<1> QED
  BY <1>1, <1>3

(***************************************************************************)
(* Every DWORD is made of its four octets.                                 *)
(***************************************************************************)
LEMMA DwordOctets ==
  ASSUME NEW dw \in Dword
  PROVE  /\ DWIP0(dw) \in Octet /\ DWIP1(dw) \in Octet
         /\ DWIP2(dw) \in Octet /\ DWIP3(dw) \in Octet
         /\ dw = OfOctets(DWIP3(dw), DWIP2(dw), DWIP1(dw), DWIP0(dw))
<1> DEFINE B2 == Base * Base
           B3 == B2 * Base
           q1 == dw \div Base
           q2 == q1 \div Base
           q3 == q2 \div Base
<1>1. Base \in Nat /\ B2 \in Nat /\ B3 \in Nat
  BY BaseAssumption, SMTT(20)
<1>2. dw \in Nat /\ dw < B3 * Base
  BY <1>1 DEF Dword
<1>3. q1 \in Nat /\ q1 < B3 /\ dw % Base \in Octet /\ dw = q1 * Base + (dw % Base)
  BY <1>1, <1>2, TakeOctet, DivideBound
<1>4. q2 \in Nat /\ q2 < B2 /\ q1 % Base \in Octet /\ q1 = q2 * Base + (q1 % Base)
  BY <1>1, <1>3, TakeOctet, DivideBound
<1>5. q3 \in Nat /\ q3 < Base /\ q2 % Base \in Octet /\ q2 = q3 * Base + (q2 % Base)
  BY <1>1, <1>4, TakeOctet, DivideBound
<1>6. q3 % Base = q3 /\ q3 \in Octet
  <2> HIDE DEF q3
  <2> QED
    BY <1>1, <1>5, SMTT(20) DEF Octet
<1>7. DWIP0(dw) = dw % Base /\ DWIP1(dw) = q1 % Base /\ DWIP2(dw) = q2 % Base /\ DWIP3(dw) = q3
  BY <1>6 DEF DWIP0, DWIP1, DWIP2, DWIP3
<1> HIDE DEF q1, q2, q3
<1>8. OfOctets(q3, q2 % Base, q1 % Base, dw % Base)
        = ((q3 * Base + (q2 % Base)) * Base + (q1 % Base)) * Base + (dw % Base)
  BY DEF OfOctets
<1>9. OfOctets(q3, q2 % Base, q1 % Base, dw % Base) = dw
  BY <1>3, <1>4, <1>5, <1>8
<1> QED
  BY <1>3, <1>4, <1>5, <1>6, <1>7, <1>9

(***************************************************************************)
(* Octets put together make a DWORD.                                       *)
(***************************************************************************)
LEMMA PutOctet ==
  ASSUME NEW m \in Nat, NEW q \in 0 .. (m - 1), NEW d \in Octet
  PROVE  q * Base + d \in 0 .. (m * Base - 1)
<1>1. Base \in Nat /\ d \in 0 .. (Base - 1)
  BY BaseAssumption DEF Octet
<1>2. q * Base \in Nat /\ m * Base \in Nat /\ (q + 1) * Base = q * Base + Base
  BY <1>1, SMTT(20)
<1>3. (q + 1) * Base <= m * Base
  BY <1>1, SMTT(20)
<1> QED
  BY <1>1, <1>2, <1>3

\* Four octets make a DWORD.
LEMMA OfOctetsType ==
  ASSUME NEW d3 \in Octet, NEW d2 \in Octet, NEW d1 \in Octet, NEW d0 \in Octet
  PROVE  OfOctets(d3, d2, d1, d0) \in Dword
<1>1. Base \in Nat /\ d3 \in 0 .. (Base - 1)
  BY BaseAssumption DEF Octet
<1>2. d3 * Base + d2 \in 0 .. (Base * Base - 1)
  BY <1>1, PutOctet
<1>3. Base * Base \in Nat /\ (Base * Base) * Base \in Nat
  BY <1>1, SMTT(20)
<1>4. (d3 * Base + d2) * Base + d1 \in 0 .. ((Base * Base) * Base - 1)
  BY <1>2, <1>3, PutOctet
<1>5. ((d3 * Base + d2) * Base + d1) * Base + d0 \in 0 .. (((Base * Base) * Base) * Base - 1)
  BY <1>3, <1>4, PutOctet
<1> QED
  BY <1>5 DEF OfOctets, Dword

(***************************************************************************)
(* DWIPtoValue and DWValuetoIP turn DWORDs into DWORDs, and each undoes    *)
(* the other: an address survives the way into the table and out again.    *)
(***************************************************************************)
THEOREM ByteOrderRoundTrip ==
  ASSUME NEW dw \in Dword
  PROVE  /\ DWIPtoValue(dw) \in Dword /\ DWValuetoIP(dw) \in Dword
         /\ DWValuetoIP(DWIPtoValue(dw)) = dw
         /\ DWIPtoValue(DWValuetoIP(dw)) = dw
<1> DEFINE d0 == DWIP0(dw)
           d1 == DWIP1(dw)
           d2 == DWIP2(dw)
           d3 == DWIP3(dw)
           value == OfOctets(d0, d1, d2, d3)
<1>1. d0 \in Octet /\ d1 \in Octet /\ d2 \in Octet /\ d3 \in Octet
      /\ dw = OfOctets(d3, d2, d1, d0)
  BY DwordOctets
<1>2. DWIPtoValue(dw) = value /\ DWValuetoIP(dw) = value
  BY DEF DWIPtoValue, DWValuetoIP
<1> HIDE DEF d0, d1, d2, d3
<1>3. value \in Dword
  BY <1>1, OfOctetsType
<1>4. DWIP0(value) = d3 /\ DWIP1(value) = d2 /\ DWIP2(value) = d1 /\ DWIP3(value) = d0
  BY <1>1, OctetsOf
<1>5. DWIPtoValue(value) = dw /\ DWValuetoIP(value) = dw
  BY <1>1, <1>4 DEF DWIPtoValue, DWValuetoIP
<1> QED
  BY <1>2, <1>3, <1>5

\* 255.255.255.255 is a DWORD.
LEMMA BroadcastType == INADDR_BROADCAST \in Dword
<1>1. Base - 1 \in Octet
  BY BaseAssumption DEF Octet
<1> QED
  BY <1>1, OfOctetsType DEF INADDR_BROADCAST

\* So is 0, and no DWORD is negative.
LEMMA ZeroDword == 0 \in Dword /\ Dword \subseteq Nat
<1>1. Base * Base \in Nat /\ Base * Base >= 1
  BY BaseAssumption, SMTT(20)
<1>2. (Base * Base) * Base \in Nat /\ (Base * Base) * Base >= 1
  BY <1>1, BaseAssumption, SMTT(20)
<1>3. ((Base * Base) * Base) * Base \in Nat /\ ((Base * Base) * Base) * Base >= 1
  BY <1>2, BaseAssumption, SMTT(20)
<1> QED
  BY <1>3 DEF Dword

-----------------------------------------------------------------------------
(***************************************************************************)
(* The address table.                                                      *)
(***************************************************************************)

(***************************************************************************)
(* FindAddrIndex answers -1 exactly when no entry has the address.         *)
(***************************************************************************)
LEMMA FindAddrIndexCorrect ==
  ASSUME NEW S, NEW table \in Seq(S), NEW v
  PROVE  FindAddrIndex(table, v) = -1
           <=> \A i \in 1 .. Len(table) : table[i].dwAddrValue # v
<1> DEFINE I == {i \in 1 .. Len(table) : table[i].dwAddrValue = v}
<1>1. I \in SUBSET Nat /\ 0 \notin I
  OBVIOUS
<1>2. FindAddrIndex(table, v) = (IF I # {} THEN Min(I) ELSE 0) - 1
  BY DEF FindAddrIndex, SelectInSeq
<1>3. CASE I = {}
  BY <1>2, <1>3
<1>4. CASE I # {}
  <2>1. Min(I) \in I
    BY <1>1, <1>4, MinOfNaturals
  <2>2. Min(I) \in Nat /\ Min(I) # 0
    BY <1>1, <2>1
  <2>3. FindAddrIndex(table, v) # -1
    BY <1>2, <1>4, <2>2
  <2> QED
    BY <2>1, <2>3
<1> QED
  BY <1>3, <1>4

(***************************************************************************)
(* CheckIsClientExist stops at an entry of the client, if there is one.    *)
(***************************************************************************)
LEMMA ClientPositionCorrect ==
  ASSUME NEW S, NEW table \in Seq(S), NEW identifier
  PROVE  LET p == ClientPosition(table, identifier)
             IsOfClient(e) == HasIdentifier(e) /\ e.pbClientIdentifier = identifier
         IN  /\ p = 0 => \A i \in 1 .. Len(table) : ~IsOfClient(table[i])
             /\ p # 0 => p \in 1 .. Len(table) /\ IsOfClient(table[p])
<1> DEFINE IsOfClient(e) == HasIdentifier(e) /\ e.pbClientIdentifier = identifier
           I == {i \in 1 .. Len(table) : IsOfClient(table[i])}
<1>1. I \in SUBSET Nat /\ 0 \notin I
  OBVIOUS
<1>2. ClientPosition(table, identifier) = IF I # {} THEN Min(I) ELSE 0
  BY DEF ClientPosition, SelectInSeq
<1>3. CASE I = {}
  BY <1>2, <1>3
<1>4. CASE I # {}
  <2>1. Min(I) \in I
    BY <1>1, <1>4, MinOfNaturals
  <2> QED
    BY <1>1, <1>2, <1>4, <2>1
<1> QED
  BY <1>3, <1>4

(***************************************************************************)
(* The range, and the addresses the scan looks at.                         *)
(***************************************************************************)
LEMMA PoolBounds ==
  /\ min_addr_value \in Nat /\ max_addr_value \in Nat
  /\ 0 < min_addr_value /\ min_addr_value <= max_addr_value
  /\ max_addr_value < INADDR_BROADCAST
  /\ Pool \subseteq Dword /\ 0 \notin Pool
  /\ DWIPtoValue(ServerAddress) \in Dword
<1>1. min_addr_value \in Dword /\ max_addr_value \in Dword /\ DWIPtoValue(ServerAddress) \in Dword
  BY PoolAssumption, ByteOrderRoundTrip DEF min_addr_value, max_addr_value
<1>2. min_addr_value \in Nat /\ max_addr_value \in Nat
  BY <1>1, ZeroDword
<1>3. Pool \subseteq Dword
  <2> DEFINE N == Base * Base * Base * Base
  <2>1. N \in Int /\ Dword = 0 .. (N - 1)
    BY BaseAssumption, SMTT(20) DEF Dword
  <2> HIDE DEF N
  <2> QED
    BY <1>1, <1>2, <2>1 DEF Pool
<1> QED
  BY <1>1, <1>2, <1>3, PoolAssumption DEF Pool

\* No byte order makes an address of 0.
LEMMA ZeroIsZero == DWIPtoValue(0) = 0
<1>1. 0 \in Octet /\ OfOctets(0, 0, 0, 0) = 0
  BY BaseAssumption DEF Octet, OfOctets
<1> QED
  BY <1>1, OctetsOf DEF DWIPtoValue

\* The addresses of the pool, in network order, are neither 0 nor the
\* broadcast address: both are the same in either order.
LEMMA PoolIpFacts ==
  ASSUME NEW v \in Pool
  PROVE  /\ DWValuetoIP(v) \in Dword /\ DWIPtoValue(DWValuetoIP(v)) = v
         /\ DWValuetoIP(v) # 0 /\ DWValuetoIP(v) # INADDR_BROADCAST
<1>1. v \in Dword /\ v # 0 /\ v # INADDR_BROADCAST
  BY PoolBounds DEF Pool
<1>2. DWValuetoIP(v) \in Dword /\ DWIPtoValue(DWValuetoIP(v)) = v
  BY <1>1, ByteOrderRoundTrip
<1>3. Base - 1 \in Octet
  BY BaseAssumption DEF Octet
<1>4. DWIPtoValue(INADDR_BROADCAST) = INADDR_BROADCAST
  BY <1>3, OctetsOf DEF DWIPtoValue, INADDR_BROADCAST
<1> QED
  BY <1>1, <1>2, <1>4, ZeroIsZero

\* Every probe after an address of the pool is of an address of the pool.
LEMMA ProbedInPool ==
  ASSUME NEW last \in Pool, NEW k \in 0 .. (Probes - 1)
  PROVE  Probed(last, k) \in Pool
BY PoolBounds DEF Probed, Probes, Pool

(***************************************************************************)
(* Every address of the range but the last offered is probed, at most.     *)
(***************************************************************************)
LEMMA OthersAreProbed ==
  ASSUME NEW last \in Pool, NEW v \in Pool, v # last
  PROVE  \E k \in 0 .. (Probes - 1) : Probed(last, k) = v
<1>1. CASE v > last
  <2>1. v - last - 1 \in 0 .. (Probes - 1) /\ Probed(last, v - last - 1) = v
    BY <1>1, PoolBounds DEF Probed, Probes, Pool
  <2> QED
    BY <2>1
<1>2. CASE v < last
  <2> DEFINE k == (max_addr_value - last) + (v - min_addr_value)
  <2>1. k \in 0 .. (Probes - 1) /\ Probed(last, k) = v
    BY <1>2, PoolBounds DEF Probed, Probes, Pool
  <2> QED
    BY <2>1
<1> QED
  BY <1>1, <1>2, PoolBounds DEF Pool

(***************************************************************************)
(* AssignAddress returns a free address of the range or, when it returns   *)
(* 0, has found every address in use but perhaps the last offered.         *)
(***************************************************************************)
THEOREM AssignAddressCorrect ==
  ASSUME NEW S, NEW table \in Seq(S), NEW last \in Pool
  PROVE  LET a == AssignAddress(table, last)
             InUse(v) == \E i \in 1 .. Len(table) : table[i].dwAddrValue = v
         IN  /\ a # 0 => a \in Pool /\ ~InUse(a)
             /\ a = 0 => \A v \in Pool \ {last} : InUse(v)
<1> DEFINE a == AssignAddress(table, last)
           InUse(v) == \E i \in 1 .. Len(table) : table[i].dwAddrValue = v
           free == FreeProbes(table, last)
<1>1. free \in SUBSET Nat /\ free \subseteq 0 .. (Probes - 1)
  BY DEF FreeProbes
<1>2. \A k \in 0 .. (Probes - 1) : k \in free <=> ~InUse(Probed(last, k))
  BY FindAddrIndexCorrect DEF FreeProbes
<1>3. a = IF free = {} THEN 0 ELSE Probed(last, Min(free))
  BY DEF AssignAddress
<1> HIDE DEF free, a
<1>4. CASE free = {}
  <2>1. \A v \in Pool \ {last} : InUse(v)
    BY <1>2, <1>4, OthersAreProbed
  <2> QED
    BY <1>3, <1>4, <2>1 DEF a
<1>5. CASE free # {}
  <2>1. Min(free) \in free
    BY <1>1, <1>5, MinOfNaturals
  <2>2. Probed(last, Min(free)) \in Pool /\ ~InUse(Probed(last, Min(free)))
    BY <1>1, <1>2, <2>1, ProbedInPool
  <2> QED
    BY <1>3, <1>5, <2>2, PoolBounds DEF a
<1> QED
  BY <1>4, <1>5
=============================================================================
